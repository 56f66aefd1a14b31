--------------------------- MODULE Details_proofs ---------------------------
(***************************************************************************)
(* Proofs about the list of details: its types, that it shows every        *)
(* recorded time, that it follows the times, and that what it presents is  *)
(* a day, week, month or year.                                             *)
(*                                                                         *)
(* The order of the rows, the totals and the changes row by row are        *)
(* defined by CHOOSE and by folds.  The first part proves what those are,  *)
(* by induction in the form of the least number of a set.  The next parts  *)
(* say what the days are, what a list made anew holds (Made), and what     *)
(* bringing one day up to date changes in a list.  Then the calendar, and  *)
(* the invariant (DetailsInv) with the steps that keep it.                 *)
(***************************************************************************)
EXTENDS Details, FiniteSetTheorems, FunctionTheorems, WellFoundedInduction, TLAPS

-----------------------------------------------------------------------------
(* Induction.  A property of numbers is the set of those that have it.     *)

\* Of some numbers one is the least.
LEMMA LeastNumber ==
  ASSUME NEW N, N \subseteq Nat, N # {}
  PROVE  \E n \in N : \A m \in N : n <= m
<1>1. PICK n \in N : \A m \in N : ~ (<<m, n>> \in OpToRel(<, Nat))
  BY NatLessThanWellFounded, WFMin
<1>2. \A m \in N : ~ (m < n)
  BY <1>1 DEF OpToRel
<1>3. QED
  BY <1>2

\* What 0 has, and n + 1 when n has it, every number has.
LEMMA NumberInduction ==
  ASSUME NEW Has, 0 \in Has, \A n \in Nat : n \in Has => n + 1 \in Has
  PROVE  Nat \subseteq Has
<1> SUFFICES ASSUME Nat \ Has # {} PROVE FALSE
  OBVIOUS
<1>1. PICK n \in Nat \ Has : \A m \in Nat \ Has : n <= m
  BY LeastNumber
<1>2. n # 0 /\ n - 1 \in Nat /\ n - 1 \in Has
  BY <1>1
<1>3. QED
  BY <1>1, <1>2

-----------------------------------------------------------------------------
(* Folds: Op[x][y] is what the member x of a set makes of y, and Pick says *)
(* which member of a set comes last.                                       *)

IsFold(h, S, base, Op, Pick) ==
  h = [s \in SUBSET S |->
         IF s = {} THEN base ELSE Op[Pick[s]][h[s \ {Pick[s]}]]]

Fold(S, base, Op, Pick) == (CHOOSE h : IsFold(h, S, base, Op, Pick))[S]

\* Pick says so of the subsets of S.
Picks_(Pick, S) == \A s \in SUBSET S : s # {} => Pick[s] \in s

\* What a set can be folded with: the results are in V.
Foldable(S, V, base, Op, Pick) ==
  IsFiniteSet(S) /\ base \in V /\ Op \in [S -> [V -> V]] /\ Picks_(Pick, S)

\* There is a function that folds every subset of a finite set.
LEMMA FoldExists ==
  ASSUME NEW S, NEW V, NEW base, NEW Op, NEW Pick, Foldable(S, V, base, Op, Pick)
  PROVE  \E h \in [SUBSET S -> V] : IsFold(h, S, base, Op, Pick)
<1> DEFINE More(h) == [s \in SUBSET S |->
                         IF s = {} THEN base ELSE Op[Pick[s]][h[s \ {Pick[s]}]]]
           UpTo(n, h) == \A s \in SUBSET S : Cardinality(s) <= n => h[s] = More(h)[s]
           Has == {n \in Nat : \E h \in [SUBSET S -> V] : UpTo(n, h)}
<1> USE DEF Foldable
<1>1. \A h \in [SUBSET S -> V] : More(h) \in [SUBSET S -> V]
  <2> SUFFICES ASSUME NEW h \in [SUBSET S -> V], NEW s \in SUBSET S, s # {}
               PROVE  Op[Pick[s]][h[s \ {Pick[s]}]] \in V
    OBVIOUS
  <2>1. Pick[s] \in S /\ h[s \ {Pick[s]}] \in V
    BY DEF Picks_
  <2>2. QED
    BY <2>1
<1>2. \A s \in SUBSET S : IsFiniteSet(s) /\ Cardinality(s) \in Nat
  BY FS_Subset, FS_CardinalityType
<1>3. 0 \in Has
  <2> DEFINE h == [s \in SUBSET S |-> base]
  <2>1. ASSUME NEW s \in SUBSET S, Cardinality(s) <= 0 PROVE s = {}
    BY <1>2, <2>1, FS_EmptySet
  <2>2. h \in [SUBSET S -> V] /\ UpTo(0, h)
    BY <2>1
  <2>3. QED
    BY <2>2
<1>4. ASSUME NEW n \in Nat, n \in Has PROVE n + 1 \in Has
  <2>1. PICK h \in [SUBSET S -> V] : UpTo(n, h)
    BY <1>4
  <2>2. ASSUME NEW s \in SUBSET S, s # {}, Cardinality(s) <= n + 1
        PROVE  More(h)[s \ {Pick[s]}] = h[s \ {Pick[s]}]
    <3>1. Pick[s] \in s
      BY <2>2 DEF Picks_
    <3>2. Cardinality(s \ {Pick[s]}) = Cardinality(s) - 1 /\ Cardinality(s) \in Nat
      BY <1>2, <3>1, FS_RemoveElement
    <3>3. s \ {Pick[s]} \in SUBSET S /\ Cardinality(s \ {Pick[s]}) <= n
      BY <2>2, <3>2
    <3> HIDE DEF More
    <3>4. QED
      BY <2>1, <3>3
  <2>3. UpTo(n + 1, More(h))
    <3> SUFFICES ASSUME NEW s \in SUBSET S, Cardinality(s) <= n + 1
                 PROVE  More(h)[s] = More(More(h))[s]
      OBVIOUS
    <3>1. CASE s = {}
      BY <3>1
    <3>2. CASE s # {}
      <4>1. More(h)[s] = Op[Pick[s]][h[s \ {Pick[s]}]]
        BY <3>2
      <4>2. More(More(h))[s] = Op[Pick[s]][More(h)[s \ {Pick[s]}]]
        BY <3>2
      <4>3. QED
        BY <4>1, <4>2, <2>2, <3>2
    <3>3. QED
      BY <3>1, <3>2
  <2>4. More(h) \in [SUBSET S -> V]
    <3> HIDE DEF More
    <3>1. QED
      BY <1>1, <2>1
  <2> HIDE DEF More, UpTo
  <2>5. QED
    BY <2>3, <2>4
<1>5. Cardinality(S) \in Has
  <2> HIDE DEF Has
  <2>1. Nat \subseteq Has
    BY <1>3, <1>4, NumberInduction
  <2>2. QED
    BY <1>2, <2>1
<1>6. PICK h \in [SUBSET S -> V] : UpTo(Cardinality(S), h)
  BY <1>5
<1>7. h = More(h)
  <2>1. \A s \in SUBSET S : h[s] = More(h)[s]
    BY <1>6, FS_Subset
  <2>2. More(h) \in [SUBSET S -> V]
    BY <1>1
  <2> HIDE DEF More
  <2>3. QED
    BY <2>1, <2>2
<1>8. QED
  BY <1>7 DEF IsFold

OnSubsets(g, S) == g = [s \in SUBSET S |-> g[s]]

Alike(g, h, S, Pick) ==
  /\ g[{}] = h[{}]
  /\ \A s \in SUBSET S : s # {} /\ g[s \ {Pick[s]}] = h[s \ {Pick[s]}] => g[s] = h[s]

\* Functions of the subsets of S are the same when they agree on {}, and on a
\* set if they agree on it without its last member.
LEMMA SameFold ==
  ASSUME NEW S, NEW Pick, NEW g, NEW h, IsFiniteSet(S), Picks_(Pick, S),
         OnSubsets(g, S), OnSubsets(h, S), Alike(g, h, S, Pick)
  PROVE  g = h
<1> DEFINE N == {Cardinality(s) : s \in {u \in SUBSET S : g[u] # h[u]}}
<1>1. SUFFICES ASSUME g # h PROVE FALSE
  OBVIOUS
<1>2. N \subseteq Nat /\ N # {}
  <2>1. \A s \in SUBSET S : Cardinality(s) \in Nat
    BY FS_Subset, FS_CardinalityType
  <2>2. \E s \in SUBSET S : g[s] # h[s]
    BY <1>1 DEF OnSubsets
  <2>3. QED
    BY <2>1, <2>2
<1>3. PICK n \in N : \A m \in N : n <= m
  <2> HIDE DEF N
  <2>1. QED
    BY <1>2, LeastNumber
<1>4. PICK s \in SUBSET S : g[s] # h[s] /\ n = Cardinality(s)
  BY <1>3
<1>5. s # {}
  BY <1>4 DEF Alike
<1>6. Pick[s] \in s /\ IsFiniteSet(s)
  BY <1>5, FS_Subset DEF Picks_
<1>7. Cardinality(s \ {Pick[s]}) = n - 1 /\ n \in Nat
  BY <1>4, <1>6, FS_RemoveElement, FS_CardinalityType
<1>8. g[s \ {Pick[s]}] = h[s \ {Pick[s]}]
  <2>1. ~ (n <= n - 1)
    BY <1>7
  <2>2. n - 1 \notin N
    BY <1>3, <2>1
  <2>3. QED
    BY <1>7, <2>2
<1>9. QED
  BY <1>4, <1>5, <1>8 DEF Alike

\* There is only one.
LEMMA FoldUnique ==
  ASSUME NEW S, IsFiniteSet(S), NEW base, NEW Op, NEW Pick, Picks_(Pick, S),
         NEW g, IsFold(g, S, base, Op, Pick), NEW h, IsFold(h, S, base, Op, Pick)
  PROVE  g = h
<1>1. OnSubsets(g, S) /\ OnSubsets(h, S)
  BY DEF IsFold, OnSubsets
<1>2. g[{}] = h[{}]
  BY DEF IsFold
<1>3. ASSUME NEW s \in SUBSET S, s # {}, g[s \ {Pick[s]}] = h[s \ {Pick[s]}]
      PROVE  g[s] = h[s]
  <2>1. g[s] = Op[Pick[s]][g[s \ {Pick[s]}]] /\ h[s] = Op[Pick[s]][h[s \ {Pick[s]}]]
    BY <1>3 DEF IsFold
  <2>2. QED
    BY <1>3, <2>1
<1>4. Alike(g, h, S, Pick)
  BY <1>2, <1>3 DEF Alike
<1>5. QED
  BY <1>1, <1>4, SameFold

\* The fold that is chosen is this one.
LEMMA FoldIs ==
  ASSUME NEW S, NEW V, NEW base, NEW Op, NEW Pick, NEW g,
         Foldable(S, V, base, Op, Pick), IsFold(g, S, base, Op, Pick)
  PROVE  g[S] = Fold(S, base, Op, Pick)
<1>1. PICK h \in [SUBSET S -> V] : IsFold(h, S, base, Op, Pick)
  BY FoldExists
<1>2. IsFold(CHOOSE f : IsFold(f, S, base, Op, Pick), S, base, Op, Pick)
  BY <1>1, Zenon
<1> IsFiniteSet(S) /\ Picks_(Pick, S)
  BY DEF Foldable
<1>3. g = h
  BY <1>1, FoldUnique
<1>4. (CHOOSE f : IsFold(f, S, base, Op, Pick)) = g
  <2> DEFINE c == CHOOSE f : IsFold(f, S, base, Op, Pick)
  <2>1. IsFold(c, S, base, Op, Pick)
    BY <1>2
  <2> HIDE DEF c
  <2>2. c = g
    BY <2>1, FoldUnique
  <2>3. QED
    BY <2>2 DEF c
<1>5. QED
  BY <1>1, <1>3, <1>4, Zenon DEF Fold

-----------------------------------------------------------------------------
(* Sums of lengths *)

OneOf(s) == CHOOSE x \in s : TRUE
AnyOf(S) == [s \in SUBSET S |-> OneOf(s)]
Adds(tm, S) == [e \in S |-> [n \in Int |-> Length(tm[e]) + n]]

SumsLengths(tm, S) == MapThenSumSet(LAMBDA e : Length(tm[e]), S)

\* The lengths of finitely many entries have a sum, which is a fold.
LEMMA SumIsFold ==
  ASSUME NEW S, IsFiniteSet(S), NEW tm, \A e \in S : Length(tm[e]) \in Int
  PROVE  /\ SumsLengths(tm, S) = Fold(S, 0, Adds(tm, S), AnyOf(S))
         /\ SumsLengths(tm, S) \in Int
<1> DEFINE P(g) == g = [s \in SUBSET S |-> IF s = {} THEN 0 ELSE
                      LET x == CHOOSE x \in s : TRUE
                      IN  Length(tm[x]) + g[s \ {x}]]
           iter == CHOOSE g : P(g)
           Pick == AnyOf(S)
           Op == Adds(tm, S)
<1>1. Foldable(S, Int, 0, Op, Pick)
  <2>1. Op \in [S -> [Int -> Int]]
    BY DEF Adds
  <2>2. Picks_(Pick, S)
    BY Zenon DEF Picks_, AnyOf, OneOf
  <2>3. QED
    BY <2>1, <2>2 DEF Foldable
<1>2. Picks_(Pick, S)
  BY <1>1 DEF Foldable
<1> HIDE DEF Op, Pick
<1>3. PICK h \in [SUBSET S -> Int] : IsFold(h, S, 0, Op, Pick)
  BY <1>1, FoldExists
<1>4. \A g \in [SUBSET S -> Int] : \A s \in SUBSET S : s # {} =>
        LET x == CHOOSE x \in s : TRUE
        IN  Op[Pick[s]][g[s \ {Pick[s]}]] = Length(tm[x]) + g[s \ {x}]
  <2> SUFFICES ASSUME NEW g \in [SUBSET S -> Int], NEW s \in SUBSET S, s # {}
               PROVE  Op[Pick[s]][g[s \ {Pick[s]}]] = Length(tm[OneOf(s)]) + g[s \ {OneOf(s)}]
    BY DEF OneOf
  <2>1. Pick[s] = OneOf(s) /\ OneOf(s) \in S
    BY <1>2 DEF Pick, AnyOf, Picks_
  <2>2. g[s \ {OneOf(s)}] \in Int
    OBVIOUS
  <2>3. QED
    BY <2>1, <2>2 DEF Op, Adds
<1>5. P(h)
  <2>1. h = [s \in SUBSET S |-> h[s]]
    OBVIOUS
  <2>2. \A s \in SUBSET S :
          h[s] = IF s = {} THEN 0 ELSE Op[Pick[s]][h[s \ {Pick[s]}]]
    BY <1>3 DEF IsFold
  <2>3. \A s \in SUBSET S :
          h[s] = IF s = {} THEN 0 ELSE LET x == CHOOSE x \in s : TRUE
                                       IN  Length(tm[x]) + h[s \ {x}]
    BY <1>4, <2>2
  <2>4. QED
    BY <2>1, <2>3
<1>6. P(iter)
  <2> HIDE DEF P
  <2>1. QED
    BY <1>5, Zenon
<1>7. iter = h
  <2>1. OnSubsets(iter, S) /\ OnSubsets(h, S)
    BY <1>6 DEF OnSubsets
  <2>2. iter[{}] = h[{}]
    BY <1>5, <1>6
  <2>3. \A s \in SUBSET S : s # {} => Pick[s] = OneOf(s)
    BY DEF Pick, AnyOf
  <2>4. ASSUME NEW s \in SUBSET S, s # {}, iter[s \ {Pick[s]}] = h[s \ {Pick[s]}]
        PROVE  iter[s] = h[s]
    <3>1. /\ iter[s] = Length(tm[OneOf(s)]) + iter[s \ {OneOf(s)}]
          /\ h[s] = Length(tm[OneOf(s)]) + h[s \ {OneOf(s)}]
      BY <1>5, <1>6, <2>4 DEF OneOf
    <3>2. QED
      BY <2>3, <2>4, <3>1
  <2> HIDE DEF P, iter
  <2>5. Alike(iter, h, S, Pick)
    BY <2>2, <2>4 DEF Alike
  <2>6. QED
    BY <1>2, <2>1, <2>5, SameFold
<1>8. SumsLengths(tm, S) = iter[S]
  BY Zenon DEF SumsLengths, MapThenSumSet, MapThenFoldSet
<1>9. h[S] = Fold(S, 0, Op, Pick) /\ h[S] \in Int
  <2>1. IsFold(h, S, 0, Op, Pick)
    BY <1>3
  <2> HIDE DEF P, iter
  <2>3. h[S] = Fold(S, 0, Op, Pick)
    BY <1>1, <2>1, FoldIs
  <2>4. QED
    BY <1>3, <2>3
<1>10. QED
  BY <1>7, <1>8, <1>9 DEF Op, Pick

\* It depends on nothing else.
LEMMA SameSum ==
  ASSUME NEW S, IsFiniteSet(S), NEW tm, NEW tn, \A e \in S : tn[e] = tm[e],
         \A e \in S : Length(tm[e]) \in Int
  PROVE  SumsLengths(tn, S) = SumsLengths(tm, S)
<1>1. Adds(tn, S) = Adds(tm, S)
  BY DEF Adds
<1>2. \A e \in S : Length(tn[e]) \in Int
  OBVIOUS
<1>3. QED
  BY <1>1, <1>2, SumIsFold

-----------------------------------------------------------------------------
(* Days *)

\* The C library knows when every day begins, not only those of some years.
Endless == DOMAIN Midnight = Int

\* What the calendar is, then
LEMMA EveryDay ==
  ASSUME Endless
  PROVE  /\ Day = Int
         /\ \A d \in Int : Midnight[d] \in Int /\ Civil[d] \in CivilDay
         /\ \A d \in Int : Midnight[d] < Midnight[d + 1]
         /\ \A d \in Int : Hours24 * d < Midnight[d + 1] /\ Midnight[d] < Hours24 * (d + 1)
<1>1. Day = Int
  BY DEF Day, Endless
<1>2. QED
  BY <1>1, CalendarAssumption DEF Endless

\* A later day begins later.
LEMMA LaterDay ==
  ASSUME Endless, NEW m \in Int, NEW n \in Int, m < n
  PROVE  Midnight[m] < Midnight[n]
<1>1. CASE n = m + 1
  BY <1>1, EveryDay
<1>2. CASE n # m + 1
  <2>1. Midnight[m] < Hours24 * (m + 1) /\ Midnight[m] \in Int
    BY EveryDay
  <2>2. Hours24 * (n - 1) < Midnight[(n - 1) + 1] /\ Midnight[n] \in Int
    BY EveryDay
  <2>3. Hours24 * (m + 1) <= Hours24 * (n - 1)
    BY <1>2 DEF Hours24
  <2>4. (n - 1) + 1 = n
    OBVIOUS
  <2>5. QED
    BY <2>1, <2>2, <2>3, <2>4 DEF Hours24
<1>3. QED
  BY <1>1, <1>2

\* A time is of the day that has begun and not ended.
LEMMA DayOfIs ==
  ASSUME Endless, NEW t \in Int
  PROVE  /\ DayOf(t) \in Int
         /\ Midnight[DayOf(t)] <= t /\ t < Midnight[DayOf(t) + 1]
<1> DEFINE d == t \div Hours24
<1>1. d \in Int /\ Hours24 * d <= t /\ t < Hours24 * (d + 1)
  BY DEF Hours24
<1> HIDE DEF d
<1>2. \A n \in Int : Midnight[n] \in Int
  BY EveryDay
<1>3. CASE t < Midnight[d]
  <2>1. DayOf(t) = d - 1
    BY <1>3 DEF DayOf, d
  <2>2. Midnight[d - 1] < Hours24 * ((d - 1) + 1) /\ d - 1 \in Int
    BY <1>1, EveryDay
  <2>3. (d - 1) + 1 = d
    BY <1>1
  <2>4. QED
    BY <1>1, <1>2, <1>3, <2>1, <2>2, <2>3 DEF Hours24
<1>4. CASE ~ (t < Midnight[d]) /\ t < Midnight[d + 1]
  <2>1. DayOf(t) = d
    BY <1>4 DEF DayOf, d
  <2>2. QED
    BY <1>1, <1>2, <1>4, <2>1
<1>5. CASE ~ (t < Midnight[d]) /\ ~ (t < Midnight[d + 1])
  <2>1. DayOf(t) = d + 1
    BY <1>5 DEF DayOf, d
  <2>2. Hours24 * (d + 1) < Midnight[(d + 1) + 1] /\ d + 1 \in Int
    BY <1>1, EveryDay
  <2>3. QED
    BY <1>1, <1>2, <1>5, <2>1, <2>2 DEF Hours24
<1>6. QED
  BY <1>3, <1>4, <1>5

\* It is of no other day.
LEMMA DayIs ==
  ASSUME Endless, NEW t \in Int, NEW d \in Int, Midnight[d] <= t, t < Midnight[d + 1]
  PROVE  DayOf(t) = d
<1>1. /\ DayOf(t) \in Int /\ Midnight[DayOf(t)] <= t
      /\ t < Midnight[DayOf(t) + 1]
  BY DayOfIs
<1>2. \A n \in Int : Midnight[n] \in Int
  BY EveryDay
<1>3. ~ (d + 1 <= DayOf(t))
  <2>1. CASE d + 1 = DayOf(t)
    BY <1>1, <1>2, <2>1
  <2>2. CASE d + 1 < DayOf(t)
    <3>1. d + 1 \in Int /\ DayOf(t) \in Int
      BY <1>1
    <3>2. Midnight[d + 1] < Midnight[DayOf(t)]
      BY <2>2, <3>1, LaterDay
    <3>3. QED
      BY <1>1, <1>2, <3>1, <3>2
  <2>3. QED
    BY <1>1, <2>1, <2>2
<1>4. ~ (DayOf(t) + 1 <= d)
  <2>1. CASE DayOf(t) + 1 = d
    BY <1>1, <1>2, <2>1
  <2>2. CASE DayOf(t) + 1 < d
    <3>1. d \in Int /\ DayOf(t) + 1 \in Int
      BY <1>1
    <3>2. Midnight[DayOf(t) + 1] < Midnight[d]
      BY <2>2, <3>1, LaterDay
    <3>3. QED
      BY <1>1, <1>2, <3>1, <3>2
  <2>3. QED
    BY <1>1, <2>1, <2>2
<1>5. QED
  BY <1>1, <1>3, <1>4

\* An earlier time is not of a later day.
LEMMA EarlierTime ==
  ASSUME Endless, NEW t \in Int, NEW u \in Int, t <= u
  PROVE  DayOf(t) <= DayOf(u)
<1>1. /\ DayOf(t) \in Int /\ Midnight[DayOf(t)] <= t
      /\ DayOf(u) \in Int /\ u < Midnight[DayOf(u) + 1]
  BY DayOfIs
<1>2. \A n \in Int : Midnight[n] \in Int
  BY EveryDay
<1>3. SUFFICES ASSUME DayOf(u) + 1 <= DayOf(t) PROVE FALSE
  BY <1>1
<1>4. CASE DayOf(u) + 1 = DayOf(t)
  BY <1>1, <1>2, <1>4
<1>5. CASE DayOf(u) + 1 < DayOf(t)
  <2>1. DayOf(u) + 1 \in Int /\ DayOf(t) \in Int
    BY <1>1
  <2>2. Midnight[DayOf(u) + 1] < Midnight[DayOf(t)]
    BY <1>5, <2>1, LaterDay
  <2>3. QED
    BY <1>1, <1>2, <2>1, <2>2
<1>6. QED
  BY <1>1, <1>3, <1>4, <1>5

-----------------------------------------------------------------------------
(* Sequences in an order *)

\* A strict order in which any two members of S are
Orders(R, S) ==
  /\ \A x \in S : <<x, x>> \notin R
  /\ \A x, y, z \in S : <<x, y>> \in R /\ <<y, z>> \in R => <<x, z>> \in R
  /\ \A x, y \in S : x # y => <<x, y>> \in R \/ <<y, x>> \in R

\* s has the members of S, each of them once, in the order R.
Ordered(s, S, R) ==
  /\ s \in [1 .. Cardinality(S) -> S]
  /\ \A i, j \in DOMAIN s : i < j => <<s[i], s[j]>> \in R

\* A finite set can be put in order.
LEMMA OrderExists ==
  ASSUME NEW S, NEW R, IsFiniteSet(S), Orders(R, S)
  PROVE  \E s : Ordered(s, S, R)
<1> DEFINE n == Cardinality(S)
           before(x) == {y \in S : <<y, x>> \in R}
           rank == [x \in S |-> Cardinality(before(x)) + 1]
           s == [i \in 1 .. n |-> CHOOSE x \in S : rank[x] = i]
<1>1. n \in Nat
  BY FS_CardinalityType
<1>2. \A x \in S : IsFiniteSet(before(x)) /\ Cardinality(before(x)) \in Nat
  BY FS_Subset, FS_CardinalityType
<1>3. \A x \in S : Cardinality(before(x)) + 1 <= n
  <2> SUFFICES ASSUME NEW x \in S PROVE Cardinality(before(x)) + 1 <= n
    OBVIOUS
  <2>1. before(x) \in SUBSET (S \ {x})
    BY DEF Orders
  <2>2. IsFiniteSet(S \ {x}) /\ Cardinality(S \ {x}) = n - 1
    BY FS_RemoveElement
  <2> HIDE DEF before
  <2>3. Cardinality(before(x)) <= Cardinality(S \ {x})
    BY <2>1, <2>2, FS_Subset
  <2>4. QED
    BY <1>1, <1>2, <2>2, <2>3
<1>4. rank \in [S -> 1 .. n]
  <2> HIDE DEF before
  <2>1. \A x \in S : Cardinality(before(x)) + 1 \in 1 .. n
    BY <1>1, <1>2, <1>3
  <2>2. QED
    BY <2>1
<1>5. \A x, y \in S : <<x, y>> \in R => rank[x] < rank[y]
  <2> SUFFICES ASSUME NEW x \in S, NEW y \in S, <<x, y>> \in R PROVE rank[x] < rank[y]
    OBVIOUS
  <2>1. before(x) \cup {x} \in SUBSET before(y)
    BY DEF Orders
  <2>2. x \notin before(x)
    BY DEF Orders
  <2>3. rank[x] = Cardinality(before(x)) + 1 /\ rank[y] = Cardinality(before(y)) + 1
    OBVIOUS
  <2> HIDE DEF before, rank
  <2>4. /\ IsFiniteSet(before(x) \cup {x})
        /\ Cardinality(before(x) \cup {x}) = Cardinality(before(x)) + 1
    BY <1>2, <2>2, FS_AddElement
  <2>5. IsFiniteSet(before(y))
    BY <1>2
  <2>6. Cardinality(before(x) \cup {x}) <= Cardinality(before(y))
    BY <2>1, <2>5, FS_Subset
  <2>7. QED
    BY <1>2, <2>3, <2>4, <2>6
<1>6. \A x, y \in S : rank[x] = rank[y] => x = y
  <2> HIDE DEF rank
  <2>1. \A x \in S : rank[x] \in Int
    BY <1>4
  <2>2. ASSUME NEW x \in S, NEW y \in S, rank[x] = rank[y], x # y PROVE FALSE
    <3>1. <<x, y>> \in R \/ <<y, x>> \in R
      BY <2>2 DEF Orders
    <3>2. rank[x] < rank[y] \/ rank[y] < rank[x]
      BY <1>5, <3>1
    <3>3. QED
      BY <2>1, <2>2, <3>2
  <2>3. QED
    BY <2>2
<1>7. rank \in Surjection(S, 1 .. n)
  <2> HIDE DEF rank
  <2>1. rank \in Injection(S, 1 .. n)
    BY <1>4, <1>6, Fun_IsInj
  <2>2. IsFiniteSet(1 .. n) /\ Cardinality(1 .. n) = n
    BY <1>1, FS_Interval
  <2>3. QED
    BY <2>1, <2>2, FS_Injection
<1>8. \A i \in 1 .. n : s[i] \in S /\ rank[s[i]] = i
  <2> HIDE DEF rank
  <2>1. \A i \in 1 .. n : \E x \in S : rank[x] = i
    BY <1>7 DEF Surjection
  <2>2. QED
    BY <2>1
<1>9. s \in [1 .. n -> S]
  BY <1>8
<1>10. ASSUME NEW i \in 1 .. n, NEW j \in 1 .. n, i < j PROVE <<s[i], s[j]>> \in R
  <2> HIDE DEF s, rank
  <2>1. s[i] # s[j]
    BY <1>1, <1>8, <1>10
  <2>2. <<s[j], s[i]>> \notin R
    BY <1>1, <1>5, <1>8, <1>10
  <2>3. QED
    BY <1>8, <2>1, <2>2 DEF Orders
<1>11. QED
  <2>1. DOMAIN s = 1 .. n
    OBVIOUS
  <2> HIDE DEF s
  <2>2. QED
    BY <1>9, <1>10, <2>1 DEF Ordered

\* InOrder does it, and leaves nothing out and nothing twice.
LEMMA InOrderIs ==
  ASSUME NEW S, NEW R, IsFiniteSet(S), Orders(R, S)
  PROVE  /\ Ordered(InOrder(S, R), S, R)
         /\ \A x \in S : \E i \in 1 .. Cardinality(S) : InOrder(S, R)[i] = x
         /\ \A i, j \in 1 .. Cardinality(S) : InOrder(S, R)[i] = InOrder(S, R)[j] => i = j
<1> DEFINE n == Cardinality(S)
           s == InOrder(S, R)
<1>1. Ordered(s, S, R)
  <2>1. \E q : Ordered(q, S, R)
    BY OrderExists
  <2>2. \E q \in [1 .. Cardinality(S) -> S] : \A i, j \in DOMAIN q : i < j => <<q[i], q[j]>> \in R
    BY <2>1 DEF Ordered
  <2>3. QED
    BY <2>2, Zenon DEF InOrder, Ordered
<1> HIDE DEF s
<1>2. n \in Nat
  BY FS_CardinalityType
<1>3. s \in [1 .. n -> S] /\ \A i, j \in 1 .. n : i < j => <<s[i], s[j]>> \in R
  BY <1>1 DEF Ordered
<1>4. \A i, j \in 1 .. n : s[i] = s[j] => i = j
  <2> SUFFICES ASSUME NEW i \in 1 .. n, NEW j \in 1 .. n, s[i] = s[j], i # j PROVE FALSE
    OBVIOUS
  <2>1. i < j \/ j < i
    BY <1>2
  <2>2. <<s[i], s[i]>> \in R /\ s[i] \in S
    BY <1>3, <2>1
  <2>3. QED
    BY <2>2 DEF Orders
<1>5. s \in Surjection(1 .. n, S)
  <2>1. s \in Injection(1 .. n, S)
    BY <1>3, <1>4, Fun_IsInj
  <2>2. IsFiniteSet(1 .. n) /\ Cardinality(1 .. n) = n
    BY <1>2, FS_Interval
  <2>3. QED
    BY <2>1, <2>2, FS_Injection
<1>6. \A x \in S : \E i \in 1 .. n : s[i] = x
  BY <1>5 DEF Surjection
<1>7. QED
  BY <1>1, <1>4, <1>6 DEF s

-----------------------------------------------------------------------------
(* The rows that are made *)

Table == [EntryId -> TimeRow \cup {NoRow}]

\* The entries that are listed, and their order
Listed(tm, t, r) ==
  IF t = NoTask THEN {} ELSE {e \in Live(tm) : tm[e].owner = t /\ Overlaps(tm[e], r)}
EarlierIn(tm, S) == {p \in S \X S : Earlier(tm, p[1], p[2])}
Items(tm, t, r) == InOrder(Listed(tm, t, r), EarlierIn(tm, Listed(tm, t, r)))

\* What the row of an entry is, when those of S are listed
SameDay(tm, S, e) == {f \in S : DayOf(tm[f].start) = DayOf(tm[e].start)}
RowIn(tm, S, e) ==
  [id |-> e, start |-> tm[e].start, stop |-> tm[e].stop,
   first |-> ~ \E f \in SameDay(tm, S, e) : Earlier(tm, f, e),
   total |-> IF \E f \in SameDay(tm, S, e) : Earlier(tm, e, f) THEN NoTotal
             ELSE <<SumsLengths(tm, SameDay(tm, S, e))>>]

\* No row of the table is taken for none.
LEMMA RowsAreNotNone ==
  ASSUME NEW tm \in Table
  PROVE  /\ NoRow \notin TimeRow
         /\ Rows(tm) \subseteq EntryId
         /\ \A e \in Rows(tm) : /\ tm[e] \in TimeRow /\ tm[e].start \in Int
                                /\ tm[e].stop \in Int /\ Length(tm[e]) \in Int
         /\ \A e \in EntryId : tm[e] \in TimeRow => e \in Rows(tm)
<1>1. NoRow \notin TimeRow
  <2>1. DOMAIN NoRow = {"none"}
    BY DEF NoRow
  <2>2. \A x \in TimeRow : DOMAIN x = {"owner", "start", "stop", "state"}
    BY DEF TimeRow
  <2>3. QED
    BY <2>1, <2>2
<1>2. \A e \in Rows(tm) : e \in EntryId /\ tm[e] \in TimeRow
  BY DEF Rows, Table
<1>3. \A x \in TimeRow : x.start \in Int /\ x.stop \in Int /\ Length(x) \in Int
  BY DEF TimeRow, Length
<1>4. \A e \in EntryId : tm[e] \in TimeRow => e \in Rows(tm)
  BY <1>1 DEF Rows
<1>5. QED
  BY <1>1, <1>2, <1>3, <1>4

\* The entries are finitely many, and the table is in an order.
LEMMA TableIsOrdered ==
  ASSUME NEW tm \in Table, NEW S, S \subseteq Live(tm)
  PROVE  /\ IsFiniteSet(S) /\ S \subseteq EntryId /\ S \subseteq Rows(tm)
         /\ Orders(EarlierIn(tm, S), S)
         /\ \A e, f \in S : <<e, f>> \in EarlierIn(tm, S) <=> Earlier(tm, e, f)
<1>1. S \subseteq Rows(tm) /\ S \subseteq EntryId
  BY RowsAreNotNone DEF Live
<1>2. IsFiniteSet(S)
  <2>1. IsFiniteSet(EntryId)
    BY DetailsAssumption, FS_Interval DEF EntryId
  <2>2. QED
    BY <1>1, <2>1, FS_Subset
<1>3. \A e, f \in S : <<e, f>> \in EarlierIn(tm, S) <=> Earlier(tm, e, f)
  BY DEF EarlierIn
<1>4. \A e \in S : tm[e].start \in Int /\ e \in Int
  BY <1>1, RowsAreNotNone DEF EntryId
<1>5. Orders(EarlierIn(tm, S), S)
  <2>1. \A e \in S : ~ Earlier(tm, e, e)
    BY <1>4 DEF Earlier
  <2>2. \A e, f, g \in S : Earlier(tm, e, f) /\ Earlier(tm, f, g) => Earlier(tm, e, g)
    BY <1>4 DEF Earlier
  <2>3. \A e, f \in S : e # f => Earlier(tm, e, f) \/ Earlier(tm, f, e)
    BY <1>4 DEF Earlier
  <2>4. QED
    BY <1>3, <2>1, <2>2, <2>3 DEF Orders
<1>6. QED
  BY <1>1, <1>2, <1>3, <1>5

\* The items are those listed, each once, the earlier first.
LEMMA ItemsAre ==
  ASSUME NEW tm \in Table, NEW t, NEW r
  PROVE  LET S == Listed(tm, t, r)
             n == Cardinality(S)
             items == Items(tm, t, r)
         IN  /\ n \in Nat /\ IsFiniteSet(S) /\ S \subseteq Live(tm)
             /\ S \subseteq EntryId /\ S \subseteq Rows(tm)
             /\ items \in [1 .. n -> S]
             /\ \A e \in S : \E i \in 1 .. n : items[i] = e
             /\ \A i, j \in 1 .. n : items[i] = items[j] => i = j
             /\ \A i, j \in 1 .. n : i < j => Earlier(tm, items[i], items[j])
<1> DEFINE S == Listed(tm, t, r)
           n == Cardinality(S)
           items == Items(tm, t, r)
<1>1. S \subseteq Live(tm)
  BY DEF Listed
<1>2. /\ IsFiniteSet(S) /\ S \subseteq EntryId /\ S \subseteq Rows(tm)
      /\ Orders(EarlierIn(tm, S), S)
      /\ \A e, f \in S : <<e, f>> \in EarlierIn(tm, S) <=> Earlier(tm, e, f)
  <2> HIDE DEF S
  <2>1. QED
    BY <1>1, TableIsOrdered
<1>3. n \in Nat
  BY <1>2, FS_CardinalityType
<1>4. /\ Ordered(items, S, EarlierIn(tm, S))
      /\ \A e \in S : \E i \in 1 .. n : items[i] = e
      /\ \A i, j \in 1 .. n : items[i] = items[j] => i = j
  <2>1. items = InOrder(S, EarlierIn(tm, S))
    BY DEF Items
  <2> HIDE DEF S, items
  <2>2. QED
    BY <1>2, <2>1, InOrderIs
<1>5. items \in [1 .. n -> S]
  BY <1>4 DEF Ordered
<1>6. \A i, j \in 1 .. n : i < j => Earlier(tm, items[i], items[j])
  <2>1. \A i, j \in 1 .. n : i < j => <<items[i], items[j]>> \in EarlierIn(tm, S)
    BY <1>4, <1>5 DEF Ordered
  <2> HIDE DEF S, items
  <2>2. QED
    BY <1>2, <1>5, <2>1
<1>7. QED
  BY <1>1, <1>2, <1>3, <1>4, <1>5, <1>6

\* An empty list has no rows.
LEMMA NoItems ==
  ASSUME NEW tm \in Table, NEW r
  PROVE  Items(tm, NoTask, r) = <<>>
<1>1. Listed(tm, NoTask, r) = {}
  BY DEF Listed
<1>2. Cardinality(Listed(tm, NoTask, r)) = 0
  BY <1>1, FS_EmptySet
<1>3. Items(tm, NoTask, r) \in [1 .. 0 -> {}]
  <2>1. Items(tm, NoTask, r) \in [1 .. Cardinality(Listed(tm, NoTask, r)) -> Listed(tm, NoTask, r)]
    BY ItemsAre
  <2>2. QED
    BY <1>1, <1>2, <2>1
<1>4. QED
  BY <1>3

\* Each row is made of its entry and the entries listed of its day.
LEMMA RowsMade ==
  ASSUME Endless, NEW tm \in Table, NEW t, NEW r
  PROVE  CreateRowData(tm, t, r) =
           [i \in 1 .. Cardinality(Listed(tm, t, r)) |->
              RowIn(tm, Listed(tm, t, r), Items(tm, t, r)[i])]
<1> DEFINE S == Listed(tm, t, r)
           n == Cardinality(S)
           items == Items(tm, t, r)
           D(e) == DayOf(tm[e].start)
           Same(i) == SameDay(tm, S, items[i])
           day == [i \in DOMAIN items |-> DayOf(tm[items[i]].start)]
           FirstInDay(i) == i = 1 \/ day[i - 1] # day[i]
           LastInDay(i) == i = Len(items) \/ day[i] # day[i + 1]
           UpTo(i) == {items[j] : j \in {k \in 1 .. i : day[k] = day[i]}}
           Made(i) == [id |-> items[i], start |-> tm[items[i]].start, stop |-> tm[items[i]].stop,
                       first |-> FirstInDay(i),
                       total |-> IF LastInDay(i) THEN <<SumsLengths(tm, UpTo(i))>> ELSE NoTotal]
<1>1. (IF t = NoTask THEN <<>> ELSE ByActivity(tm, t, r)) = items
  <2>1. CASE t = NoTask
    BY <2>1, NoItems
  <2>2. CASE t # NoTask
    BY <2>2 DEF ByActivity, Items, Listed, EarlierIn
  <2>3. QED
    BY <2>1, <2>2
<1>2. CreateRowData(tm, t, r) = [i \in DOMAIN items |-> Made(i)]
  <2> DEFINE its == IF t = NoTask THEN <<>> ELSE ByActivity(tm, t, r)
             Days(q) == [i \in DOMAIN q |-> DayOf(tm[q[i]].start)]
             RowsOf(q) ==
               [i \in DOMAIN q |->
                  [id |-> q[i], start |-> tm[q[i]].start, stop |-> tm[q[i]].stop,
                   first |-> i = 1 \/ Days(q)[i - 1] # Days(q)[i],
                   total |-> IF i = Len(q) \/ Days(q)[i] # Days(q)[i + 1]
                             THEN <<SumsLengths(tm, {q[j] : j \in {k \in 1 .. i :
                                                            Days(q)[k] = Days(q)[i]}})>>
                             ELSE NoTotal]]
  <2>1. its = items
    BY <1>1
  <2>2. CreateRowData(tm, t, r) = RowsOf(its)
    BY Zenon DEF CreateRowData, SumsLengths
  <2>3. RowsOf(items) = [i \in DOMAIN items |-> Made(i)]
    BY Zenon
  <2> HIDE DEF its, items, RowsOf
  <2>4. QED
    BY <2>1, <2>2, <2>3
<1>3. /\ n \in Nat /\ S \subseteq Rows(tm) /\ S \subseteq EntryId
      /\ items \in [1 .. n -> S]
      /\ \A e \in S : \E i \in 1 .. n : items[i] = e
      /\ \A i, j \in 1 .. n : items[i] = items[j] => i = j
      /\ \A i, j \in 1 .. n : i < j => Earlier(tm, items[i], items[j])
  BY ItemsAre
<1> HIDE DEF S, items, n
<1>4. DOMAIN items = 1 .. n /\ Len(items) = n
  BY <1>3
<1>5. \A e \in S : tm[e].start \in Int /\ D(e) \in Int /\ e \in Int
  <2>1. \A e \in S : tm[e].start \in Int /\ e \in Int
    BY <1>3, RowsAreNotNone DEF EntryId
  <2>2. QED
    BY <2>1, DayOfIs
<1>6. \A e, f \in S : Earlier(tm, e, f) => D(e) <= D(f)
  <2> SUFFICES ASSUME NEW e \in S, NEW f \in S, Earlier(tm, e, f) PROVE D(e) <= D(f)
    OBVIOUS
  <2>1. tm[e].start <= tm[f].start /\ tm[e].start \in Int /\ tm[f].start \in Int
    BY <1>5 DEF Earlier
  <2>2. QED
    BY <2>1, EarlierTime
<1>7. \A i, j \in 1 .. n : i <= j => day[i] <= day[j]
  <2> SUFFICES ASSUME NEW i \in 1 .. n, NEW j \in 1 .. n, i <= j PROVE day[i] <= day[j]
    OBVIOUS
  <2>1. day[i] = D(items[i]) /\ day[j] = D(items[j])
    BY <1>4
  <2>2. CASE i = j
    BY <1>3, <1>5, <2>1, <2>2
  <2>3. CASE i # j
    <3>1. i < j
      BY <1>3, <2>3
    <3> HIDE DEF day, D
    <3>2. QED
      BY <1>3, <1>6, <2>1, <3>1
  <2>4. QED
    BY <2>2, <2>3
<1>8. \A i \in 1 .. n : day[i] \in Int /\ day[i] = D(items[i])
  BY <1>3, <1>4, <1>5
<1>9. \A i, j \in 1 .. n : Earlier(tm, items[i], items[j]) <=> i < j
  <2> SUFFICES ASSUME NEW i \in 1 .. n, NEW j \in 1 .. n
               PROVE  Earlier(tm, items[i], items[j]) <=> i < j
    OBVIOUS
  <2>1. items[i] \in S /\ items[j] \in S
    BY <1>3
  <2>2. i < j \/ i = j \/ j < i
    OBVIOUS
  <2>3. ASSUME i < j PROVE Earlier(tm, items[i], items[j])
    BY <1>3, <2>3
  <2>4. ASSUME j < i PROVE Earlier(tm, items[j], items[i])
    BY <1>3, <2>4
  <2>5. ~ (Earlier(tm, items[i], items[j]) /\ Earlier(tm, items[j], items[i]))
    BY <1>5, <2>1 DEF Earlier
  <2>6. i = j => ~ Earlier(tm, items[i], items[j])
    BY <2>5
  <2>7. QED
    BY <2>2, <2>3, <2>4, <2>5, <2>6
<1>10. \A i \in 1 .. n : Same(i) = {items[j] : j \in {k \in 1 .. n : day[k] = day[i]}}
  <2> SUFFICES ASSUME NEW i \in 1 .. n
               PROVE  Same(i) = {items[j] : j \in {k \in 1 .. n : day[k] = day[i]}}
    OBVIOUS
  <2> HIDE DEF day
  <2>1. QED
    BY <1>3, <1>8 DEF SameDay
<1> HIDE DEF Same, D
<1>11. \A i \in 1 .. n : FirstInDay(i) <=> ~ \E f \in Same(i) : Earlier(tm, f, items[i])
  <2> SUFFICES ASSUME NEW i \in 1 .. n
               PROVE  FirstInDay(i) <=> ~ \E f \in Same(i) : Earlier(tm, f, items[i])
    OBVIOUS
  <2>1. (\E f \in Same(i) : Earlier(tm, f, items[i])) <=> \E j \in 1 .. n : day[j] = day[i] /\ j < i
    <3> HIDE DEF day
    <3>1. QED
      BY <1>9, <1>10
  <2> HIDE DEF day
  <2>2. CASE i = 1
    BY <1>3, <2>1, <2>2
  <2>3. CASE i # 1
    <3>1. i - 1 \in 1 .. n /\ i - 1 < i
      BY <1>3, <2>3
    <3>2. ASSUME NEW j \in 1 .. n, day[j] = day[i], j < i PROVE day[i - 1] = day[i]
      <4>1. j <= i - 1 /\ i - 1 <= i
        BY <1>3, <3>2
      <4>2. day[j] <= day[i - 1] /\ day[i - 1] <= day[i]
        BY <1>7, <3>1, <4>1
      <4>3. QED
        BY <1>8, <3>1, <3>2, <4>2
    <3>3. QED
      BY <2>1, <2>3, <3>1, <3>2
  <2>4. QED
    BY <2>2, <2>3
<1>12. \A i \in 1 .. n : LastInDay(i) <=> ~ \E f \in Same(i) : Earlier(tm, items[i], f)
  <2> SUFFICES ASSUME NEW i \in 1 .. n
               PROVE  LastInDay(i) <=> ~ \E f \in Same(i) : Earlier(tm, items[i], f)
    OBVIOUS
  <2>1. (\E f \in Same(i) : Earlier(tm, items[i], f)) <=> \E j \in 1 .. n : day[j] = day[i] /\ i < j
    <3> HIDE DEF day
    <3>1. QED
      BY <1>9, <1>10
  <2> HIDE DEF day
  <2>2. CASE i = n
    BY <1>3, <1>4, <2>1, <2>2
  <2>3. CASE i # n
    <3>1. i + 1 \in 1 .. n /\ i < i + 1
      BY <1>3, <2>3
    <3>2. ASSUME NEW j \in 1 .. n, day[j] = day[i], i < j PROVE day[i] = day[i + 1]
      <4>1. i <= i + 1 /\ i + 1 <= j
        BY <1>3, <3>2
      <4>2. day[i] <= day[i + 1] /\ day[i + 1] <= day[j]
        BY <1>7, <3>1, <4>1
      <4>3. QED
        BY <1>8, <3>1, <3>2, <4>2
    <3>3. QED
      BY <1>4, <2>1, <2>3, <3>1, <3>2
  <2>4. QED
    BY <2>2, <2>3
<1>13. \A i \in 1 .. n : LastInDay(i) => UpTo(i) = Same(i)
  <2> SUFFICES ASSUME NEW i \in 1 .. n, LastInDay(i) PROVE UpTo(i) = Same(i)
    OBVIOUS
  <2>1. \A j \in 1 .. n : day[j] = day[i] => ~ (i < j)
    <3>1. ~ \E f \in Same(i) : Earlier(tm, items[i], f)
      BY <1>12
    <3> HIDE DEF day
    <3>2. QED
      BY <1>9, <1>10, <3>1
  <2> HIDE DEF day
  <2>2. {k \in 1 .. i : day[k] = day[i]} = {k \in 1 .. n : day[k] = day[i]}
    BY <1>3, <2>1
  <2>3. QED
    BY <1>10, <2>2
<1>14. \A i \in 1 .. n : Made(i) = RowIn(tm, S, items[i])
  <2> SUFFICES ASSUME NEW i \in 1 .. n PROVE Made(i) = RowIn(tm, S, items[i])
    OBVIOUS
  <2> HIDE DEF UpTo, FirstInDay, LastInDay
  <2>1. FirstInDay(i) = ~ \E f \in Same(i) : Earlier(tm, f, items[i])
    BY <1>11, Zenon DEF FirstInDay
  <2>2. (IF LastInDay(i) THEN <<SumsLengths(tm, UpTo(i))>> ELSE NoTotal) =
          IF \E f \in Same(i) : Earlier(tm, items[i], f) THEN NoTotal
          ELSE <<SumsLengths(tm, Same(i))>>
    <3>1. LastInDay(i) <=> ~ \E f \in Same(i) : Earlier(tm, items[i], f)
      BY <1>12
    <3>2. CASE LastInDay(i)
      BY <1>13, <3>1, <3>2
    <3>3. CASE ~ LastInDay(i)
      BY <3>1, <3>3
    <3>4. QED
      BY <3>2, <3>3
  <2>3. QED
    BY <2>1, <2>2, Zenon DEF RowIn, Same
<1>15. CreateRowData(tm, t, r) = [i \in 1 .. n |-> RowIn(tm, S, items[i])]
  <2> HIDE DEF Made
  <2>1. QED
    BY <1>2, <1>4, <1>14
<1>16. QED
  BY <1>15 DEF S, n, items

\* A row says which entry it is of, when it started and stopped, and the
\* total exactly when no later entry of its day is listed.
LEMMA RowInIs ==
  ASSUME NEW tm \in Table, NEW S, S \subseteq Live(tm), NEW e \in S
  PROVE  /\ RowIn(tm, S, e) \in ListRow /\ RowIn(tm, S, e).id = e
         /\ RowIn(tm, S, e).start = tm[e].start /\ RowIn(tm, S, e).stop = tm[e].stop
         /\ RowIn(tm, S, e).total = NoTotal <=>
              \E f \in SameDay(tm, S, e) : Earlier(tm, e, f)
<1> DEFINE G == SameDay(tm, S, e)
           later == \E f \in G : Earlier(tm, e, f)
           first == ~ \E f \in G : Earlier(tm, f, e)
           total == IF later THEN NoTotal ELSE <<SumsLengths(tm, G)>>
<1>1. IsFiniteSet(S) /\ S \subseteq EntryId /\ S \subseteq Rows(tm)
  BY TableIsOrdered
<1>2. SumsLengths(tm, G) \in Int
  <2>1. G \in SUBSET S
    BY DEF SameDay
  <2>2. IsFiniteSet(G) /\ \A f \in G : Length(tm[f]) \in Int
    BY <1>1, <2>1, FS_Subset, RowsAreNotNone
  <2> HIDE DEF G
  <2>3. QED
    BY <2>2, SumIsFold
<1>3. e \in EntryId /\ tm[e].start \in Int /\ tm[e].stop \in Int
  BY <1>1, RowsAreNotNone
<1>4. RowIn(tm, S, e) = [id |-> e, start |-> tm[e].start, stop |-> tm[e].stop,
                         first |-> first, total |-> total]
  BY DEF RowIn
<1>5. total \in Seq(Int) /\ first \in BOOLEAN
  BY <1>2 DEF NoTotal
<1>6. total = NoTotal <=> later
  BY DEF NoTotal
<1> HIDE DEF G, later, first, total
<1>7. QED
  BY <1>3, <1>4, <1>5, <1>6 DEF ListRow, later, G

\* The rows that are made are those of the entries listed.
LEMMA DataAre ==
  ASSUME Endless, NEW tm \in Table, NEW t, NEW r
  PROVE  LET data == CreateRowData(tm, t, r)
             S == Listed(tm, t, r)
         IN  /\ data \in Seq(ListRow) /\ DOMAIN data = 1 .. Cardinality(S)
             /\ \A i \in DOMAIN data : /\ Items(tm, t, r)[i] = data[i].id
                                       /\ data[i].id \in S
                                       /\ data[i] = RowIn(tm, S, data[i].id)
                                       /\ data[i].start = tm[data[i].id].start
                                       /\ data[i].stop = tm[data[i].id].stop
             /\ \A i, j \in DOMAIN data : data[i].id = data[j].id => i = j
             /\ \A e \in S : \E i \in DOMAIN data : data[i].id = e
<1> DEFINE S == Listed(tm, t, r)
           n == Cardinality(S)
           items == Items(tm, t, r)
           data == CreateRowData(tm, t, r)
<1>1. data = [i \in 1 .. n |-> RowIn(tm, S, items[i])]
  BY RowsMade
<1>2. /\ n \in Nat /\ S \subseteq Live(tm)
      /\ items \in [1 .. n -> S]
      /\ \A e \in S : \E i \in 1 .. n : items[i] = e
      /\ \A i, j \in 1 .. n : items[i] = items[j] => i = j
  BY ItemsAre
<1> HIDE DEF S, items, data, n
<1>3. \A e \in S : /\ RowIn(tm, S, e) \in ListRow /\ RowIn(tm, S, e).id = e
                   /\ RowIn(tm, S, e).start = tm[e].start
                   /\ RowIn(tm, S, e).stop = tm[e].stop
  <2>1. S \subseteq Live(tm)
    BY <1>2
  <2>2. QED
    BY <2>1, RowInIs
<1>4. DOMAIN data = 1 .. n /\ \A i \in 1 .. n : items[i] \in S /\ data[i] = RowIn(tm, S, items[i])
  BY <1>1, <1>2
<1>5. data \in Seq(ListRow)
  <2>1. data \in [1 .. n -> ListRow]
    BY <1>1, <1>2, <1>3
  <2>2. QED
    BY <1>2, <2>1
<1>6. \A i \in 1 .. n : data[i].id = items[i]
  BY <1>3, <1>4
<1>7. QED
  BY <1>2, <1>3, <1>4, <1>5, <1>6 DEF S, items, data, n

\* What populate() makes
Made(tm, t, r) ==
  [rows |-> CreateRowData(tm, t, r), narrowed |-> FALSE, stirred |-> FALSE]

\* populate() makes the rows of what is presented.
LEMMA PopulatedIsMade ==
  ASSUME NEW tm
  PROVE  Populated(tm) = Made(tm, presented, range)
BY DEF Populated, Made

\* No id is in two rows of the list.
OneRowEach(l) == \A i, j \in DOMAIN l.rows : l.rows[i].id = l.rows[j].id => i = j

\* All ids are of rows of the table.
Known(l, tm) == \A i \in DOMAIN l.rows : l.rows[i].id \in Rows(tm)

\* Made is a list with one row for an entry, and all entries are in the table.
LEMMA MadeIsAList ==
  ASSUME Endless, NEW tm \in Table, NEW t, NEW r
  PROVE  Made(tm, t, r) \in List /\ OneRowEach(Made(tm, t, r)) /\ Known(Made(tm, t, r), tm)
<1>1. /\ CreateRowData(tm, t, r) \in Seq(ListRow)
      /\ \A i, j \in DOMAIN CreateRowData(tm, t, r) :
            CreateRowData(tm, t, r)[i].id = CreateRowData(tm, t, r)[j].id => i = j
      /\ \A i \in DOMAIN CreateRowData(tm, t, r) :
            CreateRowData(tm, t, r)[i].id \in Listed(tm, t, r)
  BY DataAre
<1>2. Listed(tm, t, r) \subseteq Rows(tm)
  BY ItemsAre
<1>3. QED
  BY <1>1, <1>2 DEF Made, List, OneRowEach, Known

-----------------------------------------------------------------------------
(* Bringing rows up to date *)

\* What one row of the data makes of a list; pop is the list made anew.
Brought(ll, pop, data) ==
  IF Shows(ll, data.id)
  THEN [ll EXCEPT !.rows = [i \in DOMAIN ll.rows |->
          IF ll.rows[i].id = data.id THEN UpdateRow(ll.rows[i], data) ELSE ll.rows[i]]]
  ELSE pop

\* Only an empty total keeps the one that was shown.
LEMMA RowUpdated ==
  ASSUME NEW row \in ListRow, NEW data \in ListRow
  PROVE  /\ UpdateRow(row, data) \in ListRow /\ UpdateRow(row, data).id = data.id
         /\ UpdateRow(row, data).start = data.start /\ UpdateRow(row, data).stop = data.stop
         /\ (data.total = NoTotal => row.total = NoTotal) => UpdateRow(row, data) = data
<1>1. (IF data.total = NoTotal THEN row.total ELSE data.total) \in Seq(Int)
  BY DEF ListRow
<1>2. QED
  BY <1>1 DEF UpdateRow, ListRow

\* When the entry is shown: the same rows, and only its row is another one.
LEMMA BroughtIs ==
  ASSUME NEW ll \in List, NEW pop, NEW data \in ListRow, Shows(ll, data.id)
  PROVE  /\ Brought(ll, pop, data) \in List
         /\ Brought(ll, pop, data).narrowed = ll.narrowed
         /\ Brought(ll, pop, data).stirred = ll.stirred
         /\ DOMAIN Brought(ll, pop, data).rows = DOMAIN ll.rows
         /\ \A i \in DOMAIN ll.rows :
              Brought(ll, pop, data).rows[i] = IF ll.rows[i].id = data.id
                                               THEN UpdateRow(ll.rows[i], data) ELSE ll.rows[i]
         /\ \A i \in DOMAIN ll.rows : Brought(ll, pop, data).rows[i].id = ll.rows[i].id
<1> DEFINE rows == [i \in DOMAIN ll.rows |->
                      IF ll.rows[i].id = data.id THEN UpdateRow(ll.rows[i], data)
                      ELSE ll.rows[i]]
<1>1. ll.rows \in Seq(ListRow) /\ ll.narrowed \in BOOLEAN /\ ll.stirred \in BOOLEAN
      /\ ll = [rows |-> ll.rows, narrowed |-> ll.narrowed, stirred |-> ll.stirred]
  BY DEF List
<1>2. \A i \in DOMAIN ll.rows : ll.rows[i] \in ListRow
  BY <1>1
<1>3. \A i \in DOMAIN ll.rows : /\ rows[i] \in ListRow
                                /\ rows[i].id = ll.rows[i].id
  BY <1>2, RowUpdated
<1>4. rows \in Seq(ListRow)
  <2>1. PICK n \in Nat : DOMAIN ll.rows = 1 .. n
    BY <1>1
  <2>2. rows \in [1 .. n -> ListRow]
    BY <1>3, <2>1
  <2> HIDE DEF rows
  <2>3. QED
    BY <2>2
<1>5. Brought(ll, pop, data) = [rows |-> rows, narrowed |-> ll.narrowed, stirred |-> ll.stirred]
  BY <1>1 DEF Brought
<1>6. DOMAIN rows = DOMAIN ll.rows
  OBVIOUS
<1>7. QED
  BY <1>1, <1>3, <1>4, <1>5, <1>6 DEF List

\* Whatever is brought up to date, the list is a list.
LEMMA BroughtIsAList ==
  ASSUME NEW ll \in List, NEW pop \in List, NEW data \in ListRow
  PROVE  /\ Brought(ll, pop, data) \in List
         /\ OneRowEach(ll) /\ OneRowEach(pop) => OneRowEach(Brought(ll, pop, data))
         /\ \A tm : Known(ll, tm) /\ Known(pop, tm) => Known(Brought(ll, pop, data), tm)
<1>1. CASE Shows(ll, data.id)
  BY <1>1, BroughtIs DEF OneRowEach, Known
<1>2. CASE ~ Shows(ll, data.id)
  BY <1>2 DEF Brought
<1>3. QED
  BY <1>1, <1>2

\* What 0 has, and each of 1 .. n when the one before has it, all have.
LEMMA Counting ==
  ASSUME NEW n \in Nat, NEW Has, 0 \in Has, \A k \in 1 .. n : k - 1 \in Has => k \in Has
  PROVE  0 .. n \subseteq Has
<1> DEFINE All == {k \in Nat : k <= n => k \in Has}
<1>1. 0 \in All
  OBVIOUS
<1>2. \A k \in Nat : k \in All => k + 1 \in All
  <2> SUFFICES ASSUME NEW k \in Nat, k \in All, k + 1 <= n PROVE k + 1 \in Has
    OBVIOUS
  <2>1. k \in Has /\ k + 1 \in 1 .. n /\ (k + 1) - 1 = k
    OBVIOUS
  <2>2. QED
    BY <2>1
<1>3. Nat \subseteq All
  <2> HIDE DEF All
  <2>1. QED
    BY <1>1, <1>2, NumberInduction
<1>4. QED
  BY <1>3

\* A set of some of the numbers 1 .. n has a greatest one.
LEMMA MaxIsIn ==
  ASSUME NEW n \in Nat, NEW s \in SUBSET (1 .. n), s # {}
  PROVE  Max(s) \in s /\ \A x \in s : Max(s) >= x
<1> DEFINE N == {n - x : x \in s}
<1>1. N \subseteq Nat /\ N # {}
  <2>1. \A x \in s : n - x \in Nat
    OBVIOUS
  <2>2. QED
    BY <2>1
<1>2. PICK m \in N : \A k \in N : m <= k
  <2> HIDE DEF N
  <2>1. QED
    BY <1>1, LeastNumber
<1>3. PICK x \in s : m = n - x
  BY <1>2
<1>4. \A y \in s : x >= y
  <2> SUFFICES ASSUME NEW y \in s PROVE x >= y
    OBVIOUS
  <2>1. n - y \in N
    OBVIOUS
  <2>2. n - x <= n - y
    BY <1>2, <1>3, <2>1
  <2>3. x \in Nat /\ y \in Nat
    OBVIOUS
  <2>4. QED
    BY <2>2, <2>3
<1>5. QED
  BY <1>4, Zenon DEF Max

\* g[k]: the list l after k rows of the data were brought up to date
Steps(g, l, tm, data) ==
  /\ g \in [0 .. Len(data) -> List]
  /\ g[0] = l /\ g[Len(data)] = Updated(l, tm, data)
  /\ \A k \in 1 .. Len(data) : g[k] = Brought(g[k - 1], Populated(tm), data[k])

\* The first numbers, and the last of them
LEMMA FirstNumbers ==
  ASSUME NEW n \in Nat, NEW k \in 1 .. n
  PROVE  1 .. k \in SUBSET (1 .. n) /\ 1 .. k # {} /\ Max(1 .. k) = k
<1>1. 1 .. k \in SUBSET (1 .. n) /\ k \in 1 .. k
  OBVIOUS
<1>2. Max(1 .. k) \in 1 .. k /\ Max(1 .. k) >= k
  BY <1>1, MaxIsIn
<1>3. QED
  BY <1>1, <1>2

\* What is brought up to date is so one row of the data after the other.
LEMMA UpdatedSteps ==
  ASSUME NEW l, NEW tm, NEW data, l \in List, data \in Seq(ListRow), Populated(tm) \in List
  PROVE  \E g : Steps(g, l, tm, data)
<1> DEFINE S == DOMAIN data
           n == Len(data)
           pop == Populated(tm)
           P(g) == g = [s \in SUBSET S |-> IF s = {} THEN l ELSE
                          LET x == Max(s) IN Brought(g[s \ {x}], pop, data[x])]
           iter == CHOOSE g : P(g)
           Pick == [s \in SUBSET S |-> Max(s)]
           Op == [x \in S |-> [ll \in List |-> Brought(ll, pop, data[x])]]
<1>1. n \in Nat /\ S = 1 .. n /\ \A x \in S : data[x] \in ListRow
  OBVIOUS
<1>2. Picks_(Pick, S)
  BY <1>1, MaxIsIn DEF Picks_
<1>3. Foldable(S, List, l, Op, Pick)
  <2>1. \A x \in S : \A ll \in List : Brought(ll, pop, data[x]) \in List
    BY <1>1, BroughtIsAList
  <2>2. Op \in [S -> [List -> List]]
    BY <2>1
  <2>3. IsFiniteSet(S)
    BY <1>1, FS_Interval
  <2> HIDE DEF Op, Pick, S
  <2>4. QED
    BY <1>2, <2>2, <2>3 DEF Foldable
<1>4. PICK h \in [SUBSET S -> List] : IsFold(h, S, l, Op, Pick)
  <2> HIDE DEF Op, Pick, S
  <2>1. QED
    BY <1>3, FoldExists
<1>5. h[{}] = l
  BY <1>4 DEF IsFold
<1>6. ASSUME NEW s \in SUBSET S, s # {}
      PROVE  h[s] = Brought(h[s \ {Max(s)}], pop, data[Max(s)])
  <2>1. h[s] = Op[Pick[s]][h[s \ {Pick[s]}]]
    BY <1>4, <1>6 DEF IsFold
  <2>2. Pick[s] = Max(s) /\ Max(s) \in S /\ h[s \ {Max(s)}] \in List
    BY <1>2, <1>6 DEF Picks_
  <2>3. QED
    BY <2>1, <2>2
<1>7. P(h)
  <2>1. h = [s \in SUBSET S |-> h[s]]
    OBVIOUS
  <2>2. \A s \in SUBSET S : h[s] = IF s = {} THEN l ELSE
                                   LET x == Max(s) IN Brought(h[s \ {x}], pop, data[x])
    BY <1>5, <1>6
  <2>3. QED
    BY <2>1, <2>2
<1>8. P(iter)
  <2> HIDE DEF P
  <2>1. QED
    BY <1>7, Zenon
<1>9. iter = h
  <2>1. OnSubsets(iter, S) /\ OnSubsets(h, S)
    BY <1>8 DEF OnSubsets
  <2>2. iter[{}] = h[{}]
    BY <1>5, <1>8
  <2>3. ASSUME NEW s \in SUBSET S, s # {}, iter[s \ {Pick[s]}] = h[s \ {Pick[s]}]
        PROVE  iter[s] = h[s]
    <3>1. iter[s] = Brought(iter[s \ {Max(s)}], pop, data[Max(s)])
      BY <1>8, <2>3
    <3>2. Pick[s] = Max(s)
      OBVIOUS
    <3>3. QED
      BY <1>6, <2>3, <3>1, <3>2
  <2>4. IsFiniteSet(S)
    BY <1>1, FS_Interval
  <2> HIDE DEF P, iter, Pick, S
  <2>5. Alike(iter, h, S, Pick)
    BY <2>2, <2>3 DEF Alike
  <2>6. QED
    BY <1>2, <2>1, <2>4, <2>5, SameFold
<1>10. Updated(l, tm, data) = iter[S]
  BY Zenon DEF Updated, FoldLeft, MapThenFoldSet, Brought
<1> DEFINE g == [k \in 0 .. n |-> h[1 .. k]]
<1>11. \A k \in 0 .. n : 1 .. k \in SUBSET S /\ h[1 .. k] \in List
  BY <1>1
<1>12. g \in [0 .. n -> List]
  BY <1>11
<1>13. g[0] = l
  <2>1. 1 .. 0 = {}
    OBVIOUS
  <2>2. QED
    BY <1>1, <1>5, <2>1
<1>14. g[n] = Updated(l, tm, data)
  <2>1. g[n] = h[S]
    BY <1>1
  <2> HIDE DEF P, iter
  <2>2. QED
    BY <1>9, <1>10, <2>1
<1>15. ASSUME NEW k \in 1 .. n PROVE g[k] = Brought(g[k - 1], pop, data[k])
  <2> HIDE DEF P, iter, Pick, Op, g
  <2>1. 1 .. k \in SUBSET S /\ 1 .. k # {} /\ Max(1 .. k) = k
    BY <1>1, FirstNumbers
  <2>2. (1 .. k) \ {k} = 1 .. (k - 1)
    OBVIOUS
  <2>3. h[1 .. k] = Brought(h[1 .. (k - 1)], pop, data[k])
    BY <1>6, <2>1, <2>2
  <2>4. k \in 0 .. n /\ k - 1 \in 0 .. n
    BY <1>1
  <2>5. g[k] = h[1 .. k] /\ g[k - 1] = h[1 .. (k - 1)]
    BY <2>4 DEF g
  <2>6. QED
    BY <2>3, <2>5
<1> HIDE DEF g, pop, n
<1>16. QED
  BY <1>12, <1>13, <1>14, <1>15 DEF n, pop, Steps

\* A change of an entry leaves a list that has no entry twice.
LEMMA ChangedIsAList ==
  ASSUME Endless, NEW tm \in Table, NEW l \in List, OneRowEach(l), Known(l, tm), NEW e
  PROVE  /\ OnTimeEntryChanged(l, tm, e) \in List
         /\ OneRowEach(OnTimeEntryChanged(l, tm, e))
         /\ Known(OnTimeEntryChanged(l, tm, e), tm)
<1> DEFINE data == CreateRowData(tm, presented, DayRange(tm[e].start))
           n == Len(data)
           pop == Populated(tm)
<1>1. pop \in List /\ OneRowEach(pop) /\ Known(pop, tm)
  BY MadeIsAList, PopulatedIsMade
<1>2. data \in Seq(ListRow)
  BY DataAre
<1>3. n \in Nat /\ \A k \in 1 .. n : data[k] \in ListRow
  BY <1>2
<1> HIDE DEF data, n, pop
<1>4. PICK g \in [0 .. n -> List] :
        /\ g[0] = l /\ g[n] = Updated(l, tm, data)
        /\ \A k \in 1 .. n : g[k] = Brought(g[k - 1], pop, data[k])
  <2>1. \E g : Steps(g, l, tm, data)
    BY <1>1, <1>2, UpdatedSteps DEF pop
  <2>2. QED
    BY <2>1 DEF Steps, n, pop
<1> DEFINE Has == {k \in 0 .. n : OneRowEach(g[k]) /\ Known(g[k], tm)}
<1>5. 0 \in Has
  BY <1>3, <1>4
<1>6. ASSUME NEW k \in 1 .. n, k - 1 \in Has PROVE k \in Has
  <2>1. g[k - 1] \in List /\ OneRowEach(g[k - 1]) /\ Known(g[k - 1], tm)
    BY <1>3, <1>6
  <2>2. OneRowEach(Brought(g[k - 1], pop, data[k])) /\ Known(Brought(g[k - 1], pop, data[k]), tm)
    BY <1>1, <1>3, <2>1, BroughtIsAList
  <2>3. QED
    BY <1>3, <1>4, <2>2
<1>7. n \in Has
  <2> HIDE DEF Has
  <2>1. 0 .. n \subseteq Has
    BY <1>3, <1>5, <1>6, Counting
  <2>2. QED
    BY <1>3, <2>1
<1>8. /\ Updated(l, tm, data) \in List /\ OneRowEach(Updated(l, tm, data))
      /\ Known(Updated(l, tm, data), tm)
  BY <1>3, <1>4, <1>7
<1>9. QED
  BY <1>1, <1>8 DEF OnTimeEntryChanged, data, pop

-----------------------------------------------------------------------------
(* Every recording is shown *)

\* The entries that have to be shown
Due(tm, t, r) ==
  {f \in Live(tm) : /\ tm[f].owner = t /\ Overlaps(tm[f], r) /\ Length(tm[f]) > 0
                    /\ Overlaps(tm[f], DayRange(tm[f].start))}

\* The list shows when the entry started and stopped.
Right(ll, tm, f) ==
  \E i \in DOMAIN ll.rows : /\ ll.rows[i].id = f /\ ll.rows[i].start = tm[f].start
                            /\ ll.rows[i].stop = tm[f].stop

\* A list that was made anew shows all of them.
LEMMA MadeIsRight ==
  ASSUME Endless, NEW tm \in Table, NEW t, t # NoTask, NEW r, NEW f \in Due(tm, t, r)
  PROVE  Right(Made(tm, t, r), tm, f)
<1>1. f \in Listed(tm, t, r)
  BY DEF Due, Listed
<1>2. \E i \in DOMAIN CreateRowData(tm, t, r) :
        /\ CreateRowData(tm, t, r)[i].id = f
        /\ CreateRowData(tm, t, r)[i].start = tm[f].start
        /\ CreateRowData(tm, t, r)[i].stop = tm[f].stop
  BY <1>1, DataAre
<1>3. QED
  BY <1>2 DEF Right, Made

\* A row that is brought up to date becomes right, and the others stay so.
LEMMA BroughtIsRight ==
  ASSUME NEW ll \in List, NEW pop, NEW data \in ListRow, Shows(ll, data.id), NEW tm, NEW f,
         data.id = f => data.start = tm[f].start /\ data.stop = tm[f].stop,
         data.id = f \/ Right(ll, tm, f)
  PROVE  Right(Brought(ll, pop, data), tm, f)
<1> DEFINE b == Brought(ll, pop, data)
<1>1. /\ DOMAIN b.rows = DOMAIN ll.rows
      /\ \A i \in DOMAIN ll.rows :
           b.rows[i] = IF ll.rows[i].id = data.id
                       THEN UpdateRow(ll.rows[i], data) ELSE ll.rows[i]
  BY BroughtIs
<1>2. \A i \in DOMAIN ll.rows : ll.rows[i] \in ListRow
  BY DEF List
<1> HIDE DEF b
<1>3. CASE data.id = f
  <2>1. PICK i \in DOMAIN ll.rows : ll.rows[i].id = f
    BY <1>3 DEF Shows
  <2>2. b.rows[i] = UpdateRow(ll.rows[i], data)
    BY <1>1, <1>3, <2>1
  <2>3. b.rows[i].id = f /\ b.rows[i].start = tm[f].start /\ b.rows[i].stop = tm[f].stop
    <3>1. ll.rows[i] \in ListRow
      BY <1>2
    <3>2. /\ UpdateRow(ll.rows[i], data).id = data.id
          /\ UpdateRow(ll.rows[i], data).start = data.start
          /\ UpdateRow(ll.rows[i], data).stop = data.stop
      BY <3>1, RowUpdated
    <3>3. QED
      BY <1>3, <2>2, <3>2
  <2>4. QED
    BY <1>1, <2>3 DEF Right, b
<1>4. CASE data.id # f
  <2>1. PICK i \in DOMAIN ll.rows : /\ ll.rows[i].id = f /\ ll.rows[i].start = tm[f].start
                                    /\ ll.rows[i].stop = tm[f].stop
    BY <1>4 DEF Right
  <2>2. b.rows[i] = ll.rows[i]
    BY <1>1, <1>4, <2>1
  <2>3. QED
    BY <1>1, <2>1, <2>2 DEF Right, b
<1>5. QED
  BY <1>3, <1>4

\* When all entries but the one that changed are shown right, all are then.
LEMMA ChangedIsRight ==
  ASSUME Endless, NEW tm \in Table, NEW l \in List, NEW e \in EntryId, presented # NoTask,
         \/ l.narrowed
         \/ \A f \in Due(tm, presented, range) : f = e \/ Right(l, tm, f)
  PROVE  \/ OnTimeEntryChanged(l, tm, e).narrowed
         \/ \A f \in Due(tm, presented, range) : Right(OnTimeEntryChanged(l, tm, e), tm, f)
<1> DEFINE data == CreateRowData(tm, presented, DayRange(tm[e].start))
           n == Len(data)
           pop == Populated(tm)
           due == Due(tm, presented, range)
           Later(f, k) == \E j \in k + 1 .. n : data[j].id = f
           Fine(ll, k) == ll.narrowed \/ \A f \in due : Right(ll, tm, f) \/ Later(f, k)
<1>1. pop \in List /\ \A f \in due : Right(pop, tm, f)
  BY MadeIsAList, MadeIsRight, PopulatedIsMade
<1>2. /\ data \in Seq(ListRow)
      /\ \A i \in DOMAIN data : /\ data[i].start = tm[data[i].id].start
                                /\ data[i].stop = tm[data[i].id].stop
      /\ \A f \in Listed(tm, presented, DayRange(tm[e].start)) :
           \E i \in DOMAIN data : data[i].id = f
  BY DataAre
<1>3. n \in Nat /\ DOMAIN data = 1 .. n /\ \A k \in 1 .. n : data[k] \in ListRow
  BY <1>2
<1>4. e \in due => \E i \in 1 .. n : data[i].id = e
  <2>1. e \in due => e \in Listed(tm, presented, DayRange(tm[e].start))
    BY DEF Due, Listed
  <2> HIDE DEF data, n, due
  <2>2. QED
    BY <1>2, <1>3, <2>1
<1> HIDE DEF data, n, pop, due
<1>5. PICK g \in [0 .. n -> List] :
        /\ g[0] = l /\ g[n] = Updated(l, tm, data)
        /\ \A k \in 1 .. n : g[k] = Brought(g[k - 1], pop, data[k])
  <2>1. \E g : Steps(g, l, tm, data)
    BY <1>1, <1>2, UpdatedSteps DEF pop
  <2>2. QED
    BY <2>1 DEF Steps, n, pop
<1> DEFINE Has == {k \in 0 .. n : Fine(g[k], k)}
<1>6. 0 \in Has
  <2>1. Fine(l, 0)
    <3>1. CASE l.narrowed
      BY <3>1
    <3>2. CASE \A f \in due : f = e \/ Right(l, tm, f)
      BY <1>4, <3>2
    <3>3. QED
      BY <3>1, <3>2 DEF due
  <2>2. QED
    BY <1>3, <1>5, <2>1
<1>7. ASSUME NEW k \in 1 .. n, k - 1 \in Has PROVE k \in Has
  <2> DEFINE ll == g[k - 1]
  <2>1. ll \in List /\ Fine(ll, k - 1) /\ g[k] = Brought(ll, pop, data[k]) /\ k \in 0 .. n
    BY <1>3, <1>5, <1>7
  <2> HIDE DEF ll
  <2>2. CASE ~ Shows(ll, data[k].id)
    <3>1. g[k] = pop
      BY <2>1, <2>2 DEF Brought
    <3>2. QED
      BY <1>1, <2>1, <3>1
  <2>3. CASE Shows(ll, data[k].id)
    <3>1. g[k].narrowed = ll.narrowed
      BY <1>3, <2>1, <2>3, BroughtIs
    <3>2. CASE ll.narrowed
      BY <2>1, <3>1, <3>2
    <3>3. CASE ~ ll.narrowed
      <4> SUFFICES ASSUME NEW f \in due PROVE Right(g[k], tm, f) \/ Later(f, k)
        BY <2>1
      <4>1. Right(ll, tm, f) \/ Later(f, k - 1)
        BY <2>1, <3>3
      <4>2. Right(ll, tm, f) \/ data[k].id = f \/ Later(f, k)
        <5>1. \A j \in (k - 1) + 1 .. n : j = k \/ j \in k + 1 .. n
          BY <1>3
        <5>2. QED
          BY <4>1, <5>1
      <4>3. data[k] \in ListRow
        BY <1>3
      <4>4. data[k].id = f => data[k].start = tm[f].start /\ data[k].stop = tm[f].stop
        BY <1>2, <1>3
      <4>5. CASE data[k].id = f \/ Right(ll, tm, f)
        <5>1. Right(Brought(ll, pop, data[k]), tm, f)
          BY <2>1, <2>3, <4>3, <4>4, <4>5, BroughtIsRight
        <5>2. QED
          BY <2>1, <5>1
      <4>6. QED
        BY <4>2, <4>5
    <3>4. QED
      BY <3>2, <3>3
  <2>4. QED
    BY <2>2, <2>3
<1>8. n \in Has
  <2> HIDE DEF Has
  <2>1. 0 .. n \subseteq Has
    BY <1>3, <1>6, <1>7, Counting
  <2>2. QED
    BY <1>3, <2>1
<1>9. Updated(l, tm, data).narrowed \/ \A f \in due : Right(Updated(l, tm, data), tm, f)
  <2>1. Fine(g[n], n)
    BY <1>8
  <2>2. \A f : ~ Later(f, n)
    BY <1>3
  <2> HIDE DEF Later
  <2>3. QED
    BY <1>5, <2>1, <2>2
<1>10. QED
  <2>1. CASE Shows(l, e)
    BY <1>9, <2>1 DEF OnTimeEntryChanged, data, due
  <2>2. CASE ~ Shows(l, e)
    BY <1>1, <2>2 DEF OnTimeEntryChanged, pop, due
  <2>3. QED
    BY <2>1, <2>2

-----------------------------------------------------------------------------
(* The list follows the times *)

\* The days from a to b are what is looked at.
Whole(r, a, b) == a \in Int /\ b \in Int /\ a <= b /\ r = [from |-> Begin(a), to |-> End(b)]
WholeDays(r) == \E a, b \in Int : Whole(r, a, b)

\* No entry of the task reaches over midnight.
AllInOneDay(tm, t) == \A e \in Live(tm) : tm[e].owner = t => InOneDay(tm[e])

\* An entry that is in one day overlaps some days when that day is among them.
LEMMA InOneDayOverlaps ==
  ASSUME Endless, NEW row \in TimeRow, InOneDay(row), NEW a, NEW b, NEW r, Whole(r, a, b)
  PROVE  Overlaps(row, r) <=> a <= DayOf(row.start) /\ DayOf(row.start) <= b
<1> DEFINE d == DayOf(row.start)
<1>1. row.start \in Int /\ row.stop \in Int
  BY DEF TimeRow
<1>2. d \in Int /\ Midnight[d] <= row.start
  BY <1>1, DayOfIs
<1>3. /\ row.stop > Midnight[d] /\ row.start < Midnight[d + 1] - 1
      /\ row.stop <= (Midnight[d + 1] - 1) + 1
  BY DEF InOneDay, Overlaps, DayRange, Begin, End
<1>4. a \in Int /\ b \in Int /\ r.from = Midnight[a] /\ r.to = Midnight[b + 1] - 1
  BY DEF Whole, Begin, End
<1>5. \A n \in Int : Midnight[n] \in Int
  BY EveryDay
<1>6. \A m, n \in Int : m <= n => Midnight[m] <= Midnight[n]
  <2> SUFFICES ASSUME NEW m \in Int, NEW n \in Int, m <= n PROVE Midnight[m] <= Midnight[n]
    OBVIOUS
  <2>1. CASE m = n
    BY <1>5, <2>1
  <2>2. CASE m < n
    BY <1>5, <2>2, LaterDay
  <2>3. QED
    BY <2>1, <2>2
<1> HIDE DEF d
<1>7. ASSUME a <= d, d <= b PROVE Overlaps(row, r)
  <2>1. Midnight[a] <= Midnight[d] /\ Midnight[d + 1] <= Midnight[b + 1]
    BY <1>2, <1>4, <1>6, <1>7
  <2>2. QED
    BY <1>1, <1>2, <1>3, <1>4, <1>5, <2>1 DEF Overlaps
<1>8. ASSUME Overlaps(row, r) PROVE a <= d /\ d <= b
  <2>1. row.stop > Midnight[a] /\ row.start < Midnight[b + 1] - 1
    BY <1>4, <1>8 DEF Overlaps
  <2>2. ~ (d + 1 <= a)
    <3>1. SUFFICES ASSUME d + 1 <= a PROVE FALSE
      OBVIOUS
    <3>2. Midnight[d + 1] <= Midnight[a]
      BY <1>2, <1>4, <1>6, <3>1
    <3>3. QED
      BY <1>1, <1>2, <1>3, <1>4, <1>5, <2>1, <3>2
  <2>3. ~ (b + 1 <= d)
    <3>1. SUFFICES ASSUME b + 1 <= d PROVE FALSE
      OBVIOUS
    <3>2. Midnight[b + 1] <= Midnight[d]
      BY <1>2, <1>4, <1>6, <3>1
    <3>3. QED
      BY <1>1, <1>2, <1>4, <1>5, <2>1, <3>2
  <2>4. QED
    BY <1>2, <1>4, <2>2, <2>3
<1>9. QED
  BY <1>7, <1>8 DEF d

\* Of whole days the entries of those days are listed.
LEMMA ListedOfDays ==
  ASSUME Endless, NEW tm \in Table, NEW t, t # NoTask, AllInOneDay(tm, t),
         NEW r, NEW a, NEW b, Whole(r, a, b)
  PROVE  Listed(tm, t, r) = {e \in Live(tm) : /\ tm[e].owner = t
                                              /\ a <= DayOf(tm[e].start)
                                              /\ DayOf(tm[e].start) <= b}
<1>1. \A e \in Live(tm) : tm[e] \in TimeRow
  BY RowsAreNotNone DEF Live
<1>2. ASSUME NEW e \in Live(tm), tm[e].owner = t
      PROVE  Overlaps(tm[e], r) <=> a <= DayOf(tm[e].start) /\ DayOf(tm[e].start) <= b
  <2>1. tm[e] \in TimeRow /\ InOneDay(tm[e])
    BY <1>1, <1>2 DEF AllInOneDay
  <2>2. QED
    BY <2>1, InOneDayOverlaps
<1>3. QED
  BY <1>2 DEF Listed

\* What is listed of one of the days, and the rows of it, are the same in the
\* list of the day and in that of all days.
LEMMA RowsOfOneDay ==
  ASSUME Endless, NEW tm \in Table, NEW t, t # NoTask, AllInOneDay(tm, t),
         NEW r, NEW a, NEW b, Whole(r, a, b),
         NEW u \in Int, a <= DayOf(u), DayOf(u) <= b
  PROVE  /\ Listed(tm, t, DayRange(u)) = {f \in Listed(tm, t, r) : DayOf(tm[f].start) = DayOf(u)}
         /\ \A f \in Listed(tm, t, DayRange(u)) :
              RowIn(tm, Listed(tm, t, DayRange(u)), f) = RowIn(tm, Listed(tm, t, r), f)
<1> DEFINE S == Listed(tm, t, r)
           one == Listed(tm, t, DayRange(u))
<1>1. DayOf(u) \in Int /\ \A e \in Live(tm) : DayOf(tm[e].start) \in Int
  <2>1. \A e \in Live(tm) : tm[e].start \in Int
    BY RowsAreNotNone DEF Live
  <2>2. QED
    BY <2>1, DayOfIs
<1>2. Whole(DayRange(u), DayOf(u), DayOf(u))
  BY <1>1 DEF Whole, DayRange
<1>3. S = {e \in Live(tm) : /\ tm[e].owner = t /\ a <= DayOf(tm[e].start)
                            /\ DayOf(tm[e].start) <= b}
  BY ListedOfDays
<1>4. one = {e \in Live(tm) : /\ tm[e].owner = t /\ DayOf(u) <= DayOf(tm[e].start)
                              /\ DayOf(tm[e].start) <= DayOf(u)}
  BY <1>2, ListedOfDays
<1>5. one = {f \in S : DayOf(tm[f].start) = DayOf(u)}
  <2> HIDE DEF S, one
  <2>1. \A e \in Live(tm) : (DayOf(u) <= DayOf(tm[e].start) /\ DayOf(tm[e].start) <= DayOf(u))
                              <=> DayOf(tm[e].start) = DayOf(u)
    BY <1>1
  <2>2. a \in Int /\ b \in Int
    BY DEF Whole
  <2>3. QED
    BY <1>1, <1>3, <1>4, <2>1, <2>2
<1> HIDE DEF S, one
<1>6. \A f \in one : SameDay(tm, one, f) = SameDay(tm, S, f)
  BY <1>5 DEF SameDay
<1>7. \A f \in one : RowIn(tm, one, f) = RowIn(tm, S, f)
  BY <1>6 DEF RowIn
<1>8. QED
  BY <1>5, <1>7 DEF S, one

\* new: the rows that are wanted.  The data has those that l.rows lacks.
Brings(l, data, new) ==
  /\ DOMAIN new = DOMAIN l.rows
  /\ \A i \in DOMAIN new : /\ new[i].id = l.rows[i].id
                           /\ new[i].total = NoTotal => l.rows[i].total = NoTotal
                           /\ new[i] = l.rows[i] \/ \E k \in DOMAIN data : data[k].id = new[i].id
  /\ \A i, j \in DOMAIN new : new[i].id = new[j].id => i = j
  /\ \A k \in DOMAIN data : \E i \in DOMAIN new : data[k] = new[i]

\* The rows become those wanted, and nothing is made anew.
LEMMA UpdatedIs ==
  ASSUME NEW l, NEW tm, NEW data, NEW new, l \in List, data \in Seq(ListRow),
         new \in Seq(ListRow), Populated(tm) \in List, Brings(l, data, new)
  PROVE  Updated(l, tm, data) = [l EXCEPT !.rows = new]
<1> DEFINE n == Len(data)
           pop == Populated(tm)
           D == DOMAIN new
<1>1. n \in Nat /\ DOMAIN data = 1 .. n /\ \A k \in 1 .. n : data[k] \in ListRow
  OBVIOUS
<1>2. PICK g \in [0 .. n -> List] :
        /\ g[0] = l /\ g[n] = Updated(l, tm, data)
        /\ \A k \in 1 .. n : g[k] = Brought(g[k - 1], pop, data[k])
  <2>1. \E g : Steps(g, l, tm, data)
    BY UpdatedSteps
  <2>2. QED
    BY <2>1 DEF Steps
<1> HIDE DEF pop, n
<1> DEFINE Row(k, i) == g[k].rows[i]
           Good(k) == /\ g[k].narrowed = l.narrowed /\ g[k].stirred = l.stirred
                      /\ DOMAIN g[k].rows = D
                      /\ \A i \in D : Row(k, i) = l.rows[i] \/ Row(k, i) = new[i]
                      /\ \A i \in D : \/ Row(k, i) = new[i]
                                      \/ \E j \in k + 1 .. n : data[j].id = new[i].id
           Has == {k \in 0 .. n : Good(k)}
<1>3. 0 \in Has
  <2>1. Good(0)
    <3>1. g[0] = l /\ DOMAIN l.rows = D
      BY <1>2 DEF Brings
    <3>2. \A i \in D : \/ l.rows[i] = new[i]
                       \/ \E j \in 0 + 1 .. n : data[j].id = new[i].id
      BY <1>1 DEF Brings
    <3>3. QED
      BY <3>1, <3>2
  <2>2. QED
    BY <1>1, <2>1
<1>4. ASSUME NEW k \in 1 .. n, k - 1 \in Has PROVE k \in Has
  <2> DEFINE ll == g[k - 1]
  <2>1. ll \in List /\ data[k] \in ListRow /\ k \in 0 .. n /\ k \in DOMAIN data
    <3>1. k - 1 \in 0 .. n /\ k \in 0 .. n /\ k \in DOMAIN data
      BY <1>1
    <3> HIDE DEF Has
    <3>2. QED
      BY <1>1, <3>1
  <2>2. g[k] = Brought(ll, pop, data[k])
    BY <1>2
  <2>3. /\ ll.narrowed = l.narrowed /\ ll.stirred = l.stirred
        /\ DOMAIN ll.rows = D
        /\ \A i \in D : ll.rows[i] = l.rows[i] \/ ll.rows[i] = new[i]
        /\ \A i \in D : \/ ll.rows[i] = new[i]
                        \/ \E j \in (k - 1) + 1 .. n : data[j].id = new[i].id
    BY <1>4
  <2> HIDE DEF ll
  <2>4. PICK m \in D : data[k] = new[m]
    BY <2>1 DEF Brings
  <2>5. \A i \in D : ll.rows[i].id = new[i].id
    BY <2>3 DEF Brings
  <2>6. Shows(ll, data[k].id)
    BY <2>3, <2>4, <2>5 DEF Shows
  <2>7. /\ g[k].narrowed = ll.narrowed /\ g[k].stirred = ll.stirred
        /\ DOMAIN g[k].rows = DOMAIN ll.rows
        /\ \A i \in DOMAIN ll.rows :
             g[k].rows[i] = IF ll.rows[i].id = data[k].id
                            THEN UpdateRow(ll.rows[i], data[k]) ELSE ll.rows[i]
    BY <2>1, <2>2, <2>6, BroughtIs
  <2>8. g[k].rows[m] = new[m]
    <3>1. g[k].rows[m] = UpdateRow(ll.rows[m], data[k])
      BY <2>3, <2>4, <2>5, <2>7
    <3>2. ll.rows[m] \in ListRow
      BY <2>1, <2>3 DEF List
    <3>3. data[k].total = NoTotal => ll.rows[m].total = NoTotal
      BY <2>3, <2>4 DEF Brings
    <3>4. UpdateRow(ll.rows[m], data[k]) = data[k]
      BY <2>1, <3>2, <3>3, RowUpdated
    <3>5. QED
      BY <2>4, <3>1, <3>4
  <2>9. \A i \in D : i # m => new[i].id # data[k].id /\ g[k].rows[i] = ll.rows[i]
    <3>1. \A i \in D : i # m => new[i].id # data[k].id
      BY <2>4 DEF Brings
    <3>2. QED
      BY <2>3, <2>5, <2>7, <3>1
  <2>10. \A i \in D : \/ g[k].rows[i] = new[i]
                      \/ \E j \in k + 1 .. n : data[j].id = new[i].id
    <3> SUFFICES ASSUME NEW i \in D, i # m, ll.rows[i] # new[i]
                 PROVE  \E j \in k + 1 .. n : data[j].id = new[i].id
      BY <2>8, <2>9
    <3>1. PICK j \in (k - 1) + 1 .. n : data[j].id = new[i].id
      BY <2>3
    <3>2. j # k
      BY <2>9, <3>1
    <3>3. j \in k + 1 .. n
      BY <1>1, <3>2
    <3>4. QED
      BY <3>1, <3>3
  <2>11. \A i \in D : g[k].rows[i] = l.rows[i] \/ g[k].rows[i] = new[i]
    BY <2>3, <2>8, <2>9
  <2>12. QED
    BY <2>1, <2>3, <2>7, <2>10, <2>11
<1>5. n \in Has
  <2> HIDE DEF Has
  <2>1. 0 .. n \subseteq Has
    BY <1>1, <1>3, <1>4, Counting
  <2>2. QED
    BY <1>1, <2>1
<1>6. /\ g[n].narrowed = l.narrowed /\ g[n].stirred = l.stirred
      /\ DOMAIN g[n].rows = D /\ \A i \in D : g[n].rows[i] = new[i]
  <2>1. \A j : j \notin n + 1 .. n
    BY <1>1
  <2>2. QED
    BY <1>5, <2>1
<1>7. g[n] \in List
  BY <1>1, <1>2
<1>8. g[n].rows = new
  <2>1. g[n].rows \in Seq(ListRow)
    BY <1>7 DEF List
  <2>2. QED
    BY <1>6, <2>1
<1>9. g[n] = [l EXCEPT !.rows = new]
  BY <1>6, <1>7, <1>8 DEF List
<1>10. QED
  BY <1>2, <1>9

\* When an entry stopped at another time only the totals of its day change.
LEMMA RowsStay ==
  ASSUME NEW tn \in Table, NEW tm \in Table, NEW S, S \subseteq Live(tn), S \subseteq Live(tm),
         \A f \in S : tn[f].start = tm[f].start
  PROVE  /\ EarlierIn(tn, S) = EarlierIn(tm, S)
         /\ \A f \in S : SameDay(tn, S, f) = SameDay(tm, S, f)
         /\ \A f \in S : RowIn(tn, S, f).total = NoTotal <=> RowIn(tm, S, f).total = NoTotal
         /\ \A f \in S : (\A h \in SameDay(tm, S, f) : tn[h] = tm[h])
                           => RowIn(tn, S, f) = RowIn(tm, S, f)
<1>1. \A e, f \in S : Earlier(tn, e, f) <=> Earlier(tm, e, f)
  BY DEF Earlier
<1>2. EarlierIn(tn, S) = EarlierIn(tm, S)
  BY <1>1 DEF EarlierIn
<1>3. \A f \in S : SameDay(tn, S, f) = SameDay(tm, S, f) /\ SameDay(tm, S, f) \subseteq S
                   /\ f \in SameDay(tm, S, f)
  BY DEF SameDay
<1>4. ASSUME NEW f \in S PROVE RowIn(tn, S, f).total = NoTotal <=> RowIn(tm, S, f).total = NoTotal
  <2>1. /\ RowIn(tn, S, f).total = NoTotal <=> \E h \in SameDay(tn, S, f) : Earlier(tn, f, h)
        /\ RowIn(tm, S, f).total = NoTotal <=> \E h \in SameDay(tm, S, f) : Earlier(tm, f, h)
    BY RowInIs
  <2>2. QED
    BY <1>1, <1>3, <2>1
<1>5. ASSUME NEW f \in S, \A h \in SameDay(tm, S, f) : tn[h] = tm[h]
      PROVE  RowIn(tn, S, f) = RowIn(tm, S, f)
  <2> DEFINE G == SameDay(tm, S, f)
  <2>1. G \subseteq S /\ SameDay(tn, S, f) = G /\ f \in G
    BY <1>3
  <2>2. SumsLengths(tn, G) = SumsLengths(tm, G)
    <3>1. IsFiniteSet(S) /\ S \subseteq Rows(tm)
      BY TableIsOrdered
    <3>2. G \in SUBSET S
      BY <2>1
    <3>3. IsFiniteSet(G) /\ \A h \in G : Length(tm[h]) \in Int
      BY <3>1, <3>2, FS_Subset, RowsAreNotNone
    <3>4. \A h \in G : tn[h] = tm[h]
      BY <1>5
    <3> HIDE DEF G
    <3>5. QED
      BY <3>3, <3>4, SameSum
  <2>3. tn[f] = tm[f]
    BY <1>5, <2>1
  <2>4. /\ (\E h \in G : Earlier(tn, h, f)) <=> (\E h \in G : Earlier(tm, h, f))
        /\ (\E h \in G : Earlier(tn, f, h)) <=> (\E h \in G : Earlier(tm, f, h))
    BY <1>1, <2>1
  <2> HIDE DEF G
  <2>5. RowIn(tn, S, f) = [id |-> f, start |-> tn[f].start, stop |-> tn[f].stop,
                           first |-> ~ \E h \in G : Earlier(tn, h, f),
                           total |-> IF \E h \in G : Earlier(tn, f, h) THEN NoTotal
                                     ELSE <<SumsLengths(tn, G)>>]
    BY <2>1 DEF RowIn
  <2>6. RowIn(tm, S, f) = [id |-> f, start |-> tm[f].start, stop |-> tm[f].stop,
                           first |-> ~ \E h \in G : Earlier(tm, h, f),
                           total |-> IF \E h \in G : Earlier(tm, f, h) THEN NoTotal
                                     ELSE <<SumsLengths(tm, G)>>]
    BY DEF RowIn, G
  <2>7. (~ \E h \in G : Earlier(tn, h, f)) = (~ \E h \in G : Earlier(tm, h, f))
    BY <2>4
  <2>8. (IF \E h \in G : Earlier(tn, f, h) THEN NoTotal ELSE <<SumsLengths(tn, G)>>) =
          (IF \E h \in G : Earlier(tm, f, h) THEN NoTotal ELSE <<SumsLengths(tm, G)>>)
    BY <2>2, <2>4
  <2>9. QED
    BY <2>3, <2>5, <2>6, <2>7, <2>8
<1>6. QED
  BY <1>2, <1>3, <1>4, <1>5

\* tm is tn but for the entry e, which starts when it did.
OnlyStops(tn, tm, e) ==
  /\ \A f \in EntryId : f # e => tn[f] = tm[f]
  /\ tn[e].start = tm[e].start

\* Bringing the day of an entry up to date makes the list what it would be if
\* it were made anew, when it was so before the entry stopped at another time.
LEMMA UpdatedFollows ==
  ASSUME Endless, NEW tn \in Table, NEW tm \in Table, NEW e \in EntryId, OnlyStops(tn, tm, e),
         presented # NoTask, WholeDays(range), AllInOneDay(tm, presented),
         Listed(tn, presented, range) = Listed(tm, presented, range),
         e \in Listed(tm, presented, range)
  PROVE  Updated(Made(tn, presented, range), tm,
                 CreateRowData(tm, presented, DayRange(tm[e].start))) = Populated(tm)
<1> DEFINE t == presented
           S == Listed(tm, t, range)
           u == tm[e].start
           one == Listed(tm, t, DayRange(u))
           old == CreateRowData(tn, t, range)
           new == CreateRowData(tm, t, range)
           data == CreateRowData(tm, t, DayRange(u))
           l == Made(tn, t, range)
           items == Items(tm, t, range)
<1>1. /\ S \subseteq Live(tm) /\ S \subseteq Live(tn) /\ S \subseteq EntryId
      /\ S \subseteq Rows(tm)
  <2>1. S \subseteq Live(tm) /\ S \subseteq EntryId /\ S \subseteq Rows(tm)
    BY ItemsAre
  <2>2. Listed(tn, t, range) \subseteq Live(tn)
    BY ItemsAre
  <2>3. QED
    BY <2>1, <2>2
<1>2. \A f \in S : tn[f].start = tm[f].start
  BY <1>1 DEF OnlyStops
<1>3. /\ EarlierIn(tn, S) = EarlierIn(tm, S)
      /\ \A f \in S : SameDay(tn, S, f) = SameDay(tm, S, f)
      /\ \A f \in S : RowIn(tn, S, f).total = NoTotal <=> RowIn(tm, S, f).total = NoTotal
      /\ \A f \in S : (\A h \in SameDay(tm, S, f) : tn[h] = tm[h])
                        => RowIn(tn, S, f) = RowIn(tm, S, f)
  <2> HIDE DEF S
  <2>1. QED
    BY <1>1, <1>2, RowsStay
<1>4. Items(tn, t, range) = items
  BY <1>3 DEF Items
<1>5. /\ old \in Seq(ListRow) /\ DOMAIN old = 1 .. Cardinality(S)
      /\ \A i \in DOMAIN old : /\ items[i] = old[i].id /\ old[i].id \in S
                               /\ old[i] = RowIn(tn, S, old[i].id)
      /\ l \in List /\ l.rows = old
  <2>1. l \in List /\ l.rows = old
    BY MadeIsAList DEF Made
  <2>2. /\ old \in Seq(ListRow) /\ DOMAIN old = 1 .. Cardinality(Listed(tn, t, range))
        /\ \A i \in DOMAIN old : /\ Items(tn, t, range)[i] = old[i].id
                                 /\ old[i].id \in Listed(tn, t, range)
                                 /\ old[i] = RowIn(tn, Listed(tn, t, range), old[i].id)
    BY DataAre
  <2>3. Listed(tn, t, range) = S
    OBVIOUS
  <2> HIDE DEF old, l, S, items
  <2>4. QED
    BY <1>4, <2>1, <2>2, <2>3
<1>6. /\ new \in Seq(ListRow) /\ DOMAIN new = 1 .. Cardinality(S)
      /\ \A i \in DOMAIN new : /\ items[i] = new[i].id /\ new[i].id \in S
                               /\ new[i] = RowIn(tm, S, new[i].id)
      /\ \A i, j \in DOMAIN new : new[i].id = new[j].id => i = j
      /\ \A f \in S : \E i \in DOMAIN new : new[i].id = f
  BY DataAre
<1>7. /\ data \in Seq(ListRow)
      /\ \A k \in DOMAIN data : /\ data[k].id \in one
                                /\ data[k] = RowIn(tm, one, data[k].id)
      /\ \A f \in one : \E k \in DOMAIN data : data[k].id = f
  BY DataAre
<1>8. u \in Int
  BY <1>1, RowsAreNotNone
<1>9. /\ one = {f \in S : DayOf(tm[f].start) = DayOf(u)}
      /\ \A f \in one : RowIn(tm, one, f) = RowIn(tm, S, f)
  <2>1. PICK a, b : Whole(range, a, b)
    BY DEF WholeDays
  <2>2. a <= DayOf(u) /\ DayOf(u) <= b
    <3>1. e \in {f \in Live(tm) : /\ tm[f].owner = t /\ a <= DayOf(tm[f].start)
                                  /\ DayOf(tm[f].start) <= b}
      BY <2>1, ListedOfDays
    <3>2. QED
      BY <3>1
  <2> HIDE DEF u
  <2>3. QED
    BY <1>8, <2>1, <2>2, RowsOfOneDay
<1>10. Brings(l, data, new)
  <2> HIDE DEF S, one, old, new, data, l, u, items
  <2>1. DOMAIN new = DOMAIN l.rows /\ DOMAIN new = DOMAIN old
    BY <1>5, <1>6
  <2>2. ASSUME NEW i \in DOMAIN new
        PROVE  /\ new[i].id = l.rows[i].id
               /\ new[i].total = NoTotal => l.rows[i].total = NoTotal
               /\ new[i] = l.rows[i] \/ \E k \in DOMAIN data : data[k].id = new[i].id
    <3> DEFINE f == new[i].id
    <3>1. /\ f \in S /\ new[i] = RowIn(tm, S, f) /\ l.rows[i].id = f
          /\ l.rows[i] = RowIn(tn, S, f)
      BY <1>5, <1>6, <2>1
    <3>2. new[i].total = NoTotal <=> l.rows[i].total = NoTotal
      BY <1>3, <3>1
    <3>3. CASE DayOf(tm[f].start) = DayOf(u)
      BY <1>7, <1>9, <3>1, <3>2, <3>3
    <3>4. CASE DayOf(tm[f].start) # DayOf(u)
      <4>1. \A h \in SameDay(tm, S, f) : h \in EntryId /\ h # e
        BY <1>1, <3>4 DEF SameDay, u
      <4>2. \A h \in SameDay(tm, S, f) : tn[h] = tm[h]
        BY <4>1 DEF OnlyStops
      <4>3. RowIn(tn, S, f) = RowIn(tm, S, f)
        BY <1>3, <3>1, <4>2
      <4>4. QED
        BY <3>1, <3>2, <4>3
    <3>5. QED
      BY <3>3, <3>4
  <2>3. \A k \in DOMAIN data : \E i \in DOMAIN new : data[k] = new[i]
    <3> SUFFICES ASSUME NEW k \in DOMAIN data PROVE \E i \in DOMAIN new : data[k] = new[i]
      OBVIOUS
    <3>1. data[k].id \in S /\ data[k] = RowIn(tm, S, data[k].id)
      BY <1>7, <1>9
    <3>2. PICK i \in DOMAIN new : new[i].id = data[k].id
      BY <1>6, <3>1
    <3>3. QED
      BY <1>6, <3>1, <3>2
  <2>4. QED
    BY <1>6, <2>1, <2>2, <2>3 DEF Brings
<1>11. Populated(tm) = [l EXCEPT !.rows = new] /\ Populated(tm) \in List
  <2>1. Populated(tm) = Made(tm, t, range)
    BY PopulatedIsMade
  <2>2. Made(tm, t, range) \in List
    BY MadeIsAList
  <2>3. Made(tm, t, range) = [l EXCEPT !.rows = new]
    <3> DEFINE made == Made(tm, t, range)
    <3>1. made.rows = new /\ made.narrowed = l.narrowed /\ made.stirred = l.stirred
      BY DEF Made
    <3>2. made \in List /\ l \in List
      BY <1>5, <2>2
    <3> HIDE DEF l, new, made
    <3>3. made = [l EXCEPT !.rows = new]
      BY <3>1, <3>2 DEF List
    <3>4. QED
      BY <3>3 DEF made
  <2>4. QED
    BY <2>1, <2>2, <2>3
<1>12. Updated(l, tm, data) = [l EXCEPT !.rows = new]
  <2> HIDE DEF l, data, new
  <2>1. QED
    BY <1>5, <1>6, <1>7, <1>10, <1>11, UpdatedIs
<1>13. QED
  BY <1>11, <1>12

\* Entries that start and are there as before are listed as before.
LEMMA ListedStays ==
  ASSUME Endless, NEW tn \in Table, NEW tm \in Table, NEW e \in EntryId, OnlyStops(tn, tm, e),
         NEW t, t # NoTask, NEW r, WholeDays(r), AllInOneDay(tn, t), AllInOneDay(tm, t),
         e \in Live(tn) <=> e \in Live(tm), tn[e].owner = tm[e].owner
  PROVE  Listed(tn, t, r) = Listed(tm, t, r)
<1>1. PICK a, b : Whole(r, a, b)
  BY DEF WholeDays
<1>2. /\ Listed(tn, t, r) = {f \in Live(tn) : /\ tn[f].owner = t
                                              /\ a <= DayOf(tn[f].start)
                                              /\ DayOf(tn[f].start) <= b}
      /\ Listed(tm, t, r) = {f \in Live(tm) : /\ tm[f].owner = t
                                              /\ a <= DayOf(tm[f].start)
                                              /\ DayOf(tm[f].start) <= b}
  BY <1>1, ListedOfDays
<1>3. \A f : f \in Live(tn) <=> f \in Live(tm)
  BY DEF Live, Rows, OnlyStops
<1>4. \A f \in Live(tm) : tn[f].owner = tm[f].owner /\ tn[f].start = tm[f].start
  BY DEF Live, Rows, OnlyStops
<1>5. QED
  BY <1>2, <1>3, <1>4

\* A list as if it was made anew is so again after the change.
LEMMA ChangedFollows ==
  ASSUME Endless, NEW tn \in Table, NEW tm \in Table, NEW e \in EntryId, OnlyStops(tn, tm, e),
         presented # NoTask, WholeDays(range), AllInOneDay(tn, presented),
         AllInOneDay(tm, presented), e \in Live(tn) <=> e \in Live(tm),
         tn[e].owner = tm[e].owner
  PROVE  OnTimeEntryChanged(Made(tn, presented, range), tm, e) = Populated(tm)
<1> DEFINE l == Made(tn, presented, range)
<1>1. Listed(tn, presented, range) = Listed(tm, presented, range)
  BY ListedStays
<1>2. CASE ~ Shows(l, e)
  BY <1>2 DEF OnTimeEntryChanged
<1>3. CASE Shows(l, e)
  <2>1. \A i \in DOMAIN CreateRowData(tn, presented, range) :
          CreateRowData(tn, presented, range)[i].id \in Listed(tn, presented, range)
    BY DataAre
  <2>2. l.rows = CreateRowData(tn, presented, range)
    BY DEF Made
  <2> HIDE DEF l
  <2>3. e \in Listed(tm, presented, range)
    BY <1>1, <1>3, <2>1, <2>2 DEF Shows
  <2>4. Updated(Made(tn, presented, range), tm,
                CreateRowData(tm, presented, DayRange(tm[e].start))) = Populated(tm)
    BY <1>1, <2>3, UpdatedFollows
  <2>5. QED
    BY <1>3, <2>4 DEF OnTimeEntryChanged, l
<1>4. QED
  BY <1>2, <1>3

\* Nothing is listed of no task.
LEMMA NothingMade ==
  ASSUME Endless, NEW tm \in Table, NEW r
  PROVE  CreateRowData(tm, NoTask, r) = <<>>
<1>1. CreateRowData(tm, NoTask, r) \in Seq(ListRow)
      /\ DOMAIN CreateRowData(tm, NoTask, r) = 1 .. Cardinality(Listed(tm, NoTask, r))
  BY DataAre
<1>2. Cardinality(Listed(tm, NoTask, r)) = 0
  BY FS_EmptySet DEF Listed
<1>3. QED
  BY <1>1, <1>2

-----------------------------------------------------------------------------
(* The calendar *)

\* Month m, counted from January 1900, by the rule of the calendar
LeapYear(y) == y % 4 = 0 /\ (y % 100 # 0 \/ y % 400 = 0)
MonthLength(m) ==
  IF m % 12 = 1 THEN IF LeapYear(1900 + m \div 12) THEN 29 ELSE 28
                ELSE IF m % 12 \in {3, 5, 8, 10} THEN 30 ELSE 31

\* first[m]: the first day of month m
Months(first) ==
  /\ first \in [Int -> Int]
  /\ \A m \in Int : first[m + 1] = first[m] + MonthLength(m)
  /\ \A d \in Int : \E m \in Int : first[m] <= d /\ d < first[m + 1]
  /\ \A m \in Int : \A k \in 1 .. MonthLength(m) :
       LET c == Civil[first[m] + k - 1]
       IN  c.year = m \div 12 /\ c.mon = m % 12 /\ c.mday = k

\* What localtime says of the days is what the calendar says.
Gregorian ==
  /\ \E first : Months(first)
  /\ \E w \in Int : \A d \in Int : Civil[d].wday = (d + w) % 7

\* What a month is, in numbers
LEMMA MonthLengths ==
  ASSUME NEW m \in Int
  PROVE  MonthLength(m) \in 28 .. 31 /\ m % 12 \in 0 .. 11 /\ m \div 12 \in Int
         /\ m = 12 * (m \div 12) + (m % 12)
<1>1. m % 12 \in 0 .. 11 /\ m \div 12 \in Int
  OBVIOUS
<1>2. m = 12 * (m \div 12) + (m % 12)
  OBVIOUS
<1>3. MonthLength(m) \in 28 .. 31
  BY DEF MonthLength
<1>4. QED
  BY <1>1, <1>2, <1>3

\* What is known of the months
LEMMA NextMonth ==
  ASSUME NEW first, Months(first), NEW m \in Int
  PROVE  /\ first[m] \in Int /\ MonthLength(m) \in 28 .. 31
         /\ first[m + 1] = first[m] + MonthLength(m)
<1>1. first[m] \in Int
  BY DEF Months
<1>2. first[m + 1] = first[m] + MonthLength(m)
  BY DEF Months
<1>3. QED
  BY <1>1, <1>2, MonthLengths

\* A later month begins later.
LEMMA LaterMonth ==
  ASSUME NEW first, Months(first), NEW m \in Int, NEW k \in Nat
  PROVE  first[m + k] >= first[m] + k
<1> DEFINE Has == {j \in Nat : first[m + j] >= first[m] + j}
<1>1. 0 \in Has
  BY DEF Months
<1>2. ASSUME NEW j \in Nat, j \in Has PROVE j + 1 \in Has
  <2>1. m + j \in Int
    OBVIOUS
  <2>2. /\ first[m + j] \in Int /\ first[m] \in Int /\ MonthLength(m + j) \in 28 .. 31
        /\ first[(m + j) + 1] = first[m + j] + MonthLength(m + j)
    BY <2>1, NextMonth
  <2>3. (m + j) + 1 = m + (j + 1)
    OBVIOUS
  <2>4. QED
    BY <1>2, <2>2, <2>3
<1>3. Nat \subseteq Has
  <2> HIDE DEF Has
  <2>1. QED
    BY <1>1, <1>2, NumberInduction
<1>4. QED
  BY <1>3

\* What is known of a day: its month
LEMMA MonthOfDay ==
  ASSUME NEW first, Months(first), NEW d \in Int
  PROVE  \E m \in Int : /\ d = first[m] + Civil[d].mday - 1 /\ Civil[d].mday \in 1 .. MonthLength(m)
                        /\ Civil[d].year = m \div 12 /\ Civil[d].mon = m % 12
<1>1. PICK m \in Int : first[m] <= d /\ d < first[m + 1]
  BY DEF Months
<1>2. first[m] \in Int /\ first[m + 1] = first[m] + MonthLength(m) /\ MonthLength(m) \in Int
  BY NextMonth
<1> DEFINE k == d - first[m] + 1
<1>3. k \in 1 .. MonthLength(m) /\ d = first[m] + k - 1
  BY <1>1, <1>2
<1>4. Civil[first[m] + k - 1].year = m \div 12 /\ Civil[first[m] + k - 1].mon = m % 12
      /\ Civil[first[m] + k - 1].mday = k
  <2> HIDE DEF k
  <2>1. QED
    BY <1>3 DEF Months
<1>5. QED
  BY <1>1, <1>2, <1>3, <1>4

\* The day of a date is one only.
LEMMA DateIs ==
  ASSUME NEW first, Months(first), NEW m \in Int, NEW k \in 1 .. MonthLength(m),
         NEW d \in Int, Civil[d].year = m \div 12, Civil[d].mon = m % 12, Civil[d].mday = k
  PROVE  d = first[m] + k - 1
<1>1. PICK n \in Int : /\ d = first[n] + Civil[d].mday - 1
                       /\ Civil[d].year = n \div 12 /\ Civil[d].mon = n % 12
  BY MonthOfDay
<1>2. n = 12 * (n \div 12) + (n % 12) /\ m = 12 * (m \div 12) + (m % 12)
  BY MonthLengths
<1>3. QED
  BY <1>1, <1>2

\* The year from its first to its last day
LEMMA YearIs ==
  ASSUME Endless, NEW first, Months(first), NEW t \in Int
  PROVE  LET y == Civil[DayOf(t)].year
         IN  /\ y \in Int
             /\ YearRange(t) = [from |-> Begin(first[12 * y]), to |-> End(first[12 * (y + 1)] - 1)]
             /\ first[12 * y] <= DayOf(t) /\ DayOf(t) <= first[12 * (y + 1)] - 1
<1> DEFINE d == DayOf(t)
           y == Civil[d].year
           jan == 12 * y
           dec == 12 * y + 11
<1>1. d \in Int
  BY DayOfIs
<1>2. PICK n \in Int : /\ d = first[n] + Civil[d].mday - 1
                       /\ Civil[d].mday \in 1 .. MonthLength(n)
                       /\ y = n \div 12
  <2> HIDE DEF d
  <2>1. QED
    BY <1>1, MonthOfDay
<1>3. y \in Int /\ n = 12 * y + (n % 12) /\ n % 12 \in 0 .. 11
  BY <1>2, MonthLengths
<1> HIDE DEF d, y
<1>4. /\ jan \in Int /\ jan \div 12 = y /\ jan % 12 = 0
      /\ dec \in Int /\ dec \div 12 = y /\ dec % 12 = 11
  BY <1>3
<1>5. 1 \in 1 .. MonthLength(jan) /\ 31 \in 1 .. MonthLength(dec) /\ MonthLength(dec) = 31
  <2>1. MonthLength(jan) = 31
    BY <1>4 DEF MonthLength
  <2>2. MonthLength(dec) = 31
    BY <1>4 DEF MonthLength
  <2>3. QED
    BY <2>1, <2>2
<1>6. \A m \in Int : first[m] \in Int
  BY DEF Months
<1> HIDE DEF jan, dec
<1>7. \A b \in Int : (Civil[b].year = y /\ Civil[b].mon = 0 /\ Civil[b].mday = 1) <=> b = first[jan]
  <2> SUFFICES ASSUME NEW b \in Int
               PROVE (Civil[b].year = y /\ Civil[b].mon = 0 /\ Civil[b].mday = 1) <=> b = first[jan]
    OBVIOUS
  <2>1. ASSUME Civil[b].year = y, Civil[b].mon = 0, Civil[b].mday = 1 PROVE b = first[jan]
    <3>1. b = first[jan] + 1 - 1
      BY <1>4, <1>5, <2>1, DateIs
    <3>2. QED
      BY <1>4, <1>6, <3>1
  <2>2. ASSUME b = first[jan]
        PROVE  Civil[b].year = y /\ Civil[b].mon = 0 /\ Civil[b].mday = 1
    <3>1. LET c == Civil[first[jan] + 1 - 1]
          IN  c.year = jan \div 12 /\ c.mon = jan % 12 /\ c.mday = 1
      BY <1>4, <1>5 DEF Months
    <3>2. first[jan] + 1 - 1 = b
      BY <1>4, <1>6, <2>2
    <3>3. QED
      BY <1>4, <3>1, <3>2
  <2>3. QED
    BY <2>1, <2>2
<1>8. \A b \in Int : (Civil[b].year = y /\ Civil[b].mon = 11 /\ Civil[b].mday = 31)
                       <=> b = first[dec] + 30
  <2> SUFFICES ASSUME NEW b \in Int
               PROVE (Civil[b].year = y /\ Civil[b].mon = 11 /\ Civil[b].mday = 31)
                       <=> b = first[dec] + 30
    OBVIOUS
  <2>1. ASSUME Civil[b].year = y, Civil[b].mon = 11, Civil[b].mday = 31
        PROVE  b = first[dec] + 30
    <3>1. b = first[dec] + 31 - 1
      BY <1>4, <1>5, <2>1, DateIs
    <3>2. QED
      BY <1>4, <1>6, <3>1
  <2>2. ASSUME b = first[dec] + 30
        PROVE  Civil[b].year = y /\ Civil[b].mon = 11 /\ Civil[b].mday = 31
    <3>1. LET c == Civil[first[dec] + 31 - 1]
          IN  c.year = dec \div 12 /\ c.mon = dec % 12 /\ c.mday = 31
      BY <1>4, <1>5 DEF Months
    <3>2. first[dec] + 31 - 1 = b
      BY <1>4, <1>6, <2>2
    <3>3. QED
      BY <1>4, <3>1, <3>2
  <2>3. QED
    BY <2>1, <2>2
<1>9. first[12 * (y + 1)] = first[dec] + 31
  <2>1. first[dec + 1] = first[dec] + MonthLength(dec)
    BY <1>4 DEF Months
  <2>2. dec + 1 = 12 * (y + 1)
    BY <1>3 DEF dec
  <2>3. QED
    BY <1>5, <2>1, <2>2
<1>10. YearRange(t) = [from |-> Begin(first[jan]), to |-> End(first[dec] + 30)]
  <2> DEFINE On(mon, mday) == CHOOSE b \in Day : /\ Civil[b].year = Civil[DayOf(t)].year
                                                 /\ Civil[b].mon = mon /\ Civil[b].mday = mday
  <2>1. Day = Int
    BY EveryDay
  <2>2. first[jan] \in Int /\ first[dec] + 30 \in Int
    BY <1>4, <1>6
  <2>3. On(0, 1) = first[jan]
    BY <1>7, <2>1, <2>2 DEF y, d
  <2>4. On(11, 31) = first[dec] + 30
    BY <1>8, <2>1, <2>2 DEF y, d
  <2>5. YearRange(t) = [from |-> Begin(On(0, 1)), to |-> End(On(11, 31))]
    BY Zenon DEF YearRange
  <2> HIDE DEF On
  <2>6. QED
    BY <2>3, <2>4, <2>5
<1>11. first[jan] <= d
  <2>1. n - jan \in Nat /\ jan + (n - jan) = n /\ jan \in Int
    BY <1>2, <1>3, <1>4 DEF jan
  <2>2. first[jan + (n - jan)] >= first[jan] + (n - jan)
    BY <2>1, LaterMonth
  <2>3. first[n] \in Int /\ first[jan] \in Int /\ Civil[d].mday >= 1 /\ Civil[d].mday \in Int
    BY <1>2, <1>4, <1>6
  <2>4. QED
    BY <1>2, <2>1, <2>2, <2>3
<1>12. d <= first[12 * (y + 1)] - 1
  <2> DEFINE k == 12 * (y + 1) - (n + 1)
  <2>1. k \in Nat /\ (n + 1) + k = 12 * (y + 1) /\ n + 1 \in Int
    BY <1>2, <1>3
  <2> HIDE DEF k
  <2>2. first[(n + 1) + k] >= first[n + 1] + k
    BY <2>1, LaterMonth
  <2>3. first[n + 1] = first[n] + MonthLength(n) /\ MonthLength(n) \in Int
    BY NextMonth
  <2>4. first[n] \in Int /\ first[n + 1] \in Int /\ first[12 * (y + 1)] \in Int
    BY <1>3, <1>6
  <2>5. first[12 * (y + 1)] >= first[n + 1]
    BY <2>1, <2>2, <2>4
  <2>6. QED
    BY <1>2, <2>3, <2>4, <2>5
<1>13. first[dec] + 30 = first[12 * (y + 1)] - 1
  BY <1>4, <1>6, <1>9
<1>14. QED
  BY <1>3, <1>10, <1>11, <1>12, <1>13 DEF d, y, jan

\* The first weekday of the week is not counted back for more than six days.
LEMMA DayOfWeekIs ==
  ASSUME Endless, NEW t \in Int
  PROVE  /\ DayOfWeek(t) \in 0 .. 6
         /\ DayOfWeek(t) = (Civil[DayOf(t)].wday - FirstWeekday) % 7
<1>1. DayOf(t) \in Int
  BY DayOfIs
<1>2. Civil[DayOf(t)].wday \in 0 .. 6
  BY <1>1, EveryDay DEF CivilDay
<1>3. FirstWeekday \in 0 .. 6
  BY CalendarAssumption
<1>4. QED
  BY <1>2, <1>3 DEF DayOfWeek

\* The midnight that a day begins with is of that day.
LEMMA DayOfMidnight ==
  ASSUME Endless, NEW d \in Int
  PROVE  Midnight[d] \in Int /\ DayOf(Midnight[d]) = d
<1>1. Midnight[d] \in Int /\ Midnight[d] < Midnight[d + 1] /\ Midnight[d + 1] \in Int
  BY EveryDay
<1>2. QED
  BY <1>1, DayIs

\* What is presented are whole days.
LEMMA TimeSpanIsWhole ==
  ASSUME Endless, Gregorian, NEW p \in Picks
  PROVE  WholeDays(TimeSpan(p.view, p.day))
<1> DEFINE d == p.day
           t == Begin(d)
<1>1. d \in Int /\ p.view \in {"day", "week", "month", "year"}
  BY DetailsAssumption, EveryDay
<1>2. t \in Int /\ DayOf(t) = d
  BY <1>1, DayOfMidnight DEF Begin
<1> HIDE DEF t
<1>3. CASE p.view = "day"
  <2>1. TimeSpan(p.view, d) = DayRange(t)
    BY <1>3 DEF TimeSpan, t
  <2>2. Whole(DayRange(t), d, d)
    BY <1>1, <1>2 DEF Whole, DayRange
  <2>3. QED
    BY <1>1, <2>1, <2>2 DEF WholeDays
<1>4. CASE p.view = "week"
  <2>1. TimeSpan(p.view, d) = WeekRange(t)
    BY <1>4 DEF TimeSpan, t
  <2> DEFINE a == DayOf(t - Hours24 * DayOfWeek(t))
             b == DayOf(Begin(a) + 6 * Hours24)
  <2>2. a \in Int
    <3>1. t - Hours24 * DayOfWeek(t) \in Int
      BY <1>2, DayOfWeekIs DEF Hours24
    <3>2. QED
      BY <3>1, DayOfIs
  <2>3. Begin(a) \in Int /\ DayOf(Begin(a)) = a
    BY <2>2, DayOfMidnight DEF Begin
  <2>4. Begin(a) + 6 * Hours24 \in Int /\ Begin(a) <= Begin(a) + 6 * Hours24
    BY <2>3 DEF Hours24
  <2>5. b \in Int /\ a <= b
    BY <2>3, <2>4, DayOfIs, EarlierTime
  <2>6. WeekRange(t) = [from |-> Begin(a), to |-> End(b)]
    BY DEF WeekRange, BeginningOfWeek, EndOfWeek
  <2> HIDE DEF a, b
  <2>7. QED
    BY <2>1, <2>2, <2>5, <2>6 DEF WholeDays, Whole
<1>5. CASE p.view = "month"
  <2>1. TimeSpan(p.view, d) = MonthRange(t)
    BY <1>5 DEF TimeSpan, t
  <2> DEFINE last == DaysInMonth(Civil[d].year, Civil[d].mon)
             a == d - Civil[d].mday + 1
             b == d - Civil[d].mday + last
  <2>2. last \in {28, 29, 30, 31}
    BY DEF DaysInMonth
  <2>3. Civil[d].mday \in Int
    BY <1>1, EveryDay DEF CivilDay
  <2>4. MonthRange(t) = [from |-> Begin(a), to |-> End(b)]
    BY <1>2 DEF MonthRange
  <2> HIDE DEF last
  <2>5. a \in Int /\ b \in Int /\ a <= b
    BY <1>1, <2>2, <2>3
  <2> HIDE DEF a, b
  <2>6. QED
    BY <2>1, <2>4, <2>5 DEF WholeDays, Whole
<1>6. CASE p.view = "year"
  <2>1. TimeSpan(p.view, d) = YearRange(t)
    BY <1>6 DEF TimeSpan, t
  <2>2. PICK first : Months(first)
    BY DEF Gregorian
  <2> DEFINE y == Civil[DayOf(t)].year
             a == first[12 * y]
             b == first[12 * (y + 1)] - 1
  <2>3. /\ y \in Int
        /\ YearRange(t) = [from |-> Begin(a), to |-> End(b)]
        /\ a <= d /\ d <= b
    BY <1>2, <2>2, YearIs
  <2> HIDE DEF y
  <2>4. a \in Int /\ b \in Int
    <3>1. 12 * y \in Int /\ 12 * (y + 1) \in Int
      BY <2>3
    <3>2. QED
      BY <2>2, <3>1, NextMonth
  <2> HIDE DEF a, b
  <2>5. a <= b
    BY <1>1, <2>3, <2>4
  <2>6. QED
    BY <2>1, <2>3, <2>4, <2>5 DEF WholeDays, Whole
<1>7. QED
  BY <1>1, <1>3, <1>4, <1>5, <1>6

-----------------------------------------------------------------------------
(* The group of a day *)

\* Within a week the clocks are changed by less than half a day.
ChangesAreSmall ==
  \A d \in Int, k \in 0 .. 6 :
    LET late == Midnight[d + k] - (Midnight[d] + Hours24 * k)
    IN  -12 * 3600 < late /\ late < 12 * 3600

\* No February is looked at in which days_in_month errs: that of 1900, of
\* 2000, and of every 400th year after them.
NoOddFebruary ==
  \A p \in Picks : p.view = "month" /\ Civil[p.day].mon = 1
                   => Civil[p.day].year % 400 \notin {0, 100}

\* The week of a day, from its first weekday to the day before the next one
LEMMA WeekOfDay ==
  ASSUME Endless, Gregorian, NEW d \in Int
  PROVE  LET a == FirstOfWeek(d)
         IN  /\ a \in Int /\ d \in a .. a + 6
             /\ {e \in a .. (a + 6) + 1 : Civil[e].wday = FirstWeekday} = {a, (a + 6) + 1}
<1> DEFINE k == (Civil[d].wday - FirstWeekday) % 7
           a == d - k
<1>1. a = FirstOfWeek(d)
  BY DEF FirstOfWeek
<1>2. k \in 0 .. 6 /\ k = (Civil[d].wday - FirstWeekday) % 7
  <2>1. Civil[d].wday \in 0 .. 6 /\ FirstWeekday \in 0 .. 6
    BY CalendarAssumption, EveryDay DEF CivilDay
  <2>2. QED
    BY <2>1
<1> HIDE DEF k
<1>3. a \in Int /\ d = a + k /\ d \in a .. a + 6
  BY <1>2
<1> HIDE DEF a
<1>4. PICK w \in Int : \A e \in Int : Civil[e].wday = (e + w) % 7
  BY DEF Gregorian
<1>5. FirstWeekday \in 0 .. 6
  BY CalendarAssumption
<1>6. (a + w) % 7 = FirstWeekday
  <2> DEFINE q == (d + w) \div 7
             r == (d + w) % 7
  <2>1. Civil[d].wday = r
    BY <1>4
  <2>2. d + w = 7 * q + r /\ q \in Int /\ r \in 0 .. 6
    OBVIOUS
  <2> HIDE DEF q, r
  <2>3. CASE r >= FirstWeekday
    <3>1. k = r - FirstWeekday
      BY <1>2, <1>5, <2>1, <2>2, <2>3
    <3>2. a + w = 7 * q + FirstWeekday
      BY <1>2, <1>3, <1>5, <2>2, <3>1
    <3>3. QED
      BY <1>3, <1>5, <2>2, <3>2
  <2>4. CASE r < FirstWeekday
    <3>1. k = r - FirstWeekday + 7
      BY <1>2, <1>5, <2>1, <2>2, <2>4
    <3>2. a + w = 7 * (q - 1) + FirstWeekday
      BY <1>2, <1>3, <1>5, <2>2, <3>1
    <3>3. QED
      BY <1>3, <1>5, <2>2, <3>2
  <2>5. QED
    BY <1>5, <2>2, <2>3, <2>4
<1>7. ASSUME NEW e \in a .. (a + 6) + 1
       PROVE  Civil[e].wday = FirstWeekday <=> e = a \/ e = (a + 6) + 1
  <2> DEFINE q == (a + w) \div 7
             r == (a + w) % 7
             j == e - a
  <2>1. e \in Int /\ j \in 0 .. 7 /\ e = a + j
    BY <1>3
  <2>2. a + w = 7 * q + r /\ q \in Int /\ r \in 0 .. 6
    BY <1>3
  <2>3. Civil[e].wday = (e + w) % 7 /\ FirstWeekday = r
    BY <1>4, <1>6, <2>1
  <2> HIDE DEF q, r, j
  <2>4. e + w = 7 * q + (r + j) /\ e + w = 7 * (q + 1) + (r + j - 7)
    BY <1>3, <2>1, <2>2
  <2>5. CASE r + j < 7
    <3>1. (e + w) % 7 = r + j
      BY <2>1, <2>2, <2>4, <2>5
    <3>2. QED
      BY <1>3, <2>1, <2>2, <2>3, <2>5, <3>1
  <2>6. CASE r + j >= 7
    <3>1. (e + w) % 7 = r + j - 7
      BY <2>1, <2>2, <2>4, <2>6
    <3>2. QED
      BY <1>3, <2>1, <2>2, <2>3, <2>6, <3>1
  <2>7. QED
    BY <2>1, <2>2, <2>5, <2>6
<1>8. {e \in a .. (a + 6) + 1 : Civil[e].wday = FirstWeekday} = {a, (a + 6) + 1}
  BY <1>3, <1>7
<1>9. QED
  BY <1>1, <1>3, <1>8

\* The day of the week counts from there.
LEMMA DayInWeek ==
  ASSUME Endless, NEW d \in Int
  PROVE  /\ DayOfWeek(Midnight[d]) \in 0 .. 6
         /\ FirstOfWeek(d) \in Int /\ d = FirstOfWeek(d) + DayOfWeek(Midnight[d])
<1> DEFINE k == DayOfWeek(Midnight[d])
<1>1. Midnight[d] \in Int /\ DayOf(Midnight[d]) = d
  BY DayOfMidnight
<1>2. k \in 0 .. 6 /\ k = (Civil[d].wday - FirstWeekday) % 7
  BY <1>1, DayOfWeekIs
<1>3. FirstOfWeek(d) = d - k
  BY <1>2 DEF FirstOfWeek
<1> HIDE DEF k
<1>4. FirstOfWeek(d) \in Int /\ d = FirstOfWeek(d) + k
  BY <1>2, <1>3
<1>5. QED
  BY <1>2, <1>4 DEF k

\* In a week of days of 24 hours the midnights are 24 hours apart.
LEMMA EvenDays ==
  ASSUME Endless, NEW d \in Int, ~ UnevenWeek(d), FirstOfWeek(d) \in Int,
         NEW k \in 0 .. 6
  PROVE  Midnight[FirstOfWeek(d) + k] = Midnight[FirstOfWeek(d)] + Hours24 * k
<1> DEFINE a == FirstOfWeek(d)
<1>1. \A e \in a .. a + 5 : Midnight[e + 1] - Midnight[e] = Hours24
  BY DEF UnevenWeek
<1>2. \A n \in Int : Midnight[n] \in Int
  BY EveryDay
<1>3. a \in Int
  OBVIOUS
<1> HIDE DEF a
<1> DEFINE Has == {j \in 0 .. 6 : Midnight[a + j] = Midnight[a] + Hours24 * j}
<1>4. 0 \in Has
  BY <1>2, <1>3 DEF Hours24
<1>5. ASSUME NEW j \in 1 .. 6, j - 1 \in Has PROVE j \in Has
  <2>1. Midnight[a + (j - 1)] = Midnight[a] + Hours24 * (j - 1) /\ j - 1 \in 0 .. 6
    BY <1>5
  <2>2. a + (j - 1) \in a .. a + 5
    BY <1>3
  <2>3. Midnight[(a + (j - 1)) + 1] - Midnight[a + (j - 1)] = Hours24
    BY <1>1, <2>2
  <2>4. (a + (j - 1)) + 1 = a + j /\ a + j \in Int /\ a + (j - 1) \in Int
    BY <1>3
  <2>5. Midnight[a + j] = Midnight[a] + Hours24 * j
    BY <1>2, <1>3, <2>1, <2>3, <2>4 DEF Hours24
  <2>6. QED
    BY <2>5
<1>6. 0 .. 6 \subseteq Has
  <2> HIDE DEF Has
  <2>1. QED
    BY <1>4, <1>5, Counting
<1>7. QED
  BY <1>6 DEF a

\* In such a week the steps of 24 hours lead to its first and its last day.
LEMMA WeekIs ==
  ASSUME Endless, NEW d \in Int, ~ UnevenWeek(d)
  PROVE  LET a == FirstOfWeek(d)
         IN  WeekRange(Midnight[d]) = [from |-> Begin(a), to |-> End(a + 6)]
<1> DEFINE t == Midnight[d]
           k == DayOfWeek(t)
           a == FirstOfWeek(d)
<1>1. t \in Int
  BY DayOfMidnight
<1>2. k \in 0 .. 6 /\ a \in Int /\ d = a + k
  BY DayInWeek
<1>3. \A j \in 0 .. 6 : Midnight[a + j] = Midnight[a] + Hours24 * j
  BY <1>2, EvenDays
<1> HIDE DEF k, a
<1>4. Midnight[a] \in Int
  BY <1>2, EveryDay
<1>5. BeginningOfWeek(t) = Begin(a)
  <2>1. t = Midnight[a] + Hours24 * k
    BY <1>2, <1>3 DEF t
  <2> HIDE DEF t
  <2>2. t - Hours24 * k = Midnight[a]
    BY <1>1, <1>2, <1>4, <2>1 DEF Hours24
  <2>3. DayOf(Midnight[a]) = a
    BY <1>2, DayOfMidnight
  <2>4. QED
    BY <2>2, <2>3 DEF BeginningOfWeek, k
<1>6. EndOfWeek(t) = End(a + 6)
  <2>1. a + 6 \in Int
    BY <1>2
  <2>2. DayOf(Midnight[a + 6]) = a + 6
    BY <2>1, DayOfMidnight
  <2>3. Midnight[a + 6] = Midnight[a] + Hours24 * 6
    BY <1>3
  <2>4. Begin(a) + 6 * Hours24 = Midnight[a + 6]
    BY <1>4, <2>3 DEF Begin, Hours24
  <2>5. QED
    BY <1>5, <2>2, <2>4 DEF EndOfWeek
<1>7. QED
  BY <1>5, <1>6 DEF WeekRange, a

\* A time within half a day of a midnight is of the day it begins, or of the
\* day before.
LEMMA NearlyMidnight ==
  ASSUME NEW d \in Int, NEW t \in Int, Endless, ChangesAreSmall,
         Midnight[d] - 12 * 3600 < t, t < Midnight[d] + 12 * 3600
  PROVE  DayOf(t) \in {d - 1, d}
<1>1. /\ d - 1 \in Int /\ (d - 1) + 1 = d
      /\ Midnight[d - 1] \in Int /\ Midnight[d] \in Int /\ Midnight[d + 1] \in Int
  BY EveryDay
<1>2. Midnight[d] - (Midnight[d - 1] + Hours24) > -12 * 3600
  BY <1>1 DEF ChangesAreSmall, Hours24
<1>3. Midnight[d + 1] - (Midnight[d] + Hours24) > -12 * 3600
  BY <1>1 DEF ChangesAreSmall, Hours24
<1>4. Midnight[d - 1] <= t /\ t < Midnight[d + 1]
  BY <1>1, <1>2, <1>3 DEF Hours24
<1>5. CASE t < Midnight[d]
  <2>1. DayOf(t) = d - 1
    BY <1>1, <1>4, <1>5, DayIs
  <2>2. QED
    BY <2>1
<1>6. CASE Midnight[d] <= t
  <2>1. DayOf(t) = d
    BY <1>4, <1>6, DayIs
  <2>2. QED
    BY <2>1
<1>7. QED
  BY <1>1, <1>5, <1>6

\* Six times 24 hours lead six days on, or five.
LEMMA SixDaysOn ==
  ASSUME NEW a \in Int, Endless, ChangesAreSmall
  PROVE  DayOf(Begin(a) + 6 * Hours24) \in {a + 5, a + 6}
<1> DEFINE c == a + 6
           u == Begin(a) + 6 * Hours24
<1>1. c \in Int /\ Midnight[a] \in Int /\ Midnight[c] \in Int
  BY EveryDay
<1>2. /\ -12 * 3600 < Midnight[c] - (Midnight[a] + Hours24 * 6)
      /\ Midnight[c] - (Midnight[a] + Hours24 * 6) < 12 * 3600
  BY DEF ChangesAreSmall
<1>3. c - 1 = a + 5
  OBVIOUS
<1> HIDE DEF c
<1>4. u \in Int /\ Midnight[c] - 12 * 3600 < u /\ u < Midnight[c] + 12 * 3600
  BY <1>1, <1>2 DEF Hours24, Begin
<1> HIDE DEF u
<1>5. DayOf(u) \in {c - 1, c}
  BY <1>1, <1>4, NearlyMidnight
<1>6. DayOf(u) \in {a + 5, c}
  BY <1>3, <1>5
<1>7. QED
  BY <1>6 DEF u, c

\* In any week they lead to those days or to the days before.
LEMMA WeekIsNearly ==
  ASSUME Endless, ChangesAreSmall, NEW d \in Int
  PROVE  \E a, b \in Int : /\ WeekRange(Midnight[d]) = [from |-> Begin(a), to |-> End(b)]
                           /\ FirstOfWeek(d) \in {a, a + 1} /\ b \in {a + 5, a + 6}
<1> DEFINE t == Midnight[d]
           k == DayOfWeek(t)
           f == FirstOfWeek(d)
           a == DayOf(t - Hours24 * k)
           b == DayOf(Begin(a) + 6 * Hours24)
<1>1. t \in Int
  BY DayOfMidnight
<1>2. k \in 0 .. 6 /\ f \in Int /\ d = f + k
  BY DayInWeek
<1> HIDE DEF k, f
<1>3. WeekRange(t) = [from |-> Begin(a), to |-> End(b)]
  BY DEF WeekRange, BeginningOfWeek, EndOfWeek, k
<1>4. a \in {f - 1, f}
  <2>1. Midnight[f] \in Int
    BY <1>2, EveryDay
  <2>2. /\ -12 * 3600 < t - (Midnight[f] + Hours24 * k)
        /\ t - (Midnight[f] + Hours24 * k) < 12 * 3600
    BY <1>2 DEF ChangesAreSmall
  <2> HIDE DEF t
  <2> DEFINE u == t - Hours24 * k
  <2>3. u \in Int /\ Midnight[f] - 12 * 3600 < u /\ u < Midnight[f] + 12 * 3600
    BY <1>1, <1>2, <2>1, <2>2 DEF Hours24
  <2> HIDE DEF u
  <2>4. DayOf(u) \in {f - 1, f}
    BY <1>2, <2>3, NearlyMidnight
  <2>5. QED
    BY <2>4 DEF u
<1>5. a \in Int
  BY <1>2, <1>4
<1> HIDE DEF a
<1>6. b \in {a + 5, a + 6}
  BY <1>5, SixDaysOn
<1> HIDE DEF b, t
<1>7. b \in Int /\ b \in {a + 5, a + 6} /\ f \in {a, a + 1}
  BY <1>2, <1>4, <1>5, <1>6
<1>8. QED
  BY <1>3, <1>5, <1>7 DEF f, t

\* Days that are the first of a month
LEMMA FirstOfMonth ==
  ASSUME NEW first, Months(first), NEW d \in Int
  PROVE  /\ Civil[d].mday = 1 <=> \E m \in Int : d = first[m]
         /\ \A m \in Int : d = first[m] => Civil[d].mon = m % 12
<1>1. PICK n \in Int : /\ d = first[n] + Civil[d].mday - 1 /\ Civil[d].mday \in 1 .. MonthLength(n)
                       /\ Civil[d].mon = n % 12
  BY MonthOfDay
<1>2. ASSUME Civil[d].mday = 1 PROVE d = first[n]
  <2>1. first[n] \in Int
    BY NextMonth
  <2>2. QED
    BY <1>1, <1>2, <2>1
<1>3. ASSUME NEW m \in Int, d = first[m] PROVE Civil[d].mday = 1 /\ Civil[d].mon = m % 12
  <2>1. first[m] \in Int /\ MonthLength(m) \in 28 .. 31
    BY NextMonth
  <2>2. 1 \in 1 .. MonthLength(m) /\ first[m] + 1 - 1 = d
    BY <1>3, <2>1
  <2>3. LET c == Civil[first[m] + 1 - 1] IN c.mday = 1 /\ c.mon = m % 12
    BY <2>2 DEF Months
  <2>4. QED
    BY <2>2, <2>3
<1>4. QED
  BY <1>2, <1>3

\* Between the first of a month and that of another one
LEMMA MonthsBetween ==
  ASSUME NEW first, Months(first), NEW m \in Int, NEW n \in Int
  PROVE  first[m] <= first[n] <=> m <= n
<1>1. first[m] \in Int /\ first[n] \in Int
  BY NextMonth
<1>2. CASE m <= n
  <2>1. n - m \in Nat /\ m + (n - m) = n
    BY <1>2
  <2>2. first[m + (n - m)] >= first[m] + (n - m)
    BY <2>1, LaterMonth
  <2>3. QED
    BY <1>1, <1>2, <2>1, <2>2
<1>3. CASE ~ (m <= n)
  <2>1. m - n \in Nat /\ n + (m - n) = m /\ m - n > 0
    BY <1>3
  <2>2. first[n + (m - n)] >= first[n] + (m - n)
    BY <2>1, LaterMonth
  <2>3. QED
    BY <1>1, <1>3, <2>1, <2>2
<1>4. QED
  BY <1>2, <1>3

\* The month of a day, from its first to the day before the next first
LEMMA MonthIs ==
  ASSUME Endless, NEW first, Months(first), NEW d \in Int,
         Civil[d].mon = 1 => Civil[d].year % 400 \notin {0, 100}
  PROVE  \E m \in Int :
           /\ MonthRange(Midnight[d]) = [from |-> Begin(first[m]), to |-> End(first[m + 1] - 1)]
           /\ first[m] <= d /\ d <= first[m + 1] - 1
<1>1. DayOf(Midnight[d]) = d
  BY DayOfMidnight
<1>2. PICK m \in Int : /\ d = first[m] + Civil[d].mday - 1
                       /\ Civil[d].mday \in 1 .. MonthLength(m)
                       /\ Civil[d].year = m \div 12 /\ Civil[d].mon = m % 12
  BY MonthOfDay
<1>3. first[m] \in Int /\ MonthLength(m) \in 28 .. 31 /\ first[m + 1] = first[m] + MonthLength(m)
  BY NextMonth
<1>4. DaysInMonth(Civil[d].year, Civil[d].mon) = MonthLength(m)
  <2> DEFINE y == m \div 12
             k == m % 12
  <2>1. y \in Int /\ k \in 0 .. 11
    BY MonthLengths
  <2>2. Civil[d].year = y /\ Civil[d].mon = k
    BY <1>2
  <2>3. MonthLength(m) = IF k = 1 THEN IF LeapYear(1900 + y) THEN 29 ELSE 28
                         ELSE IF k \in {3, 5, 8, 10} THEN 30 ELSE 31
    BY DEF MonthLength
  <2> HIDE DEF y, k
  <2>4. CASE k = 1
    <3>1. y % 400 # 0 /\ y % 400 # 100
      BY <2>2, <2>4
    <3>2. DaysInMonth(y, k) = IF y % 4 = 0 /\ y % 100 # 0 THEN 29 ELSE 28
      BY <2>4, <3>1 DEF DaysInMonth
    <3>3. LeapYear(1900 + y) <=> y % 4 = 0 /\ y % 100 # 0
      <4>1. (1900 + y) % 4 = y % 4
        BY <2>1
      <4>2. (1900 + y) % 100 = y % 100
        BY <2>1
      <4>3. (1900 + y) % 400 # 0
        BY <2>1, <3>1
      <4>4. QED
        BY <4>1, <4>2, <4>3 DEF LeapYear
    <3>4. QED
      BY <2>2, <2>3, <2>4, <3>2, <3>3
  <2>5. CASE k # 1
    <3>1. DaysInMonth(y, k) = IF k \in {3, 5, 8, 10} THEN 30 ELSE 31
      BY <2>5 DEF DaysInMonth
    <3>2. QED
      BY <2>2, <2>3, <2>5, <3>1
  <2>6. QED
    BY <2>4, <2>5
<1> DEFINE a == d - Civil[d].mday + 1
           b == d - Civil[d].mday + DaysInMonth(Civil[d].year, Civil[d].mon)
<1>5. a = first[m] /\ b = first[m + 1] - 1
  BY <1>2, <1>3, <1>4
<1>6. MonthRange(Midnight[d]) = [from |-> Begin(a), to |-> End(b)]
  BY <1>1 DEF MonthRange
<1>7. first[m] <= d /\ d <= first[m + 1] - 1
  BY <1>2, <1>3
<1> HIDE DEF a, b
<1>8. QED
  BY <1>5, <1>6, <1>7

\* The days from a to b are the group of day d in a view.
GroupStarts(view, d) ==
  CASE view = "week"  -> Civil[d].wday = FirstWeekday
    [] view = "month" -> Civil[d].mday = 1
    [] OTHER -> Civil[d].mday = 1 /\ Civil[d].mon = 0

IsGroup(view, d, a, b) ==
  \/ view = "day" /\ a = d /\ b = d
  \/ d \in a .. b /\ {e \in a .. b + 1 : GroupStarts(view, e)} = {a, b + 1}
  \/ /\ view = "week" /\ UnevenWeek(d)
     /\ FirstOfWeek(d) \in {a, a + 1} /\ b \in {a + 5, a + 6}

\* The span of a view is the group of the day picked.
LEMMA TimeSpanIsTheGroup ==
  ASSUME Endless, Gregorian, ChangesAreSmall, NoOddFebruary, NEW p \in Picks
  PROVE  \E a, b \in Int : /\ TimeSpan(p.view, p.day) = [from |-> Begin(a), to |-> End(b)]
                           /\ IsGroup(p.view, p.day, a, b)
<1> DEFINE d == p.day
           t == Midnight[d]
<1>1. d \in Int /\ p.view \in {"day", "week", "month", "year"}
  BY DetailsAssumption, EveryDay
<1>2. t \in Int /\ DayOf(t) = d
  BY <1>1, DayOfMidnight
<1>3. PICK first : Months(first)
  BY DEF Gregorian
<1> HIDE DEF t
<1>4. CASE p.view = "day"
  <2>1. TimeSpan(p.view, d) = [from |-> Begin(d), to |-> End(d)]
    BY <1>2, <1>4 DEF TimeSpan, DayRange, Begin, t
  <2>2. IsGroup(p.view, d, d, d)
    BY <1>1, <1>4 DEF IsGroup
  <2>3. QED
    BY <1>1, <2>1, <2>2
<1>5. CASE p.view = "week"
  <2>1. TimeSpan(p.view, d) = WeekRange(t)
    BY <1>5 DEF TimeSpan, Begin, t
  <2>2. CASE UnevenWeek(d)
    <3>1. PICK a \in Int, b \in Int :
            /\ WeekRange(t) = [from |-> Begin(a), to |-> End(b)]
            /\ FirstOfWeek(d) \in {a, a + 1} /\ b \in {a + 5, a + 6}
      BY <1>1, WeekIsNearly DEF t
    <3>2. IsGroup(p.view, d, a, b)
      BY <1>5, <2>2, <3>1 DEF IsGroup
    <3>3. QED
      BY <2>1, <3>1, <3>2
  <2>3. CASE ~ UnevenWeek(d)
    <3> DEFINE a == FirstOfWeek(d)
    <3>1. WeekRange(t) = [from |-> Begin(a), to |-> End(a + 6)]
      BY <1>1, <2>3, WeekIs DEF t
    <3>2. /\ a \in Int /\ d \in a .. a + 6
          /\ {e \in a .. (a + 6) + 1 : Civil[e].wday = FirstWeekday} = {a, (a + 6) + 1}
      BY <1>1, WeekOfDay
    <3> HIDE DEF a
    <3>3. \A e : GroupStarts(p.view, e) <=> Civil[e].wday = FirstWeekday
      BY <1>5 DEF GroupStarts
    <3>4. IsGroup(p.view, d, a, a + 6)
      BY <3>2, <3>3 DEF IsGroup
    <3>5. a + 6 \in Int
      BY <3>2
    <3>6. QED
      BY <2>1, <3>1, <3>2, <3>4, <3>5
  <2>4. QED
    BY <2>2, <2>3
<1>6. CASE p.view = "month"
  <2>1. TimeSpan(p.view, d) = MonthRange(t)
    BY <1>6 DEF TimeSpan, Begin, t
  <2>2. Civil[d].mon = 1 => Civil[d].year % 400 \notin {0, 100}
    BY <1>6 DEF NoOddFebruary
  <2>3. PICK m \in Int :
           /\ MonthRange(t) = [from |-> Begin(first[m]), to |-> End(first[m + 1] - 1)]
           /\ first[m] <= d /\ d <= first[m + 1] - 1
    BY <1>1, <1>3, <2>2, MonthIs DEF t
  <2>4. \A e : GroupStarts(p.view, e) <=> Civil[e].mday = 1
    BY <1>6 DEF GroupStarts
  <2>5. m + 1 \in Int /\ first[m] \in Int /\ first[m + 1] \in Int
    BY <1>3, NextMonth
  <2> DEFINE a == first[m]
             c == first[m + 1]
  <2>6. ASSUME NEW e \in a .. c PROVE Civil[e].mday = 1 <=> e = a \/ e = c
    <3>1. e \in Int
      BY <2>5
    <3>2. Civil[e].mday = 1 <=> \E n \in Int : e = first[n]
      BY <1>3, <3>1, FirstOfMonth
    <3>3. ASSUME NEW n \in Int, e = first[n] PROVE n = m \/ n = m + 1
      <4>1. first[m] <= first[n] /\ first[n] <= first[m + 1]
        BY <2>5, <3>3
      <4>2. m <= n /\ n <= m + 1
        BY <1>3, <2>5, <4>1, MonthsBetween
      <4>3. QED
        BY <4>2
    <3>4. QED
      BY <2>5, <3>2, <3>3
  <2>7. a < c
    BY <1>1, <2>3, <2>5
  <2>8. {e \in a .. (c - 1) + 1 : GroupStarts(p.view, e)} = {a, (c - 1) + 1}
    <3>1. (c - 1) + 1 = c /\ a \in a .. c /\ c \in a .. c
      BY <2>5, <2>7
    <3> HIDE DEF a, c
    <3>2. QED
      BY <2>4, <2>6, <3>1
  <2>9. IsGroup(p.view, d, a, c - 1)
    BY <1>1, <2>3, <2>5, <2>8 DEF IsGroup
  <2>10. QED
    BY <2>1, <2>3, <2>5, <2>9
<1>7. CASE p.view = "year"
  <2> DEFINE y == Civil[DayOf(t)].year
             a == first[12 * y]
             c == first[12 * (y + 1)]
  <2>1. TimeSpan(p.view, d) = YearRange(t)
    BY <1>7 DEF TimeSpan, Begin, t
  <2>2. /\ y \in Int
        /\ YearRange(t) = [from |-> Begin(a), to |-> End(c - 1)]
        /\ a <= d /\ d <= c - 1
    BY <1>2, <1>3, YearIs
  <2> HIDE DEF y
  <2>3. \A e : GroupStarts(p.view, e) <=> Civil[e].mday = 1 /\ Civil[e].mon = 0
    BY <1>7 DEF GroupStarts
  <2>4. 12 * y \in Int /\ 12 * (y + 1) \in Int /\ (12 * y) % 12 = 0 /\ (12 * (y + 1)) % 12 = 0
    BY <2>2
  <2>5. a \in Int /\ c \in Int
    BY <1>3, <2>4, NextMonth
  <2>6. ASSUME NEW e \in a .. c
        PROVE  Civil[e].mday = 1 /\ Civil[e].mon = 0 <=> e = a \/ e = c
    <3>1. e \in Int
      BY <2>5
    <3>2. /\ Civil[e].mday = 1 <=> \E n \in Int : e = first[n]
          /\ \A n \in Int : e = first[n] => Civil[e].mon = n % 12
      BY <1>3, <3>1, FirstOfMonth
    <3>3. ASSUME NEW n \in Int, e = first[n], n % 12 = 0 PROVE n = 12 * y \/ n = 12 * (y + 1)
      <4>1. first[12 * y] <= first[n] /\ first[n] <= first[12 * (y + 1)]
        BY <2>5, <3>3
      <4>2. 12 * y <= n /\ n <= 12 * (y + 1)
        BY <1>3, <2>4, <4>1, MonthsBetween
      <4>3. n = 12 * (n \div 12) /\ n \div 12 \in Int
        BY <3>3
      <4>4. QED
        BY <2>2, <4>2, <4>3
    <3>4. QED
      BY <2>4, <3>2, <3>3
  <2>7. a < c
    BY <1>1, <2>2, <2>5
  <2>8. {e \in a .. (c - 1) + 1 : GroupStarts(p.view, e)} = {a, (c - 1) + 1}
    <3>1. (c - 1) + 1 = c /\ a \in a .. c /\ c \in a .. c
      BY <2>5, <2>7
    <3> HIDE DEF a, c
    <3>2. QED
      BY <2>3, <2>6, <3>1
  <2>9. IsGroup(p.view, d, a, c - 1)
    BY <1>1, <2>2, <2>5, <2>8 DEF IsGroup
  <2>10. QED
    BY <2>1, <2>2, <2>5, <2>9
<1>8. QED
  BY <1>1, <1>4, <1>5, <1>6, <1>7

-----------------------------------------------------------------------------
(* The invariant *)

\* A list that is kept is brought up to date, or it is made anew.
LEMMA UpdatedOrAnew ==
  ASSUME Endless, NEW tm \in Table, NEW l \in List, NEW u \in Int, presented # NoTask,
         WholeDays(range), AllInOneDay(tm, presented)
  PROVE  LET ll == Updated(l, tm, CreateRowData(tm, presented, DayRange(u)))
         IN  \/ ll = Populated(tm)
             \/ ll.narrowed = l.narrowed /\ ll.stirred = l.stirred
<1> DEFINE t == presented
           S == Listed(tm, t, range)
           one == Listed(tm, t, DayRange(u))
           data == CreateRowData(tm, t, DayRange(u))
           n == Len(data)
           pop == Populated(tm)
<1>1. /\ data \in Seq(ListRow)
      /\ \A k \in DOMAIN data : data[k].id \in one /\ data[k] = RowIn(tm, one, data[k].id)
  BY DataAre
<1>2. n \in Nat /\ DOMAIN data = 1 .. n /\ \A k \in 1 .. n : data[k] \in ListRow
  BY <1>1
<1>3. /\ pop \in List
      /\ \A i \in DOMAIN pop.rows : /\ pop.rows[i].id \in S
                                    /\ pop.rows[i] = RowIn(tm, S, pop.rows[i].id)
  <2>1. pop = Made(tm, t, range)
    BY PopulatedIsMade
  <2>2. pop \in List
    BY <2>1, MadeIsAList
  <2>3. pop.rows = CreateRowData(tm, t, range)
    BY <2>1 DEF Made
  <2> HIDE DEF pop
  <2>4. QED
    BY <2>2, <2>3, DataAre
<1>4. PICK a, b : Whole(range, a, b)
  BY DEF WholeDays
<1>5. S = {f \in Live(tm) : /\ tm[f].owner = t /\ a <= DayOf(tm[f].start)
                            /\ DayOf(tm[f].start) <= b}
  BY <1>4, ListedOfDays
<1>6. one = {f \in Live(tm) : /\ tm[f].owner = t /\ DayOf(u) <= DayOf(tm[f].start)
                              /\ DayOf(tm[f].start) <= DayOf(u)}
  <2>1. Whole(DayRange(u), DayOf(u), DayOf(u))
    BY DayOfIs DEF Whole, DayRange
  <2>2. QED
    BY <2>1, ListedOfDays
<1>7. \A f \in S : f \in one => RowIn(tm, one, f) = RowIn(tm, S, f)
  <2> SUFFICES ASSUME NEW f \in S, f \in one PROVE RowIn(tm, one, f) = RowIn(tm, S, f)
    OBVIOUS
  <2>1. f \in Live(tm) /\ tm[f].start \in Int
    BY <1>5, RowsAreNotNone DEF Live
  <2>2. DayOf(tm[f].start) \in Int /\ DayOf(u) \in Int
    BY <2>1, DayOfIs
  <2>3. DayOf(tm[f].start) = DayOf(u)
    BY <1>6, <2>2
  <2>4. a <= DayOf(u) /\ DayOf(u) <= b
    BY <1>5, <2>3
  <2> HIDE DEF S, one
  <2>5. \A g \in Listed(tm, t, DayRange(u)) :
          RowIn(tm, Listed(tm, t, DayRange(u)), g) = RowIn(tm, Listed(tm, t, range), g)
    BY <1>4, <2>4, RowsOfOneDay
  <2>6. QED
    BY <2>5 DEF S, one
<1>8. ASSUME NEW k \in 1 .. n PROVE Brought(pop, pop, data[k]) = pop
  <2>1. CASE ~ Shows(pop, data[k].id)
    BY <2>1 DEF Brought
  <2>2. CASE Shows(pop, data[k].id)
    <3> HIDE DEF pop, data, S, one, n
    <3>1. data[k] \in ListRow /\ data[k].id \in one /\ data[k] = RowIn(tm, one, data[k].id)
      BY <1>1, <1>2
    <3>2. PICK i \in DOMAIN pop.rows : pop.rows[i].id = data[k].id
      BY <2>2 DEF Shows
    <3>3. data[k] = RowIn(tm, S, data[k].id)
      BY <1>3, <1>7, <3>1, <3>2
    <3>4. \A j \in DOMAIN pop.rows : pop.rows[j].id = data[k].id => pop.rows[j] = data[k]
      BY <1>3, <3>3
    <3>5. UpdateRow(data[k], data[k]) = data[k]
      BY <3>1, RowUpdated
    <3> DEFINE p == Brought(pop, pop, data[k])
    <3>6. /\ p \in List /\ p.narrowed = pop.narrowed /\ p.stirred = pop.stirred
          /\ DOMAIN p.rows = DOMAIN pop.rows
          /\ \A j \in DOMAIN pop.rows :
               p.rows[j] = IF pop.rows[j].id = data[k].id
                           THEN UpdateRow(pop.rows[j], data[k]) ELSE pop.rows[j]
      BY <1>3, <2>2, <3>1, BroughtIs
    <3> HIDE DEF p
    <3>7. \A j \in DOMAIN pop.rows : p.rows[j] = pop.rows[j]
      BY <3>4, <3>5, <3>6
    <3>8. p.rows \in Seq(ListRow) /\ pop.rows \in Seq(ListRow)
      BY <1>3, <3>6 DEF List
    <3>9. p.rows = pop.rows
      BY <3>6, <3>7, <3>8
    <3>10. p = pop
      BY <1>3, <3>6, <3>9 DEF List
    <3>11. QED
      BY <3>10 DEF p
  <2>3. QED
    BY <2>1, <2>2
<1> HIDE DEF data, n, pop, S, one
<1>9. PICK g \in [0 .. n -> List] :
        /\ g[0] = l /\ g[n] = Updated(l, tm, data)
        /\ \A k \in 1 .. n : g[k] = Brought(g[k - 1], pop, data[k])
  <2>1. \E g : Steps(g, l, tm, data)
    BY <1>1, <1>3, UpdatedSteps DEF pop
  <2>2. QED
    BY <2>1 DEF Steps, n, pop
<1> DEFINE Has == {k \in 0 .. n : \/ g[k] = pop
                                  \/ g[k].narrowed = l.narrowed /\ g[k].stirred = l.stirred}
<1>10. 0 \in Has
  BY <1>2, <1>9
<1>11. ASSUME NEW k \in 1 .. n, k - 1 \in Has PROVE k \in Has
  <2>1. g[k] = Brought(g[k - 1], pop, data[k]) /\ g[k - 1] \in List /\ k \in 0 .. n
        /\ data[k] \in ListRow
    BY <1>2, <1>9
  <2>2. CASE g[k - 1] = pop
    BY <1>8, <2>1, <2>2
  <2>3. CASE ~ Shows(g[k - 1], data[k].id)
    BY <2>1, <2>3 DEF Brought
  <2>4. CASE g[k - 1] # pop /\ Shows(g[k - 1], data[k].id)
    <3>1. g[k - 1].narrowed = l.narrowed /\ g[k - 1].stirred = l.stirred
      BY <1>11, <2>4
    <3>2. /\ Brought(g[k - 1], pop, data[k]).narrowed = g[k - 1].narrowed
          /\ Brought(g[k - 1], pop, data[k]).stirred = g[k - 1].stirred
      BY <2>1, <2>4, BroughtIs
    <3>3. QED
      BY <2>1, <3>1, <3>2
  <2>5. QED
    BY <2>2, <2>3, <2>4
<1>12. n \in Has
  <2> HIDE DEF Has
  <2>1. 0 .. n \subseteq Has
    BY <1>2, <1>10, <1>11, Counting
  <2>2. QED
    BY <1>2, <2>1
<1>13. QED
  BY <1>9, <1>12 DEF data, pop

-----------------------------------------------------------------------------

\* What holds of a list, the times tm, and what is presented
ShownIn(tm, t, r, ll) ==
  t # NoTask /\ ~ ll.narrowed => \A f \in Due(tm, t, r) : Right(ll, tm, f)

FollowsIn(tm, t, r, ll) ==
  ~ ll.stirred /\ ~ ll.narrowed /\ AllInOneDay(tm, t) => ll = Made(tm, t, r)

ListFine(tm, t, r, ll) ==
  /\ ll \in List /\ OneRowEach(ll) /\ Known(ll, tm)
  /\ t = NoTask => ll.rows = <<>>
  /\ ShownIn(tm, t, r, ll) /\ FollowsIn(tm, t, r, ll)

\* A list that is made anew is fine.
LEMMA MadeIsFine ==
  ASSUME Endless, NEW tm, NEW t, NEW r, tm \in Table
  PROVE  ListFine(tm, t, r, Made(tm, t, r))
<1>1. Made(tm, t, r) \in List /\ OneRowEach(Made(tm, t, r)) /\ Known(Made(tm, t, r), tm)
  BY MadeIsAList
<1>2. t = NoTask => Made(tm, t, r).rows = <<>>
  BY NothingMade DEF Made
<1>3. ShownIn(tm, t, r, Made(tm, t, r))
  BY MadeIsRight DEF ShownIn
<1>4. FollowsIn(tm, t, r, Made(tm, t, r))
  BY DEF FollowsIn
<1>5. QED
  BY <1>1, <1>2, <1>3, <1>4 DEF ListFine

\* A change is fine when it would be so with the list made anew, or the rest
\* was shown right and the list followed the times.
LEMMA ChangedIsFine ==
  ASSUME Endless, NEW tm, NEW l, NEW e \in EntryId, tm \in Table, l \in List,
         OneRowEach(l), Known(l, tm), presented = NoTask => l.rows = <<>>,
         presented # NoTask =>
           \/ l.narrowed
           \/ \A f \in Due(tm, presented, range) : f = e \/ Right(l, tm, f),
         presented # NoTask => WholeDays(range),
         Shows(l, e) => e \in Rows(tm),
         Shows(l, e) /\ presented # NoTask /\ AllInOneDay(tm, presented)
           /\ ~ l.stirred /\ ~ l.narrowed
           => OnTimeEntryChanged(l, tm, e) = Populated(tm)
  PROVE  ListFine(tm, presented, range, OnTimeEntryChanged(l, tm, e))
<1> DEFINE ll == OnTimeEntryChanged(l, tm, e)
<1>1. CASE ~ Shows(l, e)
  <2>1. ll = Made(tm, presented, range)
    BY <1>1, PopulatedIsMade DEF OnTimeEntryChanged
  <2> HIDE DEF ll
  <2>2. ListFine(tm, presented, range, ll)
    BY <2>1, MadeIsFine
  <2>3. QED
    BY <2>2 DEF ll
<1>2. CASE Shows(l, e)
  <2>1. presented # NoTask
    BY <1>2 DEF Shows
  <2>2. ll \in List /\ OneRowEach(ll) /\ Known(ll, tm)
    BY ChangedIsAList
  <2>3. \/ ll.narrowed
        \/ \A f \in Due(tm, presented, range) : Right(ll, tm, f)
    BY <2>1, ChangedIsRight
  <2>4. tm[e].start \in Int
    BY <1>2, RowsAreNotNone
  <2>5. ll = Updated(l, tm, CreateRowData(tm, presented, DayRange(tm[e].start)))
    BY <1>2 DEF OnTimeEntryChanged
  <2>6. FollowsIn(tm, presented, range, ll)
    <3>1. SUFFICES ASSUME ~ ll.stirred, ~ ll.narrowed, AllInOneDay(tm, presented)
                   PROVE  ll = Populated(tm)
      BY PopulatedIsMade DEF FollowsIn
    <3> HIDE DEF ll
    <3>2. \/ ll = Populated(tm)
          \/ ll.narrowed = l.narrowed /\ ll.stirred = l.stirred
      BY <2>1, <2>4, <2>5, <3>1, UpdatedOrAnew
    <3>3. QED
      BY <1>2, <2>1, <3>1, <3>2 DEF ll
  <2> HIDE DEF ll
  <2>7. ListFine(tm, presented, range, ll)
    BY <2>1, <2>2, <2>3, <2>6 DEF ListFine, ShownIn
  <2>8. QED
    BY <2>7 DEF ll
<1>3. QED
  BY <1>1, <1>2

\* The types without that of the list
TypesInv ==
  /\ times \in Table /\ presented \in TaskId \cup {NoTask}
  /\ pick \in Picks /\ range \in [from : Int, to : Int]
  /\ writes \in 0 .. MaxWrites /\ question \in Question

\* What is presented is what was picked.
RangeIsPicked == presented # NoTask => range = TimeSpan(pick.view, pick.day)

DetailsInv ==
  /\ TypesInv /\ RangeIsPicked
  /\ ListFine(times, presented, range, list)

\* The invariant says what is claimed.
LEMMA InvSays ==
  ASSUME DetailsInv
  PROVE  DetailsTypeOK /\ EveryRecordingShown /\ DetailsFollowTimes
<1>1. DetailsTypeOK
  BY DEF DetailsInv, TypesInv, ListFine, OneRowEach, DetailsTypeOK, Table
<1>2. EveryRecordingShown
  BY DEF DetailsInv, ListFine, ShownIn, Due, Right, EveryRecordingShown
<1>3. DetailsFollowTimes
  BY PopulatedIsMade DEF DetailsInv, ListFine, FollowsIn, AllInOneDay, DetailsFollowTimes
<1>4. QED
  BY <1>1, <1>2, <1>3

\* The invariant holds at first, with an empty list ...
LEMMA InvInit ==
  ASSUME Endless, Init
  PROVE  DetailsInv
<1>1. times \in Table
  <2>1. \A s \in Spans : s.start \in Int /\ s.stop \in Int
    BY DetailsAssumption
  <2>2. [owner : TaskId, start : {s.start : s \in Spans},
         stop : {s.stop : s \in Spans}, state : {"stopped"}] \subseteq TimeRow
    BY <2>1 DEF TimeRow
  <2>3. QED
    BY <2>2 DEF Init, Table
<1>2. list = Made(times, presented, range)
  BY <1>1, NothingMade DEF Init, Made
<1>3. ListFine(times, presented, range, Made(times, presented, range))
  BY <1>1, MadeIsFine
<1>4. ListFine(times, presented, range, list)
  BY <1>2, <1>3
<1>5. TypesInv
  BY <1>1, DetailsAssumption DEF Init, TypesInv, Question
<1>6. RangeIsPicked
  BY DEF Init, RangeIsPicked
<1>7. QED
  BY <1>4, <1>5, <1>6 DEF DetailsInv

\* ... when something else is presented ...
LEMMA PresentKeeps ==
  ASSUME Endless, Gregorian, DetailsInv, NEW t \in TaskId \cup {NoTask}, NEW p \in Picks,
         Present(t, p)
  PROVE  DetailsInv'
<1> USE DEF Present, DetailsInv, TypesInv
<1>1. list' = Made(times, t, range')
  <2>1. CASE t = NoTask
    BY <2>1, NothingMade DEF Made
  <2>2. CASE t # NoTask
    BY <2>2 DEF Made
  <2>3. QED
    BY <2>1, <2>2
<1>2. range' \in [from : Int, to : Int]
  <2>1. CASE t = NoTask
    BY <2>1
  <2>2. CASE t # NoTask
    <3>1. WholeDays(TimeSpan(p.view, p.day))
      BY TimeSpanIsWhole
    <3>2. PICK a \in Int, b \in Int : TimeSpan(p.view, p.day) = [from |-> Begin(a), to |-> End(b)]
      BY <3>1 DEF WholeDays, Whole
    <3>3. Begin(a) \in Int /\ End(b) \in Int
      <4>1. \A n \in Int : Midnight[n] \in Int
        BY EveryDay
      <4>2. QED
        BY <4>1 DEF Begin, End
    <3>4. QED
      BY <2>2, <3>2, <3>3
  <2>3. QED
    BY <2>1, <2>2
<1>3. ListFine(times, t, range', Made(times, t, range'))
  BY MadeIsFine
<1>4. ListFine(times, presented, range, list)'
  BY <1>1, <1>3
<1>5. QED
  BY <1>2, <1>4 DEF RangeIsPicked

\* ... and when a task was changed and all rows are made anew.
LEMMA TaskChangedKeeps ==
  ASSUME Endless, DetailsInv, TaskChanged
  PROVE  DetailsInv'
<1> USE DEF TaskChanged, DetailsInv, TypesInv
<1>1. list' = Made(times, presented, range)
  BY PopulatedIsMade
<1>2. ListFine(times, presented, range, Made(times, presented, range))
  BY MadeIsFine
<1>3. ListFine(times, presented, range, list)'
  BY <1>1, <1>2
<1>4. QED
  BY <1>3 DEF RangeIsPicked

\* What is presented are whole days.
LEMMA WholePicked ==
  ASSUME Endless, Gregorian, DetailsInv, presented # NoTask
  PROVE  WholeDays(range)
BY TimeSpanIsWhole DEF DetailsInv, TypesInv, RangeIsPicked

\* The row of an entry was written, and nothing else.
Written(tn, tm, e, row) ==
  /\ tn \in Table /\ Rows(tn) = Rows(tm) \cup {e} /\ tn[e] = row
  /\ \A f \in EntryId : f # e => tn[f] = tm[f]

\* This is what EXCEPT does.
LEMMA RowWritten ==
  ASSUME NEW tm, NEW e, NEW row, tm \in Table, e \in EntryId, row \in TimeRow
  PROVE  Written([tm EXCEPT ![e] = row], tm, e, row)
<1> DEFINE tn == [tm EXCEPT ![e] = row]
<1>1. tn \in Table
  BY DEF Table
<1>2. tn[e] = row /\ \A f \in EntryId : f # e => tn[f] = tm[f]
  BY DEF Table
<1>3. row # NoRow
  BY RowsAreNotNone
<1> HIDE DEF tn
<1>4. Rows(tn) = Rows(tm) \cup {e}
  BY <1>2, <1>3 DEF Rows
<1>5. Written(tn, tm, e, row)
  BY <1>1, <1>2, <1>4 DEF Written
<1>6. QED
  BY <1>5 DEF tn

\* Rows that are known stay so.
LEMMA KnownStays ==
  ASSUME NEW tm, NEW tn, Rows(tm) \subseteq Rows(tn), NEW l, Known(l, tm)
  PROVE  Known(l, tn)
BY DEF Known

\* What is due is shown, but maybe for one entry.
RestShown(l, tm, t, r, e) ==
  \/ l.narrowed
  \/ \A f \in Due(tm, t, r) : f = e \/ Right(l, tm, f)

\* An entry that is not written is due only when it was due.
LEMMA DueStays ==
  ASSUME NEW tm, NEW tn, NEW e, NEW row, NEW t, NEW r, NEW l,
         Written(tn, tm, e, row), ShownIn(tm, t, r, l), t # NoTask
  PROVE  RestShown(l, tn, t, r, e)
<1> SUFFICES ASSUME ~ l.narrowed, NEW f \in Due(tn, t, r), f # e PROVE Right(l, tn, f)
  BY DEF RestShown
<1>1. f \in EntryId /\ tn[f] = tm[f]
  BY DEF Due, Live, Rows, Written
<1>2. f \in Due(tm, t, r)
  BY <1>1 DEF Due, Live, Rows
<1>3. Right(l, tm, f)
  BY <1>2 DEF ShownIn
<1>4. QED
  BY <1>1, <1>3 DEF Right

\* An entry is created by another writer: it has no row yet, unless all rows
\* were just made anew because it has a length.
LEMMA CreateTimeKeeps ==
  ASSUME Endless, Gregorian, DetailsInv, NEW e \in EntryId, NEW row \in TimeRow,
         CreateTime(e, row)
  PROVE  DetailsInv'
<1> DEFINE tn == [times EXCEPT ![e] = row]
           l == IF Length(row) # 0 THEN Populated(tn) ELSE list
<1> USE DEF DetailsInv, TypesInv
<1>1. times' = tn /\ list' = OnTimeEntryChanged(l, tn, e)
  BY DEF CreateTime
<1>0. Written(tn, times, e, row)
  BY RowWritten
<1>2. /\ tn \in Table /\ Rows(tn) = Rows(times) \cup {e}
      /\ \A f \in EntryId : f # e => tn[f] = times[f]
  BY <1>0 DEF Written
<1> HIDE DEF tn
<1>3. presented # NoTask => WholeDays(range)
  BY WholePicked
<1>4. ListFine(tn, presented, range, Made(tn, presented, range))
  BY <1>2, MadeIsFine
<1>5. ListFine(tn, presented, range, OnTimeEntryChanged(l, tn, e))
  <2>1. CASE Length(row) = 0
    <3>1. l = list
      BY <2>1
    <3>2. ~ Shows(list, e)
      BY DEF ListFine, Known, Shows, CreateTime
    <3>3. OnTimeEntryChanged(l, tn, e) = Made(tn, presented, range)
      BY <3>1, <3>2, PopulatedIsMade DEF OnTimeEntryChanged
    <3>4. QED
      BY <1>4, <3>3
  <2>2. CASE Length(row) # 0
    <3>1. l = Made(tn, presented, range)
      BY <2>2, PopulatedIsMade
    <3>2. /\ l \in List /\ OneRowEach(l) /\ Known(l, tn)
          /\ presented = NoTask => l.rows = <<>>
          /\ ShownIn(tn, presented, range, l)
      BY <1>4, <3>1 DEF ListFine
    <3> HIDE DEF l
    <3>3. presented # NoTask =>
            \/ l.narrowed
            \/ \A f \in Due(tn, presented, range) : f = e \/ Right(l, tn, f)
      BY <3>2 DEF ShownIn
    <3>4. e \in Rows(tn)
      BY <1>2
    <3>5. ASSUME presented # NoTask, AllInOneDay(tn, presented)
          PROVE  OnTimeEntryChanged(l, tn, e) = Populated(tn)
      <4>1. OnlyStops(tn, tn, e)
        BY DEF OnlyStops
      <4>2. OnTimeEntryChanged(Made(tn, presented, range), tn, e) = Populated(tn)
        BY <1>2, <1>3, <3>5, <4>1, ChangedFollows
      <4>3. QED
        BY <3>1, <4>2
    <3>6. QED
      BY <1>2, <1>3, <3>2, <3>3, <3>4, <3>5, ChangedIsFine
  <2>3. QED
    BY <2>1, <2>2
<1>6. ListFine(times, presented, range, list)'
  BY <1>1, <1>5 DEF CreateTime
<1>7. RangeIsPicked'
  BY DEF CreateTime, RangeIsPicked
<1>8. TypesInv'
  <2>1. writes' \in 0 .. MaxWrites
    BY DetailsAssumption DEF CreateTime, Write
  <2>2. UNCHANGED <<presented, pick, range, question>>
    BY DEF CreateTime
  <2>3. QED
    BY <1>1, <1>2, <2>1, <2>2
<1>9. QED
  BY <1>6, <1>7, <1>8

\* An entry is updated by another writer: the list is stirred, or the entry
\* only stops at another time within its day.
LEMMA UpdateTimeKeeps ==
  ASSUME Endless, Gregorian, DetailsInv, NEW e \in EntryId, NEW row \in TimeRow,
         UpdateTime(e, row)
  PROVE  DetailsInv'
<1> DEFINE tn == [times EXCEPT ![e] = row]
           moved == \/ row.start # times[e].start
                    \/ (row.state = "deleted") # (times[e].state = "deleted")
                    \/ ~ InOneDay(times[e])
           l == [list EXCEPT !.stirred = @ \/ moved]
<1> USE DEF DetailsInv, TypesInv
<1>1. times' = tn /\ list' = OnTimeEntryChanged(l, tn, e)
  BY DEF UpdateTime
<1>0. Written(tn, times, e, row)
  BY RowWritten
<1>2. /\ tn \in Table /\ Rows(tn) = Rows(times) \cup {e} /\ tn[e] = row
      /\ \A f \in EntryId : f # e => tn[f] = times[f]
  BY <1>0 DEF Written
<1>3. presented # NoTask => WholeDays(range)
  BY WholePicked
<1>4. /\ l \in List /\ l.rows = list.rows /\ l.narrowed = list.narrowed
      /\ ~ l.stirred => ~ list.stirred /\ ~ moved
      /\ ~ l.stirred => l = list
  <2>1. list \in List
    BY DEF ListFine
  <2>2. moved \in BOOLEAN
    BY Zenon DEF moved
  <2> HIDE DEF moved
  <2>3. QED
    BY <2>1, <2>2 DEF List
<1>5. e \in Rows(times) /\ row.owner = times[e].owner
  BY DEF UpdateTime
<1> HIDE DEF tn, l
<1>6. /\ OneRowEach(l) /\ Known(l, tn)
      /\ presented = NoTask => l.rows = <<>>
  <2>1. OneRowEach(list) /\ Known(list, times) /\ (presented = NoTask => list.rows = <<>>)
    BY DEF ListFine
  <2>2. QED
    BY <1>2, <1>4, <2>1 DEF OneRowEach, Known
<1>7. presented # NoTask =>
        \/ l.narrowed
        \/ \A f \in Due(tn, presented, range) : f = e \/ Right(l, tn, f)
  <2>1. SUFFICES ASSUME presented # NoTask
                 PROVE  \/ l.narrowed
                        \/ \A f \in Due(tn, presented, range) : f = e \/ Right(l, tn, f)
    OBVIOUS
  <2>2. ShownIn(times, presented, range, list)
    BY DEF ListFine
  <2>3. RestShown(list, tn, presented, range, e)
    BY <1>0, <2>1, <2>2, DueStays
  <2>4. QED
    BY <1>4, <2>3 DEF Right, RestShown
<1>8. ASSUME presented # NoTask, AllInOneDay(tn, presented), ~ l.stirred, ~ l.narrowed
      PROVE  OnTimeEntryChanged(l, tn, e) = Populated(tn)
  <2>1. /\ l = list /\ ~ list.stirred /\ ~ list.narrowed
        /\ row.start = times[e].start
        /\ (row.state = "deleted") = (times[e].state = "deleted")
        /\ InOneDay(times[e])
    BY <1>4, <1>8
  <2>2. AllInOneDay(times, presented)
    <3> SUFFICES ASSUME NEW f \in Live(times), times[f].owner = presented
                 PROVE  InOneDay(times[f])
      BY DEF AllInOneDay
    <3>1. CASE f = e
      BY <2>1, <3>1
    <3>2. CASE f # e
      <4>1. f \in EntryId /\ tn[f] = times[f]
        BY <1>2, <3>2 DEF Live, Rows
      <4>2. f \in Live(tn) /\ tn[f].owner = presented
        BY <4>1 DEF Live, Rows
      <4>3. QED
        BY <1>8, <4>1, <4>2 DEF AllInOneDay
    <3>3. QED
      BY <3>1, <3>2
  <2>3. list = Made(times, presented, range)
    BY <2>1, <2>2 DEF ListFine, FollowsIn
  <2>4. OnlyStops(times, tn, e)
    BY <1>2, <2>1 DEF OnlyStops
  <2>5. e \in Live(times) <=> e \in Live(tn)
    BY <1>2, <1>5, <2>1 DEF Live
  <2>6. times[e].owner = tn[e].owner
    BY <1>2, <1>5
  <2>7. OnTimeEntryChanged(Made(times, presented, range), tn, e) = Populated(tn)
    BY <1>2, <1>3, <1>8, <2>2, <2>4, <2>5, <2>6, ChangedFollows
  <2>8. QED
    BY <2>1, <2>3, <2>7
<1>9. ListFine(tn, presented, range, OnTimeEntryChanged(l, tn, e))
  <2>1. e \in Rows(tn)
    BY <1>2
  <2>2. QED
    BY <1>2, <1>3, <1>4, <1>6, <1>7, <1>8, <2>1, ChangedIsFine
<1>10. ListFine(times, presented, range, list)'
  BY <1>1, <1>9 DEF UpdateTime
<1>11. RangeIsPicked'
  BY DEF UpdateTime, RangeIsPicked
<1>12. TypesInv'
  <2>1. writes' \in 0 .. MaxWrites
    BY DetailsAssumption DEF UpdateTime, Write
  <2>2. UNCHANGED <<presented, pick, range, question>>
    BY DEF UpdateTime
  <2>3. QED
    BY <1>1, <1>2, <2>1, <2>2
<1>13. QED
  BY <1>10, <1>11, <1>12

\* A copy that was read is of a row of the table.
LEMMA ReadIsACopy ==
  ASSUME DetailsInv, NEW i \in DOMAIN list.rows
  PROVE  Read(i) \in Copy
<1>1. list.rows[i].id \in Rows(times)
  BY DEF DetailsInv, ListFine, Known
<1>2. list.rows[i].id \in EntryId
  BY <1>1 DEF Rows
<1>3. times[list.rows[i].id] \in TimeRow
  BY <1>1, <1>2 DEF DetailsInv, TypesInv, Table, Rows
<1>4. QED
  BY <1>2, <1>3 DEF Read, Copy

\* A question changes nothing but itself.
LEMMA QuestionKeeps ==
  ASSUME DetailsInv, question' \in Question,
         UNCHANGED <<times, presented, pick, range, list, writes>>
  PROVE  DetailsInv'
<1>1. TypesInv'
  BY DEF DetailsInv, TypesInv
<1>2. RangeIsPicked'
  BY DEF DetailsInv, RangeIsPicked
<1>3. ListFine(times, presented, range, list)'
  BY DEF DetailsInv
<1>4. QED
  BY <1>1, <1>2, <1>3 DEF DetailsInv

\* Asking reads one or two rows, and cancelling none.
LEMMA AskKeeps ==
  ASSUME DetailsInv,
         Cancel \/ \E i \in 1 .. LastId : AskRemove(i) \/ AskMerge(i)
  PROVE  DetailsInv'
<1>1. CASE Cancel
  BY <1>1, QuestionKeeps DEF Cancel, Question
<1>2. ASSUME NEW i \in 1 .. LastId, AskRemove(i)
      PROVE  DetailsInv'
  <2>1. Read(i) \in Copy
    BY <1>2, ReadIsACopy DEF AskRemove, Selected
  <2>2. question' \in Question
    BY <1>2, <2>1 DEF AskRemove, Question
  <2>3. QED
    BY <1>2, <2>2, QuestionKeeps DEF AskRemove
<1>3. ASSUME NEW i \in 1 .. LastId, AskMerge(i)
      PROVE  DetailsInv'
  <2>1. Read(i) \in Copy /\ Read(i + 1) \in Copy
    BY <1>3, ReadIsACopy DEF AskMerge, Selected
  <2>2. question' \in Question
    BY <1>3, <2>1 DEF AskMerge, Question
  <2>3. QED
    BY <1>3, <2>2, QuestionKeeps DEF AskMerge
<1>4. QED
  BY <1>1, <1>2, <1>3

\* What is written from a copy leaves a table.
LEMMA CopyWritten ==
  ASSUME NEW tm, NEW copy, NEW start, tm \in Table, copy \in Copy, start \in Int
  PROVE  Removed(tm, copy) \in Table /\ WithStart(tm, copy, start) \in Table
<1>1. copy.id \in EntryId /\ copy.row \in TimeRow
  BY DEF Copy
<1>2. /\ [copy.row EXCEPT !.state = "deleted"] \in TimeRow
      /\ [copy.row EXCEPT !.start = start] \in TimeRow
  BY <1>1 DEF TimeRow
<1>3. QED
  BY <1>1, <1>2 DEF Removed, WithStart, Table

\* After a confirmation the rows are made anew.
LEMMA AnewKeeps ==
  ASSUME Endless, DetailsInv, times' \in Table, list' = Populated(times'),
         question' = NoQuestion, writes' \in 0 .. MaxWrites,
         UNCHANGED <<presented, pick, range>>
  PROVE  DetailsInv'
<1>1. TypesInv'
  BY DEF DetailsInv, TypesInv, Question
<1>2. RangeIsPicked'
  BY DEF DetailsInv, RangeIsPicked
<1> DEFINE tn == times'
<1> HIDE DEF tn
<1>3. tn \in Table /\ list' = Made(tn, presented, range)
  BY PopulatedIsMade DEF tn
<1>4. ListFine(tn, presented, range, Made(tn, presented, range))
  BY <1>3, MadeIsFine
<1>5. ListFine(times, presented, range, list)'
  BY <1>3, <1>4 DEF tn
<1>6. QED
  BY <1>1, <1>2, <1>5 DEF DetailsInv

\* Removing and merging write copies that are rows.
LEMMA ConfirmKeeps ==
  ASSUME Endless, DetailsInv, ConfirmRemove \/ ConfirmMerge
  PROVE  DetailsInv'
<1>1. question \in Question /\ times \in Table /\ writes \in 0 .. MaxWrites
  BY DEF DetailsInv, TypesInv
<1>2. writes' \in 0 .. MaxWrites
  BY <1>1, DetailsAssumption DEF ConfirmRemove, ConfirmMerge, Write
<1>3. CASE ConfirmRemove
  <2>1. question.item \in Copy
    BY <1>1, <1>3 DEF ConfirmRemove, Question, NoQuestion
  <2>2. question.item.row.stop \in Int
    BY <2>1 DEF Copy, TimeRow
  <2>3. times' \in Table
    BY <1>1, <1>3, <2>1, <2>2, CopyWritten DEF ConfirmRemove
  <2>4. QED
    BY <1>2, <1>3, <2>3, AnewKeeps DEF ConfirmRemove
<1>4. CASE ConfirmMerge
  <2>1. question.item \in Copy /\ question.next \in Copy
    BY <1>1, <1>4 DEF ConfirmMerge, Question, NoQuestion
  <2>2. question.item.row.start \in Int
    BY <2>1 DEF Copy, TimeRow
  <2>3. Removed(times, question.item) \in Table
    BY <1>1, <2>1, <2>2, CopyWritten
  <2>4. times' \in Table
    BY <1>4, <2>1, <2>2, <2>3, CopyWritten DEF ConfirmMerge
  <2>5. QED
    BY <1>2, <1>4, <2>4, AnewKeeps DEF ConfirmMerge
<1>5. QED
  BY <1>3, <1>4

\* The points at which an entry is split are times.
LEMMA PointsAreTimes ==
  ASSUME Endless, NEW row \in TimeRow
  PROVE  SplitPoints(row).start \in Int /\ SplitPoints(row).stop \in Int
<1>1. row.start \in Int /\ row.stop \in Int
  BY DEF TimeRow
<1>2. NearMidnight(row.start) \in Int
  <2>1. DayOf(row.start) \in Int
    BY <1>1, DayOfIs
  <2>2. Midnight[DayOf(row.start)] \in Int /\ Midnight[DayOf(row.start) + 1] \in Int
    BY <2>1, EveryDay
  <2>3. QED
    BY <2>2 DEF NearMidnight, Begin, End, Hours24
<1>3. row.start + Length(row) \div 2 - 1 \in Int
  BY <1>1 DEF Length
<1>4. QED
  BY <1>2, <1>3 DEF SplitPoints

\* A split lists the halves only, and is narrowed to them.
LEMMA SplitKeeps ==
  ASSUME Endless, DetailsInv, NEW i \in 1 .. LastId, Split(i)
  PROVE  DetailsInv'
<1> DEFINE e == list.rows[i].id
           row == times[e]
           points == SplitPoints(row)
           halves == [from |-> row.start, to |-> row.stop]
           tn == times'
<1>1. i \in DOMAIN list.rows
  BY DEF Split, Selected
<1>2. e \in EntryId /\ row \in TimeRow
  BY <1>1, ReadIsACopy DEF Read, Copy
<1>3. points.start \in Int /\ points.stop \in Int
  <2> HIDE DEF row
  <2>1. QED
    BY <1>2, PointsAreTimes
<1>4. tn \in Table
  <2>1. PICK f \in EntryId \ Rows(times) :
          times' = [times EXCEPT
                      ![e] = [row EXCEPT !.start = points.start],
                      ![f] = [owner |-> row.owner, start |-> row.start,
                              stop |-> points.stop, state |-> "stopped"]]
    BY DEF Split
  <2>2. times \in Table
    BY DEF DetailsInv, TypesInv
  <2> HIDE DEF e, row, points
  <2>3. /\ [row EXCEPT !.start = points.start] \in TimeRow
        /\ [owner |-> row.owner, start |-> row.start, stop |-> points.stop,
            state |-> "stopped"] \in TimeRow
    BY <1>2, <1>3 DEF TimeRow
  <2>4. QED
    BY <1>2, <2>1, <2>2, <2>3 DEF Table, tn
<1>5. list' = [rows |-> CreateRowData(tn, presented, halves), narrowed |-> TRUE,
               stirred |-> FALSE]
  BY DEF Split
<1>6. presented # NoTask
  BY <1>1 DEF DetailsInv, ListFine
<1> HIDE DEF tn, halves
<1>7. /\ Made(tn, presented, halves) \in List /\ OneRowEach(Made(tn, presented, halves))
      /\ Known(Made(tn, presented, halves), tn)
  BY <1>4, MadeIsAList
<1>8. list' \in List /\ OneRowEach(list') /\ Known(list', tn)
  BY <1>5, <1>7 DEF Made, List, OneRowEach, Known
<1>9. list'.narrowed
  BY <1>5
<1>10. ListFine(tn, presented, range, list')
  BY <1>6, <1>8, <1>9 DEF ListFine, ShownIn, FollowsIn
<1>11. UNCHANGED <<presented, pick, range, question>> /\ writes' \in 0 .. MaxWrites
  <2>1. UNCHANGED <<presented, pick, range, question>> /\ Write(2)
    BY DEF Split
  <2>2. writes \in 0 .. MaxWrites
    BY DEF DetailsInv, TypesInv
  <2>3. writes' \in 0 .. MaxWrites
    BY <2>1, <2>2, DetailsAssumption DEF Write
  <2>4. QED
    BY <2>1, <2>3
<1>12. TypesInv'
  BY <1>4, <1>11 DEF DetailsInv, TypesInv, tn
<1>13. RangeIsPicked'
  BY <1>11 DEF DetailsInv, RangeIsPicked
<1>14. ListFine(times, presented, range, list)'
  BY <1>10, <1>11 DEF tn
<1>15. QED
  BY <1>12, <1>13, <1>14 DEF DetailsInv

\* Every step keeps the invariant.
LEMMA InvNext ==
  ASSUME Endless, Gregorian, DetailsInv, [Next]_vars
  PROVE  DetailsInv'
<1>1. ASSUME NEW t \in TaskId \cup {NoTask}, NEW p \in Picks, Present(t, p)
      PROVE  DetailsInv'
  BY <1>1, PresentKeeps
<1>2. CASE TaskChanged
  BY <1>2, TaskChangedKeeps
<1>3. ASSUME NEW e \in EntryId, NEW t \in TaskId, NEW span \in Spans,
             NEW st \in {"running", "stopped", "deleted"}, WriteTime(e, t, span, st)
      PROVE  DetailsInv'
  <2> DEFINE row == [owner |-> t, start |-> span.start, stop |-> span.stop, state |-> st]
  <2>1. row \in TimeRow
    BY DetailsAssumption DEF TimeRow
  <2>2. CreateTime(e, row) \/ UpdateTime(e, row)
    BY <1>3 DEF WriteTime
  <2> HIDE DEF row
  <2>3. QED
    BY <2>1, <2>2, CreateTimeKeeps, UpdateTimeKeeps
<1>4. CASE Menu
  BY <1>4, AskKeeps, SplitKeeps DEF Menu
<1>5. CASE Cancel
  BY <1>5, AskKeeps
<1>6. CASE ConfirmRemove \/ ConfirmMerge
  BY <1>6, ConfirmKeeps
<1>7. CASE UNCHANGED vars
  BY <1>7, QuestionKeeps DEF vars, DetailsInv, TypesInv
<1>8. QED
  BY <1>1, <1>2, <1>3, <1>4, <1>5, <1>6, <1>7 DEF Next

\* What the invariant says holds in every state.
LEMMA DetailsInvariant ==
  ASSUME Endless, Gregorian
  PROVE  Spec => []DetailsInv
<1>1. Init => DetailsInv
  BY InvInit
<1>2. DetailsInv /\ [Next]_vars => DetailsInv'
  BY InvNext
<1>3. QED
  BY <1>1, <1>2, PTL DEF Spec

(***************************************************************************)
(* The list holds rows of what is in the table, one for an entry, whatever *)
(* is written from wherever while a question is open.                      *)
(***************************************************************************)
THEOREM Types ==
  ASSUME Endless, Gregorian
  PROVE  Spec => []DetailsTypeOK
<1>1. DetailsInv => DetailsTypeOK
  BY InvSays
<1>2. QED
  BY <1>1, DetailsInvariant, PTL

(***************************************************************************)
(* Bringing one day up to date is enough: after any writes in any order,   *)
(* and with any times, every recorded time of the task in the range has a  *)
(* row that shows when it started and stopped.                             *)
(***************************************************************************)
THEOREM EveryRecordingIsShown ==
  ASSUME Endless, Gregorian
  PROVE  Spec => []EveryRecordingShown
<1>1. DetailsInv => EveryRecordingShown
  BY InvSays
<1>2. QED
  BY <1>1, DetailsInvariant, PTL

(***************************************************************************)
(* What is brought up to date row by row is what the list would be if it   *)
(* were made anew, with its dates, its order and the totals of the days,   *)
(* as long as entries are added and lengthened within their days.          *)
(***************************************************************************)
THEOREM DetailsFollow ==
  ASSUME Endless, Gregorian
  PROVE  Spec => []DetailsFollowTimes
<1>1. DetailsInv => DetailsFollowTimes
  BY InvSays
<1>2. QED
  BY <1>1, DetailsInvariant, PTL

(***************************************************************************)
(* The span that is presented is the day, week, month or year of the day   *)
(* that was picked, whatever the first weekday, except a week in which the *)
(* clocks are changed before its last day: it may begin a day early or     *)
(* have six days, but never be off by more.  The months are whole because  *)
(* days_in_month errs only in some Februaries.                             *)
(***************************************************************************)
THEOREM TheRangeIsTheGroup ==
  ASSUME Endless, Gregorian, ChangesAreSmall, NoOddFebruary
  PROVE  Spec => []RangeIsTheGroup
<1>1. ASSUME DetailsInv
      PROVE  RangeIsTheGroup
  <2>1. SUFFICES ASSUME presented # NoTask PROVE RangeIsTheGroup
    BY DEF RangeIsTheGroup
  <2>2. pick \in Picks /\ range = TimeSpan(pick.view, pick.day)
    BY <1>1, <2>1 DEF DetailsInv, TypesInv, RangeIsPicked
  <2>3. PICK a \in Int, b \in Int :
          /\ TimeSpan(pick.view, pick.day) = [from |-> Begin(a), to |-> End(b)]
          /\ IsGroup(pick.view, pick.day, a, b)
    BY <2>2, TimeSpanIsTheGroup
  <2>4. DayOf(range.from) = a
    <3>1. range.from = Midnight[a]
      BY <2>2, <2>3 DEF Begin
    <3>2. QED
      BY <3>1, DayOfMidnight
  <2>5. DayOf(range.to) = b
    <3>1. range.to = Midnight[b + 1] - 1
      BY <2>2, <2>3 DEF End
    <3>2. /\ Midnight[b] \in Int /\ Midnight[b + 1] \in Int
          /\ Midnight[b] < Midnight[b + 1]
      BY EveryDay
    <3>3. Midnight[b] <= range.to /\ range.to < Midnight[b + 1] /\ range.to \in Int
      BY <3>1, <3>2
    <3>4. QED
      BY <3>3, DayIs
  <2>6. \/ pick.view = "day" /\ a = pick.day /\ b = pick.day
        \/ /\ pick.day \in a .. b
           /\ {d \in a .. b + 1 : GroupStarts(pick.view, d)} = {a, b + 1}
        \/ /\ pick.view = "week" /\ UnevenWeek(pick.day)
           /\ FirstOfWeek(pick.day) \in {a, a + 1} /\ b \in {a + 5, a + 6}
    BY <2>3 DEF IsGroup
  <2>7. range = [from |-> Begin(a), to |-> End(b)]
    BY <2>2, <2>3
  <2>8. QED
    BY <2>4, <2>5, <2>6, <2>7 DEF RangeIsTheGroup, GroupStarts
<1>2. DetailsInv => RangeIsTheGroup
  BY <1>1
<1>3. QED
  BY <1>2, DetailsInvariant, PTL

=============================================================================
