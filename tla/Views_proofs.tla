---------------------------- MODULE Views_proofs ----------------------------
(***************************************************************************)
(* The main window, for any finite sets of tasks, entries and days and any *)
(* times: what the list and the summary show is what the tables hold.      *)
(*                                                                         *)
(* The handlers bring up to date what lies above or below a task, and the  *)
(* reports are sums, so half of this module is about walks up a tree and   *)
(* about sums over finite sets.  Both are recursive; what they compute is  *)
(* found by induction over numbers and over subsets, which is drawn from   *)
(* the library's theorem on the minimum of a well-founded relation         *)
(* (SmallestSet).                                                          *)
(***************************************************************************)
EXTENDS Views, FiniteSetTheorems, WellFoundedInduction, TLAPS

-----------------------------------------------------------------------------
(* Induction.  A property is a set: that of the numbers, or of the sets,   *)
(* that have it.                                                           *)

\* Of some subsets of a finite set one has none of the others in it.
LEMMA SmallestSet ==
  ASSUME NEW S, IsFiniteSet(S), NEW sets, sets \subseteq SUBSET S, sets # {}
  PROVE  \E s \in sets : \A u \in sets : u \subseteq s => u = s
<1>1. sets \subseteq FiniteSubsetsOf(S)
  BY FS_Subset DEF FiniteSubsetsOf
<1>2. PICK s \in sets : \A u \in sets : ~ (<<u, s>> \in StrictSubsetOrdering(S))
  BY <1>1, FS_StrictSubsetOrderingWellFounded, WFMin
<1>3. QED
  BY <1>2 DEF StrictSubsetOrdering

\* What a subset has when all smaller ones have it, every subset has.
LEMMA SetInduction ==
  ASSUME NEW S, IsFiniteSet(S), NEW Has,
         \A s \in SUBSET S :
           (\A u \in SUBSET s : u # s => u \in Has) => s \in Has
  PROVE  SUBSET S \subseteq Has
<1>1. SUFFICES ASSUME NEW bad \in SUBSET S, bad \notin Has PROVE FALSE
  OBVIOUS
<1> DEFINE sets == {s \in SUBSET S : s \notin Has}
<1>2. sets \subseteq SUBSET S /\ sets # {}
  BY <1>1
<1>3. PICK s \in sets : \A u \in sets : u \subseteq s => u = s
  <2> HIDE DEF sets
  <2>1. QED
    BY <1>2, SmallestSet
<1>4. s \in SUBSET S /\ s \notin Has
  BY <1>3
<1>5. \A u \in SUBSET s : u # s => u \in Has
  BY <1>3, <1>4
<1>6. QED
  BY <1>4, <1>5

\* What 0 has, and n + 1 when n has it, every number up to a bound has.
LEMMA NumberInduction ==
  ASSUME NEW N \in Nat, NEW Has,
         0 \in Has,
         \A n \in 0 .. N - 1 : n \in Has => n + 1 \in Has
  PROVE  0 .. N \subseteq Has
<1>1. SUFFICES ASSUME NEW bad \in 0 .. N, bad \notin Has PROVE FALSE
  OBVIOUS
<1> DEFINE all == 0 .. N
           sets == {s \in SUBSET all : \E n \in all : n \notin Has /\ s = 0 .. n}
<1>2. sets \subseteq SUBSET all /\ sets # {} /\ IsFiniteSet(all)
  <2>1. 0 .. bad \in SUBSET all /\ bad \in all
    BY <1>1
  <2>2. 0 .. bad \in sets
    BY <1>1, <2>1
  <2>3. IsFiniteSet(all)
    BY FS_Interval
  <2>4. QED
    BY <2>2, <2>3
<1>3. PICK s \in sets : \A u \in sets : u \subseteq s => u = s
  <2> HIDE DEF sets, all
  <2>1. QED
    BY <1>2, SmallestSet
<1>4. PICK n \in 0 .. N : n \notin Has /\ s = 0 .. n
  BY <1>3
<1>5. n - 1 \in 0 .. N - 1 /\ n - 1 \notin Has
  BY <1>4
<1>6. 0 .. n - 1 \in sets
  BY <1>5
<1>7. 0 .. n - 1 \subseteq s /\ n \in s /\ n \notin 0 .. n - 1
  BY <1>4
<1>8. QED
  BY <1>3, <1>6, <1>7

-----------------------------------------------------------------------------
(* Sums *)

OneOf(s) == CHOOSE x \in s : TRUE

\* What MapThenSumSet makes of the sums of the subsets of a set.
IsSumOf(h, V) ==
  h = [s \in SUBSET DOMAIN V |->
         IF s = {} THEN 0 ELSE V[OneOf(s)] + h[s \ {OneOf(s)}]]

Sums(V) == CHOOSE h : IsSumOf(h, V)
Sum(V) == Sums(V)[DOMAIN V]

\* There is a function that sums up every subset of a finite set.
LEMMA SumsExist ==
  ASSUME NEW S, IsFiniteSet(S), NEW V \in [S -> Int]
  PROVE  \E h \in [SUBSET S -> Int] : IsSumOf(h, V)
<1> DEFINE N == Cardinality(S)
           Next_(h) == [s \in SUBSET S |->
                         IF s = {} THEN 0 ELSE V[OneOf(s)] + h[s \ {OneOf(s)}]]
           UpTo(n, h) == \A s \in SUBSET S : Cardinality(s) <= n => h[s] = Next_(h)[s]
           Has == {n \in Nat : \E h \in [SUBSET S -> Int] : UpTo(n, h)}
<1>1. N \in Nat
  BY FS_CardinalityType
<1>2. \A s \in SUBSET S : s # {} => OneOf(s) \in s
  BY Zenon DEF OneOf
<1>3. \A h \in [SUBSET S -> Int] : Next_(h) \in [SUBSET S -> Int]
  BY <1>2
<1>4. 0 \in Has
  <2> DEFINE h == [s \in SUBSET S |-> 0]
  <2>1. ASSUME NEW s \in SUBSET S, Cardinality(s) <= 0 PROVE s = {}
    BY <2>1, FS_Subset, FS_EmptySet, FS_CardinalityType
  <2>2. h \in [SUBSET S -> Int] /\ UpTo(0, h)
    BY <2>1
  <2>3. QED
    BY <2>2
<1>5. ASSUME NEW n \in 0 .. N - 1, n \in Has PROVE n + 1 \in Has
  <2>1. PICK h \in [SUBSET S -> Int] : UpTo(n, h)
    BY <1>5
  <2>2. ASSUME NEW s \in SUBSET S, s # {}, Cardinality(s) <= n + 1
        PROVE  Next_(h)[s \ {OneOf(s)}] = h[s \ {OneOf(s)}]
    <3>1. OneOf(s) \in s /\ IsFiniteSet(s)
      BY <1>2, <2>2, FS_Subset
    <3>2. Cardinality(s \ {OneOf(s)}) = Cardinality(s) - 1 /\ Cardinality(s) \in Nat
      BY <3>1, FS_RemoveElement, FS_CardinalityType
    <3>3. s \ {OneOf(s)} \in SUBSET S /\ Cardinality(s \ {OneOf(s)}) <= n
      BY <2>2, <3>2
    <3> HIDE DEF Next_
    <3>4. QED
      BY <2>1, <3>3
  <2>3. UpTo(n + 1, Next_(h))
    <3> SUFFICES ASSUME NEW s \in SUBSET S, Cardinality(s) <= n + 1
                 PROVE  Next_(h)[s] = Next_(Next_(h))[s]
      OBVIOUS
    <3>1. CASE s = {}
      BY <3>1
    <3>2. CASE s # {}
      <4>1. Next_(h)[s] = V[OneOf(s)] + h[s \ {OneOf(s)}]
        BY <3>2
      <4>2. Next_(Next_(h))[s] = V[OneOf(s)] + Next_(h)[s \ {OneOf(s)}]
        BY <3>2
      <4>3. QED
        BY <4>1, <4>2, <2>2, <3>2
    <3>3. QED
      BY <3>1, <3>2
  <2>4. n + 1 \in Nat
    BY <1>5
  <2>5. Next_(h) \in [SUBSET S -> Int]
    <3> HIDE DEF Next_
    <3>1. QED
      BY <1>3, <2>1
  <2> HIDE DEF Next_, UpTo
  <2>6. QED
    BY <2>3, <2>4, <2>5
<1>6. N \in Has
  <2> HIDE DEF Has
  <2>1. 0 .. N \subseteq Has
    BY <1>1, <1>4, <1>5, NumberInduction
  <2>2. QED
    BY <1>1, <2>1
<1>7. PICK h \in [SUBSET S -> Int] : UpTo(N, h)
  BY <1>6
<1>8. h = Next_(h)
  <2>1. \A s \in SUBSET S : h[s] = Next_(h)[s]
    BY <1>7, FS_Subset
  <2>2. Next_(h) \in [SUBSET S -> Int]
    BY <1>3
  <2> HIDE DEF Next_
  <2>3. QED
    BY <2>1, <2>2
<1>9. QED
  BY <1>8 DEF IsSumOf

\* On the sets both have, the sums of a function and of a part of it agree.
LEMMA SumsUnique ==
  ASSUME NEW S, IsFiniteSet(S), NEW T \in SUBSET S,
         NEW V, DOMAIN V = S, NEW W, DOMAIN W = T, \A x \in T : W[x] = V[x],
         NEW g, IsSumOf(g, V), NEW h, IsSumOf(h, W)
  PROVE  \A s \in SUBSET T : g[s] = h[s]
<1> DEFINE Has == {s \in SUBSET T : g[s] = h[s]}
<1>1. ASSUME NEW s \in SUBSET T, \A u \in SUBSET s : u # s => u \in Has PROVE s \in Has
  <2>1. CASE s = {}
    BY <2>1 DEF IsSumOf
  <2>2. CASE s # {}
    <3>1. OneOf(s) \in s
      BY <2>2, Zenon DEF OneOf
    <3>2. s \ {OneOf(s)} \in SUBSET s /\ s \ {OneOf(s)} # s
      BY <3>1
    <3>3. g[s \ {OneOf(s)}] = h[s \ {OneOf(s)}]
      BY <3>2, <1>1
    <3>4. g[s] = V[OneOf(s)] + g[s \ {OneOf(s)}]
      BY <2>2 DEF IsSumOf
    <3>5. h[s] = W[OneOf(s)] + h[s \ {OneOf(s)}]
      BY <2>2 DEF IsSumOf
    <3>6. W[OneOf(s)] = V[OneOf(s)]
      BY <3>1
    <3>7. QED
      BY <3>3, <3>4, <3>5, <3>6
  <2>3. QED
    BY <2>1, <2>2
<1>2. IsFiniteSet(T)
  BY FS_Subset
<1>3. SUBSET T \subseteq Has
  <2> HIDE DEF Has
  <2>1. QED
    BY <1>1, <1>2, SetInduction
<1>4. QED
  BY <1>3

\* The sums of a function to the integers are integers.
LEMMA SumsAre ==
  ASSUME NEW S, IsFiniteSet(S), NEW V \in [S -> Int]
  PROVE  Sums(V) \in [SUBSET S -> Int] /\ IsSumOf(Sums(V), V)
<1>1. PICK h \in [SUBSET S -> Int] : IsSumOf(h, V)
  BY SumsExist
<1>2. IsSumOf(Sums(V), V)
  BY <1>1, Zenon DEF Sums
<1>3. S \in SUBSET S /\ DOMAIN V = S /\ \A x \in S : V[x] = V[x]
  OBVIOUS
<1>4. \A s \in SUBSET S : Sums(V)[s] = h[s]
  BY <1>1, <1>2, <1>3, SumsUnique
<1>5. Sums(V) = [s \in SUBSET S |-> Sums(V)[s]]
  BY <1>2, <1>3 DEF IsSumOf
<1>6. QED
  BY <1>1, <1>2, <1>4, <1>5

\* The order does not matter.
LEMMA SumsRemove ==
  ASSUME NEW S, IsFiniteSet(S), NEW V \in [S -> Int]
  PROVE  \A s \in SUBSET S : \A x \in s : Sums(V)[s] = V[x] + Sums(V)[s \ {x}]
<1> DEFINE h == Sums(V)
           Has == {s \in SUBSET S : \A x \in s : h[s] = V[x] + h[s \ {x}]}
<1>1. h \in [SUBSET S -> Int] /\ IsSumOf(h, V)
  BY SumsAre
<1> HIDE DEF h
<1>2. ASSUME NEW s \in SUBSET S, \A u \in SUBSET s : u # s => u \in Has PROVE s \in Has
  <2> SUFFICES ASSUME NEW x \in s PROVE h[s] = V[x] + h[s \ {x}]
    OBVIOUS
  <2> DEFINE y == OneOf(s)
  <2>1. y \in s
    BY Zenon DEF OneOf
  <2>2. h[s] = V[y] + h[s \ {y}]
    BY <1>1 DEF IsSumOf
  <2> HIDE DEF y
  <2>3. CASE x = y
    BY <2>2, <2>3
  <2>4. CASE x # y
    <3>1. h[s \ {x}] = V[y] + h[(s \ {x}) \ {y}]
      <4>1. s \ {x} \in SUBSET s /\ s \ {x} # s /\ y \in s \ {x}
        BY <2>1, <2>4
      <4>2. QED
        BY <1>2, <4>1
    <3>2. h[s \ {y}] = V[x] + h[(s \ {y}) \ {x}]
      <4>1. s \ {y} \in SUBSET s /\ s \ {y} # s /\ x \in s \ {y}
        BY <2>1, <2>4
      <4>2. QED
        BY <1>2, <4>1
    <3>3. (s \ {x}) \ {y} = (s \ {y}) \ {x} /\ (s \ {y}) \ {x} \in SUBSET S
      OBVIOUS
    <3>4. V[x] \in Int /\ V[y] \in Int /\ h[(s \ {y}) \ {x}] \in Int
      BY <1>1, <2>1, <3>3
    <3>5. h[s \ {x}] = V[y] + h[(s \ {y}) \ {x}]
      BY <3>1, <3>3
    <3>6. h[s] = V[y] + (V[x] + h[(s \ {y}) \ {x}])
      BY <2>2, <3>2
    <3> DEFINE rest == h[(s \ {y}) \ {x}]
    <3>7. h[s] = V[y] + (V[x] + rest) /\ h[s \ {x}] = V[y] + rest /\ rest \in Int
      BY <3>4, <3>5, <3>6
    <3> HIDE DEF rest
    <3>8. QED
      BY <3>4, <3>7
  <2>5. QED
    BY <2>3, <2>4
<1>3. SUBSET S \subseteq Has
  <2> HIDE DEF Has
  <2>1. QED
    BY <1>2, SetInduction
<1>4. QED
  BY <1>3 DEF h

\* There is nothing to sum up.
LEMMA SumNothing ==
  ASSUME NEW V, DOMAIN V = {}
  PROVE  Sum(V) = 0
<1>1. V \in [{} -> Int] /\ IsFiniteSet({})
  BY FS_EmptySet
<1>2. IsSumOf(Sums(V), V) /\ {} \in SUBSET DOMAIN V
  BY <1>1, SumsAre
<1>3. Sums(V)[{}] = 0
  BY <1>2 DEF IsSumOf
<1>4. QED
  BY <1>3 DEF Sum

\* Natural numbers have a natural sum.
LEMMA SumOfNaturals ==
  ASSUME NEW S, IsFiniteSet(S), NEW V \in [S -> Nat]
  PROVE  Sum(V) \in Nat
<1> DEFINE Has == {s \in SUBSET S : Sums(V)[s] \in Nat}
<1>1. V \in [S -> Int] /\ DOMAIN V = S
  OBVIOUS
<1>2. IsSumOf(Sums(V), V)
  BY <1>1, SumsAre
<1>3. ASSUME NEW s \in SUBSET S, \A u \in SUBSET s : u # s => u \in Has PROVE s \in Has
  <2>1. CASE s = {}
    BY <1>1, <1>2, <2>1 DEF IsSumOf
  <2>2. CASE s # {}
    <3>1. PICK x \in s : TRUE
      BY <2>2
    <3>2. Sums(V)[s] = V[x] + Sums(V)[s \ {x}]
      BY <1>1, SumsRemove
    <3>3. s \ {x} \in SUBSET s /\ s \ {x} # s
      BY <3>1
    <3>4. s \ {x} \in Has
      BY <1>3, <3>3
    <3>5. V[x] \in Nat /\ Sums(V)[s \ {x}] \in Nat
      BY <3>4
    <3>6. QED
      BY <3>2, <3>5
  <2>3. QED
    BY <2>1, <2>2
<1>4. SUBSET S \subseteq Has
  <2> HIDE DEF Has
  <2>1. QED
    BY <1>3, SetInduction
<1>5. QED
  BY <1>1, <1>4 DEF Sum

-----------------------------------------------------------------------------
(* Walks up a tree *)

Tree(up) ==
  /\ DOMAIN up \subseteq TaskId
  /\ \A t \in DOMAIN up : up[t] \in DOMAIN up \cup {Top}

\* A walk up does not leave the set.
Closed(up, A) == \A t \in A : up[t] = Top \/ up[t] \in A

Steps == Cardinality(TaskId)

\* The sets a walk goes through
Further(up, t, f) ==
  [n \in 0 .. Steps |->
     IF n = 0 THEN {t} ELSE f[n - 1] \cup ({up[u] : u \in f[n - 1]} \ {Top})]
IsWalk(f, up, t) == f = Further(up, t, f)

\* The recursive function of Chain exists.
LEMMA WalkExists ==
  ASSUME NEW up, NEW t, Steps \in Nat
  PROVE  \E f : IsWalk(f, up, t)
<1> DEFINE F(f) == Further(up, t, f)
           Until(n, f) == f = [k \in 0 .. Steps |-> f[k]] /\ \A k \in 0 .. n : f[k] = F(f)[k]
           Has == {n \in 0 .. Steps : \E f : Until(n, f)}
<1>1. 0 \in Has
  <2> DEFINE f == [k \in 0 .. Steps |-> {t}]
  <2>1. f[0] = F(f)[0]
    BY DEF Further
  <2>2. f = [k \in 0 .. Steps |-> f[k]]
    OBVIOUS
  <2>3. \A k \in 0 .. 0 : k = 0
    OBVIOUS
  <2> HIDE DEF f, F
  <2>4. Until(0, f)
    BY <2>1, <2>2, <2>3
  <2>5. QED
    BY <2>4
<1>2. ASSUME NEW n \in 0 .. Steps - 1, n \in Has PROVE n + 1 \in Has
  <2>1. PICK f : Until(n, f)
    BY <1>2
  <2>2. ASSUME NEW k \in 0 .. n + 1 PROVE F(f)[k] = F(F(f))[k]
    <3>1. CASE k = 0
      BY <3>1 DEF Further
    <3>2. CASE k # 0
      <4>1. k - 1 \in 0 .. n /\ k \in 0 .. Steps
        BY <3>2
      <4>2. F(f)[k - 1] = f[k - 1]
        BY <2>1, <4>1
      <4>3. /\ F(f)[k] = f[k - 1] \cup ({up[u] : u \in f[k - 1]} \ {Top})
            /\ F(F(f))[k] = F(f)[k - 1] \cup ({up[u] : u \in F(f)[k - 1]} \ {Top})
        BY <3>2, <4>1 DEF Further
      <4> HIDE DEF F
      <4>4. QED
        BY <4>2, <4>3
    <3>3. QED
      BY <3>1, <3>2
  <2>3. F(f) = [k \in 0 .. Steps |-> F(f)[k]]
    BY DEF Further
  <2> HIDE DEF F
  <2>4. Until(n + 1, F(f)) /\ n + 1 \in 0 .. Steps
    BY <2>2, <2>3
  <2>5. QED
    BY <2>4
<1>3. 0 .. Steps \subseteq Has
  <2> HIDE DEF Has
  <2>1. QED
    BY <1>1, <1>2, NumberInduction
<1>4. PICK f : Until(Steps, f)
  BY <1>3
<1>5. IsWalk(f, up, t)
  BY <1>4 DEF IsWalk, Further
<1>6. QED
  BY <1>5

\* A chain is what a walk has met after as many steps as there are tasks.
LEMMA ChainIsWalk ==
  ASSUME NEW up, NEW t, Steps \in Nat
  PROVE  \E f : IsWalk(f, up, t) /\ Chain(up, t) = f[Steps]
<1> DEFINE P(f) == f = [n \in 0 .. Cardinality(TaskId) |->
                          IF n = 0 THEN {t}
                          ELSE f[n - 1] \cup ({up[u] : u \in f[n - 1]} \ {Top})]
           met == CHOOSE f : P(f)
<1>1. PICK f : IsWalk(f, up, t)
  BY WalkExists
<1>2. P(met)
  <2>1. P(f)
    BY <1>1 DEF IsWalk, Further, Steps
  <2>2. QED
    BY <2>1, Zenon
<1>3. Chain(up, t) = met[Cardinality(TaskId)]
  BY Zenon DEF Chain
<1> HIDE DEF met
<1>4. IsWalk(met, up, t)
  BY <1>2 DEF IsWalk, Further, Steps
<1>5. QED
  BY <1>3, <1>4 DEF Steps

\* A chain is the least set that holds t and everything a walk up meets.
LEMMA ChainOf ==
  ASSUME IsFiniteSet(TaskId), NEW up, Tree(up), NEW t \in DOMAIN up
  PROVE  /\ Chain(up, t) \subseteq DOMAIN up /\ t \in Chain(up, t)
         /\ Closed(up, Chain(up, t))
         /\ \A A : t \in A /\ Closed(up, A) => Chain(up, t) \subseteq A
<1>1. Steps \in Nat
  BY FS_CardinalityType DEF Steps
<1>2. PICK f : IsWalk(f, up, t) /\ Chain(up, t) = f[Steps]
  BY <1>1, ChainIsWalk
<1>3. f[0] = {t}
  BY <1>1, <1>2 DEF IsWalk, Further
<1>4. \A n \in 0 .. Steps - 1 : f[n + 1] = f[n] \cup ({up[u] : u \in f[n]} \ {Top})
  <2> SUFFICES ASSUME NEW n \in 0 .. Steps - 1
               PROVE  f[n + 1] = f[n] \cup ({up[u] : u \in f[n]} \ {Top})
    OBVIOUS
  <2>1. n + 1 \in 0 .. Steps /\ n + 1 # 0 /\ n + 1 - 1 = n
    BY <1>1
  <2>2. Further(up, t, f)[n + 1] =
          f[n + 1 - 1] \cup ({up[u] : u \in f[n + 1 - 1]} \ {Top})
    BY <2>1 DEF Further
  <2>3. f[n + 1] = Further(up, t, f)[n + 1]
    BY <1>2, Zenon DEF IsWalk
  <2>4. QED
    BY <2>1, <2>2, <2>3
<1>5. ASSUME NEW A, t \in A, Closed(up, A) PROVE \A n \in 0 .. Steps : f[n] \subseteq A
  <2> DEFINE Has == {n \in 0 .. Steps : f[n] \subseteq A}
  <2>1. 0 \in Has
    BY <1>1, <1>3, <1>5
  <2>2. ASSUME NEW n \in 0 .. Steps - 1, n \in Has PROVE n + 1 \in Has
    BY <1>1, <1>4, <1>5, <2>2 DEF Closed
  <2>3. 0 .. Steps \subseteq Has
    <3> HIDE DEF Has
    <3>1. QED
      BY <1>1, <2>1, <2>2, NumberInduction
  <2>4. QED
    BY <2>3
<1>6. \A n \in 0 .. Steps : f[n] \subseteq DOMAIN up
  <2>1. Closed(up, DOMAIN up)
    BY DEF Tree, Closed
  <2>2. QED
    BY <1>5, <2>1
<1>7. \A n \in 0 .. Steps : t \in f[n] /\ (Closed(up, f[n]) \/ Cardinality(f[n]) >= n + 1)
  <2> DEFINE Has == {n \in 0 .. Steps :
                       t \in f[n] /\ (Closed(up, f[n]) \/ Cardinality(f[n]) >= n + 1)}
  <2>1. 0 \in Has
    BY <1>1, <1>3, FS_Singleton
  <2>2. ASSUME NEW n \in 0 .. Steps - 1, n \in Has PROVE n + 1 \in Has
    <3>1. n \in 0 .. Steps /\ n + 1 \in 0 .. Steps
      BY <1>1
    <3>2. f[n + 1] = f[n] \cup ({up[u] : u \in f[n]} \ {Top})
      BY <1>4
    <3>3. t \in f[n + 1]
      BY <2>2, <3>2
    <3>4. CASE Closed(up, f[n])
      BY <3>1, <3>2, <3>3, <3>4 DEF Closed
    <3>5. CASE ~ Closed(up, f[n])
      <4>1. PICK u \in f[n] : up[u] # Top /\ up[u] \notin f[n]
        BY <3>5 DEF Closed
      <4>2. f[n] \cup {up[u]} \in SUBSET f[n + 1]
        BY <3>2, <4>1
      <4>3. IsFiniteSet(f[n]) /\ IsFiniteSet(f[n + 1])
        BY <1>6, <3>1, FS_Subset DEF Tree
      <4>4. Cardinality(f[n] \cup {up[u]}) = Cardinality(f[n]) + 1
        BY <4>1, <4>3, FS_AddElement
      <4>5. Cardinality(f[n] \cup {up[u]}) <= Cardinality(f[n + 1])
        BY <4>2, <4>3, FS_Subset
      <4>6. Cardinality(f[n]) \in Nat /\ Cardinality(f[n + 1]) \in Nat
        BY <4>3, FS_CardinalityType
      <4>7. Cardinality(f[n]) >= n + 1
        BY <2>2, <3>5
      <4>8. Cardinality(f[n + 1]) >= n + 1 + 1
        BY <4>4, <4>5, <4>6, <4>7
      <4>9. QED
        BY <3>1, <3>3, <4>8
    <3>6. QED
      BY <3>4, <3>5
  <2>3. 0 .. Steps \subseteq Has
    <3> HIDE DEF Has
    <3>1. QED
      BY <1>1, <2>1, <2>2, NumberInduction
  <2>4. QED
    BY <2>3
<1>8. Closed(up, f[Steps])
  <2>1. Steps \in 0 .. Steps
    BY <1>1
  <2>2. f[Steps] \in SUBSET TaskId
    BY <1>6, <2>1 DEF Tree
  <2>3. Cardinality(f[Steps]) <= Steps /\ Cardinality(f[Steps]) \in Nat
    BY <2>2, FS_Subset, FS_CardinalityType DEF Steps
  <2>4. QED
    BY <1>1, <1>7, <2>1, <2>3
<1>9. Steps \in 0 .. Steps
  BY <1>1
<1>10. QED
  BY <1>2, <1>5, <1>6, <1>7, <1>8, <1>9

\* What is above something above t is above t.
LEMMA ChainAbove ==
  ASSUME IsFiniteSet(TaskId), NEW up, Tree(up), NEW t \in DOMAIN up, NEW u \in Chain(up, t)
  PROVE  u \in DOMAIN up /\ Chain(up, u) \subseteq Chain(up, t)
<1>1. u \in DOMAIN up /\ Closed(up, Chain(up, t))
  BY ChainOf
<1>2. QED
  BY <1>1, ChainOf

\* t itself, and what is above its parent
LEMMA ChainStep ==
  ASSUME IsFiniteSet(TaskId), NEW up, Tree(up), NEW t \in DOMAIN up, up[t] # Top
  PROVE  up[t] \in DOMAIN up /\ Chain(up, t) = {t} \cup Chain(up, up[t])
<1>1. up[t] \in DOMAIN up /\ up[t] \in Chain(up, t)
  BY ChainOf DEF Tree, Closed
<1>2. Chain(up, up[t]) \subseteq Chain(up, t)
  BY <1>1, ChainAbove
<1>3. Closed(up, {t} \cup Chain(up, up[t])) /\ t \in Chain(up, t)
  BY <1>1, ChainOf DEF Closed
<1>4. Chain(up, t) \subseteq {t} \cup Chain(up, up[t])
  BY <1>3, ChainOf
<1>5. QED
  BY <1>1, <1>2, <1>3, <1>4

\* Only the parents that are met decide about a chain.
LEMMA ChainSame ==
  ASSUME IsFiniteSet(TaskId), NEW up, Tree(up), NEW vp, Tree(vp), NEW t \in DOMAIN up,
         \A u \in Chain(up, t) : u \in DOMAIN vp /\ vp[u] = up[u]
  PROVE  Chain(vp, t) = Chain(up, t)
<1>1. t \in DOMAIN vp /\ t \in Chain(up, t) /\ Closed(up, Chain(up, t))
  BY ChainOf
<1>2. Closed(vp, Chain(up, t))
  BY <1>1 DEF Closed
<1>3. Chain(vp, t) \subseteq Chain(up, t) /\ t \in Chain(vp, t) /\ Closed(vp, Chain(vp, t))
  BY <1>1, <1>2, ChainOf
<1>4. Closed(up, Chain(vp, t))
  BY <1>3 DEF Closed
<1>5. QED
  BY <1>3, <1>4, ChainOf

-----------------------------------------------------------------------------
(* More about sums *)

\* All functions that sum up agree.
LEMMA SumIs ==
  ASSUME NEW S, IsFiniteSet(S), NEW V \in [S -> Int], NEW h, IsSumOf(h, V)
  PROVE  h[S] = Sum(V)
<1>1. IsSumOf(Sums(V), V) /\ DOMAIN V = S /\ \A x \in S : V[x] = V[x]
  BY SumsAre
<1>2. \A s \in SUBSET S : h[s] = Sums(V)[s]
  BY <1>1, SumsUnique
<1>3. QED
  BY <1>1, <1>2 DEF Sum

\* The sum of a set, and those of others that agree with it on a part
LEMMA SumStep ==
  ASSUME NEW S, IsFiniteSet(S), NEW V \in [S -> Int], NEW s \in SUBSET S
  PROVE  /\ Sums(V)[s] \in Int
         /\ s = {} => Sums(V)[s] = 0
         /\ \A x \in s : /\ s \ {x} \in SUBSET s /\ s \ {x} # s
                         /\ V[x] \in Int /\ Sums(V)[s \ {x}] \in Int
                         /\ Sums(V)[s] = V[x] + Sums(V)[s \ {x}]
<1>1. Sums(V) \in [SUBSET S -> Int] /\ IsSumOf(Sums(V), V)
  BY SumsAre
<1>2. \A x \in s : Sums(V)[s] = V[x] + Sums(V)[s \ {x}]
  BY SumsRemove
<1>3. s = {} => Sums(V)[s] = 0
  BY <1>1 DEF IsSumOf
<1>4. QED
  BY <1>1, <1>2, <1>3

\* What is left of a sum without one of its parts
Stepwise(V, S) ==
  \A s \in SUBSET S : \A x \in s :
    /\ s \ {x} \in SUBSET s /\ s \ {x} # s
    /\ V[x] \in Int /\ Sums(V)[s \ {x}] \in Int
    /\ Sums(V)[s] = V[x] + Sums(V)[s \ {x}]

\* The sums of every subset have what Stepwise says.
LEMMA SumStepwise ==
  ASSUME NEW S, IsFiniteSet(S), NEW V \in [S -> Int]
  PROVE  Stepwise(V, S)
<1>1. Sums(V) \in [SUBSET S -> Int]
  BY SumsAre
<1>2. SUFFICES ASSUME NEW s \in SUBSET S, NEW x \in s
               PROVE  /\ s \ {x} \in SUBSET s /\ s \ {x} # s
                      /\ V[x] \in Int /\ Sums(V)[s \ {x}] \in Int
                      /\ Sums(V)[s] = V[x] + Sums(V)[s \ {x}]
  BY DEF Stepwise
<1>3. s \ {x} \in SUBSET S /\ x \in S
  OBVIOUS
<1>4. Sums(V)[s] = V[x] + Sums(V)[s \ {x}]
  BY SumStep
<1>5. QED
  BY <1>1, <1>3, <1>4

Adds(U, V, W) == \A x \in DOMAIN U : U[x] = V[x] + W[x]
Pads(W, V) == \A x \in DOMAIN W : W[x] = IF x \in DOMAIN V THEN V[x] ELSE 0

\* Two functions are summed up together or one after the other.
LEMMA SumOfTwo ==
  ASSUME NEW S, IsFiniteSet(S), NEW V \in [S -> Int], NEW W \in [S -> Int],
         NEW U \in [S -> Int], Adds(U, V, W)
  PROVE  Sum(U) = Sum(V) + Sum(W)
<1>u. Stepwise(U, S)
  BY SumStepwise
<1>v. Stepwise(V, S)
  BY SumStepwise
<1>w. Stepwise(W, S)
  BY SumStepwise
<1> DEFINE Has == {s \in SUBSET S : Sums(U)[s] = Sums(V)[s] + Sums(W)[s]}
<1>1. ASSUME NEW s \in SUBSET S, \A u \in SUBSET s : u # s => u \in Has PROVE s \in Has
  <2>1. CASE s = {}
    BY <2>1, SumStep
  <2>2. CASE s # {}
    <3>1. PICK x \in s : TRUE
      BY <2>2
    <3> HIDE DEF Has
    <3>2. /\ Sums(U)[s] = U[x] + Sums(U)[s \ {x}]
          /\ s \ {x} \in SUBSET s /\ s \ {x} # s
      BY <1>u, <3>1 DEF Stepwise
    <3>3. Sums(V)[s] = V[x] + Sums(V)[s \ {x}] /\ Sums(V)[s \ {x}] \in Int /\ V[x] \in Int
      BY <1>v, <3>1 DEF Stepwise
    <3>4. Sums(W)[s] = W[x] + Sums(W)[s \ {x}] /\ Sums(W)[s \ {x}] \in Int /\ W[x] \in Int
      BY <1>w, <3>1 DEF Stepwise
    <3>5. Sums(U)[s \ {x}] = Sums(V)[s \ {x}] + Sums(W)[s \ {x}]
      BY <1>1, <3>2 DEF Has
    <3>6. U[x] = V[x] + W[x]
      BY DEF Adds
    <3>7. QED
      BY <3>2, <3>3, <3>4, <3>5, <3>6 DEF Has
  <2>3. QED
    BY <2>1, <2>2
<1>2. SUBSET S \subseteq Has
  <2> HIDE DEF Has
  <2>1. QED
    BY <1>1, SetInduction
<1>3. DOMAIN U = S /\ DOMAIN V = S /\ DOMAIN W = S
  OBVIOUS
<1>4. QED
  BY <1>2, <1>3 DEF Sum

\* Smaller numbers have a smaller sum.
LEMMA SumAtMost ==
  ASSUME NEW S, IsFiniteSet(S), NEW V \in [S -> Int], NEW W \in [S -> Int],
         \A x \in S : V[x] <= W[x]
  PROVE  Sum(V) <= Sum(W)
<1>v. Stepwise(V, S)
  BY SumStepwise
<1>w. Stepwise(W, S)
  BY SumStepwise
<1> DEFINE Has == {s \in SUBSET S : Sums(V)[s] <= Sums(W)[s]}
<1>1. ASSUME NEW s \in SUBSET S, \A u \in SUBSET s : u # s => u \in Has PROVE s \in Has
  <2>1. CASE s = {}
    BY <2>1, SumStep
  <2>2. CASE s # {}
    <3>1. PICK x \in s : TRUE
      BY <2>2
    <3> HIDE DEF Has
    <3>2. /\ Sums(V)[s] = V[x] + Sums(V)[s \ {x}] /\ Sums(V)[s \ {x}] \in Int /\ V[x] \in Int
          /\ s \ {x} \in SUBSET s /\ s \ {x} # s
      BY <1>v, <3>1 DEF Stepwise
    <3>3. Sums(W)[s] = W[x] + Sums(W)[s \ {x}] /\ Sums(W)[s \ {x}] \in Int /\ W[x] \in Int
      BY <1>w, <3>1 DEF Stepwise
    <3>4. Sums(V)[s \ {x}] <= Sums(W)[s \ {x}]
      BY <1>1, <3>2 DEF Has
    <3>5. V[x] <= W[x]
      OBVIOUS
    <3>6. QED
      BY <3>2, <3>3, <3>4, <3>5 DEF Has
  <2>3. QED
    BY <2>1, <2>2
<1>2. SUBSET S \subseteq Has
  <2> HIDE DEF Has
  <2>1. QED
    BY <1>1, SetInduction
<1>3. DOMAIN V = S /\ DOMAIN W = S
  OBVIOUS
<1>4. QED
  BY <1>2, <1>3 DEF Sum

\* Zeros do not count.
LEMMA SumPadded ==
  ASSUME NEW S, IsFiniteSet(S), NEW T \in SUBSET S,
         NEW V \in [T -> Int], NEW W \in [S -> Int],
         Pads(W, V)
  PROVE  Sum(W) = Sum(V)
<1> DEFINE Has == {s \in SUBSET S : Sums(W)[s] = Sums(V)[s \cap T]}
<1>f. IsFiniteSet(T)
  BY FS_Subset
<1>v. Stepwise(V, T)
  BY <1>f, SumStepwise
<1>w. Stepwise(W, S)
  BY SumStepwise
<1>1. ASSUME NEW s \in SUBSET S, \A u \in SUBSET s : u # s => u \in Has PROVE s \in Has
  <2>0. s \cap T \in SUBSET T
    OBVIOUS
  <2>1. CASE s = {}
    <3>1. Sums(W)[s] = 0
      BY <2>1, SumStep
    <3>2. s \cap T = {}
      BY <2>1
    <3>3. Sums(V)[s \cap T] = 0
      BY <1>f, <2>0, <3>2, SumStep
    <3>4. QED
      BY <3>1, <3>3
  <2>2. CASE s # {}
    <3>1. PICK x \in s : TRUE
      BY <2>2
    <3> HIDE DEF Has
    <3>2. /\ Sums(W)[s] = W[x] + Sums(W)[s \ {x}] /\ Sums(W)[s \ {x}] \in Int
          /\ s \ {x} \in SUBSET s /\ s \ {x} # s
      BY <1>w, <3>1 DEF Stepwise
    <3>3. Sums(W)[s \ {x}] = Sums(V)[(s \ {x}) \cap T]
      BY <1>1, <3>2 DEF Has
    <3>4. CASE x \in T
      <4>0. x \in s \cap T
        BY <3>4
      <4>1. Sums(V)[s \cap T] = V[x] + Sums(V)[(s \cap T) \ {x}]
        BY <1>v, <2>0, <4>0 DEF Stepwise
      <4>2. (s \cap T) \ {x} = (s \ {x}) \cap T
        OBVIOUS
      <4>3. W[x] = V[x]
        BY <3>4 DEF Pads
      <4>4. Sums(V)[s \cap T] = W[x] + Sums(W)[s \ {x}]
        BY <3>3, <4>1, <4>2, <4>3
      <4>5. QED
        BY <3>2, <4>4 DEF Has
    <3>5. CASE x \notin T
      <4>1. W[x] = 0 /\ (s \ {x}) \cap T = s \cap T
        BY <3>5 DEF Pads
      <4>2. Sums(W)[s] = Sums(W)[s \ {x}]
        BY <3>2, <4>1
      <4>3. QED
        BY <3>3, <4>1, <4>2 DEF Has
    <3>6. QED
      BY <3>4, <3>5 DEF Has
  <2>3. QED
    BY <2>1, <2>2
<1>2. SUBSET S \subseteq Has
  <2> HIDE DEF Has
  <2>1. QED
    BY <1>1, SetInduction
<1>3. DOMAIN V = T /\ DOMAIN W = S /\ S \cap T = T
  OBVIOUS
<1>4. QED
  BY <1>2, <1>3 DEF Sum

-----------------------------------------------------------------------------
(* The reports *)

TimeTable == [EntryId -> TimeRow \cup {NoRow}]
Limits == [from : Nat, to : Nat]

\* The entries that count for t, and what one of them is worth in a range
Counts(tm, t) == {e \in Rows(tm) : tm[e].owner = t /\ tm[e].state # "deleted"}

Within(row, r) == r.from <= row.start /\ row.stop <= r.to
PassesEnd(row, r) == r.from < row.start /\ row.start < r.to /\ r.to < row.stop
PassesStart(row, r) == row.start < r.from /\ r.from < row.stop /\ row.stop < r.to

Share(row, r) ==
  IF r = Always \/ Within(row, r) THEN row.stop - row.start
  ELSE IF PassesEnd(row, r) THEN r.to - row.start
  ELSE IF PassesStart(row, r) THEN row.stop - r.from
  ELSE 0

Shares(tm, t, r) ==
  [e \in EntryId |-> IF e \in Counts(tm, t) THEN Share(tm[e], r) ELSE 0]


SumsLengths(tm, S) == MapThenSumSet(LAMBDA e : tm[e].stop - tm[e].start, S)
SumsTo(tm, r, S) == MapThenSumSet(LAMBDA e : r.to - tm[e].start, S)
SumsFrom(tm, r, S) == MapThenSumSet(LAMBDA e : tm[e].stop - r.from, S)

\* duration_time with its three conditions by name.
LEMMA DurationDef ==
  ASSUME NEW tm, NEW t, NEW r
  PROVE  DurationTime(tm, t, r) =
           IF r = Always
           THEN SumsLengths(tm, Counts(tm, t))
           ELSE SumsLengths(tm, {e \in Counts(tm, t) : Within(tm[e], r)})
              + SumsTo(tm, r, {e \in Counts(tm, t) : PassesEnd(tm[e], r)})
              + SumsFrom(tm, r, {e \in Counts(tm, t) : PassesStart(tm[e], r)})
<1> DEFINE All == {e \in Rows(tm) : tm[e].owner = t /\ tm[e].state # "deleted" /\ TRUE}
           In1 == {e \in Rows(tm) : tm[e].owner = t /\ tm[e].state # "deleted"
                     /\ (r.from <= tm[e].start /\ tm[e].stop <= r.to)}
           In2 == {e \in Rows(tm) : tm[e].owner = t /\ tm[e].state # "deleted"
                     /\ (r.from < tm[e].start /\ tm[e].start < r.to /\ r.to < tm[e].stop)}
           In3 == {e \in Rows(tm) : tm[e].owner = t /\ tm[e].state # "deleted"
                     /\ (tm[e].start < r.from /\ r.from < tm[e].stop /\ tm[e].stop < r.to)}
<1>1. DurationTime(tm, t, r) =
        IF r = Always THEN SumsLengths(tm, All)
        ELSE SumsLengths(tm, In1) + SumsTo(tm, r, In2) + SumsFrom(tm, r, In3)
  BY Zenon DEF DurationTime, Lengths, SumsLengths, SumsTo, SumsFrom,
     MapThenSumSet, MapThenFoldSet
<1>2. All = Counts(tm, t)
  BY Zenon DEF Counts
<1>3. In1 = {e \in Counts(tm, t) : Within(tm[e], r)}
  BY Zenon DEF Counts, Within
<1>4. In2 = {e \in Counts(tm, t) : PassesEnd(tm[e], r)}
  BY Zenon DEF Counts, PassesEnd
<1>5. In3 = {e \in Counts(tm, t) : PassesStart(tm[e], r)}
  BY Zenon DEF Counts, PassesStart
<1> HIDE DEF All, In1, In2, In3
<1>6. QED
  BY <1>1, <1>2, <1>3, <1>4, <1>5

\* MapThenSumSet is a sum: of the lengths of entries,
LEMMA SumsLengthsIs ==
  ASSUME NEW tm, NEW S, IsFiniteSet(S), \A e \in S : tm[e].stop - tm[e].start \in Int
  PROVE  SumsLengths(tm, S) = Sum([e \in S |-> tm[e].stop - tm[e].start])
<1> DEFINE V == [e \in S |-> tm[e].stop - tm[e].start]
           P(g) == g = [s \in SUBSET S |-> IF s = {} THEN 0 ELSE
                      LET x == CHOOSE x \in s : TRUE
                      IN  (tm[x].stop - tm[x].start) + g[s \ {x}]]
           iter == CHOOSE g : P(g)
<1>1. V \in [S -> Int]
  OBVIOUS
<1>2. \A g : P(g) <=> IsSumOf(g, V)
  <2> SUFFICES ASSUME NEW g, NEW s \in SUBSET S, s # {}
               PROVE  (tm[OneOf(s)].stop - tm[OneOf(s)].start) = V[OneOf(s)]
    BY DEF IsSumOf, OneOf
  <2>1. OneOf(s) \in s
    BY Zenon DEF OneOf
  <2>2. QED
    BY <2>1
<1>3. SumsLengths(tm, S) = iter[S]
  BY Zenon DEF SumsLengths, MapThenSumSet, MapThenFoldSet
<1>4. PICK h : IsSumOf(h, V)
  BY <1>1, SumsExist
<1>5. P(iter)
  <2>1. P(h)
    BY <1>2, <1>4
  <2> HIDE DEF P
  <2>2. QED
    BY <2>1, Zenon
<1>6. IsSumOf(iter, V)
  BY <1>2, <1>5
<1> HIDE DEF iter, V
<1>7. iter[S] = Sum(V)
  BY <1>1, <1>6, SumIs
<1>8. QED
  BY <1>3, <1>7 DEF V

\* of what they have before the end of a range,
LEMMA SumsToIs ==
  ASSUME NEW tm, NEW r, NEW S, IsFiniteSet(S), \A e \in S : r.to - tm[e].start \in Int
  PROVE  SumsTo(tm, r, S) = Sum([e \in S |-> r.to - tm[e].start])
<1> DEFINE V == [e \in S |-> r.to - tm[e].start]
           P(g) == g = [s \in SUBSET S |-> IF s = {} THEN 0 ELSE
                      LET x == CHOOSE x \in s : TRUE
                      IN  (r.to - tm[x].start) + g[s \ {x}]]
           iter == CHOOSE g : P(g)
<1>1. V \in [S -> Int]
  OBVIOUS
<1>2. \A g : P(g) <=> IsSumOf(g, V)
  <2> SUFFICES ASSUME NEW g, NEW s \in SUBSET S, s # {}
               PROVE  (r.to - tm[OneOf(s)].start) = V[OneOf(s)]
    BY DEF IsSumOf, OneOf
  <2>1. OneOf(s) \in s
    BY Zenon DEF OneOf
  <2>2. QED
    BY <2>1
<1>3. SumsTo(tm, r, S) = iter[S]
  BY Zenon DEF SumsTo, MapThenSumSet, MapThenFoldSet
<1>4. PICK h : IsSumOf(h, V)
  BY <1>1, SumsExist
<1>5. P(iter)
  <2>1. P(h)
    BY <1>2, <1>4
  <2> HIDE DEF P
  <2>2. QED
    BY <2>1, Zenon
<1>6. IsSumOf(iter, V)
  BY <1>2, <1>5
<1> HIDE DEF iter, V
<1>7. iter[S] = Sum(V)
  BY <1>1, <1>6, SumIs
<1>8. QED
  BY <1>3, <1>7 DEF V

\* and of what they have after its start.
LEMMA SumsFromIs ==
  ASSUME NEW tm, NEW r, NEW S, IsFiniteSet(S), \A e \in S : tm[e].stop - r.from \in Int
  PROVE  SumsFrom(tm, r, S) = Sum([e \in S |-> tm[e].stop - r.from])
<1> DEFINE V == [e \in S |-> tm[e].stop - r.from]
           P(g) == g = [s \in SUBSET S |-> IF s = {} THEN 0 ELSE
                      LET x == CHOOSE x \in s : TRUE
                      IN  (tm[x].stop - r.from) + g[s \ {x}]]
           iter == CHOOSE g : P(g)
<1>1. V \in [S -> Int]
  OBVIOUS
<1>2. \A g : P(g) <=> IsSumOf(g, V)
  <2> SUFFICES ASSUME NEW g, NEW s \in SUBSET S, s # {}
               PROVE  (tm[OneOf(s)].stop - r.from) = V[OneOf(s)]
    BY DEF IsSumOf, OneOf
  <2>1. OneOf(s) \in s
    BY Zenon DEF OneOf
  <2>2. QED
    BY <2>1
<1>3. SumsFrom(tm, r, S) = iter[S]
  BY Zenon DEF SumsFrom, MapThenSumSet, MapThenFoldSet
<1>4. PICK h : IsSumOf(h, V)
  BY <1>1, SumsExist
<1>5. P(iter)
  <2>1. P(h)
    BY <1>2, <1>4
  <2> HIDE DEF P
  <2>2. QED
    BY <2>1, Zenon
<1>6. IsSumOf(iter, V)
  BY <1>2, <1>5
<1> HIDE DEF iter, V
<1>7. iter[S] = Sum(V)
  BY <1>1, <1>6, SumIs
<1>8. QED
  BY <1>3, <1>7 DEF V

\* A report is one sum over the entries.
LEMMA DurationIsSum ==
  ASSUME NEW tm, NEW t, NEW r, IsFiniteSet(EntryId),
         tm \in TimeTable, r \in Limits \cup {Always}
  PROVE  /\ Shares(tm, t, r) \in [EntryId -> Int]
         /\ DurationTime(tm, t, r) = Sum(Shares(tm, t, r))
<1> DEFINE W == Shares(tm, t, r)
           S1 == {e \in Counts(tm, t) : Within(tm[e], r)}
           S2 == {e \in Counts(tm, t) : PassesEnd(tm[e], r)}
           S3 == {e \in Counts(tm, t) : PassesStart(tm[e], r)}
<1>1. /\ Counts(tm, t) \in SUBSET EntryId
      /\ \A e \in Counts(tm, t) : tm[e].start \in Nat /\ tm[e].stop \in Nat
  BY DEF Counts, Rows, TimeTable, TimeRow
<1>2. IsFiniteSet(Counts(tm, t))
  BY <1>1, FS_Subset
<1>3. r.from \in Int /\ r.to \in Int
  BY DEF Limits, Always
<1>4. W \in [EntryId -> Int]
  BY <1>1, <1>3 DEF Shares, Share
<1>5. CASE r = Always
  <2> DEFINE V == [e \in Counts(tm, t) |-> tm[e].stop - tm[e].start]
  <2>1. DurationTime(tm, t, r) = Sum(V)
    <3>1. \A e \in Counts(tm, t) : tm[e].stop - tm[e].start \in Int
      BY <1>1
    <3>2. SumsLengths(tm, Counts(tm, t)) = Sum(V)
      BY <1>2, <3>1, SumsLengthsIs
    <3>3. QED
      BY <1>5, <3>2, DurationDef
  <2>2. V \in [Counts(tm, t) -> Int] /\ Pads(W, V)
    BY <1>1, <1>5 DEF Pads, Shares, Share
  <2> HIDE DEF V, W
  <2>3. Sum(W) = Sum(V)
    BY <1>1, <1>4, <2>2, SumPadded
  <2>4. QED
    BY <1>4, <2>1, <2>3 DEF W
<1>6. CASE r # Always
  <2> DEFINE V1 == [e \in S1 |-> tm[e].stop - tm[e].start]
             V2 == [e \in S2 |-> r.to - tm[e].start]
             V3 == [e \in S3 |-> tm[e].stop - r.from]
             W1 == [e \in EntryId |-> IF e \in S1 THEN V1[e] ELSE 0]
             W2 == [e \in EntryId |-> IF e \in S2 THEN V2[e] ELSE 0]
             W3 == [e \in EntryId |-> IF e \in S3 THEN V3[e] ELSE 0]
             W12 == [e \in EntryId |-> W1[e] + W2[e]]
  <2>1. /\ S1 \in SUBSET EntryId /\ S2 \in SUBSET EntryId /\ S3 \in SUBSET EntryId
        /\ IsFiniteSet(S1) /\ IsFiniteSet(S2) /\ IsFiniteSet(S3)
    BY <1>1, FS_Subset
  <2>2. V1 \in [S1 -> Int] /\ V2 \in [S2 -> Int] /\ V3 \in [S3 -> Int]
    BY <1>1, <1>3
  <2>3. W1 \in [EntryId -> Int] /\ W2 \in [EntryId -> Int] /\ W3 \in [EntryId -> Int]
        /\ W12 \in [EntryId -> Int]
    BY <2>2
  <2>4. DurationTime(tm, t, r) = Sum(V1) + Sum(V2) + Sum(V3)
    <3>1. SumsLengths(tm, S1) = Sum(V1)
      <4>1. \A e \in S1 : tm[e].stop - tm[e].start \in Int
        BY <1>1
      <4> HIDE DEF S1
      <4>2. QED
        BY <2>1, <4>1, SumsLengthsIs
    <3>2. SumsTo(tm, r, S2) = Sum(V2)
      <4>1. \A e \in S2 : r.to - tm[e].start \in Int
        BY <1>1, <1>3
      <4> HIDE DEF S2
      <4>2. QED
        BY <2>1, <4>1, SumsToIs
    <3>3. SumsFrom(tm, r, S3) = Sum(V3)
      <4>1. \A e \in S3 : tm[e].stop - r.from \in Int
        BY <1>1, <1>3
      <4> HIDE DEF S3
      <4>2. QED
        BY <2>1, <4>1, SumsFromIs
    <3> HIDE DEF V1, V2, V3
    <3>4. QED
      BY <1>6, <3>1, <3>2, <3>3, DurationDef
  <2>5. Pads(W1, V1) /\ Pads(W2, V2) /\ Pads(W3, V3)
    BY DEF Pads
  <2>6. Adds(W12, W1, W2)
    BY DEF Adds
  <2>7. Adds(W, W12, W3)
    <3> SUFFICES ASSUME NEW e \in EntryId PROVE W[e] = W12[e] + W3[e]
      BY <1>4 DEF Adds
    <3>1. W12[e] = W1[e] + W2[e] /\ W1[e] \in Int /\ W2[e] \in Int /\ W3[e] \in Int
      BY <2>3
    <3>2. CASE e \notin Counts(tm, t)
      BY <3>2 DEF Shares
    <3>3. CASE e \in Counts(tm, t)
      <4>1. tm[e].start \in Nat /\ tm[e].stop \in Nat
        BY <1>1, <3>3
      <4>2. W[e] = Share(tm[e], r)
        BY <3>3 DEF Shares
      <4>3. W1[e] = IF Within(tm[e], r) THEN tm[e].stop - tm[e].start ELSE 0
        BY <3>3
      <4>4. W2[e] = IF PassesEnd(tm[e], r) THEN r.to - tm[e].start ELSE 0
        BY <3>3
      <4>5. W3[e] = IF PassesStart(tm[e], r) THEN tm[e].stop - r.from ELSE 0
        BY <3>3
      <4> HIDE DEF W, W1, W2, W3, W12
      <4>6. QED
        BY <1>3, <1>6, <3>1, <4>1, <4>2, <4>3, <4>4, <4>5
           DEF Share, Within, PassesEnd, PassesStart
    <3>4. QED
      BY <3>2, <3>3
  <2> HIDE DEF W, W1, W2, W3, W12, V1, V2, V3, S1, S2, S3
  <2>8. Sum(W1) = Sum(V1) /\ Sum(W2) = Sum(V2)
    <3>1. Sum(W1) = Sum(V1)
      BY <2>1, <2>2, <2>3, <2>5, SumPadded
    <3>2. Sum(W2) = Sum(V2)
      BY <2>1, <2>2, <2>3, <2>5, SumPadded
    <3>3. QED
      BY <3>1, <3>2
  <2>9. Sum(W3) = Sum(V3)
    BY <2>1, <2>2, <2>3, <2>5, SumPadded
  <2>10. Sum(W12) = Sum(W1) + Sum(W2)
    BY <2>3, <2>6, SumOfTwo
  <2>11. Sum(W) = Sum(W12) + Sum(W3)
    BY <1>4, <2>3, <2>7, SumOfTwo
  <2>12. DurationTime(tm, t, r) = Sum(W)
    BY <2>4, <2>8, <2>9, <2>10, <2>11
  <2>13. QED
    BY <1>4, <2>12 DEF W
<1>7. QED
  BY <1>5, <1>6

\* No time ends before it starts.
Forward(tm) == \A e \in Rows(tm) : tm[e].start <= tm[e].stop

\* An entry has no more of its time in a range than at all.
LEMMA ShareOfTime ==
  ASSUME NEW tm, tm \in TimeTable, Forward(tm), NEW t, NEW r \in Limits \cup {Always}
  PROVE  /\ Shares(tm, t, r) \in [EntryId -> Nat]
         /\ \A e \in EntryId : Shares(tm, t, r)[e] <= Shares(tm, t, Always)[e]
<1>1. \A e \in Counts(tm, t) :
        tm[e].start \in Nat /\ tm[e].stop \in Nat /\ tm[e].start <= tm[e].stop
  BY DEF Counts, Rows, TimeTable, TimeRow, Forward
<1>2. r # Always => r.from \in Nat /\ r.to \in Nat
  BY DEF Limits
<1>3. \A e \in Counts(tm, t) :
        /\ Share(tm[e], r) \in Nat /\ Share(tm[e], Always) = tm[e].stop - tm[e].start
        /\ Share(tm[e], r) <= Share(tm[e], Always)
  BY <1>1, <1>2 DEF Share, Within, PassesEnd, PassesStart
<1>4. \A e \in EntryId :
        /\ Shares(tm, t, r)[e] = IF e \in Counts(tm, t) THEN Share(tm[e], r) ELSE 0
        /\ Shares(tm, t, Always)[e] = IF e \in Counts(tm, t) THEN Share(tm[e], Always) ELSE 0
  BY DEF Shares
<1>5. \A e \in EntryId :
        Shares(tm, t, r)[e] \in Nat /\ Shares(tm, t, r)[e] <= Shares(tm, t, Always)[e]
  BY <1>3, <1>4
<1>6. Shares(tm, t, r) = [e \in EntryId |-> Shares(tm, t, r)[e]]
  BY DEF Shares
<1>7. QED
  BY <1>5, <1>6

\* A report is a natural number.
LEMMA DurationType ==
  ASSUME NEW tm, tm \in TimeTable, Forward(tm), NEW t, NEW r \in Limits \cup {Always},
         IsFiniteSet(EntryId)
  PROVE  DurationTime(tm, t, r) \in Nat
<1>1. Shares(tm, t, r) \in [EntryId -> Nat]
  BY ShareOfTime
<1>2. Sum(Shares(tm, t, r)) \in Nat
  BY <1>1, SumOfNaturals
<1>3. QED
  BY <1>2, DurationIsSum

\* A report sees of the table what counts for the task.
LEMMA DurationSame ==
  ASSUME NEW tm, tm \in TimeTable, NEW tn, tn \in TimeTable,
         NEW t, NEW r \in Limits \cup {Always}, IsFiniteSet(EntryId),
         \A e \in EntryId : Shares(tm, t, r)[e] = Shares(tn, t, r)[e]
  PROVE  DurationTime(tm, t, r) = DurationTime(tn, t, r)
<1>1. /\ Shares(tm, t, r) = [e \in EntryId |-> Shares(tm, t, r)[e]]
      /\ Shares(tn, t, r) = [e \in EntryId |-> Shares(tn, t, r)[e]]
  BY DEF Shares
<1>2. Shares(tm, t, r) = Shares(tn, t, r)
  BY <1>1
<1>3. QED
  BY <1>2, DurationIsSum

\* Time there must be an entry for.
LEMMA DurationZero ==
  ASSUME NEW tm, tm \in TimeTable, NEW t, NEW r \in Limits \cup {Always},
         IsFiniteSet(EntryId), \A e \in EntryId : Shares(tm, t, r)[e] = 0
  PROVE  DurationTime(tm, t, r) = 0
<1> DEFINE V == [e \in {} |-> 0]
<1>1. V \in [{} -> Int] /\ DOMAIN V = {} /\ {} \in SUBSET EntryId
  OBVIOUS
<1>2. Shares(tm, t, r) \in [EntryId -> Int]
  BY DurationIsSum
<1>3. Pads(Shares(tm, t, r), V)
  BY <1>2 DEF Pads
<1> HIDE DEF V
<1>4. Sum(Shares(tm, t, r)) = Sum(V)
  BY <1>1, <1>2, <1>3, SumPadded
<1>5. Sum(V) = 0
  BY <1>1, SumNothing
<1>6. QED
  BY <1>4, <1>5, DurationIsSum

\* What the tasks add to a total
Parts(tk, tm, t, r) ==
  [u \in TaskId |-> IF u \in Below(tk, t) THEN DurationTime(tm, u, r) ELSE 0]

\* total_cumulative_time is one sum over the tasks.
LEMMA TotalIsSum ==
  ASSUME NEW tk, Rows(tk) \subseteq TaskId, NEW tm, NEW t, NEW r, IsFiniteSet(TaskId),
         \A u \in TaskId : DurationTime(tm, u, r) \in Nat
  PROVE  /\ Total(tk, tm, t, r) = Sum(Parts(tk, tm, t, r))
         /\ Total(tk, tm, t, r) \in Nat
<1> DEFINE S == Below(tk, t)
           V == [u \in S |-> DurationTime(tm, u, r)]
           P(g) == g = [s \in SUBSET S |-> IF s = {} THEN 0 ELSE
                      LET x == CHOOSE x \in s : TRUE
                      IN  DurationTime(tm, x, r) + g[s \ {x}]]
           iter == CHOOSE g : P(g)
<1>s. S \in SUBSET TaskId /\ IsFiniteSet(S)
  BY FS_Subset DEF Below
<1>1. V \in [S -> Nat]
  BY <1>s
<1>2. \A g : P(g) <=> IsSumOf(g, V)
  <2> SUFFICES ASSUME NEW g, NEW s \in SUBSET S, s # {}
               PROVE  DurationTime(tm, OneOf(s), r) = V[OneOf(s)]
    BY DEF IsSumOf, OneOf
  <2>1. OneOf(s) \in s
    BY Zenon DEF OneOf
  <2>2. QED
    BY <2>1
<1>3. Total(tk, tm, t, r) = iter[S]
  BY Zenon DEF Total, MapThenSumSet, MapThenFoldSet
<1>4. PICK h : IsSumOf(h, V)
  <2>1. V \in [S -> Int]
    BY <1>1
  <2> HIDE DEF S, V
  <2>2. QED
    BY <1>s, <2>1, SumsExist
<1>5. P(iter)
  <2>1. P(h)
    BY <1>2, <1>4
  <2> HIDE DEF P
  <2>2. QED
    BY <2>1, Zenon
<1>6. IsSumOf(iter, V)
  BY <1>2, <1>5
<1>7. Pads(Parts(tk, tm, t, r), V) /\ Parts(tk, tm, t, r) \in [TaskId -> Nat]
  BY DEF Pads, Parts
<1> HIDE DEF iter, V, S
<1>8. V \in [S -> Int] /\ Parts(tk, tm, t, r) \in [TaskId -> Int]
  BY <1>1, <1>7
<1>9. iter[S] = Sum(V)
  BY <1>s, <1>6, <1>8, SumIs
<1>10. Sum(Parts(tk, tm, t, r)) = Sum(V)
  BY <1>s, <1>7, <1>8, SumPadded
<1>11. Sum(V) \in Nat
  BY <1>s, <1>1, SumOfNaturals
<1>12. QED
  BY <1>3, <1>9, <1>10, <1>11

\* Totals are the same when every task adds the same.
LEMMA TotalSame ==
  ASSUME NEW tk, Rows(tk) \subseteq TaskId, NEW tl, Rows(tl) \subseteq TaskId,
         NEW tm, NEW tn, NEW t, NEW r, IsFiniteSet(TaskId),
         \A u \in TaskId : DurationTime(tm, u, r) \in Nat /\ DurationTime(tn, u, r) \in Nat,
         \A u \in TaskId : Parts(tk, tm, t, r)[u] = Parts(tl, tn, t, r)[u]
  PROVE  Total(tk, tm, t, r) = Total(tl, tn, t, r)
<1>1. Parts(tk, tm, t, r) = Parts(tl, tn, t, r)
  BY DEF Parts
<1>2. Total(tk, tm, t, r) = Sum(Parts(tk, tm, t, r))
  BY TotalIsSum
<1>3. Total(tl, tn, t, r) = Sum(Parts(tl, tn, t, r))
  BY TotalIsSum
<1>4. QED
  BY <1>1, <1>2, <1>3

-----------------------------------------------------------------------------
(* The tree of the tasks *)

TaskTable == [TaskId -> TaskRow \cup {NoRow}]
TasksOK(tk) ==
  tk \in TaskTable /\ \A t \in Rows(tk) : tk[t].parent \in Rows(tk) \cup {Top}
TimesOK(tk, tm) ==
  tm \in TimeTable /\ Forward(tm) /\ \A e \in Rows(tm) : tm[e].owner \in Rows(tk)

\* The rows of a table of tasks, and the tree of their parents
LEMMA RowsOfTasks ==
  ASSUME NEW tk, TasksOK(tk)
  PROVE  /\ Rows(tk) \subseteq TaskId
         /\ \A t \in Rows(tk) : tk[t] \in TaskRow /\ tk[t] # NoRow
         /\ \A t \in TaskId \ Rows(tk) : tk[t] = NoRow
         /\ DOMAIN Parents(tk) = Rows(tk)
         /\ \A t \in Rows(tk) : Parents(tk)[t] = tk[t].parent
         /\ Tree(Parents(tk))
<1>1. tk \in [TaskId -> TaskRow \cup {NoRow}]
  BY DEF TasksOK, TaskTable
<1>2. /\ Rows(tk) \subseteq TaskId
      /\ \A t \in Rows(tk) : tk[t] \in TaskRow /\ tk[t] # NoRow
      /\ \A t \in TaskId \ Rows(tk) : tk[t] = NoRow
  BY <1>1 DEF Rows
<1>3. /\ DOMAIN Parents(tk) = Rows(tk)
      /\ \A t \in Rows(tk) : Parents(tk)[t] = tk[t].parent
  BY DEF Parents
<1>4. QED
  BY <1>2, <1>3 DEF Tree, TasksOK

\* What is above a task is in the table, and closed under parents.
LEMMA AboveOf ==
  ASSUME NEW tk, TasksOK(tk), NEW t \in Rows(tk)
  PROVE  /\ Above(tk, t) \subseteq Rows(tk) /\ t \in Above(tk, t)
         /\ \A u \in Above(tk, t) :
              /\ Above(tk, u) \subseteq Above(tk, t)
              /\ tk[u].parent = Top \/ tk[u].parent \in Above(tk, t)
<1>1. Tree(Parents(tk)) /\ DOMAIN Parents(tk) = Rows(tk) /\ IsFiniteSet(TaskId)
  BY RowsOfTasks, ViewsAssumption
<1>2. /\ Above(tk, t) \subseteq Rows(tk) /\ t \in Above(tk, t)
      /\ Closed(Parents(tk), Above(tk, t))
  BY <1>1, ChainOf DEF Above
<1>3. \A u \in Above(tk, t) : Above(tk, u) \subseteq Above(tk, t)
  BY <1>1, ChainAbove DEF Above
<1>4. \A u \in Above(tk, t) : Parents(tk)[u] = tk[u].parent
  BY <1>2, RowsOfTasks
<1>5. QED
  BY <1>2, <1>3, <1>4 DEF Closed

\* Only the parents decide about what is above and below.
LEMMA SameTree ==
  ASSUME NEW tk, TasksOK(tk), NEW tl, TasksOK(tl), Parents(tl) = Parents(tk)
  PROVE  /\ Rows(tl) = Rows(tk)
         /\ \A t : Above(tl, t) = Above(tk, t) /\ Below(tl, t) = Below(tk, t)
         /\ \A t \in Rows(tk) : EndlessAbove(tl, t) = EndlessAbove(tk, t)
<1>1. Rows(tl) = Rows(tk) /\ \A t \in Rows(tk) : tl[t].parent = tk[t].parent
  BY RowsOfTasks
<1>2. \A t : Above(tl, t) = Above(tk, t)
  BY DEF Above
<1>3. \A t : Below(tl, t) = Below(tk, t)
  BY <1>1, <1>2 DEF Below
<1>4. \A t \in Rows(tk) : OnCycle(tl, t) = OnCycle(tk, t)
  BY <1>1, <1>2 DEF OnCycle
<1>5. ASSUME NEW t \in Rows(tk) PROVE EndlessAbove(tl, t) = EndlessAbove(tk, t)
  <2>1. Above(tk, t) \subseteq Rows(tk)
    BY AboveOf
  <2>2. QED
    BY <1>2, <1>4, <2>1 DEF EndlessAbove
<1>6. QED
  BY <1>1, <1>2, <1>3, <1>5

\* What is above a task that can be reached can be reached.
LEMMA ReachableOf ==
  ASSUME NEW tk, TasksOK(tk), NEW t \in Reachable(tk)
  PROVE  /\ t \in Rows(tk)
         /\ Above(tk, t) \subseteq Reachable(tk)
         /\ tk[t].parent = Top \/ tk[t].parent \in Reachable(tk)
<1>1. t \in Rows(tk) /\ ~ EndlessAbove(tk, t) /\ \A u \in Above(tk, t) : ~ tk[u].deleted
  BY DEF Reachable
<1>2. /\ Above(tk, t) \subseteq Rows(tk) /\ t \in Above(tk, t)
      /\ \A u \in Above(tk, t) :
              /\ Above(tk, u) \subseteq Above(tk, t)
              /\ tk[u].parent = Top \/ tk[u].parent \in Above(tk, t)
  BY <1>1, AboveOf
<1>3. Above(tk, t) \subseteq Reachable(tk)
  BY <1>1, <1>2 DEF Reachable, EndlessAbove
<1>4. QED
  BY <1>1, <1>2, <1>3

\* A total is a natural number.
LEMMA TotalType ==
  ASSUME NEW tk, TasksOK(tk), NEW tm \in TimeTable, Forward(tm),
         NEW t, NEW r \in Limits \cup {Always}
  PROVE  Total(tk, tm, t, r) \in Nat
<1>1. \A u \in TaskId : DurationTime(tm, u, r) \in Nat
  BY DurationType, ViewsAssumption
<1>2. Rows(tk) \subseteq TaskId /\ IsFiniteSet(TaskId)
  BY RowsOfTasks, ViewsAssumption
<1>3. QED
  BY <1>1, <1>2, TotalIsSum

-----------------------------------------------------------------------------
(* What a write to the times of one task leaves alone *)

Mine(row, t) == row # NoRow => row.owner = t
OnlyTimesOf(tm, tn, t) ==
  \A e \in EntryId : tn[e] = tm[e] \/ (Mine(tm[e], t) /\ Mine(tn[e], t))

\* The reports about the other tasks are the same,
LEMMA OtherDurations ==
  ASSUME NEW tm \in TimeTable, NEW tn \in TimeTable, NEW t, OnlyTimesOf(tm, tn, t),
         NEW u, u # t, NEW r \in Limits \cup {Always}
  PROVE  DurationTime(tn, u, r) = DurationTime(tm, u, r)
<1>1. ASSUME NEW e \in EntryId PROVE Shares(tn, u, r)[e] = Shares(tm, u, r)[e]
  <2>1. CASE tn[e] = tm[e]
    <3>1. e \in Counts(tn, u) <=> e \in Counts(tm, u)
      BY <2>1 DEF Counts, Rows, TimeTable
    <3>2. QED
      BY <2>1, <3>1 DEF Shares
  <2>2. CASE Mine(tm[e], t) /\ Mine(tn[e], t)
    <3>1. e \notin Counts(tn, u) /\ e \notin Counts(tm, u)
      BY <2>2 DEF Counts, Rows, Mine
    <3>2. QED
      BY <3>1 DEF Shares
  <2>3. QED
    BY <2>1, <2>2 DEF OnlyTimesOf
<1>2. QED
  BY <1>1, DurationSame, ViewsAssumption

\* and the totals of the tasks it is not below.
LEMMA OtherTotals ==
  ASSUME NEW tk, TasksOK(tk), NEW tm \in TimeTable, Forward(tm),
         NEW tn \in TimeTable, Forward(tn), NEW t, OnlyTimesOf(tm, tn, t),
         NEW u, t \notin Below(tk, u), NEW r \in Limits \cup {Always}
  PROVE  Total(tk, tn, u, r) = Total(tk, tm, u, r)
<1>1. \A v \in TaskId : DurationTime(tm, v, r) \in Nat /\ DurationTime(tn, v, r) \in Nat
  BY DurationType, ViewsAssumption
<1>2. \A v \in Below(tk, u) : DurationTime(tn, v, r) = DurationTime(tm, v, r)
  BY OtherDurations
<1>3. \A v \in TaskId : Parts(tk, tn, u, r)[v] = Parts(tk, tm, u, r)[v]
  BY <1>2 DEF Parts
<1>4. Rows(tk) \subseteq TaskId /\ IsFiniteSet(TaskId)
  BY RowsOfTasks, ViewsAssumption
<1>5. QED
  BY <1>1, <1>3, <1>4, TotalSame

\* A row without length counts for nothing.
LEMMA NoLength ==
  ASSUME NEW tm \in TimeTable, NEW tn \in TimeTable, Forward(tn),
         NEW e \in EntryId, tm[e] = NoRow, tn[e].start = tn[e].stop,
         \A f \in EntryId \ {e} : tn[f] = tm[f],
         NEW u, NEW r \in Limits \cup {Always}
  PROVE  DurationTime(tn, u, r) = DurationTime(tm, u, r)
<1>1. ASSUME NEW f \in EntryId PROVE Shares(tn, u, r)[f] = Shares(tm, u, r)[f]
  <2>1. CASE f # e
    <3>1. tn[f] = tm[f]
      BY <2>1
    <3>2. f \in Counts(tn, u) <=> f \in Counts(tm, u)
      BY <3>1 DEF Counts, Rows, TimeTable
    <3>3. QED
      BY <3>1, <3>2 DEF Shares
  <2>2. CASE f = e
    <3>1. Shares(tm, u, r)[e] = 0
      BY DEF Shares, Counts, Rows
    <3>2. Shares(tn, u, r)[e] \in Nat /\ Shares(tn, u, r)[e] <= Shares(tn, u, Always)[e]
      BY ShareOfTime
    <3>3. e \in Counts(tn, u) => tn[e].start \in Nat
      BY DEF Counts, Rows, TimeTable, TimeRow
    <3>4. Shares(tn, u, Always)[e] = 0
      BY <3>3 DEF Shares, Share
    <3>5. QED
      BY <2>2, <3>1, <3>2, <3>4
  <2>3. QED
    BY <2>1, <2>2
<1>2. QED
  BY <1>1, DurationSame, ViewsAssumption

\* Where all reports are the same, all totals are.
LEMMA SameTotals ==
  ASSUME NEW tk, TasksOK(tk), NEW tm \in TimeTable, Forward(tm),
         NEW tn \in TimeTable, Forward(tn),
         NEW r \in Limits \cup {Always},
         \A v \in TaskId : DurationTime(tn, v, r) = DurationTime(tm, v, r), NEW u
  PROVE  Total(tk, tn, u, r) = Total(tk, tm, u, r)
<1>1. \A v \in TaskId : DurationTime(tm, v, r) \in Nat /\ DurationTime(tn, v, r) \in Nat
  BY DurationType, ViewsAssumption
<1>3. \A v \in TaskId : Parts(tk, tn, u, r)[v] = Parts(tk, tm, u, r)[v]
  BY DEF Parts
<1>4. Rows(tk) \subseteq TaskId /\ IsFiniteSet(TaskId)
  BY RowsOfTasks, ViewsAssumption
<1>5. QED
  BY <1>1, <1>3, <1>4, TotalSame

\* The total of a task depends on the tree only by what is below it.
LEMMA SameTreeTotals ==
  ASSUME NEW tk, TasksOK(tk), NEW tl, TasksOK(tl), Parents(tl) = Parents(tk),
         NEW tm \in TimeTable, Forward(tm), NEW r \in Limits \cup {Always}, NEW u
  PROVE  Total(tl, tm, u, r) = Total(tk, tm, u, r)
<1>1. Below(tl, u) = Below(tk, u)
  BY SameTree
<1>2. QED
  BY <1>1 DEF Total

-----------------------------------------------------------------------------
(* The list *)

Missing(tk, un) == UNION {Below(tk, t) : t \in un}

ListOK(tk, l) ==
  /\ l \in [TaskId -> ListRow \cup {NoRow}]
  /\ \A t \in Rows(l) : l[t].up # Top => l[t].up \in Rows(l)
  /\ Rows(l) \subseteq Rows(tk)

ListRight(tk, tm, l, un) ==
  \A t \in TaskId \ Missing(tk, un) : l[t] = ListOf(tk, tm)[t]

\* The rows of the list are what is not NoRow in it.
LEMMA ListRows ==
  ASSUME NEW l \in [TaskId -> ListRow \cup {NoRow}]
  PROVE  /\ Rows(l) \subseteq TaskId
         /\ \A t \in TaskId : t \in Rows(l) <=> l[t] # NoRow
         /\ \A t \in Rows(l) : l[t] \in ListRow
  BY DEF Rows

\* What the list shows of a task is a row, with the parent of the task.
LEMMA ShownIs ==
  ASSUME NEW tk, TasksOK(tk), NEW tm \in TimeTable, Forward(tm), NEW t \in Rows(tk)
  PROVE  /\ ShownInList(tk, tm, t) \in ListRow /\ ShownInList(tk, tm, t) # NoRow
         /\ ShownInList(tk, tm, t).up = tk[t].parent
<1>1. Total(tk, tm, t, Always) \in Nat
  BY TotalType
<1>2. tk[t].parent \in TaskId \cup {Top}
  BY RowsOfTasks DEF TasksOK
<1>3. ShownInList(tk, tm, t) \in ListRow
  BY <1>1, <1>2 DEF ShownInList, ListRow
<1>4. ShownInList(tk, tm, t).up = tk[t].parent
  BY DEF ShownInList
<1>5. ShownInList(tk, tm, t) # NoRow
  BY <1>3 DEF ListRow, NoRow
<1>6. QED
  BY <1>3, <1>4, <1>5

\* populate shows what it is meant to show.
LEMMA ListOfOK ==
  ASSUME NEW tk, TasksOK(tk), NEW tm \in TimeTable, Forward(tm)
  PROVE  ListOK(tk, ListOf(tk, tm)) /\ ListRight(tk, tm, ListOf(tk, tm), {})
<1> DEFINE l == ListOf(tk, tm)
<1>1. \A t \in Reachable(tk) : t \in Rows(tk) /\ t \in TaskId
  BY RowsOfTasks DEF Reachable
<1>2. \A t \in TaskId : l[t] = IF t \in Reachable(tk) THEN ShownInList(tk, tm, t) ELSE NoRow
  BY DEF ListOf
<1>3. l = [t \in TaskId |-> l[t]]
  BY DEF ListOf
<1>4. \A t \in TaskId : l[t] \in ListRow \cup {NoRow}
  BY <1>1, <1>2, ShownIs
<1> HIDE DEF l
<1>5. l \in [TaskId -> ListRow \cup {NoRow}]
  BY <1>3, <1>4
<1>6. Rows(l) = Reachable(tk)
  <2>1. \A t \in TaskId : t \in Rows(l) <=> l[t] # NoRow
    BY <1>5, ListRows
  <2>2. \A t \in TaskId : l[t] # NoRow <=> t \in Reachable(tk)
    BY <1>1, <1>2, ShownIs
  <2>3. QED
    BY <1>1, <1>5, <2>1, <2>2, ListRows
<1>7. \A t \in Reachable(tk) : l[t].up = tk[t].parent
  BY <1>1, <1>2, ShownIs
<1>8. ListOK(tk, l)
  BY <1>1, <1>5, <1>6, <1>7, ReachableOf DEF ListOK
<1>9. QED
  BY <1>8 DEF ListRight, l

\* After a write to the times of t
LEMMA ListUpdatedOK ==
  ASSUME NEW tk, TasksOK(tk), NEW tm \in TimeTable, Forward(tm),
         NEW tn \in TimeTable, Forward(tn), NEW t \in Rows(tk), OnlyTimesOf(tm, tn, t),
         Running(tn) = Running(tm), NEW l, ListOK(tk, l), NEW un, ListRight(tk, tm, l, un)
  PROVE  /\ ListOK(tk, ListUpdated(l, tk, tn, t))
         /\ ListRight(tk, tn, ListUpdated(l, tk, tn, t), un)
<1> DEFINE n == ListUpdated(l, tk, tn, t)
           Hit(u) == u \in Above(tk, t) /\ l[u] # NoRow
<1>1. /\ n = [u \in TaskId |-> n[u]]
      /\ \A u \in TaskId : n[u] = IF Hit(u)
                                  THEN [ShownInList(tk, tn, u) EXCEPT !.up = l[u].up] ELSE l[u]
  BY DEF ListUpdated
<1>2. /\ l \in [TaskId -> ListRow \cup {NoRow}]
      /\ \A u \in Rows(l) : u \in TaskId /\ u \in Rows(tk) /\ l[u] \in ListRow
      /\ \A u \in TaskId : u \in Rows(l) <=> l[u] # NoRow
  BY ListRows DEF ListOK
<1>3. \A u \in TaskId : Hit(u) => u \in Rows(l)
  BY <1>2
<1>4. ASSUME NEW u \in TaskId, Hit(u)
      PROVE  n[u] \in ListRow /\ n[u] # NoRow /\ n[u].up = l[u].up
  <2>1. ShownInList(tk, tn, u) \in ListRow /\ l[u] \in ListRow
    BY <1>2, <1>3, <1>4, ShownIs
  <2>2. n[u] = [ShownInList(tk, tn, u) EXCEPT !.up = l[u].up]
    BY <1>1, <1>4
  <2> HIDE DEF n
  <2>3. n[u] \in ListRow /\ n[u].up = l[u].up
    BY <2>1, <2>2 DEF ListRow
  <2>4. QED
    BY <2>3 DEF ListRow, NoRow
<1> HIDE DEF n
<1>5. ASSUME NEW u \in TaskId
      PROVE  /\ n[u] \in ListRow \cup {NoRow}
             /\ n[u] # NoRow <=> l[u] # NoRow
             /\ n[u] # NoRow => n[u].up = l[u].up
  <2>1. CASE Hit(u)
    BY <1>4, <2>1
  <2>2. CASE ~ Hit(u)
    BY <1>1, <1>2, <2>2
  <2>3. QED
    BY <2>1, <2>2
<1>6. n \in [TaskId -> ListRow \cup {NoRow}]
  BY <1>1, <1>5
<1>7. Rows(n) = Rows(l)
  BY <1>2, <1>5, <1>6, ListRows
<1>8. ListOK(tk, n)
  <2>1. \A u \in Rows(n) : n[u].up = l[u].up
    BY <1>2, <1>5, <1>7
  <2>2. QED
    BY <1>6, <1>7, <2>1 DEF ListOK
<1>9. ASSUME NEW u \in TaskId \ Missing(tk, un) PROVE n[u] = ListOf(tk, tn)[u]
  <2>1. l[u] = ListOf(tk, tm)[u]
    BY DEF ListRight
  <2>2. /\ ListOf(tk, tm)[u] = IF u \in Reachable(tk) THEN ShownInList(tk, tm, u) ELSE NoRow
        /\ ListOf(tk, tn)[u] = IF u \in Reachable(tk) THEN ShownInList(tk, tn, u) ELSE NoRow
    BY DEF ListOf
  <2>3. CASE u \notin Reachable(tk)
    BY <1>1, <2>1, <2>2, <2>3
  <2>4. CASE u \in Reachable(tk)
    <3>1. u \in Rows(tk) /\ l[u] = ShownInList(tk, tm, u)
      BY <2>1, <2>2, <2>4 DEF Reachable
    <3>2. l[u] # NoRow /\ l[u].up = ShownInList(tk, tn, u).up
      BY <3>1, ShownIs
    <3>3. CASE u \in Above(tk, t)
      <4>1. n[u] = [ShownInList(tk, tn, u) EXCEPT !.up = l[u].up]
        BY <1>1, <3>2, <3>3
      <4>2. [ShownInList(tk, tn, u) EXCEPT !.up = ShownInList(tk, tn, u).up]
              = ShownInList(tk, tn, u)
        BY DEF ShownInList
      <4>3. QED
        BY <2>2, <2>4, <3>2, <4>1, <4>2
    <3>4. CASE u \notin Above(tk, t)
      <4>1. t \notin Below(tk, u)
        BY <3>4 DEF Below
      <4>2. Total(tk, tn, u, Always) = Total(tk, tm, u, Always)
        BY <4>1, OtherTotals
      <4>3. ShownInList(tk, tn, u) = ShownInList(tk, tm, u)
        BY <4>2 DEF ShownInList
      <4>4. QED
        BY <1>1, <2>1, <2>2, <3>4, <4>3
    <3>5. QED
      BY <3>3, <3>4
  <2>5. QED
    BY <2>3, <2>4
<1>10. QED
  BY <1>8, <1>9 DEF ListRight, n

\* The list shows what it showed when the tables show the same.
LEMMA ListSame ==
  ASSUME NEW tk, TasksOK(tk), NEW tm \in TimeTable, Forward(tm),
         NEW tn \in TimeTable, Forward(tn), Running(tn) = Running(tm),
         \A v \in TaskId : DurationTime(tn, v, Always) = DurationTime(tm, v, Always),
         NEW l, NEW un, ListRight(tk, tm, l, un)
  PROVE  ListRight(tk, tn, l, un)
<1>1. \A u : Total(tk, tn, u, Always) = Total(tk, tm, u, Always)
  BY SameTotals
<1>2. \A u : ShownInList(tk, tn, u) = ShownInList(tk, tm, u)
  BY <1>1 DEF ShownInList
<1>3. ListOf(tk, tn) = ListOf(tk, tm)
  BY <1>2 DEF ListOf
<1>4. QED
  BY <1>3 DEF ListRight

\* The row of t was removed or brought back.
Marked(tk, tl, t) ==
  /\ t \in Rows(tk) /\ Parents(tl) = Parents(tk)
  /\ \A u \in Rows(tk) \ {t} : tl[u].deleted = tk[u].deleted

\* A task is shown as before: neither its parent nor its total has changed.
LEMMA ShownSame ==
  ASSUME NEW tk, TasksOK(tk), NEW tl, TasksOK(tl), NEW t, Marked(tk, tl, t),
         NEW tm \in TimeTable, Forward(tm), NEW u \in Rows(tk)
  PROVE  ShownInList(tl, tm, u) = ShownInList(tk, tm, u)
<1>1. Parents(tl)[u] = Parents(tk)[u] /\ Rows(tl) = Rows(tk)
  BY SameTree DEF Marked
<1>2. tl[u].parent = tk[u].parent
  BY <1>1, RowsOfTasks
<1>3. Total(tl, tm, u, Always) = Total(tk, tm, u, Always)
  BY SameTreeTotals DEF Marked
<1>4. QED
  BY <1>2, <1>3 DEF ShownInList

\* A task that comes back may be missing with all that is below it.
LEMMA ListBack ==
  ASSUME NEW tk, TasksOK(tk), NEW tl, TasksOK(tl), NEW t, Marked(tk, tl, t),
         NEW tm \in TimeTable, Forward(tm), NEW l, NEW un, ListRight(tk, tm, l, un)
  PROVE  ListRight(tl, tm, l, un \cup {t})
<1>1. /\ Rows(tl) = Rows(tk)
      /\ \A u : Above(tl, u) = Above(tk, u) /\ Below(tl, u) = Below(tk, u)
      /\ \A u \in Rows(tk) : EndlessAbove(tl, u) = EndlessAbove(tk, u)
  BY SameTree DEF Marked
<1>2. Missing(tl, un \cup {t}) = Missing(tk, un) \cup Below(tk, t)
  BY <1>1 DEF Missing
<1>3. ASSUME NEW u \in TaskId \ Missing(tl, un \cup {t}) PROVE l[u] = ListOf(tl, tm)[u]
  <2>1. l[u] = ListOf(tk, tm)[u] /\ u \notin Below(tk, t)
    BY <1>2 DEF ListRight
  <2>2. /\ ListOf(tk, tm)[u] = IF u \in Reachable(tk) THEN ShownInList(tk, tm, u) ELSE NoRow
        /\ ListOf(tl, tm)[u] = IF u \in Reachable(tl) THEN ShownInList(tl, tm, u) ELSE NoRow
    BY DEF ListOf
  <2>3. CASE u \notin Rows(tk)
    BY <1>1, <2>1, <2>2, <2>3 DEF Reachable
  <2>4. CASE u \in Rows(tk)
    <3>1. t \notin Above(tk, u)
      BY <2>1, <2>4 DEF Below
    <3>2. \A v \in Above(tk, u) : tl[v].deleted = tk[v].deleted
      BY <2>4, <3>1, AboveOf DEF Marked
    <3>3. u \in Reachable(tl) <=> u \in Reachable(tk)
      BY <1>1, <2>4, <3>2 DEF Reachable
    <3>4. QED
      BY <2>1, <2>2, <2>4, <3>3, ShownSame
  <2>5. QED
    BY <2>3, <2>4
<1>4. QED
  BY <1>3 DEF ListRight

\* The rows below a row go with it.
LEMMA ListErasedOK ==
  ASSUME NEW tk, TasksOK(tk), NEW l, ListOK(tk, l), NEW t \in TaskId
  PROVE  ListOK(tk, ListErased(l, t))
<1> DEFINE n == ListErased(l, t)
           up == [u \in Rows(l) |-> l[u].up]
           gone == Hanging(up, t)
<1>1. /\ l \in [TaskId -> ListRow \cup {NoRow}]
      /\ \A u \in Rows(l) : u \in TaskId /\ u \in Rows(tk) /\ l[u] \in ListRow
      /\ \A u \in TaskId : u \in Rows(l) <=> l[u] # NoRow
  BY ListRows DEF ListOK
<1>2. CASE l[t] = NoRow
  BY <1>2 DEF ListErased
<1>3. CASE l[t] # NoRow
  <2>1. /\ n = [u \in TaskId |-> n[u]]
        /\ \A u \in TaskId : n[u] = IF u \in gone THEN NoRow ELSE l[u]
    BY <1>3 DEF ListErased
  <2>2. Tree(up) /\ DOMAIN up = Rows(l) /\ \A u \in Rows(l) : up[u] = l[u].up
    BY <1>1 DEF Tree, ListOK
  <2>3. \A u \in Rows(l) : u \in gone <=> t \in Chain(up, u)
    BY <2>2 DEF Hanging
  <2> HIDE DEF n, up, gone
  <2>4. \A u \in TaskId : n[u] \in ListRow \cup {NoRow}
    BY <1>1, <2>1
  <2>5. n \in [TaskId -> ListRow \cup {NoRow}]
    BY <2>1, <2>4
  <2>6. Rows(n) = Rows(l) \ gone
    BY <1>1, <2>1, <2>5, ListRows
  <2>7. ASSUME NEW u \in Rows(n), n[u].up # Top PROVE n[u].up \in Rows(n)
    <3>1. u \in Rows(l) /\ u \notin gone /\ n[u] = l[u]
      BY <1>1, <2>1, <2>6
    <3>2. up[u] # Top /\ n[u].up = up[u] /\ IsFiniteSet(TaskId)
      BY <2>2, <2>7, <3>1, ViewsAssumption
    <3>3. up[u] \in DOMAIN up /\ Chain(up, u) = {u} \cup Chain(up, up[u])
      BY <2>2, <3>1, <3>2, ChainStep
    <3>4. up[u] \notin gone
      BY <2>2, <2>3, <3>1, <3>3
    <3>5. QED
      BY <2>2, <2>6, <3>2, <3>3, <3>4
  <2>8. Rows(n) \subseteq Rows(tk)
    BY <1>1, <2>6
  <2>9. ListOK(tk, n)
    BY <2>5, <2>7, <2>8 DEF ListOK
  <2>10. QED
    BY <2>9 DEF n
<1>4. QED
  BY <1>2, <1>3

\* on_task_removed leaves the tasks that can still be reached: where the list is
\* right, the rows that go are those of the tasks below the removed one.
LEMMA ListErasedRight ==
  ASSUME NEW tk, TasksOK(tk), NEW tl, TasksOK(tl), NEW t, Marked(tk, tl, t),
         ~ tk[t].deleted, tl[t].deleted,
         NEW tm \in TimeTable, Forward(tm), NEW l, ListOK(tk, l),
         NEW un, un \subseteq TaskId, ListRight(tk, tm, l, un)
  PROVE  ListRight(tl, tm, ListErased(l, t), un)
<1> DEFINE n == ListErased(l, t)
           up == [u \in Rows(l) |-> l[u].up]
           gone == Hanging(up, t)
<1>1. /\ Rows(tl) = Rows(tk)
      /\ \A u : Above(tl, u) = Above(tk, u) /\ Below(tl, u) = Below(tk, u)
      /\ \A u \in Rows(tk) : EndlessAbove(tl, u) = EndlessAbove(tk, u)
  BY SameTree DEF Marked
<1>2. Missing(tl, un) = Missing(tk, un)
  BY <1>1 DEF Missing
<1>3. /\ l \in [TaskId -> ListRow \cup {NoRow}]
      /\ \A u \in Rows(l) : u \in TaskId /\ u \in Rows(tk) /\ l[u] \in ListRow
      /\ \A u \in TaskId : u \in Rows(l) <=> l[u] # NoRow
  BY ListRows DEF ListOK
<1>4. t \in TaskId /\ t \in Rows(tk) /\ Rows(tk) \subseteq TaskId
  BY RowsOfTasks DEF Marked
<1>5. /\ l[t] = NoRow => n = l
      /\ l[t] # NoRow => \A u \in TaskId : n[u] = IF u \in gone THEN NoRow ELSE l[u]
  BY DEF ListErased
<1>6. Tree(up) /\ DOMAIN up = Rows(l) /\ \A u \in Rows(l) : up[u] = l[u].up
  BY <1>3 DEF Tree, ListOK
<1>7. gone = {u \in Rows(l) : t \in Chain(up, u)}
  BY DEF Hanging
<1> HIDE DEF n, up, gone
<1>8. ASSUME NEW u \in TaskId \ Missing(tl, un) PROVE n[u] = ListOf(tl, tm)[u]
  <2>1. l[u] = ListOf(tk, tm)[u]
    BY <1>2 DEF ListRight
  <2>2. /\ ListOf(tk, tm)[u] = IF u \in Reachable(tk) THEN ShownInList(tk, tm, u) ELSE NoRow
        /\ ListOf(tl, tm)[u] = IF u \in Reachable(tl) THEN ShownInList(tl, tm, u) ELSE NoRow
    BY DEF ListOf
  <2>3. CASE u \notin Reachable(tk)
    <3>1. u \notin Reachable(tl)
      <4>1. ASSUME u \in Reachable(tl) PROVE FALSE
        <5>1. u \in Rows(tk) /\ ~ EndlessAbove(tk, u)
          BY <1>1, <4>1 DEF Reachable
        <5>2. \A v \in Above(tk, u) : ~ tl[v].deleted
          BY <1>1, <4>1 DEF Reachable
        <5>3. \A v \in Above(tk, u) : v \in Rows(tk) /\ v # t
          BY <5>1, <5>2, AboveOf
        <5>4. \A v \in Above(tk, u) : ~ tk[v].deleted
          BY <5>2, <5>3 DEF Marked
        <5>5. QED
          BY <2>3, <5>1, <5>4 DEF Reachable
      <4>2. QED
        BY <4>1
    <3>2. l[u] = NoRow
      BY <2>1, <2>2, <2>3
    <3>3. n[u] = NoRow
      BY <1>3, <1>5, <3>2
    <3>4. QED
      BY <2>2, <3>1, <3>3
  <2>4. CASE u \in Reachable(tk)
    <3>1. u \in Rows(tk) /\ u \in Above(tk, u) /\ Above(tk, u) \subseteq Reachable(tk)
          /\ Above(tk, u) \subseteq Rows(tk)
      BY <2>4, AboveOf, ReachableOf
    <3>2. ASSUME NEW v \in Above(tk, u) PROVE v \notin Missing(tk, un)
      <4>1. ASSUME NEW x \in un, v \in Below(tk, x) PROVE u \in Below(tk, x)
        <5>1. x \in Above(tk, v)
          BY <4>1 DEF Below
        <5>2. x \in Above(tk, u)
          BY <3>1, <5>1, AboveOf
        <5>3. QED
          BY <3>1, <5>2 DEF Below
      <4>2. QED
        BY <1>2, <4>1 DEF Missing
    <3>3. \A v \in Above(tk, u) : l[v] = ShownInList(tk, tm, v)
      BY <1>4, <3>1, <3>2 DEF ListRight, ListOf
    <3>4. \A v \in Above(tk, u) : v \in Rows(l) /\ l[v].up = tk[v].parent
      BY <1>3, <1>4, <3>1, <3>3, ShownIs
    <3>5. \A v \in Above(tk, u) : v \in DOMAIN up /\ up[v] = Parents(tk)[v]
      BY <1>6, <3>1, <3>4, RowsOfTasks
    <3>6. Chain(up, u) = Above(tk, u)
      <4>1. Tree(Parents(tk)) /\ u \in DOMAIN Parents(tk) /\ IsFiniteSet(TaskId)
        BY <3>1, RowsOfTasks, ViewsAssumption
      <4>2. \A v \in Chain(Parents(tk), u) : v \in DOMAIN up /\ up[v] = Parents(tk)[v]
        BY <3>5 DEF Above
      <4>3. Chain(up, u) = Chain(Parents(tk), u)
        BY <1>6, <4>1, <4>2, ChainSame
      <4>4. QED
        BY <4>3 DEF Above
    <3>7. CASE t \in Above(tk, u)
      <4>1. u \notin Reachable(tl)
        BY <1>1, <3>7 DEF Reachable
      <4>2. l[t] # NoRow /\ u \in gone
        BY <1>3, <1>4, <1>7, <3>1, <3>4, <3>6, <3>7
      <4>3. QED
        BY <1>5, <2>2, <4>1, <4>2
    <3>8. CASE t \notin Above(tk, u)
      <4>1. \A v \in Above(tk, u) : ~ tl[v].deleted
        BY <2>4, <3>1, <3>8 DEF Marked, Reachable
      <4>2. u \in Reachable(tl)
        BY <1>1, <2>4, <3>1, <4>1 DEF Reachable
      <4>3. u \notin gone
        BY <1>7, <3>6, <3>8
      <4>4. n[u] = l[u]
        BY <1>5, <4>3
      <4>5. QED
        BY <2>1, <2>2, <2>4, <3>1, <4>2, <4>4, ShownSame
    <3>9. QED
      BY <3>7, <3>8
  <2>5. QED
    BY <2>3, <2>4
<1>9. QED
  BY <1>8 DEF ListRight, n

-----------------------------------------------------------------------------
(* The summary *)

SummaryOK(s) ==
  /\ s \in Summary
  /\ \A t \in TaskId :
       s.rows[t] # <<>> /\ s.tree[t] # Top
       => s.rows[s.tree[t]] # <<>> /\ t \notin Chain(s.tree, s.tree[t])

Covers(tk, tm, s) ==
  \A t \in ActiveTasks(tk, tm, s.range), u \in TaskId :
    DurationTime(tm, t, s.range) > 0 /\ u \in Above(tk, t) => s.rows[u] # <<>>
Shows(tk, tm, s) ==
  \A t \in TaskId : s.rows[t] # <<>> => Head(s.rows[t]) = Total(tk, tm, t, s.range)
SummaryRight(tk, tm, s) ==
  ~ s.needs /\ ~ s.stirred => Covers(tk, tm, s) /\ Shows(tk, tm, s)

\* The fields of a summary, whose range is a day
LEMMA SummaryFields ==
  ASSUME NEW s \in Summary
  PROVE  /\ s.rows \in [TaskId -> Seq(Nat)] /\ s.tree \in [TaskId -> TaskId \cup {Top}]
         /\ s.range \in Days /\ s.range \in Limits /\ s.range \in Limits \cup {Always}
         /\ Tree(s.tree) /\ DOMAIN s.tree = TaskId
<1>1. /\ s.rows \in [TaskId -> Seq(Nat)] /\ s.tree \in [TaskId -> TaskId \cup {Top}]
      /\ s.range \in Days
  BY DEF Summary
<1>2. s.range \in Limits
  BY <1>1, ViewsAssumption DEF Limits
<1>3. QED
  BY <1>1, <1>2 DEF Tree

\* An empty summary that is marked is well formed.
LEMMA BlankOK ==
  ASSUME NEW s \in Summary
  PROVE  SummaryOK([s EXCEPT !.rows = Blank, !.needs = TRUE])
<1> DEFINE q == [s EXCEPT !.rows = Blank, !.needs = TRUE]
<1>1. Blank \in [TaskId -> Seq(Nat)] /\ \A t \in TaskId : Blank[t] = <<>>
  BY DEF Blank
<1>2. q \in Summary /\ q.rows = Blank
  BY <1>1 DEF Summary
<1> HIDE DEF q
<1>3. SummaryOK(q)
  BY <1>1, <1>2 DEF SummaryOK
<1>4. QED
  BY <1>3 DEF q

\* The tasks populate makes rows for, some of them twice
Shown(tk, tm, s) == UNION {Above(tk, t) : t \in ActiveTasks(tk, tm, s.range)}
RowsFor(tk, tm, s, twice) ==
  [t \in TaskId |->
     IF t \in twice THEN <<Total(tk, tm, t, s.range), Total(tk, tm, t, s.range)>>
     ELSE IF t \in Shown(tk, tm, s) THEN <<Total(tk, tm, t, s.range)>> ELSE <<>>]
TreeFor(tk) == [t \in TaskId |-> IF t \in Rows(tk) THEN tk[t].parent ELSE Top]

IsPopulated(tk, tm, s, twice, q) ==
  /\ q.range = s.range /\ q.visible = s.visible
  /\ q.needs = FALSE /\ q.stirred = FALSE
  /\ q.tree = TreeFor(tk) /\ q.rows = RowsFor(tk, tm, s, twice)
  /\ q = [s EXCEPT !.rows = q.rows, !.tree = q.tree, !.needs = FALSE, !.stirred = FALSE]

\* What populate makes, without the order of the rows
LEMMA PopulatedIs ==
  ASSUME NEW tk, NEW tm, NEW s \in Summary, s.visible, NEW q \in Populated(s, tk, tm)
  PROVE  \E twice \in SUBSET ActiveTasks(tk, tm, s.range) : IsPopulated(tk, tm, s, twice, q)
<1> DEFINE active == ActiveTasks(tk, tm, s.range)
           parents == {t \in active : \E u \in active \ {t} : t \in Above(tk, u)}
<1>1. PICK twice \in SUBSET parents :
        q = [s EXCEPT !.rows = RowsFor(tk, tm, s, twice), !.needs = FALSE,
                      !.stirred = FALSE, !.tree = TreeFor(tk)]
  BY DEF Populated, RowsFor, TreeFor, Shown
<1>2. twice \in SUBSET active
  BY <1>1
<1>3. IsPopulated(tk, tm, s, twice, q)
  BY <1>1 DEF IsPopulated, Summary
<1>4. QED
  BY <1>2, <1>3

\* populate shows what it is meant to show, with a tree that has no cycle where
\* there are rows.
LEMMA PopulatedOK ==
  ASSUME NEW tk, TasksOK(tk), NEW tm \in TimeTable, Forward(tm), NEW s \in Summary,
         PopulateEnds(s, tk, tm), NEW q \in Populated(s, tk, tm)
  PROVE  SummaryOK(q) /\ SummaryRight(tk, tm, q) /\ q.range = s.range
<1> DEFINE active == ActiveTasks(tk, tm, s.range)
           shown == Shown(tk, tm, s)
           Sum1(t) == Total(tk, tm, t, s.range)
<1>1. CASE ~ s.visible
  <2>1. q = [s EXCEPT !.rows = Blank, !.needs = TRUE]
    BY <1>1 DEF Populated
  <2>2. q.needs = TRUE /\ q.range = s.range
    BY <2>1 DEF Summary
  <2>3. QED
    BY <2>1, <2>2, BlankOK DEF SummaryRight
<1>2. CASE s.visible
  <2>p. PICK twice \in SUBSET active : IsPopulated(tk, tm, s, twice, q)
    BY <1>2, PopulatedIs
  <2>1. /\ q.range = s.range /\ q.visible = s.visible
        /\ q.needs = FALSE /\ q.stirred = FALSE
        /\ q.tree = TreeFor(tk) /\ q.rows = RowsFor(tk, tm, s, twice)
        /\ q = [s EXCEPT !.rows = q.rows, !.tree = q.tree, !.needs = FALSE,
                         !.stirred = FALSE]
    BY <2>p, Zenon DEF IsPopulated
  <2>0. /\ q.tree = [t \in TaskId |-> IF t \in Rows(tk) THEN tk[t].parent ELSE Top]
        /\ q.rows = [t \in TaskId |-> IF t \in twice THEN <<Sum1(t), Sum1(t)>>
                                       ELSE IF t \in shown THEN <<Sum1(t)>> ELSE <<>>]
    BY <2>1 DEF TreeFor, RowsFor
  <2>2. s.range \in Limits \cup {Always}
    BY SummaryFields
  <2>3. \A t \in TaskId : Sum1(t) \in Nat
    BY <2>2, TotalType
  <2>4. active \subseteq Rows(tk) /\ \A t \in active : ~ EndlessAbove(tk, t)
    BY <1>2 DEF ActiveTasks, PopulateEnds
  <2>5. /\ active \subseteq shown /\ shown \subseteq Rows(tk)
        /\ \A u \in shown : (tk[u].parent = Top \/ tk[u].parent \in shown)
        /\ \A u \in shown : ~ OnCycle(tk, u)
    BY <2>4, AboveOf DEF EndlessAbove, Shown, active
  <2> HIDE DEF active, shown, Sum1
  <2>6. q.rows \in [TaskId -> Seq(Nat)]
    <3>1. \A t \in TaskId : q.rows[t] \in Seq(Nat)
      BY <2>0, <2>3
    <3>2. q.rows = [t \in TaskId |-> q.rows[t]]
      BY <2>0
    <3>3. QED
      BY <3>1, <3>2
  <2>7. \A t \in TaskId : q.rows[t] # <<>> <=> t \in shown
    BY <2>0, <2>5
  <2>8. \A t \in TaskId : q.rows[t] # <<>> => Head(q.rows[t]) = Sum1(t)
    BY <2>0
  <2>9. \A t \in Rows(tk) : t \in TaskId /\ q.tree[t] = tk[t].parent
    BY <2>0, RowsOfTasks
  <2>10. q.tree \in [TaskId -> TaskId \cup {Top}]
    BY <2>0, RowsOfTasks DEF TasksOK
  <2>11. q \in Summary
    BY <2>1, <2>6, <2>10 DEF Summary
  <2>12. ASSUME NEW t \in TaskId, q.rows[t] # <<>>, q.tree[t] # Top
         PROVE  q.rows[q.tree[t]] # <<>> /\ t \notin Chain(q.tree, q.tree[t])
    <3>1. t \in shown /\ t \in Rows(tk) /\ q.tree[t] = tk[t].parent
      BY <2>5, <2>7, <2>9, <2>12
    <3>2. tk[t].parent \in shown /\ tk[t].parent \in Rows(tk)
      BY <2>5, <2>12, <3>1
    <3>3. Chain(q.tree, tk[t].parent) = Above(tk, tk[t].parent)
      <4>1. /\ Tree(Parents(tk)) /\ IsFiniteSet(TaskId)
            /\ tk[t].parent \in DOMAIN Parents(tk)
        BY <3>2, RowsOfTasks, ViewsAssumption
      <4>2. Tree(q.tree) /\ DOMAIN q.tree = TaskId
        BY <2>10 DEF Tree
      <4>3. \A v \in Rows(tk) : v \in DOMAIN q.tree /\ q.tree[v] = Parents(tk)[v]
        BY <2>9, <4>2, RowsOfTasks
      <4>4. \A v \in Chain(Parents(tk), tk[t].parent) :
              v \in DOMAIN q.tree /\ q.tree[v] = Parents(tk)[v]
        BY <3>2, <4>3, AboveOf DEF Above
      <4>5. Chain(q.tree, tk[t].parent) = Chain(Parents(tk), tk[t].parent)
        BY <4>1, <4>2, <4>4, ChainSame
      <4>6. QED
        BY <4>5 DEF Above
    <3>4. t \notin Above(tk, tk[t].parent)
      BY <2>5, <2>12, <3>1 DEF OnCycle
    <3>5. q.rows[tk[t].parent] # <<>>
      BY <2>7, <2>9, <3>2
    <3>6. QED
      BY <3>1, <3>3, <3>4, <3>5
  <2>13. Covers(tk, tm, q)
    <3>1. ASSUME NEW t \in active, NEW u \in TaskId, u \in Above(tk, t)
          PROVE  q.rows[u] # <<>>
      BY <2>7, <3>1 DEF shown, active, Shown
    <3>2. QED
      BY <2>1, <3>1 DEF Covers, active
  <2>14. Shows(tk, tm, q)
    BY <2>1, <2>8 DEF Shows, Sum1
  <2>15. QED
    BY <2>1, <2>11, <2>12, <2>13, <2>14 DEF SummaryOK, SummaryRight
<1>3. QED
  BY <1>1, <1>2

\* The rows that SummaryUpdated finds are brought up to date.
Refreshed(s, tk, tm, t) ==
  [s EXCEPT !.rows = [u \in TaskId |->
     IF u \in Above(tk, t) THEN <<Total(tk, tm, u, s.range)>> \o Tail(s.rows[u])
     ELSE s.rows[u]]]

\* A sequence with another first element
LEMMA PutFirst ==
  ASSUME NEW x \in Nat, NEW rest \in Seq(Nat)
  PROVE  /\ <<x>> \o rest \in Seq(Nat) /\ <<x>> \o rest # <<>>
         /\ Head(<<x>> \o rest) = x
<1>1. <<x>> \in Seq(Nat) /\ Len(<<x>>) = 1 /\ Len(rest) \in Nat
  OBVIOUS
<1>2. <<x>> \o rest \in Seq(Nat) /\ Len(<<x>> \o rest) = 1 + Len(rest)
  BY <1>1
<1>3. (<<x>> \o rest)[1] = x
  BY <1>1
<1>4. <<x>> \o rest # <<>>
  <2>1. Len(<<x>> \o rest) # 0 /\ Len(<<>>) = 0
    BY <1>1, <1>2
  <2>2. QED
    BY <2>1
<1>5. Head(<<x>> \o rest) = (<<x>> \o rest)[1]
  BY <1>2
<1>6. QED
  BY <1>2, <1>3, <1>4, <1>5

\* Refreshed rows stay rows, and show the total.
LEMMA RefreshedIs ==
  ASSUME NEW s \in Summary, NEW tk, TasksOK(tk), NEW tm \in TimeTable, Forward(tm),
         NEW t \in Rows(tk), \A u \in Above(tk, t) : s.rows[u] # <<>>
  PROVE  LET q == Refreshed(s, tk, tm, t)
         IN  /\ q \in Summary /\ q.tree = s.tree /\ q.range = s.range
             /\ q.needs = s.needs /\ q.stirred = s.stirred
             /\ \A u \in TaskId : q.rows[u] # <<>> <=> s.rows[u] # <<>>
             /\ \A u \in Above(tk, t) : Head(q.rows[u]) = Total(tk, tm, u, s.range)
             /\ \A u \in TaskId \ Above(tk, t) : q.rows[u] = s.rows[u]
<1> DEFINE R == [u \in TaskId |->
                   IF u \in Above(tk, t) THEN <<Total(tk, tm, u, s.range)>> \o Tail(s.rows[u])
                   ELSE s.rows[u]]
           q == Refreshed(s, tk, tm, t)
<1>1. /\ s.rows \in [TaskId -> Seq(Nat)] /\ s.range \in Limits \cup {Always}
      /\ Above(tk, t) \subseteq TaskId
  BY SummaryFields, AboveOf, RowsOfTasks
<1>2. /\ \A u \in Above(tk, t) : R[u] = <<Total(tk, tm, u, s.range)>> \o Tail(s.rows[u])
      /\ \A u \in TaskId \ Above(tk, t) : R[u] = s.rows[u]
      /\ R = [u \in TaskId |-> R[u]]
  BY <1>1
<1>3. q = [s EXCEPT !.rows = R]
  BY DEF Refreshed
<1> HIDE DEF R, q
<1>4. /\ q.rows = R /\ q.tree = s.tree /\ q.range = s.range
      /\ q.needs = s.needs /\ q.stirred = s.stirred
  BY <1>3 DEF Summary
<1>5. ASSUME NEW u \in Above(tk, t)
      PROVE  /\ R[u] \in Seq(Nat) /\ R[u] # <<>> /\ s.rows[u] # <<>>
             /\ Head(R[u]) = Total(tk, tm, u, s.range)
  <2>1. s.rows[u] \in Seq(Nat) /\ s.rows[u] # <<>>
    BY <1>1
  <2>2. Tail(s.rows[u]) \in Seq(Nat)
    BY <2>1
  <2>3. Total(tk, tm, u, s.range) \in Nat
    BY <1>1, TotalType
  <2>4. R[u] = <<Total(tk, tm, u, s.range)>> \o Tail(s.rows[u])
    BY <1>2
  <2>5. QED
    BY <2>1, <2>2, <2>3, <2>4, PutFirst
<1>6. \A u \in TaskId : R[u] \in Seq(Nat)
  BY <1>1, <1>2, <1>5
<1>7. R \in [TaskId -> Seq(Nat)]
  BY <1>2, <1>6
<1>8. q \in Summary
  BY <1>3, <1>7 DEF Summary
<1>9. QED
  BY <1>2, <1>4, <1>5, <1>8 DEF q

\* on_task_updated leaves a summary that was populated, marked or refreshed.
LEMMA UpdatedIs ==
  ASSUME NEW s, NEW tk, NEW tm, NEW t, NEW q \in SummaryUpdated(s, tk, tm, t)
  PROVE  \/ ~ s.visible /\ q = [s EXCEPT !.needs = TRUE]
         \/ Lacks(s, tk, t) /\ q \in Populated(s, tk, tm)
         \/ s.visible /\ ~ Lacks(s, tk, t) /\ q = Refreshed(s, tk, tm, t)
  BY DEF SummaryUpdated, Refreshed

\* on_task_updated keeps the summary well formed,
LEMMA UpdatedOK ==
  ASSUME NEW s, SummaryOK(s), NEW tk, TasksOK(tk), NEW tm \in TimeTable, Forward(tm),
         NEW t \in Rows(tk), Lacks(s, tk, t) => PopulateEnds(s, tk, tm),
         NEW q \in SummaryUpdated(s, tk, tm, t)
  PROVE  SummaryOK(q)
<1>1. s \in Summary
  BY DEF SummaryOK
<1>2. CASE ~ s.visible /\ q = [s EXCEPT !.needs = TRUE]
  BY <1>1, <1>2 DEF SummaryOK, Summary
<1>3. CASE Lacks(s, tk, t) /\ q \in Populated(s, tk, tm)
  BY <1>1, <1>3, PopulatedOK
<1>4. CASE s.visible /\ ~ Lacks(s, tk, t) /\ q = Refreshed(s, tk, tm, t)
  <2>1. \A u \in Above(tk, t) : s.rows[u] # <<>>
    BY <1>4 DEF Lacks
  <2>2. /\ q \in Summary /\ q.tree = s.tree
        /\ \A u \in TaskId : q.rows[u] # <<>> <=> s.rows[u] # <<>>
    BY <1>1, <1>4, <2>1, RefreshedIs
  <2>3. \A u \in TaskId : s.tree[u] # Top => s.tree[u] \in TaskId
    BY <1>1, SummaryFields
  <2>4. QED
    BY <2>2, <2>3 DEF SummaryOK
<1>5. QED
  BY <1>2, <1>3, <1>4, UpdatedIs

\* What has time in a range is active in it.
LEMMA TimeIsActive ==
  ASSUME NEW tk, NEW tm \in TimeTable, Forward(tm), NEW t \in Rows(tk), ~ tk[t].deleted,
         NEW r \in Limits, DurationTime(tm, t, r) > 0
  PROVE  t \in ActiveTasks(tk, tm, r)
<1>1. r # Always /\ r.from \in Nat /\ r.to \in Nat
  BY DEF Limits, Always
<1>2. DurationTime(tm, t, r) # 0
  OBVIOUS
<1>3. PICK e \in EntryId : Shares(tm, t, r)[e] # 0
  BY <1>2, DurationZero, ViewsAssumption
<1>4. e \in Counts(tm, t) /\ Share(tm[e], r) # 0
  BY <1>3 DEF Shares
<1>5. /\ e \in Rows(tm) /\ tm[e].owner = t /\ tm[e].start \in Nat /\ tm[e].stop \in Nat
      /\ tm[e].start <= tm[e].stop
  BY <1>4 DEF Counts, Rows, TimeTable, TimeRow, Forward
<1>6. \/ r.from <= tm[e].start /\ tm[e].start <= r.to
      \/ r.from <= tm[e].stop /\ tm[e].stop <= r.to
  BY <1>1, <1>4, <1>5 DEF Share, Within, PassesEnd, PassesStart
<1>7. QED
  BY <1>5, <1>6 DEF ActiveTasks

\* and right after a write to the times of t.
LEMMA UpdatedRight ==
  ASSUME NEW s, SummaryOK(s), NEW tk, TasksOK(tk),
         NEW tm \in TimeTable, Forward(tm), NEW tn \in TimeTable, Forward(tn),
         NEW t \in Rows(tk), OnlyTimesOf(tm, tn, t), SummaryRight(tk, tm, s),
         Lacks(s, tk, t) => PopulateEnds(s, tk, tn),
         NEW q \in SummaryUpdated(s, tk, tn, t)
  PROVE  SummaryRight(tk, tn, q)
<1>1. s \in Summary /\ s.range \in Limits /\ s.range \in Limits \cup {Always}
  BY SummaryFields DEF SummaryOK
<1>2. CASE ~ s.visible /\ q = [s EXCEPT !.needs = TRUE]
  <2>1. q.needs = TRUE
    BY <1>1, <1>2 DEF Summary
  <2>2. QED
    BY <2>1 DEF SummaryRight
<1>3. CASE Lacks(s, tk, t) /\ q \in Populated(s, tk, tn)
  BY <1>1, <1>3, PopulatedOK
<1>4. CASE s.visible /\ ~ Lacks(s, tk, t) /\ q = Refreshed(s, tk, tn, t)
  <2>1. \A u \in Above(tk, t) : s.rows[u] # <<>>
    BY <1>4 DEF Lacks
  <2>2. /\ q.range = s.range /\ q.needs = s.needs /\ q.stirred = s.stirred
        /\ \A u \in TaskId : q.rows[u] # <<>> <=> s.rows[u] # <<>>
        /\ \A u \in Above(tk, t) : Head(q.rows[u]) = Total(tk, tn, u, s.range)
        /\ \A u \in TaskId \ Above(tk, t) : q.rows[u] = s.rows[u]
    BY <1>1, <1>4, <2>1, RefreshedIs
  <2>3. CASE s.needs \/ s.stirred
    BY <2>2, <2>3 DEF SummaryRight
  <2>4. CASE ~ s.needs /\ ~ s.stirred
    <3>1. Covers(tk, tm, s) /\ Shows(tk, tm, s)
      BY <2>4 DEF SummaryRight
    <3>2. ASSUME NEW v \in ActiveTasks(tk, tn, q.range), NEW u \in TaskId,
                 DurationTime(tn, v, q.range) > 0, u \in Above(tk, v)
          PROVE  q.rows[u] # <<>>
      <4>1. CASE v = t
        BY <2>1, <2>2, <3>2, <4>1
      <4>2. CASE v # t
        <5>1. DurationTime(tm, v, s.range) > 0
          BY <1>1, <2>2, <3>2, <4>2, OtherDurations
        <5>2. v \in Rows(tk) /\ ~ tk[v].deleted
          BY DEF ActiveTasks
        <5>3. v \in ActiveTasks(tk, tm, s.range)
          BY <1>1, <5>1, <5>2, TimeIsActive
        <5>4. s.rows[u] # <<>>
          BY <3>1, <3>2, <5>1, <5>3 DEF Covers
        <5>5. QED
          BY <2>2, <5>4
      <4>3. QED
        BY <4>1, <4>2
    <3>3. ASSUME NEW u \in TaskId, q.rows[u] # <<>>
          PROVE  Head(q.rows[u]) = Total(tk, tn, u, q.range)
      <4>1. CASE u \in Above(tk, t)
        BY <2>2, <4>1
      <4>2. CASE u \notin Above(tk, t)
        <5>1. t \notin Below(tk, u)
          BY <4>2 DEF Below
        <5>2. Total(tk, tn, u, s.range) = Total(tk, tm, u, s.range)
          BY <1>1, <5>1, OtherTotals
        <5>3. q.rows[u] = s.rows[u]
          BY <2>2, <4>2
        <5>4. QED
          BY <2>2, <3>1, <3>3, <5>2, <5>3 DEF Shows
      <4>3. QED
        BY <4>1, <4>2
    <3>4. QED
      BY <3>2, <3>3 DEF SummaryRight, Covers, Shows
  <2>5. QED
    BY <2>3, <2>4
<1>5. QED
  BY <1>2, <1>3, <1>4, UpdatedIs

\* A summary is right for tables that report the same.
LEMMA SummarySame ==
  ASSUME NEW s, SummaryOK(s), NEW tk, TasksOK(tk), NEW tm \in TimeTable, Forward(tm),
         NEW tn \in TimeTable, Forward(tn), SummaryRight(tk, tm, s),
         \A v \in TaskId, r \in Limits \cup {Always} :
           DurationTime(tn, v, r) = DurationTime(tm, v, r)
  PROVE  SummaryRight(tk, tn, s)
<1>1. s \in Summary /\ s.range \in Limits /\ s.range \in Limits \cup {Always}
  BY SummaryFields DEF SummaryOK
<1>2. CASE s.needs \/ s.stirred
  BY <1>2 DEF SummaryRight
<1>3. CASE ~ s.needs /\ ~ s.stirred
  <2>1. Covers(tk, tm, s) /\ Shows(tk, tm, s)
    BY <1>3 DEF SummaryRight
  <2>2. ASSUME NEW v \in ActiveTasks(tk, tn, s.range), NEW u \in TaskId,
               DurationTime(tn, v, s.range) > 0, u \in Above(tk, v)
        PROVE  s.rows[u] # <<>>
    <3>1. v \in Rows(tk) /\ v \in TaskId /\ ~ tk[v].deleted
      BY RowsOfTasks DEF ActiveTasks
    <3>2. DurationTime(tm, v, s.range) > 0
      BY <1>1, <2>2, <3>1
    <3>3. v \in ActiveTasks(tk, tm, s.range)
      BY <1>1, <3>1, <3>2, TimeIsActive
    <3>4. QED
      BY <2>1, <2>2, <3>2, <3>3 DEF Covers
  <2>3. \A u \in TaskId : Total(tk, tn, u, s.range) = Total(tk, tm, u, s.range)
    BY <1>1, SameTotals
  <2>4. QED
    BY <2>1, <2>2, <2>3 DEF SummaryRight, Covers, Shows
<1>4. QED
  BY <1>2, <1>3

\* The rows below the first row of t go with it.
LEMMA ErasedOK ==
  ASSUME NEW s, SummaryOK(s), NEW t \in TaskId
  PROVE  SummaryOK(SummaryErased(s, t))
<1> DEFINE q == SummaryErased(s, t)
           gone == Hanging(s.tree, t)
           R == [u \in TaskId |-> IF u = t THEN Tail(s.rows[t])
                                  ELSE IF u \in gone THEN <<>> ELSE s.rows[u]]
<1>1. CASE s.rows[t] = <<>>
  BY <1>1 DEF SummaryErased
<1>2. CASE s.rows[t] # <<>>
  <2>1. q = [s EXCEPT !.rows = R]
    BY <1>2 DEF SummaryErased
  <2>2. /\ s \in Summary /\ s.rows \in [TaskId -> Seq(Nat)]
        /\ s.tree \in [TaskId -> TaskId \cup {Top}] /\ Tree(s.tree) /\ DOMAIN s.tree = TaskId
    BY SummaryFields DEF SummaryOK
  <2>3. gone = {u \in TaskId : t \in Chain(s.tree, u)}
    BY <2>2 DEF Hanging
  <2>4. /\ \A u \in TaskId : R[u] = IF u = t THEN Tail(s.rows[t])
                                    ELSE IF u \in gone THEN <<>> ELSE s.rows[u]
        /\ R = [u \in TaskId |-> R[u]]
    OBVIOUS
  <2> HIDE DEF q, gone, R
  <2>5. Tail(s.rows[t]) \in Seq(Nat)
    BY <1>2, <2>2
  <2>6. ASSUME NEW u \in TaskId PROVE R[u] \in Seq(Nat)
    <3>1. s.rows[u] \in Seq(Nat) /\ <<>> \in Seq(Nat)
      BY <2>2
    <3>2. QED
      BY <2>4, <2>5, <3>1
  <2>7. R \in [TaskId -> Seq(Nat)]
    BY <2>4, <2>6
  <2>8. q \in Summary /\ q.rows = R /\ q.tree = s.tree
    BY <2>1, <2>2, <2>7 DEF Summary
  <2>9. ASSUME NEW u \in TaskId, R[u] # <<>>, s.tree[u] # Top
        PROVE  R[s.tree[u]] # <<>> /\ u \notin Chain(s.tree, s.tree[u])
    <3>1. s.tree[u] \in TaskId
      BY <2>2, <2>9
    <3>2. s.rows[u] # <<>>
      BY <1>2, <2>4, <2>9
    <3>3. s.rows[s.tree[u]] # <<>> /\ u \notin Chain(s.tree, s.tree[u])
      BY <2>9, <3>2 DEF SummaryOK
    <3>4. Chain(s.tree, u) = {u} \cup Chain(s.tree, s.tree[u])
      BY <2>2, <2>9, ChainStep, ViewsAssumption
    <3>5. s.tree[u] \in Chain(s.tree, s.tree[u])
      BY <2>2, <3>1, ChainOf, ViewsAssumption
    <3>6. s.tree[u] # t /\ s.tree[u] \notin gone
      <4>1. CASE u = t
        BY <2>3, <3>3, <3>5, <4>1
      <4>2. CASE u # t
        <5>1. u \notin gone
          BY <2>4, <2>9, <4>2
        <5>2. t \notin Chain(s.tree, u)
          BY <2>3, <5>1
        <5>3. QED
          BY <2>3, <3>4, <3>5, <5>2
      <4>3. QED
        BY <4>1, <4>2
    <3>7. R[s.tree[u]] = s.rows[s.tree[u]]
      BY <2>4, <3>1, <3>6
    <3>8. QED
      BY <3>3, <3>7
  <2>10. SummaryOK(q)
    BY <2>8, <2>9 DEF SummaryOK
  <2>11. QED
    BY <2>10 DEF q
<1>3. QED
  BY <1>1, <1>2

-----------------------------------------------------------------------------
(* What every handler keeps *)

State(tk, tm, al, l, un, s) ==
  /\ TasksOK(tk) /\ TimesOK(tk, tm) /\ ListOK(tk, l) /\ SummaryOK(s)
  /\ al \in BOOLEAN /\ un \subseteq TaskId
  /\ al => ListRight(tk, tm, l, un) /\ SummaryRight(tk, tm, s)

Kept == State(tasks, times, alive, list, unlisted, summary)

\* A program that is gone shows nothing.
LEMMA NothingKeeps ==
  ASSUME TasksOK(tasks'), TimesOK(tasks', times'), SummaryOK(summary), Nothing
  PROVE  Kept'
<1>1. alive' = FALSE /\ unlisted' = {} /\ list' = [t \in TaskId |-> NoRow]
  BY DEF Nothing
<1>2. Rows(list') = {}
  BY <1>1 DEF Rows
<1>3. list' \in [TaskId -> ListRow \cup {NoRow}]
  BY <1>1
<1>4. ListOK(tasks', list')
  BY <1>2, <1>3 DEF ListOK
<1>5. SummaryOK(summary')
  <2> DEFINE T == [t \in TaskId |-> Top]
  <2>1. summary' = [summary EXCEPT !.rows = Blank, !.needs = FALSE, !.stirred = FALSE,
                                   !.tree = T]
    BY DEF Nothing
  <2>2. Blank \in [TaskId -> Seq(Nat)] /\ \A t \in TaskId : Blank[t] = <<>>
    BY DEF Blank
  <2>3. T \in [TaskId -> TaskId \cup {Top}]
    OBVIOUS
  <2> HIDE DEF T
  <2>4. summary' \in Summary /\ summary'.rows = Blank
    BY <2>1, <2>2, <2>3 DEF SummaryOK, Summary
  <2>5. QED
    BY <2>2, <2>4 DEF SummaryOK
<1>6. QED
  BY <1>1, <1>4, <1>5 DEF Kept, State

\* The handlers of a time that was written
LEMMA TimeWrittenKeeps ==
  ASSUME Kept, alive, NEW tm, TimesOK(tasks, tm), NEW t \in Rows(tasks),
         OnlyTimesOf(times, tm, t), TimeWritten(tm, t)
  PROVE  Kept' /\ tasks' = tasks
<1>1. /\ TasksOK(tasks) /\ times \in TimeTable /\ Forward(times)
      /\ tm \in TimeTable /\ Forward(tm)
      /\ ListOK(tasks, list) /\ SummaryOK(summary) /\ alive \in BOOLEAN
      /\ unlisted \subseteq TaskId
      /\ ListRight(tasks, times, list, unlisted) /\ SummaryRight(tasks, times, summary)
  BY DEF Kept, State, TimesOK
<1>2. times' = tm /\ tasks' = tasks
  BY DEF TimeWritten
<1>3. CASE Survives(tasks, tm, t)
  <2>1. summary' \in SummaryUpdated(summary, tasks, tm, t) /\ alive' = alive
    BY <1>3 DEF TimeWritten
  <2>2. Lacks(summary, tasks, t) => PopulateEnds(summary, tasks, tm)
    BY <1>3 DEF Survives
  <2>3. SummaryOK(summary')
    BY <1>1, <2>1, <2>2, UpdatedOK
  <2>4. SummaryRight(tasks, tm, summary')
    BY <1>1, <2>1, <2>2, UpdatedRight
  <2>5. ListOK(tasks, list') /\ ListRight(tasks, tm, list', unlisted') /\ unlisted' \subseteq TaskId
    <3>1. CASE Running(tm) = Running(times)
      <4>1. list' = ListUpdated(list, tasks, tm, t) /\ unlisted' = unlisted
        BY <1>3, <3>1 DEF TimeWritten
      <4>2. QED
        BY <1>1, <3>1, <4>1, ListUpdatedOK
    <3>2. CASE Running(tm) # Running(times)
      <4>1. list' = ListOf(tasks, tm) /\ unlisted' = {}
        BY <1>3, <3>2 DEF TimeWritten
      <4>2. QED
        BY <1>1, <4>1, ListOfOK
    <3>3. QED
      BY <3>1, <3>2
  <2>6. QED
    BY <1>1, <1>2, <2>1, <2>3, <2>4, <2>5 DEF Kept, State
<1>4. CASE ~ Survives(tasks, tm, t)
  <2>1. Nothing
    BY <1>4 DEF TimeWritten
  <2>2. QED
    BY <1>1, <1>2, <2>1, NothingKeeps
<1>5. QED
  BY <1>3, <1>4

\* The table with one row written
LEMMA RowWritten ==
  ASSUME TimesOK(tasks, times), NEW e \in EntryId, NEW row \in TimeRow,
         row.start <= row.stop, row.owner \in Rows(tasks),
         times[e] = NoRow \/ times[e].owner = row.owner
  PROVE  /\ TimesOK(tasks, [times EXCEPT ![e] = row])
         /\ OnlyTimesOf(times, [times EXCEPT ![e] = row], row.owner)
<1> DEFINE tm == [times EXCEPT ![e] = row]
<1>1. times \in [EntryId -> TimeRow \cup {NoRow}]
  BY DEF TimesOK, TimeTable
<1>2. /\ tm \in [EntryId -> TimeRow \cup {NoRow}] /\ tm[e] = row
      /\ \A f \in EntryId \ {e} : tm[f] = times[f]
  BY <1>1
<1> HIDE DEF tm
<1>3. \A f \in Rows(tm) : f \in EntryId /\ (f = e \/ (tm[f] = times[f] /\ f \in Rows(times)))
  BY <1>1, <1>2 DEF Rows
<1>4. \A f \in Rows(tm) : tm[f].start <= tm[f].stop /\ tm[f].owner \in Rows(tasks)
  BY <1>2, <1>3 DEF TimesOK, Forward
<1>5. TimesOK(tasks, tm)
  BY <1>2, <1>4 DEF TimesOK, TimeTable, Forward
<1>6. OnlyTimesOf(times, tm, row.owner)
  BY <1>2 DEF OnlyTimesOf, Mine
<1>7. QED
  BY <1>5, <1>6 DEF tm

\* time_accessor::create
LEMMA CreateTimeKeeps ==
  ASSUME Kept, NEW e \in EntryId, NEW row \in TimeRow, row.start <= row.stop,
         CreateTime(e, row)
  PROVE  Kept' /\ tasks' = tasks
<1> DEFINE tm == [times EXCEPT ![e] = row]
<1>1. /\ TasksOK(tasks) /\ times \in TimeTable /\ Forward(times) /\ TimesOK(tasks, times)
      /\ ListOK(tasks, list) /\ SummaryOK(summary) /\ alive \in BOOLEAN
      /\ unlisted \subseteq TaskId
  BY DEF Kept, State, TimesOK
<1>2. /\ alive /\ times[e] = NoRow /\ row.owner \in Rows(tasks)
      /\ ListRight(tasks, times, list, unlisted) /\ SummaryRight(tasks, times, summary)
  BY <1>1 DEF CreateTime, Write, Kept, State, Rows, TimeTable
<1>3. TimesOK(tasks, tm) /\ OnlyTimesOf(times, tm, row.owner)
  BY <1>1, <1>2, RowWritten
<1>4. CASE row.start # row.stop
  <2>1. TimeWritten(tm, row.owner)
    BY <1>4 DEF CreateTime
  <2> HIDE DEF tm
  <2>2. QED
    BY <1>2, <1>3, <2>1, TimeWrittenKeeps
<1>5. CASE row.start = row.stop
  <2>1. /\ times' = tm /\ tasks' = tasks /\ alive' = alive /\ summary' = summary
        /\ IF Running(tm) = Running(times) THEN list' = list /\ unlisted' = unlisted
           ELSE list' = ListOf(tasks, tm) /\ unlisted' = {}
    BY <1>5 DEF CreateTime
  <2>2. tm[e] = row /\ \A f \in EntryId \ {e} : tm[f] = times[f]
    BY <1>1 DEF TimeTable
  <2> HIDE DEF tm
  <2>3. tm \in TimeTable /\ Forward(tm)
    BY <1>3 DEF TimesOK
  <2>4. \A u \in TaskId, r \in Limits \cup {Always} :
          DurationTime(tm, u, r) = DurationTime(times, u, r)
    BY <1>1, <1>2, <1>5, <2>2, <2>3, NoLength
  <2>5. SummaryRight(tasks, tm, summary)
    BY <1>1, <1>2, <2>3, <2>4, SummarySame
  <2>6. ListOK(tasks, list') /\ ListRight(tasks, tm, list', unlisted') /\ unlisted' \subseteq TaskId
    <3>1. CASE Running(tm) = Running(times)
      <4>1. \A u \in TaskId : DurationTime(tm, u, Always) = DurationTime(times, u, Always)
        BY <2>4
      <4>2. ListRight(tasks, tm, list, unlisted)
        BY <1>1, <1>2, <2>3, <3>1, <4>1, ListSame
      <4>3. QED
        BY <1>1, <2>1, <3>1, <4>2
    <3>2. CASE Running(tm) # Running(times)
      BY <1>1, <2>1, <2>3, <3>2, ListOfOK
    <3>3. QED
      BY <3>1, <3>2
  <2>7. QED
    BY <1>1, <1>3, <2>1, <2>5, <2>6 DEF Kept, State
<1>6. QED
  BY <1>4, <1>5

\* time_accessor::update
LEMMA UpdateTimeKeeps ==
  ASSUME Kept, NEW e \in EntryId, NEW row \in TimeRow, row.start <= row.stop,
         UpdateTime(e, row)
  PROVE  Kept' /\ tasks' = tasks
<1>1. /\ TimesOK(tasks, times) /\ alive /\ e \in Rows(times)
      /\ row.owner = times[e].owner /\ TimeWritten([times EXCEPT ![e] = row], row.owner)
  BY DEF Kept, State, UpdateTime, Write
<1>2. row.owner \in Rows(tasks)
  BY <1>1 DEF TimesOK
<1>3. /\ TimesOK(tasks, [times EXCEPT ![e] = row])
      /\ OnlyTimesOf(times, [times EXCEPT ![e] = row], row.owner)
  BY <1>1, <1>2, RowWritten
<1>4. QED
  BY <1>1, <1>2, <1>3, TimeWrittenKeeps

-----------------------------------------------------------------------------
(* The writes to the tasks *)

\* The keeper stops the timers of a removed task: only their states change.
LEMMA StoppedOK ==
  ASSUME TimesOK(tasks, times), NEW t \in TaskId
  PROVE  TimesOK(tasks, TimersStopped(t))
<1> DEFINE tm == TimersStopped(t)
<1>1. times \in [EntryId -> TimeRow \cup {NoRow}]
  BY DEF TimesOK, TimeTable
<1>2. \A e \in EntryId :
        tm[e] = IF times[e] # NoRow /\ times[e].owner = t /\ times[e].state = "running"
                THEN [times[e] EXCEPT !.state =
                        IF times[e].stop - times[e].start < ZeroTime THEN "deleted"
                        ELSE "stopped"]
                ELSE times[e]
  BY DEF TimersStopped
<1>3. tm = [e \in EntryId |-> tm[e]]
  BY DEF TimersStopped
<1> HIDE DEF tm
<1>4. ASSUME NEW e \in EntryId
      PROVE  \/ tm[e] = NoRow
             \/ /\ tm[e] \in TimeRow /\ times[e] # NoRow /\ tm[e].owner = times[e].owner
                /\ tm[e].start = times[e].start /\ tm[e].stop = times[e].stop
  <2>1. CASE times[e] # NoRow /\ times[e].owner = t /\ times[e].state = "running"
    <3>1. times[e] \in TimeRow
      BY <1>1, <2>1
    <3>2. PICK st \in {"deleted", "stopped"} : tm[e] = [times[e] EXCEPT !.state = st]
      BY <1>2, <2>1
    <3>3. QED
      BY <2>1, <3>1, <3>2 DEF TimeRow
  <2>2. CASE ~ (times[e] # NoRow /\ times[e].owner = t /\ times[e].state = "running")
    BY <1>1, <1>2, <2>2
  <2>3. QED
    BY <2>1, <2>2
<1>5. tm \in TimeTable
  BY <1>3, <1>4 DEF TimeTable
<1>6. \A e \in Rows(tm) :
        /\ e \in Rows(times) /\ tm[e].owner = times[e].owner
        /\ tm[e].start = times[e].start /\ tm[e].stop = times[e].stop
  BY <1>1, <1>4, <1>5 DEF Rows, TimeTable
<1>7. TimesOK(tasks, tm)
  BY <1>5, <1>6 DEF TimesOK, Forward
<1>8. QED
  BY <1>7 DEF tm

\* The table of tasks with one row written
Puts(tk, tl, t, row) == tl = [tk EXCEPT ![t] = row]

\* The table with a row that was written
LEMMA TaskWritten ==
  ASSUME NEW tk, TasksOK(tk), NEW t \in TaskId, NEW row \in TaskRow,
         row.parent \in Rows(tk) \cup {Top}, NEW tl, Puts(tk, tl, t, row)
  PROVE  /\ TasksOK(tl) /\ Rows(tl) = Rows(tk) \cup {t} /\ tl[t] = row
         /\ \A u \in Rows(tk) \ {t} : tl[u] = tk[u]
<1>1. tk \in [TaskId -> TaskRow \cup {NoRow}]
  BY DEF TasksOK, TaskTable
<1>2. /\ tl \in [TaskId -> TaskRow \cup {NoRow}] /\ tl[t] = row
      /\ \A u \in TaskId \ {t} : tl[u] = tk[u]
  BY <1>1 DEF Puts
<1>3. row # NoRow
  BY DEF TaskRow, NoRow
<1>4. Rows(tl) = Rows(tk) \cup {t} /\ Rows(tk) \subseteq TaskId
  BY <1>1, <1>2, <1>3 DEF Rows
<1>5. TasksOK(tl)
  BY <1>2, <1>4 DEF TasksOK, TaskTable
<1>6. QED
  BY <1>2, <1>4, <1>5

\* Tables with the same rows and parents have the same tree.
LEMMA SameParents ==
  ASSUME NEW tk, TasksOK(tk), NEW tl, TasksOK(tl), Rows(tl) = Rows(tk),
         \A u \in Rows(tk) : tl[u].parent = tk[u].parent
  PROVE  Parents(tl) = Parents(tk)
  BY DEF Parents

\* task_accessor::update with its handlers
LEMMA WriteTaskKeeps ==
  ASSUME Kept, alive, NEW t \in Rows(tasks), NEW row \in TaskRow, row # tasks[t],
         row.parent \in Rows(tasks) \cup {Top}, WriteTask(t, row)
  PROVE  Kept' /\ Rows(tasks') = Rows(tasks)
<1> DEFINE tk == [tasks EXCEPT ![t] = row]
           moved == row.parent # tasks[t].parent
           gone == row.deleted /\ ~ tasks[t].deleted
           back == tasks[t].deleted /\ ~ row.deleted
           tm == IF gone THEN TimersStopped(t) ELSE times
           anew == moved \/ tm # times
           updated == IF tm = times THEN {summary} ELSE SummaryUpdated(summary, tk, tm, t)
<1>1. /\ TasksOK(tasks) /\ TimesOK(tasks, times) /\ times \in TimeTable /\ Forward(times)
      /\ ListOK(tasks, list) /\ SummaryOK(summary) /\ alive \in BOOLEAN
      /\ unlisted \subseteq TaskId /\ ListRight(tasks, times, list, unlisted)
  BY DEF Kept, State, TimesOK
<1>2. t \in TaskId /\ tasks[t] \in TaskRow
  BY <1>1, RowsOfTasks
<1>3. /\ TasksOK(tk) /\ Rows(tk) = Rows(tasks) /\ tk[t] = row
      /\ \A u \in Rows(tasks) \ {t} : tk[u] = tasks[u]
  <2>1. Rows(tasks) \cup {t} = Rows(tasks)
    OBVIOUS
  <2>2. Puts(tasks, tk, t, row)
    BY DEF Puts
  <2> HIDE DEF tk
  <2>3. TasksOK(tasks) /\ row.parent \in Rows(tasks) \cup {Top} /\ t \in TaskId
    BY <1>1, <1>2
  <2>4. /\ TasksOK(tk) /\ Rows(tk) = Rows(tasks) \cup {t} /\ tk[t] = row
        /\ \A u \in Rows(tasks) \ {t} : tk[u] = tasks[u]
    BY <2>2, <2>3, TaskWritten
  <2>5. QED
    BY <2>1, <2>4
<1>4. TimesOK(tasks, tm)
  BY <1>1, <1>2, StoppedOK
<1>5. /\ tasks' = tk /\ times' = tm
      /\ IF tm # times /\ ~ Survives(tk, tm, t) THEN Nothing
         ELSE /\ list' = IF anew THEN ListOf(tk, tm)
                         ELSE IF gone THEN ListErased(list, t) ELSE list
              /\ unlisted' = IF anew THEN {} ELSE IF back THEN unlisted \cup {t} ELSE unlisted
              /\ summary' \in {[IF gone THEN SummaryErased(s, t) ELSE s
                                EXCEPT !.stirred = TRUE] : s \in updated}
              /\ alive' = alive
  BY DEF WriteTask
<1>g. gone \in BOOLEAN /\ back \in BOOLEAN /\ ~ (gone /\ back)
      /\ (~ moved /\ ~ gone => back)
  BY <1>2 DEF TaskRow
<1> HIDE DEF tk, tm, gone, back
<1>6. tm \in TimeTable /\ Forward(tm) /\ TimesOK(tk, tm)
  BY <1>3, <1>4 DEF TimesOK
<1>7. CASE tm # times /\ ~ Survives(tk, tm, t)
  BY <1>1, <1>3, <1>5, <1>6, <1>7, NothingKeeps
<1>8. CASE ~ (tm # times /\ ~ Survives(tk, tm, t))
  <2>1. SummaryOK(summary') /\ summary'.stirred = TRUE
    <3>1. PICK s \in updated :
            summary' = [IF gone THEN SummaryErased(s, t) ELSE s EXCEPT !.stirred = TRUE]
      BY <1>5, <1>8
    <3>2. SummaryOK(s)
      <4>1. CASE tm = times
        BY <1>1, <3>1, <4>1
      <4>2. CASE tm # times
        <5>1. Lacks(summary, tk, t) => PopulateEnds(summary, tk, tm)
          BY <1>8, <4>2 DEF Survives
        <5>2. s \in SummaryUpdated(summary, tk, tm, t)
          BY <3>1, <4>2
        <5>3. QED
          BY <1>1, <1>3, <1>6, <5>1, <5>2, UpdatedOK
      <4>3. QED
        BY <4>1, <4>2
    <3> DEFINE q == IF gone THEN SummaryErased(s, t) ELSE s
    <3>3. SummaryOK(q)
      BY <1>2, <3>2, ErasedOK
    <3> HIDE DEF q
    <3>4. summary' = [q EXCEPT !.stirred = TRUE]
      BY <3>1 DEF q
    <3>5. QED
      BY <3>3, <3>4 DEF SummaryOK, Summary
  <2>2. ListOK(tk, list') /\ ListRight(tk, tm, list', unlisted') /\ unlisted' \subseteq TaskId
    <3>1. CASE anew
      <4>1. list' = ListOf(tk, tm) /\ unlisted' = {}
        BY <1>5, <1>8, <3>1
      <4>2. QED
        BY <1>3, <1>6, <4>1, ListOfOK
    <3>2. CASE ~ anew
      <4>1. tm = times /\ row.parent = tasks[t].parent
        BY <3>2
      <4>2. Marked(tasks, tk, t)
        <5>1. \A u \in Rows(tasks) : tk[u].parent = tasks[u].parent
          BY <1>3, <4>1
        <5>2. Parents(tk) = Parents(tasks)
          BY <1>1, <1>3, <5>1, SameParents
        <5>3. QED
          BY <1>3, <5>2 DEF Marked
      <4>3. CASE gone
        <5>1. list' = ListErased(list, t) /\ unlisted' = unlisted
          BY <1>5, <1>8, <1>g, <3>2, <4>3
        <5>2. ListOK(tasks, list')
          BY <1>1, <1>2, <5>1, ListErasedOK
        <5>3. ~ tasks[t].deleted /\ tk[t].deleted
          BY <1>3, <4>3 DEF gone
        <5>4. ListRight(tk, tm, list', unlisted')
          BY <1>1, <1>3, <4>1, <4>2, <5>1, <5>3, ListErasedRight
        <5>5. QED
          BY <1>1, <1>3, <5>1, <5>2, <5>4 DEF ListOK
      <4>4. CASE ~ gone
        <5>1. list' = list /\ unlisted' = unlisted \cup {t}
          BY <1>5, <1>8, <1>g, <3>2, <4>4
        <5>2. ListRight(tk, tm, list', unlisted')
          BY <1>1, <1>3, <4>1, <4>2, <5>1, ListBack
        <5>3. QED
          BY <1>1, <1>2, <1>3, <5>1, <5>2 DEF ListOK
      <4>5. QED
        BY <4>3, <4>4
    <3>3. QED
      BY <3>1, <3>2
  <2>3. alive' = alive
    BY <1>5, <1>8
  <2>4. SummaryRight(tk, tm, summary')
    BY <2>1 DEF SummaryRight
  <2>5. QED
    BY <1>1, <1>3, <1>5, <1>6, <2>1, <2>2, <2>3, <2>4 DEF Kept, State
<1>9. QED
  BY <1>3, <1>5, <1>7, <1>8

\* A new task has no time yet, and nothing is below it.
LEMMA NewTaskRight ==
  ASSUME NEW tk, TasksOK(tk), NEW tl, TasksOK(tl), NEW t \in TaskId \ Rows(tk),
         Rows(tl) = Rows(tk) \cup {t}, \A u \in Rows(tk) : tl[u] = tk[u],
         NEW tm, TimesOK(tk, tm), NEW s, SummaryOK(s), SummaryRight(tk, tm, s)
  PROVE  SummaryRight(tl, tm, s)
<1>1. s \in Summary /\ s.range \in Limits /\ s.range \in Limits \cup {Always}
      /\ tm \in TimeTable /\ Forward(tm)
  BY SummaryFields DEF SummaryOK, TimesOK
<1>2. DurationTime(tm, t, s.range) = 0
  <2>1. \A e \in EntryId : Shares(tm, t, s.range)[e] = 0
    BY DEF TimesOK, Shares, Counts
  <2>2. QED
    BY <1>1, <2>1, DurationZero, ViewsAssumption
<1>3. ASSUME NEW u \in Rows(tk) PROVE Above(tl, u) = Above(tk, u)
  <2>1. /\ Tree(Parents(tk)) /\ u \in DOMAIN Parents(tk)
        /\ Tree(Parents(tl)) /\ DOMAIN Parents(tl) = Rows(tl) /\ IsFiniteSet(TaskId)
    BY RowsOfTasks, ViewsAssumption
  <2>2. \A v \in Rows(tk) : Parents(tl)[v] = Parents(tk)[v]
    BY RowsOfTasks
  <2>3. \A v \in Chain(Parents(tk), u) : v \in DOMAIN Parents(tl) /\ Parents(tl)[v] = Parents(tk)[v]
    BY <2>1, <2>2, AboveOf DEF Above
  <2>4. Chain(Parents(tl), u) = Chain(Parents(tk), u)
    BY <2>1, <2>3, ChainSame
  <2>5. QED
    BY <2>4 DEF Above
<1>4. ASSUME NEW u \in TaskId PROVE Total(tl, tm, u, s.range) = Total(tk, tm, u, s.range)
  <2>1. \A v \in TaskId : DurationTime(tm, v, s.range) \in Nat
    BY <1>1, DurationType, ViewsAssumption
  <2>2. \A v \in Rows(tk) : v \in Below(tl, u) <=> v \in Below(tk, u)
    BY <1>3 DEF Below
  <2>3. \A v \in TaskId \ Rows(tk) : v \notin Below(tk, u) /\ (v \in Below(tl, u) => v = t)
    BY DEF Below
  <2>4. \A v \in TaskId : Parts(tl, tm, u, s.range)[v] = Parts(tk, tm, u, s.range)[v]
    BY <1>2, <2>2, <2>3 DEF Parts
  <2>5. Rows(tk) \subseteq TaskId /\ Rows(tl) \subseteq TaskId /\ IsFiniteSet(TaskId)
    BY RowsOfTasks, ViewsAssumption
  <2>6. QED
    BY <2>1, <2>4, <2>5, TotalSame
<1>5. CASE s.needs \/ s.stirred
  BY <1>5 DEF SummaryRight
<1>6. CASE ~ s.needs /\ ~ s.stirred
  <2>1. Covers(tk, tm, s) /\ Shows(tk, tm, s)
    BY <1>6 DEF SummaryRight
  <2>2. ASSUME NEW v \in ActiveTasks(tl, tm, s.range), NEW u \in TaskId,
               DurationTime(tm, v, s.range) > 0, u \in Above(tl, v)
        PROVE  s.rows[u] # <<>>
    <3>1. v \in Rows(tl) /\ ~ tl[v].deleted /\ v # t
      BY <1>2, <2>2 DEF ActiveTasks
    <3>2. v \in Rows(tk) /\ ~ tk[v].deleted
      BY <3>1
    <3>3. v \in ActiveTasks(tk, tm, s.range)
      BY <1>1, <2>2, <3>2, TimeIsActive
    <3>4. u \in Above(tk, v)
      BY <1>3, <2>2, <3>2
    <3>5. QED
      BY <2>1, <2>2, <3>3, <3>4 DEF Covers
  <2>3. QED
    BY <1>4, <2>1, <2>2 DEF SummaryRight, Covers, Shows
<1>7. QED
  BY <1>5, <1>6

\* task_accessor::create with its handlers
LEMMA NewTaskKeeps ==
  ASSUME Kept, NEW t \in TaskId \ Rows(tasks), NEW p \in Rows(tasks) \cup {Top},
         NewTask(t, p)
  PROVE  Kept' /\ Rows(tasks) \subseteq Rows(tasks')
<1> DEFINE row == [parent |-> p, deleted |-> FALSE]
<1>1. /\ TasksOK(tasks) /\ TimesOK(tasks, times) /\ times \in TimeTable /\ Forward(times)
      /\ SummaryOK(summary) /\ alive \in BOOLEAN
      /\ alive => SummaryRight(tasks, times, summary)
  BY DEF Kept, State, TimesOK
<1>2. row \in TaskRow /\ row.parent \in Rows(tasks) \cup {Top}
  BY <1>1, RowsOfTasks DEF TaskRow
<1>3. /\ tasks' = [tasks EXCEPT ![t] = row] /\ list' = ListOf(tasks', times) /\ unlisted' = {}
      /\ times' = times /\ alive' = alive /\ summary' = summary
  BY DEF NewTask
<1> HIDE DEF row
<1>4. /\ TasksOK(tasks') /\ Rows(tasks') = Rows(tasks) \cup {t}
      /\ \A u \in Rows(tasks) : tasks'[u] = tasks[u]
  <2>1. \A u \in Rows(tasks) : u \in Rows(tasks) \ {t}
    OBVIOUS
  <2>2. t \in TaskId
    OBVIOUS
  <2>3. Puts(tasks, tasks', t, row)
    BY <1>3 DEF Puts
  <2>4. QED
    BY <1>1, <1>2, <2>1, <2>2, <2>3, TaskWritten
<1>5. TimesOK(tasks', times')
  BY <1>1, <1>3, <1>4 DEF TimesOK
<1>6. ListOK(tasks', list') /\ ListRight(tasks', times', list', unlisted')
  BY <1>1, <1>3, <1>4, ListOfOK
<1>7. alive' => SummaryRight(tasks', times', summary')
  BY <1>1, <1>3, <1>4, NewTaskRight
<1>8. QED
  BY <1>1, <1>3, <1>4, <1>5, <1>6, <1>7 DEF Kept, State

-----------------------------------------------------------------------------
(* The inductive invariant *)

DialogOK(tk, d) ==
  d # NoRow => /\ d \in Dialog
               /\ d.task \in Rows(tk) \cup {Top} /\ d.parent \in Rows(tk) \cup {Top}
               /\ d.choices \subseteq Rows(tk)

ViewsInv == Kept /\ DialogOK(tasks, dialog) /\ writes \in 0 .. MaxWrites

\* The initial states: no times, and nothing is shown.
LEMMA InitKeeps == Init => ViewsInv
<1> SUFFICES ASSUME Init PROVE ViewsInv
  OBVIOUS
<1>1. TasksOK(tasks)
  BY DEF Init, TasksOK, TaskTable
<1>2. times \in TimeTable /\ Rows(times) = {}
  BY DEF Init, TimeTable, Rows
<1>3. TimesOK(tasks, times)
  BY <1>2 DEF TimesOK, Forward
<1>4. list \in [TaskId -> ListRow \cup {NoRow}] /\ Rows(list) = {}
  BY DEF Init, Rows
<1>5. ListOK(tasks, list)
  BY <1>4 DEF ListOK
<1>6. SummaryOK(summary)
  <2>1. Blank \in [TaskId -> Seq(Nat)] /\ \A t \in TaskId : Blank[t] = <<>>
    BY DEF Blank
  <2> DEFINE T == [t \in TaskId |-> Top]
  <2>2. T \in [TaskId -> TaskId \cup {Top}]
    OBVIOUS
  <2>3. PICK r \in Days :
          summary = [rows |-> Blank, tree |-> T, range |-> r,
                     visible |-> TRUE, needs |-> FALSE, stirred |-> FALSE]
    BY DEF Init
  <2> HIDE DEF T
  <2>4. summary \in Summary /\ summary.rows = Blank
    BY <2>1, <2>2, <2>3 DEF Summary
  <2>5. QED
    BY <2>1, <2>4 DEF SummaryOK
<1>7. alive = FALSE /\ unlisted = {} /\ dialog = NoRow /\ writes = 0
  BY DEF Init
<1>8. alive \in BOOLEAN /\ ~ alive /\ unlisted \subseteq TaskId
  BY <1>7
<1>9. Kept
  BY <1>1, <1>3, <1>5, <1>6, <1>8 DEF Kept, State
<1>10. DialogOK(tasks, dialog) /\ writes \in 0 .. MaxWrites
  BY <1>7, ViewsAssumption DEF DialogOK
<1>11. QED
  BY <1>9, <1>10 DEF ViewsInv

\* Rows of tasks are never deleted: what a dialog holds stays in the table.
LEMMA DialogKept ==
  ASSUME DialogOK(tasks, dialog), Rows(tasks) \subseteq Rows(tasks'),
         dialog' = dialog \/ dialog' = NoRow
  PROVE  DialogOK(tasks', dialog')
  BY DEF DialogOK

\* The number of writes stays in its bound.
LEMMA WritesCount ==
  ASSUME writes \in 0 .. MaxWrites, Write
  PROVE  writes' \in 0 .. MaxWrites
  BY ViewsAssumption DEF Write

\* What is looked at does not change.
LEMMA TablesStay ==
  ASSUME Kept, UNCHANGED <<tables, alive, list, unlisted>>, SummaryOK(summary'),
         alive => SummaryRight(tasks, times, summary')
  PROVE  Kept'
<1>1. /\ tasks' = tasks /\ times' = times /\ alive' = alive /\ list' = list
      /\ unlisted' = unlisted
  BY DEF tables
<1>2. QED
  BY <1>1 DEF Kept, State

\* on_focus and on_date_changed: the summary is populated, or the program is gone.
LEMMA PopulateKeeps ==
  ASSUME Kept, NEW r \in Days, NEW s, s = [summary EXCEPT !.range = r], Populate(s)
  PROVE  Kept' /\ tasks' = tasks /\ (dialog' = dialog \/ dialog' = NoRow) /\ writes' = writes
<1>1. /\ TasksOK(tasks) /\ TimesOK(tasks, times) /\ times \in TimeTable /\ Forward(times)
      /\ SummaryOK(summary) /\ summary \in Summary
  BY DEF Kept, State, TimesOK, SummaryOK
<1>2. s \in Summary
  BY <1>1 DEF Summary
<1>3. CASE PopulateEnds(s, tasks, times)
  <2>1. /\ summary' \in Populated(s, tasks, times)
        /\ UNCHANGED <<tables, list, unlisted, dialog, writes>> /\ alive' = alive
    BY <1>3 DEF Populate, Look
  <2>2. SummaryOK(summary') /\ SummaryRight(tasks, times, summary')
    BY <1>1, <1>2, <1>3, <2>1, PopulatedOK
  <2>3. Kept'
    BY <2>1, <2>2, TablesStay
  <2>4. QED
    BY <2>1, <2>3 DEF tables
<1>4. CASE ~ PopulateEnds(s, tasks, times)
  <2>1. Nothing /\ tasks' = tasks /\ times' = times /\ writes' = writes /\ DialogStays
    BY <1>4 DEF Populate, tables
  <2>2. Kept'
    BY <1>1, <2>1, NothingKeeps
  <2>3. QED
    BY <2>1, <2>2 DEF DialogStays
<1>5. QED
  BY <1>3, <1>4

\* The keeper and the dialogs for times
LEMMA WriteTimeKeeps ==
  ASSUME Kept, NEW e \in EntryId, NEW t \in TaskId, NEW span \in Spans,
         NEW st \in {"running", "stopped", "deleted"}, WriteTime(e, t, span, st)
  PROVE  /\ Kept' /\ tasks' = tasks /\ Write /\ DialogStays
<1> DEFINE row == [owner |-> t, start |-> span.start, stop |-> span.stop, state |-> st]
<1>1. span.start \in Nat /\ span.stop \in Nat /\ span.start <= span.stop
  BY ViewsAssumption
<1>2. row \in TimeRow /\ row.start <= row.stop
  BY <1>1 DEF TimeRow
<1>3. CreateTime(e, row) \/ UpdateTime(e, row)
  BY DEF WriteTime
<1> HIDE DEF row
<1>4. Kept' /\ tasks' = tasks
  BY <1>2, <1>3, CreateTimeKeeps, UpdateTimeKeeps
<1>5. Write /\ DialogStays
  BY <1>3 DEF CreateTime, UpdateTime
<1>6. QED
  BY <1>4, <1>5

\* The task dialog
LEMMA AcceptKeeps ==
  ASSUME ViewsInv, NEW p \in TaskId \cup {Top}, Accept(p)
  PROVE  /\ Kept' /\ Rows(tasks) \subseteq Rows(tasks')
         /\ dialog' = NoRow /\ writes' \in 0 .. MaxWrites
<1>1. /\ Kept /\ TasksOK(tasks) /\ SummaryOK(summary) /\ writes \in 0 .. MaxWrites
      /\ alive => SummaryRight(tasks, times, summary)
  BY DEF ViewsInv, Kept, State
<1>2. /\ dialog.task \in Rows(tasks) \cup {Top} /\ p \in Rows(tasks) \cup {Top}
      /\ dialog' = NoRow
  BY DEF ViewsInv, DialogOK, Accept
<1>3. CASE dialog.task = Top
  <2>1. PICK t \in TaskId \ Rows(tasks) : NewTask(t, p)
    BY <1>3 DEF Accept
  <2>2. Kept' /\ Rows(tasks) \subseteq Rows(tasks')
    BY <1>1, <1>2, <2>1, NewTaskKeeps
  <2>3. QED
    BY <1>1, <1>2, <1>3, <2>2, WritesCount DEF Accept
<1>4. CASE dialog.task # Top /\ tasks[dialog.task].parent = p
  <2>1. UNCHANGED <<tables, alive, list, unlisted, summary, writes>>
    BY <1>4 DEF Accept
  <2>2. UNCHANGED <<tables, alive, list, unlisted>> /\ summary' = summary /\ writes' = writes
        /\ tasks' = tasks
    BY <2>1 DEF tables
  <2>3. Kept'
    BY <1>1, <2>2, TablesStay
  <2>4. QED
    BY <1>1, <1>2, <2>2, <2>3
<1>5. CASE dialog.task # Top /\ tasks[dialog.task].parent # p
  <2> DEFINE t == dialog.task
             row == [tasks[t] EXCEPT !.parent = p]
  <2>1. Write /\ WriteTask(t, row)
    BY <1>5 DEF Accept
  <2>2. t \in Rows(tasks) /\ tasks[t] \in TaskRow /\ p \in TaskId \cup {Top}
    BY <1>1, <1>2, <1>5, RowsOfTasks
  <2>3. row \in TaskRow /\ row.parent = p /\ row # tasks[t]
    BY <1>5, <2>2 DEF TaskRow
  <2>4. alive
    BY <2>1 DEF Write
  <2> HIDE DEF row, t
  <2>5. Kept' /\ Rows(tasks') = Rows(tasks)
    BY <1>1, <1>2, <2>1, <2>2, <2>3, <2>4, WriteTaskKeeps
  <2>6. QED
    BY <1>1, <1>2, <2>1, <2>5, WritesCount
<1>6. QED
  BY <1>3, <1>4, <1>5

\* The main window removes the selected task.
LEMMA RemoveTaskKeeps ==
  ASSUME Kept, NEW t \in TaskId, RemoveTask(t)
  PROVE  Kept' /\ Rows(tasks') = Rows(tasks) /\ Write /\ DialogStays
<1> DEFINE row == [tasks[t] EXCEPT !.deleted = TRUE]
<1>1. TasksOK(tasks) /\ ListOK(tasks, list)
  BY DEF Kept, State
<1>2. alive /\ ~ tasks[t].deleted /\ WriteTask(t, row) /\ Write /\ DialogStays
  BY DEF RemoveTask, Write
<1>3. t \in Rows(tasks)
  BY <1>1 DEF RemoveTask, ListOK
<1>4. tasks[t] \in TaskRow /\ tasks[t].parent \in Rows(tasks) \cup {Top}
  BY <1>1, <1>3, RowsOfTasks DEF TasksOK
<1>5. row \in TaskRow /\ row # tasks[t] /\ row.parent \in Rows(tasks) \cup {Top}
  BY <1>2, <1>4 DEF TaskRow
<1> HIDE DEF row
<1>6. QED
  BY <1>2, <1>3, <1>5, WriteTaskKeeps

\* The synchronisation writes a task.
LEMMA SyncTaskKeeps ==
  ASSUME Kept, NEW t \in TaskId, NEW row \in TaskRow, SyncTask(t, row)
  PROVE  Kept' /\ Rows(tasks) \subseteq Rows(tasks') /\ Write /\ DialogStays
<1>1. alive /\ row.parent \in Rows(tasks) \cup {Top} /\ Write /\ DialogStays
  BY DEF SyncTask, Write
<1>2. CASE t \in Rows(tasks)
  <2>1. row # tasks[t] /\ WriteTask(t, row)
    BY <1>2 DEF SyncTask
  <2>2. Kept' /\ Rows(tasks') = Rows(tasks)
    BY <1>1, <1>2, <2>1, WriteTaskKeeps
  <2>3. QED
    BY <1>1, <2>2
<1>3. CASE t \notin Rows(tasks)
  <2>1. NewTask(t, row.parent)
    BY <1>3 DEF SyncTask
  <2>2. Kept' /\ Rows(tasks) \subseteq Rows(tasks')
    BY <1>1, <1>3, <2>1, NewTaskKeeps
  <2>3. QED
    BY <1>1, <2>2
<1>4. QED
  BY <1>2, <1>3

\* The program starts, or ends while it starts.
LEMMA LaunchKeeps ==
  ASSUME Kept, Launch
  PROVE  Kept' /\ tasks' = tasks /\ dialog' = dialog /\ writes' = writes
<1> DEFINE s == [summary EXCEPT !.visible = TRUE]
<1>1. /\ TasksOK(tasks) /\ TimesOK(tasks, times) /\ times \in TimeTable /\ Forward(times)
      /\ SummaryOK(summary) /\ summary \in Summary /\ ~ alive
  BY DEF Kept, State, TimesOK, SummaryOK, Launch
<1>2. s \in Summary
  BY <1>1 DEF Summary
<1>3. tasks' = tasks /\ times' = times /\ dialog' = dialog /\ writes' = writes
  BY DEF Launch, tables
<1>4. CASE PopulateEnds(s, tasks, times)
  <2>1. /\ summary' \in Populated(s, tasks, times)
        /\ alive' = TRUE /\ list' = ListOf(tasks, times) /\ unlisted' = {}
    BY <1>4 DEF Launch
  <2> HIDE DEF s
  <2>2. SummaryOK(summary') /\ SummaryRight(tasks, times, summary')
    BY <1>1, <1>2, <1>4, <2>1, PopulatedOK
  <2>3. ListOK(tasks, list') /\ ListRight(tasks, times, list', unlisted')
    BY <1>1, <2>1, ListOfOK
  <2>4. Kept'
    BY <1>1, <1>3, <2>1, <2>2, <2>3 DEF Kept, State
  <2>5. QED
    BY <1>3, <2>4
<1>5. CASE ~ PopulateEnds(s, tasks, times)
  <2>1. alive' = alive /\ list' = list /\ unlisted' = unlisted /\ summary' = summary
    BY <1>5 DEF Launch
  <2>2. UNCHANGED <<tables, alive, list, unlisted>>
    BY <1>3, <2>1 DEF tables
  <2>3. Kept'
    BY <1>1, <2>1, <2>2, TablesStay
  <2>4. QED
    BY <1>3, <2>3
<1>6. QED
  BY <1>4, <1>5

\* Every step keeps the invariant.
LEMMA StepKeeps == ViewsInv /\ [Next]_vars => ViewsInv'
<1> SUFFICES ASSUME ViewsInv, [Next]_vars PROVE ViewsInv'
  OBVIOUS
<1>1. /\ Kept /\ DialogOK(tasks, dialog) /\ writes \in 0 .. MaxWrites
      /\ TasksOK(tasks) /\ SummaryOK(summary) /\ ListOK(tasks, list)
      /\ summary \in Summary /\ alive \in BOOLEAN
      /\ alive => SummaryRight(tasks, times, summary)
  BY DEF ViewsInv, Kept, State, SummaryOK
<1>q. ASSUME Kept', Rows(tasks) \subseteq Rows(tasks'), dialog' = dialog \/ dialog' = NoRow,
             writes' \in 0 .. MaxWrites
      PROVE  ViewsInv'
  BY <1>1, <1>q, DialogKept DEF ViewsInv
<1>s. ASSUME UNCHANGED <<tables, alive, list, unlisted, summary, writes>>
      PROVE  Kept' /\ tasks' = tasks /\ writes' \in 0 .. MaxWrites
  <2>1. /\ UNCHANGED <<tables, alive, list, unlisted>> /\ summary' = summary
        /\ writes' = writes /\ tasks' = tasks
    BY <1>s DEF tables
  <2>2. Kept'
    BY <1>1, <2>1, TablesStay
  <2>3. QED
    BY <1>1, <2>1, <2>2
<1>2. ASSUME NEW t \in TaskId, EditTask(t) PROVE ViewsInv'
  <2>1. /\ dialog' = [task |-> t, parent |-> tasks[t].parent, choices |-> Reachable(tasks) \ {t}]
        /\ UNCHANGED <<tables, alive, list, unlisted, summary, writes>> /\ t \in Rows(list)
    BY <1>2 DEF EditTask
  <2>2. Kept' /\ tasks' = tasks /\ writes' \in 0 .. MaxWrites
    BY <1>s, <2>1
  <2>3. t \in Rows(tasks) /\ tasks[t].parent \in Rows(tasks) \cup {Top}
        /\ Reachable(tasks) \subseteq Rows(tasks) /\ Rows(tasks) \subseteq TaskId
    BY <1>1, <2>1, RowsOfTasks DEF ListOK, TasksOK, Reachable
  <2>4. DialogOK(tasks, dialog')
    BY <2>1, <2>3 DEF DialogOK, Dialog
  <2>5. QED
    BY <2>2, <2>4 DEF ViewsInv
<1>3. ASSUME NEW p \in TaskId \cup {Top}, AddTask(p) PROVE ViewsInv'
  <2>1. /\ dialog' = [task |-> Top, parent |-> p, choices |-> Reachable(tasks)]
        /\ UNCHANGED <<tables, alive, list, unlisted, summary, writes>>
        /\ p \in Rows(list) \cup {Top}
    BY <1>3 DEF AddTask
  <2>2. Kept' /\ tasks' = tasks /\ writes' \in 0 .. MaxWrites
    BY <1>s, <2>1
  <2>3. /\ p \in Rows(tasks) \cup {Top}
        /\ Reachable(tasks) \subseteq Rows(tasks) /\ Rows(tasks) \subseteq TaskId
    BY <1>1, <2>1, RowsOfTasks DEF ListOK, Reachable
  <2>4. DialogOK(tasks, dialog')
    BY <2>1, <2>3 DEF DialogOK, Dialog
  <2>5. QED
    BY <2>2, <2>4 DEF ViewsInv
<1>4. ASSUME NEW p \in TaskId \cup {Top}, Accept(p) PROVE ViewsInv'
  BY <1>4, <1>q, AcceptKeeps
<1>5. ASSUME NEW t \in TaskId, RemoveTask(t) PROVE ViewsInv'
  <2>1. Kept' /\ Rows(tasks') = Rows(tasks) /\ Write /\ DialogStays
    BY <1>1, <1>5, RemoveTaskKeeps
  <2>2. QED
    BY <1>1, <1>q, <2>1, WritesCount DEF DialogStays
<1>6. CASE Cancel
  <2>1. /\ dialog' = NoRow /\ UNCHANGED <<tables, alive, list, unlisted, summary, writes>>
    BY <1>6 DEF Cancel
  <2>2. Kept' /\ tasks' = tasks /\ writes' \in 0 .. MaxWrites
    BY <1>s, <2>1
  <2>3. QED
    BY <1>q, <2>1, <2>2
<1>7. CASE ChangeTab
  <2>1. /\ summary' = [summary EXCEPT !.visible = ~ @] /\ alive' = alive
        /\ UNCHANGED <<tables, list, unlisted, dialog, writes>>
    BY <1>7 DEF ChangeTab, Look
  <2>2. SummaryOK(summary') /\ (alive => SummaryRight(tasks, times, summary'))
    <3>1. /\ summary' \in Summary /\ summary'.rows = summary.rows
          /\ summary'.tree = summary.tree /\ summary'.range = summary.range
          /\ summary'.needs = summary.needs /\ summary'.stirred = summary.stirred
      BY <1>1, <2>1 DEF Summary
    <3>2. SummaryOK(summary')
      BY <1>1, <3>1 DEF SummaryOK
    <3>3. alive => SummaryRight(tasks, times, summary')
      BY <1>1, <3>1 DEF SummaryRight, Covers, Shows
    <3>4. QED
      BY <3>2, <3>3
  <2>3. Kept'
    BY <1>1, <2>1, <2>2, TablesStay
  <2>4. QED
    BY <1>1, <1>q, <2>1, <2>3 DEF tables
<1>8. CASE Focus
  <2>1. summary = [summary EXCEPT !.range = summary.range] /\ summary.range \in Days
    BY <1>1 DEF Summary
  <2>2. Populate(summary)
    BY <1>8 DEF Focus
  <2>3. Kept' /\ tasks' = tasks /\ (dialog' = dialog \/ dialog' = NoRow) /\ writes' = writes
    BY <1>1, <2>1, <2>2, PopulateKeeps
  <2>4. QED
    BY <1>1, <1>q, <2>3
<1>9. ASSUME NEW r \in Days, PickDay(r) PROVE ViewsInv'
  <2> DEFINE s == [summary EXCEPT !.range = r]
  <2>1. CASE s.visible
    <3>1. Populate(s)
      BY <1>9, <2>1 DEF PickDay
    <3> HIDE DEF s
    <3>2. Kept' /\ tasks' = tasks /\ (dialog' = dialog \/ dialog' = NoRow) /\ writes' = writes
      <4>1. s = [summary EXCEPT !.range = r]
        BY DEF s
      <4>2. QED
        BY <1>1, <3>1, <4>1, PopulateKeeps
    <3>3. QED
      BY <1>1, <1>q, <3>2
  <2>2. CASE ~ s.visible
    <3>1. /\ summary' = [s EXCEPT !.needs = TRUE] /\ alive' = alive
          /\ UNCHANGED <<tables, list, unlisted, dialog, writes>>
      BY <1>9, <2>2 DEF PickDay, Look
    <3>2. summary' \in Summary /\ summary'.rows = summary.rows
          /\ summary'.tree = summary.tree /\ summary'.needs = TRUE
      BY <1>1, <3>1 DEF Summary
    <3>3. SummaryOK(summary') /\ SummaryRight(tasks, times, summary')
      BY <1>1, <3>2 DEF SummaryOK, SummaryRight
    <3>4. Kept'
      BY <1>1, <3>1, <3>3, TablesStay
    <3>5. QED
      BY <1>1, <1>q, <3>1, <3>4 DEF tables
  <2>3. QED
    BY <2>1, <2>2
<1>10. ASSUME NEW e \in EntryId, NEW t \in TaskId, NEW span \in Spans,
              NEW st \in {"running", "stopped", "deleted"}, WriteTime(e, t, span, st)
       PROVE  ViewsInv'
  <2>1. Kept' /\ tasks' = tasks /\ Write /\ DialogStays
    BY <1>1, <1>10, WriteTimeKeeps
  <2>2. QED
    BY <1>1, <1>q, <2>1, WritesCount DEF DialogStays
<1>11. ASSUME NEW t \in TaskId, NEW row \in TaskRow, SyncTask(t, row) PROVE ViewsInv'
  <2>1. Kept' /\ Rows(tasks) \subseteq Rows(tasks') /\ Write /\ DialogStays
    BY <1>1, <1>11, SyncTaskKeeps
  <2>2. QED
    BY <1>1, <1>q, <2>1, WritesCount DEF DialogStays
<1>12. CASE Quit
  <2>1. Nothing /\ DialogStays /\ tasks' = tasks /\ times' = times /\ writes' = writes
    BY <1>12 DEF Quit, tables
  <2>2. TimesOK(tasks, times)
    BY <1>1 DEF Kept, State
  <2>3. Kept'
    BY <1>1, <2>1, <2>2, NothingKeeps
  <2>4. QED
    BY <1>1, <1>q, <2>1, <2>3 DEF DialogStays
<1>13. CASE Launch
  <2>1. Kept' /\ tasks' = tasks /\ dialog' = dialog /\ writes' = writes
    BY <1>1, <1>13, LaunchKeeps
  <2>2. QED
    BY <1>1, <1>q, <2>1
<1>14. CASE UNCHANGED vars
  <2>1. UNCHANGED <<tables, alive, list, unlisted, summary, writes>> /\ dialog' = dialog
    BY <1>14 DEF vars, tables
  <2>2. QED
    BY <1>q, <1>s, <2>1
<1>15. QED
  BY <1>2, <1>3, <1>4, <1>5, <1>6, <1>7, <1>8, <1>9, <1>10, <1>11, <1>12, <1>13, <1>14
     DEF Next

\* The inductive invariant holds in every reachable state.
LEMMA Invariant == Spec => []ViewsInv
<1>1. QED
  BY InitKeeps, StepKeeps, PTL DEF Spec

\* The type invariant: every row of the list is below a row of the list or at the
\* top, and so is every row of the summary, whatever handler ran (task_list.cpp,
\* summary.cpp: find_row is called for the parents of a row without a check).
THEOREM Types == Spec => []ViewsTypeOK
<1>1. ViewsInv => ViewsTypeOK
  <2> SUFFICES ASSUME ViewsInv PROVE ViewsTypeOK
    OBVIOUS
  <2>1. /\ TasksOK(tasks) /\ TimesOK(tasks, times) /\ ListOK(tasks, list) /\ SummaryOK(summary)
        /\ alive \in BOOLEAN /\ unlisted \subseteq TaskId
        /\ DialogOK(tasks, dialog) /\ writes \in 0 .. MaxWrites
    BY DEF ViewsInv, Kept, State
  <2>2. TablesType
    BY <2>1 DEF TablesType, TasksOK, TaskTable, TimesOK, TimeTable
  <2>3. dialog \in Dialog \cup {NoRow}
    BY <2>1 DEF DialogOK
  <2>4. QED
    BY <2>1, <2>2, <2>3 DEF ViewsTypeOK, ListOK, SummaryOK
<1>2. QED
  BY <1>1, Invariant, PTL

\* The task list shows the tables after every write, for any tree of tasks, cycles
\* included, any times and any writer (task_list.cpp): the rows it brings up to date
\* one by one -- those above a changed time, those below a removed task -- are all
\* that would differ if it were populated anew.
THEOREM ListShowsTables == Spec => []ListFollowsTables
<1>1. ViewsInv => ListFollowsTables
  BY DEF ViewsInv, Kept, State, ListFollowsTables, ListRight, Missing
<1>2. QED
  BY <1>1, Invariant, PTL

\* As long as only times are written, a summary that is not marked as outdated shows
\* for its day what populating it anew would show, hidden, turned to another day
\* and shown again as it may be (summary.cpp).
THEOREM SummaryShowsTimes == Spec => []SummaryFollowsTimes
<1>1. ViewsInv => SummaryFollowsTimes
  BY DEF ViewsInv, Kept, State, SummaryFollowsTimes, SummaryRight, Covers, Shows
<1>2. QED
  BY <1>1, Invariant, PTL

-----------------------------------------------------------------------------
(* The seconds a report counts *)

Seconds(row, r) ==
  IF Within(row, r) THEN row.start .. row.stop - 1
  ELSE IF PassesEnd(row, r) THEN row.start .. r.to - 1
  ELSE IF PassesStart(row, r) THEN r.from .. row.stop - 1
  ELSE {}

Covered(row, s) == UNION {Seconds(row, r) : r \in s}

Fits(row) == row.start \in Nat /\ row.stop \in Nat /\ row.start <= row.stop

\* A report counts of an entry as much time as there are seconds of it in the range.
LEMMA ShareIsCount ==
  ASSUME NEW row, Fits(row), NEW r \in Limits
  PROVE  /\ Seconds(row, r) \subseteq row.start .. row.stop - 1
         /\ Seconds(row, r) \subseteq r.from .. r.to - 1
         /\ IsFiniteSet(Seconds(row, r))
         /\ Cardinality(Seconds(row, r)) = Share(row, r)
<1>1. row.start \in Nat /\ row.stop \in Nat /\ row.start <= row.stop
  BY DEF Fits
<1>2. r.from \in Nat /\ r.to \in Nat /\ r # Always
  BY DEF Limits, Always
<1>3. CASE Within(row, r)
  <2>1. Seconds(row, r) = row.start .. row.stop - 1 /\ Share(row, r) = row.stop - row.start
    BY <1>3 DEF Seconds, Share
  <2>2. /\ IsFiniteSet(row.start .. row.stop - 1)
        /\ Cardinality(row.start .. row.stop - 1) =
             IF row.start > row.stop - 1 THEN 0 ELSE row.stop - 1 - row.start + 1
    <3>1. row.start \in Int /\ row.stop - 1 \in Int
      BY <1>1
    <3>2. QED
      BY <3>1, FS_Interval
  <2>3. QED
    BY <1>1, <1>2, <1>3, <2>1, <2>2 DEF Within
<1>4. CASE ~ Within(row, r) /\ PassesEnd(row, r)
  <2>1. Seconds(row, r) = row.start .. r.to - 1 /\ Share(row, r) = r.to - row.start
    BY <1>2, <1>4 DEF Seconds, Share
  <2>2. /\ IsFiniteSet(row.start .. r.to - 1)
        /\ Cardinality(row.start .. r.to - 1) =
             IF row.start > r.to - 1 THEN 0 ELSE r.to - 1 - row.start + 1
    <3>1. row.start \in Int /\ r.to - 1 \in Int
      BY <1>1, <1>2
    <3>2. QED
      BY <3>1, FS_Interval
  <2>3. QED
    BY <1>1, <1>2, <1>4, <2>1, <2>2 DEF PassesEnd
<1>5. CASE ~ Within(row, r) /\ ~ PassesEnd(row, r) /\ PassesStart(row, r)
  <2>1. Seconds(row, r) = r.from .. row.stop - 1 /\ Share(row, r) = row.stop - r.from
    BY <1>2, <1>5 DEF Seconds, Share
  <2>2. /\ IsFiniteSet(r.from .. row.stop - 1)
        /\ Cardinality(r.from .. row.stop - 1) =
             IF r.from > row.stop - 1 THEN 0 ELSE row.stop - 1 - r.from + 1
    <3>1. r.from \in Int /\ row.stop - 1 \in Int
      BY <1>1, <1>2
    <3>2. QED
      BY <3>1, FS_Interval
  <2>3. QED
    BY <1>1, <1>2, <1>5, <2>1, <2>2 DEF PassesStart
<1>6. CASE ~ Within(row, r) /\ ~ PassesEnd(row, r) /\ ~ PassesStart(row, r)
  <2>1. Seconds(row, r) = {} /\ Share(row, r) = 0
    BY <1>2, <1>6 DEF Seconds, Share
  <2>2. QED
    BY <2>1, FS_EmptySet
<1>7. QED
  BY <1>3, <1>4, <1>5, <1>6

\* No two days have a second in common.
DaysApart == \A q, r \in Days : q # r => q.to <= r.from \/ r.to <= q.from

\* The seconds of an entry that are in some days
LEMMA CoveredOf ==
  ASSUME NEW row, Fits(row), NEW s \in SUBSET Days
  PROVE  /\ Covered(row, s) \subseteq row.start .. row.stop - 1
         /\ IsFiniteSet(Covered(row, s)) /\ Cardinality(Covered(row, s)) \in Nat
         /\ Cardinality(Covered(row, s)) <= row.stop - row.start
<1>1. row.start \in Nat /\ row.stop \in Nat /\ row.start <= row.stop
  BY DEF Fits
<1>2. \A r \in s : r \in Limits
  BY ViewsAssumption DEF Limits
<1>3. Covered(row, s) \in SUBSET (row.start .. row.stop - 1)
  BY <1>2, ShareIsCount DEF Covered
<1>4. /\ IsFiniteSet(row.start .. row.stop - 1)
      /\ Cardinality(row.start .. row.stop - 1) =
           IF row.start > row.stop - 1 THEN 0 ELSE row.stop - 1 - row.start + 1
  <2>1. row.start \in Int /\ row.stop - 1 \in Int
    BY <1>1
  <2>2. QED
    BY <2>1, FS_Interval
<1>5. /\ IsFiniteSet(Covered(row, s))
      /\ Cardinality(Covered(row, s)) <= Cardinality(row.start .. row.stop - 1)
  BY <1>3, <1>4, FS_Subset
<1>6. Cardinality(Covered(row, s)) \in Nat
  BY <1>5, FS_CardinalityType
<1>7. QED
  BY <1>1, <1>3, <1>4, <1>5, <1>6

\* One day more covers as many seconds more as it has of the entry.
LEMMA CoveredStep ==
  ASSUME DaysApart, NEW row, Fits(row), NEW s \in SUBSET Days, NEW x \in s
  PROVE  Cardinality(Covered(row, s)) = Share(row, x) + Cardinality(Covered(row, s \ {x}))
<1> DEFINE A == Seconds(row, x)
           B == Covered(row, s \ {x})
<1>1. x \in Limits /\ \A r \in s : r \in Limits /\ r \in Days
  BY ViewsAssumption DEF Limits
<1>2. IsFiniteSet(A) /\ Cardinality(A) = Share(row, x) /\ A \subseteq x.from .. x.to - 1
  BY <1>1, ShareIsCount
<1>3. IsFiniteSet(B) /\ Cardinality(B) \in Nat
  BY CoveredOf
<1>4. Covered(row, s) = A \cup B
  BY DEF Covered
<1>5. A \cap B = {}
  <2> SUFFICES ASSUME NEW n \in A, NEW r \in s \ {x}, n \in Seconds(row, r) PROVE FALSE
    BY DEF Covered
  <2>1. n \in x.from .. x.to - 1 /\ n \in r.from .. r.to - 1
    BY <1>1, <1>2, ShareIsCount
  <2>2. x.to <= r.from \/ r.to <= x.from
    BY <1>1 DEF DaysApart
  <2>3. x.from \in Nat /\ x.to \in Nat /\ r.from \in Nat /\ r.to \in Nat
    BY <1>1 DEF Limits
  <2>4. QED
    BY <2>1, <2>2, <2>3
<1> HIDE DEF A, B
<1>6. Cardinality(A \cup B) = Cardinality(A) + Cardinality(B) - Cardinality(A \cap B)
  BY <1>2, <1>3, FS_Union
<1>7. Cardinality(A \cap B) = 0
  BY <1>5, FS_EmptySet
<1>8. Cardinality(A) \in Nat
  BY <1>2, FS_CardinalityType
<1>9. QED
  BY <1>2, <1>3, <1>4, <1>6, <1>7, <1>8 DEF B

\* How many seconds of each entry are in one of the days s
Counted(tm, t, s) ==
  [e \in EntryId |-> IF e \in Counts(tm, t) THEN Cardinality(Covered(tm[e], s)) ELSE 0]

\* What the days count of an entry is no more than it has.
LEMMA CountedOf ==
  ASSUME NEW tm \in TimeTable, Forward(tm), NEW t, NEW s \in SUBSET Days
  PROVE  /\ Counted(tm, t, s) \in [EntryId -> Int]
         /\ \A e \in EntryId : Counted(tm, t, s)[e] <= Shares(tm, t, Always)[e]
<1>1. \A e \in Counts(tm, t) : Fits(tm[e])
  BY DEF Counts, Rows, TimeTable, TimeRow, Forward, Fits
<1>2. ASSUME NEW e \in EntryId
      PROVE  /\ Counted(tm, t, s)[e] \in Int
             /\ Counted(tm, t, s)[e] <= Shares(tm, t, Always)[e]
  <2>1. CASE e \in Counts(tm, t)
    <3>1. /\ Cardinality(Covered(tm[e], s)) \in Nat
          /\ Cardinality(Covered(tm[e], s)) <= tm[e].stop - tm[e].start
      BY <1>1, <2>1, CoveredOf
    <3>2. Counted(tm, t, s)[e] = Cardinality(Covered(tm[e], s))
      BY <2>1 DEF Counted
    <3>3. Shares(tm, t, Always)[e] = tm[e].stop - tm[e].start
      BY <2>1 DEF Shares, Share
    <3>4. QED
      BY <3>1, <3>2, <3>3
  <2>2. CASE e \notin Counts(tm, t)
    BY <2>2 DEF Counted, Shares
  <2>3. QED
    BY <2>1, <2>2
<1>3. Counted(tm, t, s) = [e \in EntryId |-> Counted(tm, t, s)[e]]
  BY DEF Counted
<1>4. QED
  BY <1>2, <1>3

\* One day more counts what is reported for it.
LEMMA CountedStep ==
  ASSUME DaysApart, NEW tm \in TimeTable, Forward(tm), NEW t, NEW s \in SUBSET Days, NEW x \in s
  PROVE  Sum(Counted(tm, t, s)) = DurationTime(tm, t, x) + Sum(Counted(tm, t, s \ {x}))
<1> DEFINE U == Counted(tm, t, s)
           V == Shares(tm, t, x)
           W == Counted(tm, t, s \ {x})
<1>1. x \in Limits \cup {Always} /\ s \ {x} \in SUBSET Days /\ IsFiniteSet(EntryId)
  BY ViewsAssumption DEF Limits
<1>2. /\ U \in [EntryId -> Int] /\ W \in [EntryId -> Int] /\ V \in [EntryId -> Int]
      /\ DurationTime(tm, t, x) = Sum(V)
  BY <1>1, CountedOf, DurationIsSum
<1>3. \A e \in Counts(tm, t) : Fits(tm[e])
  BY DEF Counts, Rows, TimeTable, TimeRow, Forward, Fits
<1>4. ASSUME NEW e \in EntryId PROVE U[e] = V[e] + W[e]
  <2>1. CASE e \in Counts(tm, t)
    <3>1. Cardinality(Covered(tm[e], s))
            = Share(tm[e], x) + Cardinality(Covered(tm[e], s \ {x}))
      BY <1>3, <2>1, CoveredStep
    <3>2. QED
      BY <2>1, <3>1 DEF Counted, Shares
  <2>2. CASE e \notin Counts(tm, t)
    BY <2>2 DEF Counted, Shares
  <2>3. QED
    BY <2>1, <2>2
<1> HIDE DEF U, V, W
<1>5. Adds(U, V, W)
  BY <1>2, <1>4 DEF Adds
<1>6. Sum(U) = Sum(V) + Sum(W)
  BY <1>1, <1>2, <1>5, SumOfTwo
<1>7. QED
  BY <1>2, <1>6 DEF U, W

SumOfDays(tm, t) == MapThenSumSet(LAMBDA r : DurationTime(tm, t, r), Days)
OfDays(tm, t) == [r \in Days |-> DurationTime(tm, t, r)]

\* The reports of all days as one sum
LEMMA SumOfDaysIs ==
  ASSUME NEW tm, NEW t, OfDays(tm, t) \in [Days -> Int]
  PROVE  SumOfDays(tm, t) = Sum(OfDays(tm, t))
<1> DEFINE V == OfDays(tm, t)
           P(g) == g = [s \in SUBSET Days |-> IF s = {} THEN 0 ELSE
                      LET x == CHOOSE x \in s : TRUE
                      IN  DurationTime(tm, t, x) + g[s \ {x}]]
           iter == CHOOSE g : P(g)
<1>1. V \in [Days -> Int] /\ IsFiniteSet(Days)
  BY ViewsAssumption
<1>2. \A g : P(g) <=> IsSumOf(g, V)
  <2> SUFFICES ASSUME NEW g, NEW s \in SUBSET Days, s # {}
               PROVE  DurationTime(tm, t, OneOf(s)) = V[OneOf(s)]
    BY DEF IsSumOf, OneOf, OfDays
  <2>1. OneOf(s) \in s
    BY Zenon DEF OneOf
  <2>2. QED
    BY <2>1 DEF OfDays
<1>3. SumOfDays(tm, t) = iter[Days]
  BY Zenon DEF SumOfDays, MapThenSumSet, MapThenFoldSet
<1>4. PICK h : IsSumOf(h, V)
  <2> HIDE DEF V
  <2>1. QED
    BY <1>1, SumsExist
<1>5. P(iter)
  <2>1. P(h)
    BY <1>2, <1>4
  <2> HIDE DEF P
  <2>2. QED
    BY <2>1, Zenon
<1>6. IsSumOf(iter, V)
  BY <1>2, <1>5
<1> HIDE DEF iter, V
<1>7. iter[Days] = Sum(V)
  BY <1>1, <1>6, SumIs
<1>8. QED
  BY <1>3, <1>7 DEF V

\* The reports of all days together are no more than that without limits.
LEMMA DaysAreParts ==
  ASSUME DaysApart, NEW tm \in TimeTable, Forward(tm), NEW t
  PROVE  SumOfDays(tm, t) <= DurationTime(tm, t, Always)
<1> DEFINE V == OfDays(tm, t)
           Has == {s \in SUBSET Days : Sums(V)[s] = Sum(Counted(tm, t, s))}
<1>1. /\ IsFiniteSet(Days) /\ IsFiniteSet(EntryId) /\ Always \in Limits \cup {Always}
      /\ \A r \in Days : r \in Limits \cup {Always}
  BY ViewsAssumption DEF Limits
<1>2. V \in [Days -> Int]
  <2>1. \A r \in Days : DurationTime(tm, t, r) \in Int
    BY <1>1, DurationType
  <2>2. QED
    BY <2>1 DEF OfDays
<1>3. \A r \in Days : V[r] = DurationTime(tm, t, r)
  BY DEF OfDays
<1>v. DOMAIN V = Days
  BY DEF OfDays
<1> HIDE DEF V
<1>4. ASSUME NEW s \in SUBSET Days, \A u \in SUBSET s : u # s => u \in Has
      PROVE  s \in Has
  <2>1. CASE s = {}
    <3>1. Sums(V)[s] = 0
      BY <1>1, <1>2, <2>1, SumStep
    <3>2. Sum(Counted(tm, t, s)) = 0
      <4> DEFINE N == [e \in {} |-> 0]
      <4>1. N \in [{} -> Int] /\ DOMAIN N = {} /\ {} \in SUBSET EntryId
        OBVIOUS
      <4>2. Counted(tm, t, s) \in [EntryId -> Int]
        BY CountedOf
      <4>3. \A e \in EntryId : Counted(tm, t, s)[e] = 0
        <5>1. \A e : Covered(tm[e], s) = {}
          BY <2>1 DEF Covered
        <5>2. QED
          BY <5>1, FS_EmptySet DEF Counted
      <4>4. Pads(Counted(tm, t, s), N)
        BY <4>2, <4>3 DEF Pads
      <4> HIDE DEF N
      <4>5. Sum(Counted(tm, t, s)) = Sum(N)
        BY <1>1, <4>1, <4>2, <4>4, SumPadded
      <4>6. QED
        BY <4>1, <4>5, SumNothing
    <3>3. QED
      BY <3>1, <3>2
  <2>2. CASE s # {}
    <3>1. PICK x \in s : TRUE
      BY <2>2
    <3>2. s \ {x} \in SUBSET s /\ s \ {x} # s
      BY <3>1
    <3>3. s \ {x} \in Has
      BY <1>4, <3>2
    <3>4. Sums(V)[s \ {x}] = Sum(Counted(tm, t, s \ {x}))
      BY <3>3
    <3> HIDE DEF Has
    <3>5. Sums(V)[s] = V[x] + Sums(V)[s \ {x}]
      BY <1>1, <1>2, <3>1, SumsRemove
    <3>6. Sum(Counted(tm, t, s)) = DurationTime(tm, t, x) + Sum(Counted(tm, t, s \ {x}))
      BY <3>1, CountedStep
    <3>7. V[x] = DurationTime(tm, t, x)
      BY <1>3, <3>1
    <3>8. Sums(V)[s] = Sum(Counted(tm, t, s))
      BY <3>4, <3>5, <3>6, <3>7
    <3>9. QED
      BY <3>8 DEF Has
  <2>3. QED
    BY <2>1, <2>2
<1>5. SUBSET Days \subseteq Has
  <2> HIDE DEF Has
  <2>1. QED
    BY <1>1, <1>4, SetInduction
<1>6. Sum(V) = Sum(Counted(tm, t, Days))
  BY <1>5, <1>v DEF Sum
<1>7. SumOfDays(tm, t) = Sum(V)
  BY <1>2, SumOfDaysIs DEF V
<1>8. Sum(Counted(tm, t, Days)) <= Sum(Shares(tm, t, Always))
  <2>1. /\ Counted(tm, t, Days) \in [EntryId -> Int]
        /\ \A e \in EntryId : Counted(tm, t, Days)[e] <= Shares(tm, t, Always)[e]
    BY CountedOf
  <2>2. Shares(tm, t, Always) \in [EntryId -> Int]
    BY <1>1, DurationIsSum
  <2>3. QED
    BY <1>1, <2>1, <2>2, SumAtMost
<1>9. DurationTime(tm, t, Always) = Sum(Shares(tm, t, Always))
  BY <1>1, DurationIsSum
<1>10. QED
  BY <1>6, <1>7, <1>8, <1>9

\* For any days of which no two have a second in common, and for any entries, the
\* reports of a task for the days add up to no more than its time (the three sums
\* of time_accessor::duration_time).
THEOREM NoSecondIsCountedTwice ==
  ASSUME \A q, r \in Days : q # r => q.to <= r.from \/ r.to <= q.from
  PROVE  Spec => []NoSecondInTwoDays
<1>1. ViewsInv => NoSecondInTwoDays
  <2> SUFFICES ASSUME ViewsInv, NEW t \in TaskId
               PROVE  SumOfDays(times, t) <= DurationTime(times, t, Always)
    BY Zenon DEF NoSecondInTwoDays, SumOfDays
  <2>1. times \in TimeTable /\ Forward(times)
    BY DEF ViewsInv, Kept, State, TimesOK
  <2>2. DaysApart
    BY DEF DaysApart
  <2>3. QED
    BY <2>1, <2>2, DaysAreParts
<1>2. QED
  BY <1>1, Invariant, PTL
=============================================================================
