----------------------------- MODULE KvCacheProofs -----------------------------
(* Proofs about the disk KV cache and the tool memory. The folds of the model   *)
(* (the bytes of the directory, the pruning of the memory, the maps read back)  *)
(* are functions on the subsets of what they fold, which CHOOSE picks: such a    *)
(* function exists (IterationExists), so the one picked steps as it should, and  *)
(* what every step keeps holds at the end (StaysIn). The inductive invariant     *)
(* CacheInv relates the directory, the store or load under way and what each     *)
(* slot has of its prompt.                                                       *)
EXTENDS KvCache, FiniteSetTheorems, SequenceTheorems, WellFoundedInduction, TLAPS

(* Induction over finite sets, and what a fold over one goes through. *)

\* A set of numbers that is not empty has a least one.
LEMMA HasLeast ==
    ASSUME NEW G \in SUBSET Nat, G # {}
    PROVE  \E m \in G : \A k \in G : m <= k
<1>. DEFINE R == OpToRel(<, Nat)
<1>1. IsWellFoundedOn(R, Nat)
  BY NatLessThanWellFounded
<1>2. \A x, y \in Nat : x < y => <<x, y>> \in R
  BY DEF OpToRel
<1>. HIDE DEF R
<1>3. PICK m \in G : \A y \in G : ~ (<<y, m>> \in R)
  BY <1>1, WFMin
<1>4. \A k \in G : m <= k
  <2>. TAKE k \in G
  <2>1. k \in Nat /\ m \in Nat /\ ~ (k < m)
    BY <1>2, <1>3
  <2>. QED BY <2>1
<1>. QED BY <1>4

\* G has a number if it has 0 and the successors of those it has, up to n.
LEMMA UpTo ==
    ASSUME NEW n \in Nat, NEW G, 0 \in G,
           \A k \in 0 .. n - 1 : k \in G => k + 1 \in G
    PROVE  n \in G
<1>. SUFFICES ASSUME n \notin G PROVE FALSE
  OBVIOUS
<1>. DEFINE B == {k \in 0 .. n : k \notin G}
<1>1. B \in SUBSET Nat /\ B # {}
  OBVIOUS
<1>2. PICK m \in B : \A k \in B : m <= k
  BY <1>1, HasLeast
<1>3. m \in 1 .. n /\ m \notin G
  OBVIOUS
<1>4. m - 1 \in 0 .. n - 1 /\ (m - 1) + 1 = m
  BY <1>3
<1>5. m - 1 \notin B
  BY <1>2, <1>4
<1>6. m - 1 \in G
  BY <1>4, <1>5
<1>. QED BY <1>3, <1>4, <1>6

\* A set of subsets of S has them all if it has those whose smaller ones it has.
LEMMA AllSubsets ==
    ASSUME NEW S, IsFiniteSet(S), NEW G,
           \A T \in SUBSET S : (\A U \in SUBSET T : U # T => U \in G) => T \in G
    PROVE  \A T \in SUBSET S : T \in G
<1>. DEFINE B == {T \in SUBSET S : T \notin G}
            R == {Cardinality(T) : T \in B}
<1>. SUFFICES ASSUME B # {} PROVE FALSE
  OBVIOUS
<1>1. \A T \in SUBSET S : IsFiniteSet(T) /\ Cardinality(T) \in Nat
  BY FS_Subset, FS_CardinalityType
<1>2. R \in SUBSET Nat /\ R # {}
  BY <1>1
<1>3. PICK r \in R : \A k \in R : r <= k
  BY <1>2, HasLeast
<1>4. PICK T \in B : r = Cardinality(T)
  BY <1>3
<1>5. ASSUME NEW U \in SUBSET T, U # T PROVE U \in G
  <2>1. U \in SUBSET S /\ IsFiniteSet(T)
    BY <1>1
  <2>2. Cardinality(U) < Cardinality(T)
    BY <1>1, <1>5, <2>1, FS_Subset
  <2>3. Cardinality(U) \notin R
    BY <1>1, <1>3, <1>4, <2>1, <2>2
  <2>. QED BY <2>1, <2>3
<1>. QED BY <1>4, <1>5

\* pick takes an element of every subset of S.
Picks(pick, S) == \A T \in SUBSET S : T # {} => pick[T] \in T

\* it takes one element of S after the other, as pick says, and starts with base.
Iterates(it, S, base, step, pick) ==
    \A T \in SUBSET S :
        it[T] = IF T = {} THEN base ELSE step[<<pick[T], it[T \ {pick[T]}]>>]

\* A fold that stays in V, whichever element it takes of what is left, is a
\* function.
LEMMA IterationExists ==
    ASSUME NEW S, IsFiniteSet(S), NEW V, NEW base \in V, NEW step \in [S \X V -> V],
           NEW pick, Picks(pick, S)
    PROVE  \E it \in [SUBSET S -> V] : Iterates(it, S, base, step, pick)
<1>. DEFINE Small(n) == {T \in SUBSET S : Cardinality(T) <= n}
            Runs(it, n) == \A T \in Small(n) :
               it[T] = IF T = {} THEN base ELSE step[<<pick[T], it[T \ {pick[T]}]>>]
            G == {n \in Nat : \E it \in [SUBSET S -> V] : Runs(it, n)}
<1>1. \A T \in SUBSET S : IsFiniteSet(T) /\ Cardinality(T) \in Nat
                            /\ (Cardinality(T) = 0 <=> T = {})
  BY FS_Subset, FS_CardinalityType, FS_EmptySet
<1>2. 0 \in G
  <2>1. [T \in SUBSET S |-> base] \in [SUBSET S -> V]
    OBVIOUS
  <2>2. Runs([T \in SUBSET S |-> base], 0)
    BY <1>1
  <2>. QED BY <2>1, <2>2
<1>3. ASSUME NEW n \in Nat, n \in G PROVE n + 1 \in G
  <2>1. PICK it \in [SUBSET S -> V] : Runs(it, n)
    BY <1>3
  <2>. DEFINE next == [T \in SUBSET S |->
                 IF T = {} THEN base ELSE step[<<pick[T], it[T \ {pick[T]}]>>]]
  <2>2. next \in [SUBSET S -> V]
    BY DEF Picks
  <2>3. \A T \in Small(n) : next[T] = it[T]
    BY <2>1
  <2>4. ASSUME NEW T \in Small(n + 1), T # {}
        PROVE  next[T] = step[<<pick[T], next[T \ {pick[T]}]>>]
    <3>1. T \in SUBSET S /\ pick[T] \in T /\ T \ {pick[T]} \in SUBSET S
      BY <2>4 DEF Picks
    <3>2. Cardinality(T \ {pick[T]}) = Cardinality(T) - 1
      BY <1>1, <3>1, FS_RemoveElement
    <3>3. T \ {pick[T]} \in Small(n)
      BY <1>1, <3>1, <3>2
    <3>4. next[T] = step[<<pick[T], it[T \ {pick[T]}]>>]
      BY <2>4, <3>1
    <3>. QED BY <2>3, <3>3, <3>4
  <2>5. Runs(next, n + 1)
    BY <2>4
  <2>. HIDE DEF next, Runs
  <2>. QED BY <2>2, <2>5
<1>4. Cardinality(S) \in Nat /\ \A T \in SUBSET S : Cardinality(T) <= Cardinality(S)
  BY FS_Subset, FS_CardinalityType
<1>. HIDE DEF G
<1>5. Cardinality(S) \in G
  <2>1. \A k \in 0 .. Cardinality(S) - 1 : k \in G => k + 1 \in G
    BY <1>3, <1>4
  <2>. QED BY ONLY <1>2, <1>4, <2>1, UpTo
<1>6. PICK it \in [SUBSET S -> V] : Runs(it, Cardinality(S))
  BY <1>5 DEF G
<1>7. Small(Cardinality(S)) = SUBSET S
  BY <1>4
<1>. QED BY <1>6, <1>7 DEF Iterates

(* Sums. *)

\* it[T] is a sum of f over T, in some order.
Sums(it, f, D) ==
    /\ it[{}] = 0
    /\ \A T \in SUBSET D : T # {} => \E x \in T : it[T] = f[x] + it[T \ {x}]

\* The sum of a function is what taking its values one by one gives.
LEMMA SumSteps ==
    ASSUME NEW D, IsFiniteSet(D), NEW f \in [D -> Nat]
    PROVE  \E it \in [SUBSET D -> Nat] : SumFunction(f) = it[D] /\ Sums(it, f, D)
<1>. DEFINE pick == [T \in SUBSET D |-> CHOOSE x \in T : TRUE]
            step == [p \in D \X Nat |-> f[p[1]] + p[2]]
            Adds(g) == g = [T \in SUBSET D |->
               IF T = {} THEN 0
               ELSE f[CHOOSE x \in T : TRUE] + g[T \ {CHOOSE x \in T : TRUE}]]
            it == CHOOSE g : Adds(g)
<1>1. SumFunction(f) = it[D]
  BY Zenon DEF SumFunction, SumFunctionOnSet, FoldFunctionOnSet, MapThenFoldSet
<1>2. Picks(pick, D)
  BY DEF Picks
<1>3. step \in [D \X Nat -> Nat]
  OBVIOUS
<1>4. PICK g \in [SUBSET D -> Nat] : Iterates(g, D, 0, step, pick)
  <2>. HIDE DEF pick, step
  <2>1. 0 \in Nat
    OBVIOUS
  <2>. QED BY <1>2, <1>3, <2>1, IterationExists
<1>5. ASSUME NEW T \in SUBSET D, T # {}
      PROVE  step[<<pick[T], g[T \ {pick[T]}]>>] = f[pick[T]] + g[T \ {pick[T]}]
  <2>1. pick[T] \in D /\ g[T \ {pick[T]}] \in Nat
    BY <1>2, <1>5 DEF Picks
  <2>. HIDE DEF pick
  <2>. QED BY <2>1
<1>6. Adds(g)
  <2>1. \A T \in SUBSET D : g[T] = IF T = {} THEN 0 ELSE f[pick[T]] + g[T \ {pick[T]}]
    <3>. HIDE DEF pick, step
    <3>. QED BY <1>4, <1>5 DEF Iterates
  <2>2. \A T \in SUBSET D : pick[T] = CHOOSE x \in T : TRUE
    OBVIOUS
  <2>. HIDE DEF pick
  <2>. QED BY <2>1, <2>2
<1>7. Adds(it)
  <2>. HIDE DEF Adds
  <2>. QED BY <1>6
<1>8. it[{}] = 0 /\ \A T \in SUBSET D : T # {} =>
           pick[T] \in T /\ it[T] = f[pick[T]] + it[T \ {pick[T]}]
  <2>1. \A T \in SUBSET D : pick[T] = CHOOSE x \in T : TRUE
    OBVIOUS
  <2>. HIDE DEF it, pick
  <2>. QED BY <1>2, <1>7, <2>1 DEF Picks
<1>9. \A T \in SUBSET D : it[T] \in Nat
  <2>. DEFINE F == {T \in SUBSET D : it[T] \in Nat}
  <2>1. ASSUME NEW T \in SUBSET D, \A U \in SUBSET T : U # T => U \in F
        PROVE  T \in F
    <3>1. CASE T = {}
      BY <1>8, <3>1
    <3>2. CASE T # {}
      <4>1. pick[T] \in T /\ T \ {pick[T]} \in F /\ f[pick[T]] \in Nat
        BY <1>8, <2>1, <3>2
      <4>2. it[T \ {pick[T]}] \in Nat /\ it[T] = f[pick[T]] + it[T \ {pick[T]}]
        BY <1>8, <3>2, <4>1
      <4>. HIDE DEF it, pick
      <4>3. it[T] \in Nat
        BY <4>1, <4>2
      <4>. QED BY <4>3
    <3>. QED BY <3>1, <3>2
  <2>. HIDE DEF F
  <2>2. \A T \in SUBSET D : T \in F
    BY <2>1, AllSubsets
  <2>. QED BY <2>2 DEF F
<1>10. it \in [SUBSET D -> Nat]
  <2>. HIDE DEF it
  <2>1. it = [T \in SUBSET D |-> it[T]]
    BY <1>7
  <2>. QED BY <1>9, <2>1
<1>. HIDE DEF it, pick
<1>11. Sums(it, f, D)
  BY <1>8 DEF Sums
<1>. QED BY <1>1, <1>10, <1>11

AnyOrder(it, f, D) == \A T \in SUBSET D : \A x \in T : it[T] = f[x] + it[T \ {x}]

\* In which order a sum takes the elements makes no difference.
LEMMA SumAnyOrder ==
    ASSUME NEW D, IsFiniteSet(D), NEW f \in [D -> Nat], NEW it \in [SUBSET D -> Nat],
           Sums(it, f, D)
    PROVE  AnyOrder(it, f, D)
<1>. DEFINE F == {T \in SUBSET D : \A x \in T : it[T] = f[x] + it[T \ {x}]}
<1>1. ASSUME NEW T \in SUBSET D, \A U \in SUBSET T : U # T => U \in F
      PROVE  T \in F
  <2>. SUFFICES ASSUME NEW x \in T PROVE it[T] = f[x] + it[T \ {x}]
    OBVIOUS
  <2>1. PICK y \in T : it[T] = f[y] + it[T \ {y}]
    BY DEF Sums
  <2>2. CASE x = y
    BY <2>1, <2>2
  <2>3. CASE x # y
    <3>1. T \ {y} \in F /\ T \ {x} \in F
      BY <1>1
    <3>2. it[T \ {y}] = f[x] + it[(T \ {y}) \ {x}]
      BY <2>3, <3>1
    <3>3. it[T \ {x}] = f[y] + it[(T \ {x}) \ {y}]
      BY <2>3, <3>1
    <3>4. (T \ {y}) \ {x} = (T \ {x}) \ {y}
      OBVIOUS
    <3>. DEFINE rest == it[(T \ {x}) \ {y}]
    <3>5. f[x] \in Nat /\ f[y] \in Nat /\ rest \in Nat
      OBVIOUS
    <3>6. it[T \ {y}] = f[x] + rest /\ it[T \ {x}] = f[y] + rest
      BY <3>2, <3>3, <3>4, Zenon
    <3>. HIDE DEF rest
    <3>. QED BY ONLY <2>1, <3>5, <3>6
  <2>. QED BY <2>2, <2>3
<1>. HIDE DEF F
<1>2. \A T \in SUBSET D : T \in F
  BY <1>1, AllSubsets
<1>. QED BY <1>2 DEF F, AnyOrder

\* Less of less is less.
LEMMA SumMonotone ==
    ASSUME NEW D, IsFiniteSet(D), NEW f \in [D -> Nat],
           NEW E \in SUBSET D, NEW g \in [E -> Nat], \A x \in E : g[x] <= f[x]
    PROVE  SumFunction(g) \in Nat /\ SumFunction(f) \in Nat /\ SumFunction(g) <= SumFunction(f)
<1>1. IsFiniteSet(E)
  BY FS_Subset
<1>2. PICK a \in [SUBSET D -> Nat] : SumFunction(f) = a[D] /\ Sums(a, f, D)
  BY SumSteps
<1>3. PICK b \in [SUBSET E -> Nat] : SumFunction(g) = b[E] /\ Sums(b, g, E)
  BY <1>1, SumSteps
<1>4. AnyOrder(b, g, E)
  <2>1. Sums(b, g, E)
    BY <1>3
  <2>. QED BY ONLY <1>1, <2>1, SumAnyOrder
<1>. DEFINE F == {T \in SUBSET D : b[T \cap E] <= a[T]}
<1>5. ASSUME NEW T \in SUBSET D, \A U \in SUBSET T : U # T => U \in F
      PROVE  T \in F
  <2>. SUFFICES b[T \cap E] <= a[T]
    OBVIOUS
  <2>1. CASE T = {}
    BY <1>2, <1>3, <2>1 DEF Sums
  <2>2. CASE T # {}
    <3>1. PICK x \in T : a[T] = f[x] + a[T \ {x}]
      BY <1>2, <2>2 DEF Sums
    <3>2. b[(T \ {x}) \cap E] <= a[T \ {x}]
      BY <1>5
    <3>3. f[x] \in Nat /\ a[T \ {x}] \in Nat /\ b[(T \ {x}) \cap E] \in Nat
            /\ b[T \cap E] \in Nat
      BY <1>2, <1>3
    <3>4. CASE x \in E
      <4>1. b[T \cap E] = g[x] + b[(T \cap E) \ {x}]
        BY <1>4, <3>4 DEF AnyOrder
      <4>2. (T \cap E) \ {x} = (T \ {x}) \cap E
        OBVIOUS
      <4>3. g[x] \in Nat /\ g[x] <= f[x]
        BY <3>4
      <4>4. b[T \cap E] = g[x] + b[(T \ {x}) \cap E]
        BY <4>1, <4>2, Zenon
      <4>. DEFINE p == b[(T \ {x}) \cap E]
                  q == b[T \cap E]
      <4>5. p \in Nat /\ q = g[x] + p /\ p <= a[T \ {x}]
        BY <3>2, <3>3, <4>4, Zenon
      <4>. HIDE DEF p, q
      <4>6. q <= a[T]
        BY <3>1, <3>3, <4>3, <4>5
      <4>. QED BY <4>6 DEF q
    <3>5. CASE x \notin E
      <4>1. T \cap E = (T \ {x}) \cap E
        BY <3>5
      <4>2. b[T \cap E] <= a[T \ {x}]
        BY <3>2, <4>1, Zenon
      <4>. DEFINE q == b[T \cap E]
      <4>3. q \in Nat /\ q <= a[T \ {x}]
        BY <3>3, <4>2
      <4>. HIDE DEF q
      <4>4. q <= a[T]
        BY <3>1, <3>3, <4>3
      <4>. QED BY <4>4 DEF q
    <3>. QED BY <3>4, <3>5
  <2>. QED BY <2>1, <2>2
<1>6. b[D \cap E] <= a[D]
  <2>. HIDE DEF F
  <2>1. \A T \in SUBSET D : T \in F
    BY <1>5, AllSubsets
  <2>. QED BY <2>1 DEF F
<1>7. D \cap E = E
  OBVIOUS
<1>8. a[D] \in Nat /\ b[E] \in Nat
  OBVIOUS
<1>. QED BY <1>2, <1>3, <1>6, <1>7, <1>8

(* The tool memory. *)

Entries(I) == [id : I, block : Blocks, think : BOOLEAN]
Memories(I) == [list : Seq(Entries(I)), refs : [Blocks -> Nat], bytes : Nat]

\* An id has one entry.
Unique(list) == \A i, j \in 1 .. Len(list) : list[i].id = list[j].id => i = j

Holders(list, b) == {e \in ToSet(list) : e.block = b}
Used(m) == {b \in Blocks : m.refs[b] > 0}

\* The memories of ids in I whose counters are exact, and those within the limits.
Counted(I) ==
    {m \in Memories(I) :
        /\ Unique(m.list)
        /\ \A b \in Blocks : m.refs[b] = Cardinality(Holders(m.list, b))
        /\ m.bytes = EntryBytes * Len(m.list) + BlockBytes * Cardinality(Used(m))}
Limited(I) == {m \in Counted(I) : ~Over(m)}

\* What RemoveAt leaves.
LEMMA RemoveAtFacts ==
    ASSUME NEW X, NEW s \in Seq(X), NEW i \in 1 .. Len(s)
    PROVE  /\ RemoveAt(s, i) \in Seq(X) /\ Len(RemoveAt(s, i)) = Len(s) - 1
           /\ \A k \in 1 .. Len(s) - 1 :
                 RemoveAt(s, i)[k] = IF k < i THEN s[k] ELSE s[k + 1]
<1>. DEFINE a == SubSeq(s, 1, i - 1)
            b == SubSeq(s, i + 1, Len(s))
<1>1. Len(s) \in Nat /\ i \in Nat /\ 1 <= i /\ i <= Len(s)
  OBVIOUS
<1>2. a \in Seq(X) /\ Len(a) = i - 1 /\ \A k \in 1 .. i - 1 : a[k] = s[k]
  BY <1>1
<1>3. b \in Seq(X) /\ Len(b) = Len(s) - i /\ \A k \in 1 .. Len(s) - i : b[k] = s[i + k]
  BY <1>1
<1>. HIDE DEF a, b
<1>4. /\ a \o b \in Seq(X) /\ Len(a \o b) = Len(a) + Len(b)
      /\ \A k \in 1 .. Len(a) + Len(b) :
            (a \o b)[k] = IF k <= Len(a) THEN a[k] ELSE b[k - Len(a)]
  BY <1>2, <1>3, ConcatProperties
<1>5. ASSUME NEW k \in 1 .. Len(s) - 1
      PROVE  (a \o b)[k] = IF k < i THEN s[k] ELSE s[k + 1]
  <2>1. CASE k < i
    BY <1>1, <1>2, <1>3, <1>4, <2>1
  <2>2. CASE k >= i
    <3>. DEFINE j == k - (i - 1)
    <3>1. j \in 1 .. Len(s) - i /\ i + j = k + 1
      BY <1>1, <2>2
    <3>2. (a \o b)[k] = b[j]
      BY <1>1, <1>2, <1>3, <1>4, <2>2
    <3>. HIDE DEF j
    <3>3. b[j] = s[i + j]
      BY <1>3, <3>1
    <3>4. (a \o b)[k] = s[k + 1]
      BY <3>1, <3>2, <3>3
    <3>5. ~(k < i)
      BY <1>1, <2>2
    <3>. QED BY <3>4, <3>5
  <2>3. k < i \/ k >= i
    BY <1>1
  <2>. QED BY <2>1, <2>2, <2>3
<1>6. RemoveAt(s, i) = a \o b
  BY DEF RemoveAt, a, b
<1>7. a \o b \in Seq(X) /\ Len(a \o b) = Len(s) - 1
  BY <1>1, <1>2, <1>3, <1>4
<1>. QED BY ONLY <1>5, <1>6, <1>7, Zenon

\* What an entry put in front of a list moves.
LEMMA PushFacts ==
    ASSUME NEW X, NEW s \in Seq(X), NEW e \in X
    PROVE  /\ <<e>> \o s \in Seq(X) /\ Len(<<e>> \o s) = Len(s) + 1
           /\ (<<e>> \o s)[1] = e
           /\ \A k \in 1 .. Len(s) : (<<e>> \o s)[k + 1] = s[k]
OBVIOUS

\* The elements of a list.
LEMMA ToSetFacts ==
    ASSUME NEW X, NEW s \in Seq(X)
    PROVE  /\ \A i \in 1 .. Len(s) : s[i] \in ToSet(s)
           /\ \A e \in ToSet(s) : e \in X /\ \E i \in 1 .. Len(s) : e = s[i]
           /\ IsFiniteSet(ToSet(s))
<1>1. \A i \in 1 .. Len(s) : s[i] \in ToSet(s)
  BY DEF ToSet
<1>2. \A e \in ToSet(s) : e \in X /\ \E i \in 1 .. Len(s) : e = s[i]
  BY DEF ToSet
<1>3. [i \in 1 .. Len(s) |-> s[i]] \in Surjection(1 .. Len(s), ToSet(s))
  BY <1>1, <1>2 DEF Surjection
<1>4. Len(s) \in Nat /\ IsFiniteSet(1 .. Len(s))
  BY FS_Interval
<1>5. IsFiniteSet(ToSet(s))
  BY <1>3, <1>4, FS_Surjection
<1>. QED BY <1>1, <1>2, <1>5

\* What a list without its entry at i holds.
LEMMA RemovedSet ==
    ASSUME NEW I, NEW list \in Seq(Entries(I)), Unique(list), NEW i \in 1 .. Len(list)
    PROVE  /\ RemoveAt(list, i) \in Seq(Entries(I))
           /\ Len(RemoveAt(list, i)) = Len(list) - 1
           /\ Unique(RemoveAt(list, i))
           /\ ToSet(RemoveAt(list, i)) = ToSet(list) \ {list[i]}
           /\ \A k \in 1 .. Len(list) - 1 : RemoveAt(list, i)[k].id # list[i].id
<1>. DEFINE r == RemoveAt(list, i)
<1>1. /\ r \in Seq(Entries(I)) /\ Len(r) = Len(list) - 1
      /\ \A k \in 1 .. Len(list) - 1 : r[k] = IF k < i THEN list[k] ELSE list[k + 1]
  BY RemoveAtFacts
<1>. HIDE DEF r
<1>2. Len(list) \in Nat
  OBVIOUS
<1>3. Unique(r)
  BY <1>1, <1>2 DEF Unique
<1>4. \A k \in 1 .. Len(list) - 1 : r[k].id # list[i].id /\ r[k] \in ToSet(list)
  <2>. TAKE k \in 1 .. Len(list) - 1
  <2>1. PICK j \in 1 .. Len(list) : r[k] = list[j] /\ j # i
    BY <1>1, <1>2
  <2>. QED BY <2>1, ToSetFacts DEF Unique
<1>5. ToSet(r) = ToSet(list) \ {list[i]}
  <2>1. ASSUME NEW e \in ToSet(r) PROVE e \in ToSet(list) \ {list[i]}
    <3>1. PICK k \in 1 .. Len(list) - 1 : e = r[k]
      BY <1>1, ToSetFacts
    <3>. QED BY <1>4, <3>1
  <2>2. ASSUME NEW e \in ToSet(list) \ {list[i]} PROVE e \in ToSet(r)
    <3>1. PICK j \in 1 .. Len(list) : e = list[j] /\ j # i
      BY ToSetFacts
    <3>2. CASE j < i
      <4>1. j \in 1 .. Len(list) - 1 /\ r[j] = e
        BY <1>1, <1>2, <3>1, <3>2
      <4>. QED BY <1>1, <4>1, ToSetFacts
    <3>3. CASE j > i
      <4>1. j - 1 \in 1 .. Len(list) - 1 /\ r[j - 1] = e
        BY <1>1, <1>2, <3>1, <3>3
      <4>. QED BY <1>1, <4>1, ToSetFacts
    <3>. QED BY <3>1, <3>2, <3>3
  <2>. QED BY <2>1, <2>2
<1>. QED BY <1>1, <1>3, <1>4, <1>5 DEF r

\* What a list with a new entry in front holds.
LEMMA PushedSet ==
    ASSUME NEW I, NEW list \in Seq(Entries(I)), Unique(list), NEW e \in Entries(I),
           \A k \in 1 .. Len(list) : list[k].id # e.id
    PROVE  /\ <<e>> \o list \in Seq(Entries(I)) /\ Len(<<e>> \o list) = Len(list) + 1
           /\ Unique(<<e>> \o list)
           /\ ToSet(<<e>> \o list) = ToSet(list) \cup {e}
<1>. DEFINE r == <<e>> \o list
<1>1. /\ r \in Seq(Entries(I)) /\ Len(r) = Len(list) + 1
      /\ r[1] = e /\ \A k \in 1 .. Len(list) : r[k + 1] = list[k]
  BY PushFacts
<1>. HIDE DEF r
<1>2. Len(list) \in Nat
  OBVIOUS
<1>3. \A k \in 2 .. Len(r) : k - 1 \in 1 .. Len(list) /\ r[k] = list[k - 1]
  <2>. TAKE k \in 2 .. Len(r)
  <2>1. k - 1 \in 1 .. Len(list) /\ (k - 1) + 1 = k
    BY <1>1, <1>2
  <2>. QED BY <1>1, <2>1
<1>4. Unique(r)
  <2>. SUFFICES ASSUME NEW i \in 1 .. Len(r), NEW j \in 1 .. Len(r), r[i].id = r[j].id
       PROVE  i = j
    BY DEF Unique
  <2>1. \A k \in 1 .. Len(r) : k = 1 \/ k \in 2 .. Len(r)
    BY <1>1, <1>2
  <2>2. CASE i = 1 /\ j = 1
    BY <2>2
  <2>3. CASE i = 1 /\ j \in 2 .. Len(r)
    BY <1>1, <1>3, <2>3
  <2>4. CASE i \in 2 .. Len(r) /\ j = 1
    BY <1>1, <1>3, <2>4
  <2>5. CASE i \in 2 .. Len(r) /\ j \in 2 .. Len(r)
    <3>1. i - 1 = j - 1
      BY <1>3, <2>5 DEF Unique
    <3>. QED BY <3>1
  <2>. QED BY <2>1, <2>2, <2>3, <2>4, <2>5
<1>5. ToSet(r) = ToSet(list) \cup {e}
  <2>1. ASSUME NEW x \in ToSet(r) PROVE x \in ToSet(list) \cup {e}
    <3>1. PICK k \in 1 .. Len(r) : x = r[k]
      BY <1>1, ToSetFacts
    <3>2. CASE k = 1
      BY <1>1, <3>1, <3>2
    <3>3. CASE k \in 2 .. Len(r)
      BY <1>3, <3>1, <3>3, ToSetFacts
    <3>. QED BY <1>1, <1>2, <3>2, <3>3
  <2>2. e \in ToSet(r)
    <3>1. 1 \in 1 .. Len(r)
      BY <1>1, <1>2
    <3>. QED BY <1>1, <3>1, ToSetFacts
  <2>3. ASSUME NEW x \in ToSet(list) PROVE x \in ToSet(r)
    <3>1. PICK k \in 1 .. Len(list) : x = list[k]
      BY ToSetFacts
    <3>2. k + 1 \in 1 .. Len(r) /\ r[k + 1] = x
      BY <1>1, <1>2, <3>1
    <3>. QED BY <1>1, <3>2, ToSetFacts
  <2>. QED BY <2>1, <2>2, <2>3
<1>. QED BY <1>1, <1>4, <1>5 DEF r

\* The entries that share a block and the blocks in use can be counted.
LEMMA Countable ==
    ASSUME NEW I, NEW m \in Counted(I)
    PROVE  /\ \A b \in Blocks : IsFiniteSet(Holders(m.list, b))
           /\ IsFiniteSet(Used(m))
           /\ \A b \in Blocks : b \in Used(m) <=> Holders(m.list, b) # {}
<1>1. m.list \in Seq(Entries(I)) /\ m.refs \in [Blocks -> Nat]
        /\ \A b \in Blocks : m.refs[b] = Cardinality(Holders(m.list, b))
  BY DEF Counted, Memories
<1>2. IsFiniteSet(ToSet(m.list)) /\ \A e \in ToSet(m.list) : e \in Entries(I)
  BY <1>1, ToSetFacts
<1>3. \A b \in Blocks : IsFiniteSet(Holders(m.list, b))
  BY <1>2, FS_Subset DEF Holders
<1>4. ASSUME NEW b \in Blocks PROVE b \in Used(m) <=> Holders(m.list, b) # {}
  <2>1. Cardinality(Holders(m.list, b)) = 0 <=> Holders(m.list, b) = {}
    BY <1>3, FS_EmptySet
  <2>. QED BY <1>1, <2>1 DEF Used
<1>5. [e \in ToSet(m.list) |-> e.block] \in Surjection(ToSet(m.list), Used(m))
  <2>1. ASSUME NEW e \in ToSet(m.list) PROVE e.block \in Used(m)
    <3>1. e.block \in Blocks /\ e \in Holders(m.list, e.block)
      BY <1>2 DEF Entries, Holders
    <3>. QED BY <1>4, <3>1
  <2>2. \A b \in Used(m) : \E e \in ToSet(m.list) : e.block = b
    BY <1>4 DEF Holders, Used
  <2>. QED BY <2>1, <2>2 DEF Surjection
<1>6. IsFiniteSet(Used(m))
  BY <1>2, <1>5, FS_Surjection
<1>. QED BY <1>3, <1>4, <1>6

\* An id of the memory is where Position finds it.
LEMMA FoundAt ==
    ASSUME NEW m, NEW id \in Ids(m)
    PROVE  /\ Position(m, id) \in 1 .. Len(m.list)
           /\ m.list[Position(m, id)].id = id
BY DEF Ids, Position

\* tool_memory_remove_entry_locked: the counters stay exact.
LEMMA RemovedKeeps ==
    ASSUME NEW I, NEW m \in Counted(I), NEW id \in Ids(m)
    PROVE  /\ Removed(m, id) \in Counted(I)
           /\ Len(Removed(m, id).list) = Len(m.list) - 1
           /\ id \notin Ids(Removed(m, id))
<1>. DEFINE i == Position(m, id)
            e == m.list[i]
            b == e.block
            list == RemoveAt(m.list, i)
            refs == [m.refs EXCEPT ![b] = @ - 1]
            bytes == m.bytes - EntryBytes - (IF m.refs[b] = 1 THEN BlockBytes ELSE 0)
            r == [list |-> list, refs |-> refs, bytes |-> bytes]
<1>1. i \in 1 .. Len(m.list) /\ e.id = id
  BY FoundAt
<1>2. m \in Memories(I) /\ m.list \in Seq(Entries(I)) /\ m.refs \in [Blocks -> Nat] /\ m.bytes \in Nat
        /\ Unique(m.list) /\ (\A c \in Blocks : m.refs[c] = Cardinality(Holders(m.list, c)))
        /\ m.bytes = EntryBytes * Len(m.list) + BlockBytes * Cardinality(Used(m))
  BY DEF Counted, Memories
<1>3. Removed(m, id) = r
  <2>. DEFINE m1 == [list |-> list, refs |-> m.refs, bytes |-> m.bytes - EntryBytes]
  <2>1. [m EXCEPT !.list = RemoveAt(@, i), !.bytes = @ - EntryBytes] = m1
    <3>1. [m EXCEPT !.list = RemoveAt(@, i), !.bytes = @ - EntryBytes]
            = [m EXCEPT !.list = list, !.bytes = m.bytes - EntryBytes]
      BY Zenon
    <3>2. list \in Seq(Entries(I)) /\ m.bytes - EntryBytes \in Int
      BY <1>1, <1>2, RemoveAtFacts DEF EntryBytes
    <3>3. m \in [list : Seq(Entries(I)), refs : [Blocks -> Nat], bytes : Int]
      BY <1>2 DEF Memories
    <3>. DEFINE L == Seq(Entries(I))
                R == [Blocks -> Nat]
                n == m.bytes - EntryBytes
    <3>4. list \in L /\ n \in Int /\ m \in [list : L, refs : R, bytes : Int]
      BY <3>2, <3>3
    <3>. HIDE DEF list, L, R, n
    <3>5. [m EXCEPT !.list = list, !.bytes = n] = [list |-> list, refs |-> m.refs, bytes |-> n]
      <4>. DEFINE q == [m EXCEPT !.list = list, !.bytes = n]
      <4>1. q \in [list : L, refs : R, bytes : Int]
        BY ONLY <3>4
      <4>2. q.list = list /\ q.refs = m.refs /\ q.bytes = n
        BY ONLY <3>4
      <4>. HIDE DEF q
      <4>3. q = [list |-> q.list, refs |-> q.refs, bytes |-> q.bytes]
        BY ONLY <4>1
      <4>4. q = [list |-> list, refs |-> m.refs, bytes |-> n]
        BY ONLY <4>2, <4>3
      <4>. QED BY <4>4 DEF q
    <3>. QED BY <3>1, <3>5, Zenon DEF n
  <2>2. Removed(m, id) = Released(m1, b)
    BY <2>1, Zenon DEF Removed, Entry
  <2>. HIDE DEF list, b
  <2>. QED BY <2>2 DEF Released
<1>. HIDE DEF i
<1>4. e \in Entries(I) /\ b \in Blocks /\ e \in ToSet(m.list)
  <2>1. e \in Entries(I) /\ e \in ToSet(m.list)
    <3>. HIDE DEF b
    <3>. QED BY <1>1, <1>2, ToSetFacts
  <2>. QED BY <2>1 DEF Entries
<1>. HIDE DEF e
<1>5. /\ list \in Seq(Entries(I)) /\ Len(list) = Len(m.list) - 1 /\ Unique(list)
      /\ ToSet(list) = ToSet(m.list) \ {e}
      /\ \A k \in 1 .. Len(m.list) - 1 : list[k].id # id
  BY <1>1, <1>2, RemovedSet DEF e
<1>. HIDE DEF list
<1>6. /\ \A c \in Blocks : IsFiniteSet(Holders(m.list, c))
      /\ IsFiniteSet(Used(m))
      /\ \A c \in Blocks : c \in Used(m) <=> Holders(m.list, c) # {}
  BY Countable
<1>7. b \in Used(m) /\ e \in Holders(m.list, b) /\ m.refs[b] \in Nat /\ m.refs[b] > 0
  BY <1>2, <1>4, <1>6 DEF Holders, Used, b
<1>. HIDE DEF b
<1>8. refs \in [Blocks -> Nat]
  <2>1. m.refs[b] - 1 \in Nat
    BY <1>7
  <2>. QED BY <1>2, <2>1
<1>9. ASSUME NEW c \in Blocks PROVE refs[c] = Cardinality(Holders(list, c))
  <2>1. CASE c = b
    <3>1. Holders(list, c) = Holders(m.list, c) \ {e}
      BY <1>5 DEF Holders
    <3>2. Cardinality(Holders(list, c)) = Cardinality(Holders(m.list, c)) - 1
      <4>1. IsFiniteSet(Holders(m.list, c)) /\ e \in Holders(m.list, c)
        BY <1>6, <1>7, <2>1
      <4>2. Cardinality(Holders(m.list, c) \ {e}) = Cardinality(Holders(m.list, c)) - 1
        BY <4>1, FS_RemoveElement
      <4>. QED BY <3>1, <4>2
    <3>3. refs[c] = m.refs[c] - 1
      BY <1>2, <2>1
    <3>. QED BY <1>2, <3>2, <3>3
  <2>2. CASE c # b
    <3>1. Holders(list, c) = Holders(m.list, c)
      BY <1>5, <2>2 DEF Holders, b
    <3>2. refs[c] = m.refs[c]
      BY <1>2, <2>2
    <3>. QED BY <1>2, <3>1, <3>2
  <2>. QED BY <2>1, <2>2
<1>10. Used(r) = IF m.refs[b] = 1 THEN Used(m) \ {b} ELSE Used(m)
  <2>1. \A c \in Blocks : refs[c] = IF c = b THEN m.refs[c] - 1 ELSE m.refs[c]
    BY <1>2
  <2>2. \A c \in Blocks : m.refs[c] \in Nat
    BY <1>2
  <2>. HIDE DEF refs
  <2>. QED BY <1>7, <2>1, <2>2 DEF Used
<1>11. Cardinality(Used(m)) \in Nat /\ Cardinality(Used(m)) > 0
  <2>1. Used(m) # {}
    BY <1>7
  <2>. QED BY <1>6, <2>1, FS_CardinalityType, FS_EmptySet
<1>12. Cardinality(Used(r)) = Cardinality(Used(m)) - (IF m.refs[b] = 1 THEN 1 ELSE 0)
  <2>1. Cardinality(Used(m) \ {b}) = Cardinality(Used(m)) - 1
    BY <1>6, <1>7, FS_RemoveElement
  <2>. HIDE DEF r
  <2>. QED BY <1>10, <1>11, <2>1
<1>13. Len(m.list) \in Nat /\ Len(m.list) > 0
  BY <1>1, <1>2
<1>14. bytes = EntryBytes * Len(list) + BlockBytes * Cardinality(Used(r)) /\ bytes \in Nat
  <2>. HIDE DEF r
  <2>1. Len(list) \in Nat /\ Cardinality(Used(r)) \in Nat
    BY <1>5, <1>11, <1>12, <1>13
  <2>2. bytes = Len(list) + 2 * Cardinality(Used(r))
    <3>1. m.bytes = Len(m.list) + 2 * Cardinality(Used(m)) /\ m.bytes \in Nat
      BY <1>2, <1>11, <1>13 DEF EntryBytes, BlockBytes
    <3>2. bytes = m.bytes - 1 - (IF m.refs[b] = 1 THEN 2 ELSE 0)
      BY DEF EntryBytes, BlockBytes
    <3>. DEFINE n == Len(m.list)
                k == Len(list)
                u == Cardinality(Used(m))
                v == Cardinality(Used(r))
                lastOne == m.refs[b] = 1
                total == m.bytes
    <3>3. /\ n \in Nat /\ n > 0 /\ k = n - 1 /\ u \in Nat /\ u > 0
          /\ v = u - (IF lastOne THEN 1 ELSE 0)
          /\ total = n + 2 * u /\ total \in Nat
          /\ bytes = total - 1 - (IF lastOne THEN 2 ELSE 0)
      BY <1>5, <1>11, <1>12, <1>13, <3>1, <3>2
    <3>. HIDE DEF bytes, n, k, u, v, lastOne, total
    <3>4. bytes = k + 2 * v
      BY ONLY <3>3
    <3>. QED BY <3>4 DEF k, v
  <2>. QED BY <2>1, <2>2 DEF EntryBytes, BlockBytes
<1>. HIDE DEF refs, bytes
<1>15. r \in Memories(I) /\ r.list = list /\ r.refs = refs /\ r.bytes = bytes
  BY <1>5, <1>8, <1>14 DEF Memories
<1>. HIDE DEF r
<1>16. r \in Counted(I)
  BY <1>5, <1>9, <1>14, <1>15 DEF Counted
<1>17. id \notin Ids(r)
  BY <1>5, <1>15 DEF Ids
<1>. QED BY <1>3, <1>5, <1>15, <1>16, <1>17

\* A new entry in front keeps the counters exact.
LEMMA InsertedKeeps ==
    ASSUME NEW I, NEW m \in Counted(I), NEW id \in I, id \notin Ids(m), NEW b \in Blocks
    PROVE  Inserted(m, id, b) \in Counted(I)
<1>. DEFINE e == [id |-> id, block |-> b, think |-> FALSE]
            list == <<e>> \o m.list
            refs == [m.refs EXCEPT ![b] = @ + 1]
            bytes == m.bytes + EntryBytes + (IF m.refs[b] = 0 THEN BlockBytes ELSE 0)
            r == [list |-> list, refs |-> refs, bytes |-> bytes]
<1>1. m \in Memories(I) /\ m.list \in Seq(Entries(I)) /\ m.refs \in [Blocks -> Nat] /\ m.bytes \in Nat
        /\ Unique(m.list) /\ (\A c \in Blocks : m.refs[c] = Cardinality(Holders(m.list, c)))
        /\ m.bytes = EntryBytes * Len(m.list) + BlockBytes * Cardinality(Used(m))
  BY DEF Counted, Memories
<1>2. Inserted(m, id, b) = r
  BY DEF Inserted
<1>3. e \in Entries(I) /\ e.id = id /\ e.block = b
  BY DEF Entries
<1>4. \A k \in 1 .. Len(m.list) : m.list[k].id # id
  BY DEF Ids
<1>. HIDE DEF e
<1>5. /\ list \in Seq(Entries(I)) /\ Len(list) = Len(m.list) + 1 /\ Unique(list)
      /\ ToSet(list) = ToSet(m.list) \cup {e}
  BY <1>1, <1>3, <1>4, PushedSet
<1>6. e \notin ToSet(m.list)
  BY <1>1, <1>3, <1>4, ToSetFacts
<1>. HIDE DEF list
<1>7. /\ \A c \in Blocks : IsFiniteSet(Holders(m.list, c))
      /\ IsFiniteSet(Used(m))
      /\ \A c \in Blocks : c \in Used(m) <=> Holders(m.list, c) # {}
  BY Countable
<1>8. refs \in [Blocks -> Nat]
  BY <1>1
<1>9. ASSUME NEW c \in Blocks PROVE refs[c] = Cardinality(Holders(list, c))
  <2>1. CASE c = b
    <3>1. Holders(list, c) = Holders(m.list, c) \cup {e}
      BY <1>3, <1>5, <2>1 DEF Holders
    <3>2. Cardinality(Holders(list, c)) = Cardinality(Holders(m.list, c)) + 1
      <4>1. IsFiniteSet(Holders(m.list, c)) /\ e \notin Holders(m.list, c)
        BY <1>6, <1>7 DEF Holders
      <4>. QED BY <3>1, <4>1, FS_AddElement
    <3>3. refs[c] = m.refs[c] + 1
      BY <1>1, <2>1
    <3>. QED BY <1>1, <3>2, <3>3
  <2>2. CASE c # b
    <3>1. Holders(list, c) = Holders(m.list, c)
      BY <1>3, <1>5, <2>2 DEF Holders
    <3>2. refs[c] = m.refs[c]
      BY <1>1, <2>2
    <3>. QED BY <1>1, <3>1, <3>2
  <2>. QED BY <2>1, <2>2
<1>10. m.refs[b] \in Nat /\ (m.refs[b] = 0 <=> b \notin Used(m))
  <2>1. m.refs[b] \in Nat
    BY <1>1
  <2>. QED BY <2>1 DEF Used
<1>11. Used(r) = Used(m) \cup {b}
  <2>1. \A c \in Blocks : refs[c] = IF c = b THEN m.refs[c] + 1 ELSE m.refs[c]
    BY <1>1
  <2>2. \A c \in Blocks : m.refs[c] \in Nat
    BY <1>1
  <2>. HIDE DEF refs
  <2>. QED BY <2>1, <2>2 DEF Used
<1>12. Cardinality(Used(m)) \in Nat
  BY <1>7, FS_CardinalityType
<1>13. Cardinality(Used(r)) = Cardinality(Used(m)) + (IF m.refs[b] = 0 THEN 1 ELSE 0)
  <2>1. b \notin Used(m) => Cardinality(Used(m) \cup {b}) = Cardinality(Used(m)) + 1
    BY <1>7, FS_AddElement
  <2>2. b \in Used(m) => Used(m) \cup {b} = Used(m)
    OBVIOUS
  <2>. HIDE DEF r
  <2>3. CASE m.refs[b] = 0
    BY <1>10, <1>11, <1>12, <2>1, <2>3
  <2>4. CASE m.refs[b] # 0
    <3>1. Used(r) = Used(m)
      BY <1>10, <1>11, <2>2, <2>4
    <3>. QED BY <1>12, <2>4, <3>1
  <2>. QED BY <2>3, <2>4
<1>14. bytes = EntryBytes * Len(list) + BlockBytes * Cardinality(Used(r)) /\ bytes \in Nat
  <2>. HIDE DEF r
  <2>1. Len(m.list) \in Nat
    BY <1>1
  <2>2. m.bytes = Len(m.list) + 2 * Cardinality(Used(m)) /\ m.bytes \in Nat
    BY <1>1, <1>12, <2>1 DEF EntryBytes, BlockBytes
  <2>3. bytes = m.bytes + 1 + (IF m.refs[b] = 0 THEN 2 ELSE 0)
    BY DEF EntryBytes, BlockBytes
  <2>4. Len(list) \in Nat /\ Cardinality(Used(r)) \in Nat
    BY <1>5, <1>12, <1>13, <2>1
  <2>. HIDE DEF bytes
  <2>5. bytes = Len(list) + 2 * Cardinality(Used(r)) /\ bytes \in Nat
    <3>. DEFINE n == Len(m.list)
                k == Len(list)
                u == Cardinality(Used(m))
                v == Cardinality(Used(r))
                first == m.refs[b] = 0
                total == m.bytes
    <3>1. /\ n \in Nat /\ k = n + 1 /\ u \in Nat
          /\ v = u + (IF first THEN 1 ELSE 0)
          /\ total = n + 2 * u /\ total \in Nat
          /\ bytes = total + 1 + (IF first THEN 2 ELSE 0)
      BY <1>5, <1>12, <1>13, <2>1, <2>2, <2>3
    <3>. HIDE DEF n, k, u, v, first, total
    <3>2. bytes = k + 2 * v /\ bytes \in Nat
      BY ONLY <3>1
    <3>. QED BY <3>2 DEF k, v
  <2>. QED BY <2>4, <2>5 DEF EntryBytes, BlockBytes
<1>. HIDE DEF refs, bytes
<1>15. r \in Memories(I) /\ r.list = list /\ r.refs = refs /\ r.bytes = bytes
  BY <1>5, <1>8, <1>14 DEF Memories
<1>. HIDE DEF r
<1>16. r \in Counted(I)
  BY <1>5, <1>9, <1>14, <1>15 DEF Counted
<1>. QED BY <1>2, <1>16

\* tool_memory_touch: only the order of use changes.
LEMMA TouchedKeeps ==
    ASSUME NEW I, NEW m \in Counted(I), NEW id \in Ids(m)
    PROVE  /\ Touched(m, id) \in Counted(I)
           /\ ~Over(m) => ~Over(Touched(m, id))
<1>. DEFINE i == Position(m, id)
            e == m.list[i]
            rest == RemoveAt(m.list, i)
            list == <<e>> \o rest
            r == [m EXCEPT !.list = list]
<1>1. i \in 1 .. Len(m.list) /\ e.id = id
  BY FoundAt
<1>2. m \in Memories(I) /\ m.list \in Seq(Entries(I)) /\ m.refs \in [Blocks -> Nat] /\ m.bytes \in Nat
        /\ Unique(m.list) /\ (\A c \in Blocks : m.refs[c] = Cardinality(Holders(m.list, c)))
        /\ m.bytes = EntryBytes * Len(m.list) + BlockBytes * Cardinality(Used(m))
  BY DEF Counted, Memories
<1>3. Touched(m, id) = r
  BY Zenon DEF Touched, Entry
<1>. HIDE DEF i
<1>4. e \in Entries(I) /\ e \in ToSet(m.list)
  BY <1>1, <1>2, ToSetFacts
<1>5. /\ rest \in Seq(Entries(I)) /\ Len(rest) = Len(m.list) - 1 /\ Unique(rest)
      /\ ToSet(rest) = ToSet(m.list) \ {e}
      /\ \A k \in 1 .. Len(m.list) - 1 : rest[k].id # e.id
  <2>1. /\ RemoveAt(m.list, i) \in Seq(Entries(I))
        /\ Len(RemoveAt(m.list, i)) = Len(m.list) - 1
        /\ Unique(RemoveAt(m.list, i))
        /\ ToSet(RemoveAt(m.list, i)) = ToSet(m.list) \ {m.list[i]}
        /\ \A k \in 1 .. Len(m.list) - 1 : RemoveAt(m.list, i)[k].id # m.list[i].id
    <3>1. m.list \in Seq(Entries(I)) /\ Unique(m.list) /\ i \in 1 .. Len(m.list)
      BY <1>1, <1>2
    <3>. QED BY ONLY <3>1, RemovedSet
  <2>. QED BY <2>1
<1>. HIDE DEF e, rest
<1>6. /\ list \in Seq(Entries(I)) /\ Len(list) = Len(rest) + 1 /\ Unique(list)
      /\ ToSet(list) = ToSet(rest) \cup {e}
  BY <1>4, <1>5, PushedSet
<1>. HIDE DEF list
<1>7. Len(list) = Len(m.list) /\ ToSet(list) = ToSet(m.list)
  <2>1. Len(m.list) \in Nat
    BY <1>2
  <2>. QED BY <1>4, <1>5, <1>6, <2>1
<1>8. r \in Memories(I) /\ r.list = list /\ r.refs = m.refs /\ r.bytes = m.bytes
  BY <1>2, <1>6 DEF Memories
<1>. HIDE DEF r
<1>9. Used(r) = Used(m) /\ \A c \in Blocks : Holders(list, c) = Holders(m.list, c)
  BY <1>7, <1>8 DEF Used, Holders
<1>10. r \in Counted(I)
  BY <1>2, <1>6, <1>7, <1>8, <1>9 DEF Counted
<1>11. ~Over(m) => ~Over(r)
  BY <1>7, <1>8 DEF Over
<1>. QED BY <1>3, <1>10, <1>11

\* What every step of a fold preserves holds of all it has folded.
LEMMA StaysIn ==
    ASSUME NEW S, IsFiniteSet(S), NEW it, NEW V, it[{}] \in V,
           \A T \in SUBSET S : T # {} => \E x \in T : it[T \ {x}] \in V => it[T] \in V
    PROVE  \A T \in SUBSET S : it[T] \in V
<1>. DEFINE F == {T \in SUBSET S : it[T] \in V}
<1>1. ASSUME NEW T \in SUBSET S, \A U \in SUBSET T : U # T => U \in F
      PROVE  T \in F
  <2>1. CASE T = {}
    BY <2>1
  <2>2. CASE T # {}
    <3>1. PICK x \in T : it[T \ {x}] \in V => it[T] \in V
      BY <2>2
    <3>2. T \ {x} \in F
      BY <1>1
    <3>. QED BY <3>1, <3>2
  <2>. QED BY <2>1, <2>2
<1>. HIDE DEF F
<1>2. \A T \in SUBSET S : T \in F
  BY <1>1, AllSubsets
<1>. QED BY <1>2 DEF F

\* The last index of a sequence's, which folds over one take first.
LEMMA MaxPicks ==
    ASSUME NEW n \in Nat
    PROVE  \A T \in SUBSET (1 .. n) : T # {} => Max(T) \in T
<1>. SUFFICES ASSUME NEW T \in SUBSET (1 .. n), T # {} PROVE Max(T) \in T
  OBVIOUS
<1>1. \E x \in T : \A y \in T : x >= y
  <2>. DEFINE R == {n - k : k \in T}
  <2>1. R \in SUBSET Nat /\ R # {}
    <3>1. \A k \in T : n - k \in Nat
      OBVIOUS
    <3>. QED BY <3>1
  <2>2. PICK r \in R : \A k \in R : r <= k
    BY <2>1, HasLeast
  <2>3. PICK x \in T : r = n - x
    BY <2>2
  <2>4. ASSUME NEW y \in T PROVE x >= y
    <3>1. n - x <= n - y
      BY <2>2, <2>3
    <3>2. x \in Nat /\ y \in Nat
      OBVIOUS
    <3>. QED BY <3>1, <3>2
  <2>. QED BY <2>4
<1>. QED BY <1>1 DEF Max

\* A memory over a limit has an entry to give up.
LEMMA OverHasOne ==
    ASSUME NEW I, NEW m \in Counted(I), Over(m)
    PROVE  /\ Len(m.list) \in Nat \ {0}
           /\ Last(m.list).id \in Ids(m)
<1>1. m.list \in Seq(Entries(I)) /\ m.refs \in [Blocks -> Nat] /\ m.bytes \in Nat
        /\ m.bytes = EntryBytes * Len(m.list) + BlockBytes * Cardinality(Used(m))
  BY DEF Counted, Memories
<1>2. Len(m.list) \in Nat
  BY <1>1
<1>3. ASSUME Len(m.list) = 0 PROVE FALSE
  <2>1. ToSet(m.list) = {}
    BY <1>1, <1>3, ToSetFacts
  <2>2. Used(m) = {}
    <3>1. \A b \in Blocks : Holders(m.list, b) = {}
      BY <2>1 DEF Holders
    <3>. QED BY <3>1, Countable DEF Used
  <2>3. m.bytes = 0
    BY <1>1, <1>3, <2>2, FS_EmptySet DEF EntryBytes, BlockBytes
  <2>. QED BY <1>3, <2>3, ToolMemoryAssumption DEF Over
<1>4. Len(m.list) \in 1 .. Len(m.list)
  BY <1>2, <1>3
<1>. QED BY <1>2, <1>3, <1>4 DEF Last, Ids

\* A round of the pruning.
Round(m) == IF Over(m) THEN Removed(m, Last(m.list).id) ELSE m

\* A round of the pruning keeps the counters exact, and takes an entry or ends
\* it.
LEMMA RoundKeeps ==
    ASSUME NEW I, NEW m \in Counted(I)
    PROVE  /\ Round(m) \in Counted(I)
           /\ Over(m) => Len(Round(m).list) = Len(m.list) - 1
BY OverHasOne, RemovedKeeps DEF Round

\* tool_memory_prune_locked ends within the limits.
LEMMA PrunedLimits ==
    ASSUME NEW I, NEW m \in Counted(I)
    PROVE  Pruned(m) \in Limited(I)
<1>. DEFINE n == Len(m.list)
            D == DOMAIN m.list
            V == Counted(I)
            pick == [T \in SUBSET D |-> Max(T)]
            step == [p \in D \X V |-> Round(p[2])]
            Runs(g) == g = [T \in SUBSET D |->
               IF T = {} THEN m ELSE Round(g[T \ {Max(T)}])]
            it == CHOOSE g : Runs(g)
<1>1. Pruned(m) = it[D]
  BY Zenon DEF Pruned, FoldLeft, MapThenFoldSet, Round
<1>2. n \in Nat /\ D = 1 .. n /\ IsFiniteSet(D) /\ Cardinality(D) = n
  <2>1. m.list \in Seq(Entries(I))
    BY DEF Counted, Memories
  <2>. QED BY <2>1, FS_Interval
<1>3. Picks(pick, D)
  BY <1>2, MaxPicks DEF Picks
<1>. HIDE DEF D, n
<1>4. step \in [D \X V -> V]
  <2>. HIDE DEF V
  <2>1. \A p \in D \X V : Round(p[2]) \in V
    BY RoundKeeps DEF V
  <2>. QED BY <2>1
<1>. HIDE DEF V
<1>5. PICK g \in [SUBSET D -> V] : Iterates(g, D, m, step, pick)
  <2>. HIDE DEF pick, step
  <2>1. m \in V
    BY DEF V
  <2>. QED BY <1>2, <1>3, <1>4, <2>1, IterationExists
<1>6. Runs(g)
  <2>1. ASSUME NEW T \in SUBSET D, T # {}
        PROVE  g[T] = Round(g[T \ {Max(T)}])
    <3>1. pick[T] \in D /\ pick[T] = Max(T) /\ g[T \ {Max(T)}] \in V
      BY <1>3, <2>1 DEF Picks
    <3>2. g[T] = step[<<pick[T], g[T \ {pick[T]}]>>]
      BY <1>5, <2>1 DEF Iterates
    <3>. HIDE DEF pick
    <3>. QED BY <3>1, <3>2
  <2>2. g[{}] = m
    BY <1>5 DEF Iterates
  <2>. QED BY <2>1, <2>2
<1>7. Runs(it)
  <2>. HIDE DEF Runs
  <2>. QED BY <1>6
<1>8. it[{}] = m /\ \A T \in SUBSET D : T # {} => it[T] = Round(it[T \ {Max(T)}])
  <2>. HIDE DEF it
  <2>. QED BY <1>7
<1>. HIDE DEF it
<1>. DEFINE F == {T \in SUBSET D : /\ it[T] \in V
                                   /\ Over(it[T]) => Len(it[T].list) <= n - Cardinality(T)}
<1>9. ASSUME NEW T \in SUBSET D, \A U \in SUBSET T : U # T => U \in F
      PROVE  T \in F
  <2>1. CASE T = {}
    <3>1. it[T] = m /\ Cardinality(T) = 0 /\ m \in V
      BY <1>8, <2>1, FS_EmptySet DEF V
    <3>2. Len(m.list) <= n - 0
      BY <1>2 DEF n
    <3>. QED BY <3>1, <3>2
  <2>2. CASE T # {}
    <3>. DEFINE x == Max(T)
                o == it[T \ {x}]
    <3>1. x \in T /\ it[T] = Round(o)
      BY <1>2, <1>8, <2>2, MaxPicks
    <3>. HIDE DEF x
    <3>2. o \in V /\ (Over(o) => Len(o.list) <= n - Cardinality(T \ {x}))
      BY <1>9, <3>1
    <3>3. IsFiniteSet(T) /\ Cardinality(T) \in Nat /\ Cardinality(T \ {x}) = Cardinality(T) - 1
      <4>1. IsFiniteSet(T) /\ Cardinality(T) \in Nat
        BY <1>2, FS_Subset, FS_CardinalityType
      <4>. QED BY <3>1, <4>1, FS_RemoveElement
    <3>. HIDE DEF o
    <3>4. Round(o) \in V /\ (Over(o) => Len(Round(o).list) = Len(o.list) - 1)
      BY <3>2, RoundKeeps DEF V
    <3>5. Over(Round(o)) => Over(o)
      BY DEF Round
    <3>6. Over(o) => Len(o.list) \in Nat
      BY <3>2, OverHasOne DEF V
    <3>7. Over(Round(o)) => Len(Round(o).list) <= n - Cardinality(T)
      BY <1>2, <3>2, <3>3, <3>4, <3>5, <3>6
    <3>. QED BY <3>1, <3>4, <3>7
  <2>. QED BY <2>1, <2>2
<1>10. D \in F
  <2>. HIDE DEF F
  <2>1. \A T \in SUBSET D : (\A U \in SUBSET T : U # T => U \in F) => T \in F
    BY <1>9
  <2>2. \A T \in SUBSET D : T \in F
    <3>1. IsFiniteSet(D)
      BY <1>2
    <3>. QED BY ONLY <3>1, <2>1, AllSubsets
  <2>. QED BY <2>2
<1>11. it[D] \in Counted(I) /\ (Over(it[D]) => Len(it[D].list) <= n - n)
  BY <1>2, <1>10 DEF V
<1>12. ~Over(it[D])
  <2>1. Over(it[D]) => Len(it[D].list) \in Nat \ {0}
    BY <1>11, OverHasOne
  <2>. QED BY <1>2, <1>11, <2>1
<1>. QED BY <1>1, <1>11, <1>12 DEF Limited

\* tool_memory_put_locked: however the entry comes in, the memory is counted
\* and within its limits.
LEMMA PutLimits ==
    ASSUME NEW I, NEW m \in Counted(I), NEW id \in I, NEW b \in Blocks
    PROVE  Put(m, id, b) \in Limited(I)
<1>1. CASE id \notin Ids(m)
  <2>1. Inserted(m, id, b) \in Counted(I)
    BY <1>1, InsertedKeeps
  <2>. QED BY <1>1, <2>1, PrunedLimits DEF Put
<1>2. CASE id \in Ids(m) /\ Entry(m, id).block = b
  <2>1. Touched(m, id) \in Counted(I)
    BY <1>2, TouchedKeeps
  <2>. QED BY <1>2, <2>1, PrunedLimits DEF Put
<1>3. CASE id \in Ids(m) /\ Entry(m, id).block # b
  <2>1. Removed(m, id) \in Counted(I) /\ id \notin Ids(Removed(m, id))
    BY <1>3, RemovedKeeps
  <2>2. Inserted(Removed(m, id), id, b) \in Counted(I)
    BY <2>1, InsertedKeeps
  <2>. QED BY <1>3, <2>2, PrunedLimits DEF Put
<1>. QED BY <1>1, <1>2, <1>3

\* The entries of a block are as many as their positions.
LEMMA HoldersAt ==
    ASSUME NEW I, NEW list \in Seq(Entries(I)), Unique(list), NEW b
    PROVE  Cardinality(Holders(list, b)) = Cardinality({i \in 1 .. Len(list) : list[i].block = b})
<1>. DEFINE D == {i \in 1 .. Len(list) : list[i].block = b}
            f == [i \in D |-> list[i]]
<1>1. f \in Surjection(D, Holders(list, b))
  <2>1. \A i \in D : list[i] \in Holders(list, b)
    BY ToSetFacts DEF Holders
  <2>2. \A e \in Holders(list, b) : \E i \in D : e = list[i]
    BY ToSetFacts DEF Holders
  <2>. QED BY <2>1, <2>2 DEF Surjection
<1>2. f \in Injection(D, Holders(list, b))
  <2>1. \A i, j \in D : f[i] = f[j] => i = j
    BY DEF Unique
  <2>2. f \in [D -> Holders(list, b)]
    BY <1>1 DEF Surjection
  <2>. HIDE DEF f, D
  <2>. QED BY <2>1, <2>2 DEF Injection, IsInjective
<1>3. IsFiniteSet(D)
  <2>1. Len(list) \in Nat
    OBVIOUS
  <2>2. IsFiniteSet(1 .. Len(list))
    BY <2>1, FS_Interval
  <2>3. D \in SUBSET (1 .. Len(list))
    OBVIOUS
  <2>. QED BY ONLY <2>2, <2>3, FS_Subset
<1>. HIDE DEF f, D
<1>4. Cardinality(Holders(list, b)) = Cardinality(D)
  BY <1>1, <1>2, <1>3, FS_Surjection
<1>. QED BY <1>4 DEF D

\* tool_memory_remember
LEMMA RememberedLimits ==
    ASSUME NEW I, NEW m \in Counted(I), NEW id \in I, NEW b \in Blocks, NEW think \in BOOLEAN
    PROVE  Remembered(m, id, b, think) \in Limited(I)
<1>. DEFINE p == Put(m, id, b)
            n == Len(p.list)
            list == [i \in 1 .. n |->
               IF p.list[i].id = id THEN [p.list[i] EXCEPT !.think = think] ELSE p.list[i]]
            r == [p EXCEPT !.list = list]
<1>1. Remembered(m, id, b, think) = r
  BY Zenon DEF Remembered
<1>2. p \in Counted(I) /\ ~Over(p)
  BY PutLimits DEF Limited
<1>. HIDE DEF p
<1>3. p \in Memories(I) /\ p.list \in Seq(Entries(I)) /\ p.refs \in [Blocks -> Nat] /\ p.bytes \in Nat
        /\ Unique(p.list) /\ (\A c \in Blocks : p.refs[c] = Cardinality(Holders(p.list, c)))
        /\ p.bytes = EntryBytes * Len(p.list) + BlockBytes * Cardinality(Used(p))
  BY <1>2 DEF Counted, Memories
<1>4. \A i \in 1 .. n : /\ list[i] \in Entries(I) /\ list[i].id = p.list[i].id
                        /\ list[i].block = p.list[i].block
  <2>. TAKE i \in 1 .. n
  <2>. DEFINE e == p.list[i]
  <2>1. e \in Entries(I) /\ list[i] = IF e.id = id THEN [e EXCEPT !.think = think] ELSE e
    BY <1>3
  <2>. HIDE DEF e, list
  <2>2. list[i] \in Entries(I) /\ list[i].id = e.id /\ list[i].block = e.block
    BY <2>1 DEF Entries
  <2>. QED BY <2>2 DEF e
<1>5. n \in Nat
  BY <1>3
<1>6. list \in Seq(Entries(I)) /\ Len(list) = n
  <2>. DEFINE E == Entries(I)
  <2>1. \A i \in 1 .. n : list[i] \in E
    BY <1>4
  <2>. HIDE DEF E, n
  <2>3. list \in [1 .. n -> E]
    BY <2>1
  <2>. HIDE DEF list
  <2>2. list \in Seq(E) /\ Len(list) = n
    BY <1>5, <2>3
  <2>. QED BY <2>2 DEF E
<1>. HIDE DEF list
<1>7. Unique(list)
  BY <1>3, <1>4, <1>6 DEF Unique
<1>8. r \in Memories(I) /\ r.list = list /\ r.refs = p.refs /\ r.bytes = p.bytes
  BY <1>3, <1>6 DEF Memories
<1>. HIDE DEF r
<1>9. ASSUME NEW c \in Blocks PROVE r.refs[c] = Cardinality(Holders(list, c))
  <2>1. Cardinality(Holders(list, c)) = Cardinality({i \in 1 .. n : list[i].block = c})
    BY <1>6, <1>7, HoldersAt
  <2>2. Cardinality(Holders(p.list, c)) = Cardinality({i \in 1 .. n : p.list[i].block = c})
    BY <1>3, HoldersAt
  <2>3. {i \in 1 .. n : list[i].block = c} = {i \in 1 .. n : p.list[i].block = c}
    BY <1>4
  <2>. QED BY <1>3, <1>8, <2>1, <2>2, <2>3
<1>10. Used(r) = Used(p)
  BY <1>8 DEF Used
<1>11. r \in Counted(I)
  BY <1>3, <1>6, <1>7, <1>8, <1>9, <1>10 DEF Counted
<1>12. ~Over(r)
  BY <1>2, <1>6, <1>8 DEF Over
<1>. QED BY <1>1, <1>11, <1>12 DEF Limited

\* What the files of a directory bring back.
LEMMA PutAllLimits ==
    ASSUME NEW I, NEW m \in Limited(I), NEW map, IsFiniteSet(map),
           \A x \in map : x.id \in I /\ x.block \in Blocks
    PROVE  PutAll(m, map) \in Limited(I)
<1>. DEFINE V == Limited(I)
            pick == [T \in SUBSET map |-> CHOOSE x \in T : TRUE]
            step == [p \in map \X V |-> Put(p[2], p[1].id, p[1].block)]
            first(T) == CHOOSE x \in T : TRUE
            Runs(g) == g = [T \in SUBSET map |->
               IF T = {} THEN m
               ELSE Put(g[T \ {first(T)}], first(T).id, first(T).block)]
            it == CHOOSE g : Runs(g)
<1>1. PutAll(m, map) = it[map]
  BY Zenon DEF PutAll, FoldSet, MapThenFoldSet
<1>2. \A T \in SUBSET map : T # {} => first(T) \in T /\ pick[T] = first(T)
  OBVIOUS
<1>. HIDE DEF first
<1>3. ASSUME NEW r \in V, NEW x \in map PROVE Put(r, x.id, x.block) \in V
  BY <1>3, PutLimits DEF Limited
<1>4. step \in [map \X V -> V]
  <2>. HIDE DEF V
  <2>1. \A p \in map \X V : Put(p[2], p[1].id, p[1].block) \in V
    BY <1>3
  <2>. QED BY <2>1
<1>. HIDE DEF V
<1>5. PICK g \in [SUBSET map -> V] : Iterates(g, map, m, step, pick)
  <2>. HIDE DEF pick, step
  <2>1. m \in V /\ Picks(pick, map)
    BY <1>2 DEF V, Picks
  <2>. QED BY <1>4, <2>1, IterationExists
<1>6. Runs(g)
  <2>1. ASSUME NEW T \in SUBSET map, T # {}
        PROVE  g[T] = Put(g[T \ {first(T)}], first(T).id, first(T).block)
    <3>1. first(T) \in map /\ pick[T] = first(T) /\ g[T \ {first(T)}] \in V
      BY <1>2, <2>1
    <3>2. g[T] = step[<<pick[T], g[T \ {pick[T]}]>>]
      BY <1>5, <2>1 DEF Iterates
    <3>. HIDE DEF pick
    <3>. QED BY <3>1, <3>2
  <2>2. g[{}] = m
    BY <1>5 DEF Iterates
  <2>. QED BY <2>1, <2>2
<1>7. Runs(it)
  <2>. HIDE DEF Runs
  <2>. QED BY <1>6
<1>8. it[{}] = m /\ \A T \in SUBSET map : T # {} =>
            it[T] = Put(it[T \ {first(T)}], first(T).id, first(T).block)
  <2>. HIDE DEF it
  <2>. QED BY <1>7
<1>. HIDE DEF it
<1>9. \A T \in SUBSET map : it[T] \in V
  <2>1. it[{}] \in V
    BY <1>8 DEF V
  <2>2. \A T \in SUBSET map : T # {} => \E x \in T : it[T \ {x}] \in V => it[T] \in V
    <3>. TAKE T \in SUBSET map
    <3>. HAVE T # {}
    <3>1. first(T) \in T /\ it[T] = Put(it[T \ {first(T)}], first(T).id, first(T).block)
      BY <1>2, <1>8
    <3>2. it[T \ {first(T)}] \in V => it[T] \in V
      <4>1. first(T) \in map
        BY <3>1
      <4>. QED BY <1>3, <3>1, <4>1
    <3>. QED BY <3>1, <3>2
  <2>. QED BY ONLY IsFiniteSet(map), <2>1, <2>2, StaysIn
<1>. QED BY <1>1, <1>9 DEF V

\* More ids are known.
LEMMA LimitedGrows ==
    ASSUME NEW I, NEW J, I \subseteq J, NEW m \in Limited(I)
    PROVE  m \in Limited(J)
<1>1. m.list \in Seq(Entries(J))
  <2>1. m.list \in Seq(Entries(I)) /\ \A e \in Entries(I) : e \in Entries(J)
    BY DEF Limited, Counted, Memories, Entries
  <2>2. Len(m.list) \in Nat /\ m.list = [i \in 1 .. Len(m.list) |-> m.list[i]]
          /\ \A i \in 1 .. Len(m.list) : m.list[i] \in Entries(I)
    BY <2>1
  <2>. QED BY <2>1, <2>2
<1>2. m \in Memories(J)
  BY <1>1 DEF Limited, Counted, Memories
<1>. QED BY <1>2 DEF Limited, Counted

\* The memory of a process that starts.
LEMMA NoMemoryLimited ==
    ASSUME NEW I
    PROVE  NoMemory \in Limited(I)
<1>1. NoMemory.list = <<>> /\ NoMemory.bytes = 0 /\ NoMemory.refs = [b \in Blocks |-> 0]
  BY DEF NoMemory
<1>2. NoMemory \in Memories(I)
  BY DEF NoMemory, Memories
<1>3. ToSet(<<>>) = {}
  BY DEF ToSet
<1>4. Used(NoMemory) = {} /\ \A b \in Blocks : Holders(<<>>, b) = {}
  BY <1>1, <1>3 DEF Used, Holders
<1>5. Cardinality({}) = 0
  BY FS_EmptySet
<1>6. NoMemory \in Counted(I)
  <2>1. Unique(NoMemory.list) /\ Len(NoMemory.list) = 0
    BY <1>1 DEF Unique
  <2>2. \A b \in Blocks : NoMemory.refs[b] = Cardinality(Holders(NoMemory.list, b))
    BY <1>1, <1>4, <1>5
  <2>3. NoMemory.bytes = EntryBytes * Len(NoMemory.list) + BlockBytes * Cardinality(Used(NoMemory))
    BY <1>1, <1>4, <1>5, <2>1 DEF EntryBytes, BlockBytes
  <2>. QED BY <1>2, <2>1, <2>2, <2>3 DEF Counted
<1>. QED BY <1>1, <1>6, ToolMemoryAssumption DEF Limited, Over

\* What the limits promise.
LEMMA LimitedIsExact ==
    ASSUME NEW I, NEW m \in Limited(I)
    PROVE  Exact(m) /\ Ids(m) \subseteq I
<1>1. m \in Counted(I) /\ ~Over(m)
  BY DEF Limited
<1>2. Exact(m)
  BY <1>1, Zenon DEF Counted, Exact, Holders, Used
<1>3. Ids(m) \subseteq I
  <2>1. m.list \in Seq(Entries(I))
    BY <1>1 DEF Counted, Memories
  <2>2. \A i \in 1 .. Len(m.list) : m.list[i] \in Entries(I)
    BY <2>1
  <2>. QED BY <2>2 DEF Entries, Ids
<1>. QED BY <1>2, <1>3

\* A prefix, position by position.
LEMMA PrefixIs ==
    ASSUME NEW X, NEW s \in Seq(X), NEW t \in Seq(X)
    PROVE  IsPrefix(s, t) <=> Len(s) <= Len(t) /\ \A i \in 1 .. Len(s) : s[i] = t[i]
<1>1. Len(s) \in Nat /\ Len(t) \in Nat
  OBVIOUS
<1>2. ASSUME Len(s) <= Len(t)
      PROVE  SubSeq(s, 1, Len(s)) = SubSeq(t, 1, Len(s)) <=> \A i \in 1 .. Len(s) : s[i] = t[i]
  <2>. DEFINE a == SubSeq(s, 1, Len(s))
              b == SubSeq(t, 1, Len(s))
  <2>1. a \in Seq(X) /\ Len(a) = Len(s) /\ \A i \in 1 .. Len(s) : a[i] = s[i]
    BY <1>1
  <2>2. b \in Seq(X) /\ Len(b) = Len(s) /\ \A i \in 1 .. Len(s) : b[i] = t[i]
    BY <1>1, <1>2
  <2>. HIDE DEF a, b
  <2>3. a = b <=> \A i \in 1 .. Len(s) : s[i] = t[i]
    BY <2>1, <2>2, SeqEqual
  <2>. QED BY <2>3 DEF a, b
<1>. QED BY <1>2 DEF IsPrefix

\* The first n of a sequence.
LEMMA FirstIs ==
    ASSUME NEW X, NEW t \in Seq(X), NEW n \in 0 .. Len(t)
    PROVE  /\ SubSeq(t, 1, n) \in Seq(X) /\ Len(SubSeq(t, 1, n)) = n
           /\ \A i \in 1 .. n : SubSeq(t, 1, n)[i] = t[i]
           /\ IsPrefix(SubSeq(t, 1, n), t)
<1>. DEFINE a == SubSeq(t, 1, n)
<1>1. Len(t) \in Nat /\ n \in Nat /\ n <= Len(t)
  OBVIOUS
<1>2. a \in Seq(X) /\ Len(a) = n /\ \A i \in 1 .. n : a[i] = t[i]
  BY <1>1
<1>. HIDE DEF a
<1>3. IsPrefix(a, t)
  BY <1>1, <1>2, PrefixIs
<1>. QED BY <1>2, <1>3 DEF a

\* A sequence that has the first n of another, and as many, is them.
LEMMA SameFirst ==
    ASSUME NEW X, NEW s \in Seq(X), NEW t \in Seq(X), NEW n \in 0 .. Len(t)
    PROVE  /\ IsPrefix(SubSeq(t, 1, n), s) <=> n <= Len(s) /\ \A i \in 1 .. n : t[i] = s[i]
           /\ IsPrefix(s, SubSeq(t, 1, n)) <=> Len(s) <= n /\ \A i \in 1 .. Len(s) : s[i] = t[i]
<1>. DEFINE a == SubSeq(t, 1, n)
<1>1. a \in Seq(X) /\ Len(a) = n /\ \A i \in 1 .. n : a[i] = t[i]
  BY FirstIs
<1>. HIDE DEF a
<1>2. IsPrefix(a, s) <=> n <= Len(s) /\ \A i \in 1 .. n : t[i] = s[i]
  <2>1. IsPrefix(a, s) <=> Len(a) <= Len(s) /\ \A i \in 1 .. Len(a) : a[i] = s[i]
    BY <1>1, PrefixIs
  <2>. QED BY <1>1, <2>1
<1>3. IsPrefix(s, a) <=> Len(s) <= n /\ \A i \in 1 .. Len(s) : s[i] = a[i]
  BY <1>1, PrefixIs
<1>4. Len(s) <= n => \A i \in 1 .. Len(s) : i \in 1 .. n
  OBVIOUS
<1>5. IsPrefix(s, a) <=> Len(s) <= n /\ \A i \in 1 .. Len(s) : s[i] = t[i]
  BY <1>1, <1>3, <1>4
<1>. QED BY <1>2, <1>5 DEF a

\* render_tokens_text: a segment for a token.
LEMMA RenderFacts ==
    ASSUME NEW tokens \in Seq(Tokens)
    PROVE  /\ Render(tokens) \in Seq(Segments) /\ Len(Render(tokens)) = Len(tokens)
           /\ \A i \in 1 .. Len(tokens) : Render(tokens)[i] = tokens[i][1]
<1>1. \A i \in 1 .. Len(tokens) : tokens[i][1] \in Segments
  BY DEF Tokens
<1>2. Len(tokens) \in Nat
  OBVIOUS
<1>. DEFINE f == [i \in 1 .. Len(tokens) |-> tokens[i][1]]
<1>3. f \in [1 .. Len(tokens) -> Segments]
  BY <1>1
<1>4. \A i \in 1 .. Len(tokens) : f[i] = tokens[i][1]
  OBVIOUS
<1>. HIDE DEF f
<1>5. f \in Seq(Segments) /\ Len(f) = Len(tokens)
  BY <1>2, <1>3
<1>6. Render(tokens) = f
  BY DEF Render, f
<1>. QED BY <1>4, <1>5, <1>6

\* q36_tokenize_rendered_chat: a token for a segment, which spells it.
LEMMA TokenizeFacts ==
    ASSUME NEW text \in Seq(Segments)
    PROVE  /\ Tokenize(text) \in Seq(Tokens) /\ Len(Tokenize(text)) = Len(text)
           /\ \A i \in 1 .. Len(text) : Tokenize(text)[i][1] = text[i]
           /\ Render(Tokenize(text)) = text
<1>. DEFINE f == [i \in 1 .. Len(text) |-> Token(text[i])]
<1>1. Len(text) \in Nat
  OBVIOUS
<1>2. f \in [1 .. Len(text) -> Tokens] /\ \A i \in 1 .. Len(text) : f[i][1] = text[i]
  <2>1. ASSUME NEW i \in 1 .. Len(text)
        PROVE  Token(text[i]) \in Tokens /\ Token(text[i])[1] = text[i]
    <3>1. text[i] \in Segments
      OBVIOUS
    <3>. QED BY <3>1 DEF Tokens, Token
  <2>. QED BY <2>1
<1>. HIDE DEF f
<1>3. f \in Seq(Tokens) /\ Len(f) = Len(text)
  BY <1>1, <1>2
<1>4. Tokenize(text) = f
  BY DEF Tokenize, f
<1>5. Render(f) \in Seq(Segments) /\ Len(Render(f)) = Len(text)
        /\ \A i \in 1 .. Len(text) : Render(f)[i] = text[i]
  BY <1>2, <1>3, RenderFacts
<1>6. Render(f) = text
  BY <1>5, SeqEqual
<1>. QED BY <1>2, <1>3, <1>4, <1>6

\* The effective prompt is the prompt, and begins with the tokens held.
LEMMA EffectiveFacts ==
    ASSUME NEW tokens \in Seq(Tokens), NEW prompt \in Seq(Segments),
           IsPrefix(Render(tokens), prompt)
    PROVE  /\ Effective(tokens, prompt) \in Seq(Tokens)
           /\ Render(Effective(tokens, prompt)) = prompt
           /\ IsPrefix(tokens, Effective(tokens, prompt))
<1>. DEFINE n == Len(tokens)
            k == Len(prompt)
            rest == SubSeq(prompt, n + 1, k)
            tail == Tokenize(rest)
            e == tokens \o tail
            text == Render(tokens)
<1>1. text \in Seq(Segments) /\ Len(text) = n /\ \A i \in 1 .. n : text[i] = tokens[i][1]
  BY RenderFacts
<1>. HIDE DEF text
<1>2. n \in Nat /\ k \in Nat
  OBVIOUS
<1>3. n <= k /\ \A i \in 1 .. n : text[i] = prompt[i]
  <2>1. IsPrefix(text, prompt)
    BY DEF text
  <2>. QED BY <1>1, <2>1, PrefixIs
<1>4. rest \in Seq(Segments) /\ Len(rest) = k - n /\ \A i \in 1 .. k - n : rest[i] = prompt[n + i]
  BY <1>2, <1>3
<1>. HIDE DEF rest
<1>5. tail \in Seq(Tokens) /\ Len(tail) = k - n /\ \A i \in 1 .. k - n : tail[i][1] = prompt[n + i]
  BY <1>4, TokenizeFacts
<1>. HIDE DEF tail
<1>6. /\ e \in Seq(Tokens) /\ Len(e) = n + Len(tail)
      /\ \A i \in 1 .. n + Len(tail) : e[i] = IF i <= n THEN tokens[i] ELSE tail[i - n]
  BY <1>5, ConcatProperties
<1>. HIDE DEF e
<1>7. Len(e) = k
  BY <1>2, <1>5, <1>6
<1>8. ASSUME NEW i \in 1 .. k PROVE e[i][1] = prompt[i]
  <2>1. CASE i <= n
    <3>1. i \in 1 .. n /\ i \in 1 .. n + Len(tail)
      BY <1>2, <1>3, <1>5, <2>1
    <3>2. e[i] = tokens[i]
      BY <1>6, <2>1, <3>1
    <3>3. tokens[i][1] = prompt[i]
      BY <1>1, <1>3, <3>1
    <3>. QED BY <3>2, <3>3
  <2>2. CASE i > n
    <3>1. i - n \in 1 .. k - n /\ n + (i - n) = i /\ i \in 1 .. n + Len(tail) /\ ~(i <= n)
      BY <1>2, <1>3, <1>5, <2>2
    <3>2. e[i] = tail[i - n]
      BY <1>6, <3>1
    <3>3. tail[i - n][1] = prompt[i]
      BY <1>5, <3>1
    <3>. QED BY <3>2, <3>3
  <2>. QED BY <1>2, <2>1, <2>2
<1>9. Render(e) \in Seq(Segments) /\ Len(Render(e)) = k /\ \A i \in 1 .. k : Render(e)[i] = e[i][1]
  BY <1>6, <1>7, RenderFacts
<1>10. Render(e) = prompt
  BY <1>8, <1>9, SeqEqual
<1>11. IsPrefix(tokens, e)
  <2>1. \A i \in 1 .. n : e[i] = tokens[i]
    <3>. TAKE i \in 1 .. n
    <3>1. i \in 1 .. n + Len(tail) /\ i <= n
      BY <1>2, <1>3, <1>5
    <3>. QED BY <1>6, <3>1
  <2>. QED BY <1>3, <1>6, <1>7, <2>1, PrefixIs
<1>12. Effective(tokens, prompt) = e
  BY DEF Effective, e, tail, rest
<1>. QED BY <1>6, <1>10, <1>11, <1>12

\* kv_cache_store_len never stores more than there is.
LEMMA StoreLenFits ==
    ASSUME NEW n \in Nat
    PROVE  StoreLen(n) \in 0 .. n
<1>. DEFINE stable == n - Trim
            aligned == IF Align > 0 THEN stable - (stable % Align) ELSE stable
<1>1. StoreLen(n) = IF n > MinTokens + Trim /\ aligned >= MinTokens THEN aligned ELSE n
  BY DEF StoreLen
<1>2. MinTokens \in Nat /\ Trim \in Nat /\ Align \in Nat
  BY KvCacheAssumption
<1>3. stable \in Int /\ stable <= n
  BY <1>2
<1>. HIDE DEF stable
<1>4. aligned \in Int /\ aligned <= stable
  <2>1. Align > 0 => stable % Align \in 0 .. Align - 1
    BY <1>2, <1>3
  <2>. DEFINE rem == stable % Align
  <2>. HIDE DEF rem
  <2>2. Align > 0 => rem \in Nat
    BY <1>2, <2>1 DEF rem
  <2>3. aligned = IF Align > 0 THEN stable - rem ELSE stable
    BY DEF rem
  <2>. HIDE DEF aligned
  <2>. QED BY <1>2, <1>3, <2>2, <2>3
<1>. HIDE DEF aligned
<1>. QED BY <1>1, <1>2, <1>3, <1>4

\* tool_memory_attach_to_messages
LEMMA TouchAllLimits ==
    ASSUME NEW I, NEW m \in Limited(I), NEW X, NEW conv \in Seq(X)
    PROVE  TouchAll(m, conv) \in Limited(I)
<1>. DEFINE D == DOMAIN conv
            V == Limited(I)
            TouchOne(r, x) == IF x \in Ids(r) THEN Touched(r, x) ELSE r
            pick == [T \in SUBSET D |-> Max(T)]
            step == [p \in D \X V |-> TouchOne(p[2], conv[p[1]])]
            Runs(g) == g = [T \in SUBSET D |->
               IF T = {} THEN m ELSE TouchOne(g[T \ {Max(T)}], conv[Max(T)])]
            it == CHOOSE g : Runs(g)
<1>1. TouchAll(m, conv) = it[D]
  BY Zenon DEF TouchAll, FoldLeft, MapThenFoldSet
<1>2. Len(conv) \in Nat /\ D = 1 .. Len(conv) /\ IsFiniteSet(D)
  BY FS_Interval
<1>3. Picks(pick, D)
  BY <1>2, MaxPicks DEF Picks
<1>. HIDE DEF D
<1>4. ASSUME NEW r \in V, NEW x PROVE TouchOne(r, x) \in V
  BY <1>4, TouchedKeeps DEF Limited
<1>. HIDE DEF TouchOne
<1>5. step \in [D \X V -> V]
  <2>. HIDE DEF V
  <2>1. \A p \in D \X V : TouchOne(p[2], conv[p[1]]) \in V
    BY <1>4
  <2>. QED BY <2>1
<1>. HIDE DEF V
<1>6. PICK g \in [SUBSET D -> V] : Iterates(g, D, m, step, pick)
  <2>. HIDE DEF pick, step
  <2>1. m \in V
    BY DEF V
  <2>. QED BY <1>2, <1>3, <1>5, <2>1, IterationExists
<1>7. Runs(g)
  <2>1. ASSUME NEW T \in SUBSET D, T # {}
        PROVE  g[T] = TouchOne(g[T \ {Max(T)}], conv[Max(T)])
    <3>1. pick[T] \in D /\ pick[T] = Max(T) /\ g[T \ {Max(T)}] \in V
      BY <1>3, <2>1 DEF Picks
    <3>2. g[T] = step[<<pick[T], g[T \ {pick[T]}]>>]
      BY <1>6, <2>1 DEF Iterates
    <3>. HIDE DEF pick
    <3>. QED BY <3>1, <3>2
  <2>2. g[{}] = m
    BY <1>6 DEF Iterates
  <2>. QED BY <2>1, <2>2
<1>8. Runs(it)
  <2>. HIDE DEF Runs
  <2>. QED BY <1>7
<1>9. it[{}] = m /\ \A T \in SUBSET D : T # {} =>
            it[T] = TouchOne(it[T \ {Max(T)}], conv[Max(T)])
  <2>. HIDE DEF it
  <2>. QED BY <1>8
<1>. HIDE DEF it
<1>10. \A T \in SUBSET D : it[T] \in V
  <2>1. it[{}] \in V
    BY <1>9 DEF V
  <2>2. \A T \in SUBSET D : T # {} => \E x \in T : it[T \ {x}] \in V => it[T] \in V
    <3>. TAKE T \in SUBSET D
    <3>. HAVE T # {}
    <3>1. Max(T) \in T /\ it[T] = TouchOne(it[T \ {Max(T)}], conv[Max(T)])
      BY <1>2, <1>9, MaxPicks
    <3>2. it[T \ {Max(T)}] \in V => it[T] \in V
      BY <1>4, <3>1
    <3>. QED BY <3>1, <3>2
  <2>3. IsFiniteSet(D)
    BY <1>2
  <2>. QED BY ONLY <2>1, <2>2, <2>3, StaysIn
<1>. QED BY <1>1, <1>10 DEF V

Messages == Openings \union ToSet(CallIds) \union {"result"}

\* How one message reads.
LEMMA RenderedType ==
    ASSUME NEW I, NEW m \in Limited(I), NEW x \in Messages
    PROVE  Rendered(m, x) \in Seq(Segments)
<1>1. CASE x \notin ToSet(CallIds)
  <2>1. x \in Segments
    BY <1>1 DEF Messages, Segments
  <2>. QED BY <1>1, <2>1 DEF Rendered
<1>2. CASE x \in ToSet(CallIds) /\ x \notin Ids(m)
  <2>1. "open" \in Segments /\ "canonical" \in Segments
    BY DEF Segments
  <2>. QED BY <1>2, <2>1 DEF Rendered
<1>3. CASE x \in ToSet(CallIds) /\ x \in Ids(m)
  <2>1. Entry(m, x).block \in Blocks
    <3>1. m.list \in Seq(Entries(I)) /\ Position(m, x) \in 1 .. Len(m.list)
      BY <1>3, FoundAt DEF Limited, Counted, Memories
    <3>2. m.list[Position(m, x)] \in Entries(I)
      BY <3>1
    <3>. QED BY <3>2 DEF Entry, Entries
  <2>2. /\ (IF Entry(m, x).think THEN "empty" ELSE "open") \in Segments
        /\ Entry(m, x).block \in Segments
    BY <2>1 DEF Segments
  <2>. QED BY <1>3, <2>2 DEF Rendered
<1>. QED BY <1>1, <1>2, <1>3

\* render_chat_prompt_text
LEMMA PromptType ==
    ASSUME NEW I, NEW m \in Limited(I), NEW conv \in Seq(Messages)
    PROVE  PromptOf(m, conv) \in Seq(Segments)
<1>. DEFINE D == DOMAIN conv
            V == Seq(Segments)
            More(text, x) == text \o Rendered(m, x)
            pick == [T \in SUBSET D |-> Max(T)]
            step == [p \in D \X V |-> More(p[2], conv[p[1]])]
            Runs(g) == g = [T \in SUBSET D |->
               IF T = {} THEN <<>> ELSE More(g[T \ {Max(T)}], conv[Max(T)])]
            it == CHOOSE g : Runs(g)
<1>1. PromptOf(m, conv) = it[D] \o <<Header>>
  BY Zenon DEF PromptOf, FoldLeft, MapThenFoldSet
<1>2. Len(conv) \in Nat /\ D = 1 .. Len(conv) /\ IsFiniteSet(D) /\ \A i \in D : conv[i] \in Messages
  BY FS_Interval
<1>3. Picks(pick, D)
  BY <1>2, MaxPicks DEF Picks
<1>. HIDE DEF D
<1>4. ASSUME NEW text \in V, NEW i \in D PROVE More(text, conv[i]) \in V
  <2>1. Rendered(m, conv[i]) \in Seq(Segments)
    BY <1>2, <1>4, RenderedType
  <2>. QED BY <1>4, <2>1, ConcatProperties
<1>. HIDE DEF More
<1>5. step \in [D \X V -> V]
  <2>. HIDE DEF V
  <2>1. \A p \in D \X V : More(p[2], conv[p[1]]) \in V
    BY <1>4
  <2>. QED BY <2>1
<1>6. <<>> \in V
  OBVIOUS
<1>. HIDE DEF V
<1>7. PICK g \in [SUBSET D -> V] : Iterates(g, D, <<>>, step, pick)
  <2>. HIDE DEF pick, step
  <2>. QED BY <1>2, <1>3, <1>5, <1>6, IterationExists
<1>8. Runs(g)
  <2>1. ASSUME NEW T \in SUBSET D, T # {}
        PROVE  g[T] = More(g[T \ {Max(T)}], conv[Max(T)])
    <3>1. pick[T] \in D /\ pick[T] = Max(T) /\ g[T \ {Max(T)}] \in V
      BY <1>3, <2>1 DEF Picks
    <3>2. g[T] = step[<<pick[T], g[T \ {pick[T]}]>>]
      BY <1>7, <2>1 DEF Iterates
    <3>. HIDE DEF pick
    <3>. QED BY <3>1, <3>2
  <2>2. g[{}] = <<>>
    BY <1>7 DEF Iterates
  <2>. QED BY <2>1, <2>2
<1>9. Runs(it)
  <2>. HIDE DEF Runs
  <2>. QED BY <1>8
<1>10. it[{}] = <<>> /\ \A T \in SUBSET D : T # {} =>
            it[T] = More(it[T \ {Max(T)}], conv[Max(T)])
  <2>. HIDE DEF it
  <2>. QED BY <1>9
<1>. HIDE DEF it
<1>11. \A T \in SUBSET D : it[T] \in V
  <2>1. it[{}] \in V
    BY <1>6, <1>10
  <2>2. \A T \in SUBSET D : T # {} => \E x \in T : it[T \ {x}] \in V => it[T] \in V
    <3>. TAKE T \in SUBSET D
    <3>. HAVE T # {}
    <3>1. Max(T) \in T /\ it[T] = More(it[T \ {Max(T)}], conv[Max(T)])
      BY <1>2, <1>10, MaxPicks
    <3>2. it[T \ {Max(T)}] \in V => it[T] \in V
      BY <1>4, <3>1
    <3>. QED BY <3>1, <3>2
  <2>3. IsFiniteSet(D)
    BY <1>2
  <2>. QED BY ONLY <2>1, <2>2, <2>3, StaysIn
<1>12. <<Header>> \in Seq(Segments)
  BY DEF Header, Segments
<1>13. it[D] \in Seq(Segments)
  BY <1>11 DEF V
<1>. QED BY <1>1, <1>12, <1>13, ConcatProperties

\* What a store writes about the calls of its text.
LEMMA MapOfFacts ==
    ASSUME NEW I, mem \in Limited(I), I \subseteq ToSet(CallIds), NEW text
    PROVE  /\ MapOf(text) \in SUBSET [id : ToSet(CallIds), block : Blocks]
           /\ IsFiniteSet(MapOf(text)) /\ \A x \in MapOf(text) : x.id \in I
<1>. DEFINE S == {x \in ToSet(mem.list) : x.block \in ToSet(text)}
            f == [e \in S |-> [id |-> e.id, block |-> e.block]]
<1>1. mem.list \in Seq(Entries(I))
  BY DEF Limited, Counted, Memories
<1>2. IsFiniteSet(ToSet(mem.list)) /\ \A e \in ToSet(mem.list) : e.id \in I /\ e.block \in Blocks
  <2>1. IsFiniteSet(ToSet(mem.list)) /\ \A e \in ToSet(mem.list) : e \in Entries(I)
    BY <1>1, ToSetFacts
  <2>. QED BY <2>1 DEF Entries
<1>3. IsFiniteSet(S)
  BY <1>2, FS_Subset
<1>4. MapOf(text) = {[id |-> e.id, block |-> e.block] : e \in S}
  BY DEF MapOf
<1>5. \A e \in S : e.id \in I /\ e.block \in Blocks
  BY <1>2
<1>. HIDE DEF S
<1>6. f \in Surjection(S, MapOf(text))
  BY <1>4 DEF Surjection
<1>7. IsFiniteSet(MapOf(text))
  BY <1>3, <1>6, FS_Surjection
<1>. QED BY <1>4, <1>5, <1>7

(* -------------------------------------------------- the inductive invariant -- *)

Known == DOMAIN log.calls
Requests == [conv : Seq(Messages), prompt : Seq(Segments)]
WorkPcs == {"prefill", "cold", "continued", "decode", "sample"}
SlotPcs == StorePcs \union WorkPcs \union {"idle", "load", "remember", "stopped"}
OpPcs == {"free", "write", "rename", "evict", "victims", "truncate", "map", "open"}
Listings == UNION {[D -> Files] : D \in SUBSET Seq(Segments)}
Histories == UNION {[D -> Seq(Segments)] : D \in SUBSET ToSet(CallIds)}

SlotStates ==
    [pc : SlotPcs, back : SlotPcs, tokens : Seq(Tokens), last : Nat, cached : Nat,
     cold : Nat, eff : Seq(Tokens), req : Requests]
Ops == [slot : Slots \union {NoSlot}, pc : OpPcs, text : Seq(Segments), file : Files,
        entry : Listings]
Clients == [pc : {"idle", "scan", "ready"}, req : Requests, todo : SUBSET Seq(Segments)]
Logs == [convs : SUBSET Seq(Messages), calls : Histories, requests : 0 .. MaxRequests,
         faults : Nat, unsaved : SUBSET Seq(Segments), cut : BOOLEAN]

\* The mappings of a file name calls that were made.
KnownMap(map, ids) == IsFiniteSet(map) /\ \A x \in map : x.id \in ids

\* A directory of finitely many files, each named after the text it holds.
DiskOK(d, ids) ==
    /\ d \in [DOMAIN d -> Files] /\ IsFiniteSet(DOMAIN d)
    /\ \A t \in DOMAIN d : KnownMap(d[t].map, ids) /\ Render(d[t].tokens) = t

\* The file a store or a load is about, and the entries an eviction has read.
KnownOp(o, ids) == KnownMap(o.file.map, ids) /\ DiskOK(o.entry, ids)

Shapes ==
    /\ DiskOK(disk, Known)
    /\ op \in Ops /\ KnownOp(op, Known)
    /\ slot \in [Slots -> SlotStates] /\ client \in Clients /\ log \in Logs
    /\ mem \in Limited(Known)

\* Every hit of a file of this server is for a request that is no longer pending.
Pending == {s \in Slots : slot[s].pc \in {"save", "load"}}
             \union (IF client.pc = "idle" THEN {} ELSE {NoSlot})
HitsPaid ==
    /\ Cardinality(Pending) <= log.requests
    /\ \A t \in DOMAIN disk :
         disk[t].ours => disk[t].hits + Cardinality(Pending) <= log.requests

\* What a store or a load under way is about.
OpServes ==
    /\ op.pc \in {"write", "rename", "truncate", "map"} =>
         /\ op.slot \in Slots /\ slot[op.slot].pc \in StorePcs
         /\ op.text = Render(slot[op.slot].tokens)
    /\ op.pc = "rename" =>
         op.file.tokens = slot[op.slot].tokens /\ op.file.ours /\ op.file.hits = 0
    /\ op.pc \in {"evict", "victims"} /\ op.slot # NoSlot => slot[op.slot].pc \in StorePcs
    /\ op.pc = "open" =>
         /\ op.slot \in Slots /\ slot[op.slot].pc = "load"
         /\ IsPrefix(op.text, slot[op.slot].req.prompt)

\* Where a store of a slot leads.
GoesBack(r) ==
    /\ r.pc = "save" => r.back = "load"
    /\ r.pc = "cold" => r.back \in {"prefill", "decode"}
    /\ r.pc = "continued" => r.back \in {"prefill", "sample"}
    /\ r.pc = "shutdown" => r.back = "stopped"

\* The whole prompt is in the session.
Complete(r) ==
    \/ r.pc \in {"decode", "sample"}
    \/ r.pc = "cold" /\ r.back = "decode"
    \/ r.pc = "continued" /\ r.back = "sample"

\* What a slot at work holds of its prompt.
Follows(r) ==
    /\ r.pc \in {"save", "load"} => r.eff = Tokenize(r.req.prompt)
    /\ r.pc \in WorkPcs =>
         /\ Render(r.eff) = r.req.prompt
         /\ r.cold <= Len(r.eff)
         /\ r.cached > 0 => r.cold = 0 /\ r.cached <= Len(r.tokens) /\ IsPrefix(r.tokens, r.eff)
    /\ Complete(r) => r.tokens = r.eff /\ r.cold = 0
    /\ r.pc \in {"cold", "continued"} => IsPrefix(r.tokens, Target(r))
    /\ r.pc = "remember" => r.tokens # <<>> /\ Last(r.tokens)[1] \in Blocks

SlotsWork == \A s \in Slots : GoesBack(slot[s]) /\ Follows(slot[s])

\* A text of a file of this server, or one whose file went, or never came, for a
\* known reason.
Saved(t, d, unsaved) == (t \in DOMAIN d /\ d[t].ours) \/ t \in unsaved

\* Files that went, or never came, for a known reason, and the one a store writes.
Missing == log.unsaved \union (IF op.pc \in {"write", "rename"} THEN {op.text} ELSE {})

\* What a slot is about to lose is saved.
Keeps(r, d, unsaved) ==
    (r.pc = "load" \/ (r.pc = "prefill" /\ ~IsPrefix(r.tokens, Target(r))))
       /\ Len(r.tokens) >= MinTokens => Saved(Render(r.tokens), d, unsaved)
SlotsKeep == \A s \in Slots : Keeps(slot[s], disk, Missing)
StoreKeeps ==
    op.pc \in {"evict", "victims", "truncate", "map"} /\ op.slot # NoSlot /\ slot[op.slot].pc = "save" =>
        Saved(Render(slot[op.slot].tokens), disk, Missing)

\* The directory fits the budget between evictions, and an eviction knows every
\* file of it, unless an error cut it short.
Evicting == op.pc \in {"evict", "victims"}
AllRead == \A t \in DOMAIN disk : t \in DOMAIN op.entry /\ op.entry[t] = disk[t]
Fits ==
    /\ ~Evicting /\ ~log.cut => SumFunction([t \in DOMAIN disk |-> Len(disk[t].tokens)]) <= Budget
    /\ op.pc = "victims" /\ ~log.cut => AllRead

CacheInv ==
    Shapes /\ HitsPaid /\ OpServes /\ SlotsWork /\ SlotsKeep /\ StoreKeeps /\ Fits

\* The target of a prefill is the effective prompt, or as much of it as a cold
\* store takes.
LEMMA TargetFacts ==
    ASSUME NEW r \in SlotStates, r.cold <= Len(r.eff)
    PROVE  /\ Target(r) \in Seq(Tokens)
           /\ Len(Target(r)) = IF r.cold > 0 THEN r.cold ELSE Len(r.eff)
           /\ \A i \in 1 .. Len(Target(r)) : Target(r)[i] = r.eff[i]
           /\ Len(Target(r)) <= Len(r.eff)
<1>1. r.eff \in Seq(Tokens) /\ r.cold \in Nat /\ Len(r.eff) \in Nat
  BY DEF SlotStates
<1>2. CASE r.cold > 0
  <2>1. r.cold \in 0 .. Len(r.eff)
    BY <1>1, <1>2
  <2>2. Target(r) = SubSeq(r.eff, 1, r.cold)
    BY <1>2 DEF Target
  <2>. QED BY <1>1, <1>2, <2>1, <2>2, FirstIs
<1>3. CASE r.cold = 0
  <2>1. Target(r) = r.eff
    BY <1>3 DEF Target
  <2>. QED BY <1>1, <1>3, <2>1
<1>. QED BY <1>1, <1>2, <1>3

\* The slot after its store.
LEMMA EndWorks ==
    ASSUME NEW r \in SlotStates, GoesBack(r), Follows(r), r.pc \in StorePcs,
           NEW q \in SlotStates, q.pc = r.back, q.back = r.back, q.tokens = r.tokens,
           q.cached = r.cached, q.cold = r.cold, q.eff = r.eff, q.req = r.req
    PROVE  /\ GoesBack(q) /\ Follows(q)
           /\ q.pc \notin {"save", "idle"} /\ (q.pc = "load" <=> r.pc = "save")
           /\ q.pc = "prefill" => IsPrefix(q.tokens, Target(q))
<1>1. Target(q) = Target(r)
  BY DEF Target
<1>2. CASE r.pc = "save"
  BY <1>2 DEF GoesBack, Follows, Complete, WorkPcs
<1>3. CASE r.pc = "cold"
  BY <1>1, <1>3 DEF GoesBack, Follows, Complete, WorkPcs
<1>4. CASE r.pc = "continued"
  BY <1>1, <1>4 DEF GoesBack, Follows, Complete, WorkPcs
<1>5. CASE r.pc = "shutdown"
  BY <1>5 DEF GoesBack, Follows, Complete, WorkPcs
<1>. QED BY <1>2, <1>3, <1>4, <1>5 DEF StorePcs

\* The slot with what it is to prefill.
LEMMA StartWorks ==
    ASSUME NEW q \in SlotStates, q.pc = "prefill", Render(q.eff) = q.req.prompt,
           q.cold <= Len(q.eff),
           q.cached > 0 => q.cold = 0 /\ q.cached <= Len(q.tokens) /\ IsPrefix(q.tokens, q.eff)
    PROVE  GoesBack(q) /\ Follows(q)
BY DEF GoesBack, Follows, Complete, WorkPcs

\* A slot that is idle or stops has nothing to lose.
LEMMA StopWorks ==
    ASSUME NEW q, q.pc \in {"idle", "stopped"} \/ (q.pc = "shutdown" /\ q.back = "stopped"),
           NEW d, NEW unsaved
    PROVE  GoesBack(q) /\ Follows(q) /\ Keeps(q, d, unsaved)
BY DEF GoesBack, Follows, Complete, WorkPcs, Keeps

\* A chunk of the prefill.
LEMMA PrefillWorks ==
    ASSUME NEW r \in SlotStates, Follows(r), r.pc = "prefill",
           NEW held, held = IF IsPrefix(r.tokens, Target(r)) THEN Len(r.tokens) ELSE 0,
           held < Len(Target(r)),
           NEW q \in SlotStates, q.pc \in {"prefill", "continued"}, q.back = "prefill",
           q.tokens = SubSeq(Target(r), 1, held + 1),
           q.cached = r.cached, q.cold = r.cold, q.eff = r.eff, q.req = r.req
    PROVE  /\ GoesBack(q) /\ Follows(q) /\ IsPrefix(q.tokens, Target(q))
           /\ IsPrefix(r.tokens, Target(r)) => IsPrefix(r.tokens, q.tokens)
<1>1. /\ Render(r.eff) = r.req.prompt /\ r.cold <= Len(r.eff)
      /\ r.cached > 0 => r.cold = 0 /\ r.cached <= Len(r.tokens) /\ IsPrefix(r.tokens, r.eff)
  BY DEF Follows, WorkPcs
<1>. DEFINE t == Target(r)
<1>2. /\ t \in Seq(Tokens) /\ Len(t) \in Nat
      /\ Len(t) = IF r.cold > 0 THEN r.cold ELSE Len(r.eff)
      /\ \A i \in 1 .. Len(t) : t[i] = r.eff[i]
      /\ Len(t) <= Len(r.eff)
  BY <1>1, TargetFacts
<1>3. Target(q) = t
  BY DEF Target
<1>4. /\ r.tokens \in Seq(Tokens) /\ r.eff \in Seq(Tokens) /\ r.cached \in Nat /\ r.cold \in Nat
      /\ Len(r.tokens) \in Nat /\ Len(r.eff) \in Nat
  BY DEF SlotStates
<1>. HIDE DEF t
<1>5. held \in Nat /\ held < Len(t)
  BY <1>4 DEF t
<1>6. held + 1 \in 0 .. Len(t)
  BY <1>2, <1>5
<1>7. /\ q.tokens \in Seq(Tokens) /\ Len(q.tokens) = held + 1
      /\ \A i \in 1 .. held + 1 : q.tokens[i] = t[i]
      /\ IsPrefix(q.tokens, t)
  <2>1. q.tokens = SubSeq(t, 1, held + 1)
    BY DEF t
  <2>2. t \in Seq(Tokens)
    BY <1>2
  <2>3. /\ SubSeq(t, 1, held + 1) \in Seq(Tokens) /\ Len(SubSeq(t, 1, held + 1)) = held + 1
        /\ \A i \in 1 .. held + 1 : SubSeq(t, 1, held + 1)[i] = t[i]
        /\ IsPrefix(SubSeq(t, 1, held + 1), t)
    BY ONLY <1>6, <2>2, FirstIs
  <2>. QED BY <2>1, <2>3
<1>8. IsPrefix(r.tokens, t) => IsPrefix(r.tokens, q.tokens)
  <2>. SUFFICES ASSUME IsPrefix(r.tokens, t) PROVE IsPrefix(r.tokens, q.tokens)
    OBVIOUS
  <2>1. held = Len(r.tokens)
    BY DEF t
  <2>2. \A i \in 1 .. Len(r.tokens) : r.tokens[i] = t[i]
    BY <1>2, <1>4, PrefixIs
  <2>3. \A i \in 1 .. Len(r.tokens) : r.tokens[i] = q.tokens[i]
    BY <1>5, <1>7, <2>1, <2>2
  <2>4. r.tokens \in Seq(Tokens) /\ q.tokens \in Seq(Tokens)
    BY <1>4, <1>7
  <2>5. Len(r.tokens) <= Len(q.tokens)
    BY <1>4, <1>7, <2>1
  <2>. QED BY ONLY <2>3, <2>4, <2>5, PrefixIs
<1>9. ASSUME q.cached > 0
      PROVE  q.cold = 0 /\ q.cached <= Len(q.tokens) /\ IsPrefix(q.tokens, q.eff)
  <2>1. r.cold = 0 /\ r.cached <= Len(r.tokens) /\ IsPrefix(r.tokens, r.eff)
    BY <1>1, <1>9
  <2>2. t = r.eff
    BY <2>1 DEF t, Target
  <2>3. held = Len(r.tokens)
    BY <2>1, <2>2 DEF t
  <2>. QED BY <1>4, <1>7, <2>1, <2>2, <2>3
<1>10. Follows(q)
  BY <1>1, <1>3, <1>7, <1>9 DEF Follows, Complete, WorkPcs
<1>11. GoesBack(q)
  BY DEF GoesBack
<1>. QED BY <1>3, <1>7, <1>8, <1>10, <1>11 DEF t

\* The target is in the session.
LEMMA PrefilledWorks ==
    ASSUME NEW r \in SlotStates, Follows(r), r.pc = "prefill", r.tokens = Target(r),
           NEW q \in SlotStates, q.tokens = r.tokens, q.eff = r.eff, q.req = r.req,
           q.cached = r.cached,
           \/ /\ r.cold = Len(r.tokens) /\ q.pc = "cold" /\ q.cold = 0
              /\ q.back = IF r.tokens = r.eff THEN "decode" ELSE "prefill"
           \/ /\ r.cold # Len(r.tokens) /\ q.pc = "decode" /\ q.cold = r.cold
    PROVE  GoesBack(q) /\ Follows(q)
<1>1. /\ Render(r.eff) = r.req.prompt /\ r.cold <= Len(r.eff)
      /\ r.cached > 0 => r.cold = 0 /\ r.cached <= Len(r.tokens) /\ IsPrefix(r.tokens, r.eff)
  BY DEF Follows, WorkPcs
<1>2. /\ r.tokens \in Seq(Tokens) /\ r.eff \in Seq(Tokens) /\ r.cold \in Nat
      /\ Len(r.tokens) \in Nat /\ Len(r.eff) \in Nat
  BY DEF SlotStates
<1>3. /\ Len(r.tokens) = IF r.cold > 0 THEN r.cold ELSE Len(r.eff)
      /\ \A i \in 1 .. Len(r.tokens) : r.tokens[i] = r.eff[i]
      /\ Len(r.tokens) <= Len(r.eff)
  BY <1>1, TargetFacts
<1>4. IsPrefix(r.tokens, r.eff)
  BY <1>2, <1>3, PrefixIs
<1>5. CASE r.cold = Len(r.tokens) /\ q.pc = "cold" /\ q.cold = 0
             /\ q.back = IF r.tokens = r.eff THEN "decode" ELSE "prefill"
  <2>1. Target(q) = q.eff
    BY <1>5 DEF Target
  <2>2. GoesBack(q)
    BY <1>5 DEF GoesBack
  <2>3. Complete(q) => q.tokens = q.eff /\ q.cold = 0
    BY <1>5 DEF Complete
  <2>4. Follows(q)
    BY <1>1, <1>2, <1>4, <1>5, <2>1, <2>3 DEF Follows, WorkPcs
  <2>. QED BY <2>2, <2>4
<1>6. CASE r.cold # Len(r.tokens) /\ q.pc = "decode" /\ q.cold = r.cold
  <2>1. r.cold = 0
    BY <1>2, <1>3, <1>6
  <2>2. r.tokens = r.eff
    BY <2>1 DEF Target
  <2>. QED BY <1>1, <1>6, <2>1, <2>2 DEF GoesBack, Follows, Complete, WorkPcs
<1>. QED BY <1>5, <1>6

\* The slot when the prompt is in the session.
LEMMA DecodeWorks ==
    ASSUME NEW r \in SlotStates, Follows(r), r.pc = "decode",
           NEW q \in SlotStates, q.pc \in {"continued", "sample"}, q.back = "sample",
           q.tokens = r.tokens, q.cached = r.cached, q.cold = r.cold, q.eff = r.eff, q.req = r.req
    PROVE  GoesBack(q) /\ Follows(q)
<1>1. /\ Render(r.eff) = r.req.prompt /\ r.cold <= Len(r.eff)
      /\ r.cached > 0 => r.cold = 0 /\ r.cached <= Len(r.tokens) /\ IsPrefix(r.tokens, r.eff)
      /\ r.tokens = r.eff /\ r.cold = 0
  BY DEF Follows, WorkPcs, Complete
<1>2. r.eff \in Seq(Tokens)
  BY DEF SlotStates
<1>3. Target(q) = q.eff
  BY <1>1 DEF Target
<1>4. IsPrefix(q.tokens, Target(q))
  BY <1>1, <1>2, <1>3, PrefixIs
<1>. QED BY <1>1, <1>4 DEF GoesBack, Follows, Complete, WorkPcs

\* What a request finds of its prompt in the session.
LEMMA BeginWorks ==
    ASSUME NEW r \in SlotStates, NEW req \in Requests, NEW known, NEW cached,
           known = IF r.tokens # <<>> /\ IsPrefix(r.tokens, Tokenize(req.prompt))
                   THEN Tokenize(req.prompt)
                   ELSE IF r.tokens # <<>> /\ IsPrefix(Render(r.tokens), req.prompt)
                   THEN Effective(r.tokens, req.prompt) ELSE <<>>,
           cached = (IF known = <<>> THEN 0 ELSE Len(r.tokens))
    PROVE  /\ known \in Seq(Tokens) /\ cached \in Nat
           /\ \A q \in SlotStates :
                /\ q.req = req /\ q.tokens = r.tokens /\ q.cached = cached /\ q.cold = 0
                /\ q.eff = IF cached = 0 THEN Tokenize(req.prompt) ELSE known
                /\ q.pc = FirstStep(cached, r.tokens) /\ q.back = "load"
                => /\ GoesBack(q) /\ Follows(q) /\ q.pc \in {"prefill", "save", "load"}
                   /\ q.pc = "load" => Len(q.tokens) < MinTokens
                   /\ q.pc = "prefill" => IsPrefix(q.tokens, Target(q))
<1>. DEFINE prompt == req.prompt
            live == r.tokens
            all == Tokenize(prompt)
<1>1. prompt \in Seq(Segments) /\ live \in Seq(Tokens) /\ Len(live) \in Nat
  BY DEF Requests, SlotStates
<1>2. all \in Seq(Tokens) /\ Render(all) = prompt
  BY <1>1, TokenizeFacts
<1>. DEFINE Good(e) == e \in Seq(Tokens) /\ Render(e) = prompt /\ IsPrefix(live, e)
<1>3. known = <<>> \/ Good(known)
  <2>1. CASE live # <<>> /\ IsPrefix(live, all)
    BY <1>2, <2>1
  <2>2. CASE ~(live # <<>> /\ IsPrefix(live, all)) /\ live # <<>> /\ IsPrefix(Render(live), prompt)
    <3>1. known = Effective(live, prompt)
      BY <2>2
    <3>. QED BY <1>1, <2>2, <3>1, EffectiveFacts
  <2>. QED BY <2>1, <2>2
<1>4. known \in Seq(Tokens)
  <2>1. <<>> \in Seq(Tokens)
    OBVIOUS
  <2>2. CASE known = <<>>
    BY <2>1, <2>2, Zenon
  <2>3. CASE Good(known)
    BY <2>3
  <2>. QED BY <1>3, <2>2, <2>3
<1>5. cached \in Nat /\ (cached > 0 => Good(known) /\ cached = Len(live))
  BY <1>1, <1>3
<1>. HIDE DEF Good, all, prompt, live
<1>6. ASSUME NEW q \in SlotStates, q.req = req, q.tokens = live, q.cached = cached, q.cold = 0,
             q.eff = IF cached = 0 THEN all ELSE known,
             q.pc = FirstStep(cached, live), q.back = "load"
      PROVE  /\ GoesBack(q) /\ Follows(q) /\ q.pc \in {"prefill", "save", "load"}
             /\ q.pc = "load" => Len(q.tokens) < MinTokens
             /\ q.pc = "prefill" => IsPrefix(q.tokens, Target(q))
  <2>1. CASE cached > 0
    <3>1. q.pc = "prefill" /\ q.eff = known
      BY <1>5, <1>6, <2>1 DEF FirstStep
    <3>2. Render(q.eff) = q.req.prompt /\ IsPrefix(q.tokens, q.eff) /\ q.cached <= Len(q.tokens)
      BY <1>1, <1>5, <1>6, <2>1, <3>1 DEF Good, prompt
    <3>3. Len(q.eff) \in Nat
      BY DEF SlotStates
    <3>4. GoesBack(q) /\ Follows(q)
      BY <1>6, <3>1, <3>2, <3>3, StartWorks
    <3>5. Target(q) = q.eff
      BY <1>6 DEF Target
    <3>. QED BY <3>1, <3>2, <3>4, <3>5
  <2>2. CASE cached = 0
    <3>1. q.eff = Tokenize(q.req.prompt)
      BY <1>6, <2>2 DEF all, prompt
    <3>2. q.pc = IF Len(q.tokens) >= MinTokens THEN "save" ELSE "load"
      BY <1>6, <2>2 DEF FirstStep
    <3>3. MinTokens \in Nat /\ Len(q.tokens) \in Nat
      BY <1>1, <1>6, KvCacheAssumption
    <3>4. GoesBack(q) /\ Follows(q)
      BY <1>6, <3>1, <3>2 DEF GoesBack, Follows, Complete, WorkPcs
    <3>. QED BY <3>2, <3>3, <3>4
  <2>. QED BY <1>5, <2>1, <2>2
<1>. QED BY <1>4, <1>5, <1>6 DEF live, all, prompt

(* ------------------------------------------------------------ the directory -- *)

\* A file goes from the directory.
LEMMA DiskLess ==
    ASSUME NEW d, NEW ids, DiskOK(d, ids), NEW t
    PROVE  /\ DiskOK(Without(d, t), ids)
           /\ DOMAIN Without(d, t) = DOMAIN d \ {t}
           /\ \A x \in DOMAIN d \ {t} : Without(d, t)[x] = d[x]
<1>1. /\ DOMAIN Without(d, t) = DOMAIN d \ {t}
      /\ \A x \in DOMAIN d \ {t} : Without(d, t)[x] = d[x]
  BY DEF Without
<1>2. Without(d, t) \in [DOMAIN d \ {t} -> Files]
  BY DEF Without, DiskOK
<1>3. IsFiniteSet(DOMAIN d \ {t})
  BY FS_RemoveElement DEF DiskOK
<1>. QED BY <1>1, <1>2, <1>3 DEF DiskOK

\* A file is renamed into the directory.
LEMMA DiskMore ==
    ASSUME NEW d, NEW ids, DiskOK(d, ids), NEW f \in Files, KnownMap(f.map, ids),
           NEW t, Render(f.tokens) = t
    PROVE  /\ DiskOK(With(d, t, f), ids)
           /\ DOMAIN With(d, t, f) = DOMAIN d \union {t}
           /\ With(d, t, f)[t] = f
           /\ \A x \in DOMAIN d \ {t} : With(d, t, f)[x] = d[x]
<1>. DEFINE e == With(d, t, f)
<1>1. /\ e = [x \in DOMAIN d \union {t} |-> e[x]]
      /\ DOMAIN e = DOMAIN d \union {t} /\ e[t] = f /\ \A x \in DOMAIN d \ {t} : e[x] = d[x]
  BY DEF With
<1>. HIDE DEF e
<1>2. IsFiniteSet(DOMAIN d \union {t})
  BY FS_AddElement DEF DiskOK
<1>3. \A x \in DOMAIN e : e[x] \in Files /\ KnownMap(e[x].map, ids) /\ Render(e[x].tokens) = x
  BY <1>1 DEF DiskOK
<1>4. e \in [DOMAIN e -> Files]
  BY <1>1, <1>3
<1>5. DiskOK(e, ids)
  BY <1>1, <1>2, <1>3, <1>4 DEF DiskOK
<1>. QED BY <1>1, <1>5 DEF e

\* One file changes, but not in its tokens.
LEMMA DiskSame ==
    ASSUME NEW d, NEW ids, DiskOK(d, ids), NEW t \in DOMAIN d, NEW f \in Files,
           KnownMap(f.map, ids), f.tokens = d[t].tokens
    PROVE  DiskOK([d EXCEPT ![t] = f], ids)
BY DEF DiskOK

\* The directory when more ids are known.
LEMMA DiskKnows ==
    ASSUME NEW d, NEW ids, DiskOK(d, ids), NEW more, ids \subseteq more
    PROVE  DiskOK(d, more)
BY DEF DiskOK, KnownMap

(* ------------------------------------------------------ what steps leave alone -- *)

\* What a slot is about to lose stays saved.
LEMMA KeepsStays ==
    ASSUME NEW r, NEW d, NEW u, NEW e, NEW v, Keeps(r, d, u),
           \A t : Saved(t, d, u) => Saved(t, e, v)
    PROVE  Keeps(r, e, v)
BY DEF Keeps

\* The pending requests can be counted.
LEMMA PendingFinite ==
    /\ IsFiniteSet(Pending) /\ Cardinality(Pending) \in Nat
    /\ IsFiniteSet(Pending') /\ Cardinality(Pending') \in Nat
<1>1. IsFiniteSet(Slots \union {NoSlot})
  BY KvCacheAssumption, FS_AddElement
<1>2. Pending \in SUBSET (Slots \union {NoSlot}) /\ Pending' \in SUBSET (Slots \union {NoSlot})
  BY DEF Pending
<1>3. IsFiniteSet(Pending) /\ IsFiniteSet(Pending')
  BY <1>1, <1>2, FS_Subset
<1>. QED BY <1>3, FS_CardinalityType

\* The hits are still paid for when no request is added, and no hit.
LEMMA HitsStay ==
    ASSUME Shapes, HitsPaid, Pending' \subseteq Pending, log'.requests = log.requests,
           \A t \in DOMAIN disk' : disk'[t].ours =>
              \/ t \in DOMAIN disk /\ disk[t].ours /\ disk'[t].hits = disk[t].hits
              \/ disk'[t].hits = 0
    PROVE  HitsPaid'
<1>1. Cardinality(Pending') <= Cardinality(Pending)
  BY PendingFinite, FS_Subset
<1>2. log.requests \in Nat /\ Cardinality(Pending) <= log.requests
  BY DEF Shapes, Logs, HitsPaid
<1>3. \A t \in DOMAIN disk : disk[t].hits \in Nat
  BY DEF Shapes, DiskOK, Files
<1>4. ASSUME NEW t \in DOMAIN disk', disk'[t].ours
      PROVE  disk'[t].hits + Cardinality(Pending') <= log'.requests
  <2>1. CASE t \in DOMAIN disk /\ disk[t].ours /\ disk'[t].hits = disk[t].hits
    <3>1. disk[t].hits + Cardinality(Pending) <= log.requests /\ disk[t].hits \in Nat
      BY <1>3, <2>1 DEF HitsPaid
    <3>. DEFINE h == disk[t].hits
                p == Cardinality(Pending)
                q == Cardinality(Pending')
    <3>2. h \in Nat /\ p \in Nat /\ q \in Nat /\ q <= p /\ h + p <= log.requests
      BY <1>1, <3>1, PendingFinite
    <3>. HIDE DEF h, p, q
    <3>3. h + q <= log.requests
      BY <1>2, <3>2
    <3>. QED BY <2>1, <3>3 DEF h, q
  <2>2. CASE disk'[t].hits = 0
    <3>. DEFINE p == Cardinality(Pending)
                q == Cardinality(Pending')
    <3>2. p \in Nat /\ q \in Nat /\ q <= p /\ p <= log.requests
      BY <1>1, <1>2, PendingFinite
    <3>. HIDE DEF p, q
    <3>3. 0 + q <= log.requests
      BY <1>2, <3>2
    <3>. QED BY <2>2, <3>3 DEF q
  <2>. QED BY <1>4, <2>1, <2>2
<1>5. Cardinality(Pending') <= log'.requests
  BY <1>1, <1>2, PendingFinite
<1>. QED BY <1>4, <1>5 DEF HitsPaid

\* A directory that does not grow still fits.
LEMMA FitsStays ==
    ASSUME Shapes, Fits, ~Evicting, op'.pc # "victims", log'.cut = log.cut, Shapes', DOMAIN disk' \subseteq DOMAIN disk,
           \A t \in DOMAIN disk' : disk'[t].tokens = disk[t].tokens
    PROVE  Fits'
<1>. DEFINE f == [t \in DOMAIN disk |-> Len(disk[t].tokens)]
            g == [t \in DOMAIN disk' |-> Len(disk'[t].tokens)]
<1>1. IsFiniteSet(DOMAIN disk) /\ f \in [DOMAIN disk -> Nat]
  BY DEF Shapes, DiskOK, Files
<1>2. g \in [DOMAIN disk' -> Nat]
  BY DEF Shapes, DiskOK, Files
<1>3. \A x \in DOMAIN disk' : g[x] <= f[x]
  BY <1>1, <1>2
<1>4. Budget \in Nat /\ (~log.cut => SumFunction(f) <= Budget)
  BY KvCacheAssumption DEF Fits
<1>. HIDE DEF f, g
<1>5. SumFunction(g) \in Nat /\ SumFunction(f) \in Nat /\ SumFunction(g) <= SumFunction(f)
  BY ONLY <1>1, <1>2, <1>3, DOMAIN disk' \subseteq DOMAIN disk, SumMonotone
<1>6. ~log.cut => SumFunction(g) <= Budget
  BY <1>4, <1>5
<1>. QED BY <1>6 DEF Fits, g

\* A store or load goes on while another slot moves.
LEMMA OpStays ==
    ASSUME OpServes, op \in Ops, op' = op,
           \A x \in Slots : x = op.slot /\ op.pc # "free" => slot'[x] = slot[x]
    PROVE  OpServes'
BY DEF OpServes, Ops

\* A store under way has still saved its slot while another slot moves.
LEMMA StoreKeepsStays ==
    ASSUME StoreKeeps, op \in Ops, op' = op,
           \A x \in Slots : x = op.slot /\ op.pc # "free" => slot'[x] = slot[x],
           \A t : Saved(t, disk, Missing) => Saved(t, disk', Missing')
    PROVE  StoreKeeps'
BY DEF StoreKeeps, Ops

\* A slot moves while nothing is stored or loaded.
LEMMA SlotTurn ==
    ASSUME CacheInv, NEW s \in Slots, op.pc = "free", NEW q \in SlotStates,
           slot' = [slot EXCEPT ![s] = q], UNCHANGED <<disk, op, mem, client, log>>,
           GoesBack(q), Follows(q), Keeps(q, disk, Missing),
           q.pc \in {"save", "load"} => slot[s].pc \in {"save", "load"}
    PROVE  CacheInv'
<1>1. Shapes /\ slot \in [Slots -> SlotStates] /\ op \in Ops
  BY DEF CacheInv, Shapes
<1>2. slot' \in [Slots -> SlotStates] /\ slot'[s] = q /\ \A x \in Slots : x # s => slot'[x] = slot[x]
  BY <1>1
<1>3. Shapes'
  BY <1>1, <1>2 DEF Shapes, Known
<1>4. HitsPaid'
  <2>1. Pending' \subseteq Pending
    BY <1>2 DEF Pending
  <2>. QED BY <1>1, <2>1, HitsStay DEF CacheInv
<1>5. OpServes' /\ StoreKeeps'
  BY DEF OpServes, StoreKeeps
<1>6. SlotsWork' /\ SlotsKeep'
  BY <1>2 DEF CacheInv, SlotsWork, SlotsKeep, Missing
<1>7. Fits'
  BY DEF CacheInv, Fits, Evicting
<1>. QED BY <1>3, <1>4, <1>5, <1>6, <1>7 DEF CacheInv

\* A chunk of the prompt is evaluated, or the evaluation fails.
LEMMA PrefillInv ==
    ASSUME CacheInv, NEW s \in Slots, Prefill(s)
    PROVE  CacheInv'
<1>. DEFINE r == slot[s]
            target == Target(r)
            held == IF IsPrefix(r.tokens, target) THEN Len(r.tokens) ELSE 0
            now == SubSeq(target, 1, held + 1)
            pc == IF held + 1 > r.cached /\ ContinuedDue(held + 1, r.last) THEN "continued" ELSE "prefill"
            q == [r EXCEPT !.tokens = now, !.back = "prefill", !.pc = pc]
<1>1. /\ r.pc = "prefill" /\ op.pc = "free" /\ held < Len(target)
      /\ slot' = [slot EXCEPT ![s] = q] \/ slot' = [slot EXCEPT ![s] = Idle(<<>>)]
      /\ UNCHANGED <<disk, op, mem, client, log>>
  <2>1. /\ At(s, "prefill") /\ Free /\ held < Len(target)
        /\ \/ slot' = [slot EXCEPT ![s] = [@ EXCEPT !.tokens = now, !.back = "prefill", !.pc = pc]]
           \/ slot' = [slot EXCEPT ![s] = Idle(<<>>)]
        /\ UNCHANGED <<disk, op, mem, client, log>>
    BY Zenon DEF Prefill
  <2>. HIDE DEF held, target
  <2>. QED BY <2>1, Zenon DEF At, Free
<1>2. r \in SlotStates /\ Follows(r)
  BY DEF CacheInv, Shapes, SlotsWork
<1>. HIDE DEF r
<1>3. r.cold <= Len(r.eff)
  BY <1>1, <1>2 DEF Follows, WorkPcs
<1>4. target \in Seq(Tokens) /\ Len(target) \in Nat /\ Len(r.tokens) \in Nat
  BY <1>2, <1>3, TargetFacts DEF SlotStates
<1>5. held \in Nat /\ held + 1 \in 0 .. Len(target)
  <2>1. held \in Nat
    BY <1>4
  <2>. HIDE DEF held, target
  <2>. QED BY <1>1, <1>4, <2>1
<1>6. now \in Seq(Tokens)
  <2>. HIDE DEF held, target
  <2>. QED BY <1>4, <1>5, FirstIs
<1>. HIDE DEF now, held, target
<1>7. pc \in {"continued", "prefill"}
  OBVIOUS
<1>. HIDE DEF pc
<1>8. CASE slot' = [slot EXCEPT ![s] = q]
  <2>1. q \in SlotStates /\ q.tokens = now /\ q.back = "prefill" /\ q.pc = pc /\ q.cached = r.cached
          /\ q.cold = r.cold /\ q.eff = r.eff /\ q.req = r.req
    BY <1>2, <1>6, <1>7 DEF SlotStates, SlotPcs, WorkPcs
  <2>. HIDE DEF q
  <2>2. GoesBack(q) /\ Follows(q) /\ IsPrefix(q.tokens, Target(q))
    BY <1>1, <1>2, <1>7, <2>1, PrefillWorks DEF held, target, now
  <2>3. Keeps(q, disk, Missing) /\ q.pc \notin {"save", "load"}
    BY <1>7, <2>1, <2>2 DEF Keeps
  <2>. QED BY <1>1, <1>8, <2>1, <2>2, <2>3, SlotTurn
<1>9. CASE slot' = [slot EXCEPT ![s] = Idle(<<>>)]
  <2>1. Idle(<<>>) \in SlotStates /\ Idle(<<>>).pc = "idle"
    BY DEF Idle, SlotStates, SlotPcs, Requests, NoRequest
  <2>2. GoesBack(Idle(<<>>)) /\ Follows(Idle(<<>>)) /\ Keeps(Idle(<<>>), disk, Missing)
    BY <2>1, StopWorks
  <2>. QED BY <1>1, <1>9, <2>1, <2>2, SlotTurn
<1>. QED BY <1>1, <1>8, <1>9

\* The target is in the session: the cold store, or the generation.
LEMMA PrefilledInv ==
    ASSUME CacheInv, NEW s \in Slots, Prefilled(s)
    PROVE  CacheInv'
<1>. DEFINE r == slot[s]
            back == IF r.tokens = r.eff THEN "decode" ELSE "prefill"
            cold == [r EXCEPT !.pc = "cold", !.cold = 0, !.back = back]
            decode == [r EXCEPT !.pc = "decode"]
            q == IF r.cold = Len(r.tokens) THEN cold ELSE decode
<1>1. /\ r.pc = "prefill" /\ op.pc = "free" /\ r.tokens = Target(r)
      /\ slot' = [slot EXCEPT ![s] = q]
      /\ UNCHANGED <<disk, op, mem, client, log>>
  <2>1. /\ At(s, "prefill") /\ Free /\ r.tokens = Target(r)
        /\ slot' = [slot EXCEPT ![s] = IF r.cold = Len(r.tokens)
                      THEN [@ EXCEPT !.pc = "cold", !.cold = 0, !.back = back]
                      ELSE [@ EXCEPT !.pc = "decode"]]
        /\ UNCHANGED <<disk, op, mem, client, log>>
    BY Zenon DEF Prefilled
  <2>. QED BY <2>1, Zenon DEF At, Free
<1>2. r \in SlotStates /\ Follows(r)
  BY DEF CacheInv, Shapes, SlotsWork
<1>. HIDE DEF r
<1>3. back \in {"decode", "prefill"}
  OBVIOUS
<1>. HIDE DEF back
<1>4. cold \in SlotStates /\ cold.pc = "cold" /\ cold.cold = 0 /\ cold.back = back
        /\ cold.tokens = r.tokens /\ cold.eff = r.eff /\ cold.req = r.req /\ cold.cached = r.cached
  BY <1>2, <1>3 DEF SlotStates, SlotPcs, WorkPcs
<1>5. decode \in SlotStates /\ decode.pc = "decode" /\ decode.cold = r.cold
        /\ decode.tokens = r.tokens /\ decode.eff = r.eff /\ decode.req = r.req
        /\ decode.cached = r.cached
  BY <1>2 DEF SlotStates, SlotPcs, WorkPcs
<1>. HIDE DEF cold, decode
<1>6. q \in SlotStates /\ q.pc \in {"cold", "decode"} /\ q.tokens = r.tokens /\ q.eff = r.eff
        /\ q.req = r.req /\ q.cached = r.cached
        /\ \/ /\ r.cold = Len(r.tokens) /\ q.pc = "cold" /\ q.cold = 0 /\ q.back = back
           \/ /\ r.cold # Len(r.tokens) /\ q.pc = "decode" /\ q.cold = r.cold
  BY <1>4, <1>5
<1>. HIDE DEF q
<1>7. GoesBack(q) /\ Follows(q)
  BY <1>1, <1>2, <1>6, PrefilledWorks DEF back
<1>8. Keeps(q, disk, Missing)
  BY <1>6 DEF Keeps
<1>. QED BY <1>1, <1>6, <1>7, <1>8, SlotTurn

\* The generation begins, maybe with a store.
LEMMA DecodeInv ==
    ASSUME CacheInv, NEW s \in Slots, Decode(s)
    PROVE  CacheInv'
<1>. DEFINE r == slot[s]
            pc == IF ContinuedDue(Len(r.tokens), r.last) THEN "continued" ELSE "sample"
            q == [r EXCEPT !.pc = pc, !.back = "sample"]
<1>1. /\ r.pc = "decode" /\ op.pc = "free"
      /\ slot' = [slot EXCEPT ![s].pc = pc, ![s].back = "sample"]
      /\ UNCHANGED <<disk, op, mem, client, log>>
  BY Zenon DEF Decode, At, Free
<1>2. slot \in [Slots -> SlotStates] /\ r \in SlotStates /\ Follows(r)
  BY DEF CacheInv, Shapes, SlotsWork
<1>3. slot' = [slot EXCEPT ![s] = q]
  <2>. HIDE DEF pc
  <2>. QED BY <1>1, <1>2
<1>. HIDE DEF r
<1>4. pc \in {"continued", "sample"}
  OBVIOUS
<1>. HIDE DEF pc
<1>5. q \in SlotStates /\ q.pc = pc /\ q.back = "sample" /\ q.tokens = r.tokens
        /\ q.cached = r.cached /\ q.cold = r.cold /\ q.eff = r.eff /\ q.req = r.req
  BY <1>2, <1>4 DEF SlotStates, SlotPcs, WorkPcs
<1>. HIDE DEF q
<1>6. GoesBack(q) /\ Follows(q)
  BY <1>1, <1>2, <1>4, <1>5, DecodeWorks
<1>7. Keeps(q, disk, Missing)
  BY <1>4, <1>5 DEF Keeps
<1>. QED BY <1>1, <1>3, <1>4, <1>5, <1>6, <1>7, SlotTurn

\* The slot when its turn is over.
LEMMA OverWorks ==
    ASSUME NEW r \in SlotStates, NEW d, NEW unsaved
    PROVE  LET q == [Idle(r.tokens) EXCEPT !.last = r.last]
           IN  /\ q \in SlotStates /\ q.pc = "idle"
               /\ GoesBack(q) /\ Follows(q) /\ Keeps(q, d, unsaved)
<1>. DEFINE q == [Idle(r.tokens) EXCEPT !.last = r.last]
<1>1. q \in SlotStates /\ q.pc = "idle"
  <2>1. Idle(r.tokens) \in SlotStates /\ Idle(r.tokens).pc = "idle" /\ r.last \in Nat
    BY DEF Idle, SlotStates, SlotPcs, Requests, NoRequest
  <2>. QED BY <2>1 DEF SlotStates
<1>. HIDE DEF q
<1>2. GoesBack(q) /\ Follows(q) /\ Keeps(q, d, unsaved)
  BY <1>1, StopWorks
<1>. QED BY <1>1, <1>2 DEF q

\* A call is sampled, or the turn ends.
LEMMA SampleInv ==
    ASSUME CacheInv, NEW s \in Slots, Sample(s)
    PROVE  CacheInv'
<1>. DEFINE r == slot[s]
            over == [Idle(r.tokens) EXCEPT !.last = r.last]
<1>1. r \in SlotStates /\ slot \in [Slots -> SlotStates]
  BY DEF CacheInv, Shapes
<1>2. op.pc = "free" /\ UNCHANGED <<disk, op, mem, client, log>>
  BY DEF Sample, Free
<1>3. CASE slot' = [slot EXCEPT ![s] = over]
  <2>1. over \in SlotStates /\ over.pc = "idle" /\ GoesBack(over) /\ Follows(over)
          /\ Keeps(over, disk, Missing)
    BY <1>1, OverWorks
  <2>. HIDE DEF over
  <2>. QED BY <1>2, <1>3, <2>1, SlotTurn
<1>4. ASSUME NEW b \in Blocks,
             slot' = [slot EXCEPT ![s].tokens = Append(@, Sampled(b)), ![s].pc = "remember"]
      PROVE  CacheInv'
  <2>. DEFINE tokens == Append(r.tokens, Sampled(b))
              q == [r EXCEPT !.tokens = tokens, !.pc = "remember"]
  <2>1. slot' = [slot EXCEPT ![s] = q]
    BY <1>1, <1>4
  <2>2. tokens \in Seq(Tokens) /\ tokens # <<>> /\ Last(tokens)[1] \in Blocks
    <3>1. r.tokens \in Seq(Tokens)
      BY <1>1 DEF SlotStates
    <3>2. Sampled(b) \in Tokens /\ Sampled(b)[1] = b
      BY DEF Sampled, Tokens, Segments
    <3>. HIDE DEF r
    <3>3. tokens \in Seq(Tokens) /\ tokens # <<>> /\ tokens[Len(tokens)] = Sampled(b)
      BY <3>1, <3>2
    <3>. QED BY <3>2, <3>3 DEF Last
  <2>. HIDE DEF tokens, r
  <2>3. q \in SlotStates /\ q.pc = "remember" /\ q.tokens = tokens
    BY <1>1, <2>2 DEF SlotStates, SlotPcs
  <2>. HIDE DEF q
  <2>4. GoesBack(q) /\ Follows(q) /\ Keeps(q, disk, Missing)
    BY <2>2, <2>3 DEF GoesBack, Follows, Complete, WorkPcs, Keeps
  <2>. QED BY <1>2, <2>1, <2>3, <2>4, SlotTurn
<1>. QED BY <1>3, <1>4, Zenon DEF Sample

\* No entries are entries of a directory, and so are those that are read from one.
LEMMA NoEntries ==
    <<>> \in Listings /\ \A ids : DiskOK(<<>>, ids)
<1>1. <<>> \in [{} -> Files] /\ DOMAIN <<>> = {}
  OBVIOUS
<1>2. IsFiniteSet({})
  BY FS_EmptySet
<1>. QED BY <1>1, <1>2 DEF Listings, DiskOK

LEMMA EntriesRead ==
    ASSUME NEW d, NEW ids, DiskOK(d, ids)
    PROVE  d \in Listings
<1>1. \A t \in DOMAIN d : t \in Seq(Segments)
  BY RenderFacts DEF DiskOK, Files
<1>. QED BY <1>1 DEF Listings, DiskOK

\* Nothing is stored or loaded.
LEMMA NoOpFacts ==
    /\ NoOp \in Ops /\ NoOp.pc = "free" /\ NoOp.slot = NoSlot
    /\ NoOp.entry = <<>> /\ \A ids : KnownOp(NoOp, ids)
<1>1. File(<<>>, {}) \in Files /\ File(<<>>, {}).map = {}
  BY DEF File, Files
<1>2. <<>> \in Listings /\ \A ids : DiskOK(<<>>, ids)
  BY NoEntries
<1>3. NoOp \in Ops /\ NoOp.pc = "free" /\ NoOp.slot = NoSlot /\ NoOp.file = File(<<>>, {})
        /\ NoOp.entry = <<>>
  BY <1>1, <1>2 DEF NoOp, Ops, OpPcs
<1>4. IsFiniteSet({})
  BY FS_EmptySet
<1>. QED BY <1>1, <1>2, <1>3, <1>4 DEF KnownMap, KnownOp

\* A store or a load of slot s is over.
LEMMA OpEnds ==
    ASSUME CacheInv, NEW s \in Slots, NEW q \in SlotStates,
           slot' = [slot EXCEPT ![s] = q], client' = client,
           op' \in Ops, op'.pc = "free", KnownOp(op', Known),
           log' \in Logs, log'.calls = log.calls, mem' \in Limited(Known),
           DiskOK(disk', Known), GoesBack(q), Follows(q), Keeps(q, disk', Missing'),
           \A t : Saved(t, disk, Missing) => Saved(t, disk', Missing'),
           HitsPaid', Shapes' => Fits'
    PROVE  CacheInv'
<1>1. Shapes /\ slot \in [Slots -> SlotStates]
  BY DEF CacheInv, Shapes
<1>2. slot' \in [Slots -> SlotStates] /\ slot'[s] = q /\ \A x \in Slots : x # s => slot'[x] = slot[x]
  BY <1>1
<1>3. Shapes'
  BY <1>1, <1>2 DEF Shapes, Known
<1>4. OpServes' /\ StoreKeeps'
  BY DEF OpServes, StoreKeeps
<1>5. SlotsWork'
  BY <1>2 DEF CacheInv, SlotsWork
<1>6. SlotsKeep'
  <2>. SUFFICES ASSUME NEW x \in Slots PROVE Keeps(slot'[x], disk', Missing')
    BY DEF SlotsKeep
  <2>1. x # s => Keeps(slot[x], disk, Missing)
    BY DEF CacheInv, SlotsKeep
  <2>. QED BY <1>2, <2>1, KeepsStays
<1>. QED BY <1>3, <1>4, <1>5, <1>6 DEF CacheInv

\* A store or a load of a slot begins, or comes to its next step.
LEMMA OpMoves ==
    ASSUME CacheInv, ~Evicting, op'.pc # "victims", op' \in Ops, KnownOp(op', Known),
           Missing \subseteq Missing',
           UNCHANGED <<disk, slot, mem, client, log>>, OpServes', StoreKeeps'
    PROVE  CacheInv'
<1>1. Shapes'
  BY DEF CacheInv, Shapes, Known
<1>2. HitsPaid'
  <2>1. Pending' = Pending
    BY DEF Pending
  <2>. QED BY <2>1, HitsStay DEF CacheInv
<1>3. SlotsWork' /\ Fits'
  BY DEF CacheInv, SlotsWork, Fits, Evicting
<1>4. SlotsKeep'
  BY DEF CacheInv, SlotsKeep, Keeps, Saved
<1>. QED BY <1>1, <1>2, <1>3, <1>4 DEF CacheInv

\* The slot when its load is over.
LEMMA StartsIs ==
    ASSUME slot \in [Slots -> SlotStates], NEW s \in Slots, NEW tokens \in Seq(Tokens),
           NEW cached \in Nat, NEW eff \in Seq(Tokens), Starts(s, tokens, cached, eff)
    PROVE  \E q \in SlotStates :
              /\ slot' = [slot EXCEPT ![s] = q]
              /\ q.pc = "prefill" /\ q.tokens = tokens /\ q.cached = cached /\ q.eff = eff
              /\ q.cold <= Len(eff) /\ (cached > 0 => q.cold = 0) /\ q.req = slot[s].req
<1>. DEFINE r == slot[s]
            cold == IF cached = 0 /\ Len(eff) >= MinTokens /\ Len(eff) <= ColdMax
                    THEN StoreLen(Len(eff)) ELSE 0
            last == IF cached > 0 THEN cached ELSE r.last
            q == [r EXCEPT !.pc = "prefill", !.tokens = tokens, !.cached = cached, !.eff = eff,
                           !.cold = cold, !.last = last]
<1>1. slot' = [slot EXCEPT ![s] = q]
  BY DEF Starts
<1>2. r \in SlotStates
  OBVIOUS
<1>. HIDE DEF r
<1>3. Len(eff) \in Nat /\ cold \in Nat /\ cold <= Len(eff) /\ (cached > 0 => cold = 0)
  <2>1. Len(eff) \in Nat
    OBVIOUS
  <2>2. StoreLen(Len(eff)) \in 0 .. Len(eff)
    BY <2>1, StoreLenFits
  <2>. QED BY <2>1, <2>2
<1>4. last \in Nat
  BY <1>2 DEF SlotStates
<1>. HIDE DEF cold, last
<1>5. q \in SlotStates /\ q.pc = "prefill" /\ q.tokens = tokens /\ q.cached = cached
        /\ q.eff = eff /\ q.cold = cold /\ q.req = r.req
  BY <1>2, <1>3, <1>4 DEF SlotStates, SlotPcs, WorkPcs
<1>. HIDE DEF q
<1>. QED BY <1>1, <1>3, <1>5 DEF r

\* The longest checkpoint found is one that was found.
LEMMA FoundLongest ==
    ASSUME DiskOK(disk, Known), NEW prompt \in Seq(Segments), Found(prompt) # {}
    PROVE  LET t == CHOOSE t \in Found(prompt) : \A u \in Found(prompt) : Len(u) <= Len(t)
           IN  t \in Seq(Segments) /\ IsPrefix(t, prompt) /\ t \in DOMAIN disk
<1>. DEFINE F == Found(prompt)
<1>1. \A t \in F : t \in DOMAIN disk /\ IsPrefix(t, prompt)
  BY DEF Found
<1>2. \A t \in F : t \in Seq(Segments)
  BY <1>1, RenderFacts DEF DiskOK, Files
<1>3. Len(prompt) \in Nat /\ \A t \in F : Len(t) \in Nat /\ Len(t) <= Len(prompt)
  BY <1>1, <1>2, PrefixIs
<1>. HIDE DEF F
<1>4. \E t \in F : \A u \in F : Len(u) <= Len(t)
  <2>. DEFINE R == {Len(prompt) - Len(u) : u \in F}
  <2>1. R \in SUBSET Nat /\ R # {}
    <3>1. \A u \in F : Len(prompt) - Len(u) \in Nat
      BY <1>3
    <3>. QED BY <3>1 DEF F
  <2>2. PICK r \in R : \A k \in R : r <= k
    BY <2>1, HasLeast
  <2>3. PICK t \in F : r = Len(prompt) - Len(t)
    BY <2>2
  <2>4. ASSUME NEW u \in F PROVE Len(u) <= Len(t)
    <3>1. Len(prompt) - Len(t) <= Len(prompt) - Len(u)
      BY <2>2, <2>3
    <3>. QED BY <1>3, <3>1
  <2>. QED BY <2>4
<1>5. (CHOOSE t \in F : \A u \in F : Len(u) <= Len(t)) \in F
  BY <1>4, Zenon
<1>. QED BY <1>1, <1>2, <1>5 DEF F

\* kv_cache_find_text_prefix: a checkpoint to open, or none.
LEMMA LoadFindsInv ==
    ASSUME CacheInv, NEW s \in Slots, LoadFinds(s)
    PROVE  CacheInv'
<1>. DEFINE r == slot[s]
<1>1. r.pc = "load" /\ op.pc = "free" /\ UNCHANGED <<disk, mem, client, log>>
  BY DEF LoadFinds, At, Free
<1>2. slot \in [Slots -> SlotStates] /\ r \in SlotStates /\ Follows(r) /\ Keeps(r, disk, Missing)
  BY DEF CacheInv, Shapes, SlotsWork, SlotsKeep
<1>3. r.tokens \in Seq(Tokens) /\ r.eff \in Seq(Tokens) /\ r.req.prompt \in Seq(Segments)
  BY <1>2 DEF SlotStates, Requests
<1>4. CASE Starts(s, r.tokens, 0, r.eff) /\ op' = op
  <2>. HIDE DEF r
  <2>1. PICK q \in SlotStates :
              /\ slot' = [slot EXCEPT ![s] = q]
              /\ q.pc = "prefill" /\ q.tokens = r.tokens /\ q.cached = 0 /\ q.eff = r.eff
              /\ q.cold <= Len(r.eff) /\ q.req = r.req
    BY <1>2, <1>3, <1>4, StartsIs DEF r
  <2>2. Render(q.eff) = q.req.prompt
    BY <1>1, <1>2, <1>3, <2>1, TokenizeFacts DEF Follows
  <2>3. GoesBack(q) /\ Follows(q)
    BY <2>1, <2>2, StartWorks
  <2>4. Keeps(q, disk, Missing)
    BY <1>1, <1>2, <2>1 DEF Keeps
  <2>. QED BY <1>1, <1>4, <2>1, <2>3, <2>4, SlotTurn
<1>5. CASE /\ Found(r.req.prompt) # {} /\ slot' = slot
           /\ op' = [NoOp EXCEPT !.slot = s, !.pc = "open",
                        !.text = CHOOSE t \in Found(r.req.prompt) :
                                    \A u \in Found(r.req.prompt) : Len(u) <= Len(t)]
  <2>. DEFINE t == CHOOSE t \in Found(r.req.prompt) : \A u \in Found(r.req.prompt) : Len(u) <= Len(t)
  <2>1. t \in Seq(Segments) /\ IsPrefix(t, r.req.prompt)
    BY <1>3, <1>5, FoundLongest DEF CacheInv, Shapes
  <2>2. op' = [NoOp EXCEPT !.slot = s, !.pc = "open", !.text = t]
    BY <1>5
  <2>. HIDE DEF t
  <2>3. op' \in Ops /\ op'.pc = "open" /\ op'.slot = s /\ op'.text = t /\ op'.file = NoOp.file
          /\ op'.entry = NoOp.entry
    BY <2>1, <2>2, NoOpFacts DEF Ops, OpPcs
  <2>4. KnownOp(op', Known)
    BY <2>3, NoOpFacts DEF KnownOp
  <2>5. OpServes'
    BY <1>1, <1>5, <2>1, <2>3 DEF OpServes
  <2>6. StoreKeeps'
    BY <2>3 DEF StoreKeeps
  <2>7. ~Evicting /\ Missing \subseteq Missing'
    BY <1>1 DEF Evicting, Missing
  <2>. QED BY <1>1, <1>5, <2>3, <2>4, <2>5, <2>6, <2>7, OpMoves
<1>. QED BY <1>4, <1>5, Zenon DEF LoadFinds

\* The checkpoint is loaded, is gone, or costs the session.
LEMMA LoadOpensInv ==
    ASSUME CacheInv, LoadOpens
    PROVE  CacheInv'
<1>. DEFINE s == op.slot
            r == slot[s]
            f == disk[op.text]
            Goes == /\ disk' = Without(disk, op.text)
                    /\ log' = [log EXCEPT !.unsaved = @ \union {op.text}]
<1>1. op.pc = "open" /\ op' = NoOp /\ UNCHANGED client
  BY DEF LoadOpens
<1>2. s \in Slots /\ r.pc = "load" /\ IsPrefix(op.text, r.req.prompt)
  BY <1>1 DEF CacheInv, OpServes
<1>3. /\ slot \in [Slots -> SlotStates] /\ r \in SlotStates /\ Follows(r)
      /\ Keeps(r, disk, Missing)
  BY <1>2 DEF CacheInv, Shapes, SlotsWork, SlotsKeep
<1>4. r.tokens \in Seq(Tokens) /\ r.eff \in Seq(Tokens) /\ r.req.prompt \in Seq(Segments)
        /\ Render(r.eff) = r.req.prompt
  <2>1. r.tokens \in Seq(Tokens) /\ r.eff \in Seq(Tokens) /\ r.req.prompt \in Seq(Segments)
    BY <1>3 DEF SlotStates, Requests
  <2>. QED BY <1>2, <1>3, <2>1, TokenizeFacts DEF Follows
<1>5. Shapes /\ DiskOK(disk, Known) /\ mem \in Limited(Known) /\ log \in Logs /\ HitsPaid /\ Fits
  BY DEF CacheInv, Shapes
<1>6. ASSUME NEW q \in SlotStates, slot' = [slot EXCEPT ![s] = q], q.pc = "prefill"
      PROVE  Pending' \subseteq Pending /\ s \in Pending /\ s \notin Pending'
  <2>1. slot'[s] = q /\ \A x \in Slots : x # s => slot'[x] = slot[x]
    BY <1>2, <1>3, <1>6
  <2>2. s # NoSlot
    BY <1>2, KvCacheAssumption
  <2>. HIDE DEF s
  <2>. QED BY <1>1, <1>2, <1>6, <2>1, <2>2 DEF Pending
<1>7. ASSUME NEW tokens \in Seq(Tokens), tokens = r.tokens \/ tokens = <<>>,
             Starts(s, tokens, 0, r.eff), mem' = mem, Goes \/ (disk' = disk /\ log' = log)
      PROVE  CacheInv'
  <2>. HIDE DEF r, s, Goes
  <2>1. PICK q \in SlotStates :
              /\ slot' = [slot EXCEPT ![s] = q]
              /\ q.pc = "prefill" /\ q.tokens = tokens /\ q.cached = 0 /\ q.eff = r.eff
              /\ q.cold <= Len(r.eff) /\ q.req = r.req
    <3>1. /\ slot \in [Slots -> SlotStates] /\ s \in Slots /\ r.eff \in Seq(Tokens)
          /\ Starts(s, tokens, 0, r.eff)
      BY <1>2, <1>3, <1>4, <1>7
    <3>2. \E q \in SlotStates :
              /\ slot' = [slot EXCEPT ![s] = q]
              /\ q.pc = "prefill" /\ q.tokens = tokens /\ q.cached = 0 /\ q.eff = r.eff
              /\ q.cold <= Len(r.eff) /\ (0 > 0 => q.cold = 0) /\ q.req = slot[s].req
      BY ONLY <3>1, tokens \in Seq(Tokens), 0 \in Nat, StartsIs
    <3>. QED BY <3>2 DEF r
  <2>2. GoesBack(q) /\ Follows(q)
    BY <1>4, <2>1, StartWorks
  <2>3. /\ log' \in Logs /\ log'.calls = log.calls /\ log'.requests = log.requests
        /\ log'.cut = log.cut /\ log.unsaved \subseteq log'.unsaved
        /\ Goes => log'.unsaved = log.unsaved \union {op.text}
    <3>1. op.text \in Seq(Segments)
      BY DEF CacheInv, Shapes, Ops
    <3>2. CASE log' = log
      BY <1>5, <3>2 DEF Logs, Goes
    <3>3. CASE Goes
      BY <1>5, <3>1, <3>3 DEF Logs, Goes
    <3>. QED BY <1>7, <3>2, <3>3
  <2>4. /\ DiskOK(disk', Known) /\ DOMAIN disk' \subseteq DOMAIN disk
        /\ \A x \in DOMAIN disk' : disk'[x] = disk[x]
        /\ \A x \in DOMAIN disk : x \in DOMAIN disk' \/ (Goes /\ x = op.text)
    <3>1. CASE disk' = disk
      BY <1>5, <3>1
    <3>2. CASE Goes
      <4>1. disk' = Without(disk, op.text)
        BY <3>2 DEF Goes
      <4>2. /\ DiskOK(Without(disk, op.text), Known)
            /\ DOMAIN Without(disk, op.text) = DOMAIN disk \ {op.text}
            /\ \A x \in DOMAIN disk \ {op.text} : Without(disk, op.text)[x] = disk[x]
        <5>1. DiskOK(disk, Known)
          BY <1>5
        <5>. QED BY ONLY <5>1, DiskLess
      <4>. QED BY <3>2, <4>1, <4>2
    <3>. QED BY <1>7, <3>1, <3>2
  <2>5. \A t : Saved(t, disk, Missing) => Saved(t, disk', Missing')
    BY <1>1, <2>3, <2>4 DEF Saved, Missing
  <2>6. Keeps(q, disk', Missing')
    <3>1. CASE tokens = r.tokens
      BY <1>2, <1>3, <2>1, <2>5, <3>1 DEF Keeps
    <3>2. CASE tokens = <<>>
      <4>1. Len(q.tokens) = 0 /\ MinTokens > 0 /\ MinTokens \in Nat
        BY <2>1, <3>2, KvCacheAssumption
      <4>. QED BY <4>1 DEF Keeps
    <3>. QED BY <1>7, <3>1, <3>2
  <2>7. HitsPaid'
    <3>1. Pending' \subseteq Pending
      BY <1>6, <2>1
    <3>. QED BY <1>5, <2>3, <2>4, <3>1, HitsStay
  <2>8. Shapes' => Fits'
    <3>1. ~Evicting /\ op'.pc # "victims"
      BY <1>1, NoOpFacts DEF Evicting
    <3>. QED BY <1>5, <2>3, <2>4, <3>1, FitsStays
  <2>9. mem' \in Limited(Known) /\ client' = client
    BY <1>1, <1>5, <1>7
  <2>. QED BY <1>1, <1>2, <1>5, <2>1, <2>2, <2>3, <2>4, <2>5, <2>6, <2>7, <2>8, <2>9,
         NoOpFacts, OpEnds
<1>8. ASSUME op.text \in DOMAIN disk,
             Starts(s, f.tokens, Len(f.tokens), Effective(f.tokens, r.req.prompt)),
             mem' = PutAll(mem, f.map), disk' = [disk EXCEPT ![op.text].hits = @ + 1], log' = log
      PROVE  CacheInv'
  <2>. DEFINE eff == Effective(f.tokens, r.req.prompt)
              cached == Len(f.tokens)
              g == [f EXCEPT !.hits = f.hits + 1]
  <2>1. f \in Files /\ KnownMap(f.map, Known) /\ Render(f.tokens) = op.text
    BY <1>5, <1>8 DEF DiskOK
  <2>2. f.tokens \in Seq(Tokens) /\ cached \in Nat /\ f.hits \in Nat
    BY <2>1 DEF Files
  <2>3. eff \in Seq(Tokens) /\ Render(eff) = r.req.prompt /\ IsPrefix(f.tokens, eff)
    BY <1>2, <1>4, <2>1, <2>2, EffectiveFacts
  <2>4. disk' = [disk EXCEPT ![op.text] = g]
    BY <1>5, <1>8 DEF DiskOK
  <2>. HIDE DEF f, r, s, eff, cached
  <2>5. g \in Files /\ g.map = f.map /\ g.tokens = f.tokens /\ g.ours = f.ours /\ g.hits = f.hits + 1
    BY <2>1, <2>2 DEF Files
  <2>. HIDE DEF g
  <2>6. DiskOK(disk', Known)
    <3>1. DiskOK(disk, Known) /\ op.text \in DOMAIN disk /\ g \in Files /\ KnownMap(g.map, Known)
            /\ g.tokens = disk[op.text].tokens
      BY <1>5, <1>8, <2>1, <2>5 DEF f
    <3>2. DiskOK([disk EXCEPT ![op.text] = g], Known)
      BY ONLY <3>1, DiskSame
    <3>. QED BY <2>4, <3>2
  <2>7. /\ DOMAIN disk' = DOMAIN disk /\ disk'[op.text] = g
        /\ \A t \in DOMAIN disk : t # op.text => disk'[t] = disk[t]
    BY <1>8, <2>4
  <2>8. mem' \in Limited(Known)
    <3>1. \A x \in f.map : x.id \in Known /\ x.block \in Blocks
      BY <2>1 DEF KnownMap, Files
    <3>2. IsFiniteSet(f.map)
      BY <2>1 DEF KnownMap
    <3>. QED BY <1>5, <1>8, <3>1, <3>2, PutAllLimits
  <2>9. PICK q \in SlotStates :
              /\ slot' = [slot EXCEPT ![s] = q]
              /\ q.pc = "prefill" /\ q.tokens = f.tokens /\ q.cached = cached /\ q.eff = eff
              /\ q.cold <= Len(eff) /\ (cached > 0 => q.cold = 0) /\ q.req = r.req
    BY <1>2, <1>3, <1>8, <2>2, <2>3, StartsIs DEF r, cached, eff
  <2>10. GoesBack(q) /\ Follows(q)
    <3>1. cached <= Len(f.tokens)
      BY <2>2 DEF cached
    <3>. QED BY <2>3, <2>9, <3>1, StartWorks
  <2>11. \A t : Saved(t, disk, Missing) => Saved(t, disk', Missing')
    BY <1>1, <1>8, <2>5, <2>7 DEF Saved, Missing, f
  <2>12. Keeps(q, disk', Missing')
    <3>1. CASE cached > 0
      <4>1. Target(q) = eff
        BY <2>9, <3>1 DEF Target
      <4>. QED BY <2>3, <2>9, <4>1 DEF Keeps
    <3>2. CASE cached = 0
      <4>1. Len(q.tokens) = 0 /\ MinTokens > 0 /\ MinTokens \in Nat
        BY <2>9, <3>2, KvCacheAssumption DEF cached
      <4>. QED BY <4>1 DEF Keeps
    <3>. QED BY <2>2, <3>1, <3>2
  <2>13. HitsPaid'
    <3>1. Pending' \subseteq Pending \ {s} /\ s \in Pending
      BY <1>6, <2>9
    <3>. DEFINE p == Cardinality(Pending)
                n == Cardinality(Pending')
    <3>2. p \in Nat /\ n \in Nat /\ n <= p - 1
      <4>1. IsFiniteSet(Pending) /\ p \in Nat /\ n \in Nat
        BY PendingFinite
      <4>2. IsFiniteSet(Pending \ {s}) /\ Cardinality(Pending \ {s}) = p - 1
        BY <3>1, <4>1, FS_RemoveElement
      <4>3. n <= Cardinality(Pending \ {s})
        BY <3>1, <4>2, FS_Subset
      <4>. QED BY <4>1, <4>2, <4>3
    <3>3. log.requests \in Nat /\ p <= log.requests /\ log'.requests = log.requests
      BY <1>5, <1>8 DEF Logs, HitsPaid
    <3>4. ASSUME NEW t \in DOMAIN disk', disk'[t].ours
          PROVE  disk'[t].hits + n <= log'.requests
      <4>. DEFINE h == disk[t].hits
      <4>1. t \in DOMAIN disk /\ disk[t].ours /\ (disk'[t].hits = h \/ disk'[t].hits = h + 1)
        BY <2>5, <2>7, <3>4 DEF f
      <4>2. h \in Nat /\ h + p <= log.requests
        BY <1>5, <4>1 DEF HitsPaid, DiskOK, Files
      <4>. HIDE DEF h, p, n
      <4>. QED BY <3>2, <3>3, <4>1, <4>2
    <3>5. n <= log'.requests
      <4>. HIDE DEF p, n
      <4>. QED BY <3>2, <3>3
    <3>. QED BY <3>4, <3>5 DEF HitsPaid
  <2>14. Shapes' => Fits'
    <3>1. \A t \in DOMAIN disk' : disk'[t].tokens = disk[t].tokens
      BY <2>5, <2>7 DEF f
    <3>2. ~Evicting /\ op'.pc # "victims" /\ log'.cut = log.cut
      BY <1>1, <1>8, NoOpFacts DEF Evicting
    <3>. QED BY <1>5, <2>7, <3>1, <3>2, FitsStays
  <2>. QED BY <1>1, <1>2, <1>5, <1>8, <2>6, <2>8, <2>9, <2>10, <2>11, <2>12, <2>13, <2>14,
         NoOpFacts, OpEnds
<1>9. <<>> \in Seq(Tokens)
  OBVIOUS
<1>10. \/ /\ Starts(s, r.tokens, 0, r.eff) \/ Starts(s, <<>>, 0, r.eff)
          /\ mem' = mem /\ (Goes \/ (disk' = disk /\ log' = log))
       \/ /\ op.text \in DOMAIN disk
          /\ Starts(s, f.tokens, Len(f.tokens), Effective(f.tokens, r.req.prompt))
          /\ mem' = PutAll(mem, f.map) /\ disk' = [disk EXCEPT ![op.text].hits = @ + 1]
          /\ log' = log
  BY Zenon DEF LoadOpens
<1>. QED BY <1>4, <1>7, <1>8, <1>9, <1>10

\* A slot takes its request, and saves the session if it must.
LEMMA BeginInv ==
    ASSUME CacheInv, NEW s \in Slots, Begin(s)
    PROVE  CacheInv'
<1>. DEFINE r == slot[s]
            req == client.req
            prompt == req.prompt
            live == r.tokens
            known == IF live # <<>> /\ IsPrefix(live, Tokenize(prompt)) THEN Tokenize(prompt)
                     ELSE IF live # <<>> /\ IsPrefix(Render(live), prompt)
                     THEN Effective(live, prompt) ELSE <<>>
            cached == IF known = <<>> THEN 0 ELSE Len(live)
            last == IF cached = 0 THEN 0 ELSE r.last
            eff == IF cached = 0 THEN Tokenize(prompt) ELSE known
            pc == FirstStep(cached, live)
            q == [r EXCEPT !.req = req, !.cached = cached, !.cold = 0, !.last = last,
                           !.eff = eff, !.pc = pc, !.back = "load"]
<1>1. /\ r.pc = "idle" /\ client.pc = "ready" /\ slot' = [slot EXCEPT ![s] = q]
      /\ client' = [client EXCEPT !.pc = "idle", !.req = NoRequest]
      /\ UNCHANGED <<disk, op, mem, log>>
  BY Zenon DEF Begin, At
<1>2. Shapes /\ slot \in [Slots -> SlotStates] /\ r \in SlotStates /\ client \in Clients
        /\ req \in Requests /\ op \in Ops
  BY DEF CacheInv, Shapes, Clients
<1>. HIDE DEF r, req
<1>3. known \in Seq(Tokens) /\ cached \in Nat
  BY <1>2, BeginWorks
<1>4. prompt \in Seq(Segments)
  BY <1>2 DEF Requests
<1>5. last \in Nat
  BY <1>2 DEF SlotStates
<1>6. eff \in Seq(Tokens)
  <2>. HIDE DEF known, cached, prompt
  <2>. QED BY <1>3, <1>4, TokenizeFacts
<1>7. pc \in {"prefill", "save", "load"}
  <2>. HIDE DEF cached, live
  <2>. QED BY DEF FirstStep
<1>8. /\ q \in SlotStates /\ q.req = req /\ q.tokens = live /\ q.cached = cached /\ q.cold = 0
      /\ q.eff = eff /\ q.pc = pc /\ q.back = "load"
  <2>1. pc \in SlotPcs /\ "load" \in SlotPcs
    BY <1>7 DEF SlotPcs, StorePcs, WorkPcs
  <2>. HIDE DEF known, cached, last, eff, pc
  <2>. QED BY <1>2, <1>3, <1>5, <1>6, <2>1 DEF SlotStates
<1>. HIDE DEF q
<1>9. /\ GoesBack(q) /\ Follows(q) /\ q.pc \in {"prefill", "save", "load"}
      /\ q.pc = "load" => Len(q.tokens) < MinTokens
      /\ q.pc = "prefill" => IsPrefix(q.tokens, Target(q))
  BY <1>2, <1>8, BeginWorks
<1>. HIDE DEF known, cached, last, eff, pc, prompt, live
<1>10. Keeps(q, disk, Missing)
  <2>1. Len(q.tokens) \in Nat /\ MinTokens \in Nat
    BY <1>8, KvCacheAssumption DEF SlotStates
  <2>. QED BY <1>9, <2>1 DEF Keeps
<1>11. slot' \in [Slots -> SlotStates] /\ slot'[s] = q /\ \A x \in Slots : x # s => slot'[x] = slot[x]
  BY <1>1, <1>2, <1>8
<1>12. client' \in Clients /\ client'.pc = "idle"
  <2>1. NoRequest \in Requests
    BY DEF Requests, NoRequest
  <2>. QED BY <1>1, <1>2, <2>1 DEF Clients
<1>13. Shapes'
  BY <1>1, <1>2, <1>11, <1>12 DEF Shapes, Known
<1>14. HitsPaid'
  <2>1. IsFiniteSet(Pending) /\ Cardinality(Pending) \in Nat /\ Cardinality(Pending') \in Nat
    BY PendingFinite
  <2>2. NoSlot \in Pending /\ s \notin Pending /\ Pending' \subseteq (Pending \ {NoSlot}) \union {s}
    <3>1. NoSlot \notin Slots
      BY KvCacheAssumption
    <3>2. slot[s].pc = "idle" /\ slot'[s].pc \in {"prefill", "save", "load"}
      BY <1>1, <1>9, <1>11 DEF r
    <3>3. NoSlot \in Pending
      BY <1>1 DEF Pending
    <3>4. s \notin Pending
      BY <3>1, <3>2 DEF Pending
    <3>5. \A x \in Pending' : x \in Slots /\ (x = s \/ x \in Pending)
      BY <1>11, <1>12 DEF Pending
    <3>. QED BY <3>1, <3>3, <3>4, <3>5
  <2>3. IsFiniteSet(Pending \ {NoSlot})
          /\ Cardinality(Pending \ {NoSlot}) = Cardinality(Pending) - 1
    BY <2>1, <2>2, FS_RemoveElement
  <2>4. IsFiniteSet((Pending \ {NoSlot}) \union {s})
          /\ Cardinality((Pending \ {NoSlot}) \union {s}) = Cardinality(Pending)
    <3>1. s \notin Pending \ {NoSlot}
      BY <2>2
    <3>2. IsFiniteSet((Pending \ {NoSlot}) \union {s})
          /\ Cardinality((Pending \ {NoSlot}) \union {s}) = Cardinality(Pending \ {NoSlot}) + 1
      BY <2>3, <3>1, FS_AddElement
    <3>. QED BY <2>1, <2>3, <3>2
  <2>5. Cardinality(Pending') <= Cardinality(Pending)
    BY <2>2, <2>4, FS_Subset
  <2>. DEFINE p == Cardinality(Pending)
              n == Cardinality(Pending')
  <2>6. p \in Nat /\ n \in Nat /\ n <= p
    BY <2>1, <2>5
  <2>7. log.requests \in Nat /\ p <= log.requests
    BY DEF CacheInv, Shapes, Logs, HitsPaid
  <2>8. \A t \in DOMAIN disk : disk[t].ours => disk[t].hits \in Nat /\ disk[t].hits + p <= log.requests
    BY DEF CacheInv, Shapes, DiskOK, Files, HitsPaid
  <2>. HIDE DEF p, n
  <2>9. n <= log.requests /\ \A t \in DOMAIN disk : disk[t].ours => disk[t].hits + n <= log.requests
    BY <2>6, <2>7, <2>8
  <2>. QED BY <1>1, <2>9 DEF HitsPaid, n
<1>15. \A x \in Slots : x = op.slot /\ op.pc # "free" /\ OpServes => slot'[x] = slot[x]
  <2>1. op.pc # "free" /\ OpServes /\ op.slot = s => r.pc \in StorePcs \union {"load"}
    <3>1. op.pc \in OpPcs /\ s # NoSlot
      BY <1>2, KvCacheAssumption DEF Ops
    <3>. QED BY <3>1 DEF OpServes, OpPcs, r
  <2>. QED BY <1>1, <1>11, <2>1 DEF StorePcs
<1>16. OpServes'
  BY <1>1, <1>2, <1>15, OpStays DEF CacheInv
<1>17. StoreKeeps'
  BY <1>1, <1>2, <1>15, StoreKeepsStays DEF CacheInv, Missing
<1>18. SlotsWork' /\ SlotsKeep'
  BY <1>1, <1>9, <1>10, <1>11 DEF CacheInv, SlotsWork, SlotsKeep, Missing
<1>19. Fits'
  BY <1>1 DEF CacheInv, Fits, Evicting, AllRead
<1>. QED BY <1>13, <1>14, <1>16, <1>17, <1>18, <1>19 DEF CacheInv

\* The slot when its store is over.
LEMMA EndsIs ==
    ASSUME slot \in [Slots -> SlotStates], NEW s \in Slots, NEW ok \in BOOLEAN, Ends(s, ok)
    PROVE  \E q \in SlotStates :
              /\ slot' = [slot EXCEPT ![s] = q]
              /\ q.pc = slot[s].back /\ q.back = slot[s].back /\ q.tokens = slot[s].tokens
              /\ q.cached = slot[s].cached /\ q.cold = slot[s].cold /\ q.eff = slot[s].eff
              /\ q.req = slot[s].req
<1>. DEFINE r == slot[s]
            last == IF ok /\ r.pc \in {"cold", "continued"} /\ Len(r.tokens) > r.last
                    THEN Len(r.tokens) ELSE r.last
            q == [r EXCEPT !.pc = r.back, !.last = last]
<1>1. slot' = [slot EXCEPT ![s].pc = r.back, ![s].last = last]
  BY Zenon DEF Ends
<1>2. r \in SlotStates
  OBVIOUS
<1>3. slot' = [slot EXCEPT ![s] = q]
  <2>. HIDE DEF last
  <2>. QED BY <1>1
<1>. HIDE DEF r
<1>4. last \in Nat
  BY <1>2 DEF SlotStates
<1>. HIDE DEF last
<1>5. q \in SlotStates /\ q.pc = r.back /\ q.back = r.back /\ q.tokens = r.tokens
        /\ q.cached = r.cached /\ q.cold = r.cold /\ q.eff = r.eff /\ q.req = r.req
  BY <1>2, <1>4 DEF SlotStates
<1>. HIDE DEF q
<1>. QED BY <1>3, <1>5 DEF r

\* A store is over, whether it stored or not.
LEMMA StoreOver ==
    ASSUME CacheInv, NEW s \in Slots, slot[s].pc \in StorePcs, NEW ok \in BOOLEAN, Ends(s, ok),
           UNCHANGED <<mem, client>>,
           op' \in Ops, op'.pc = "free", KnownOp(op', Known),
           log' \in Logs, log'.calls = log.calls, log'.requests = log.requests,
           DiskOK(disk', Known),
           \A t : Saved(t, disk, Missing) => Saved(t, disk', Missing'),
           slot[s].pc = "save" => Saved(Render(slot[s].tokens), disk', Missing'),
           \A t \in DOMAIN disk' : disk'[t].ours =>
              \/ t \in DOMAIN disk /\ disk[t].ours /\ disk'[t].hits = disk[t].hits
              \/ disk'[t].hits = 0,
           Shapes' => Fits'
    PROVE  CacheInv'
<1>. DEFINE r == slot[s]
<1>1. Shapes /\ HitsPaid /\ slot \in [Slots -> SlotStates] /\ r \in SlotStates
        /\ GoesBack(r) /\ Follows(r)
  BY DEF CacheInv, Shapes, SlotsWork
<1>2. PICK q \in SlotStates :
              /\ slot' = [slot EXCEPT ![s] = q]
              /\ q.pc = r.back /\ q.back = r.back /\ q.tokens = r.tokens
              /\ q.cached = r.cached /\ q.cold = r.cold /\ q.eff = r.eff /\ q.req = r.req
  BY <1>1, EndsIs
<1>3. r.pc \in StorePcs
  OBVIOUS
<1>4. /\ GoesBack(q) /\ Follows(q)
      /\ q.pc \notin {"save", "idle"} /\ (q.pc = "load" <=> r.pc = "save")
      /\ q.pc = "prefill" => IsPrefix(q.tokens, Target(q))
  <2>. HIDE DEF r
  <2>. QED BY <1>1, <1>2, <1>3, EndWorks
<1>5. Keeps(q, disk', Missing')
  BY <1>2, <1>4 DEF Keeps
<1>6. HitsPaid'
  <2>1. slot'[s] = q /\ \A x \in Slots : x # s => slot'[x] = slot[x]
    BY <1>1, <1>2
  <2>2. client' = client
    OBVIOUS
  <2>3. Pending' \subseteq Pending
    BY <1>4, <2>1, <2>2 DEF Pending
  <2>. QED BY <1>1, <2>3, HitsStay
<1>7. mem' \in Limited(Known) /\ client' = client
  BY DEF CacheInv, Shapes
<1>. QED BY <1>2, <1>4, <1>5, <1>6, <1>7, OpEnds

\* A store keeps the file of its text or unlinks it, and writes it then.
LEMMA StoreBeginsInv ==
    ASSUME CacheInv, NEW s \in Slots, StoreBegins(s)
    PROVE  CacheInv'
<1>. DEFINE text == Render(slot[s].tokens)
            kept == text \in DOMAIN disk /\ disk[text].ours
            begun(pc) == [NoOp EXCEPT !.slot = s, !.pc = pc, !.text = text]
<1>1. /\ slot[s].pc \in StorePcs /\ op.pc = "free" /\ UNCHANGED <<mem, client, log>>
      /\ \/ kept /\ Ends(s, TRUE) /\ UNCHANGED <<disk, op>>
         \/ kept /\ op' = begun("truncate") /\ UNCHANGED <<disk, slot>>
         \/ disk' \in {disk, Without(disk, text)} /\ op' = begun("write") /\ UNCHANGED slot
  BY Zenon DEF StoreBegins, Free
<1>2. /\ Shapes /\ DiskOK(disk, Known) /\ op \in Ops /\ KnownOp(op, Known) /\ log \in Logs
      /\ slot \in [Slots -> SlotStates] /\ mem \in Limited(Known) /\ client \in Clients
      /\ HitsPaid /\ Fits
  BY DEF CacheInv, Shapes
<1>3. text \in Seq(Segments)
  BY <1>2, RenderFacts DEF SlotStates
<1>4. ASSUME NEW pc \in {"truncate", "write"}
      PROVE  /\ begun(pc) \in Ops /\ begun(pc).slot = s /\ begun(pc).pc = pc
             /\ begun(pc).text = text /\ KnownOp(begun(pc), Known)
  <2>. HIDE DEF text
  <2>1. begun(pc) \in Ops /\ begun(pc).slot = s /\ begun(pc).pc = pc
             /\ begun(pc).text = text /\ begun(pc).file = NoOp.file
             /\ begun(pc).entry = NoOp.entry
    BY <1>3, NoOpFacts DEF Ops, OpPcs
  <2>. QED BY <2>1, NoOpFacts DEF KnownOp
<1>. HIDE DEF begun, text
<1>5. CASE kept /\ Ends(s, TRUE) /\ UNCHANGED <<disk, op>>
  <2>1. Saved(text, disk', Missing')
    BY <1>5 DEF Saved
  <2>2. Shapes' => Fits'
    BY <1>1, <1>2, <1>5 DEF Fits, Evicting
  <2>3. disk' = disk /\ op' = op /\ log' = log /\ mem' = mem /\ client' = client
    BY <1>1, <1>5
  <2>4. Missing' = Missing
    BY <2>3 DEF Missing
  <2>5. \A t : Saved(t, disk, Missing) => Saved(t, disk', Missing')
    BY <2>3, <2>4
  <2>. QED BY <1>1, <1>2, <1>5, <2>1, <2>2, <2>3, <2>5, StoreOver DEF text
<1>6. CASE kept /\ op' = begun("truncate") /\ UNCHANGED <<disk, slot>>
  <2>1. op' \in Ops /\ op'.slot = s /\ op'.pc = "truncate" /\ op'.text = text
          /\ KnownOp(op', Known)
    BY <1>4, <1>6
  <2>2. OpServes'
    BY <1>1, <1>6, <2>1 DEF OpServes, text
  <2>3. StoreKeeps'
    BY <1>6, <2>1 DEF StoreKeeps, Saved, text
  <2>4. ~Evicting /\ Missing \subseteq Missing'
    BY <1>1, <2>1 DEF Evicting, Missing
  <2>. QED BY <1>1, <1>6, <2>1, <2>2, <2>3, <2>4, OpMoves
<1>7. CASE disk' \in {disk, Without(disk, text)} /\ op' = begun("write") /\ UNCHANGED slot
  <2>1. op' \in Ops /\ op'.slot = s /\ op'.pc = "write" /\ op'.text = text
          /\ KnownOp(op', Known)
    BY <1>4, <1>7
  <2>2. OpServes'
    BY <1>1, <1>7, <2>1 DEF OpServes, text
  <2>3. StoreKeeps'
    BY <2>1 DEF StoreKeeps
  <2>4. /\ DiskOK(disk', Known) /\ DOMAIN disk' \subseteq DOMAIN disk
        /\ \A x \in DOMAIN disk' : disk'[x] = disk[x]
        /\ \A x \in DOMAIN disk : x \in DOMAIN disk' \/ x = text
    <3>1. DiskOK(disk, Known)
      BY <1>2
    <3>2. /\ DiskOK(Without(disk, text), Known)
          /\ DOMAIN Without(disk, text) = DOMAIN disk \ {text}
          /\ \A x \in DOMAIN disk \ {text} : Without(disk, text)[x] = disk[x]
      BY ONLY <3>1, DiskLess
    <3>3. CASE disk' = disk
      BY <3>1, <3>3
    <3>4. CASE disk' = Without(disk, text)
      BY <3>2, <3>4
    <3>. QED BY <1>7, <3>3, <3>4
  <2>5. Shapes'
    BY <1>1, <1>2, <1>7, <2>1, <2>4 DEF Shapes, Known
  <2>6. \A t : Saved(t, disk, Missing) => Saved(t, disk', Missing')
    BY <1>1, <1>7, <2>1, <2>4 DEF Saved, Missing
  <2>7. HitsPaid'
    <3>1. Pending' = Pending
      BY <1>1, <1>7 DEF Pending
    <3>. QED BY <1>1, <1>2, <2>4, <3>1, HitsStay
  <2>8. Fits'
    <3>1. \A t \in DOMAIN disk' : disk'[t].tokens = disk[t].tokens
      BY <2>4
    <3>2. ~Evicting /\ op'.pc # "victims" /\ log'.cut = log.cut
      BY <1>1, <2>1 DEF Evicting
    <3>. QED BY <1>2, <2>4, <2>5, <3>1, <3>2, FitsStays
  <2>9. SlotsWork'
    BY <1>7 DEF CacheInv, SlotsWork
  <2>10. SlotsKeep'
    BY <1>7, <2>6, KeepsStays DEF CacheInv, SlotsKeep
  <2>. QED BY <2>2, <2>3, <2>5, <2>7, <2>8, <2>9, <2>10 DEF CacheInv
<1>. QED BY <1>1, <1>5, <1>6, <1>7

\* The directory changes under the slots.
LEMMA DiskMoves ==
    ASSUME CacheInv, UNCHANGED <<slot, mem, client>>, op' \in Ops, KnownOp(op', Known),
           log' \in Logs, log'.calls = log.calls, log'.requests = log.requests,
           DiskOK(disk', Known),
           \A t : Saved(t, disk, Missing) => Saved(t, disk', Missing'),
           \A t \in DOMAIN disk' : disk'[t].ours =>
              \/ t \in DOMAIN disk /\ disk[t].ours /\ disk'[t].hits = disk[t].hits
              \/ disk'[t].hits = 0,
           OpServes', StoreKeeps', Shapes' => Fits'
    PROVE  CacheInv'
<1>1. Shapes'
  BY DEF CacheInv, Shapes, Known
<1>2. HitsPaid'
  <2>1. Pending' = Pending
    BY DEF Pending
  <2>. QED BY <2>1, HitsStay DEF CacheInv
<1>3. SlotsWork'
  BY DEF CacheInv, SlotsWork
<1>4. SlotsKeep'
  BY KeepsStays DEF CacheInv, SlotsKeep
<1>. QED BY <1>1, <1>2, <1>3, <1>4 DEF CacheInv

\* The text of a slot, whose store is under way.
LEMMA OpText ==
    ASSUME CacheInv, op.pc \in {"write", "rename", "truncate", "map"}
    PROVE  /\ op.slot \in Slots /\ op.slot # NoSlot /\ slot[op.slot] \in SlotStates
           /\ slot[op.slot].pc \in StorePcs
           /\ op.text = Render(slot[op.slot].tokens) /\ op.text \in Seq(Segments)
<1>1. op.slot \in Slots /\ slot[op.slot].pc \in StorePcs /\ op.text = Render(slot[op.slot].tokens)
  BY DEF CacheInv, OpServes
<1>2. slot[op.slot] \in SlotStates
  BY <1>1 DEF CacheInv, Shapes
<1>3. op.text \in Seq(Segments)
  BY <1>1, <1>2, RenderFacts DEF SlotStates
<1>4. op.slot # NoSlot
  BY <1>1, KvCacheAssumption
<1>. QED BY <1>1, <1>2, <1>3, <1>4

\* The mappings a store finds are of calls that were made.
LEMMA MapTyped ==
    ASSUME CacheInv
    PROVE  \A text : /\ MapOf(text) \in SUBSET [id : ToSet(CallIds), block : Blocks]
                     /\ KnownMap(MapOf(text), Known)
<1>1. mem \in Limited(Known)
  BY DEF CacheInv, Shapes
<1>2. Known \subseteq ToSet(CallIds)
  <2>1. log.calls \in Histories
    BY DEF CacheInv, Shapes, Logs
  <2>. QED BY <2>1 DEF Histories, Known
<1>3. ASSUME NEW text
      PROVE  /\ MapOf(text) \in SUBSET [id : ToSet(CallIds), block : Blocks]
             /\ IsFiniteSet(MapOf(text)) /\ \A x \in MapOf(text) : x.id \in Known
  BY <1>1, <1>2, MapOfFacts
<1>. QED BY <1>3 DEF KnownMap

\* The temporary file is written, or fails.
LEMMA WriteInv ==
    ASSUME CacheInv, Write
    PROVE  CacheInv'
<1>. DEFINE s == op.slot
            file == File(slot[s].tokens, MapOf(op.text))
<1>1. op.pc = "write" /\ UNCHANGED <<disk, mem, client>>
  BY DEF Write
<1>2. /\ s \in Slots /\ s # NoSlot /\ slot[s] \in SlotStates /\ slot[s].pc \in StorePcs
      /\ op.text = Render(slot[s].tokens) /\ op.text \in Seq(Segments)
  BY <1>1, OpText
<1>3. Shapes /\ DiskOK(disk, Known) /\ op \in Ops /\ log \in Logs /\ Fits
  BY DEF CacheInv, Shapes
<1>4. CASE op' = [op EXCEPT !.pc = "rename", !.file = file] /\ UNCHANGED <<slot, log>>
  <2>1. file \in Files /\ file.tokens = slot[s].tokens /\ file.ours /\ file.hits = 0
          /\ KnownMap(file.map, Known)
    BY <1>2, MapTyped DEF File, Files, SlotStates
  <2>. HIDE DEF file
  <2>2. op' \in Ops /\ op'.pc = "rename" /\ op'.slot = s /\ op'.text = op.text /\ op'.file = file
          /\ op'.entry = op.entry
    BY <1>3, <1>4, <2>1 DEF Ops, OpPcs
  <2>3. OpServes'
    BY <1>2, <1>4, <2>1, <2>2 DEF OpServes
  <2>4. StoreKeeps'
    BY <2>2 DEF StoreKeeps
  <2>5. ~Evicting /\ Missing \subseteq Missing' /\ KnownOp(op', Known)
    BY <1>1, <1>3, <1>4, <2>1, <2>2 DEF Evicting, Missing, KnownOp, Shapes
  <2>. QED BY <1>1, <1>4, <2>1, <2>2, <2>3, <2>4, <2>5, OpMoves
<1>5. CASE op' = NoOp /\ Ends(s, FALSE) /\ log' = [log EXCEPT !.unsaved = @ \union {op.text}]
  <2>1. log' \in Logs /\ log'.calls = log.calls /\ log'.requests = log.requests
          /\ log'.unsaved = log.unsaved \union {op.text} /\ log'.cut = log.cut
    BY <1>2, <1>3, <1>5 DEF Logs
  <2>2. \A t : Saved(t, disk, Missing) => Saved(t, disk', Missing')
    BY <1>1, <2>1 DEF Saved, Missing
  <2>3. Saved(Render(slot[s].tokens), disk', Missing')
    BY <1>2, <2>1 DEF Saved, Missing
  <2>4. Shapes' => Fits'
    BY <1>1, <1>3, <1>5, <2>1, NoOpFacts DEF Fits, Evicting
  <2>5. DiskOK(disk', Known) /\ mem' = mem /\ client' = client
    BY <1>1, <1>3
  <2>6. \A t \in DOMAIN disk' : disk'[t].ours =>
           t \in DOMAIN disk /\ disk[t].ours /\ disk'[t].hits = disk[t].hits
    BY <1>1
  <2>. QED BY <1>2, <1>5, <2>1, <2>2, <2>3, <2>4, <2>5, <2>6, NoOpFacts, StoreOver
<1>. QED BY <1>4, <1>5 DEF Write

\* The temporary file gets its name.
LEMMA RenameInv ==
    ASSUME CacheInv, Rename
    PROVE  CacheInv'
<1>. DEFINE s == op.slot
<1>1. /\ op.pc = "rename" /\ disk' = With(disk, op.text, op.file)
      /\ op' = [op EXCEPT !.pc = "evict"] /\ log' = [log EXCEPT !.unsaved = @ \ {op.text}]
      /\ UNCHANGED <<slot, mem, client>>
  BY DEF Rename
<1>2. /\ s \in Slots /\ s # NoSlot /\ slot[s] \in SlotStates /\ slot[s].pc \in StorePcs
      /\ op.text = Render(slot[s].tokens) /\ op.text \in Seq(Segments)
  BY <1>1, OpText
<1>3. /\ DiskOK(disk, Known) /\ op \in Ops /\ log \in Logs
      /\ KnownOp(op, Known) /\ KnownMap(op.file.map, Known) /\ op.file \in Files
  BY DEF CacheInv, Shapes, Ops, KnownOp
<1>4. op.file.tokens = slot[s].tokens /\ op.file.ours /\ op.file.hits = 0
  BY <1>1 DEF CacheInv, OpServes
<1>5. Render(op.file.tokens) = op.text
  BY <1>2, <1>4
<1>6. /\ DiskOK(disk', Known) /\ DOMAIN disk' = DOMAIN disk \union {op.text}
      /\ disk'[op.text] = op.file /\ \A x \in DOMAIN disk \ {op.text} : disk'[x] = disk[x]
  BY <1>1, <1>3, <1>5, DiskMore
<1>7. op' \in Ops /\ op'.pc = "evict" /\ op'.slot = s /\ op'.file = op.file
        /\ op'.entry = op.entry
  BY <1>1, <1>3 DEF Ops, OpPcs
<1>8. log' \in Logs /\ log'.calls = log.calls /\ log'.requests = log.requests
        /\ log'.unsaved = log.unsaved \ {op.text}
  BY <1>1, <1>3 DEF Logs
<1>9. Saved(op.text, disk', Missing')
  BY <1>4, <1>6 DEF Saved
<1>10. \A t : Saved(t, disk, Missing) => Saved(t, disk', Missing')
  <2>. TAKE t
  <2>1. t # op.text => (Saved(t, disk, Missing) => Saved(t, disk', Missing'))
    BY <1>1, <1>6, <1>8 DEF Saved, Missing
  <2>. QED BY <1>9, <2>1
<1>11. OpServes'
  BY <1>1, <1>2, <1>7 DEF OpServes
<1>12. StoreKeeps'
  BY <1>1, <1>2, <1>7, <1>9 DEF StoreKeeps
<1>13. Fits' /\ KnownOp(op', Known)
  BY <1>3, <1>7 DEF Fits, Evicting, KnownOp
<1>14. \A t \in DOMAIN disk' : disk'[t].ours =>
              \/ t \in DOMAIN disk /\ disk[t].ours /\ disk'[t].hits = disk[t].hits
              \/ disk'[t].hits = 0
  BY <1>4, <1>6
<1>. QED BY <1>1, <1>3, <1>6, <1>7, <1>8, <1>10, <1>11, <1>12, <1>13, <1>14, DiskMoves

\* A file goes, and is known to have gone; an eviction forgets its entry.
LEMMA FileGoes ==
    ASSUME CacheInv, NEW t \in DOMAIN disk, disk' = Without(disk, t),
           log' \in Logs, log'.calls = log.calls, log'.requests = log.requests,
           log'.unsaved = log.unsaved \union {t}, log'.cut = log.cut,
           UNCHANGED <<slot, mem, client>>, op' \in Ops, op'.slot = op.slot, op'.pc = op.pc,
           op'.text = op.text, op'.file = op.file, op'.entry \in {op.entry, Without(op.entry, t)}
    PROVE  CacheInv'
<1>1. Shapes /\ DiskOK(disk, Known) /\ op \in Ops /\ KnownMap(op.file.map, Known)
        /\ DiskOK(op.entry, Known) /\ OpServes /\ StoreKeeps /\ Fits
  BY DEF CacheInv, Shapes, KnownOp
<1>2. /\ DiskOK(disk', Known) /\ DOMAIN disk' = DOMAIN disk \ {t}
      /\ \A x \in DOMAIN disk \ {t} : disk'[x] = disk[x]
  <2>1. DiskOK(disk, Known)
    BY <1>1
  <2>2. /\ DiskOK(Without(disk, t), Known) /\ DOMAIN Without(disk, t) = DOMAIN disk \ {t}
        /\ \A x \in DOMAIN disk \ {t} : Without(disk, t)[x] = disk[x]
    BY ONLY <2>1, DiskLess
  <2>. QED BY <2>2
<1>3. /\ DiskOK(op'.entry, Known)
      /\ \A x \in DOMAIN op.entry \ {t} : x \in DOMAIN op'.entry /\ op'.entry[x] = op.entry[x]
  <2>. DEFINE e == op.entry
  <2>1. /\ DiskOK(Without(e, t), Known) /\ DOMAIN Without(e, t) = DOMAIN e \ {t}
        /\ \A x \in DOMAIN e \ {t} : Without(e, t)[x] = e[x]
    <3>1. DiskOK(e, Known)
      BY <1>1
    <3>. HIDE DEF e
    <3>. QED BY ONLY <3>1, DiskLess
  <2>. QED BY <1>1, <2>1
<1>4. \A x : Saved(x, disk, Missing) => Saved(x, disk', Missing')
  BY <1>2 DEF Saved, Missing
<1>5. OpServes' /\ StoreKeeps'
  BY <1>1, <1>4 DEF OpServes, StoreKeeps
<1>6. Shapes' => Fits'
  <2>1. CASE Evicting
    BY <1>1, <1>2, <1>3, <2>1 DEF Fits, Evicting, AllRead
  <2>2. CASE ~Evicting
    <3>1. \A x \in DOMAIN disk' : disk'[x].tokens = disk[x].tokens
      BY <1>2
    <3>2. op'.pc # "victims"
      BY <2>2 DEF Evicting
    <3>. QED BY <1>1, <1>2, <2>2, <3>1, <3>2, FitsStays
  <2>. QED BY <2>1, <2>2
<1>7. \A x \in DOMAIN disk' : disk'[x].ours =>
         x \in DOMAIN disk /\ disk[x].ours /\ disk'[x].hits = disk[x].hits
  BY <1>2
<1>8. KnownOp(op', Known)
  BY <1>1, <1>3 DEF KnownOp
<1>. QED BY <1>2, <1>4, <1>5, <1>6, <1>7, <1>8, DiskMoves

\* The names of the files are texts.
LEMMA TextTyped ==
    ASSUME CacheInv, NEW t \in DOMAIN disk
    PROVE  t \in Seq(Segments)
BY RenderFacts DEF CacheInv, Shapes, DiskOK, Files

\* An error that cuts an eviction short is counted, unless a file was gone.
LEMMA CutCounted ==
    ASSUME log \in Logs, NEW cut \in BOOLEAN, NEW counts \in BOOLEAN,
           log' = [log EXCEPT !.cut = cut, !.faults = IF counts THEN @ + 1 ELSE @]
    PROVE  /\ log' \in Logs /\ log'.calls = log.calls /\ log'.requests = log.requests
           /\ log'.unsaved = log.unsaved /\ log'.cut = cut
<1>. DEFINE n == IF counts THEN log.faults + 1 ELSE log.faults
<1>1. n \in Nat
  BY DEF Logs
<1>2. log' = [log EXCEPT !.cut = cut, !.faults = n]
  OBVIOUS
<1>. HIDE DEF n
<1>. QED BY <1>1, <1>2 DEF Logs

\* The eviction reads the entries of the directory.
LEMMA RefreshInv ==
    ASSUME CacheInv, Refresh
    PROVE  CacheInv'
<1>1. op.pc = "evict" /\ UNCHANGED <<disk, slot, mem, client>>
  BY DEF Refresh
<1>2. PICK read \in SUBSET DOMAIN disk :
         /\ op' = [op EXCEPT !.pc = "victims", !.entry = [t \in read |-> disk[t]]]
         /\ log' = [log EXCEPT !.cut = read # DOMAIN disk,
                               !.faults = IF read # DOMAIN disk THEN @ + 1 ELSE @]
  BY DEF Refresh
<1>. DEFINE entry == [t \in read |-> disk[t]]
<1>3. DiskOK(disk, Known) /\ op \in Ops /\ KnownOp(op, Known) /\ log \in Logs
  BY DEF CacheInv, Shapes
<1>4. /\ DOMAIN entry = read /\ \A t \in read : entry[t] = disk[t]
      /\ DiskOK(entry, Known)
  <2>1. /\ disk \in [DOMAIN disk -> Files] /\ IsFiniteSet(DOMAIN disk)
        /\ \A t \in DOMAIN disk : KnownMap(disk[t].map, Known) /\ Render(disk[t].tokens) = t
    BY <1>3 DEF DiskOK
  <2>2. IsFiniteSet(read)
    BY <2>1, FS_Subset
  <2>3. entry \in [read -> Files] /\ DOMAIN entry = read /\ \A t \in read : entry[t] = disk[t]
    BY <2>1
  <2>. HIDE DEF entry
  <2>. QED BY <2>1, <2>2, <2>3 DEF DiskOK
<1>. HIDE DEF entry
<1>5. entry \in Listings
  BY <1>4, EntriesRead
<1>6. /\ op' \in Ops /\ op'.pc = "victims" /\ op'.slot = op.slot /\ op'.file = op.file
      /\ op'.entry = entry
  BY <1>2, <1>3, <1>5 DEF Ops, OpPcs, entry
<1>7. /\ log' \in Logs /\ log'.calls = log.calls /\ log'.requests = log.requests
      /\ log'.unsaved = log.unsaved /\ log'.cut = (read # DOMAIN disk)
  <2>. DEFINE c == read # DOMAIN disk
  <2>1. c \in BOOLEAN /\ log' = [log EXCEPT !.cut = c, !.faults = IF c THEN @ + 1 ELSE @]
    BY <1>2
  <2>. HIDE DEF c
  <2>2. /\ log' \in Logs /\ log'.calls = log.calls /\ log'.requests = log.requests
        /\ log'.unsaved = log.unsaved /\ log'.cut = c
    BY <1>3, <2>1, CutCounted
  <2>. QED BY <2>2 DEF c
<1>8. KnownOp(op', Known)
  BY <1>3, <1>4, <1>6 DEF KnownOp
<1>9. \A t : Saved(t, disk, Missing) => Saved(t, disk', Missing')
  BY <1>1, <1>6, <1>7 DEF Saved, Missing
<1>10. OpServes' /\ StoreKeeps'
  BY <1>1, <1>6, <1>9 DEF CacheInv, OpServes, StoreKeeps
<1>11. Fits'
  BY <1>1, <1>4, <1>6, <1>7 DEF Fits, Evicting, AllRead
<1>12. \A t \in DOMAIN disk' : disk'[t].ours =>
          t \in DOMAIN disk /\ disk[t].ours /\ disk'[t].hits = disk[t].hits
  BY <1>1
<1>. QED BY <1>1, <1>3, <1>6, <1>7, <1>8, <1>9, <1>10, <1>11, <1>12, DiskMoves

\* A file is evicted.
LEMMA EvictInv ==
    ASSUME CacheInv, Evict
    PROVE  CacheInv'
<1>1. PICK t \in DOMAIN disk : /\ disk' = Without(disk, t)
                              /\ op' = [op EXCEPT !.entry = Without(@, t)]
                              /\ log' = [log EXCEPT !.unsaved = @ \union {t}]
  BY DEF Evict
<1>2. UNCHANGED <<slot, mem, client>>
  BY DEF Evict
<1>3. log' \in Logs /\ log'.calls = log.calls /\ log'.requests = log.requests
        /\ log'.unsaved = log.unsaved \union {t} /\ log'.cut = log.cut
  BY <1>1, TextTyped DEF CacheInv, Shapes, Logs
<1>4. op \in Ops /\ DiskOK(op.entry, Known)
  BY DEF CacheInv, Shapes, KnownOp
<1>5. Without(op.entry, t) \in Listings
  <2>. DEFINE e == op.entry
  <2>1. DiskOK(e, Known)
    BY <1>4
  <2>. HIDE DEF e
  <2>2. DiskOK(Without(e, t), Known)
    BY <2>1, DiskLess
  <2>3. Without(e, t) \in Listings
    BY <2>2, EntriesRead
  <2>. QED BY <2>3 DEF e
<1>6. /\ op' \in Ops /\ op'.slot = op.slot /\ op'.pc = op.pc /\ op'.text = op.text
      /\ op'.file = op.file /\ op'.entry = Without(op.entry, t)
  <2>. DEFINE e == Without(op.entry, t)
  <2>1. e \in Listings /\ op' = [op EXCEPT !.entry = e]
    BY <1>1, <1>5
  <2>. HIDE DEF e
  <2>2. /\ op' \in Ops /\ op'.slot = op.slot /\ op'.pc = op.pc /\ op'.text = op.text
        /\ op'.file = op.file /\ op'.entry = e
    BY <1>4, <2>1 DEF Ops
  <2>. QED BY <2>2 DEF e
<1>. QED BY <1>1, <1>2, <1>3, <1>6, FileGoes

\* An unlink fails, which ends the eviction.
LEMMA EvictFailsInv ==
    ASSUME CacheInv, EvictFails
    PROVE  CacheInv'
<1>1. /\ op.pc = "victims" /\ op' = [op EXCEPT !.entry = <<>>]
      /\ UNCHANGED <<disk, slot, mem, client>>
  BY DEF EvictFails, EvictsOne
<1>2. PICK t : log' = [log EXCEPT !.cut = TRUE,
                                 !.faults = IF t \in DOMAIN disk THEN @ + 1 ELSE @]
  BY DEF EvictFails
<1>3. DiskOK(disk, Known) /\ op \in Ops /\ KnownOp(op, Known) /\ log \in Logs
  BY DEF CacheInv, Shapes
<1>4. /\ op' \in Ops /\ op'.pc = "victims" /\ op'.slot = op.slot /\ op'.file = op.file
      /\ op'.entry = <<>>
  BY <1>1, <1>3, NoEntries DEF Ops
<1>5. /\ log' \in Logs /\ log'.calls = log.calls /\ log'.requests = log.requests
      /\ log'.unsaved = log.unsaved /\ log'.cut
  <2>. DEFINE c == t \in DOMAIN disk
  <2>1. c \in BOOLEAN /\ log' = [log EXCEPT !.cut = TRUE, !.faults = IF c THEN @ + 1 ELSE @]
    BY <1>2
  <2>. HIDE DEF c
  <2>. QED BY <1>3, <2>1, CutCounted
<1>6. KnownOp(op', Known)
  BY <1>3, <1>4, NoEntries DEF KnownOp
<1>7. \A x : Saved(x, disk, Missing) => Saved(x, disk', Missing')
  BY <1>1, <1>4, <1>5 DEF Saved, Missing
<1>8. OpServes' /\ StoreKeeps'
  BY <1>1, <1>4, <1>7 DEF CacheInv, OpServes, StoreKeeps
<1>9. Fits'
  BY <1>5 DEF Fits
<1>10. \A x \in DOMAIN disk' : disk'[x].ours =>
          x \in DOMAIN disk /\ disk[x].ours /\ disk'[x].hits = disk[x].hits
  BY <1>1
<1>. QED BY <1>1, <1>3, <1>4, <1>5, <1>6, <1>7, <1>8, <1>9, <1>10, DiskMoves

\* A file is deleted by hand.
LEMMA DeleteInv ==
    ASSUME CacheInv, Delete
    PROVE  CacheInv'
<1>1. PICK t \in DOMAIN disk :
         /\ disk' = Without(disk, t)
         /\ log' = [log EXCEPT !.faults = @ + 1, !.unsaved = @ \union {t}]
  BY DEF Delete
<1>2. UNCHANGED <<op, slot, mem, client>>
  BY DEF Delete
<1>3. log' \in Logs /\ log'.calls = log.calls /\ log'.requests = log.requests
        /\ log'.unsaved = log.unsaved \union {t} /\ log'.cut = log.cut
  <2>1. log \in Logs /\ t \in Seq(Segments)
    BY TextTyped DEF CacheInv, Shapes
  <2>2. log.unsaved \union {t} \in SUBSET Seq(Segments) /\ log.faults + 1 \in Nat
    BY <2>1 DEF Logs
  <2>3. /\ log'.convs = log.convs /\ log'.calls = log.calls /\ log'.requests = log.requests
        /\ log'.faults = log.faults + 1 /\ log'.unsaved = log.unsaved \union {t}
        /\ log' = [convs |-> log'.convs, calls |-> log'.calls, requests |-> log'.requests,
                    faults |-> log'.faults, unsaved |-> log'.unsaved, cut |-> log'.cut]
        /\ log'.cut = log.cut
    BY <1>1, <2>1 DEF Logs
  <2>4. log' \in Logs
    BY <2>1, <2>2, <2>3 DEF Logs
  <2>. QED BY <2>3, <2>4
<1>4. op' \in Ops /\ op' = op
  BY <1>2 DEF CacheInv, Shapes
<1>. QED BY <1>1, <1>2, <1>3, <1>4, FileGoes

\* When entries that hold a directory are within the budget in bytes, the directory
\* is so in tokens.
LEMMA TokensFit ==
    ASSUME NEW d, DiskOK(d, Known), NEW e, DiskOK(e, Known),
           \A t \in DOMAIN d : t \in DOMAIN e /\ e[t] = d[t], ~(TotalSize(e) > Budget)
    PROVE  SumFunction([t \in DOMAIN d |-> Len(d[t].tokens)]) <= Budget
<1>. DEFINE f == [t \in DOMAIN e |-> Size(e[t])]
            g == [t \in DOMAIN d |-> Len(d[t].tokens)]
            D == DOMAIN d
            E == DOMAIN e
<1>1. \A t \in E : /\ Len(e[t].tokens) \in Nat /\ Size(e[t]) \in Nat
                   /\ Len(e[t].tokens) <= Size(e[t])
  <2>. TAKE t \in E
  <2>1. e[t] \in Files /\ IsFiniteSet(e[t].map)
    BY DEF DiskOK, KnownMap
  <2>2. Len(e[t].tokens) \in Nat /\ Cardinality(e[t].map) \in Nat
    BY <2>1, FS_CardinalityType DEF Files
  <2>. QED BY <2>2 DEF Size
<1>2. D \in SUBSET E /\ f \in [E -> Nat] /\ g \in [D -> Nat] /\ \A t \in D : g[t] <= f[t]
  BY <1>1
<1>3. IsFiniteSet(E)
  BY DEF DiskOK
<1>4. TotalSize(e) = SumFunction(f)
  BY DEF TotalSize
<1>. HIDE DEF f, g, D, E
<1>5. SumFunction(g) \in Nat /\ SumFunction(f) \in Nat /\ SumFunction(g) <= SumFunction(f)
  BY ONLY <1>2, <1>3, SumMonotone
<1>6. SumFunction(g) <= Budget
  <2>1. Budget \in Nat
    BY KvCacheAssumption
  <2>. QED BY <1>4, <1>5, <2>1
<1>. QED BY <1>6 DEF g, D

\* The eviction ends, and with it the store.
LEMMA EvictedInv ==
    ASSUME CacheInv, Evicted
    PROVE  CacheInv'
<1>1. /\ op.pc = "victims" /\ ~(TotalSize(op.entry) > Budget) /\ op' = NoOp
      /\ IF op.slot = NoSlot THEN UNCHANGED slot ELSE Ends(op.slot, TRUE)
      /\ UNCHANGED <<disk, mem, client, log>>
  BY DEF Evicted, EvictsOne
<1>2. /\ DiskOK(disk, Known) /\ op \in Ops /\ DiskOK(op.entry, Known) /\ log \in Logs
      /\ (~log.cut => AllRead)
  BY <1>1 DEF CacheInv, Shapes, KnownOp, Fits
<1>3. ~log.cut => SumFunction([t \in DOMAIN disk |-> Len(disk[t].tokens)]) <= Budget
  BY <1>1, <1>2, TokensFit DEF AllRead
<1>4. Fits'
  BY <1>1, <1>3, NoOpFacts DEF Fits
<1>5. DiskOK(disk', Known) /\ log' \in Logs /\ log' = log /\ mem' = mem /\ client' = client
        /\ disk' = disk
  BY <1>1, <1>2
<1>6. \A t : Saved(t, disk, Missing) => Saved(t, disk', Missing')
  BY <1>1, NoOpFacts DEF Saved, Missing
<1>7. CASE op.slot = NoSlot
  <2>1. OpServes' /\ StoreKeeps'
    BY <1>1, NoOpFacts DEF OpServes, StoreKeeps
  <2>2. slot' = slot
    BY <1>1, <1>7
  <2>. QED BY <1>1, <1>4, <1>5, <1>6, <2>1, <2>2, NoOpFacts, DiskMoves
<1>8. CASE op.slot # NoSlot
  <2>1. op.slot \in Slots /\ slot[op.slot].pc \in StorePcs
    BY <1>1, <1>2, <1>8 DEF CacheInv, OpServes, Ops
  <2>2. slot[op.slot].pc = "save" => Saved(Render(slot[op.slot].tokens), disk', Missing')
    BY <1>1, <1>6, <1>8 DEF CacheInv, StoreKeeps
  <2>3. Ends(op.slot, TRUE)
    BY <1>1, <1>8
  <2>. QED BY <1>1, <1>4, <1>5, <1>6, <2>1, <2>2, <2>3, NoOpFacts, StoreOver
<1>. QED BY <1>7, <1>8

\* A file gets another map.
LEMMA MappedFacts ==
    ASSUME DiskOK(disk, Known), NEW t, NEW map \in SUBSET [id : ToSet(CallIds), block : Blocks],
           KnownMap(map, Known)
    PROVE  /\ DiskOK(Mapped(t, map), Known) /\ DOMAIN Mapped(t, map) = DOMAIN disk
           /\ \A x \in DOMAIN disk :
                /\ Mapped(t, map)[x].tokens = disk[x].tokens
                /\ Mapped(t, map)[x].ours = disk[x].ours
                /\ Mapped(t, map)[x].hits = disk[x].hits
<1>1. CASE t \notin DOMAIN disk
  BY <1>1 DEF Mapped
<1>2. CASE t \in DOMAIN disk
  <2>. DEFINE f == disk[t]
              g == [f EXCEPT !.map = map]
  <2>1. f \in Files
    BY <1>2 DEF DiskOK
  <2>2. Mapped(t, map) = [disk EXCEPT ![t] = g]
    BY <1>2 DEF Mapped, DiskOK
  <2>. HIDE DEF f
  <2>3. g \in Files /\ g.map = map /\ g.tokens = f.tokens /\ g.ours = f.ours /\ g.hits = f.hits
    BY <2>1 DEF Files
  <2>. HIDE DEF g
  <2>4. DiskOK([disk EXCEPT ![t] = g], Known)
    <3>1. KnownMap(g.map, Known) /\ g.tokens = disk[t].tokens /\ g \in Files /\ t \in DOMAIN disk
      BY <1>2, <2>3 DEF f
    <3>. QED BY ONLY DiskOK(disk, Known), <3>1, DiskSame
  <2>. QED BY <1>2, <2>2, <2>3, <2>4 DEF f
<1>. QED BY <1>1, <1>2

\* The map of a kept file is cut off.
LEMMA TruncateInv ==
    ASSUME CacheInv, Truncate
    PROVE  CacheInv'
<1>1. /\ op.pc = "truncate" /\ disk' = Mapped(op.text, {}) /\ op' = [op EXCEPT !.pc = "map"]
      /\ UNCHANGED <<slot, mem, client, log>>
  BY DEF Truncate
<1>2. /\ op.slot \in Slots /\ op.slot # NoSlot /\ slot[op.slot].pc \in StorePcs
      /\ op.text = Render(slot[op.slot].tokens)
  BY <1>1, OpText
<1>3. Shapes /\ DiskOK(disk, Known) /\ op \in Ops /\ KnownOp(op, Known) /\ log \in Logs
        /\ Fits
  BY DEF CacheInv, Shapes
<1>4. /\ DiskOK(disk', Known) /\ DOMAIN disk' = DOMAIN disk
      /\ \A x \in DOMAIN disk : /\ disk'[x].tokens = disk[x].tokens
                                /\ disk'[x].ours = disk[x].ours /\ disk'[x].hits = disk[x].hits
  <2>1. KnownMap({}, Known)
    BY FS_EmptySet DEF KnownMap
  <2>. QED BY <1>1, <1>3, <2>1, MappedFacts
<1>5. op' \in Ops /\ op'.pc = "map" /\ op'.slot = op.slot /\ op'.text = op.text /\ op'.file = op.file
        /\ op'.entry = op.entry
  BY <1>1, <1>3 DEF Ops, OpPcs
<1>6. \A t : Saved(t, disk, Missing) => Saved(t, disk', Missing')
  BY <1>1, <1>4, <1>5 DEF Saved, Missing
<1>7. OpServes'
  BY <1>1, <1>2, <1>5 DEF OpServes
<1>8. StoreKeeps'
  <2>1. slot[op.slot].pc = "save" => Saved(Render(slot[op.slot].tokens), disk, Missing)
    BY <1>1, <1>2 DEF CacheInv, StoreKeeps
  <2>. QED BY <1>1, <1>5, <1>6, <2>1 DEF StoreKeeps
<1>9. KnownOp(op', Known) /\ (Shapes' => Fits')
  <2>1. ~Evicting /\ op'.pc # "victims" /\ log'.cut = log.cut /\ KnownOp(op', Known)
    BY <1>1, <1>3, <1>5 DEF Evicting, KnownOp
  <2>. QED BY <1>3, <1>4, <2>1, FitsStays
<1>. QED BY <1>1, <1>3, <1>4, <1>5, <1>6, <1>7, <1>8, <1>9, DiskMoves

\* The map of a kept file is written again, or fails.
LEMMA WriteMapInv ==
    ASSUME CacheInv, WriteMap
    PROVE  CacheInv'
<1>1. op.pc = "map" /\ op' = NoOp /\ Ends(op.slot, TRUE) /\ UNCHANGED <<mem, client, log>>
  BY DEF WriteMap
<1>2. /\ op.slot \in Slots /\ op.slot # NoSlot /\ slot[op.slot].pc \in StorePcs
      /\ op.text = Render(slot[op.slot].tokens)
  BY <1>1, OpText
<1>3. Shapes /\ DiskOK(disk, Known) /\ log \in Logs /\ Fits
  BY DEF CacheInv, Shapes
<1>4. PICK map \in SUBSET MapOf(op.text) : disk' = Mapped(op.text, map)
  BY DEF WriteMap
<1>5. map \in SUBSET [id : ToSet(CallIds), block : Blocks] /\ KnownMap(map, Known)
  <2>1. /\ MapOf(op.text) \in SUBSET [id : ToSet(CallIds), block : Blocks]
        /\ KnownMap(MapOf(op.text), Known)
    BY MapTyped
  <2>2. IsFiniteSet(map)
    BY <2>1, FS_Subset DEF KnownMap
  <2>. QED BY <2>1, <2>2 DEF KnownMap
<1>6. /\ DiskOK(disk', Known) /\ DOMAIN disk' = DOMAIN disk
      /\ \A x \in DOMAIN disk : /\ disk'[x].tokens = disk[x].tokens
                                /\ disk'[x].ours = disk[x].ours /\ disk'[x].hits = disk[x].hits
  BY <1>3, <1>4, <1>5, MappedFacts
<1>7. \A t : Saved(t, disk, Missing) => Saved(t, disk', Missing')
  BY <1>1, <1>6 DEF Saved, Missing
<1>8. slot[op.slot].pc = "save" => Saved(Render(slot[op.slot].tokens), disk', Missing')
  BY <1>1, <1>2, <1>7 DEF CacheInv, StoreKeeps
<1>9. Shapes' => Fits'
  <2>1. ~Evicting /\ op'.pc # "victims" /\ log'.cut = log.cut
    BY <1>1, NoOpFacts DEF Evicting
  <2>. QED BY <1>3, <1>6, <2>1, FitsStays
<1>10. log' \in Logs /\ log'.calls = log.calls /\ log'.requests = log.requests
  BY <1>1, <1>3
<1>. QED BY <1>1, <1>2, <1>6, <1>7, <1>8, <1>9, <1>10, NoOpFacts, StoreOver

\* A client thread moves.
LEMMA ClientMoves ==
    ASSUME CacheInv, UNCHANGED <<disk, op, slot>>, client' \in Clients,
           log' \in Logs, log'.calls = log.calls, log'.unsaved = log.unsaved,
           log'.cut = log.cut, mem' \in Limited(Known), HitsPaid'
    PROVE  CacheInv'
<1>1. Known' = Known
  BY DEF Known
<1>2. Shapes'
  BY <1>1 DEF CacheInv, Shapes
<1>3. OpServes' /\ StoreKeeps' /\ SlotsWork' /\ SlotsKeep' /\ Fits'
  BY DEF CacheInv, OpServes, StoreKeeps, SlotsWork, SlotsKeep, Missing, Fits, Evicting, AllRead
<1>. QED BY <1>2, <1>3 DEF CacheInv

\* A client sends a request, which may add a hit later.
LEMMA ClientSendsInv ==
    ASSUME CacheInv, ClientSends
    PROVE  CacheInv'
<1>1. /\ client.pc = "idle" /\ log.requests < MaxRequests
      /\ log' = [log EXCEPT !.requests = @ + 1]
      /\ UNCHANGED <<disk, op, slot, mem>>
  BY DEF ClientSends
<1>2. PICK conv \in log.convs :
         client' = [pc |-> "scan", req |-> [conv |-> conv, prompt |-> <<>>],
                    todo |-> IF Calls(conv) = {} THEN {} ELSE DOMAIN disk]
  BY DEF ClientSends
<1>3. log \in Logs /\ mem \in Limited(Known) /\ MaxRequests \in Nat
  BY KvCacheAssumption DEF CacheInv, Shapes
<1>4. client' \in Clients /\ client'.pc = "scan"
  <2>1. conv \in Seq(Messages) /\ <<>> \in Seq(Segments)
    BY <1>2, <1>3 DEF Logs
  <2>2. (IF Calls(conv) = {} THEN {} ELSE DOMAIN disk) \in SUBSET Seq(Segments)
    BY TextTyped
  <2>. QED BY <1>2, <2>1, <2>2 DEF Clients, Requests
<1>5. log' \in Logs /\ log'.calls = log.calls /\ log'.unsaved = log.unsaved
        /\ log'.requests = log.requests + 1 /\ log.requests \in Nat /\ log'.cut = log.cut
  BY <1>1, <1>3 DEF Logs
<1>6. HitsPaid'
  <2>. DEFINE p == Cardinality(Pending)
              q == Cardinality(Pending')
  <2>1. Pending' = Pending \union {NoSlot}
    BY <1>1, <1>4 DEF Pending
  <2>2. p \in Nat /\ q \in Nat /\ q <= p + 1
    <3>1. IsFiniteSet(Pending) /\ p \in Nat
      BY PendingFinite
    <3>2. Cardinality(Pending \union {NoSlot}) =
             IF NoSlot \in Pending THEN Cardinality(Pending) ELSE Cardinality(Pending) + 1
      BY <3>1, FS_AddElement
    <3>. QED BY <2>1, <3>1, <3>2
  <2>3. p <= log.requests
    BY DEF CacheInv, HitsPaid
  <2>4. ASSUME NEW t \in DOMAIN disk', disk'[t].ours
        PROVE  disk'[t].hits + q <= log'.requests
    <3>. DEFINE h == disk[t].hits
    <3>1. h \in Nat
      BY <1>1, <2>4 DEF CacheInv, Shapes, DiskOK, Files
    <3>2. h + p <= log.requests
      BY <1>1, <2>4 DEF CacheInv, HitsPaid
    <3>3. disk'[t].hits = h
      BY <1>1
    <3>. HIDE DEF h, p, q
    <3>. QED BY <1>5, <2>2, <3>1, <3>2, <3>3
  <2>5. q <= log'.requests
    <3>. HIDE DEF p, q
    <3>. QED BY <1>5, <2>2, <2>3
  <2>. QED BY <2>4, <2>5 DEF HitsPaid
<1>. QED BY <1>1, <1>3, <1>4, <1>5, <1>6, ClientMoves

\* What a client does between its request and its job.
LEMMA ClientWorks ==
    ASSUME CacheInv, UNCHANGED <<disk, op, slot, log>>, client' \in Clients,
           client.pc # "idle", mem' \in Limited(Known)
    PROVE  CacheInv'
<1>1. Pending' \subseteq Pending
  BY DEF Pending
<1>2. HitsPaid'
  BY <1>1, HitsStay DEF CacheInv
<1>3. log' \in Logs
  BY DEF CacheInv, Shapes
<1>. QED BY <1>2, <1>3, ClientMoves

\* A client reads the map of a file, if the file is still there.
LEMMA ScanFileInv ==
    ASSUME CacheInv, ScanFile
    PROVE  CacheInv'
<1>1. client.pc = "scan" /\ UNCHANGED <<disk, op, slot, log>>
  BY DEF ScanFile
<1>2. PICK t \in client.todo :
         /\ client' = [client EXCEPT !.todo = @ \ {t}]
         /\ mem' = IF t \in DOMAIN disk
                   THEN PutAll(mem, {x \in disk[t].map : x.id \in Calls(client.req.conv)})
                   ELSE mem
  BY DEF ScanFile
<1>3. client \in Clients /\ mem \in Limited(Known) /\ DiskOK(disk, Known)
  BY DEF CacheInv, Shapes
<1>4. client' \in Clients
  BY <1>2, <1>3 DEF Clients
<1>5. CASE t \in DOMAIN disk
  <2>. DEFINE map == {x \in disk[t].map : x.id \in Calls(client.req.conv)}
  <2>1. KnownMap(disk[t].map, Known) /\ disk[t] \in Files
    BY <1>3, <1>5 DEF DiskOK
  <2>2. IsFiniteSet(map)
    BY <2>1, FS_Subset DEF KnownMap
  <2>3. \A x \in map : x.id \in Known /\ x.block \in Blocks
    BY <2>1 DEF KnownMap, Files
  <2>4. mem' = PutAll(mem, map)
    BY <1>2, <1>5
  <2>. HIDE DEF map
  <2>5. mem' \in Limited(Known)
    BY <1>3, <2>2, <2>3, <2>4, PutAllLimits
  <2>. QED BY <1>1, <1>4, <2>5, ClientWorks
<1>6. CASE t \notin DOMAIN disk
  BY <1>1, <1>2, <1>3, <1>4, <1>6, ClientWorks
<1>. QED BY <1>5, <1>6

\* A client renders its prompt with what the memory holds.
LEMMA AttachInv ==
    ASSUME CacheInv, Attach
    PROVE  CacheInv'
<1>. DEFINE conv == client.req.conv
            text == PromptOf(mem, conv)
<1>1. /\ client.pc = "scan" /\ UNCHANGED <<disk, op, slot, log>>
      /\ mem' = TouchAll(mem, conv)
      /\ client' = [client EXCEPT !.pc = "ready", !.req.prompt = text]
  BY Zenon DEF Attach
<1>2. client \in Clients /\ mem \in Limited(Known)
  BY DEF CacheInv, Shapes
<1>3. conv \in Seq(Messages)
  BY <1>2 DEF Clients, Requests
<1>4. text \in Seq(Segments)
  BY <1>2, <1>3, PromptType
<1>5. mem' \in Limited(Known)
  BY <1>1, <1>2, <1>3, TouchAllLimits
<1>. HIDE DEF text, conv
<1>6. client' \in Clients
  BY <1>1, <1>2, <1>4 DEF Clients, Requests
<1>. QED BY <1>1, <1>5, <1>6, ClientWorks

\* A slot whose turn is over, and what its call changed.
LEMMA SlotRests ==
    ASSUME CacheInv, NEW s \in Slots, slot[s].pc = "remember",
           NEW q \in SlotStates, q.pc = "idle", slot' = [slot EXCEPT ![s] = q],
           UNCHANGED <<disk, op, client>>, log' \in Logs, log'.unsaved = log.unsaved,
           log'.cut = log.cut,
           log'.requests = log.requests, Known \subseteq Known', mem' \in Limited(Known')
    PROVE  CacheInv'
<1>1. slot \in [Slots -> SlotStates] /\ op \in Ops /\ DiskOK(disk, Known)
        /\ KnownOp(op, Known) /\ client \in Clients
  BY DEF CacheInv, Shapes
<1>2. slot' \in [Slots -> SlotStates] /\ slot'[s] = q /\ \A x \in Slots : x # s => slot'[x] = slot[x]
  BY <1>1
<1>3. Shapes'
  <2>1. DiskOK(disk', Known')
    BY <1>1, DiskKnows
  <2>2. KnownOp(op', Known')
    <3>. DEFINE e == op.entry
    <3>1. DiskOK(e, Known) /\ KnownMap(op.file.map, Known)
      BY <1>1 DEF KnownOp
    <3>. HIDE DEF e
    <3>2. DiskOK(e, Known')
      BY <3>1, DiskKnows
    <3>. QED BY <3>1, <3>2 DEF KnownOp, KnownMap, e
  <2>. QED BY <1>1, <1>2, <2>1, <2>2 DEF Shapes
<1>4. HitsPaid'
  <2>1. Pending' \subseteq Pending
    BY <1>2 DEF Pending
  <2>. QED BY <2>1, HitsStay DEF CacheInv
<1>5. \A x \in Slots : x = op.slot /\ op.pc # "free" => slot'[x] = slot[x]
  <2>1. NoSlot \notin Slots
    BY KvCacheAssumption
  <2>2. op.pc # "free" => op.slot # s
    <3>1. op.pc \in OpPcs
      BY <1>1 DEF Ops
    <3>2. "remember" \notin StorePcs
      BY DEF StorePcs
    <3>. QED BY <2>1, <3>1, <3>2 DEF CacheInv, OpServes, OpPcs
  <2>. QED BY <1>2, <2>2
<1>6. \A t : Saved(t, disk, Missing) => Saved(t, disk', Missing')
  BY DEF Saved, Missing
<1>7. OpServes' /\ StoreKeeps'
  BY <1>1, <1>5, <1>6, OpStays, StoreKeepsStays DEF CacheInv
<1>8. GoesBack(q) /\ Follows(q) /\ \A d, u : Keeps(q, d, u)
  BY StopWorks
<1>9. SlotsWork'
  BY <1>2, <1>8 DEF CacheInv, SlotsWork
<1>10. SlotsKeep'
  BY <1>2, <1>6, <1>8, KeepsStays DEF CacheInv, SlotsKeep
<1>11. Fits'
  BY DEF CacheInv, Fits, Evicting, AllRead
<1>. QED BY <1>3, <1>4, <1>7, <1>9, <1>10, <1>11 DEF CacheInv

\* A call gets its id, and its text is remembered.
LEMMA RememberInv ==
    ASSUME CacheInv, NEW s \in Slots, Remember(s)
    PROVE  CacheInv'
<1>. DEFINE r == slot[s]
            n == Cardinality(DOMAIN log.calls) + 1
            id == CallIds[n]
            tokens == r.tokens
            conv == r.req.conv \o <<id, "result">>
            over == [Idle(r.tokens) EXCEPT !.last = r.last]
<1>1. /\ r.pc = "remember" /\ UNCHANGED <<disk, op, client>> /\ slot' = [slot EXCEPT ![s] = over]
      /\ IF n > Len(CallIds) THEN UNCHANGED <<mem, log>>
         ELSE /\ mem' = Remembered(mem, id, Last(tokens)[1], NoThink)
              /\ log' = [log EXCEPT !.calls = With(@, id, Render(tokens)),
                                    !.convs = @ \union {conv}]
  BY Zenon DEF Remember, At
<1>2. r \in SlotStates /\ log \in Logs /\ mem \in Limited(Known) /\ Follows(r)
  BY DEF CacheInv, Shapes, SlotsWork
<1>3. over \in SlotStates /\ over.pc = "idle"
  BY <1>2, OverWorks
<1>. HIDE DEF over
<1>4. CASE n > Len(CallIds)
  <2>1. mem' = mem /\ log' = log
    BY <1>1, <1>4
  <2>2. Known' = Known
    BY <2>1 DEF Known
  <2>. QED BY <1>1, <1>2, <1>3, <2>1, <2>2, SlotRests
<1>5. CASE ~(n > Len(CallIds))
  <2>1. /\ mem' = Remembered(mem, id, Last(tokens)[1], NoThink)
        /\ log' = [log EXCEPT !.calls = With(@, id, Render(tokens)),
                              !.convs = @ \union {conv}]
    BY <1>1, <1>5
  <2>2. Known \subseteq ToSet(CallIds) /\ log.calls \in [Known -> Seq(Segments)]
    BY <1>2 DEF Logs, Histories, Known
  <2>3. id \in ToSet(CallIds)
    <3>1. CallIds \in Seq(STRING) /\ IsFiniteSet(ToSet(CallIds))
      BY KvCacheAssumption, ToSetFacts
    <3>2. Cardinality(Known) \in Nat
      BY <2>2, <3>1, FS_Subset, FS_CardinalityType
    <3>3. n = Cardinality(Known) + 1 /\ Len(CallIds) \in Nat
      BY <3>1 DEF Known
    <3>. HIDE DEF n
    <3>4. n \in 1 .. Len(CallIds)
      BY <1>5, <3>2, <3>3
    <3>. QED BY <3>1, <3>4, ToSetFacts
  <2>4. /\ tokens \in Seq(Tokens) /\ Last(tokens)[1] \in Blocks
        /\ Render(tokens) \in Seq(Segments) /\ r.req.conv \in Seq(Messages)
    BY <1>1, <1>2, RenderFacts DEF SlotStates, Follows, Requests
  <2>. HIDE DEF r, n, id, tokens
  <2>5. conv \in Seq(Messages)
    <3>1. <<id, "result">> \in Seq(Messages)
      BY <2>3 DEF Messages
    <3>. HIDE DEF Messages
    <3>. QED BY <2>4, <3>1, ConcatProperties
  <2>. DEFINE more == With(log.calls, id, Render(tokens))
              K == Known \union {id}
  <2>6. DOMAIN more = K /\ more \in Histories
    <3>1. more = [x \in K |-> IF x = id THEN Render(tokens) ELSE log.calls[x]]
      BY DEF With, Known
    <3>2. K \in SUBSET ToSet(CallIds)
      BY <2>2, <2>3
    <3>. HIDE DEF K, more
    <3>3. \A x \in K : (IF x = id THEN Render(tokens) ELSE log.calls[x]) \in Seq(Segments)
      BY <2>2, <2>4 DEF K
    <3>4. more \in [K -> Seq(Segments)]
      BY <3>1, <3>3
    <3>. QED BY <3>1, <3>2, <3>4 DEF Histories
  <2>. HIDE DEF more, conv
  <2>7. log' \in Logs /\ log'.calls = more /\ log'.unsaved = log.unsaved
          /\ log'.requests = log.requests /\ log'.cut = log.cut
    <3>1. /\ log'.convs = log.convs \union {conv} /\ log'.calls = more
          /\ log'.requests = log.requests /\ log'.faults = log.faults
          /\ log'.unsaved = log.unsaved
          /\ log' = [convs |-> log'.convs, calls |-> log'.calls, requests |-> log'.requests,
                     faults |-> log'.faults, unsaved |-> log'.unsaved, cut |-> log'.cut]
          /\ log'.cut = log.cut
      BY <1>2, <2>1 DEF Logs, more
    <3>2. log.convs \union {conv} \in SUBSET Seq(Messages)
      BY <1>2, <2>5 DEF Logs
    <3>. QED BY <1>2, <2>6, <3>1, <3>2 DEF Logs
  <2>8. Known' = K
    BY <2>6, <2>7 DEF Known
  <2>9. mem' \in Limited(Known')
    <3>1. mem \in Limited(K)
      BY <1>2, LimitedGrows
    <3>2. mem \in Counted(K) /\ id \in K /\ NoThink \in BOOLEAN
      BY <3>1, KvCacheAssumption DEF Limited
    <3>. HIDE DEF K
    <3>3. mem' \in Limited(K)
      BY <2>1, <2>4, <3>2, RememberedLimits
    <3>. QED BY <2>8, <3>3
  <2>10. Known \subseteq Known'
    BY <2>8
  <2>. HIDE DEF K
  <2>. QED BY <1>1, <1>2, <1>3, <2>7, <2>9, <2>10, SlotRests DEF r
<1>. QED BY <1>4, <1>5

\* The parts of a process that starts.
LEMMA IdleIs ==
    /\ Idle(<<>>) \in SlotStates /\ Idle(<<>>).pc = "idle"
    /\ [pc |-> "idle", req |-> NoRequest, todo |-> {}] \in Clients
    /\ [NoOp EXCEPT !.pc = "evict"] \in Ops /\ [NoOp EXCEPT !.pc = "evict"].slot = NoSlot
    /\ [NoOp EXCEPT !.pc = "evict"].pc = "evict"
    /\ \A ids : KnownOp([NoOp EXCEPT !.pc = "evict"], ids)
<1>1. NoRequest \in Requests
  BY DEF NoRequest, Requests
<1>2. Idle(<<>>) \in SlotStates /\ Idle(<<>>).pc = "idle"
  BY <1>1 DEF Idle, SlotStates, SlotPcs
<1>3. [pc |-> "idle", req |-> NoRequest, todo |-> {}] \in Clients
  BY <1>1 DEF Clients
<1>4. NoOp \in Ops /\ NoOp.slot = NoSlot
  BY NoOpFacts
<1>5. /\ [NoOp EXCEPT !.pc = "evict"] \in Ops /\ [NoOp EXCEPT !.pc = "evict"].slot = NoSlot
      /\ [NoOp EXCEPT !.pc = "evict"].pc = "evict" /\ [NoOp EXCEPT !.pc = "evict"].file = NoOp.file
      /\ [NoOp EXCEPT !.pc = "evict"].entry = NoOp.entry
  BY <1>4 DEF Ops, OpPcs
<1>6. \A ids : KnownOp([NoOp EXCEPT !.pc = "evict"], ids)
  BY <1>5, NoOpFacts DEF KnownOp
<1>. QED BY <1>2, <1>3, <1>5, <1>6

\* The process starts with the directory it finds.
LEMMA RestartedInv ==
    ASSUME CacheInv, Restarted, disk' = disk, log' \in Logs, log'.calls = log.calls,
           log'.requests = log.requests
    PROVE  CacheInv'
<1>1. /\ slot' = [s \in Slots |-> Idle(<<>>)] /\ mem' = NoMemory
      /\ client' = [pc |-> "idle", req |-> NoRequest, todo |-> {}]
      /\ op' = [NoOp EXCEPT !.pc = "evict"]
  BY DEF Restarted
<1>2. /\ client' \in Clients /\ client'.pc = "idle" /\ op' \in Ops /\ op'.slot = NoSlot
      /\ op'.pc = "evict" /\ \A ids : KnownOp(op', ids)
  BY <1>1, IdleIs
<1>3. slot' \in [Slots -> SlotStates] /\ \A s \in Slots : slot'[s].pc = "idle"
  BY <1>1, IdleIs
<1>4. Known' = Known /\ mem' \in Limited(Known)
  BY <1>1, NoMemoryLimited DEF Known
<1>5. Shapes'
  BY <1>2, <1>3, <1>4, NoOpFacts DEF CacheInv, Shapes
<1>6. HitsPaid'
  <2>1. Pending' = {}
    BY <1>2, <1>3 DEF Pending
  <2>2. Pending' \subseteq Pending
    BY <2>1
  <2>. QED BY <2>2, HitsStay DEF CacheInv
<1>7. SlotsWork' /\ SlotsKeep'
  BY <1>3, StopWorks DEF SlotsWork, SlotsKeep
<1>8. OpServes' /\ StoreKeeps' /\ Fits'
  BY <1>2 DEF OpServes, StoreKeeps, Fits, Evicting
<1>. QED BY <1>5, <1>6, <1>7, <1>8 DEF CacheInv

\* A fault is counted, and nothing else is.
LEMMA FaultCounted ==
    ASSUME log \in Logs, log' = [log EXCEPT !.faults = @ + 1]
    PROVE  /\ log' \in Logs /\ log'.calls = log.calls /\ log'.requests = log.requests
           /\ log'.unsaved = log.unsaved /\ log'.cut = log.cut
BY DEF Logs

\* The process is gone.
LEMMA CrashInv ==
    ASSUME CacheInv, Crash
    PROVE  CacheInv'
<1>1. Restarted /\ disk' = disk /\ log' = [log EXCEPT !.faults = @ + 1]
  BY DEF Crash
<1>2. log \in Logs
  BY DEF CacheInv, Shapes
<1>3. log' \in Logs /\ log'.calls = log.calls /\ log'.requests = log.requests
  BY <1>1, <1>2, FaultCounted
<1>. QED BY <1>1, <1>3, RestartedInv

\* The process stopped and starts again.
LEMMA StoppedInv ==
    ASSUME CacheInv, Stopped
    PROVE  CacheInv'
<1>1. Restarted /\ disk' = disk /\ log' = log
  BY DEF Stopped
<1>2. log' \in Logs
  BY <1>1 DEF CacheInv, Shapes
<1>. QED BY <1>1, <1>2, RestartedInv

\* The process stops: every slot persists what it holds.
LEMMA StopInv ==
    ASSUME CacheInv, Stop
    PROVE  CacheInv'
<1>1. /\ \A s \in Slots : slot[s].pc = "idle"
      /\ slot' = [s \in Slots |-> [slot[s] EXCEPT !.back = "stopped",
                    !.pc = IF Len(slot[s].tokens) >= MinTokens THEN "shutdown" ELSE "stopped"]]
      /\ log' = [log EXCEPT !.faults = @ + 1]
      /\ UNCHANGED <<disk, op, mem, client>>
  BY DEF Stop, At
<1>2. slot \in [Slots -> SlotStates] /\ log \in Logs
  BY DEF CacheInv, Shapes
<1>3. log' \in Logs /\ log'.calls = log.calls /\ log'.requests = log.requests
        /\ log'.unsaved = log.unsaved /\ log'.cut = log.cut
  BY <1>1, <1>2, FaultCounted
<1>4. ASSUME NEW s \in Slots
      PROVE  /\ slot'[s] \in SlotStates
             /\ slot'[s].pc = "stopped" \/ (slot'[s].pc = "shutdown" /\ slot'[s].back = "stopped")
  <2>. DEFINE pc == IF Len(slot[s].tokens) >= MinTokens THEN "shutdown" ELSE "stopped"
  <2>1. slot'[s] = [slot[s] EXCEPT !.back = "stopped", !.pc = pc]
    BY <1>1
  <2>2. pc \in {"shutdown", "stopped"}
    OBVIOUS
  <2>. HIDE DEF pc
  <2>. QED BY <1>2, <2>1, <2>2 DEF SlotStates, SlotPcs, StorePcs
<1>5. slot' \in [Slots -> SlotStates]
  BY <1>1, <1>4
<1>6. Shapes'
  BY <1>1, <1>3, <1>5 DEF CacheInv, Shapes, Known
<1>7. HitsPaid'
  <2>1. Pending' \subseteq Pending
    BY <1>1, <1>4 DEF Pending
  <2>. QED BY <1>1, <1>3, <2>1, HitsStay DEF CacheInv
<1>8. SlotsWork' /\ SlotsKeep'
  BY <1>4, StopWorks DEF SlotsWork, SlotsKeep
<1>9. op.pc = "free" \/ (Evicting /\ op.slot = NoSlot)
  <2>1. op.pc \in OpPcs
    BY DEF CacheInv, Shapes, Ops
  <2>2. "idle" \notin StorePcs
    BY DEF StorePcs
  <2>3. op.slot \in Slots \union {NoSlot}
    BY DEF CacheInv, Shapes, Ops
  <2>4. op.pc \notin {"write", "rename", "truncate", "map", "open"}
    BY <1>1, <2>2 DEF CacheInv, OpServes
  <2>5. Evicting => op.slot = NoSlot
    BY <1>1, <2>2, <2>3 DEF CacheInv, OpServes, Evicting
  <2>. QED BY <2>1, <2>4, <2>5 DEF OpPcs, Evicting
<1>10. OpServes' /\ StoreKeeps'
  BY <1>1, <1>9 DEF OpServes, StoreKeeps, Evicting
<1>11. Fits'
  BY <1>1, <1>3 DEF CacheInv, Fits, Evicting, AllRead
<1>. QED BY <1>6, <1>7, <1>8, <1>10, <1>11 DEF CacheInv

\* The invariant holds when the cache opens.
LEMMA CacheInit ==
    ASSUME Init
    PROVE  CacheInv
<1>1. /\ disk = [t \in {Render(f.tokens) : f \in Foreign} |->
                   CHOOSE f \in Foreign : Render(f.tokens) = t]
      /\ op = [NoOp EXCEPT !.pc = "evict"] /\ slot = [s \in Slots |-> Idle(<<>>)]
      /\ mem = NoMemory /\ client = [pc |-> "idle", req |-> NoRequest, todo |-> {}]
      /\ log = [convs |-> {<<o>> : o \in Openings}, calls |-> <<>>, requests |-> 0,
                faults |-> 0, unsaved |-> {}, cut |-> FALSE]
  BY DEF Init
<1>2. \A t \in DOMAIN disk : disk[t] \in Foreign /\ Render(disk[t].tokens) = t
  BY <1>1
<1>3. \A f \in Foreign : f \in Files /\ ~f.ours /\ f.map = {}
  BY KvCacheAssumption
<1>4. DiskOK(disk, Known)
  <2>1. disk \in [DOMAIN disk -> Files]
    <3>1. disk = [t \in DOMAIN disk |-> disk[t]]
      BY <1>1
    <3>. QED BY <1>2, <1>3, <3>1
  <2>2. IsFiniteSet(DOMAIN disk)
    <3>. DEFINE g == [f \in Foreign |-> Render(f.tokens)]
    <3>1. DOMAIN disk = {Render(f.tokens) : f \in Foreign}
      BY <1>1
    <3>2. g \in Surjection(Foreign, DOMAIN disk)
      BY <3>1 DEF Surjection
    <3>3. IsFiniteSet(Foreign)
      BY KvCacheAssumption
    <3>. QED BY <3>2, <3>3, FS_Surjection
  <2>3. \A t \in DOMAIN disk : KnownMap(disk[t].map, Known)
    BY <1>2, <1>3, FS_EmptySet DEF KnownMap
  <2>. QED BY <1>2, <2>1, <2>2, <2>3 DEF DiskOK
<1>5. /\ client \in Clients /\ client.pc = "idle" /\ op \in Ops /\ op.slot = NoSlot
      /\ op.pc = "evict" /\ \A ids : KnownOp(op, ids)
  BY <1>1, IdleIs
<1>6. slot \in [Slots -> SlotStates] /\ \A s \in Slots : slot[s].pc = "idle"
  BY <1>1, IdleIs
<1>7. log \in Logs
  <2>1. {<<o>> : o \in Openings} \in SUBSET Seq(Messages)
    <3>1. \A o \in Openings : o \in Messages
      BY DEF Messages
    <3>. HIDE DEF Messages
    <3>2. \A o \in Openings : <<o>> \in Seq(Messages)
      BY <3>1
    <3>. QED BY <3>2
  <2>2. <<>> \in Histories
    <3>1. <<>> \in [{} -> Seq(Segments)]
      OBVIOUS
    <3>. QED BY <3>1 DEF Histories
  <2>3. 0 \in 0 .. MaxRequests
    BY KvCacheAssumption
  <2>. QED BY <1>1, <2>1, <2>2, <2>3 DEF Logs
<1>8. Shapes
  BY <1>1, <1>4, <1>5, <1>6, <1>7, NoOpFacts, NoMemoryLimited DEF Shapes
<1>9. HitsPaid
  <2>1. Pending = {}
    BY <1>5, <1>6 DEF Pending
  <2>2. Cardinality(Pending) <= log.requests
    BY <1>1, <2>1, FS_EmptySet
  <2>. QED BY <1>2, <1>3, <2>2 DEF HitsPaid
<1>10. SlotsWork /\ SlotsKeep
  BY <1>6, StopWorks DEF SlotsWork, SlotsKeep
<1>11. OpServes /\ StoreKeeps /\ Fits
  BY <1>5 DEF OpServes, StoreKeeps, Fits, Evicting
<1>. QED BY <1>8, <1>9, <1>10, <1>11 DEF CacheInv

\* Every step of the cache, the tool memory and their clients keeps the
\* invariant.
LEMMA CacheNext ==
    ASSUME CacheInv, [Next]_vars
    PROVE  CacheInv'
<1>1. ASSUME NEW s \in Slots, SlotNext(s) PROVE CacheInv'
  BY <1>1, BeginInv, StoreBeginsInv, LoadFindsInv, PrefillInv, PrefilledInv, DecodeInv,
     SampleInv, RememberInv, Zenon DEF SlotNext
<1>2. CASE UNCHANGED vars
  BY <1>2 DEF vars, CacheInv, Shapes, HitsPaid, Pending, OpServes, SlotsWork, SlotsKeep, StoreKeeps,
        Fits, Evicting, AllRead, Missing, Known
<1>3. CASE ClientSends
  BY <1>3, ClientSendsInv
<1>4. CASE ScanFile \/ Attach
  BY <1>4, ScanFileInv, AttachInv
<1>5. CASE Write \/ Rename \/ Refresh \/ Evict \/ EvictFails \/ Evicted
  BY <1>5, WriteInv, RenameInv, RefreshInv, EvictInv, EvictFailsInv, EvictedInv
<1>6. CASE Truncate \/ WriteMap \/ LoadOpens
  BY <1>6, TruncateInv, WriteMapInv, LoadOpensInv
<1>7. CASE Crash \/ Stop \/ Stopped \/ Delete
  BY <1>7, CrashInv, StopInv, StoppedInv, DeleteInv
<1>. QED BY <1>1, <1>2, <1>3, <1>4, <1>5, <1>6, <1>7, Zenon DEF Next

\* The inductive invariant of the cache always holds.
LEMMA CacheAlways == Spec => []CacheInv
BY CacheInit, CacheNext, PTL DEF Spec

\* The inductive invariant gives the types, the bounds and the exact counters.
LEMMA CacheTypes ==
    ASSUME CacheInv
    PROVE  TypeOK
<1>1. Shapes /\ HitsPaid
  BY DEF CacheInv
<1>2. DiskOK(disk, Known) /\ op \in Ops /\ slot \in [Slots -> SlotStates] /\ client \in Clients
        /\ log \in Logs /\ mem \in Limited(Known)
  BY <1>1 DEF Shapes
<1>3. ASSUME NEW t \in DOMAIN disk
      PROVE  /\ disk[t].ours \in BOOLEAN /\ disk[t].fits \in BOOLEAN
             /\ disk[t].hits \in Nat /\ (disk[t].ours => disk[t].hits <= MaxRequests)
             /\ \A x \in disk[t].map : x.id \in DOMAIN log.calls /\ x.block \in Blocks
  <2>1. disk[t] \in Files /\ KnownMap(disk[t].map, Known)
    BY <1>2 DEF DiskOK
  <2>2. disk[t].hits \in Nat /\ disk[t].ours \in BOOLEAN /\ disk[t].fits \in BOOLEAN
          /\ \A x \in disk[t].map : x.id \in DOMAIN log.calls /\ x.block \in Blocks
    BY <2>1 DEF Files, KnownMap, Known
  <2>3. ASSUME disk[t].ours PROVE disk[t].hits <= MaxRequests
    <3>. DEFINE h == disk[t].hits
                p == Cardinality(Pending)
    <3>1. h + p <= log.requests
      BY <1>1, <2>3 DEF HitsPaid
    <3>2. h \in Nat /\ p \in Nat /\ MaxRequests \in Nat /\ log.requests \in 0 .. MaxRequests
      BY <1>2, <2>2, PendingFinite, KvCacheAssumption DEF Logs
    <3>. HIDE DEF h, p
    <3>3. h <= MaxRequests
      BY <3>1, <3>2
    <3>. QED BY <3>3 DEF h
  <2>. QED BY <2>2, <2>3
<1>4. op.slot \in Slots \union {NoSlot} /\ op.pc \in OpPcs
  BY <1>2 DEF Ops
<1>5. \A s \in Slots : /\ slot[s].pc \in SlotPcs
                       /\ slot[s].cached \in Nat /\ slot[s].cold \in Nat /\ slot[s].last \in Nat
  BY <1>2 DEF SlotStates
<1>6. SlotPcs = StorePcs \union
             {"idle", "load", "prefill", "decode", "sample", "remember", "stopped"}
  BY DEF SlotPcs, WorkPcs, StorePcs
<1>7. client.pc \in {"idle", "scan", "ready"}
  BY <1>2 DEF Clients
<1>8. Ids(mem) \subseteq DOMAIN log.calls /\ Exact(mem)
  BY <1>2, LimitedIsExact DEF Known
<1>. QED BY <1>3, <1>4, <1>5, <1>6, <1>7, <1>8, Zenon DEF TypeOK, OpPcs

\* The inductive invariant gives what a checkpoint and a restored session hold.
LEMMA CacheMatches ==
    ASSUME CacheInv
    PROVE  RestoredMatches
<1>1. \A t \in DOMAIN disk : Render(disk[t].tokens) = t
  BY DEF CacheInv, Shapes, DiskOK
<1>2. ASSUME NEW s \in Slots, slot[s].pc \in {"prefill", "cold", "continued", "decode", "sample"}
      PROVE  /\ Render(slot[s].eff) = slot[s].req.prompt
             /\ IsPrefix(SubSeq(slot[s].eff, 1, slot[s].cached), slot[s].tokens)
             /\ slot[s].pc = "sample" => slot[s].tokens = slot[s].eff
  <2>. DEFINE r == slot[s]
  <2>1. r \in SlotStates /\ Follows(r)
    BY DEF CacheInv, Shapes, SlotsWork
  <2>2. r.pc \in WorkPcs
    BY <1>2 DEF WorkPcs
  <2>. HIDE DEF r
  <2>3. /\ Render(r.eff) = r.req.prompt
        /\ r.cached > 0 => r.cached <= Len(r.tokens) /\ IsPrefix(r.tokens, r.eff)
        /\ r.pc = "sample" => r.tokens = r.eff
    BY <2>1, <2>2 DEF Follows, Complete
  <2>4. /\ r.tokens \in Seq(Tokens) /\ r.eff \in Seq(Tokens) /\ r.cached \in Nat
        /\ Len(r.tokens) \in Nat /\ Len(r.eff) \in Nat
    BY <2>1 DEF SlotStates
  <2>5. IsPrefix(SubSeq(r.eff, 1, r.cached), r.tokens)
    <3>1. r.cached \in 0 .. Len(r.eff) /\ r.cached <= Len(r.tokens)
            /\ \A i \in 1 .. r.cached : r.eff[i] = r.tokens[i]
      <4>1. CASE r.cached = 0
        BY <2>4, <4>1
      <4>2. CASE r.cached > 0
        <5>1. /\ Len(r.tokens) <= Len(r.eff) /\ r.cached <= Len(r.tokens)
              /\ \A i \in 1 .. Len(r.tokens) : r.tokens[i] = r.eff[i]
          BY <2>3, <2>4, <4>2, PrefixIs
        <5>. QED BY <2>4, <4>2, <5>1
      <4>. QED BY <2>4, <4>1, <4>2
    <3>2. r.tokens \in Seq(Tokens) /\ r.eff \in Seq(Tokens)
      BY <2>4
    <3>. QED BY ONLY <3>1, <3>2, SameFirst
  <2>. QED BY <2>3, <2>5 DEF r
<1>. QED BY <1>1, <1>2 DEF RestoredMatches

\* The inductive invariant gives the budget.
LEMMA CacheFits ==
    ASSUME CacheInv
    PROVE  WithinBudget
BY DEF CacheInv, Fits, Evicting, WithinBudget

\* The store under way keeps the tokens of its slot, and the load those of the others.
LEMMA EndsKeepTokens ==
    ASSUME slot \in [Slots -> SlotStates], NEW x \in Slots, NEW ok \in BOOLEAN, Ends(x, ok),
           NEW s \in Slots
    PROVE  slot'[s].tokens = slot[s].tokens
<1>1. PICK q \in SlotStates : slot' = [slot EXCEPT ![x] = q] /\ q.tokens = slot[x].tokens
  BY EndsIs
<1>. QED BY <1>1

\* A chunk goes on from what the session holds of its target.
LEMMA PrefillExtends ==
    ASSUME CacheInv, NEW s \in Slots, Prefill(s), IsPrefix(slot[s].tokens, Target(slot[s])),
           slot'[s].pc # "idle"
    PROVE  IsPrefix(slot[s].tokens, slot'[s].tokens)
<1>. DEFINE r == slot[s]
            target == Target(r)
            held == IF IsPrefix(r.tokens, target) THEN Len(r.tokens) ELSE 0
            now == SubSeq(target, 1, held + 1)
            pc == IF held + 1 > r.cached /\ ContinuedDue(held + 1, r.last) THEN "continued" ELSE "prefill"
            q == [r EXCEPT !.tokens = now, !.back = "prefill", !.pc = pc]
<1>1. /\ r.pc = "prefill" /\ held < Len(target)
      /\ slot' = [slot EXCEPT ![s] = q] \/ slot' = [slot EXCEPT ![s] = Idle(<<>>)]
  <2>1. /\ At(s, "prefill") /\ held < Len(target)
        /\ \/ slot' = [slot EXCEPT ![s] = [@ EXCEPT !.tokens = now, !.back = "prefill", !.pc = pc]]
           \/ slot' = [slot EXCEPT ![s] = Idle(<<>>)]
    BY Zenon DEF Prefill
  <2>. HIDE DEF held, target
  <2>. QED BY <2>1, Zenon DEF At
<1>2. r \in SlotStates /\ Follows(r) /\ slot \in [Slots -> SlotStates]
  BY DEF CacheInv, Shapes, SlotsWork
<1>3. slot' = [slot EXCEPT ![s] = q]
  BY <1>1, <1>2 DEF Idle
<1>4. IsPrefix(r.tokens, target)
  OBVIOUS
<1>. HIDE DEF r
<1>5. r.cold <= Len(r.eff)
  BY <1>1, <1>2 DEF Follows, WorkPcs
<1>6. /\ target \in Seq(Tokens) /\ r.tokens \in Seq(Tokens)
      /\ Len(target) \in Nat /\ Len(r.tokens) \in Nat
  BY <1>2, <1>5, TargetFacts DEF SlotStates
<1>. HIDE DEF target
<1>7. held = Len(r.tokens) /\ held \in Nat /\ held + 1 \in 0 .. Len(target)
  BY <1>1, <1>4, <1>6
<1>. HIDE DEF held
<1>8. /\ now \in Seq(Tokens) /\ Len(now) = held + 1 /\ \A i \in 1 .. held + 1 : now[i] = target[i]
  BY <1>6, <1>7, FirstIs
<1>. HIDE DEF now
<1>9. IsPrefix(r.tokens, now)
  <2>1. \A i \in 1 .. Len(r.tokens) : r.tokens[i] = target[i]
    BY <1>4, <1>6, PrefixIs
  <2>2. Len(r.tokens) <= Len(now) /\ \A i \in 1 .. Len(r.tokens) : r.tokens[i] = now[i]
    BY <1>6, <1>7, <1>8, <2>1
  <2>. QED BY <1>6, <1>8, <2>2, PrefixIs
<1>10. slot'[s].tokens = now
  <2>. HIDE DEF pc
  <2>1. q.tokens = now
    BY <1>2 DEF SlotStates
  <2>. HIDE DEF q
  <2>. QED BY <1>2, <1>3, <2>1
<1>. QED BY <1>9, <1>10 DEF r

\* A session that the target goes on from is never replaced.
LEMMA SessionStays ==
    ASSUME CacheInv, Next, NEW s \in Slots, slot[s].pc = "prefill",
           IsPrefix(slot[s].tokens, Target(slot[s])), slot'[s].pc # "idle"
    PROVE  IsPrefix(slot[s].tokens, slot'[s].tokens)
<1>. DEFINE old == slot[s].tokens
<1>1. /\ slot \in [Slots -> SlotStates] /\ slot[s] \in SlotStates /\ Follows(slot[s])
      /\ op \in Ops
  BY DEF CacheInv, Shapes, SlotsWork
<1>2. old \in Seq(Tokens)
  BY <1>1 DEF SlotStates
<1>3. slot'[s].tokens = old => IsPrefix(old, slot'[s].tokens)
  BY <1>2, PrefixIs
<1>4. ASSUME NEW x \in Slots, SlotNext(x)
      PROVE  slot'[s].tokens = old \/ IsPrefix(old, slot'[s].tokens)
  <2>1. CASE Begin(x)
    <3>1. x # s /\ \E q : slot' = [slot EXCEPT ![x] = q]
      BY <2>1 DEF Begin, At
    <3>. QED BY <1>1, <3>1
  <2>2. CASE StoreBegins(x)
    <3>1. slot' = slot \/ Ends(x, TRUE)
      BY <2>2 DEF StoreBegins
    <3>. QED BY <1>1, <3>1, EndsKeepTokens
  <2>3. CASE LoadFinds(x)
    <3>1. x # s /\ (slot' = slot \/ \E q : slot' = [slot EXCEPT ![x] = q])
      BY <2>3 DEF LoadFinds, At, Starts
    <3>. QED BY <1>1, <3>1
  <2>4. CASE Prefill(x)
    <3>1. CASE x # s
      <4>1. \E q : slot' = [slot EXCEPT ![x] = q]
        BY <2>4 DEF Prefill
      <4>. QED BY <1>1, <3>1, <4>1
    <3>2. CASE x = s
      BY <1>1, <1>2, <2>4, <3>2, PrefillExtends
    <3>. QED BY <3>1, <3>2
  <2>5. CASE Prefilled(x)
    <3>. DEFINE q == IF slot[x].cold = Len(slot[x].tokens)
              THEN [slot[x] EXCEPT !.pc = "cold", !.cold = 0,
                       !.back = IF slot[x].tokens = slot[x].eff THEN "decode" ELSE "prefill"]
              ELSE [slot[x] EXCEPT !.pc = "decode"]
    <3>1. slot' = [slot EXCEPT ![x] = q]
      BY <2>5 DEF Prefilled
    <3>2. slot[x] \in SlotStates
      BY <1>1
    <3>3. q.tokens = slot[x].tokens
      BY <3>2 DEF SlotStates
    <3>. HIDE DEF q
    <3>. QED BY <1>1, <3>1, <3>3
  <2>6. CASE Decode(x)
    <3>1. x # s
      BY <2>6 DEF Decode, At
    <3>2. slot'[s] = slot[s]
      BY <1>1, <2>6, <3>1 DEF Decode
    <3>. QED BY <3>2
  <2>7. CASE Sample(x)
    <3>1. x # s
      BY <2>7 DEF Sample, At
    <3>2. slot'[s] = slot[s]
      BY <1>1, <2>7, <3>1 DEF Sample
    <3>. QED BY <3>2
  <2>8. CASE Remember(x)
    <3>1. x # s /\ \E q : slot' = [slot EXCEPT ![x] = q]
      BY <2>8 DEF Remember, At
    <3>. QED BY <1>1, <3>1
  <2>. QED BY <1>4, <2>1, <2>2, <2>3, <2>4, <2>5, <2>6, <2>7, <2>8 DEF SlotNext
<1>5. CASE \/ ClientSends \/ ScanFile \/ Attach \/ Rename \/ Refresh \/ Evict \/ EvictFails
         \/ Truncate \/ Delete
  <2>1. slot' = slot
    BY <1>5 DEF ClientSends, ScanFile, Attach, Rename, Refresh, Evict, EvictFails, Truncate, Delete
  <2>. QED BY <1>3, <2>1
<1>6. CASE Write
  <2>1. op.slot \in Slots
    BY <1>6 DEF Write, CacheInv, OpServes
  <2>2. slot' = slot \/ Ends(op.slot, FALSE)
    BY <1>6 DEF Write
  <2>. QED BY <1>1, <1>3, <2>1, <2>2, EndsKeepTokens
<1>7. CASE Evicted
  <2>1. slot' = slot \/ (op.slot \in Slots /\ Ends(op.slot, TRUE))
    BY <1>1, <1>7 DEF Evicted, Ops
  <2>. QED BY <1>1, <1>3, <2>1, EndsKeepTokens
<1>8. CASE WriteMap
  <2>1. op.slot \in Slots /\ Ends(op.slot, TRUE)
    BY <1>8 DEF WriteMap, CacheInv, OpServes
  <2>. QED BY <1>1, <1>3, <2>1, EndsKeepTokens
<1>9. CASE LoadOpens
  <2>1. op.slot \in Slots /\ op.slot # s
    BY <1>9 DEF LoadOpens, CacheInv, OpServes
  <2>2. \E q : slot' = [slot EXCEPT ![op.slot] = q]
    BY <1>9 DEF LoadOpens, Starts
  <2>. QED BY <1>1, <1>3, <2>1, <2>2
<1>10. CASE Crash \/ Stopped
  BY <1>10 DEF Crash, Stopped, Restarted, Idle
<1>11. CASE Stop
  BY <1>11 DEF Stop, At
<1>. QED BY <1>3, <1>4, <1>5, <1>6, <1>7, <1>8, <1>9, <1>10, <1>11 DEF Next

\* While a store writes, no session is replaced.
LEMMA StoreWaits ==
    ASSUME CacheInv, Next, op.pc \in {"write", "rename"}, NEW s \in Slots,
           slot[s].pc \in {"load", "prefill"}, slot'[s].pc # "idle"
    PROVE  slot'[s].tokens = slot[s].tokens
<1>1. slot \in [Slots -> SlotStates] /\ op.slot \in Slots
  BY DEF CacheInv, Shapes, OpServes
<1>2. ASSUME NEW x \in Slots, SlotNext(x)
      PROVE  slot'[s].tokens = slot[s].tokens
  <2>1. Begin(x) \/ Remember(x)
    BY <1>2 DEF SlotNext, StoreBegins, LoadFinds, Prefill, Prefilled, Decode, Sample, Free
  <2>2. x # s /\ \E q : slot' = [slot EXCEPT ![x] = q]
    BY <2>1 DEF Begin, Remember, At
  <2>. QED BY <1>1, <2>2
<1>3. CASE ClientSends \/ ScanFile \/ Attach \/ Rename \/ Delete
  BY <1>3 DEF ClientSends, ScanFile, Attach, Rename, Delete
<1>4. CASE Write
  <2>1. slot' = slot \/ Ends(op.slot, FALSE)
    BY <1>4 DEF Write
  <2>. QED BY <1>1, <2>1, EndsKeepTokens
<1>5. ~(Refresh \/ Evict \/ EvictFails \/ Evicted \/ Truncate \/ WriteMap \/ LoadOpens)
  BY DEF Refresh, Evict, EvictFails, Evicted, EvictsOne, Truncate, WriteMap, LoadOpens
<1>6. ~(Crash \/ Stopped \/ Stop)
  <2>1. Restarted => slot'[s].pc = "idle"
    BY DEF Restarted, Idle
  <2>2. Stop => slot[s].pc = "idle"
    BY DEF Stop, At
  <2>3. Crash \/ Stopped => Restarted
    BY DEF Crash, Stopped
  <2>. QED BY <2>1, <2>2, <2>3
<1>. QED BY <1>2, <1>3, <1>4, <1>5, <1>6, Zenon DEF Next

\* A step that replaces a session finds it in the directory, or knows why it is
\* not.
LEMMA CacheReplaces ==
    ASSUME CacheInv, Next, NEW s \in Slots,
           slot[s].pc \in {"load", "prefill"}, Len(slot[s].tokens) >= MinTokens,
           slot'[s].pc # "idle", ~IsPrefix(slot[s].tokens, slot'[s].tokens)
    PROVE  Render(slot[s].tokens) \in DOMAIN disk \union log.unsaved
<1>1. Keeps(slot[s], disk, Missing)
  BY DEF CacheInv, SlotsKeep
<1>2. slot[s].pc = "load" \/ ~IsPrefix(slot[s].tokens, Target(slot[s]))
  BY SessionStays
<1>3. op.pc \notin {"write", "rename"}
  <2>. SUFFICES ASSUME op.pc \in {"write", "rename"} PROVE FALSE
    OBVIOUS
  <2>1. slot'[s].tokens = slot[s].tokens
    BY StoreWaits
  <2>2. slot[s].tokens \in Seq(Tokens)
    BY DEF CacheInv, Shapes, SlotStates
  <2>. QED BY <2>1, <2>2, PrefixIs
<1>. QED BY <1>1, <1>2, <1>3 DEF Keeps, Saved, Missing

\* For any slots, budgets, limits and number of requests and faults: the hits of
\* every file of this server are at most the requests, the maps of the files and
\* the tool memory name only calls that were made, and the counters of the tool
\* memory, which slots and clients change in any order, are exact and within its
\* limits (tool_memory_put_locked, tool_memory_prune_locked).
THEOREM CacheIsTyped == Spec => []TypeOK
BY CacheAlways, CacheTypes, PTL

\* A checkpoint always holds the text it is named after, across crashes, failed
\* writes and files of other servers; a slot that prefills works on the bytes of
\* its prompt; and what a request was told is cached is in the session, token by
\* token (kv_cache_store_live_prefix, kv_cache_try_load_text, generate_job).
THEOREM CheckpointsMatch == Spec => []RestoredMatches
BY CacheAlways, CacheMatches, PTL

\* Whenever no store or load is under way the tokens of the checkpoints fit the
\* budget, whichever files the eviction chose and whichever went by hand, unless a
\* failed unlink or an unreadable directory cut the last eviction short
\* (kv_cache_evict, q36_server.c:7554-7578).
THEOREM BudgetIsKept == Spec => []WithinBudget
BY CacheAlways, CacheFits, PTL

\* No step of any slot replaces a session worth a checkpoint that is not in the
\* directory, unless its store failed or its file was evicted or deleted since
\* (generate_job's save before the load, and q36_session_sync's extension).
THEOREM ReplacedAreSaved == Spec => ReplacedIsSaved
<1>. DEFINE Replaces(s) ==
              LET old == slot[s].tokens IN
              /\ slot[s].pc \in {"load", "prefill"} /\ Len(old) >= MinTokens
              /\ slot'[s].pc # "idle" /\ ~IsPrefix(old, slot'[s].tokens)
              => Render(old) \in DOMAIN disk \union log.unsaved
<1>1. ASSUME CacheInv, [Next]_vars
      PROVE  [\A s \in Slots : Replaces(s)]_vars
  BY <1>1, CacheReplaces
<1>2. CacheInv /\ [Next]_vars => [\A s \in Slots : Replaces(s)]_vars
  BY <1>1
<1>3. Spec => [][\A s \in Slots : Replaces(s)]_vars
  <2>. HIDE DEF Replaces
  <2>. QED BY <1>2, CacheAlways, PTL DEF Spec
<1>. QED BY <1>3 DEF ReplacedIsSaved

================================================================================
