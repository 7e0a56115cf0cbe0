---------------------------- MODULE FoldTheorems ----------------------------
(* Lemmas about the folds of the community modules, for the proofs of this    *)
(* project: a sum over a finite set, and what a fold over a sequence computes *)
(* step by step.  A fold is a recursive function on the subsets of a set; its *)
(* existence is an induction on their size, done on a set of numbers.         *)
EXTENDS Integers, Functions, FiniteSets, FiniteSetTheorems, WellFoundedInduction, TLAPS

(* Every nonempty set of natural numbers has a least element.                 *)
LEMMA LeastNumber ==
  ASSUME NEW T \in SUBSET Nat, T # {}
  PROVE  \E m \in T : \A k \in T : m <= k
<1> DEFINE R == OpToRel(<, Nat)
<1>1. IsWellFoundedOn(R, Nat)
  BY NatLessThanWellFounded
<1>2. \A x, y \in Nat : <<x, y>> \in R <=> x < y
  BY DEF OpToRel
<1> HIDE DEF R
<1>3. PICK x \in T : \A y \in T : ~ (<<y, x>> \in R)
  BY <1>1, WFMin
<1>4. \A y \in T : ~ (y < x)
  BY <1>2, <1>3
<1> QED
  BY <1>4

(* Induction: a set of numbers with 0 and every successor is Nat.             *)
LEMMA Induction ==
  ASSUME NEW T \in SUBSET Nat, 0 \in T, \A n \in T : n + 1 \in T
  PROVE  T = Nat
<1> SUFFICES ASSUME T # Nat PROVE FALSE
  OBVIOUS
<1>1. PICK m \in Nat \ T : \A k \in Nat \ T : m <= k
  BY LeastNumber
<1>2. m # 0 /\ m - 1 \in Nat
  BY <1>1
<1>3. m - 1 \in T
  BY <1>1, <1>2
<1> QED
  BY <1>1, <1>2, <1>3

LEMMA OneLess ==
  ASSUME NEW S, IsFiniteSet(S), NEW x \in S, NEW n \in Nat, Cardinality(S) = n + 1
  PROVE  IsFiniteSet(S \ {x}) /\ Cardinality(S \ {x}) = n
<1>1. IsFiniteSet(S \ {x}) /\ Cardinality(S \ {x}) = Cardinality(S) - 1
  BY FS_RemoveElement
<1> QED
  BY <1>1

-----------------------------------------------------------------------------
(* The recursive function of a fold exists: pick says which element comes off *)
(* next, step what it adds.                                                   *)
Picks(pick, S) == \A s \in SUBSET S : s # {} => pick[s] \in s
StaysIn(step, S, V) == \A x \in S, v \in V : step[<<x, v>>] \in V
FoldsOn(it, S, base, pick, step) ==
  \A s \in SUBSET S :
    it[s] = IF s = {} THEN base ELSE step[<<pick[s], it[s \ {pick[s]}]>>]

LEMMA FoldExists ==
  ASSUME NEW S, IsFiniteSet(S), NEW V, NEW base \in V, NEW pick, Picks(pick, S),
         NEW step, StaysIn(step, S, V)
  PROVE  \E it \in [SUBSET S -> V] : FoldsOn(it, S, base, pick, step)
<1> USE DEF Picks, StaysIn
<1> DEFINE Small(n) == {s \in SUBSET S : Cardinality(s) <= n}
           Good(n, it) == /\ it \in [SUBSET S -> V]
                          /\ \A s \in Small(n) :
                               it[s] = IF s = {} THEN base
                                       ELSE step[<<pick[s], it[s \ {pick[s]}]>>]
           T == {n \in Nat : \E it : Good(n, it)}
<1>1. \A s \in SUBSET S : IsFiniteSet(s) /\ Cardinality(s) \in Nat
  BY FS_Subset, FS_CardinalityType
<1>2. 0 \in T
  <2>1. \A s \in Small(0) : s = {}
    BY <1>1, FS_EmptySet
  <2>2. PICK it : it = [s \in SUBSET S |-> base]
    OBVIOUS
  <2>3. it \in [SUBSET S -> V] /\ \A s \in SUBSET S : it[s] = base
    BY <2>2
  <2> QED
    BY <2>1, <2>3
<1>3. ASSUME NEW n \in T PROVE n + 1 \in T
  <2>1. PICK it : Good(n, it)
    OBVIOUS
  <2>2. PICK new : new = [s \in SUBSET S |-> IF Cardinality(s) <= n THEN it[s]
                          ELSE step[<<pick[s], it[s \ {pick[s]}]>>]]
    OBVIOUS
  <2>3. \A s \in SUBSET S : s # {} => /\ pick[s] \in s /\ s \ {pick[s]} \in SUBSET S
                                      /\ Cardinality(s \ {pick[s]}) = Cardinality(s) - 1
    BY <1>1, FS_RemoveElement
  <2>4. \A s \in SUBSET S : Cardinality(s) <= n \/ s # {}
    <3>1. n >= 0 /\ Cardinality({}) = 0
      BY FS_EmptySet
    <3> QED
      BY <3>1
  <2>5. new \in [SUBSET S -> V]
    <3>1. \A s \in SUBSET S : s # {} => step[<<pick[s], it[s \ {pick[s]}]>>] \in V
      BY <2>1, <2>3
    <3> QED
      BY <2>1, <2>2, <2>4, <3>1
  <2>6. ASSUME NEW s \in Small(n + 1)
        PROVE  new[s] = IF s = {} THEN base ELSE step[<<pick[s], new[s \ {pick[s]}]>>]
    <3>1. CASE s = {}
      BY <2>1, <2>2, <2>4, <3>1, FS_EmptySet
    <3>2. CASE s # {}
      <4>1. new[s \ {pick[s]}] = it[s \ {pick[s]}]
        <5>1. Cardinality(s \ {pick[s]}) <= n
          BY <1>1, <2>3, <3>2
        <5> QED
          BY <2>2, <2>3, <3>2, <5>1
      <4>2. CASE Cardinality(s) <= n
        BY <2>1, <2>2, <3>2, <4>1, <4>2
      <4>3. CASE ~(Cardinality(s) <= n)
        BY <2>2, <3>2, <4>1, <4>3
      <4> QED
        BY <4>2, <4>3
    <3> QED
      BY <3>1, <3>2
  <2>7. Good(n + 1, new)
    BY <2>5, <2>6
  <2> HIDE DEF Good
  <2> QED
    BY <2>7
<1>4. Cardinality(S) \in T
  <2>1. T = Nat
    <3> HIDE DEF T
    <3>1. T \in SUBSET Nat
      BY DEF T
    <3> QED
      BY <1>2, <1>3, <3>1, Induction
  <2> HIDE DEF T
  <2> QED
    BY <1>1, <2>1
<1>5. Small(Cardinality(S)) = SUBSET S
  BY FS_Subset
<1> HIDE DEF Small
<1> QED
  BY <1>4, <1>5 DEF FoldsOn

(* A sum takes one element off after the other.                               *)
Pick(s) == CHOOSE x \in s : TRUE

SumsOn(it, f, S) ==
  \A s \in SUBSET S : it[s] = IF s = {} THEN 0 ELSE f[Pick(s)] + it[s \ {Pick(s)}]

LEMMA SumsAgree ==
  ASSUME NEW S, IsFiniteSet(S), NEW R, NEW f, NEW it, NEW other,
         SumsOn(it, f, S), SumsOn(other, f, R), NEW s \in SUBSET S, s \in SUBSET R
  PROVE  it[s] = other[s]
<1> SUFFICES ASSUME it[s] # other[s] PROVE FALSE
  OBVIOUS
<1>1. \A u \in SUBSET S : IsFiniteSet(u) /\ Cardinality(u) \in Nat
  BY FS_Subset, FS_CardinalityType
<1> DEFINE T == {n \in Nat : \E u \in SUBSET S : /\ u \in SUBSET R /\ it[u] # other[u]
                                               /\ Cardinality(u) = n}
<1>2. T # {} /\ T \in SUBSET Nat
  BY <1>1
<1>3. PICK n \in T : \A k \in T : n <= k
  <2> HIDE DEF T
  <2> QED
    BY <1>2, LeastNumber
<1>4. PICK u \in SUBSET S : u \in SUBSET R /\ it[u] # other[u] /\ Cardinality(u) = n
  BY <1>3
<1>5. u # {}
  BY <1>4 DEF SumsOn
<1>6. Pick(u) \in u
  BY <1>5 DEF Pick
<1>7. Cardinality(u \ {Pick(u)}) = n - 1
  BY <1>1, <1>4, <1>6, FS_RemoveElement
<1>8. it[u \ {Pick(u)}] = other[u \ {Pick(u)}]
  <2>1. n - 1 \notin T
    BY <1>3
  <2>2. n - 1 \in Nat
    BY <1>1, <1>7
  <2> QED
    BY <1>4, <1>7, <2>1, <2>2
<1> QED
  BY <1>4, <1>5, <1>8 DEF SumsOn

LEMMA SumSteps ==
  ASSUME NEW S, IsFiniteSet(S), NEW f, \A x \in S : f[x] \in Int
  PROVE  \E it \in [SUBSET S -> Int] :
           /\ SumFunctionOnSet(f, S) = it[S]
           /\ SumsOn(it, f, S)
<1> DEFINE Is(it) == it = [s \in SUBSET S |->
             IF s = {} THEN 0
             ELSE LET x == CHOOSE y \in s : TRUE IN f[x] + it[s \ {x}]]
<1>1. PICK typed \in [SUBSET S -> Int] : Is(typed)
  <2>1. PICK pick : pick = [s \in SUBSET S |-> Pick(s)]
    OBVIOUS
  <2>2. PICK step : step = [xv \in S \X Int |-> f[xv[1]] + xv[2]]
    OBVIOUS
  <2>3. \A s \in SUBSET S : pick[s] = Pick(s) /\ (s # {} => Pick(s) \in s /\ pick[s] \in s)
    BY <2>1 DEF Pick
  <2>4. \A x \in S, v \in Int : step[<<x, v>>] = f[x] + v
    BY <2>2
  <2>5. ASSUME NEW x \in S, NEW v \in Int PROVE step[<<x, v>>] \in Int
    <3>1. f[x] \in Int /\ f[x] + v \in Int
      OBVIOUS
    <3> QED
      BY <2>4, <3>1
  <2>6. PICK it \in [SUBSET S -> Int] : FoldsOn(it, S, 0, pick, step)
    <3>1. PICK V, base : V = Int /\ base = 0
      OBVIOUS
    <3>2. Picks(pick, S) /\ StaysIn(step, S, V) /\ base \in V
      BY <2>3, <2>5, <3>1 DEF Picks, StaysIn
    <3> HIDE DEF Is
    <3>3. \E it \in [SUBSET S -> V] : FoldsOn(it, S, base, pick, step)
      BY <3>2, FoldExists
    <3> QED
      BY <3>1, <3>3
  <2>7. ASSUME NEW s \in SUBSET S, s # {} PROVE it[s] = f[Pick(s)] + it[s \ {Pick(s)}]
    <3>1. Pick(s) \in S /\ pick[s] = Pick(s) /\ it[s \ {Pick(s)}] \in Int
      BY <2>3, <2>6, <2>7
    <3>2. it[s] = step[<<pick[s], it[s \ {pick[s]}]>>]
      BY <2>6, <2>7 DEF FoldsOn
    <3> QED
      BY <2>4, <3>1, <3>2
  <2>8. Is(it)
    BY <2>6, <2>7 DEF Pick, FoldsOn
  <2> QED
    BY <2>6, <2>8
<1>2. SumFunctionOnSet(f, S) = (CHOOSE it : Is(it))[S]
  BY DEF SumFunctionOnSet, FoldFunctionOnSet, MapThenFoldSet
<1>3. PICK it : it = CHOOSE g : Is(g)
  OBVIOUS
<1>4. Is(it)
  <2> HIDE DEF Is
  <2> QED
    BY <1>1, <1>3
<1>5. SumsOn(it, f, S) /\ SumsOn(typed, f, S)
  BY <1>1, <1>4 DEF SumsOn, Pick
<1>6. it = [s \in SUBSET S |-> it[s]] /\ typed = [s \in SUBSET S |-> typed[s]]
  BY <1>1, <1>4
<1>7. \A s \in SUBSET S : it[s] = typed[s]
  BY <1>5, SumsAgree
<1>8. it = typed
  BY <1>6, <1>7
<1> QED
  BY <1>1, <1>2, <1>3, <1>5, <1>8
LEMMA SumType ==
  ASSUME NEW S, IsFiniteSet(S), NEW f, \A x \in S : f[x] \in Int
  PROVE  SumFunctionOnSet(f, S) \in Int
<1>1. PICK it \in [SUBSET S -> Int] : SumFunctionOnSet(f, S) = it[S]
  BY SumSteps
<1> QED
  BY <1>1

LEMMA SumEmpty == ASSUME NEW f PROVE SumFunctionOnSet(f, {}) = 0
<1>1. PICK it : SumFunctionOnSet(f, {}) = it[{}] /\ SumsOn(it, f, {})
  BY SumSteps, FS_EmptySet
<1> QED
  BY <1>1 DEF SumsOn

LEMMA SumPick ==
  ASSUME NEW S, IsFiniteSet(S), S # {}, NEW f, \A x \in S : f[x] \in Int
  PROVE  SumFunctionOnSet(f, S) = f[Pick(S)] + SumFunctionOnSet(f, S \ {Pick(S)})
<1>1. PICK it : SumFunctionOnSet(f, S) = it[S] /\ SumsOn(it, f, S)
  BY SumSteps
<1>2. PICK R : R = S \ {Pick(S)}
  OBVIOUS
<1>3. R \in SUBSET S /\ IsFiniteSet(R)
  BY <1>2, FS_Subset
<1>4. PICK other : SumFunctionOnSet(f, R) = other[R] /\ SumsOn(other, f, R)
  BY <1>3, SumSteps
<1>5. it[R] = other[R]
  BY <1>1, <1>3, <1>4, SumsAgree
<1>6. it[S] = f[Pick(S)] + it[R]
  BY <1>1, <1>2 DEF SumsOn
<1> QED
  BY <1>1, <1>2, <1>4, <1>5, <1>6

(* Any element may come off first.                                            *)
LEMMA SumRemove ==
  ASSUME NEW S, IsFiniteSet(S), NEW f, \A x \in S : f[x] \in Int, NEW x \in S
  PROVE  SumFunctionOnSet(f, S) = f[x] + SumFunctionOnSet(f, S \ {x})
<1> DEFINE Sum(s) == SumFunctionOnSet(f, s)
           T == {n \in Nat : \A s \in SUBSET S : Cardinality(s) = n =>
                               \A y \in s : Sum(s) = f[y] + Sum(s \ {y})}
<1>1. \A s \in SUBSET S : /\ IsFiniteSet(s) /\ Cardinality(s) \in Nat
                          /\ SumFunctionOnSet(f, s) \in Int
  BY FS_Subset, FS_CardinalityType, SumType
<1>2. 0 \in T
  BY <1>1, FS_EmptySet
<1>3. ASSUME NEW n \in T PROVE n + 1 \in T
  <2> SUFFICES ASSUME NEW s \in SUBSET S, Cardinality(s) = n + 1, NEW y \in s
               PROVE  Sum(s) = f[y] + Sum(s \ {y})
    OBVIOUS
  <2>1. PICK z : z = Pick(s)
    OBVIOUS
  <2>2. z \in s /\ Sum(s) = f[z] + Sum(s \ {z})
    BY <1>1, <2>1, SumPick DEF Pick
  <2>3. CASE y = z
    BY <2>2, <2>3
  <2>4. CASE y # z
    <3>1. /\ s \ {y} \in SUBSET S /\ s \ {z} \in SUBSET S /\ (s \ {y}) \ {z} \in SUBSET S
          /\ (s \ {y}) \ {z} = (s \ {z}) \ {y} /\ z \in s \ {y} /\ y \in s \ {z}
      BY <2>2, <2>4
    <3>2. Cardinality(s \ {y}) = n /\ Cardinality(s \ {z}) = n
      BY <1>1, <2>2, OneLess
    <3>3. /\ Sum(s \ {y}) = f[z] + Sum((s \ {y}) \ {z})
          /\ Sum(s \ {z}) = f[y] + Sum((s \ {z}) \ {y})
      BY <3>1, <3>2
    <3>4. f[y] \in Int /\ f[z] \in Int /\ Sum((s \ {y}) \ {z}) \in Int
      BY <1>1, <2>2, <3>1
    <3>5. PICK m \in Int : m = Sum((s \ {y}) \ {z})
      BY <3>4
    <3>6. Sum(s) = f[z] + (f[y] + m) /\ Sum(s \ {y}) = f[z] + m
      BY <2>2, <3>1, <3>3, <3>5
    <3> HIDE DEF Sum
    <3> QED
      BY <3>4, <3>6
  <2> QED
    BY <2>3, <2>4
<1>4. T = Nat
  <2> HIDE DEF T
  <2>1. T \in SUBSET Nat
    BY DEF T
  <2> QED
    BY <1>2, <1>3, <2>1, Induction
<1> QED
  BY <1>1, <1>4

(* A sum is monotone in its terms, and one term that is larger by at most one *)
(* makes the sum larger by at most one.                                       *)
LEMMA SumMonotone ==
  ASSUME NEW S, IsFiniteSet(S), NEW f, NEW g,
         \A x \in S : f[x] \in Int /\ g[x] \in Int /\ f[x] <= g[x]
  PROVE  SumFunctionOnSet(f, S) <= SumFunctionOnSet(g, S)
<1> DEFINE T == {n \in Nat : \A s \in SUBSET S : Cardinality(s) = n =>
                               SumFunctionOnSet(f, s) <= SumFunctionOnSet(g, s)}
<1>1. \A s \in SUBSET S : IsFiniteSet(s) /\ Cardinality(s) \in Nat
  BY FS_Subset, FS_CardinalityType
<1>2. 0 \in T
  BY <1>1, FS_EmptySet, SumEmpty
<1>3. ASSUME NEW n \in T PROVE n + 1 \in T
  <2> SUFFICES ASSUME NEW s \in SUBSET S, Cardinality(s) = n + 1
               PROVE  SumFunctionOnSet(f, s) <= SumFunctionOnSet(g, s)
    OBVIOUS
  <2>1. PICK x : x \in s
    BY <1>1, FS_EmptySet
  <2>2. PICK r : r = s \ {x}
    OBVIOUS
  <2>3. r \in SUBSET S /\ Cardinality(r) = n
    BY <1>1, <2>1, <2>2, OneLess
  <2>4. SumFunctionOnSet(f, r) <= SumFunctionOnSet(g, r)
    BY <2>3
  <2>5. /\ SumFunctionOnSet(f, s) = f[x] + SumFunctionOnSet(f, r)
        /\ SumFunctionOnSet(g, s) = g[x] + SumFunctionOnSet(g, r)
    BY <1>1, <2>1, <2>2, SumRemove
  <2>6. SumFunctionOnSet(f, r) \in Int /\ SumFunctionOnSet(g, r) \in Int
    BY <1>1, <2>3, SumType
  <2>7. f[x] \in Int /\ g[x] \in Int /\ f[x] <= g[x]
    BY <2>1
  <2> QED
    BY <2>4, <2>5, <2>6, <2>7
<1>4. T = Nat
  <2> HIDE DEF T
  <2>1. T \in SUBSET Nat
    BY DEF T
  <2> QED
    BY <1>2, <1>3, <2>1, Induction
<1> QED
  BY <1>1, <1>4

LEMMA SumExcess ==
  ASSUME NEW S, IsFiniteSet(S), NEW f, NEW g, NEW z,
         \A x \in S : f[x] \in Int /\ g[x] \in Int,
         \A x \in S \ {z} : f[x] <= g[x],
         z \in S => f[z] <= g[z] + 1
  PROVE  SumFunctionOnSet(f, S) <= SumFunctionOnSet(g, S) + 1
<1>1. CASE z \notin S
  <2>1. SumFunctionOnSet(f, S) <= SumFunctionOnSet(g, S)
    BY <1>1, SumMonotone
  <2>2. SumFunctionOnSet(f, S) \in Int /\ SumFunctionOnSet(g, S) \in Int
    BY SumType
  <2> QED
    BY <2>1, <2>2
<1>2. CASE z \in S
  <2>1. PICK R : R = S \ {z}
    OBVIOUS
  <2>2. IsFiniteSet(R) /\ \A x \in R : f[x] \in Int /\ g[x] \in Int /\ f[x] <= g[x]
    BY <2>1, FS_Subset
  <2>3. SumFunctionOnSet(f, R) <= SumFunctionOnSet(g, R)
    BY <2>2, SumMonotone
  <2>4. SumFunctionOnSet(f, R) \in Int /\ SumFunctionOnSet(g, R) \in Int
    BY <2>2, SumType
  <2>5. /\ SumFunctionOnSet(f, S) = f[z] + SumFunctionOnSet(f, R)
        /\ SumFunctionOnSet(g, S) = g[z] + SumFunctionOnSet(g, R)
    BY <1>2, <2>1, SumRemove
  <2> QED
    BY <1>2, <2>3, <2>4, <2>5
<1> QED
  BY <1>1, <1>2

(* Terms of at most one, and only at places in P, add up to at most the       *)
(* number of those places.                                                    *)
LEMMA SumCounts ==
  ASSUME NEW S, IsFiniteSet(S), NEW f, NEW P, IsFiniteSet(P),
         \A x \in S : f[x] \in Int /\ f[x] <= (IF x \in P THEN 1 ELSE 0)
  PROVE  SumFunctionOnSet(f, S) <= Cardinality(P)
<1> DEFINE T == {n \in Nat : \A s \in SUBSET S : Cardinality(s) = n =>
                               SumFunctionOnSet(f, s) <= Cardinality(s \cap P)}
<1>1. \A s \in SUBSET S : /\ IsFiniteSet(s) /\ Cardinality(s) \in Nat
                          /\ IsFiniteSet(s \cap P) /\ Cardinality(s \cap P) \in Nat
  BY FS_Subset, FS_CardinalityType
<1>2. 0 \in T
  <2>1. \A s \in SUBSET S : Cardinality(s) = 0 => s = {} /\ s \cap P = {}
    BY <1>1, FS_EmptySet
  <2> QED
    BY <2>1, FS_EmptySet, SumEmpty
<1>3. ASSUME NEW n \in T PROVE n + 1 \in T
  <2> SUFFICES ASSUME NEW s \in SUBSET S, Cardinality(s) = n + 1
               PROVE  SumFunctionOnSet(f, s) <= Cardinality(s \cap P)
    OBVIOUS
  <2>1. PICK x : x \in s
    BY <1>1, FS_EmptySet
  <2>2. PICK r : r = s \ {x}
    OBVIOUS
  <2>3. r \in SUBSET S /\ Cardinality(r) = n
    BY <1>1, <2>1, <2>2, OneLess
  <2>4. SumFunctionOnSet(f, r) <= Cardinality(r \cap P)
    BY <2>3
  <2>5. SumFunctionOnSet(f, s) = f[x] + SumFunctionOnSet(f, r)
    BY <1>1, <2>1, <2>2, SumRemove
  <2>6. /\ SumFunctionOnSet(f, r) \in Int /\ Cardinality(r \cap P) \in Nat
        /\ f[x] \in Int /\ f[x] <= (IF x \in P THEN 1 ELSE 0)
    BY <1>1, <2>1, <2>3, SumType
  <2>7. CASE x \in P
    <3>1. r \cap P = (s \cap P) \ {x} /\ x \in s \cap P
      BY <2>1, <2>2, <2>7
    <3>2. Cardinality(r \cap P) = Cardinality(s \cap P) - 1
      <4>1. PICK q : q = s \cap P
        OBVIOUS
      <4>2. IsFiniteSet(q) /\ x \in q
        BY <1>1, <3>1, <4>1
      <4>3. Cardinality(q \ {x}) = Cardinality(q) - 1
        BY <4>2, FS_RemoveElement
      <4> QED
        BY <3>1, <4>1, <4>3
    <3> QED
      BY <1>1, <2>4, <2>5, <2>6, <2>7, <3>2
  <2>8. CASE x \notin P
    <3>1. r \cap P = s \cap P
      BY <2>2, <2>8
    <3> QED
      BY <2>4, <2>5, <2>6, <2>8, <3>1
  <2> QED
    BY <2>7, <2>8
<1>4. T = Nat
  <2> HIDE DEF T
  <2>1. T \in SUBSET Nat
    BY DEF T
  <2> QED
    BY <1>2, <1>3, <2>1, Induction
<1>5. SumFunctionOnSet(f, S) <= Cardinality(S \cap P)
  BY <1>1, <1>4
<1>6. /\ Cardinality(S \cap P) <= Cardinality(P) /\ Cardinality(S \cap P) \in Nat
      /\ Cardinality(P) \in Nat
  BY <1>1, FS_Subset, FS_CardinalityType
<1>7. SumFunctionOnSet(f, S) \in Int
  BY SumType
<1> QED
  BY <1>5, <1>6, <1>7

LEMMA SumSame ==
  ASSUME NEW S, IsFiniteSet(S), NEW f, NEW g,
         \A x \in S : f[x] \in Int /\ f[x] = g[x]
  PROVE  SumFunctionOnSet(f, S) = SumFunctionOnSet(g, S)
<1>1. /\ SumFunctionOnSet(f, S) <= SumFunctionOnSet(g, S)
      /\ SumFunctionOnSet(g, S) <= SumFunctionOnSet(f, S)
  BY SumMonotone
<1>2. SumFunctionOnSet(f, S) \in Int /\ SumFunctionOnSet(g, S) \in Int
  BY SumType
<1> QED
  BY <1>1, <1>2

\* The value at one place of a sum is changed.
LEMMA SumChange ==
  ASSUME NEW S, IsFiniteSet(S), NEW f, NEW g, NEW z \in S,
         \A x \in S : f[x] \in Int /\ g[x] \in Int,
         \A x \in S : x # z => f[x] = g[x]
  PROVE  SumFunctionOnSet(g, S) = SumFunctionOnSet(f, S) - f[z] + g[z]
<1>1. PICK R : R = S \ {z}
  OBVIOUS
<1>2. IsFiniteSet(R) /\ \A x \in R : f[x] \in Int /\ f[x] = g[x]
  BY <1>1, FS_Subset
<1>3. SumFunctionOnSet(f, R) = SumFunctionOnSet(g, R) /\ SumFunctionOnSet(f, R) \in Int
  BY <1>2, SumSame, SumType
<1>4. /\ SumFunctionOnSet(f, S) = f[z] + SumFunctionOnSet(f, R)
      /\ SumFunctionOnSet(g, S) = g[z] + SumFunctionOnSet(g, R)
  BY <1>1, SumRemove
<1> QED
  BY <1>3, <1>4

-----------------------------------------------------------------------------
(* Sums over the positions of a sequence.                                     *)
LEMMA UpTo ==
  ASSUME NEW n \in Nat
  PROVE  /\ IsFiniteSet(1..n)
         /\ (1..(n + 1)) \ {n + 1} = 1..n
         /\ n + 1 \in 1..(n + 1)
         /\ 1..n \subseteq 1..(n + 1)
         /\ 1..0 = {}
BY FS_Interval

LEMMA SumLast ==
  ASSUME NEW n \in Nat, NEW f, \A x \in 1..(n + 1) : f[x] \in Int
  PROVE  SumFunctionOnSet(f, 1..(n + 1)) = SumFunctionOnSet(f, 1..n) + f[n + 1]
<1>1. PICK S, R : S = 1..(n + 1) /\ R = 1..n
  OBVIOUS
<1>2. IsFiniteSet(S) /\ S \ {n + 1} = R /\ n + 1 \in S /\ R \subseteq S
  BY <1>1, UpTo
<1>3. SumFunctionOnSet(f, S) = f[n + 1] + SumFunctionOnSet(f, R)
  BY <1>1, <1>2, SumRemove
<1>4. SumFunctionOnSet(f, R) \in Int /\ f[n + 1] \in Int
  <2>1. IsFiniteSet(R) /\ \A x \in R : f[x] \in Int
    BY <1>1, <1>2, FS_Subset
  <2> QED
    BY <1>1, <1>2, <2>1, SumType
<1> QED
  BY <1>1, <1>3, <1>4

LEMMA SumsAdd ==
  ASSUME NEW n \in Nat, NEW f, NEW g, NEW h,
         \A x \in 1..n : f[x] \in Int /\ g[x] \in Int /\ h[x] = f[x] + g[x]
  PROVE  SumFunctionOnSet(h, 1..n) = SumFunctionOnSet(f, 1..n) + SumFunctionOnSet(g, 1..n)
<1> DEFINE Sum(e, k) == SumFunctionOnSet(e, 1..k)
           T == {k \in Nat : k <= n => Sum(h, k) = Sum(f, k) + Sum(g, k)}
<1>1. 0 \in T
  BY UpTo, SumEmpty
<1>2. ASSUME NEW k \in T PROVE k + 1 \in T
  <2> SUFFICES ASSUME k + 1 <= n PROVE Sum(h, k + 1) = Sum(f, k + 1) + Sum(g, k + 1)
    OBVIOUS
  <2>1. \A x \in 1..(k + 1) : f[x] \in Int /\ g[x] \in Int /\ h[x] = f[x] + g[x]
    OBVIOUS
  <2>2. \A x \in 1..(k + 1) : h[x] \in Int
    BY <2>1
  <2>3. /\ Sum(f, k + 1) = Sum(f, k) + f[k + 1]
        /\ Sum(g, k + 1) = Sum(g, k) + g[k + 1]
        /\ Sum(h, k + 1) = Sum(h, k) + h[k + 1]
    BY <2>1, <2>2, SumLast
  <2>4. Sum(h, k) = Sum(f, k) + Sum(g, k)
    OBVIOUS
  <2>5. Sum(f, k) \in Int /\ Sum(g, k) \in Int
    BY <2>1, UpTo, SumType
  <2>6. /\ h[k + 1] = f[k + 1] + g[k + 1]
        /\ f[k + 1] \in Int /\ g[k + 1] \in Int
    BY <2>1
  <2> HIDE DEF Sum
  <2> QED
    BY <2>3, <2>4, <2>5, <2>6
<1>3. T = Nat
  <2>1. T \in SUBSET Nat
    OBVIOUS
  <2> HIDE DEF T
  <2> QED
    BY <1>1, <1>2, <2>1, Induction
<1> QED
  BY <1>3

\* h is f on the first m positions and g on the n behind them.
Concatenates(h, m, f, n, g) ==
  /\ \A x \in 1..m : f[x] \in Int /\ h[x] = f[x]
  /\ \A x \in 1..n : g[x] \in Int /\ h[m + x] = g[x]

LEMMA SumsConcatenate ==
  ASSUME NEW m \in Nat, NEW n \in Nat, NEW f, NEW g, NEW h, Concatenates(h, m, f, n, g),
         NEW p, p = m + n
  PROVE  SumFunctionOnSet(h, 1..p)
           = SumFunctionOnSet(f, 1..m) + SumFunctionOnSet(g, 1..n)
<1> USE DEF Concatenates
<1> DEFINE Sum(e, k) == SumFunctionOnSet(e, 1..k)
           T == {k \in Nat : k <= n => Sum(h, m + k) = Sum(f, m) + Sum(g, k)}
<1>0. Sum(f, m) \in Int /\ Sum(h, m) = Sum(f, m)
  BY UpTo, SumType, SumSame
<1>1. 0 \in T
  <2>1. Sum(g, 0) = 0 /\ m + 0 = m
    BY UpTo, SumEmpty
  <2> HIDE DEF Sum
  <2> QED
    BY <1>0, <2>1
<1>2. ASSUME NEW k \in T PROVE k + 1 \in T
  <2> SUFFICES ASSUME k + 1 <= n PROVE Sum(h, m + (k + 1)) = Sum(f, m) + Sum(g, k + 1)
    OBVIOUS
  <2>1. \A x \in 1..(k + 1) : g[x] \in Int /\ h[m + x] = g[x]
    OBVIOUS
  <2>2. PICK j \in Nat : j = m + k
    OBVIOUS
  <2>3. \A x \in 1..(j + 1) : h[x] \in Int
    <3>1. ASSUME NEW x \in 1..(j + 1), ~(x <= m) PROVE h[x] \in Int
      <4>1. x - m \in 1..(k + 1) /\ m + (x - m) = x
        BY <2>2, <3>1
      <4> QED
        BY <2>1, <4>1
    <3> QED
      BY <3>1
  <2>4. /\ Sum(g, k + 1) = Sum(g, k) + g[k + 1]
        /\ Sum(h, j + 1) = Sum(h, j) + h[j + 1]
    BY <2>1, <2>3, SumLast
  <2>5. Sum(h, j) = Sum(f, m) + Sum(g, k)
    BY <2>2
  <2>6. Sum(g, k) \in Int
    BY <2>1, UpTo, SumType
  <2>7. h[j + 1] = g[k + 1] /\ g[k + 1] \in Int /\ m + (k + 1) = j + 1
    BY <2>1, <2>2
  <2> HIDE DEF Sum
  <2> QED
    BY <1>0, <2>4, <2>5, <2>6, <2>7
<1>3. T = Nat
  <2>1. T \in SUBSET Nat
    OBVIOUS
  <2> HIDE DEF T
  <2> QED
    BY <1>1, <1>2, <2>1, Induction
<1> QED
  BY <1>3

-----------------------------------------------------------------------------
(* A fold over a sequence takes the highest position off first.               *)
Greatest(s) == CHOOSE x \in s : \A y \in s : x >= y

LEMMA GreatestNumber ==
  ASSUME NEW n \in Nat, NEW s \in SUBSET (1..n), s # {}
  PROVE  Greatest(s) \in s /\ \A y \in s : Greatest(s) >= y
<1> DEFINE T == {n - x : x \in s}
<1>1. T \in SUBSET Nat /\ T # {}
  <2>1. \A x \in s : n - x \in Nat
    OBVIOUS
  <2>2. PICK x : x \in s
    OBVIOUS
  <2>3. n - x \in T
    BY <2>2
  <2> QED
    BY <2>1, <2>3
<1>2. PICK k \in T : \A j \in T : k <= j
  <2> HIDE DEF T
  <2> QED
    BY <1>1, LeastNumber
<1>3. PICK x \in s : k = n - x
  BY <1>2
<1>4. \A y \in s : x >= y
  <2>1. ASSUME NEW y \in s PROVE x >= y
    <3>1. n - x <= n - y /\ x \in Nat /\ y \in Nat
      BY <1>2, <1>3
    <3> QED
      BY <3>1
  <2> QED
    BY <2>1
<1> QED
  BY <1>4 DEF Greatest

LEMMA GreatestUpTo ==
  ASSUME NEW n \in Nat
  PROVE  Greatest(1..(n + 1)) = n + 1
<1>1. PICK g : g = Greatest(1..(n + 1))
  OBVIOUS
<1>2. g \in 1..(n + 1) /\ \A y \in 1..(n + 1) : g >= y
  <2>1. PICK s, m : s = 1..(n + 1) /\ m = n + 1
    OBVIOUS
  <2>2. m \in Nat /\ s \in SUBSET (1..m) /\ s # {}
    <3>1. s = 1..m /\ m \in s
      BY <2>1, UpTo
    <3> QED
      BY <2>1, <3>1
  <2>3. g = Greatest(s)
    BY <1>1, <2>1
  <2> QED
    BY <2>1, <2>2, <2>3, GreatestNumber
<1>3. g >= n + 1
  BY <1>2, UpTo
<1> QED
  BY <1>1, <1>2, <1>3

LeftOn(it, n, base, step) ==
  \A s \in SUBSET (1..n) :
    it[s] = IF s = {} THEN base ELSE step[<<Greatest(s), it[s \ {Greatest(s)}]>>]

LEMMA LeftExists ==
  ASSUME NEW n \in Nat, NEW V, NEW base \in V, NEW step, StaysIn(step, 1..n, V)
  PROVE  \E it \in [SUBSET (1..n) -> V] : LeftOn(it, n, base, step)
<1>1. PICK S : S = 1..n
  OBVIOUS
<1>2. PICK pick : pick = [s \in SUBSET S |-> Greatest(s)]
  OBVIOUS
<1>3. IsFiniteSet(S) /\ Picks(pick, S)
  BY <1>1, <1>2, UpTo, GreatestNumber DEF Picks
<1>4. PICK it \in [SUBSET S -> V] : FoldsOn(it, S, base, pick, step)
  BY <1>1, <1>3, FoldExists
<1>5. LeftOn(it, n, base, step)
  BY <1>1, <1>2, <1>4 DEF LeftOn, FoldsOn
<1> QED
  BY <1>1, <1>4, <1>5

\* Two such functions are the same if every step of theirs is.
StepsAlike(it, other, n) ==
  \A s \in SUBSET (1..n) :
    s = {} \/ it[s \ {Greatest(s)}] = other[s \ {Greatest(s)}] => it[s] = other[s]

LEMMA LeftAgree ==
  ASSUME NEW n \in Nat, NEW it, NEW other, StepsAlike(it, other, n)
  PROVE  \A s \in SUBSET (1..n) : it[s] = other[s]
<1>1. PICK S : S = 1..n
  OBVIOUS
<1> SUFFICES ASSUME \E s \in SUBSET S : it[s] # other[s] PROVE FALSE
  BY <1>1
<1>2. IsFiniteSet(S) /\ \A s \in SUBSET S : IsFiniteSet(s) /\ Cardinality(s) \in Nat
  BY <1>1, UpTo, FS_Subset, FS_CardinalityType
<1> DEFINE T == {k \in Nat : \E s \in SUBSET S : it[s] # other[s] /\ Cardinality(s) = k}
<1>3. T \in SUBSET Nat /\ T # {}
  BY <1>2
<1>4. PICK k \in T : \A j \in T : k <= j
  <2> HIDE DEF T
  <2> QED
    BY <1>3, LeastNumber
<1>5. PICK s \in SUBSET S : it[s] # other[s] /\ Cardinality(s) = k
  BY <1>4
<1>6. PICK g : g = Greatest(s)
  OBVIOUS
<1>7. s # {} /\ it[s \ {g}] # other[s \ {g}]
  BY <1>1, <1>5, <1>6 DEF StepsAlike
<1>8. g \in s
  BY <1>1, <1>5, <1>6, <1>7, GreatestNumber
<1>9. Cardinality(s \ {g}) = k - 1 /\ s \ {g} \in SUBSET S
  BY <1>2, <1>5, <1>8, FS_RemoveElement
<1>10. Cardinality(s \ {g}) \in Nat
  BY <1>2, <1>9
<1>11. k - 1 \in T
  BY <1>7, <1>9, <1>10
<1> QED
  BY <1>4, <1>11

=============================================================================
