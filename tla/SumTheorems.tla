---------------------------- MODULE SumTheorems ----------------------------
(***************************************************************************)
(* Facts about sums over finite sets: SumFunction and SumFunctionOnSet are *)
(* folds, and what is shown of them is by induction on the subsets of a    *)
(* finite set.                                                             *)
(***************************************************************************)
EXTENDS Integers, FiniteSets, Functions, FiniteSetTheorems, WellFoundedInduction, TLAPS

\* Induction on the natural numbers, over a set.
LEMMA Induction ==
  ASSUME NEW N, \A n \in Nat : (\A m \in Nat : m < n => m \in N) => n \in N
  PROVE  Nat \subseteq N
<1>. SUFFICES ASSUME Nat \ N # {} PROVE FALSE
  OBVIOUS
<1>1. PICK n \in Nat \ N : \A m \in Nat \ N : ~(<<m, n>> \in OpToRel(<, Nat))
  BY NatLessThanWellFounded, WFMin
<1>2. ASSUME NEW m \in Nat, m < n PROVE m \in N
  <2>1. <<m, n>> \in OpToRel(<, Nat)
    BY <1>2 DEF OpToRel
  <2>. QED
    BY <1>1, <2>1
<1>. QED
  BY <1>2

\* Induction on the subsets of a finite set.
LEMMA SubsetInduction ==
  ASSUME NEW S, IsFiniteSet(S), NEW G,
         \A s \in SUBSET S : (\A t \in SUBSET s : t # s => t \in G) => s \in G
  PROVE  SUBSET S \subseteq G
<1>. DEFINE N == {n \in Nat : \A s \in SUBSET S : Cardinality(s) = n => s \in G}
<1>1. ASSUME NEW n \in Nat, \A m \in Nat : m < n => m \in N PROVE n \in N
  <2>1. ASSUME NEW s \in SUBSET S, Cardinality(s) = n, NEW t \in SUBSET s, t # s PROVE t \in G
    <3>1. Cardinality(t) \in Nat /\ Cardinality(t) < n
      BY <2>1, FS_Subset, FS_CardinalityType
    <3>. QED
      BY <1>1, <2>1, <3>1
  <2>. QED
    BY <2>1
<1>2. Nat \subseteq N
  <2>. HIDE DEF N
  <2>. QED
    BY <1>1, Induction
<1>3. ASSUME NEW s \in SUBSET S PROVE s \in G
  BY <1>2, FS_Subset, FS_CardinalityType
<1>. QED
  BY <1>3

\* A fold takes the element c[s] from the set s and goes on with the rest.
IsFold(S, V, base, c, step, it) ==
  /\ it \in [SUBSET S -> V]
  /\ \A s \in SUBSET S : it[s] = IF s = {} THEN base ELSE step[<<c[s], it[s \ {c[s]}]>>]

\* There is such a function: it is built up from the smaller sets.
LEMMA FoldExists ==
  ASSUME NEW S, IsFiniteSet(S), NEW V, NEW base \in V,
         NEW c, \A s \in SUBSET S : s # {} => c[s] \in s,
         NEW step \in [S \X V -> V]
  PROVE  \E it : IsFold(S, V, base, c, step, it)
<1>. DEFINE Value(it, s) == IF s = {} THEN base ELSE step[<<c[s], it[s \ {c[s]}]>>]
            Small(n) == {s \in SUBSET S : Cardinality(s) < n}
            N == {n \in Nat : \E it \in [Small(n) -> V] : \A s \in Small(n) : it[s] = Value(it, s)}
<1>1. ASSUME NEW s \in SUBSET S, s # {}
      PROVE  /\ s \ {c[s]} \in SUBSET S /\ Cardinality(s) \in Nat
             /\ Cardinality(s \ {c[s]}) = Cardinality(s) - 1
  BY <1>1, FS_Subset, FS_CardinalityType, FS_RemoveElement
<1>2. ASSUME NEW n \in Nat, n \in N PROVE n + 1 \in N
  <2>1. PICK it \in [Small(n) -> V] : \A s \in Small(n) : it[s] = Value(it, s)
    BY <1>2
  <2>. DEFINE next == [s \in Small(n + 1) |-> Value(it, s)]
  <2>2. ASSUME NEW s \in Small(n + 1), s # {}
        PROVE  s \ {c[s]} \in Small(n) /\ s \ {c[s]} \in Small(n + 1) /\ c[s] \in S
    BY <1>1, <2>2
  <2>3. next \in [Small(n + 1) -> V]
    <3>1. ASSUME NEW s \in Small(n + 1) PROVE Value(it, s) \in V
      <4>1. CASE s = {}
        BY <4>1
      <4>2. CASE s # {}
        <5>1. it[s \ {c[s]}] \in V /\ c[s] \in S
          BY <2>2, <4>2
        <5>. QED
          BY <4>2, <5>1
      <4>. QED
        BY <4>1, <4>2
    <3>. QED
      BY <3>1
  <2>4. ASSUME NEW s \in Small(n) PROVE s \in Small(n + 1) /\ next[s] = it[s]
    <3>1. Cardinality(s) \in Nat
      BY FS_Subset, FS_CardinalityType
    <3>2. s \in Small(n + 1)
      BY <3>1
    <3>. QED
      BY <2>1, <3>2
  <2>5. ASSUME NEW s \in Small(n + 1) PROVE next[s] = Value(next, s)
    <3>1. CASE s = {}
      BY <3>1
    <3>2. CASE s # {}
      <4>1. next[s \ {c[s]}] = it[s \ {c[s]}]
        BY <2>2, <2>4, <3>2
      <4>2. next[s] = Value(it, s)
        OBVIOUS
      <4>. QED
        BY <3>2, <4>1, <4>2
    <3>. QED
      BY <3>1, <3>2
  <2>. HIDE DEF next
  <2>6. \E f \in [Small(n + 1) -> V] : \A s \in Small(n + 1) : f[s] = Value(f, s)
    BY <2>3, <2>5
  <2>7. n + 1 \in Nat
    OBVIOUS
  <2>. HIDE DEF Value, Small
  <2>. QED
    BY <2>6, <2>7
<1>3. 0 \in N
  <2>1. Small(0) = {}
    BY FS_Subset, FS_CardinalityType
  <2>2. \E it : it \in [{} -> V]
    <3>1. [x \in {} |-> base] \in [{} -> V]
      OBVIOUS
    <3>. QED
      BY <3>1
  <2>. QED
    BY <2>1, <2>2
<1>4. Nat \subseteq N
  <2>1. ASSUME NEW n \in Nat, \A m \in Nat : m < n => m \in N PROVE n \in N
    <3>1. CASE n = 0
      BY <1>3, <3>1
    <3>2. CASE n # 0
      <4>1. n - 1 \in Nat /\ n - 1 < n /\ n = (n - 1) + 1
        BY <3>2
      <4>2. n - 1 \in N
        BY <2>1, <4>1
      <4>. HIDE DEF N
      <4>3. (n - 1) + 1 \in N
        BY <1>2, <4>1, <4>2
      <4>. QED
        BY <4>1, <4>3
    <3>. QED
      BY <3>1, <3>2
  <2>. HIDE DEF N
  <2>. QED
    BY <2>1, Induction
<1>5. Cardinality(S) + 1 \in N /\ Small(Cardinality(S) + 1) = SUBSET S
  <2>1. Cardinality(S) + 1 \in Nat
    BY FS_CardinalityType
  <2>2. \A s \in SUBSET S : Cardinality(s) < Cardinality(S) + 1
    BY FS_Subset, FS_CardinalityType
  <2>. QED
    BY <1>4, <2>1, <2>2
<1>6. PICK it \in [SUBSET S -> V] : \A s \in SUBSET S : it[s] = Value(it, s)
  BY <1>5
<1>. QED
  BY <1>6 DEF IsFold
-----------------------------------------------------------------------------
\* MapThenSumSet of the function f: the elements are taken in the order of
\* CHOOSE.
Pick(s) == CHOOSE x \in s : TRUE
Adding(f, S, it) ==
  [s \in SUBSET S |-> IF s = {} THEN 0 ELSE f[Pick(s)] + it[s \ {Pick(s)}]]
Sums(f, S) == CHOOSE it : it = Adding(f, S, it)

LEMMA SumsAdd ==
  ASSUME NEW S, IsFiniteSet(S), NEW f, \A x \in S : f[x] \in Int, NEW s \in SUBSET S
  PROVE  /\ Sums(f, S)[s] \in Int
         /\ Sums(f, S)[s] = IF s = {} THEN 0 ELSE f[Pick(s)] + Sums(f, S)[s \ {Pick(s)}]
<1>. DEFINE add == [z \in S \X Int |-> f[z[1]] + z[2]]
            pick == [t \in SUBSET S |-> Pick(t)]
<1>0. \A t \in SUBSET S : t # {} => Pick(t) \in t
  BY DEF Pick
<1>1. add \in [S \X Int -> Int]
  OBVIOUS
<1>2. PICK it : IsFold(S, Int, 0, pick, add, it)
  <2>. HIDE DEF add
  <2>1. \A t \in SUBSET S : t # {} => pick[t] \in t
    BY <1>0
  <2>. HIDE DEF pick
  <2>2. PICK V : V = Int
    OBVIOUS
  <2>3. 0 \in V /\ add \in [S \X V -> V]
    BY <1>1, <2>2
  <2>4. \E it : IsFold(S, V, 0, pick, add, it)
    BY <2>1, <2>3, FoldExists
  <2>. QED
    BY <2>2, <2>4
<1>3. it = Adding(f, S, it)
  <2>1. ASSUME NEW t \in SUBSET S PROVE it[t] = Adding(f, S, it)[t]
    <3>1. CASE t = {}
      BY <1>2, <3>1 DEF IsFold, Adding
    <3>2. CASE t # {}
      <4>1. it[t] = add[<<Pick(t), it[t \ {Pick(t)}]>>]
        BY <1>2, <3>2 DEF IsFold
      <4>2. Pick(t) \in S /\ it[t \ {Pick(t)}] \in Int
        BY <1>0, <1>2, <3>2 DEF IsFold
      <4>3. it[t] = f[Pick(t)] + it[t \ {Pick(t)}]
        BY <4>1, <4>2
      <4>. QED
        BY <3>2, <4>3 DEF Adding
    <3>. QED
      BY <3>1, <3>2
  <2>2. it \in [SUBSET S -> Int]
    BY <1>2 DEF IsFold
  <2>. QED
    BY <2>1, <2>2 DEF Adding
<1>4. Sums(f, S) = Adding(f, S, Sums(f, S))
  BY <1>3, Zenon DEF Sums
<1>5. \A t \in SUBSET S : Sums(f, S)[t] = IF t = {} THEN 0 ELSE f[Pick(t)] + Sums(f, S)[t \ {Pick(t)}]
  <2>. DEFINE sums == Sums(f, S)
  <2>1. sums = Adding(f, S, sums)
    BY <1>4
  <2>. HIDE DEF sums
  <2>2. \A t \in SUBSET S : sums[t] = IF t = {} THEN 0 ELSE f[Pick(t)] + sums[t \ {Pick(t)}]
    BY <2>1 DEF Adding
  <2>. QED
    BY <2>2 DEF sums
<1>. DEFINE sum(t) == Sums(f, S)[t]
            G == {t \in SUBSET S : sum(t) \in Int}
<1>. HIDE DEF add, pick
<1>6. SUBSET S \subseteq G
  <2>1. ASSUME NEW t \in SUBSET S, \A u \in SUBSET t : u # t => u \in G PROVE t \in G
    <3>1. CASE t = {}
      <4>1. sum(t) = 0
        BY <1>5, <3>1
      <4>. QED
        BY <4>1
    <3>2. CASE t # {}
      <4>1. Pick(t) \in S /\ t \ {Pick(t)} \in SUBSET t /\ t \ {Pick(t)} # t
        BY <1>0, <3>2
      <4>2. sum(t \ {Pick(t)}) \in Int
        BY <2>1, <4>1
      <4>3. sum(t) = f[Pick(t)] + sum(t \ {Pick(t)}) /\ f[Pick(t)] \in Int
        BY <1>5, <3>2, <4>1
      <4>. HIDE DEF sum
      <4>. QED
        BY <4>2, <4>3
    <3>. QED
      BY <3>1, <3>2
  <2>. HIDE DEF G
  <2>. QED
    BY <2>1, SubsetInduction
<1>. QED
  BY <1>5, <1>6

\* Any element may be taken out of a sum.
LEMMA SumsSplit ==
  ASSUME NEW S, IsFiniteSet(S), NEW f, \A x \in S : f[x] \in Int, NEW s \in SUBSET S, NEW x \in s
  PROVE  Sums(f, S)[s] = f[x] + Sums(f, S)[s \ {x}]
<1>. DEFINE sum(t) == Sums(f, S)[t]
            G == {t \in SUBSET S : \A y \in t : sum(t) = f[y] + sum(t \ {y})}
<1>0. \A t \in SUBSET S : sum(t) \in Int /\ (t # {} => sum(t) = f[Pick(t)] + sum(t \ {Pick(t)}))
  BY SumsAdd
<1>. HIDE DEF sum
<1>1. ASSUME NEW t \in SUBSET S, \A u \in SUBSET t : u # t => u \in G PROVE t \in G
  <2>1. ASSUME NEW y \in t PROVE sum(t) = f[y] + sum(t \ {y})
    <3>. DEFINE p == Pick(t)
    <3>1. p \in t /\ sum(t) = f[p] + sum(t \ {p})
      BY <1>0, <2>1 DEF Pick
    <3>. HIDE DEF p
    <3>2. CASE y = p
      BY <3>1, <3>2
    <3>3. CASE y # p
      <4>1. y \in t \ {p} /\ p \in t \ {y} /\ (t \ {p}) \ {y} = (t \ {y}) \ {p}
        BY <2>1, <3>1, <3>3
      <4>2. t \ {p} \in G /\ t \ {y} \in G
        BY <1>1, <2>1, <3>1
      <4>3. /\ sum(t \ {p}) = f[y] + sum((t \ {p}) \ {y})
            /\ sum(t \ {y}) = f[p] + sum((t \ {y}) \ {p})
        BY <4>1, <4>2
      <4>4. sum((t \ {y}) \ {p}) \in Int /\ f[y] \in Int /\ f[p] \in Int
        BY <1>0, <3>1
      <4>5. sum(t \ {p}) = f[y] + sum((t \ {y}) \ {p})
        BY <4>1, <4>3
      <4>. QED
        BY <3>1, <4>3, <4>4, <4>5
    <3>. QED
      BY <3>2, <3>3
  <2>. QED
    BY <2>1
<1>2. SUBSET S \subseteq G
  <2>. HIDE DEF G
  <2>. QED
    BY <1>1, SubsetInduction
<1>3. s \in G
  BY <1>2
<1>. QED
  BY <1>3 DEF sum

\* Sums of the same, whatever the sets they are parts of.
LEMMA SumsAgree ==
  ASSUME NEW S, IsFiniteSet(S), NEW f, \A x \in S : f[x] \in Int,
         NEW T, IsFiniteSet(T), NEW g, \A x \in T : g[x] \in Int,
         NEW s \in SUBSET S, s \subseteq T, \A x \in s : f[x] = g[x]
  PROVE  Sums(f, S)[s] = Sums(g, T)[s]
<1>. DEFINE G == {t \in SUBSET S : t \subseteq s => Sums(f, S)[t] = Sums(g, T)[t]}
<1>1. ASSUME NEW t \in SUBSET S, \A u \in SUBSET t : u # t => u \in G PROVE t \in G
  <2>1. CASE t = {}
    <3>1. Sums(f, S)[t] = 0 /\ Sums(g, T)[t] = 0
      BY <2>1, SumsAdd
    <3>. QED
      BY <3>1
  <2>2. CASE t # {} /\ t \subseteq s
    <3>. DEFINE p == Pick(t)
    <3>0. p \in t /\ t \in SUBSET T
      BY <2>2 DEF Pick
    <3>1. /\ Sums(f, S)[t] = f[p] + Sums(f, S)[t \ {p}]
          /\ Sums(g, T)[t] = g[p] + Sums(g, T)[t \ {p}]
      BY <2>2, <3>0, SumsAdd
    <3>. HIDE DEF p
    <3>2. t \ {p} \in G
      BY <1>1, <3>0
    <3>. QED
      BY <2>2, <3>0, <3>1, <3>2
  <2>. QED
    BY <2>1, <2>2
<1>2. SUBSET S \subseteq G
  <2>. HIDE DEF G
  <2>. QED
    BY <1>1, SubsetInduction
<1>. QED
  BY <1>2

\* What changes one summand changes the sum.
LEMMA SumOfChange ==
  ASSUME NEW S, IsFiniteSet(S), NEW f, NEW g, \A x \in S : f[x] \in Int /\ g[x] \in Int,
         NEW j \in S, \A x \in S \ {j} : f[x] = g[x], Sums(f, S)[S] = Sums(g, S)[S]
  PROVE  f[j] = g[j]
<1>1. Sums(f, S)[S] = f[j] + Sums(f, S)[S \ {j}] /\ Sums(g, S)[S] = g[j] + Sums(g, S)[S \ {j}]
  BY SumsSplit
<1>2. Sums(f, S)[S \ {j}] = Sums(g, S)[S \ {j}]
  <2>1. S \ {j} \in SUBSET S
    OBVIOUS
  <2>. QED
    BY <2>1, SumsAgree
<1>3. Sums(f, S)[S \ {j}] \in Int /\ Sums(g, S)[S \ {j}] \in Int
  <2>1. S \ {j} \in SUBSET S
    OBVIOUS
  <2>. QED
    BY <2>1, SumsAdd
<1>. DEFINE rest == Sums(f, S)[S \ {j}]
            a == f[j]
            b == g[j]
<1>4. rest \in Int /\ a \in Int /\ b \in Int /\ a + rest = b + rest
  BY <1>1, <1>2, <1>3
<1>. HIDE DEF rest, a, b
<1>5. a = b
  BY <1>4
<1>. QED
  BY <1>5 DEF a, b
-----------------------------------------------------------------------------
\* What follows is about SumFunctionOnSet and SumFunction themselves.
LEMMA SumIs ==
  ASSUME NEW f, NEW S
  PROVE  SumFunctionOnSet(f, S) = Sums(f, S)[S]
BY DEF SumFunctionOnSet, FoldFunctionOnSet, MapThenFoldSet, Sums, Adding, Pick

\* A sum of nothing, of integers, and of one more.
LEMMA SumAdds ==
  ASSUME NEW S, IsFiniteSet(S), NEW f, \A x \in S : f[x] \in Int
  PROVE  /\ SumFunctionOnSet(f, S) \in Int
         /\ S = {} => SumFunctionOnSet(f, S) = 0
         /\ \A x \in S : SumFunctionOnSet(f, S) = f[x] + SumFunctionOnSet(f, S \ {x})
<1>1. SumFunctionOnSet(f, S) \in Int /\ (S = {} => SumFunctionOnSet(f, S) = 0)
  <2>1. S \in SUBSET S
    OBVIOUS
  <2>. QED
    BY <2>1, SumIs, SumsAdd
<1>2. ASSUME NEW x \in S PROVE SumFunctionOnSet(f, S) = f[x] + SumFunctionOnSet(f, S \ {x})
  <2>1. Sums(f, S)[S] = f[x] + Sums(f, S)[S \ {x}]
    BY SumsSplit
  <2>2. Sums(f, S \ {x})[S \ {x}] = Sums(f, S)[S \ {x}]
    <3>. DEFINE T == S \ {x}
    <3>1. IsFiniteSet(T) /\ T \in SUBSET T /\ T \subseteq S
      BY FS_Subset
    <3>2. \A y \in T : f[y] \in Int
      BY <3>1
    <3>. HIDE DEF T
    <3>3. Sums(f, T)[T] = Sums(f, S)[T]
      BY <3>1, <3>2, SumsAgree
    <3>. QED
      BY <3>3 DEF T
  <2>. QED
    BY <2>1, <2>2, SumIs
<1>. QED
  BY <1>1, <1>2

LEMMA SumOfSame ==
  ASSUME NEW S, IsFiniteSet(S), NEW f, NEW g, \A x \in S : f[x] \in Int /\ f[x] = g[x]
  PROVE  SumFunctionOnSet(f, S) = SumFunctionOnSet(g, S)
<1>1. S \in SUBSET S /\ S \subseteq S /\ \A x \in S : g[x] \in Int
  OBVIOUS
<1>2. Sums(f, S)[S] = Sums(g, S)[S]
  BY <1>1, SumsAgree
<1>. QED
  BY <1>2, SumIs

\* A sum over two sets that have nothing in common.
LEMMA SumOfTwo ==
  ASSUME NEW A, IsFiniteSet(A), NEW B, IsFiniteSet(B), A \cap B = {},
         NEW f, \A x \in A \cup B : f[x] \in Int
  PROVE  SumFunctionOnSet(f, A \cup B) = SumFunctionOnSet(f, A) + SumFunctionOnSet(f, B)
<1>. DEFINE sum(s) == SumFunctionOnSet(f, s)
            G == {s \in SUBSET A : sum(s \cup B) = sum(s) + sum(B)}
<1>1. ASSUME NEW s \in SUBSET A, \A t \in SUBSET s : t # s => t \in G PROVE s \in G
  <2>1. /\ IsFiniteSet(s) /\ IsFiniteSet(s \cup B)
        /\ \A x \in s \cup B : f[x] \in Int
    BY FS_Subset, FS_Union
  <2>2. sum(B) \in Int
    BY SumAdds
  <2>3. CASE s = {}
    <3>1. s \cup B = B /\ sum(s) = 0
      BY <2>1, <2>3, SumAdds
    <3>2. sum(s \cup B) = sum(B)
      BY <3>1
    <3>. HIDE DEF sum
    <3>3. sum(s \cup B) = sum(s) + sum(B)
      BY <2>2, <3>1, <3>2
    <3>. QED
      BY <3>3
  <2>4. CASE s # {}
    <3>1. PICK x \in s : TRUE
      BY <2>4
    <3>. DEFINE t == s \ {x}
    <3>2. t \in SUBSET s /\ t # s /\ (s \cup B) \ {x} = t \cup B
      BY <3>1
    <3>3. sum(s) = f[x] + sum(t) /\ sum(s \cup B) = f[x] + sum((s \cup B) \ {x})
      BY <2>1, SumAdds
    <3>4. sum(t) \in Int /\ f[x] \in Int
      <4>1. IsFiniteSet(t) /\ \A y \in t : f[y] \in Int
        BY <2>1, <3>2, FS_Subset
      <4>. HIDE DEF t
      <4>. QED
        BY <4>1, SumAdds
    <3>. HIDE DEF t, sum
    <3>5. sum(t \cup B) = sum(t) + sum(B)
      BY <1>1, <3>2
    <3>6. sum((s \cup B) \ {x}) = sum(t \cup B)
      BY <3>2
    <3>7. sum(s \cup B) = sum(s) + sum(B)
      BY <2>2, <3>3, <3>4, <3>5, <3>6
    <3>. QED
      BY <3>7
  <2>. QED
    BY <2>3, <2>4
<1>2. SUBSET A \subseteq G
  <2>. HIDE DEF G
  <2>. QED
    BY <1>1, SubsetInduction
<1>. QED
  BY <1>2

\* A sum over sets of which no two have anything in common, set by set.
LEMMA SumOfParts ==
  ASSUME NEW I, IsFiniteSet(I), NEW part, \A i \in I : IsFiniteSet(part[i]),
         \A i, j \in I : i # j => part[i] \cap part[j] = {},
         NEW f, \A i \in I : \A x \in part[i] : f[x] \in Int
  PROVE  /\ IsFiniteSet(UNION {part[i] : i \in I})
         /\ SumFunction([i \in I |-> SumFunctionOnSet(f, part[i])])
              = SumFunctionOnSet(f, UNION {part[i] : i \in I})
<1>. DEFINE h == [i \in I |-> SumFunctionOnSet(f, part[i])]
            all(J) == UNION {part[i] : i \in J}
            G == {J \in SUBSET I : IsFiniteSet(all(J))
                                   /\ SumFunctionOnSet(h, J) = SumFunctionOnSet(f, all(J))}
<1>0. \A i \in I : h[i] = SumFunctionOnSet(f, part[i]) /\ h[i] \in Int
  BY SumAdds
<1>. HIDE DEF h
<1>1. ASSUME NEW J \in SUBSET I, \A K \in SUBSET J : K # J => K \in G PROVE J \in G
  <2>1. IsFiniteSet(J) /\ \A i \in J : h[i] \in Int
    BY <1>0, FS_Subset
  <2>2. CASE J = {}
    <3>1. all(J) = {}
      BY <2>2
    <3>2. SumFunctionOnSet(h, J) = 0
      BY <2>1, <2>2, SumAdds
    <3>3. IsFiniteSet({}) /\ SumFunctionOnSet(f, {}) = 0
      <4>1. IsFiniteSet({}) /\ \A x \in {} : f[x] \in Int
        BY FS_EmptySet
      <4>. QED
        BY <4>1, SumAdds
    <3>. HIDE DEF all
    <3>. QED
      BY <3>1, <3>2, <3>3
  <2>3. CASE J # {}
    <3>1. PICK i \in J : TRUE
      BY <2>3
    <3>. DEFINE K == J \ {i}
    <3>2. K \in G
      BY <1>1, <3>1
    <3>3. all(J) = part[i] \cup all(K) /\ part[i] \cap all(K) = {}
      BY <3>1
    <3>4. \A x \in part[i] \cup all(K) : f[x] \in Int
      BY <3>1
    <3>5. SumFunctionOnSet(h, J) = h[i] + SumFunctionOnSet(h, K)
      BY <2>1, SumAdds
    <3>. HIDE DEF K, all
    <3>6. IsFiniteSet(part[i]) /\ IsFiniteSet(all(K))
      BY <3>2
    <3>7. /\ IsFiniteSet(all(J))
          /\ SumFunctionOnSet(f, all(J)) = SumFunctionOnSet(f, part[i]) + SumFunctionOnSet(f, all(K))
      <4>1. IsFiniteSet(part[i] \cup all(K))
        BY <3>6, FS_Union
      <4>2. SumFunctionOnSet(f, part[i] \cup all(K))
              = SumFunctionOnSet(f, part[i]) + SumFunctionOnSet(f, all(K))
        BY <3>3, <3>4, <3>6, SumOfTwo
      <4>. QED
        BY <3>3, <4>1, <4>2
    <3>. QED
      BY <1>0, <3>2, <3>5, <3>7
  <2>. QED
    BY <2>2, <2>3
<1>2. I \in G
  <2>. HIDE DEF G
  <2>1. SUBSET I \subseteq G
    BY <1>1, SubsetInduction
  <2>. QED
    BY <2>1
<1>3. DOMAIN h = I
  BY DEF h
<1>. QED
  BY <1>2, <1>3 DEF h, SumFunction

\* A sum may leave out what is 0.
LEMMA SumOfNonzero ==
  ASSUME NEW S, IsFiniteSet(S), NEW f, \A x \in S : f[x] \in Int
  PROVE  SumFunctionOnSet(f, {x \in S : f[x] # 0}) = SumFunctionOnSet(f, S)
<1>. DEFINE nonzero(s) == {x \in s : f[x] # 0}
            G == {s \in SUBSET S : SumFunctionOnSet(f, nonzero(s)) = SumFunctionOnSet(f, s)}
<1>1. ASSUME NEW s \in SUBSET S, \A t \in SUBSET s : t # s => t \in G PROVE s \in G
  <2>1. /\ IsFiniteSet(s) /\ IsFiniteSet(nonzero(s)) /\ nonzero(s) \subseteq s
        /\ (\A x \in s : f[x] \in Int) /\ \A x \in nonzero(s) : f[x] \in Int
    BY FS_Subset
  <2>2. CASE s = {}
    <3>1. nonzero(s) = s
      BY <2>2
    <3>. QED
      BY <3>1
  <2>3. CASE s # {}
    <3>1. PICK x \in s : TRUE
      BY <2>3
    <3>. DEFINE t == s \ {x}
    <3>2. t \in G
      BY <1>1, <3>1
    <3>3. SumFunctionOnSet(f, s) = f[x] + SumFunctionOnSet(f, t)
      BY <2>1, SumAdds
    <3>4. SumFunctionOnSet(f, t) \in Int
      <4>1. IsFiniteSet(t) /\ \A y \in t : f[y] \in Int
        BY <2>1, FS_Subset
      <4>. HIDE DEF t
      <4>. QED
        BY <4>1, SumAdds
    <3>5. CASE f[x] = 0
      <4>1. nonzero(t) = nonzero(s)
        BY <3>5
      <4>. HIDE DEF t, nonzero
      <4>. QED
        BY <3>2, <3>3, <3>4, <3>5, <4>1
    <3>6. CASE f[x] # 0
      <4>1. x \in nonzero(s) /\ nonzero(t) = nonzero(s) \ {x}
        BY <3>1, <3>6
      <4>. HIDE DEF t, nonzero
      <4>2. SumFunctionOnSet(f, nonzero(s)) = f[x] + SumFunctionOnSet(f, nonzero(s) \ {x})
        BY <2>1, <4>1, SumAdds
      <4>. QED
        BY <3>2, <3>3, <4>1, <4>2
    <3>. QED
      BY <3>5, <3>6
  <2>. QED
    BY <2>2, <2>3
<1>2. SUBSET S \subseteq G
  <2>. HIDE DEF G
  <2>. QED
    BY <1>1, SubsetInduction
<1>. QED
  BY <1>2

\* A sum over what a one-to-one function makes of a set.
LEMMA SumOfImages ==
  ASSUME NEW S, IsFiniteSet(S), NEW h, \A x, y \in S : h[x] = h[y] => x = y,
         NEW f, NEW g, \A x \in S : f[x] \in Int /\ g[h[x]] = f[x]
  PROVE  /\ IsFiniteSet({h[x] : x \in S})
         /\ SumFunctionOnSet(g, {h[x] : x \in S}) = SumFunctionOnSet(f, S)
<1>. DEFINE image(s) == {h[x] : x \in s}
            G == {s \in SUBSET S : /\ IsFiniteSet(image(s))
                                   /\ SumFunctionOnSet(g, image(s)) = SumFunctionOnSet(f, s)}
<1>1. ASSUME NEW s \in SUBSET S, \A t \in SUBSET s : t # s => t \in G PROVE s \in G
  <2>1. IsFiniteSet(s) /\ \A x \in s : f[x] \in Int
    BY FS_Subset
  <2>2. CASE s = {}
    <3>1. image(s) = {}
      BY <2>2
    <3>2. IsFiniteSet({}) /\ SumFunctionOnSet(f, {}) = 0 /\ SumFunctionOnSet(g, {}) = 0
      <4>1. IsFiniteSet({}) /\ (\A x \in {} : f[x] \in Int) /\ \A x \in {} : g[x] \in Int
        BY FS_EmptySet
      <4>. QED
        BY <4>1, SumAdds
    <3>. QED
      BY <2>2, <3>1, <3>2
  <2>3. CASE s # {}
    <3>1. PICK x \in s : TRUE
      BY <2>3
    <3>. DEFINE t == s \ {x}
    <3>2. t \in G
      BY <1>1, <3>1
    <3>3. SumFunctionOnSet(f, s) = f[x] + SumFunctionOnSet(f, t)
      BY <2>1, SumAdds
    <3>4. image(s) = image(t) \cup {h[x]} /\ image(t) = image(s) \ {h[x]} /\ h[x] \in image(s)
      BY <3>1
    <3>5. \A y \in image(s) : g[y] \in Int
      OBVIOUS
    <3>6. g[h[x]] = f[x]
      OBVIOUS
    <3>. HIDE DEF t, image
    <3>7. IsFiniteSet(image(s))
      BY <3>2, <3>4, FS_AddElement
    <3>8. SumFunctionOnSet(g, image(s)) = g[h[x]] + SumFunctionOnSet(g, image(s) \ {h[x]})
      BY <3>4, <3>5, <3>7, SumAdds
    <3>9. SumFunctionOnSet(g, image(t)) = SumFunctionOnSet(f, t)
      BY <3>2
    <3>10. SumFunctionOnSet(g, image(s)) = SumFunctionOnSet(f, s)
      BY <3>3, <3>4, <3>6, <3>8, <3>9
    <3>. QED
      BY <3>7, <3>10
  <2>. QED
    BY <2>2, <2>3
<1>2. SUBSET S \subseteq G
  <2>. HIDE DEF G
  <2>. QED
    BY <1>1, SubsetInduction
<1>. QED
  BY <1>2

\* To count is to add up ones.
LEMMA CountIsSum ==
  ASSUME NEW S, IsFiniteSet(S), NEW f, \A x \in S : f[x] = 1
  PROVE  SumFunctionOnSet(f, S) = Cardinality(S)
<1>. DEFINE G == {s \in SUBSET S : SumFunctionOnSet(f, s) = Cardinality(s)}
<1>1. ASSUME NEW s \in SUBSET S, \A t \in SUBSET s : t # s => t \in G PROVE s \in G
  <2>1. IsFiniteSet(s) /\ \A x \in s : f[x] \in Int /\ f[x] = 1
    BY FS_Subset
  <2>2. CASE s = {}
    BY <2>1, <2>2, SumAdds, FS_EmptySet
  <2>3. CASE s # {}
    <3>1. PICK x \in s : TRUE
      BY <2>3
    <3>. DEFINE t == s \ {x}
    <3>2. t \in G
      BY <1>1, <3>1
    <3>3. SumFunctionOnSet(f, s) = f[x] + SumFunctionOnSet(f, t)
      BY <2>1, SumAdds
    <3>4. Cardinality(t) = Cardinality(s) - 1 /\ Cardinality(s) \in Nat
      BY <2>1, FS_RemoveElement, FS_CardinalityType
    <3>. HIDE DEF t
    <3>. QED
      BY <2>1, <3>2, <3>3, <3>4
  <2>. QED
    BY <2>2, <2>3
<1>2. SUBSET S \subseteq G
  <2>. HIDE DEF G
  <2>. QED
    BY <1>1, SubsetInduction
<1>. QED
  BY <1>2

\* The parts are counted one by one.
LEMMA CountOfParts ==
  ASSUME NEW I, IsFiniteSet(I), NEW part, \A i \in I : IsFiniteSet(part[i]),
         \A i, j \in I : i # j => part[i] \cap part[j] = {}
  PROVE  /\ IsFiniteSet(UNION {part[i] : i \in I})
         /\ SumFunction([i \in I |-> Cardinality(part[i])])
              = Cardinality(UNION {part[i] : i \in I})
<1>. DEFINE all == UNION {part[i] : i \in I}
            one == [x \in all |-> 1]
<1>1. /\ \A i \in I : \A x \in part[i] : one[x] \in Int /\ one[x] = 1
      /\ \A x \in all : one[x] = 1
  OBVIOUS
<1>. HIDE DEF one
<1>2. /\ IsFiniteSet(all)
      /\ SumFunction([i \in I |-> SumFunctionOnSet(one, part[i])]) = SumFunctionOnSet(one, all)
  <2>1. \A i \in I : \A x \in part[i] : one[x] \in Int
    BY <1>1
  <2>. QED
    BY <2>1, SumOfParts
<1>3. SumFunctionOnSet(one, all) = Cardinality(all)
  <2>. HIDE DEF all
  <2>. QED
    BY <1>1, <1>2, CountIsSum
<1>4. \A i \in I : SumFunctionOnSet(one, part[i]) = Cardinality(part[i])
  BY <1>1, CountIsSum
<1>5. [i \in I |-> SumFunctionOnSet(one, part[i])] = [i \in I |-> Cardinality(part[i])]
  BY <1>4
<1>. QED
  BY <1>2, <1>3, <1>5

\* What a function makes of a finite set is finite, and as many if it is
\* one-to-one.
LEMMA ImageIsFinite ==
  ASSUME NEW S, IsFiniteSet(S), NEW h
  PROVE  IsFiniteSet({h[x] : x \in S})
<1>. DEFINE image == {h[x] : x \in S}
            onto == [x \in S |-> h[x]]
<1>1. onto \in Surjection(S, image)
  BY DEF Surjection
<1>. HIDE DEF image, onto
<1>2. IsFiniteSet(image)
  BY <1>1, FS_Surjection
<1>. QED
  BY <1>2 DEF image

LEMMA CountOfImages ==
  ASSUME NEW S, IsFiniteSet(S), NEW h, \A x, y \in S : h[x] = h[y] => x = y
  PROVE  IsFiniteSet({h[x] : x \in S}) /\ Cardinality({h[x] : x \in S}) = Cardinality(S)
<1>. DEFINE image == {h[x] : x \in S}
            f == [x \in S |-> 1]
            g == [y \in image |-> 1]
<1>1. (\A x \in S : f[x] \in Int /\ g[h[x]] = f[x]) /\ (\A x \in S : f[x] = 1) /\ \A y \in image : g[y] = 1
  OBVIOUS
<1>. HIDE DEF f, g
<1>2. IsFiniteSet(image) /\ SumFunctionOnSet(g, image) = SumFunctionOnSet(f, S)
  BY <1>1, SumOfImages
<1>. HIDE DEF image
<1>3. SumFunctionOnSet(g, image) = Cardinality(image) /\ SumFunctionOnSet(f, S) = Cardinality(S)
  BY <1>1, <1>2, CountIsSum
<1>4. IsFiniteSet(image) /\ Cardinality(image) = Cardinality(S)
  BY <1>2, <1>3
<1>. QED
  BY <1>4 DEF image

\* The sum of a function made for the set.
LEMMA SumOfMade ==
  ASSUME NEW S, IsFiniteSet(S), NEW f, \A x \in S : f[x] \in Int
  PROVE  SumFunction([x \in S |-> f[x]]) = SumFunctionOnSet(f, S)
<1>. DEFINE g == [x \in S |-> f[x]]
<1>1. DOMAIN g = S /\ \A x \in S : f[x] \in Int /\ f[x] = g[x]
  OBVIOUS
<1>. HIDE DEF g
<1>2. SumFunctionOnSet(f, S) = SumFunctionOnSet(g, S)
  BY <1>1, SumOfSame
<1>3. SumFunction(g) = SumFunctionOnSet(f, S)
  BY <1>1, <1>2 DEF SumFunction
<1>. QED
  BY <1>3 DEF g
=============================================================================
