------------------------------ MODULE Inductions ------------------------------
(***************************************************************************)
(* Induction and recursion without operator parameters: a set that holds 0 *)
(* and the successor of each of its numbers holds every number, whence a   *)
(* recursive definition, over numbers or over the subsets of a finite set, *)
(* has a solution.  The proofs about walks, sums and folds rest on these.  *)
(***************************************************************************)
EXTENDS Integers, FiniteSetTheorems, TLAPS

\* By the pigeonhole principle: if n were missing, the successor would map the
\* numbers of S up to n, one to one, into those without 0.
LEMMA NaturalsFrom ==
  ASSUME NEW S, 0 \in S, \A n \in Nat : n \in S => n + 1 \in S
  PROVE  Nat \subseteq S
<1> SUFFICES ASSUME NEW n \in Nat, n \notin S PROVE FALSE
  OBVIOUS
<1> DEFINE A == {k \in 0 .. n : k \in S}
           B == A \ {0}
           f == [k \in A |-> k + 1]
<1>1. IsFiniteSet(0 .. n)
  BY FS_Interval
<1>2. IsFiniteSet(A) /\ Cardinality(A) \in Nat
  BY <1>1, FS_Subset, FS_CardinalityType
<1>3. f \in [A -> B] /\ \A x, y \in A : f[x] = f[y] => x = y
  OBVIOUS
<1>4. 0 \in A
  OBVIOUS
<1>5. IsFiniteSet(B) /\ Cardinality(B) = Cardinality(A) - 1
  <2> HIDE DEF A
  <2> QED BY <1>2, <1>4, FS_RemoveElement
<1>6. Cardinality(B) < Cardinality(A)
  <2> HIDE DEF A, B
  <2> QED BY <1>2, <1>5
<1> HIDE DEF A, B, f
<1>7. \E x, y \in A : x # y /\ f[x] = f[y]
  BY <1>2, <1>3, <1>5, <1>6, FS_PigeonHole
<1> QED
  BY <1>3, <1>7

\* A set of numbers up to n has a least and a greatest one.
LEMMA Extremes ==
  ASSUME NEW n \in Nat, NEW s \in SUBSET (1 .. n), s # {}
  PROVE  (\E x \in s : \A y \in s : x >= y) /\ (\E x \in s : \A y \in s : x =< y)
<1> DEFINE Greatest(t) == \E x \in t : \A y \in t : x >= y
           Least(t) == \E x \in t : \A y \in t : x =< y
           A == {m \in Nat : \A t \in SUBSET (1 .. m) : t # {} => Greatest(t) /\ Least(t)}
<1>1. 0 \in A
  <2>1. \A t \in SUBSET (1 .. 0) : t = {}
    OBVIOUS
  <2> QED
    BY <2>1
<1>2. ASSUME NEW m \in Nat, m \in A PROVE m + 1 \in A
  <2>1. ASSUME NEW t \in SUBSET (1 .. m + 1), t # {} PROVE Greatest(t) /\ Least(t)
    <3> DEFINE u == t \ {m + 1}
    <3>1. u \in SUBSET (1 .. m)
      OBVIOUS
    <3>2. u # {} => Greatest(u) /\ Least(u)
      BY <1>2, <3>1
    <3>3. CASE m + 1 \notin t
      <4>1. t = u
        BY <3>3
      <4> QED
        BY <2>1, <3>2, <4>1
    <3>4. CASE m + 1 \in t /\ u # {}
      BY <3>2, <3>4
    <3>5. CASE m + 1 \in t /\ u = {}
      <4>1. t = {m + 1}
        BY <3>5
      <4> QED
        BY <4>1
    <3> QED
      BY <3>3, <3>4, <3>5
  <2> HIDE DEF Greatest, Least
  <2> QED
    BY <2>1
<1>3. Nat \subseteq A
  <2> HIDE DEF A
  <2> QED BY <1>1, <1>2, NaturalsFrom
<1> QED
  BY <1>3

\* A start and a step define a function on the numbers.
LEMMA NatRecursion ==
  ASSUME NEW D, NEW d0 \in D, NEW F \in [Nat -> [D -> D]]
  PROVE  \E g \in [Nat -> D] : g[0] = d0 /\ \A n \in Nat : g[n + 1] = F[n][g[n]]
<1> DEFINE Upto(n) == {g \in [0 .. n -> D] : g[0] = d0 /\ \A k \in 0 .. n - 1 : g[k + 1] = F[k][g[k]]}
           Defined == {n \in Nat : Upto(n) # {}}
           Agreed == {k \in Nat : \A m, n \in Nat : \A g \in Upto(m), h \in Upto(n) :
                                      k <= m /\ k <= n => g[k] = h[k]}
           f == [n \in Nat |-> (CHOOSE g : g \in Upto(n))[n]]
<1>a. \A n \in Nat : \A g : g \in Upto(n) <=> /\ g \in [0 .. n -> D] /\ g[0] = d0
                                              /\ \A k \in 0 .. n - 1 : g[k + 1] = F[k][g[k]]
  OBVIOUS
<1> HIDE DEF Upto
<1>1. Nat \subseteq Defined
  <2>1. 0 \in Defined
    <3> DEFINE g == [k \in 0 .. 0 |-> d0]
    <3>1. g \in [0 .. 0 -> D] /\ g[0] = d0 /\ \A k \in 0 .. 0 - 1 : g[k + 1] = F[k][g[k]]
      OBVIOUS
    <3>2. g \in Upto(0)
      BY <1>a, <3>1
    <3> QED
      BY <3>2
  <2>2. ASSUME NEW n \in Nat, n \in Defined PROVE n + 1 \in Defined
    <3>1. PICK g : g \in Upto(n)
      BY <2>2
    <3>2. g \in [0 .. n -> D] /\ g[0] = d0 /\ \A k \in 0 .. n - 1 : g[k + 1] = F[k][g[k]]
      BY <1>a, <3>1
    <3> DEFINE h == [k \in 0 .. n + 1 |-> IF k <= n THEN g[k] ELSE F[n][g[n]]]
    <3>3. h \in [0 .. n + 1 -> D] /\ h[0] = d0
      BY <3>2
    <3>4. ASSUME NEW k \in 0 .. (n + 1) - 1 PROVE h[k + 1] = F[k][h[k]]
      <4>1. CASE k = n
        BY <4>1
      <4>2. CASE k < n
        BY <3>2, <4>2
      <4> QED
        BY <4>1, <4>2
    <3> HIDE DEF h
    <3>5. h \in Upto(n + 1)
      BY <1>a, <3>3, <3>4
    <3> QED
      BY <3>5
  <2> HIDE DEF Defined
  <2> QED
    BY <2>1, <2>2, NaturalsFrom
<1>2. Nat \subseteq Agreed
  <2>1. 0 \in Agreed
    <3>1. \A n \in Nat : \A g \in Upto(n) : g[0] = d0
      BY <1>a
    <3> QED
      BY <3>1
  <2>2. ASSUME NEW k \in Nat, k \in Agreed PROVE k + 1 \in Agreed
    <3>1. ASSUME NEW m \in Nat, NEW n \in Nat, NEW g \in Upto(m), NEW h \in Upto(n),
                        k + 1 <= m, k + 1 <= n
          PROVE  g[k + 1] = h[k + 1]
      <4>1. k <= m /\ k <= n
        BY <3>1
      <4>2. g[k] = h[k]
        BY <2>2, <4>1
      <4>3. k \in 0 .. m - 1 /\ k \in 0 .. n - 1
        BY <3>1
      <4>4. g[k + 1] = F[k][g[k]] /\ h[k + 1] = F[k][h[k]]
        BY <1>a, <4>3
      <4> QED
        BY <4>2, <4>4
    <3> QED
      BY <3>1
  <2> HIDE DEF Agreed
  <2> QED
    BY <2>1, <2>2, NaturalsFrom
<1>3. \A n \in Nat : (CHOOSE g : g \in Upto(n)) \in Upto(n)
  BY <1>1
<1>4. ASSUME NEW n \in Nat, NEW g \in Upto(n) PROVE \A k \in 0 .. n : f[k] = g[k] /\ g[k] \in D
  <2> SUFFICES ASSUME NEW k \in 0 .. n PROVE f[k] = g[k] /\ g[k] \in D
    OBVIOUS
  <2>1. k \in Agreed /\ k \in Nat /\ k <= n
    BY <1>2
  <2>2. f[k] = (CHOOSE h : h \in Upto(k))[k]
    BY <2>1
  <2>3. \A h \in Upto(k) : h[k] = g[k]
    BY <2>1
  <2> QED
    <3>1. (CHOOSE h : h \in Upto(k)) \in Upto(k)
      BY <1>3, <2>1
    <3> QED
      BY <1>a, <2>2, <2>3, <3>1
<1>5. f[0] = d0
  <2>1. PICK g : g \in Upto(0)
    BY <1>1
  <2> QED
    BY <1>a, <1>4, <2>1
<1>6. ASSUME NEW n \in Nat PROVE f[n] \in D /\ f[n + 1] = F[n][f[n]]
  <2>1. PICK g : g \in Upto(n + 1)
    BY <1>1
  <2>2. g[n + 1] = F[n][g[n]]
    <3>1. n + 1 \in Nat /\ n \in 0 .. (n + 1) - 1
      OBVIOUS
    <3> QED
      BY <1>a, <2>1, <3>1
  <2>3. n \in 0 .. n + 1 /\ n + 1 \in 0 .. n + 1
    OBVIOUS
  <2>4. f[n] = g[n] /\ f[n + 1] = g[n + 1] /\ g[n] \in D
    <3> HIDE DEF f, Upto
    <3> QED BY <1>4, <2>1, <2>3
  <2> QED
    <3> HIDE DEF f, Upto
    <3> QED BY <2>2, <2>4
<1>7. f \in [Nat -> D]
  <2>1. \A n \in Nat : f[n] \in D
    BY <1>6
  <2> QED
    BY <2>1
<1> HIDE DEF f
<1> QED
  BY <1>5, <1>6, <1>7

\* The same, to cite for a given D.
Recursive(D) ==
    \A d \in D : \A G \in [Nat -> [D -> D]] :
        \E g \in [Nat -> D] : g[0] = d /\ \A n \in Nat : g[n + 1] = G[n][g[n]]

LEMMA RecursiveAll == \A D : Recursive(D)
<1>1. \A D : \A d \in D : \A G \in [Nat -> [D -> D]] :
          \E g \in [Nat -> D] : g[0] = d /\ \A n \in Nat : g[n + 1] = G[n][g[n]]
  BY NatRecursion
<1> QED
  BY <1>1 DEF Recursive

\* A value for the empty set, and one for each other set from that of the set
\* less its chosen element, define a function on the subsets of a finite set.
Recurs(it, S, d0, pick, F) ==
    /\ it[{}] = d0
    /\ \A s \in SUBSET S : s # {} => it[s] = F[pick[s]][it[s \ {pick[s]}]]

LEMMA SetRecursion ==
  ASSUME NEW S, IsFiniteSet(S), NEW D, NEW d0 \in D, NEW pick, NEW F \in [S -> [D -> D]],
         \A s \in SUBSET S : s # {} => pick[s] \in s
  PROVE  \E it \in [SUBSET S -> D] : Recurs(it, S, d0, pick, F)
<1> DEFINE Step(G) == [s \in SUBSET S |-> IF s = {} THEN d0 ELSE F[pick[s]][G[s \ {pick[s]}]]]
           Fs == [n \in Nat |-> [G \in [SUBSET S -> D] |-> Step(G)]]
           G0 == [s \in SUBSET S |-> d0]
<1>1. Fs \in [Nat -> [[SUBSET S -> D] -> [SUBSET S -> D]]]
  <2>1. ASSUME NEW G \in [SUBSET S -> D] PROVE Step(G) \in [SUBSET S -> D]
    <3>1. ASSUME NEW s \in SUBSET S, s # {} PROVE F[pick[s]][G[s \ {pick[s]}]] \in D
      <4>1. pick[s] \in S /\ s \ {pick[s]} \in SUBSET S
        BY <3>1
      <4> QED
        BY <4>1
    <3> QED
      BY <3>1
  <2> HIDE DEF Step
  <2> QED
    BY <2>1
<1>2. PICK g \in [Nat -> [SUBSET S -> D]] : g[0] = G0 /\ \A n \in Nat : g[n + 1] = Fs[n][g[n]]
  <2> DEFINE E == [SUBSET S -> D]
  <2>1. G0 \in E
    OBVIOUS
  <2>3. Fs \in [Nat -> [E -> E]]
    BY <1>1
  <2> HIDE DEF Fs, G0, E
  <2>2. \E g \in [Nat -> E] : g[0] = G0 /\ \A n \in Nat : g[n + 1] = Fs[n][g[n]]
    <3>1. \A e \in E : \A H \in [Nat -> [E -> E]] :
              \E g \in [Nat -> E] : g[0] = e /\ \A n \in Nat : g[n + 1] = H[n][g[n]]
      BY NatRecursion, SMTT(30)
    <3> QED
      BY <2>1, <2>3, <3>1
  <2> QED
    BY <2>2 DEF E
<1> DEFINE it == [s \in SUBSET S |-> g[Cardinality(s)][s]]
<1>3. \A s \in SUBSET S : IsFiniteSet(s) /\ Cardinality(s) \in Nat
  BY FS_Subset, FS_CardinalityType
<1>4. it \in [SUBSET S -> D]
  BY <1>2, <1>3
<1>5. it[{}] = d0
  BY <1>2, FS_EmptySet
<1>6. ASSUME NEW s \in SUBSET S, s # {} PROVE it[s] = F[pick[s]][it[s \ {pick[s]}]]
  <2> DEFINE n == Cardinality(s \ {pick[s]})
  <2>1. /\ s \ {pick[s]} \in SUBSET S
        /\ n \in Nat /\ Cardinality(s) = n + 1
    <3>1. s \ {pick[s]} \in SUBSET S /\ pick[s] \in s
      BY <1>6
    <3>2. Cardinality(s \ {pick[s]}) = Cardinality(s) - 1
      BY <1>3, <3>1, FS_RemoveElement
    <3> QED
      BY <1>3, <3>1, <3>2
  <2> HIDE DEF n
  <2>2. g[n + 1] = Step(g[n])
    BY <1>2, <2>1
  <2>3. it[s] = g[n + 1][s] /\ it[s \ {pick[s]}] = g[n][s \ {pick[s]}]
    BY <2>1 DEF n
  <2> QED
    BY <1>6, <2>2, <2>3
<1> HIDE DEF it
<1> QED
  BY <1>4, <1>5, <1>6 DEF Recurs

-----------------------------------------------------------------------------
(* Sums.  A sum over a finite set does not depend on the order of the adding. *)

\* it sums f over the subsets of S, one element after the other.
IsSum(it, f, S) ==
    /\ IsFiniteSet(S) /\ \A x \in S : f[x] \in Nat
    /\ it \in [SUBSET S -> Nat]
    /\ it[{}] = 0
    /\ \A s \in SUBSET S : s # {} => \E x \in s : it[s] = f[x] + it[s \ {x}]

AnyOrder(it, f, S) == \A s \in SUBSET S : \A x \in s : it[s] = f[x] + it[s \ {x}]

Total(f, S) == (CHOOSE it : IsSum(it, f, S))[S]

LEMMA SubsetSizes ==
  ASSUME NEW S, IsFiniteSet(S)
  PROVE  \A s \in SUBSET S :
             /\ IsFiniteSet(s) /\ Cardinality(s) \in Nat
             /\ Cardinality(s) = 0 <=> s = {}
             /\ \A x \in s : s \ {x} \in SUBSET S /\ Cardinality(s \ {x}) = Cardinality(s) - 1
<1> SUFFICES ASSUME NEW s \in SUBSET S
             PROVE  /\ IsFiniteSet(s) /\ Cardinality(s) \in Nat
                    /\ Cardinality(s) = 0 <=> s = {}
                    /\ \A x \in s : s \ {x} \in SUBSET S /\ Cardinality(s \ {x}) = Cardinality(s) - 1
  OBVIOUS
<1>1. IsFiniteSet(s)
  BY FS_Subset
<1>2. Cardinality(s) \in Nat
  BY <1>1, FS_CardinalityType
<1>3. Cardinality(s) = 0 <=> s = {}
  BY <1>1, FS_EmptySet
<1>4. ASSUME NEW x \in s PROVE s \ {x} \in SUBSET S /\ Cardinality(s \ {x}) = Cardinality(s) - 1
  BY <1>1, FS_RemoveElement
<1> QED
  BY <1>1, <1>2, <1>3, <1>4

LEMMA SumAnyOrder ==
  ASSUME NEW S, NEW f, NEW it, IsSum(it, f, S)
  PROVE  AnyOrder(it, f, S)
<1> DEFINE Free(s) == \A x \in s : it[s] = f[x] + it[s \ {x}]
           A == {n \in Nat : \A s \in SUBSET S : Cardinality(s) = n => Free(s)}
<1>0. /\ IsFiniteSet(S) /\ \A x \in S : f[x] \in Nat
      /\ \A s \in SUBSET S : it[s] \in Nat
      /\ \A s \in SUBSET S : s # {} => \E x \in s : it[s] = f[x] + it[s \ {x}]
  BY DEF IsSum
<1>1. 0 \in A
  <2>1. \A s \in SUBSET S : Cardinality(s) = 0 => Free(s)
    BY <1>0, SubsetSizes
  <2> QED
    BY <2>1
<1>2. ASSUME NEW n \in Nat, n \in A PROVE n + 1 \in A
  <2>1. ASSUME NEW s \in SUBSET S, Cardinality(s) = n + 1, NEW x \in s
        PROVE  it[s] = f[x] + it[s \ {x}]
    <3>1. s # {}
      BY <2>1
    <3>2. PICK c \in s : it[s] = f[c] + it[s \ {c}]
      BY <1>0, <3>1
    <3>3. CASE c = x
      BY <3>2, <3>3
    <3>4. CASE c # x
      <4>1. /\ s \ {c} \in SUBSET S /\ Cardinality(s \ {c}) = n
            /\ s \ {x} \in SUBSET S /\ Cardinality(s \ {x}) = n
        BY <1>0, <2>1, SubsetSizes
      <4>2. Free(s \ {c}) /\ Free(s \ {x})
        BY <1>2, <4>1
      <4> DEFINE rest == s \ {c, x}
      <4>3. (s \ {c}) \ {x} = rest /\ (s \ {x}) \ {c} = rest /\ rest \in SUBSET S
        OBVIOUS
      <4>4. x \in s \ {c} /\ c \in s \ {x}
        BY <3>4
      <4>5. it[s \ {c}] = f[x] + it[rest] /\ it[s \ {x}] = f[c] + it[rest]
        BY <4>2, <4>3, <4>4
      <4>6. f[c] \in Nat /\ f[x] \in Nat /\ it[rest] \in Nat
        BY <1>0, <4>3
      <4> HIDE DEF rest, Free
      <4> QED
        BY <3>2, <4>5, <4>6
    <3> QED
      BY <3>3, <3>4
  <2> QED
    BY <2>1
<1>3. Nat \subseteq A
  <2> HIDE DEF A
  <2> QED
    BY <1>1, <1>2, NaturalsFrom
<1>4. ASSUME NEW s \in SUBSET S PROVE Free(s)
  <2>1. Cardinality(s) \in A
    BY <1>0, <1>3, SubsetSizes
  <2> QED
    BY <2>1
<1> QED
  BY <1>4 DEF AnyOrder

\* Two sums agree where what they sum does.
LEMMA SumUnique ==
  ASSUME NEW S, NEW f, NEW it, IsSum(it, f, S), NEW T, NEW g, NEW jt, IsSum(jt, g, T),
         S \subseteq T, \A x \in S : f[x] = g[x]
  PROVE  \A s \in SUBSET S : it[s] = jt[s]
<1> DEFINE A == {n \in Nat : \A s \in SUBSET S : Cardinality(s) = n => it[s] = jt[s]}
<1>0. /\ IsFiniteSet(S)
      /\ \A s \in SUBSET S : \A x \in s : it[s] = f[x] + it[s \ {x}]
      /\ \A s \in SUBSET T : \A x \in s : jt[s] = g[x] + jt[s \ {x}]
      /\ it[{}] = 0 /\ jt[{}] = 0
  <2>1. AnyOrder(it, f, S) /\ AnyOrder(jt, g, T)
    BY SumAnyOrder
  <2> QED
    BY <2>1 DEF IsSum, AnyOrder
<1>1. 0 \in A
  <2>1. \A s \in SUBSET S : Cardinality(s) = 0 => s = {}
    BY <1>0, SubsetSizes
  <2> QED
    BY <1>0, <2>1
<1>2. ASSUME NEW n \in Nat, n \in A PROVE n + 1 \in A
  <2>1. ASSUME NEW s \in SUBSET S, Cardinality(s) = n + 1 PROVE it[s] = jt[s]
    <3>1. s # {}
      BY <1>0, <2>1, SubsetSizes
    <3>2. PICK x \in s : TRUE
      BY <3>1
    <3>3. s \ {x} \in SUBSET S /\ Cardinality(s \ {x}) = n
      BY <1>0, <2>1, SubsetSizes
    <3>4. it[s \ {x}] = jt[s \ {x}]
      BY <1>2, <3>3
    <3>5. s \in SUBSET T /\ x \in S
      OBVIOUS
    <3> QED
      BY <1>0, <3>4, <3>5
  <2> QED
    BY <2>1
<1>3. Nat \subseteq A
  <2> HIDE DEF A
  <2> QED
    BY <1>1, <1>2, NaturalsFrom
<1> QED
  BY <1>0, <1>3, SubsetSizes

LEMMA SumExists ==
  ASSUME NEW S, IsFiniteSet(S), NEW f, \A x \in S : f[x] \in Nat
  PROVE  \E it : IsSum(it, f, S)
<1> DEFINE pick == [s \in SUBSET S |-> CHOOSE x \in s : TRUE]
           F == [x \in S |-> [n \in Nat |-> f[x] + n]]
<1>1. F \in [S -> [Nat -> Nat]] /\ 0 \in Nat
  OBVIOUS
<1>2. \A s \in SUBSET S : s # {} => pick[s] \in s
  OBVIOUS
<1>3. PICK it \in [SUBSET S -> Nat] : Recurs(it, S, 0, pick, F)
  <2>1. \A D : \A d \in D : \A p : \A G \in [S -> [D -> D]] :
          (\A s \in SUBSET S : s # {} => p[s] \in s) =>
              \E it \in [SUBSET S -> D] : Recurs(it, S, d, p, G)
    BY SetRecursion
  <2> HIDE DEF pick, F
  <2> QED
    BY <1>1, <1>2, <2>1
<1>5. ASSUME NEW s \in SUBSET S, s # {} PROVE \E x \in s : it[s] = f[x] + it[s \ {x}]
  <2>1. pick[s] \in s /\ s \ {pick[s]} \in SUBSET S
    BY <1>2, <1>5
  <2>2. it[s] = F[pick[s]][it[s \ {pick[s]}]]
    <3> HIDE DEF F, pick
    <3> QED BY <1>3, <1>5 DEF Recurs
  <2>3. it[s \ {pick[s]}] \in Nat /\ pick[s] \in S
    BY <1>3, <2>1
  <2>4. it[s] = f[pick[s]] + it[s \ {pick[s]}]
    <3> HIDE DEF pick
    <3> QED BY <2>2, <2>3
  <2> QED
    <3> HIDE DEF pick
    <3> QED BY <2>1, <2>4
<1>6. IsSum(it, f, S)
  <2> HIDE DEF pick, F
  <2> QED
    BY <1>3, <1>5 DEF IsSum, Recurs
<1> QED
  BY <1>6

SumsUp(it, f, S) ==
    /\ it = [s \in SUBSET S |-> it[s]]
    /\ it[{}] = 0
    /\ \A s \in SUBSET S : s # {} => \E x \in s : it[s] = f[x] + it[s \ {x}]

\* Adding numbers one after the other can only give numbers.
LEMMA SumByDefinition ==
  ASSUME NEW S, IsFiniteSet(S), NEW f, \A x \in S : f[x] \in Nat,
         NEW it, SumsUp(it, f, S)
  PROVE  IsSum(it, f, S)
<1> DEFINE A == {n \in Nat : \A s \in SUBSET S : Cardinality(s) = n => it[s] \in Nat}
<1>0. it[{}] = 0 /\ \A s \in SUBSET S : s # {} => \E x \in s : it[s] = f[x] + it[s \ {x}]
  BY DEF SumsUp
<1>1. 0 \in A
  <2>1. \A s \in SUBSET S : Cardinality(s) = 0 => s = {}
    BY SubsetSizes
  <2>2. it[{}] \in Nat
    BY <1>0
  <2>3. \A s \in SUBSET S : Cardinality(s) = 0 => it[s] \in Nat
    BY <2>1, <2>2
  <2> QED
    BY <2>3
<1>2. ASSUME NEW n \in Nat, n \in A PROVE n + 1 \in A
  <2>1. ASSUME NEW s \in SUBSET S, Cardinality(s) = n + 1 PROVE it[s] \in Nat
    <3>1. s # {}
      BY <2>1, SubsetSizes
    <3>2. PICK x \in s : it[s] = f[x] + it[s \ {x}]
      BY <1>0, <3>1
    <3>3. s \ {x} \in SUBSET S /\ Cardinality(s \ {x}) = n
      BY <2>1, SubsetSizes
    <3>4. it[s \ {x}] \in Nat /\ f[x] \in Nat
      BY <1>2, <3>3
    <3> QED
      BY <3>2, <3>4
  <2> QED
    BY <2>1
<1>3. Nat \subseteq A
  <2> HIDE DEF A
  <2> QED
    BY <1>1, <1>2, NaturalsFrom
<1>4. \A s \in SUBSET S : it[s] \in Nat
  BY <1>3, SubsetSizes
<1> QED
  BY <1>4 DEF IsSum, SumsUp

\* A sum over S, wherever it comes from, is the total.
LEMMA SumIsTotal ==
  ASSUME NEW S, IsFiniteSet(S), NEW f, \A x \in S : f[x] \in Nat
  PROVE  Total(f, S) \in Nat /\ \A it : IsSum(it, f, S) => it[S] = Total(f, S)
<1> DEFINE jt == CHOOSE it : IsSum(it, f, S)
<1>1. IsSum(jt, f, S)
  BY SumExists
<1>2. Total(f, S) = jt[S]
  BY DEF Total
<1>3. ASSUME NEW it, IsSum(it, f, S) PROVE it[S] = jt[S]
  <2> HIDE DEF jt
  <2> QED
    BY <1>1, <1>3, SumUnique
<1>4. jt[S] \in Nat
  <2> HIDE DEF jt
  <2> QED
    BY <1>1 DEF IsSum
<1> QED
  BY <1>2, <1>3, <1>4

LEMMA TotalEmpty == \A f : Total(f, {}) = 0
<1> SUFFICES ASSUME NEW f PROVE Total(f, {}) = 0
  OBVIOUS
<1>1. PICK it : IsSum(it, f, {})
  BY SumExists, FS_EmptySet
<1> QED
  BY <1>1, SumIsTotal, FS_EmptySet DEF IsSum

\* The total of one more element.
LEMMA TotalAdd ==
  ASSUME NEW S, IsFiniteSet(S), NEW x, x \notin S, NEW f, \A y \in S \cup {x} : f[y] \in Nat
  PROVE  Total(f, S \cup {x}) = f[x] + Total(f, S)
<1> DEFINE T == S \cup {x}
<1>1. IsFiniteSet(T)
  BY FS_AddElement
<1>2. PICK it : IsSum(it, f, S)
  BY SumExists
<1>3. PICK jt : IsSum(jt, f, T)
  BY <1>1, SumExists
<1>4. jt[T] = f[x] + jt[T \ {x}]
  <2>1. AnyOrder(jt, f, T)
    BY <1>3, SumAnyOrder
  <2> QED
    BY <2>1 DEF AnyOrder
<1>5. T \ {x} = S /\ S \subseteq T
  OBVIOUS
<1>6. it[S] = jt[S]
  <2> HIDE DEF T
  <2>1. \A y \in T : f[y] \in Nat
    BY DEF T
  <2>2. \A s \in SUBSET S : it[s] = jt[s]
    BY <1>1, <1>2, <1>3, <1>5, <2>1, SumUnique
  <2> QED
    BY <2>2
<1>7. it[S] = Total(f, S) /\ jt[T] = Total(f, T)
  BY <1>1, <1>2, <1>3, SumIsTotal
<1> QED
  BY <1>4, <1>5, <1>6, <1>7

\* Only the values on S count.
LEMMA TotalSame ==
  ASSUME NEW S, IsFiniteSet(S), NEW f, NEW g, \A x \in S : f[x] \in Nat /\ g[x] = f[x]
  PROVE  Total(g, S) = Total(f, S)
<1>1. \A it : IsSum(it, f, S) <=> IsSum(it, g, S)
  BY DEF IsSum
<1>2. PICK it : IsSum(it, f, S)
  BY SumExists
<1>3. it[S] = Total(f, S)
  BY <1>2, SumIsTotal
<1>4. it[S] = Total(g, S)
  BY <1>1, <1>2, SumIsTotal
<1> QED
  BY <1>3, <1>4

\* The total of two sets without a common element, and that of nothing but zeros.
LEMMA TotalUnion ==
  ASSUME NEW S, IsFiniteSet(S), NEW T, IsFiniteSet(T), S \cap T = {},
         NEW f, \A x \in S \cup T : f[x] \in Nat
  PROVE  Total(f, S \cup T) = Total(f, S) + Total(f, T)
<1> DEFINE Splits(t) == Total(f, S \cup t) = Total(f, S) + Total(f, t)
           A == {n \in Nat : \A t \in SUBSET T : Cardinality(t) = n => Splits(t)}
<1>0. Total(f, S) \in Nat /\ \A t \in SUBSET T : Total(f, t) \in Nat
  <2>1. ASSUME NEW t \in SUBSET T PROVE Total(f, t) \in Nat
    BY FS_Subset, SumIsTotal
  <2> QED
    BY <2>1, SumIsTotal
<1>1. 0 \in A
  <2>1. S \cup {} = S
    OBVIOUS
  <2>2. Splits({})
    BY <1>0, <2>1, TotalEmpty
  <2>3. \A t \in SUBSET T : Cardinality(t) = 0 => t = {}
    BY SubsetSizes
  <2> HIDE DEF Splits
  <2> QED
    BY <2>2, <2>3
<1>2. ASSUME NEW n \in Nat, n \in A PROVE n + 1 \in A
  <2>1. ASSUME NEW t \in SUBSET T, Cardinality(t) = n + 1 PROVE Splits(t)
    <3>1. t # {}
      BY <2>1, SubsetSizes
    <3>2. PICK x \in t : TRUE
      BY <3>1
    <3> DEFINE u == t \ {x}
    <3>3. u \in SUBSET T /\ Cardinality(u) = n /\ x \notin u /\ u \cup {x} = t
      BY <2>1, SubsetSizes
    <3> HIDE DEF u
    <3>4. Splits(u)
      BY <1>2, <3>3
    <3>5. IsFiniteSet(u) /\ IsFiniteSet(S \cup u)
      BY <3>3, SubsetSizes, FS_Union
    <3>6. Total(f, t) = f[x] + Total(f, u)
      BY <3>3, <3>5, TotalAdd
    <3>7. x \notin S \cup u /\ (S \cup u) \cup {x} = S \cup t
      BY <3>3
    <3>8. Total(f, S \cup t) = f[x] + Total(f, S \cup u)
      <4>1. \A y \in (S \cup u) \cup {x} : f[y] \in Nat
        BY <3>7
      <4>2. Total(f, (S \cup u) \cup {x}) = f[x] + Total(f, S \cup u)
        BY <3>5, <3>7, <4>1, TotalAdd
      <4> QED
        BY <3>7, <4>2
    <3>9. f[x] \in Nat /\ Total(f, u) \in Nat /\ Total(f, S) \in Nat
      BY <1>0, <3>3
    <3> QED
      BY <3>4, <3>6, <3>8, <3>9
  <2> HIDE DEF Splits
  <2> QED
    BY <2>1
<1>3. Nat \subseteq A
  <2> HIDE DEF A
  <2> QED
    BY <1>1, <1>2, NaturalsFrom
<1>4. T \in SUBSET T /\ Cardinality(T) \in A
  BY <1>3, SubsetSizes
<1>5. Splits(T)
  <2> HIDE DEF Splits
  <2> QED BY <1>4
<1> QED
  BY <1>5

LEMMA TotalZero ==
  ASSUME NEW S, IsFiniteSet(S), NEW f, \A x \in S : f[x] = 0
  PROVE  Total(f, S) = 0
<1> DEFINE it == [s \in SUBSET S |-> 0]
<1>1. IsSum(it, f, S)
  BY DEF IsSum
<1>2. it[S] = 0
  OBVIOUS
<1> HIDE DEF it
<1> QED
  BY <1>1, <1>2, SumIsTotal DEF IsSum
===============================================================================
