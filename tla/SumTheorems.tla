---------------------------- MODULE SumTheorems ----------------------------
(***************************************************************************)
(* What the proofs need to know of sums over finite sets. SumOver is a     *)
(* fold of the community modules, which takes the elements of a set in     *)
(* some order; the first part shows that the order does not matter.        *)
(*                                                                         *)
(* The theorems on induction over sets take an operator as a parameter.    *)
(* Here the induction is over a set of subsets (GrowingSets), so that it   *)
(* can be instantiated.                                                    *)
(***************************************************************************)
EXTENDS Sums, TLAPS, FiniteSetTheorems, NaturalsInduction, WellFoundedInduction

\* A set of numbers has a least one.
LEMMA LeastNumber ==
    ASSUME NEW T, T \subseteq Nat, T # {}
    PROVE  \E x \in T : \A y \in T : x <= y
  <1>1. PICK x \in T : \A y \in T : ~(<<y, x>> \in OpToRel(<, Nat))
    BY WFMin, NatLessThanWellFounded
  <1>2. \A y \in T : ~(y < x)
    BY <1>1 DEF OpToRel
  <1> QED BY <1>2

\* Induction over a finite set, for a set `Good` of its subsets in place of a predicate: what holds
\* of the empty set, and of a set with one element more, holds of all of it.
LEMMA GrowingSets ==
    ASSUME NEW S, IsFiniteSet(S), NEW Good, {} \in Good,
           \A T \in SUBSET S : \A x \in S \ T : T \in Good => T \cup {x} \in Good
    PROVE  S \in Good
  <1> DEFINE Bad == {T \in SUBSET S : T \notin Good}
             Sizes == {Cardinality(T) : T \in Bad}
  <1> SUFFICES ASSUME S \notin Good PROVE FALSE
    OBVIOUS
  <1>1. \A T \in SUBSET S : IsFiniteSet(T) /\ Cardinality(T) \in Nat
    BY FS_Subset, FS_CardinalityType
  <1>2. Sizes \subseteq Nat /\ Cardinality(S) \in Sizes
    BY <1>1
  <1>3. PICK n \in Sizes : \A m \in Sizes : n <= m
    <2> HIDE DEF Sizes
    <2> QED BY <1>2, LeastNumber
  <1>4. PICK T \in Bad : n = Cardinality(T)
    OBVIOUS
  <1>5. PICK x \in T : TRUE
    BY <1>4
  <1>6. T \ {x} \in SUBSET S /\ x \in S \ (T \ {x}) /\ T = (T \ {x}) \cup {x}
    BY <1>4, <1>5
  <1>7. T \ {x} \in Bad
    BY <1>4, <1>6
  <1>8. Cardinality(T \ {x}) = Cardinality(T) - 1
    BY <1>1, <1>4, <1>5, FS_RemoveElement
  <1>9. n <= Cardinality(T \ {x})
    BY <1>3, <1>7
  <1> QED BY <1>1, <1>4, <1>6, <1>8, <1>9

\* One step of the recursion, a solution of it on the subsets of T, and the one that is chosen.
First(s) == CHOOSE e \in s : TRUE
Step(f, g, s) == IF s = {} THEN 0 ELSE f[First(s)] + g[s \ {First(s)}]
IsIter(f, g, T) == g = [s \in SUBSET T |-> Step(f, g, s)]
Iter(f, T) == CHOOSE g : IsIter(f, g, T)

\* The sum as its definition computes it: by recursion on the subsets of S.
LEMMA SumIs ==
    ASSUME NEW f, NEW S
    PROVE  SumOver(f, S) = Iter(f, S)[S]
  BY DEF SumOver, MapThenFoldSet, IsIter, Step, First, Iter

\* The element that the recursion takes next is one of the set.
LEMMA FirstIn ==
    ASSUME NEW s, s # {}
    PROVE  First(s) \in s
  BY DEF First

\* Of the subsets in a set `Bad`, one that no smaller one is in.
LEMMA SmallestSet ==
    ASSUME NEW S, IsFiniteSet(S), NEW Bad, Bad \subseteq SUBSET S, Bad # {}
    PROVE  \E T \in Bad : \A U \in SUBSET T : U \in Bad => U = T
  <1> DEFINE Sizes == {Cardinality(T) : T \in Bad}
  <1>1. \A T \in SUBSET S : IsFiniteSet(T) /\ Cardinality(T) \in Nat
    BY FS_Subset, FS_CardinalityType
  <1>2. Sizes \subseteq Nat /\ Sizes # {}
    BY <1>1
  <1>3. PICK n \in Sizes : \A m \in Sizes : n <= m
    <2> HIDE DEF Sizes
    <2> QED BY <1>2, LeastNumber
  <1>4. PICK T \in Bad : n = Cardinality(T)
    OBVIOUS
  <1>5. ASSUME NEW U \in SUBSET T, U \in Bad PROVE U = T
    <2>1. Cardinality(U) \in Sizes /\ T \in SUBSET S
      BY <1>5
    <2>2. Cardinality(T) <= Cardinality(U)
      BY <2>1, <1>3, <1>4
    <2>3. Cardinality(U) <= Cardinality(T) /\ (Cardinality(U) = Cardinality(T) => U = T)
      BY <1>1, <2>1, <1>5, FS_Subset
    <2> QED BY <1>1, <1>5, <2>1, <2>2, <2>3
  <1> QED BY <1>4, <1>5

\* The recursion has at most one solution, ...
LEMMA IterUnique ==
    ASSUME NEW T, IsFiniteSet(T), NEW f, NEW g, NEW h, IsIter(f, g, T), IsIter(f, h, T)
    PROVE  g = h
  <1>1. \A s \in SUBSET T : g[s] = Step(f, g, s) /\ h[s] = Step(f, h, s)
    BY DEF IsIter
  <1>2. ASSUME NEW s \in SUBSET T, g[s] # h[s] PROVE FALSE
    <2> DEFINE Bad == {t \in SUBSET T : g[t] # h[t]}
    <2>1. PICK t \in Bad : \A U \in SUBSET t : U \in Bad => U = t
      <3>1. Bad \subseteq SUBSET T /\ Bad # {}
        BY <1>2
      <3> HIDE DEF Bad
      <3> QED BY <3>1, SmallestSet
    <2>2. CASE t = {}
      BY <2>2, <1>1 DEF Step
    <2>3. CASE t # {}
      <3>1. First(t) \in t
        BY <2>3, FirstIn
      <3>2. t \ {First(t)} \in SUBSET t /\ t \ {First(t)} # t /\ t \ {First(t)} \in SUBSET T
        BY <3>1
      <3>3. t \ {First(t)} \notin Bad
        BY <2>1, <3>2
      <3>4. g[t \ {First(t)}] = h[t \ {First(t)}]
        BY <3>2, <3>3
      <3>5. g[t] = h[t]
        BY <2>3, <3>4, <1>1 DEF Step
      <3> QED BY <3>5
    <2> QED BY <2>2, <2>3
  <1>3. g = [s \in SUBSET T |-> Step(f, g, s)] /\ h = [s \in SUBSET T |-> Step(f, h, s)]
    BY DEF IsIter
  <1> QED BY <1>1, <1>2, <1>3

\* ... and it has one.
LEMMA IterExists ==
    ASSUME NEW S, IsFiniteSet(S), NEW f
    PROVE  IsIter(f, Iter(f, S), S)
  <1> DEFINE Bad == {T \in SUBSET S : ~IsIter(f, Iter(f, T), T)}
  <1> SUFFICES ASSUME S \in Bad PROVE FALSE
    OBVIOUS
  <1>1. PICK T \in Bad : \A U \in SUBSET T : U \in Bad => U = T
    <2>1. Bad \subseteq SUBSET S /\ Bad # {}
      OBVIOUS
    <2> HIDE DEF Bad
    <2> QED BY <2>1, SmallestSet
  <1>2. ASSUME NEW U \in SUBSET T, U # T PROVE IsIter(f, Iter(f, U), U)
    BY <1>1, <1>2
  <1>3. ASSUME NEW U \in SUBSET T, U # T, NEW V \in SUBSET U
        PROVE  Iter(f, U)[V] = Iter(f, V)[V]
    <2> DEFINE r == [s \in SUBSET V |-> Iter(f, U)[s]]
    <2>1. IsIter(f, Iter(f, U), U)
      BY <1>2, <1>3
    <2>2. \A s \in SUBSET U : Iter(f, U)[s] = Step(f, Iter(f, U), s)
      BY <2>1 DEF IsIter
    <2>3. ASSUME NEW s \in SUBSET V PROVE r[s] = Step(f, r, s)
      <3>1. s \in SUBSET U /\ (s # {} => s \ {First(s)} \in SUBSET V)
        BY <1>3
      <3>2. Step(f, Iter(f, U), s) = Step(f, r, s)
        BY <3>1 DEF Step
      <3> QED BY <2>2, <3>1, <3>2
    <2>4. r = [s \in SUBSET V |-> r[s]]
      OBVIOUS
    <2>5. IsIter(f, r, V)
      <3> HIDE DEF r
      <3>1. [s \in SUBSET V |-> r[s]] = [s \in SUBSET V |-> Step(f, r, s)]
        BY <2>3
      <3> QED BY <2>4, <3>1 DEF IsIter
    <2>6. V \in SUBSET T /\ V # T
      BY <1>3
    <2>7. IsIter(f, Iter(f, V), V)
      BY <1>2, <2>6
    <2>8. IsFiniteSet(V)
      <3>1. V \in SUBSET S
        BY <2>6
      <3> QED BY <3>1, FS_Subset
    <2>9. r = Iter(f, V)
      <3> HIDE DEF r
      <3> QED BY <2>5, <2>7, <2>8, IterUnique
    <2>10. r[V] = Iter(f, U)[V]
      OBVIOUS
    <2> HIDE DEF r
    <2> QED BY <2>9, <2>10
  <1> DEFINE h == [s \in SUBSET T |-> IF s = {} THEN 0
                     ELSE f[First(s)] + Iter(f, s \ {First(s)})[s \ {First(s)}]]
  <1>4. ASSUME NEW s \in SUBSET T PROVE h[s] = Step(f, h, s)
    <2>1. CASE s = {}
      BY <2>1 DEF Step
    <2>2. CASE s # {}
      <3> DEFINE u == s \ {First(s)}
      <3>1. First(s) \in s
        BY <2>2, FirstIn
      <3>2. u \in SUBSET T /\ u # T
        BY <3>1
      <3>3. h[u] = Iter(f, u)[u]
        <4>1. IsIter(f, Iter(f, u), u)
          BY <1>2, <3>2
        <4>2. Iter(f, u)[u] = Step(f, Iter(f, u), u)
          BY <4>1 DEF IsIter
        <4>3. CASE u = {}
          <5>1. h[u] = 0
            BY <4>3
          <5>2. Step(f, Iter(f, u), u) = 0
            BY <4>3 DEF Step
          <5> QED BY <4>2, <5>1, <5>2
        <4>4. CASE u # {}
          <5> DEFINE w == u \ {First(u)}
          <5>1. Iter(f, u)[w] = Iter(f, w)[w]
            <6>1. w \in SUBSET u
              OBVIOUS
            <6> HIDE DEF u, w
            <6> QED BY <1>3, <3>2, <6>1
          <5>2. h[u] = f[First(u)] + Iter(f, w)[w]
            BY <3>2, <4>4
          <5>3. Step(f, Iter(f, u), u) = f[First(u)] + Iter(f, u)[w]
            BY <4>4 DEF Step
          <5> QED BY <4>2, <5>1, <5>2, <5>3
        <4> QED BY <4>3, <4>4
      <3>4. h[s] = f[First(s)] + Iter(f, u)[u]
        BY <2>2
      <3>5. Step(f, h, s) = f[First(s)] + h[u]
        BY <2>2 DEF Step
      <3> QED BY <3>3, <3>4, <3>5
    <2> QED BY <2>1, <2>2
  <1>5. IsIter(f, h, T)
    <2>1. h = [s \in SUBSET T |-> h[s]]
      OBVIOUS
    <2> HIDE DEF h
    <2>2. [s \in SUBSET T |-> h[s]] = [s \in SUBSET T |-> Step(f, h, s)]
      BY <1>4
    <2> QED BY <2>1, <2>2 DEF IsIter
  <1>6. IsIter(f, Iter(f, T), T)
    <2> HIDE DEF h
    <2> QED BY <1>5 DEF Iter
  <1> QED BY <1>6

\* So the sum over a set is its first element and the sum over the others.
LEMMA SumUnfolds ==
    ASSUME NEW S, IsFiniteSet(S), NEW f
    PROVE  SumOver(f, S) = IF S = {} THEN 0 ELSE f[First(S)] + SumOver(f, S \ {First(S)})
  <1>1. IsIter(f, Iter(f, S), S)
    BY IterExists
  <1>2. \A s \in SUBSET S : Iter(f, S)[s] = Step(f, Iter(f, S), s)
    BY <1>1 DEF IsIter
  <1>3. Iter(f, S)[S] = Step(f, Iter(f, S), S)
    BY <1>2
  <1>4. ASSUME S # {} PROVE Iter(f, S)[S \ {First(S)}] = Iter(f, S \ {First(S)})[S \ {First(S)}]
    <2> DEFINE V == S \ {First(S)}
               r == [s \in SUBSET V |-> Iter(f, S)[s]]
    <2>1. ASSUME NEW s \in SUBSET V PROVE r[s] = Step(f, r, s)
      <3>1. s \in SUBSET S /\ (s # {} => s \ {First(s)} \in SUBSET V)
        OBVIOUS
      <3>2. Step(f, Iter(f, S), s) = Step(f, r, s)
        BY <3>1 DEF Step
      <3> QED BY <1>2, <3>1, <3>2
    <2>2. r = [s \in SUBSET V |-> r[s]]
      OBVIOUS
    <2>3. IsIter(f, r, V)
      <3> HIDE DEF r
      <3>1. [s \in SUBSET V |-> r[s]] = [s \in SUBSET V |-> Step(f, r, s)]
        BY <2>1
      <3> QED BY <2>2, <3>1 DEF IsIter
    <2>4. IsFiniteSet(V)
      BY FS_Subset
    <2>5. IsIter(f, Iter(f, V), V)
      <3> HIDE DEF V
      <3> QED BY <2>4, IterExists
    <2>6. r[V] = Iter(f, S)[V]
      OBVIOUS
    <2>7. r = Iter(f, V)
      <3> HIDE DEF r, V
      <3> QED BY <2>3, <2>4, <2>5, IterUnique
    <2> HIDE DEF r
    <2> QED BY <2>6, <2>7
  <1> QED BY <1>3, <1>4, SumIs DEF Step

-----------------------------------------------------------------------------
\* The sum over nothing is 0.
LEMMA SumEmpty ==
    ASSUME NEW f
    PROVE  SumOver(f, {}) = 0
  BY FS_EmptySet, SumUnfolds

\* A sum of integers is an integer.
LEMMA SumInt ==
    ASSUME NEW S, IsFiniteSet(S), NEW f, \A x \in S : f[x] \in Int
    PROVE  SumOver(f, S) \in Int
  <1> DEFINE Bad == {T \in SUBSET S : SumOver(f, T) \notin Int}
  <1> SUFFICES ASSUME S \in Bad PROVE FALSE
    OBVIOUS
  <1>1. PICK T \in Bad : \A U \in SUBSET T : U \in Bad => U = T
    <2>1. Bad \subseteq SUBSET S /\ Bad # {}
      OBVIOUS
    <2> HIDE DEF Bad
    <2> QED BY <2>1, SmallestSet
  <1>2. IsFiniteSet(T)
    BY FS_Subset
  <1>3. CASE T = {}
    BY <1>3, SumEmpty
  <1>4. CASE T # {}
    <2>1. First(T) \in T /\ f[First(T)] \in Int
      BY <1>4, FirstIn
    <2>2. SumOver(f, T \ {First(T)}) \in Int
      BY <1>1, <2>1
    <2>3. SumOver(f, T) = f[First(T)] + SumOver(f, T \ {First(T)})
      BY <1>2, <1>4, SumUnfolds
    <2> QED BY <2>1, <2>2, <2>3
  <1> QED BY <1>3, <1>4

\* Any element may be taken out, not only the first: the order of the elements does not matter.
THEOREM SumRemove ==
    ASSUME NEW S, IsFiniteSet(S), NEW f, \A x \in S : f[x] \in Int, NEW x \in S
    PROVE  SumOver(f, S) = f[x] + SumOver(f, S \ {x})
  <1> DEFINE Bad == {T \in SUBSET S : \E y \in T : SumOver(f, T) # f[y] + SumOver(f, T \ {y})}
  <1> SUFFICES ASSUME S \in Bad PROVE FALSE
    OBVIOUS
  <1>1. PICK T \in Bad : \A U \in SUBSET T : U \in Bad => U = T
    <2>1. Bad \subseteq SUBSET S /\ Bad # {}
      OBVIOUS
    <2> HIDE DEF Bad
    <2> QED BY <2>1, SmallestSet
  <1>2. PICK y \in T : SumOver(f, T) # f[y] + SumOver(f, T \ {y})
    BY <1>1
  <1> DEFINE z == First(T)
  <1>3. z \in T
    BY <1>2, FirstIn
  <1>4. \A U \in SUBSET T : IsFiniteSet(U) /\ SumOver(f, U) \in Int
    BY FS_Subset, SumInt
  <1>5. SumOver(f, T) = f[z] + SumOver(f, T \ {z})
    BY <1>2, <1>4, SumUnfolds
  <1> HIDE DEF z
  <1>6. y # z
    BY <1>2, <1>5
  <1>7. T \ {z} \notin Bad /\ T \ {y} \notin Bad
    BY <1>1, <1>3, <1>2
  <1>8. SumOver(f, T \ {z}) = f[y] + SumOver(f, (T \ {z}) \ {y})
    BY <1>2, <1>6, <1>7
  <1>9. SumOver(f, T \ {y}) = f[z] + SumOver(f, (T \ {y}) \ {z})
    BY <1>3, <1>6, <1>7
  <1>10. (T \ {z}) \ {y} = (T \ {y}) \ {z}
    OBVIOUS
  <1>11. f[y] \in Int /\ f[z] \in Int /\ SumOver(f, (T \ {y}) \ {z}) \in Int
    BY <1>2, <1>3, <1>4
  <1>12. PICK rest : rest = SumOver(f, (T \ {y}) \ {z})
    OBVIOUS
  <1>13. SumOver(f, T) = f[z] + (f[y] + rest)
    BY <1>5, <1>8, <1>10, <1>12
  <1>14. f[y] + SumOver(f, T \ {y}) = f[y] + (f[z] + rest)
    BY <1>9, <1>12
  <1>15. f[y] \in Int /\ f[z] \in Int /\ rest \in Int
    BY <1>11, <1>12
  <1> HIDE DEF Bad
  <1>16. f[z] + (f[y] + rest) = f[y] + (f[z] + rest)
    BY <1>15
  <1> QED BY <1>2, <1>13, <1>14, <1>16

\* An element more.
LEMMA SumAdd ==
    ASSUME NEW S, IsFiniteSet(S), NEW f, NEW x, x \notin S, f[x] \in Int,
           \A y \in S : f[y] \in Int
    PROVE  SumOver(f, S \cup {x}) = f[x] + SumOver(f, S)
  <1>1. IsFiniteSet(S \cup {x}) /\ (S \cup {x}) \ {x} = S
    BY FS_AddElement
  <1> QED BY <1>1, SumRemove

\* Functions that agree on a set have the same sum over it.
LEMMA SumSame ==
    ASSUME NEW S, IsFiniteSet(S), NEW f, NEW g, \A x \in S : f[x] \in Int /\ f[x] = g[x]
    PROVE  SumOver(f, S) = SumOver(g, S)
  <1> DEFINE Good == {T \in SUBSET S : SumOver(f, T) = SumOver(g, T)}
  <1>1. {} \in Good
    BY SumEmpty
  <1>2. ASSUME NEW T \in SUBSET S, NEW x \in S \ T, T \in Good PROVE T \cup {x} \in Good
    <2>1. IsFiniteSet(T)
      BY FS_Subset
    <2>2. SumOver(f, T \cup {x}) = f[x] + SumOver(f, T) /\ SumOver(g, T \cup {x}) = g[x] + SumOver(g, T)
      BY <1>2, <2>1, SumAdd
    <2> QED BY <1>2, <2>2
  <1>3. S \in Good
    <2> HIDE DEF Good
    <2> QED BY <1>1, <1>2, GrowingSets
  <1> QED BY <1>3

\* The sum of sums.
LEMMA SumPlus ==
    ASSUME NEW S, IsFiniteSet(S), NEW f, NEW g, NEW h,
           \A x \in S : f[x] \in Int /\ g[x] \in Int /\ h[x] = f[x] + g[x]
    PROVE  SumOver(h, S) = SumOver(f, S) + SumOver(g, S)
  <1> DEFINE Good == {T \in SUBSET S : SumOver(h, T) = SumOver(f, T) + SumOver(g, T)}
  <1>1. {} \in Good
    BY SumEmpty
  <1>2. ASSUME NEW T \in SUBSET S, NEW x \in S \ T, T \in Good PROVE T \cup {x} \in Good
    <2>1. IsFiniteSet(T) /\ SumOver(f, T) \in Int /\ SumOver(g, T) \in Int
      BY FS_Subset, SumInt
    <2>2. /\ SumOver(f, T \cup {x}) = f[x] + SumOver(f, T)
          /\ SumOver(g, T \cup {x}) = g[x] + SumOver(g, T)
          /\ SumOver(h, T \cup {x}) = h[x] + SumOver(h, T)
      <3>1. \A y \in T \cup {x} : f[y] \in Int /\ g[y] \in Int /\ h[y] \in Int
        OBVIOUS
      <3> QED BY <2>1, <3>1, SumAdd
    <2>3. SumOver(h, T) = SumOver(f, T) + SumOver(g, T)
      BY <1>2
    <2>4. SumOver(h, T \cup {x}) = SumOver(f, T \cup {x}) + SumOver(g, T \cup {x})
      <3>1. f[x] \in Int /\ g[x] \in Int /\ h[x] = f[x] + g[x]
        OBVIOUS
      <3> QED BY <2>1, <2>2, <2>3, <3>1
    <2> QED BY <2>4
  <1>3. S \in Good
    <2> HIDE DEF Good
    <2> QED BY <1>1, <1>2, GrowingSets
  <1> QED BY <1>3

\* Larger terms, larger sum.
LEMMA SumMonotone ==
    ASSUME NEW S, IsFiniteSet(S), NEW f, NEW g,
           \A x \in S : f[x] \in Int /\ g[x] \in Int /\ f[x] <= g[x]
    PROVE  SumOver(f, S) <= SumOver(g, S)
  <1> DEFINE Good == {T \in SUBSET S : SumOver(f, T) <= SumOver(g, T)}
  <1>1. {} \in Good
    BY SumEmpty
  <1>2. ASSUME NEW T \in SUBSET S, NEW x \in S \ T, T \in Good PROVE T \cup {x} \in Good
    <2>1. IsFiniteSet(T) /\ SumOver(f, T) \in Int /\ SumOver(g, T) \in Int
      BY FS_Subset, SumInt
    <2>2. SumOver(f, T \cup {x}) = f[x] + SumOver(f, T)
      <3>1. x \notin T /\ f[x] \in Int /\ \A y \in T : f[y] \in Int
        OBVIOUS
      <3> QED BY <2>1, <3>1, SumAdd
    <2>3. SumOver(g, T \cup {x}) = g[x] + SumOver(g, T)
      <3>1. x \notin T /\ g[x] \in Int /\ \A y \in T : g[y] \in Int
        OBVIOUS
      <3> QED BY <2>1, <3>1, SumAdd
    <2>4. SumOver(f, T) <= SumOver(g, T)
      BY <1>2
    <2>5. SumOver(f, T \cup {x}) <= SumOver(g, T \cup {x})
      <3>1. f[x] \in Int /\ g[x] \in Int /\ f[x] <= g[x]
        OBVIOUS
      <3> QED BY <2>1, <2>2, <2>3, <2>4, <3>1
    <2> QED BY <2>5
  <1>3. S \in Good
    <2> HIDE DEF Good
    <2> QED BY <1>1, <1>2, GrowingSets
  <1> QED BY <1>3

\* Nothing but zeros adds up to zero.
LEMMA SumZeros ==
    ASSUME NEW S, IsFiniteSet(S), NEW f, \A x \in S : f[x] = 0
    PROVE  SumOver(f, S) = 0
  <1> DEFINE Good == {T \in SUBSET S : SumOver(f, T) = 0}
  <1>1. {} \in Good
    BY SumEmpty
  <1>2. ASSUME NEW T \in SUBSET S, NEW x \in S \ T, T \in Good PROVE T \cup {x} \in Good
    <2>1. IsFiniteSet(T)
      BY FS_Subset
    <2>2. x \notin T /\ f[x] = 0 /\ f[x] \in Int /\ \A y \in T : f[y] \in Int
      OBVIOUS
    <2>3. SumOver(f, T \cup {x}) = f[x] + SumOver(f, T)
      BY <2>1, <2>2, SumAdd
    <2> QED BY <1>2, <2>2, <2>3
  <1>3. S \in Good
    <2> HIDE DEF Good
    <2> QED BY <1>1, <1>2, GrowingSets
  <1> QED BY <1>3

\* A sum of natural numbers is one.
LEMMA SumNat ==
    ASSUME NEW S, IsFiniteSet(S), NEW f, \A x \in S : f[x] \in Nat
    PROVE  SumOver(f, S) \in Nat
  <1> DEFINE z == [x \in S |-> 0]
  <1>1. SumOver(z, S) = 0
    BY SumZeros
  <1>2. SumOver(z, S) <= SumOver(f, S)
    BY SumMonotone
  <1>3. SumOver(f, S) \in Int
    BY SumInt
  <1> HIDE DEF z
  <1> QED BY <1>1, <1>2, <1>3

\* No natural term is larger than the sum.
LEMMA SumMember ==
    ASSUME NEW S, IsFiniteSet(S), NEW f, \A x \in S : f[x] \in Nat, NEW x \in S
    PROVE  f[x] <= SumOver(f, S)
  <1>1. SumOver(f, S) = f[x] + SumOver(f, S \ {x})
    BY SumRemove
  <1>2. SumOver(f, S \ {x}) \in Nat
    BY FS_Subset, SumNat
  <1> QED BY <1>1, <1>2

\* One term changes, and the sum by as much.
LEMMA SumChange ==
    ASSUME NEW S, IsFiniteSet(S), NEW f, NEW g, NEW x \in S,
           \A y \in S : f[y] \in Int /\ g[y] \in Int,
           \A y \in S \ {x} : g[y] = f[y]
    PROVE  SumOver(g, S) = SumOver(f, S) - f[x] + g[x]
  <1>1. SumOver(f, S) = f[x] + SumOver(f, S \ {x}) /\ SumOver(g, S) = g[x] + SumOver(g, S \ {x})
    BY SumRemove
  <1>2. IsFiniteSet(S \ {x})
    BY FS_Subset
  <1>3. SumOver(f, S \ {x}) = SumOver(g, S \ {x}) /\ SumOver(f, S \ {x}) \in Int
    BY <1>2, SumSame, SumInt
  <1>4. f[x] \in Int /\ g[x] \in Int
    OBVIOUS
  <1> QED BY <1>1, <1>3, <1>4

\* The sum over two disjoint sets.
LEMMA SumUnion ==
    ASSUME NEW S, IsFiniteSet(S), NEW T, IsFiniteSet(T), S \cap T = {},
           NEW f, \A x \in S \cup T : f[x] \in Int
    PROVE  SumOver(f, S \cup T) = SumOver(f, S) + SumOver(f, T)
  <1> DEFINE Good == {U \in SUBSET T : SumOver(f, S \cup U) = SumOver(f, S) + SumOver(f, U)}
  <1>1. SumOver(f, S) \in Int
    BY SumInt
  <1>2. {} \in Good
    BY <1>1, SumEmpty
  <1>3. ASSUME NEW U \in SUBSET T, NEW x \in T \ U, U \in Good PROVE U \cup {x} \in Good
    <2>1. IsFiniteSet(U) /\ IsFiniteSet(S \cup U)
      BY FS_Subset, FS_Union
    <2>2. x \notin S \cup U /\ \A y \in S \cup U \cup {x} : f[y] \in Int
      OBVIOUS
    <2>3. SumOver(f, U \cup {x}) = f[x] + SumOver(f, U)
      BY <2>1, <2>2, SumAdd
    <2>4. SumOver(f, (S \cup U) \cup {x}) = f[x] + SumOver(f, S \cup U)
      BY <2>1, <2>2, SumAdd
    <2>5. SumOver(f, S \cup U) = SumOver(f, S) + SumOver(f, U) /\ SumOver(f, U) \in Int /\ f[x] \in Int
      BY <1>3, <2>1, <2>2, SumInt
    <2>6. S \cup (U \cup {x}) = (S \cup U) \cup {x}
      OBVIOUS
    <2>7. SumOver(f, S \cup (U \cup {x})) = SumOver(f, S) + SumOver(f, U \cup {x})
      <3>1. SumOver(f, S \cup (U \cup {x})) = f[x] + SumOver(f, S \cup U)
        BY <2>4, <2>6, Zenon
      <3>2. f[x] + (SumOver(f, S) + SumOver(f, U)) = SumOver(f, S) + (f[x] + SumOver(f, U))
        BY <1>1, <2>5
      <3> QED BY <2>3, <2>5, <3>1, <3>2, Zenon
    <2> QED BY <2>7
  <1>4. T \in Good
    <2> HIDE DEF Good
    <2> QED BY <1>2, <1>3, GrowingSets
  <1> QED BY <1>4

\* Terms that are zero may be left out.
LEMMA SumSubset ==
    ASSUME NEW S, IsFiniteSet(S), NEW T \in SUBSET S, NEW f, \A x \in S : f[x] \in Int,
           \A x \in S \ T : f[x] = 0
    PROVE  SumOver(f, S) = SumOver(f, T)
  <1>1. IsFiniteSet(T) /\ IsFiniteSet(S \ T)
    BY FS_Subset
  <1>2. S = T \cup (S \ T) /\ T \cap (S \ T) = {}
    OBVIOUS
  <1>3. SumOver(f, S) = SumOver(f, T) + SumOver(f, S \ T)
    <2> DEFINE R == S \ T
    <2>1. R = S \ T
      OBVIOUS
    <2> HIDE DEF R
    <2>2. SumOver(f, T \cup R) = SumOver(f, T) + SumOver(f, R)
      BY <1>1, <1>2, <2>1, SumUnion
    <2> QED BY <1>2, <2>1, <2>2
  <1>4. SumOver(f, S \ T) = 0 /\ SumOver(f, T) \in Int
    BY <1>1, SumZeros, SumInt
  <1> QED BY <1>3, <1>4

\* A table adds up to the same by rows and by columns.
LEMMA SumSwap ==
    ASSUME NEW A, IsFiniteSet(A), NEW B, IsFiniteSet(B),
           NEW f, \A a \in A, b \in B : f[a][b] \in Int
    PROVE  SumOver([a \in A |-> SumOver(f[a], B)], A) = SumOver([b \in B |-> SumOver([a \in A |-> f[a][b]], A)], B)
  <1> DEFINE L(T) == SumOver([a \in T |-> SumOver(f[a], B)], T)
             R(T) == SumOver([b \in B |-> SumOver([a \in T |-> f[a][b]], T)], B)
             Good == {T \in SUBSET A : L(T) = R(T)}
  <1>1. {} \in Good
    <2>1. L({}) = 0
      BY SumEmpty
    <2>2. \A b \in B : [c \in B |-> SumOver([a \in {} |-> f[a][c]], {})][b] = 0
      BY SumEmpty
    <2>3. R({}) = 0
      BY <2>2, SumZeros
    <2> HIDE DEF L, R
    <2> QED BY <2>1, <2>3
  <1>2. ASSUME NEW T \in SUBSET A, NEW x \in A \ T, T \in Good PROVE T \cup {x} \in Good
    <2> DEFINE U == T \cup {x}
               lu == [a \in U |-> SumOver(f[a], B)]
               lt == [a \in T |-> SumOver(f[a], B)]
               ru == [b \in B |-> SumOver([a \in U |-> f[a][b]], U)]
               rt == [b \in B |-> SumOver([a \in T |-> f[a][b]], T)]
    <2>1. IsFiniteSet(T) /\ IsFiniteSet(U)
      BY FS_Subset
    <2>2. \A a \in A : SumOver(f[a], B) \in Int
      BY SumInt
    <2>3. SumOver(lu, U) = SumOver(f[x], B) + SumOver(lt, T)
      <3>1. \A a \in U : lu[a] \in Int
        BY <2>2
      <3>2. SumOver(lu, T) = SumOver(lt, T)
        <4>1. \A a \in T : lu[a] \in Int /\ lu[a] = lt[a]
          BY <2>2
        <4> HIDE DEF lu, lt
        <4> QED BY <2>1, <4>1, SumSame
      <3>3. SumOver(lu, T \cup {x}) = lu[x] + SumOver(lu, T)
        <4>1. x \notin T /\ lu[x] \in Int /\ \A a \in T : lu[a] \in Int
          BY <3>1
        <4> HIDE DEF lu
        <4> QED BY <2>1, <4>1, SumAdd
      <3> QED BY <3>2, <3>3
    <2>4. ASSUME NEW b \in B PROVE ru[b] = f[x][b] + rt[b] /\ rt[b] \in Int /\ ru[b] \in Int
      <3> DEFINE cu == [a \in U |-> f[a][b]]
                 ct == [a \in T |-> f[a][b]]
      <3>1. /\ x \notin T /\ cu[x] = f[x][b] /\ cu[x] \in Int
            /\ \A a \in T : cu[a] \in Int /\ cu[a] = ct[a]
        OBVIOUS
      <3>2. ru[b] = SumOver(cu, T \cup {x}) /\ rt[b] = SumOver(ct, T)
        OBVIOUS
      <3> HIDE DEF cu, ct
      <3>3. SumOver(cu, T \cup {x}) = cu[x] + SumOver(cu, T)
        BY <2>1, <3>1, SumAdd
      <3>4. SumOver(cu, T) = SumOver(ct, T) /\ SumOver(cu, T) \in Int
        BY <2>1, <3>1, SumSame, SumInt
      <3> HIDE DEF ru, rt
      <3> QED BY <3>1, <3>2, <3>3, <3>4
    <2>5. SumOver(ru, B) = SumOver(f[x], B) + SumOver(rt, B)
      <3>1. \A b \in B : f[x][b] \in Int /\ rt[b] \in Int /\ ru[b] = f[x][b] + rt[b]
        BY <2>4
      <3> HIDE DEF ru, rt
      <3> DEFINE g == f[x]
      <3>2. \A b \in B : g[b] \in Int /\ rt[b] \in Int /\ ru[b] = g[b] + rt[b]
        BY <3>1
      <3>3. SumOver(ru, B) = SumOver(g, B) + SumOver(rt, B)
        <4> HIDE DEF g
        <4> QED BY <3>2, SumPlus
      <3> QED BY <3>3
    <2>6. SumOver(lt, T) = SumOver(rt, B)
      <3>1. L(T) = R(T)
        BY <1>2
      <3>2. L(T) = SumOver(lt, T) /\ R(T) = SumOver(rt, B)
        OBVIOUS
      <3> QED BY <3>1, <3>2
    <2>7. L(U) = SumOver(lu, U) /\ R(U) = SumOver(ru, B)
      OBVIOUS
    <2>8. L(U) = R(U)
      BY <2>3, <2>5, <2>6, <2>7
    <2>9. U \in SUBSET A
      OBVIOUS
    <2> HIDE DEF L, R
    <2> QED BY <2>8, <2>9
  <1>3. A \in Good
    <2> HIDE DEF Good
    <2> QED BY <1>1, <1>2, GrowingSets
  <1>4. L(A) = R(A)
    <2> HIDE DEF L, R
    <2> QED BY <1>3
  <1> QED BY <1>4


\* The parts of a set that a key tells apart add up to the whole.
LEMMA SumGroups ==
    ASSUME NEW S, IsFiniteSet(S), NEW M, IsFiniteSet(M),
           NEW f, NEW k, \A x \in S : f[x] \in Int /\ k[x] \in M
    PROVE  SumOver([m \in M |-> SumOver(f, {x \in S : k[x] = m})], M) = SumOver(f, S)
  <1> DEFINE g == [m \in M |-> [x \in S |-> IF k[x] = m THEN f[x] ELSE 0]]
             part(m) == {x \in S : k[x] = m}
             col(x) == [m \in M |-> g[m][x]]
             parts == [m \in M |-> SumOver(f, part(m))]
             rows == [m \in M |-> SumOver(g[m], S)]
             cols == [x \in S |-> SumOver(col(x), M)]
  <1>1. \A m \in M, x \in S : g[m][x] \in Int
    OBVIOUS
  <1>2. ASSUME NEW m \in M
        PROVE  rows[m] = parts[m] /\ rows[m] \in Int
    <2> DEFINE h == g[m]
    <2>1. /\ \A x \in S : h[x] \in Int
          /\ \A x \in S \ part(m) : h[x] = 0
          /\ \A x \in part(m) : h[x] \in Int /\ h[x] = f[x]
      OBVIOUS
    <2>2. part(m) \in SUBSET S /\ IsFiniteSet(part(m))
      BY FS_Subset
    <2>3. rows[m] = SumOver(h, S) /\ parts[m] = SumOver(f, part(m))
      OBVIOUS
    <2> HIDE DEF h, part, rows, parts
    <2>4. SumOver(h, S) = SumOver(h, part(m))
      BY <2>1, <2>2, SumSubset
    <2>5. SumOver(h, part(m)) = SumOver(f, part(m))
      BY <2>1, <2>2, SumSame
    <2>6. SumOver(h, S) \in Int
      BY <2>1, SumInt
    <2> QED BY <2>3, <2>4, <2>5, <2>6
  <1>3. ASSUME NEW x \in S
        PROVE  cols[x] = f[x]
    <2> DEFINE h == col(x)
    <2>1. PICK y \in M : y = k[x]
      OBVIOUS
    <2>2. /\ \A m \in M : h[m] \in Int
          /\ \A m \in M \ {y} : h[m] = 0
          /\ h[y] = f[x]
      BY <2>1
    <2>3. cols[x] = SumOver(h, M)
      OBVIOUS
    <2> HIDE DEF h, cols, col
    <2>4. SumOver(h, M) = h[y] + SumOver(h, M \ {y})
      BY <2>2, SumRemove
    <2>5. IsFiniteSet(M \ {y})
      BY FS_Subset
    <2>6. SumOver(h, M \ {y}) = 0
      BY <2>2, <2>5, SumZeros
    <2> QED BY <2>2, <2>3, <2>4, <2>6
  <1>4. SumOver(rows, M) = SumOver(cols, S)
    <2>1. /\ rows = [m \in M |-> SumOver(g[m], S)]
          /\ cols = [x \in S |-> SumOver([m \in M |-> g[m][x]], M)]
      OBVIOUS
    <2> HIDE DEF g, rows, cols
    <2> QED BY <1>1, <2>1, SumSwap
  <1>5. SumOver(rows, M) = SumOver(parts, M)
    <2> HIDE DEF rows, parts
    <2> QED BY <1>2, SumSame
  <1>6. SumOver(cols, S) = SumOver(f, S)
    <2> HIDE DEF cols
    <2> QED BY <1>3, SumSame
  <1>7. parts = [m \in M |-> SumOver(f, {x \in S : k[x] = m})]
    OBVIOUS
  <1> HIDE DEF rows, cols, parts
  <1> QED BY <1>4, <1>5, <1>6, <1>7

\* All terms but one are zero.
LEMMA SumOnly ==
    ASSUME NEW S, IsFiniteSet(S), NEW f, NEW x \in S, f[x] \in Int, \A y \in S \ {x} : f[y] = 0
    PROVE  SumOver(f, S) = f[x]
  <1>1. \A y \in S : f[y] \in Int
    OBVIOUS
  <1>2. SumOver(f, S) = f[x] + SumOver(f, S \ {x})
    BY <1>1, SumRemove
  <1>3. IsFiniteSet(S \ {x})
    BY FS_Subset
  <1>4. SumOver(f, S \ {x}) = 0
    BY <1>3, SumZeros
  <1> QED BY <1>2, <1>4

\* Pairs are added up one component after the other.
LEMMA SumPairs ==
    ASSUME NEW A, IsFiniteSet(A), NEW B, IsFiniteSet(B),
           NEW f, \A a \in A, b \in B : f[<<a, b>>] \in Int
    PROVE  SumOver(f, A \X B) = SumOver([a \in A |-> SumOver([b \in B |-> f[<<a, b>>]], B)], A)
  <1> DEFINE P == A \X B
             left == [x \in P |-> x[1]]
             slice(a) == {x \in P : left[x] = a}
             slices == [a \in A |-> SumOver(f, slice(a))]
             row(a) == [b \in B |-> f[<<a, b>>]]
             rows == [a \in A |-> SumOver(row(a), B)]
  <1>1. IsFiniteSet(P)
    BY FS_Product
  <1>2. \A x \in P : f[x] \in Int /\ left[x] \in A
    OBVIOUS
  <1>3. SumOver(slices, A) = SumOver(f, P)
    <2> HIDE DEF P, left
    <2> QED BY <1>1, <1>2, SumGroups
  <1>4. ASSUME NEW a \in A
        PROVE  slices[a] = rows[a] /\ slices[a] \in Int
    <2> DEFINE Q == slice(a)
               right == [x \in P |-> x[2]]
               point(b) == {x \in Q : right[x] = b}
               points == [b \in B |-> SumOver(f, point(b))]
    <2>1. IsFiniteSet(Q) /\ Q \subseteq P
      BY <1>1, FS_Subset
    <2>2. \A x \in Q : f[x] \in Int /\ right[x] \in B
      BY <1>2
    <2>3. SumOver(points, B) = SumOver(f, Q)
      <3> HIDE DEF P, Q, right
      <3> QED BY <2>1, <2>2, SumGroups
    <2>4. ASSUME NEW b \in B
          PROVE  points[b] \in Int /\ points[b] = row(a)[b]
      <3>1. PICK x : x = <<a, b>>
        OBVIOUS
      <3>2. point(b) = {x}
        BY <3>1
      <3>3. f[x] \in Int /\ f[x] = row(a)[b]
        BY <3>1
      <3>4. x \in {x} /\ IsFiniteSet({x}) /\ \A y \in {x} \ {x} : f[y] = 0
        BY FS_Singleton
      <3>5. SumOver(f, {x}) = f[x]
        BY <3>3, <3>4, SumOnly
      <3>6. points[b] = SumOver(f, point(b))
        OBVIOUS
      <3> HIDE DEF points, point, row
      <3> QED BY <3>2, <3>3, <3>5, <3>6
    <2>5. SumOver(points, B) = SumOver(row(a), B)
      <3> DEFINE r == row(a)
      <3>1. \A b \in B : points[b] \in Int /\ points[b] = r[b]
        BY <2>4
      <3> HIDE DEF points, r
      <3>2. SumOver(points, B) = SumOver(r, B)
        BY <3>1, SumSame
      <3> QED BY <3>2 DEF r
    <2>6. slices[a] = SumOver(f, Q) /\ rows[a] = SumOver(row(a), B)
      OBVIOUS
    <2>7. SumOver(f, Q) \in Int
      <3> HIDE DEF Q
      <3> QED BY <2>1, <2>2, SumInt
    <2> HIDE DEF Q, slices, rows, row, points
    <2> QED BY <2>3, <2>5, <2>6, <2>7
  <1>5. SumOver(slices, A) = SumOver(rows, A)
    <2> HIDE DEF slices, rows
    <2> QED BY <1>4, SumSame
  <1>6. rows = [a \in A |-> SumOver([b \in B |-> f[<<a, b>>]], B)]
    OBVIOUS
  <1> HIDE DEF slices, rows
  <1> QED BY <1>3, <1>5, <1>6
=============================================================================
