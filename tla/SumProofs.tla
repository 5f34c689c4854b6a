---- MODULE SumProofs ----
(***************************************************************************)
(* Sums over finite sets: what the accounts of the metadata cache          *)
(* (c.bytes) and of the cache directory (totalRegularBytes) rest on. The   *)
(* sum is a fold, defined by recursion on the set. The induction is on the *)
(* number of elements: there is no smallest set for which a fact fails.    *)
(***************************************************************************)
EXTENDS Integers, FiniteSets, Functions, FiniteSetTheorems, WellFoundedInduction, TLAPS

\* Every nonempty set of natural numbers has a least member.
LEMMA LeastNat ==
    ASSUME NEW T \in SUBSET Nat, T # {}
    PROVE  \E n \in T : \A m \in T : n <= m
<1>1. IsWellFoundedOn(OpToRel(<, Nat), Nat)
  BY NatLessThanWellFounded
<1>2. \E n \in T : \A m \in T : ~(<<m, n>> \in OpToRel(<, Nat))
  BY <1>1, WFMin
<1>3. \A m, n \in Nat : <<m, n>> \in OpToRel(<, Nat) <=> m < n
  BY DEF OpToRel
<1>4. ASSUME NEW Less, \E n \in T : \A m \in T : ~(<<m, n>> \in Less),
             \A m, n \in Nat : <<m, n>> \in Less <=> m < n
      PROVE  \E n \in T : \A m \in T : n <= m
  <2>1. PICK n \in T : \A m \in T : ~(<<m, n>> \in Less)
    BY <1>4
  <2>2. n \in Nat /\ \A m \in T : m \in Nat /\ ~(m < n)
    BY <1>4, <2>1
  <2>3. QED
    BY <2>2
<1>5. QED
  BY <1>2, <1>3, <1>4

\* A member of a family of finite sets that has fewest elements.
LEMMA SmallestSet ==
    ASSUME NEW S, IsFiniteSet(S), NEW F \in SUBSET (SUBSET S), F # {}
    PROVE  \E s \in F : \A t \in F : Cardinality(s) <= Cardinality(t)
<1> DEFINE sizes == {Cardinality(s) : s \in F}
<1>1. \A s \in F : Cardinality(s) \in Nat
  BY FS_Subset, FS_CardinalityType
<1>2. sizes \in SUBSET Nat /\ sizes # {}
  BY <1>1
<1>3. PICK n \in sizes : \A m \in sizes : n <= m
  BY <1>2, LeastNat
<1>4. QED
  BY <1>3

-----------------------------------------------------------------------------
(* The recursion.                                                          *)

Chosen(s) == CHOOSE x \in s : TRUE
SumOver(h, w, s) == IF s = {} THEN 0 ELSE w[Chosen(s)] + h[s \ {Chosen(s)}]
IsSum(h, w, S) == h = [s \in SUBSET S |-> SumOver(h, w, s)]

\* The fold is the recursive function it is defined by, at the whole set.
LEMMA SumUnfold ==
    ASSUME NEW w, NEW S
    PROVE  SumFunctionOnSet(w, S) = (CHOOSE h : IsSum(h, w, S))[S]
BY DEF SumFunctionOnSet, FoldFunctionOnSet, MapThenFoldSet, IsSum, SumOver, Chosen

\* A nonempty set has the element chosen of it, and is larger without it.
LEMMA OneLess ==
    ASSUME NEW S, IsFiniteSet(S), NEW s \in SUBSET S, s # {}
    PROVE  /\ Chosen(s) \in s /\ s \ {Chosen(s)} \in SUBSET S
           /\ Cardinality(s) \in Nat \ {0}
           /\ Cardinality(s \ {Chosen(s)}) = Cardinality(s) - 1
<1>1. Chosen(s) \in s
  BY DEF Chosen
<1>2. IsFiniteSet(s) /\ Cardinality(s) \in Nat
  BY FS_Subset, FS_CardinalityType
<1>3. Cardinality(s \ {Chosen(s)}) = Cardinality(s) - 1
  BY <1>1, <1>2, FS_RemoveElement
<1>4. Cardinality(s) # 0
  BY <1>2, FS_EmptySet
<1>5. QED
  BY <1>1, <1>2, <1>3, <1>4

\* There is such a function: a function on the sets of at most n - 1 elements
\* extends to those of n.
LEMMA SumExists ==
    ASSUME NEW w, NEW S, IsFiniteSet(S)
    PROVE  \E h : IsSum(h, w, S)
<1> DEFINE Small(n) == {s \in SUBSET S : Cardinality(s) <= n}
           Upto(n) == \E h : h = [s \in Small(n) |-> SumOver(h, w, s)]
           Bad == {n \in Nat : ~Upto(n)}
<1>1. ASSUME NEW n \in Nat, n # 0, Upto(n - 1) PROVE Upto(n)
  <2>1. PICK h : h = [s \in Small(n - 1) |-> SumOver(h, w, s)]
    BY <1>1
  <2> DEFINE g == [s \in Small(n) |-> SumOver(h, w, s)]
  <2>2. \A s \in Small(n - 1) : h[s] = SumOver(h, w, s) /\ s \in Small(n)
    <3>1. \A s \in Small(n - 1) : h[s] = SumOver(h, w, s)
      BY <2>1
    <3>2. \A s \in SUBSET S : Cardinality(s) \in Nat
      BY FS_Subset, FS_CardinalityType
    <3>3. QED
      BY <3>1, <3>2
  <2>3. \A s \in Small(n - 1) : g[s] = h[s]
    BY <2>2
  <2>4. ASSUME NEW s \in Small(n), s # {} PROVE s \ {Chosen(s)} \in Small(n - 1)
    BY <2>4, OneLess
  <2> HIDE DEF Small
  <2>5. \A s \in Small(n) : SumOver(h, w, s) = SumOver(g, w, s)
    <3> HIDE DEF g
    <3>1. QED
      BY <2>3, <2>4 DEF SumOver
  <2>6. g = [s \in Small(n) |-> SumOver(g, w, s)]
    <3>1. [s \in Small(n) |-> SumOver(h, w, s)] = [s \in Small(n) |-> SumOver(g, w, s)]
      <4> HIDE DEF g
      <4>1. QED
        BY <2>5
    <3>2. QED
      BY <3>1 DEF g
  <2>7. QED
    BY <2>6
<1>2. Upto(0)
  <2> DEFINE h == [s \in Small(0) |-> 0]
  <2>1. ASSUME NEW s \in Small(0) PROVE s = {}
    <3>1. IsFiniteSet(s) /\ Cardinality(s) \in Nat /\ Cardinality(s) <= 0
      BY FS_Subset, FS_CardinalityType
    <3>2. QED
      BY <3>1, FS_EmptySet
  <2> HIDE DEF Small
  <2>2. \A s \in Small(0) : SumOver(h, w, s) = 0
    BY <2>1 DEF SumOver
  <2>3. h = [s \in Small(0) |-> SumOver(h, w, s)]
    BY <2>2
  <2>4. QED
    BY <2>3
<1> HIDE DEF Upto
<1>3. Bad = {}
  <2> SUFFICES ASSUME Bad # {} PROVE FALSE
    OBVIOUS
  <2>1. PICK n \in Bad : \A m \in Bad : n <= m
    BY LeastNat
  <2>2. n \in Nat /\ n # 0
    BY <1>2
  <2>3. n - 1 \in Nat /\ n - 1 \notin Bad
    BY <2>1, <2>2
  <2>4. QED
    BY <1>1, <2>2, <2>3
<1>4. Cardinality(S) \in Nat /\ Upto(Cardinality(S))
  BY <1>3, FS_CardinalityType
<1>5. Small(Cardinality(S)) = SUBSET S
  BY FS_Subset
<1>6. QED
  BY <1>4, <1>5 DEF Upto, IsSum

\* The recursion determines its value on every finite set on which the weights
\* agree.
LEMMA SumAgrees ==
    ASSUME NEW h, NEW g, NEW w, NEW v, NEW S, NEW T, IsSum(h, w, S), IsSum(g, v, T),
           NEW U, IsFiniteSet(U), U \subseteq S, U \subseteq T,
           \A x \in U : w[x] = v[x]
    PROVE  h[U] = g[U]
<1> DEFINE Bad == {s \in SUBSET U : h[s] # g[s]}
<1> SUFFICES ASSUME Bad # {} PROVE FALSE
  OBVIOUS
<1>1. PICK s \in Bad : \A t \in Bad : Cardinality(s) <= Cardinality(t)
  BY SmallestSet
<1>2. s \in SUBSET U /\ h[s] # g[s] /\ s \in SUBSET S /\ s \in SUBSET T
  BY <1>1
<1>3. h[s] = SumOver(h, w, s) /\ g[s] = SumOver(g, v, s)
  BY <1>2 DEF IsSum
<1>4. s # {}
  BY <1>2, <1>3 DEF SumOver
<1> DEFINE r == s \ {Chosen(s)}
<1>5. Chosen(s) \in U /\ r \in SUBSET U /\ Cardinality(s) \in Nat /\ Cardinality(r) = Cardinality(s) - 1
  BY <1>2, <1>4, OneLess
<1>6. h[r] # g[r]
  BY <1>2, <1>3, <1>4, <1>5 DEF SumOver
<1>7. r \in Bad
  BY <1>5, <1>6
<1> HIDE DEF r, Bad
<1>8. Cardinality(s) <= Cardinality(r)
  BY <1>1, <1>7
<1>9. QED
  BY <1>5, <1>8

\* The function whose value at S is the sum.
LEMMA SumFunctionOf ==
    ASSUME NEW w, NEW S, IsFiniteSet(S)
    PROVE  \E h : IsSum(h, w, S) /\ SumFunctionOnSet(w, S) = h[S]
BY SumExists, SumUnfold

\* The sum over a smaller set is what the same function gives there.
LEMMA SumWithin ==
    ASSUME NEW h, NEW w, NEW S, IsFiniteSet(S), IsSum(h, w, S), NEW U \in SUBSET S
    PROVE  SumFunctionOnSet(w, U) = h[U]
<1>1. IsFiniteSet(U)
  BY FS_Subset
<1>2. PICK g : IsSum(g, w, U) /\ SumFunctionOnSet(w, U) = g[U]
  BY <1>1, SumFunctionOf
<1>3. h[U] = g[U]
  BY <1>1, <1>2, SumAgrees
<1>4. QED
  BY <1>2, <1>3

-----------------------------------------------------------------------------
(* What the accounts use.                                                  *)

\* Weights that agree on the set have the same sum.
THEOREM SumSame ==
    ASSUME NEW S, IsFiniteSet(S), NEW w, NEW v, \A x \in S : w[x] = v[x]
    PROVE  SumFunctionOnSet(w, S) = SumFunctionOnSet(v, S)
<1>1. PICK h : IsSum(h, w, S) /\ SumFunctionOnSet(w, S) = h[S]
  BY SumFunctionOf
<1>2. PICK g : IsSum(g, v, S) /\ SumFunctionOnSet(v, S) = g[S]
  BY SumFunctionOf
<1>3. QED
  BY <1>1, <1>2, SumAgrees

\* Nothing weighs nothing.
THEOREM SumEmpty ==
    ASSUME NEW w
    PROVE  SumFunctionOnSet(w, {}) = 0
<1>1. PICK h : IsSum(h, w, {}) /\ SumFunctionOnSet(w, {}) = h[{}]
  BY FS_EmptySet, SumFunctionOf
<1>2. QED
  BY <1>1 DEF IsSum, SumOver

\* The sum of a nonempty set, by the element chosen of it.
LEMMA SumChosen ==
    ASSUME NEW S, IsFiniteSet(S), S # {}, NEW w
    PROVE  SumFunctionOnSet(w, S) = w[Chosen(S)] + SumFunctionOnSet(w, S \ {Chosen(S)})
<1>1. PICK h : IsSum(h, w, S) /\ SumFunctionOnSet(w, S) = h[S]
  BY SumFunctionOf
<1>2. SumFunctionOnSet(w, S \ {Chosen(S)}) = h[S \ {Chosen(S)}]
  BY <1>1, OneLess, SumWithin
<1>3. h[S] = SumOver(h, w, S)
  BY <1>1 DEF IsSum
<1>4. QED
  BY <1>1, <1>2, <1>3 DEF SumOver

\* A sum of natural numbers is one.
THEOREM SumNat ==
    ASSUME NEW S, IsFiniteSet(S), NEW w, \A x \in S : w[x] \in Nat
    PROVE  SumFunctionOnSet(w, S) \in Nat
<1> DEFINE Bad == {s \in SUBSET S : SumFunctionOnSet(w, s) \notin Nat}
<1> SUFFICES ASSUME Bad # {} PROVE FALSE
  OBVIOUS
<1>1. PICK s \in Bad : \A t \in Bad : Cardinality(s) <= Cardinality(t)
  BY SmallestSet
<1>2. s \in SUBSET S /\ IsFiniteSet(s) /\ SumFunctionOnSet(w, s) \notin Nat
  BY <1>1, FS_Subset
<1>3. s # {}
  BY <1>2, SumEmpty
<1> DEFINE r == s \ {Chosen(s)}
<1>4. Chosen(s) \in S /\ r \in SUBSET S /\ Cardinality(s) \in Nat /\ Cardinality(r) = Cardinality(s) - 1
  BY <1>2, <1>3, OneLess
<1>5. SumFunctionOnSet(w, s) = w[Chosen(s)] + SumFunctionOnSet(w, r)
  BY <1>2, <1>3, SumChosen
<1> HIDE DEF r
<1>6. SumFunctionOnSet(w, r) \notin Nat
  BY <1>2, <1>4, <1>5
<1>7. r \in Bad
  BY <1>4, <1>6
<1> HIDE DEF Bad
<1>8. Cardinality(s) <= Cardinality(r)
  BY <1>1, <1>7
<1>9. QED
  BY <1>4, <1>8

\* Any element may be taken out first: the order of the fold does not matter.
THEOREM SumRemove ==
    ASSUME NEW S, IsFiniteSet(S), NEW w, \A y \in S : w[y] \in Nat, NEW x \in S
    PROVE  SumFunctionOnSet(w, S) = w[x] + SumFunctionOnSet(w, S \ {x})
<1> DEFINE Sum(s) == SumFunctionOnSet(w, s)
           Bad == {s \in SUBSET S : \E z \in s : Sum(s) # w[z] + Sum(s \ {z})}
<1> SUFFICES ASSUME Bad # {} PROVE FALSE
  OBVIOUS
<1>1. PICK s \in Bad : \A t \in Bad : Cardinality(s) <= Cardinality(t)
  BY SmallestSet
<1>2. PICK z \in s : Sum(s) # w[z] + Sum(s \ {z})
  BY <1>1
<1> DEFINE c == Chosen(s)
<1>3. s \in SUBSET S /\ IsFiniteSet(s) /\ s # {}
  BY <1>1, FS_Subset
<1>4. c \in s /\ Cardinality(s) \in Nat
  BY <1>3, OneLess
<1>5. Sum(s) = w[c] + Sum(s \ {c})
  BY <1>3, SumChosen
<1>6. c # z
  BY <1>2, <1>5
<1> HIDE DEF c
<1>7. ASSUME NEW y \in s, NEW e \in s \ {y}
      PROVE  Sum(s \ {y}) = w[e] + Sum((s \ {y}) \ {e})
  <2>1. s \ {y} \in SUBSET S /\ Cardinality(s \ {y}) = Cardinality(s) - 1
    BY <1>3, FS_RemoveElement
  <2>2. s \ {y} \notin Bad
    <3> HIDE DEF Bad
    <3>1. s \ {y} \in Bad => Cardinality(s) <= Cardinality(s \ {y})
      BY <1>1
    <3>2. QED
      BY <1>4, <2>1, <3>1
  <2>3. QED
    BY <2>1, <2>2
<1>8. (s \ {c}) \ {z} = (s \ {z}) \ {c}
  OBVIOUS
<1> DEFINE rest == Sum((s \ {z}) \ {c})
<1>9. Sum(s \ {c}) = w[z] + rest /\ Sum(s \ {z}) = w[c] + rest
  BY <1>2, <1>4, <1>6, <1>7, <1>8
<1>10. w[z] \in Nat /\ w[c] \in Nat /\ rest \in Nat
  <2>1. IsFiniteSet((s \ {z}) \ {c}) /\ \A y \in (s \ {z}) \ {c} : w[y] \in Nat
    BY <1>3, FS_Subset
  <2>2. rest \in Nat
    BY <2>1, SumNat
  <2>3. QED
    BY <1>3, <1>4, <2>2
<1> HIDE DEF rest, Sum
<1>11. QED
  BY <1>2, <1>5, <1>9, <1>10

\* A part and the rest of it.
THEOREM SumSplit ==
    ASSUME NEW S, IsFiniteSet(S), NEW w, \A x \in S : w[x] \in Nat, NEW T \in SUBSET S
    PROVE  SumFunctionOnSet(w, S) = SumFunctionOnSet(w, T) + SumFunctionOnSet(w, S \ T)
<1> DEFINE Sum(s) == SumFunctionOnSet(w, s)
           Bad == {s \in SUBSET T : Sum(S) # Sum(s) + Sum(S \ s)}
<1> SUFFICES ASSUME T \in Bad PROVE FALSE
  OBVIOUS
<1>1. IsFiniteSet(T) /\ \A s \in SUBSET S : IsFiniteSet(s) /\ Sum(s) \in Nat
  <2>1. \A s \in SUBSET S : IsFiniteSet(s) /\ \A x \in s : w[x] \in Nat
    BY FS_Subset
  <2>2. QED
    BY <2>1, SumNat
<1>2. PICK s \in Bad : \A t \in Bad : Cardinality(s) <= Cardinality(t)
  BY <1>1, SmallestSet
<1>3. s \in SUBSET S /\ s \in SUBSET T /\ IsFiniteSet(s) /\ Sum(S) # Sum(s) + Sum(S \ s)
  BY <1>1, <1>2
<1>4. s # {}
  <2>1. Sum({}) = 0 /\ S \ {} = S /\ Sum(S) \in Nat
    BY <1>1, SumEmpty
  <2>2. QED
    BY <1>3, <2>1
<1> DEFINE c == Chosen(s)
           r == s \ {c}
<1>5. c \in s /\ r \in SUBSET s /\ Cardinality(s) \in Nat /\ Cardinality(r) = Cardinality(s) - 1
  BY <1>3, <1>4, OneLess
<1>6. Sum(s) = w[c] + Sum(r)
  BY <1>3, <1>4, SumChosen
<1> HIDE DEF c
<1>7. Sum(S \ r) = w[c] + Sum(S \ s)
  <2>1. c \in S \ r /\ (S \ r) \ {c} = S \ s /\ IsFiniteSet(S \ r)
    BY <1>1, <1>3, <1>5
  <2>2. QED
    BY <2>1, SumRemove
<1>8. w[c] \in Nat /\ Sum(r) \in Nat /\ Sum(S \ s) \in Nat
  BY <1>1, <1>3, <1>5
<1>9. r \in Bad
  <2> HIDE DEF r, Sum
  <2>1. Sum(S) # Sum(r) + Sum(S \ r)
    BY <1>3, <1>6, <1>7, <1>8
  <2>2. r \in SUBSET T
    BY <1>3, <1>5
  <2>3. QED
    BY <2>1, <2>2
<1> HIDE DEF Bad, r
<1>10. Cardinality(s) <= Cardinality(r)
  BY <1>2, <1>9
<1>11. QED
  BY <1>5, <1>10

\* A part weighs no more than the whole.
THEOREM SumOfPart ==
    ASSUME NEW S, IsFiniteSet(S), NEW w, \A x \in S : w[x] \in Nat, NEW T \in SUBSET S
    PROVE  SumFunctionOnSet(w, T) <= SumFunctionOnSet(w, S)
<1>1. \A s \in SUBSET S : SumFunctionOnSet(w, s) \in Nat
  <2>1. \A s \in SUBSET S : IsFiniteSet(s) /\ \A x \in s : w[x] \in Nat
    BY FS_Subset
  <2>2. QED
    BY <2>1, SumNat
<1>2. SumFunctionOnSet(w, S) = SumFunctionOnSet(w, T) + SumFunctionOnSet(w, S \ T)
  BY SumSplit
<1>3. SumFunctionOnSet(w, T) \in Nat /\ SumFunctionOnSet(w, S \ T) \in Nat
  BY <1>1
<1>4. QED
  BY <1>2, <1>3
====
