------------------------------ MODULE FiniteSums ------------------------------
(***************************************************************************)
(* Facts about sums over finite sets (SumFunctionOnSet of Functions): how  *)
(* they change with the set and with the summands, and how they split.     *)
(***************************************************************************)
EXTENDS Integers, FiniteSets, Functions, FiniteSetTheorems, TLAPS

\* Every non-empty set of subsets of a finite set has a minimal one.
LEMMA MinimalSubset ==
  ASSUME NEW S, IsFiniteSet(S), NEW B, B \subseteq SUBSET S, B # {}
  PROVE  \E U \in B : \A V \in B : V \subseteq U => V = U
<1>1. B \subseteq FiniteSubsetsOf(S)
  BY FS_Subset DEF FiniteSubsetsOf
<1>2. IsWellFoundedOn(StrictSubsetOrdering(S), FiniteSubsetsOf(S))
  BY FS_StrictSubsetOrderingWellFounded
<1>3. PICK U \in B : \A V \in B : ~ (<<V, U>> \in StrictSubsetOrdering(S))
  BY <1>1, <1>2, WFMin
<1>4. QED
  BY <1>3 DEF StrictSubsetOrdering

\* Induction over the subsets of a finite set, for the set G of those with a property.
LEMMA SubsetInduction ==
  ASSUME NEW S, IsFiniteSet(S), NEW G, {} \in G,
         \A U \in SUBSET S : \A x \in S \ U : U \in G => U \cup {x} \in G
  PROVE  SUBSET S \subseteq G
<1> DEFINE Bad == (SUBSET S) \ G
<1>1. SUFFICES ASSUME Bad # {} PROVE FALSE
  OBVIOUS
<1>2. PICK U \in Bad : \A V \in Bad : V \subseteq U => V = U
  <2>1. Bad \subseteq SUBSET S
    OBVIOUS
  <2> HIDE DEF Bad
  <2>2. QED
    BY <1>1, <2>1, MinimalSubset
<1>3. PICK x \in U : TRUE
  <2>1. U # {}
    OBVIOUS
  <2>2. QED
    BY <2>1
<1>4. U = (U \ {x}) \cup {x}
  OBVIOUS
<1>5. U \ {x} \in Bad
  BY <1>4
<1>6. QED
  BY <1>2, <1>5

Ints(f, S) == \A x \in S : f[x] \in Int

\* g adds up f over each subset of S, whichever element is taken first.
Adds(f, S, g) ==
  /\ g = [s \in SUBSET S |-> g[s]]
  /\ g[{}] = 0
  /\ \A s \in SUBSET S : g[s] \in Int /\ \A x \in s : g[s] = f[x] + g[s \ {x}]

LEMMA AddsExist ==
  ASSUME NEW S, IsFiniteSet(S), NEW f, Ints(f, S)
  PROVE  \E g : Adds(f, S, g)
<1> DEFINE G == {T \in SUBSET S : \E g : Adds(f, T, g)}
<1>1. {} \in G
  <2>1. Adds(f, {}, [s \in SUBSET {} |-> 0])
    BY DEF Adds
  <2>2. QED
    BY <2>1
<1>2. ASSUME NEW T \in SUBSET S, NEW y \in S \ T, T \in G
      PROVE  T \cup {y} \in G
  <2>1. PICK g : Adds(f, T, g)
    BY <1>2
  <2>2. f[y] \in Int
    BY DEF Ints
  <2> DEFINE R == T \cup {y}
             h == [s \in SUBSET R |-> IF y \in s THEN f[y] + g[s \ {y}] ELSE g[s]]
  <2>3. \A s \in SUBSET R : s \ {y} \in SUBSET T /\ (y \notin s => s \in SUBSET T)
    OBVIOUS
  <2>4. \A s \in SUBSET T : g[s] \in Int /\ \A x \in s : g[s] = f[x] + g[s \ {x}]
    BY <2>1 DEF Adds
  <2>5. ASSUME NEW s \in SUBSET R PROVE h[s] \in Int
    <3>1. CASE y \in s
      <4>1. g[s \ {y}] \in Int
        BY <2>3, <2>4
      <4>2. QED
        BY <2>2, <3>1, <4>1
    <3>2. CASE y \notin s
      <4>1. g[s] \in Int
        BY <2>3, <2>4, <3>2
      <4>2. QED
        BY <3>2, <4>1
    <3>3. QED
      BY <3>1, <3>2
  <2>6. ASSUME NEW s \in SUBSET R, NEW x \in s
        PROVE  h[s] = f[x] + h[s \ {x}]
    <3>1. s \ {x} \in SUBSET R
      OBVIOUS
    <3>2. CASE x = y
      BY <3>1, <3>2
    <3>3. CASE x # y /\ y \in s
      <4>1. s \ {y} \in SUBSET T /\ x \in s \ {y} /\ (s \ {y}) \ {x} = (s \ {x}) \ {y}
        BY <2>3, <3>3
      <4>2. g[s \ {y}] = f[x] + g[(s \ {y}) \ {x}]
        BY <2>4, <4>1
      <4>3. (s \ {x}) \ {y} \in SUBSET T
        BY <4>1
      <4>4. g[s \ {y}] = f[x] + g[(s \ {x}) \ {y}] /\ g[(s \ {x}) \ {y}] \in Int
        BY <2>4, <4>1, <4>2, <4>3
      <4>5. h[s] = f[y] + g[s \ {y}] /\ h[s \ {x}] = f[y] + g[(s \ {x}) \ {y}]
        BY <3>1, <3>3
      <4>6. f[x] \in Int
        BY DEF Ints
      <4>7. QED
        BY <2>2, <4>4, <4>5, <4>6
    <3>4. CASE y \notin s
      <4>1. s \in SUBSET T
        BY <3>4
      <4>2. h[s] = g[s] /\ h[s \ {x}] = g[s \ {x}]
        BY <3>1, <3>4
      <4>3. QED
        BY <2>1, <4>1, <4>2 DEF Adds
    <3>5. QED
      BY <3>2, <3>3, <3>4
  <2>7. h[{}] = 0
    BY <2>1 DEF Adds
  <2>8. h = [s \in SUBSET R |-> h[s]]
    OBVIOUS
  <2>9. Adds(f, R, h)
    <3> HIDE DEF h, R
    <3>1. QED
      BY <2>5, <2>6, <2>7, <2>8 DEF Adds
  <2>10. QED
    BY <2>9
<1>3. SUBSET S \subseteq G
  <2> HIDE DEF G
  <2>1. QED
    BY <1>1, <1>2, SubsetInduction
<1>4. QED
  BY <1>3

\* The library adds up in one order of its own.
LEMMA SumIsAdded ==
  ASSUME NEW S, IsFiniteSet(S), NEW f, NEW g, Adds(f, S, g)
  PROVE  SumFunctionOnSet(f, S) = g[S]
<1> DEFINE pick(s) == CHOOSE x \in s : TRUE
           Iter(h) == h = [s \in SUBSET S |-> IF s = {} THEN 0 ELSE f[pick(s)] + h[s \ {pick(s)}]]
           k == CHOOSE h : Iter(h)
<1>1. SumFunctionOnSet(f, S) = k[S]
  BY DEF SumFunctionOnSet, FoldFunctionOnSet, MapThenFoldSet
<1>2. \A s \in SUBSET S : s # {} => pick(s) \in s
  OBVIOUS
<1>3. Iter(g)
  <2>1. \A s \in SUBSET S :
          g[s] = IF s = {} THEN 0 ELSE f[pick(s)] + g[s \ {pick(s)}]
    <3> HIDE DEF pick
    <3>1. QED
      BY <1>2 DEF Adds
  <2>2. g = [s \in SUBSET S |-> g[s]]
    BY DEF Adds
  <2> HIDE DEF pick
  <2>3. QED
    BY <2>1, <2>2
<1>4. Iter(k)
  <2> HIDE DEF Iter
  <2>1. QED
    BY <1>3
<1>5. \A s \in SUBSET S : k[s] = IF s = {} THEN 0 ELSE f[pick(s)] + k[s \ {pick(s)}]
  <2> HIDE DEF k, pick
  <2>1. QED
    BY <1>4
<1> HIDE DEF k, Iter
<1> DEFINE Bad == {s \in SUBSET S : k[s] # g[s]}
<1>6. Bad = {}
  <2>1. SUFFICES ASSUME Bad # {} PROVE FALSE
    OBVIOUS
  <2>2. PICK U \in Bad : \A V \in Bad : V \subseteq U => V = U
    <3>1. Bad \subseteq SUBSET S
      OBVIOUS
    <3> HIDE DEF Bad
    <3>2. QED
      BY <2>1, <3>1, MinimalSubset
  <2>3. U # {}
    BY <1>5 DEF Adds
  <2>4. PICK x : x = pick(U)
    OBVIOUS
  <2>5. x \in U
    BY <1>2, <2>3, <2>4
  <2>6. U \ {x} \notin Bad
    BY <2>2, <2>5
  <2>7. k[U \ {x}] = g[U \ {x}]
    BY <2>6
  <2>8. k[U] = f[x] + k[U \ {x}]
    <3> HIDE DEF pick
    <3>1. QED
      BY <1>5, <2>3, <2>4
  <2>9. g[U] = f[x] + g[U \ {x}]
    BY <2>5 DEF Adds
  <2>10. QED
    BY <2>7, <2>8, <2>9
<1>7. QED
  BY <1>1, <1>6

\* A sum is zero over nothing, and any summand may be taken out of it.
THEOREM SumTakesOut ==
  ASSUME NEW S, IsFiniteSet(S), NEW f, Ints(f, S)
  PROVE  /\ SumFunctionOnSet(f, S) \in Int
         /\ S = {} => SumFunctionOnSet(f, S) = 0
         /\ \A x \in S : SumFunctionOnSet(f, S) = f[x] + SumFunctionOnSet(f, S \ {x})
<1>1. PICK g : Adds(f, S, g)
  BY AddsExist
<1>2. SumFunctionOnSet(f, S) = g[S]
  BY <1>1, SumIsAdded
<1>3. ASSUME NEW x \in S
      PROVE  SumFunctionOnSet(f, S) = f[x] + SumFunctionOnSet(f, S \ {x})
  <2> DEFINE R == S \ {x}
             h == [s \in SUBSET R |-> g[s]]
  <2>1. \A s \in SUBSET R : s \in SUBSET S /\ \A y \in s : s \ {y} \in SUBSET R
    OBVIOUS
  <2>2. /\ h = [s \in SUBSET R |-> h[s]] /\ h[{}] = 0
        /\ \A s \in SUBSET R : h[s] \in Int /\ \A y \in s : h[s] = f[y] + h[s \ {y}]
    BY <1>1, <2>1 DEF Adds
  <2>3. Adds(f, R, h) /\ h[R] = g[R]
    <3>1. h[R] = g[R]
      OBVIOUS
    <3> HIDE DEF h, R
    <3>2. QED
      BY <2>2, <3>1 DEF Adds
  <2>4. IsFiniteSet(R)
    BY FS_RemoveElement
  <2>5. SumFunctionOnSet(f, R) = g[R]
    <3> HIDE DEF h, R
    <3>1. QED
      BY <2>3, <2>4, SumIsAdded
  <2>6. g[S] = f[x] + g[R]
    BY <1>1 DEF Adds
  <2>7. QED
    BY <1>2, <2>5, <2>6
<1>4. QED
  BY <1>1, <1>2, <1>3 DEF Adds

-----------------------------------------------------------------------------

\* What a sum gains with an element.
LEMMA SumGains ==
  ASSUME NEW S, IsFiniteSet(S), NEW f, Ints(f, S),
         NEW T \in SUBSET S, NEW x \in S \ T
  PROVE  /\ SumFunctionOnSet(f, T \cup {x}) = SumFunctionOnSet(f, T) + f[x]
         /\ SumFunctionOnSet(f, T) \in Int /\ f[x] \in Int
<1>1. PICK R : R = T \cup {x}
  OBVIOUS
<1>2. IsFiniteSet(R) /\ IsFiniteSet(T) /\ R \ {x} = T /\ x \in R
  <2>1. R \in SUBSET S /\ R \ {x} = T /\ x \in R
    BY <1>1
  <2>2. QED
    BY <2>1, FS_Subset
<1>3. Ints(f, R) /\ Ints(f, T) /\ f[x] \in Int
  BY <1>1 DEF Ints
<1>4. SumFunctionOnSet(f, R) = f[x] + SumFunctionOnSet(f, R \ {x})
  BY <1>2, <1>3, SumTakesOut
<1>5. SumFunctionOnSet(f, T) \in Int
  BY <1>2, <1>3, SumTakesOut
<1>6. SumFunctionOnSet(f, R) = f[x] + SumFunctionOnSet(f, T)
  BY <1>2, <1>4, Zenon
<1>7. SumFunctionOnSet(f, T \cup {x}) = f[x] + SumFunctionOnSet(f, T)
  BY <1>1, <1>6, Zenon
<1>8. QED
  BY <1>3, <1>5, <1>7

\* The sum depends on the summands over the set only, and grows with them.
THEOREM SumMonotone ==
  ASSUME NEW S, IsFiniteSet(S), NEW f, NEW g, Ints(f, S), Ints(g, S),
         \A x \in S : f[x] <= g[x]
  PROVE  SumFunctionOnSet(f, S) <= SumFunctionOnSet(g, S)
<1> DEFINE G == {T \in SUBSET S : SumFunctionOnSet(f, T) <= SumFunctionOnSet(g, T)}
<1>1. {} \in G
  BY FS_EmptySet, SumTakesOut DEF Ints
<1>2. ASSUME NEW T \in SUBSET S, NEW x \in S \ T, T \in G
      PROVE  T \cup {x} \in G
  BY <1>2, SumGains
<1>3. SUBSET S \subseteq G
  <2> HIDE DEF G
  <2>1. QED
    BY <1>1, <1>2, SubsetInduction
<1>4. QED
  BY <1>3

THEOREM SumSame ==
  ASSUME NEW S, IsFiniteSet(S), NEW f, NEW g, Ints(f, S), \A x \in S : f[x] = g[x]
  PROVE  SumFunctionOnSet(f, S) = SumFunctionOnSet(g, S)
<1>1. Ints(g, S) /\ \A x \in S : f[x] <= g[x] /\ g[x] <= f[x]
  BY DEF Ints
<1>2. SumFunctionOnSet(f, S) <= SumFunctionOnSet(g, S)
  BY <1>1, SumMonotone
<1>3. SumFunctionOnSet(g, S) <= SumFunctionOnSet(f, S)
  BY <1>1, SumMonotone
<1>4. SumFunctionOnSet(f, S) \in Int /\ SumFunctionOnSet(g, S) \in Int
  BY <1>1, SumTakesOut
<1>5. QED
  BY <1>2, <1>3, <1>4

\* The sum of sums of two summands.
THEOREM SumPlus ==
  ASSUME NEW S, IsFiniteSet(S), NEW f, NEW g, NEW h, Ints(f, S), Ints(g, S),
         \A x \in S : h[x] = f[x] + g[x]
  PROVE  SumFunctionOnSet(h, S) = SumFunctionOnSet(f, S) + SumFunctionOnSet(g, S)
<1> DEFINE G == {T \in SUBSET S : SumFunctionOnSet(h, T) =
                                    SumFunctionOnSet(f, T) + SumFunctionOnSet(g, T)}
<1>1. Ints(h, S)
  BY DEF Ints
<1>2. {} \in G
  BY FS_EmptySet, SumTakesOut DEF Ints
<1>3. ASSUME NEW T \in SUBSET S, NEW x \in S \ T, T \in G
      PROVE  T \cup {x} \in G
  <2>1. /\ SumFunctionOnSet(f, T \cup {x}) = SumFunctionOnSet(f, T) + f[x]
        /\ SumFunctionOnSet(f, T) \in Int /\ f[x] \in Int
    BY SumGains
  <2>2. /\ SumFunctionOnSet(g, T \cup {x}) = SumFunctionOnSet(g, T) + g[x]
        /\ SumFunctionOnSet(g, T) \in Int /\ g[x] \in Int
    BY SumGains
  <2>3. SumFunctionOnSet(h, T \cup {x}) = SumFunctionOnSet(h, T) + h[x]
    BY <1>1, SumGains
  <2>4. SumFunctionOnSet(h, T) = SumFunctionOnSet(f, T) + SumFunctionOnSet(g, T)
    BY <1>3
  <2>5. h[x] = f[x] + g[x]
    OBVIOUS
  <2>6. QED
    BY <2>1, <2>2, <2>3, <2>4, <2>5
<1>4. SUBSET S \subseteq G
  <2> HIDE DEF G
  <2>1. QED
    BY <1>2, <1>3, SubsetInduction
<1>5. QED
  BY <1>4

\* A sum of equal summands.
THEOREM SumConstant ==
  ASSUME NEW S, IsFiniteSet(S), NEW f, NEW c \in Int, \A x \in S : f[x] = c
  PROVE  SumFunctionOnSet(f, S) = c * Cardinality(S)
<1> DEFINE G == {T \in SUBSET S : SumFunctionOnSet(f, T) = c * Cardinality(T)}
<1>1. Ints(f, S)
  BY DEF Ints
<1>2. {} \in G
  <2>1. SumFunctionOnSet(f, {}) = 0 /\ Cardinality({}) = 0
    BY FS_EmptySet, SumTakesOut DEF Ints
  <2>2. c * 0 = 0
    OBVIOUS
  <2>3. QED
    BY <2>1, <2>2
<1>3. ASSUME NEW T \in SUBSET S, NEW x \in S \ T, T \in G
      PROVE  T \cup {x} \in G
  <2>1. SumFunctionOnSet(f, T \cup {x}) = SumFunctionOnSet(f, T) + c
    BY <1>1, SumGains
  <2>2. IsFiniteSet(T) /\ Cardinality(T) \in Nat
    BY FS_Subset, FS_CardinalityType
  <2>3. Cardinality(T \cup {x}) = Cardinality(T) + 1
    BY <2>2, FS_AddElement
  <2>4. c * (Cardinality(T) + 1) = c * Cardinality(T) + c
    BY <2>2
  <2>5. QED
    BY <1>3, <2>1, <2>3, <2>4
<1>4. SUBSET S \subseteq G
  <2> HIDE DEF G
  <2>1. QED
    BY <1>2, <1>3, SubsetInduction
<1>5. QED
  BY <1>4

\* More summands, none of them negative.
THEOREM SumSubset ==
  ASSUME NEW S, IsFiniteSet(S), NEW f, \A x \in S : f[x] \in Nat, NEW R \in SUBSET S
  PROVE  SumFunctionOnSet(f, R) <= SumFunctionOnSet(f, S)
<1> DEFINE D == S \ R
           G == {T \in SUBSET D : SumFunctionOnSet(f, R) <= SumFunctionOnSet(f, R \cup T)}
<1>1. Ints(f, S) /\ IsFiniteSet(R) /\ IsFiniteSet(D) /\ Ints(f, R)
  BY FS_Subset DEF Ints
<1>2. {} \in G
  <2>1. SumFunctionOnSet(f, R) \in Int
    BY <1>1, SumTakesOut
  <2>2. R \cup {} = R
    OBVIOUS
  <2>3. QED
    BY <2>1, <2>2
<1>3. ASSUME NEW T \in SUBSET D, NEW x \in D \ T, T \in G
      PROVE  T \cup {x} \in G
  <2>1. R \cup T \in SUBSET S /\ x \in S \ (R \cup T)
    OBVIOUS
  <2>2. SumFunctionOnSet(f, (R \cup T) \cup {x}) = SumFunctionOnSet(f, R \cup T) + f[x]
        /\ SumFunctionOnSet(f, R \cup T) \in Int
    <3>1. PICK Q : Q = R \cup T
      OBVIOUS
    <3>2. Q \in SUBSET S /\ x \in S \ Q
      BY <2>1, <3>1
    <3>3. SumFunctionOnSet(f, Q \cup {x}) = SumFunctionOnSet(f, Q) + f[x]
          /\ SumFunctionOnSet(f, Q) \in Int
      <4> HIDE DEF G, D
      <4>1. QED
        BY <1>1, <3>2, SumGains
    <3>4. QED
      BY <3>1, <3>3
  <2>3. (R \cup T) \cup {x} = R \cup (T \cup {x})
    OBVIOUS
  <2>4. f[x] \in Nat /\ SumFunctionOnSet(f, R) \in Int
    BY <1>1, SumTakesOut
  <2>5. SumFunctionOnSet(f, R) <= SumFunctionOnSet(f, R \cup T)
    BY <1>3
  <2>6. SumFunctionOnSet(f, R) <= SumFunctionOnSet(f, (R \cup T) \cup {x})
    BY <2>2, <2>4, <2>5
  <2>7. QED
    BY <2>3, <2>6
<1>4. SUBSET D \subseteq G
  <2> HIDE DEF G, D
  <2>1. QED
    BY <1>1, <1>2, <1>3, SubsetInduction
<1>5. R \cup D = S
  OBVIOUS
<1>6. QED
  BY <1>4, <1>5

\* Summands that are zero add nothing.
THEOREM SumOfNonzero ==
  ASSUME NEW S, IsFiniteSet(S), NEW f, Ints(f, S), NEW R \in SUBSET S,
         \A x \in S \ R : f[x] = 0
  PROVE  SumFunctionOnSet(f, S) = SumFunctionOnSet(f, R)
<1> DEFINE D == S \ R
           G == {T \in SUBSET D : SumFunctionOnSet(f, R \cup T) = SumFunctionOnSet(f, R)}
<1>1. IsFiniteSet(D)
  BY FS_Subset
<1>2. {} \in G
  <2>1. R \cup {} = R
    OBVIOUS
  <2>2. QED
    BY <2>1
<1>3. ASSUME NEW T \in SUBSET D, NEW x \in D \ T, T \in G
      PROVE  T \cup {x} \in G
  <2>1. PICK Q : Q = R \cup T
    OBVIOUS
  <2>2. Q \in SUBSET S /\ x \in S \ Q
    BY <2>1
  <2>3. SumFunctionOnSet(f, Q \cup {x}) = SumFunctionOnSet(f, Q) + f[x]
        /\ SumFunctionOnSet(f, Q) \in Int
    <3> HIDE DEF G, D
    <3>1. QED
      BY <2>2, SumGains
  <2>4. SumFunctionOnSet(f, Q) = SumFunctionOnSet(f, R)
    BY <1>3, <2>1
  <2>5. SumFunctionOnSet(f, Q \cup {x}) = SumFunctionOnSet(f, R)
    <3>1. f[x] = 0
      OBVIOUS
    <3>2. QED
      BY <2>3, <2>4, <3>1
  <2>6. Q \cup {x} = R \cup (T \cup {x})
    BY <2>1
  <2>7. SumFunctionOnSet(f, R \cup (T \cup {x})) = SumFunctionOnSet(f, R)
    BY <2>5, <2>6, Zenon
  <2>8. T \cup {x} \in SUBSET D
    OBVIOUS
  <2>9. QED
    BY <2>7, <2>8
<1>4. SUBSET D \subseteq G
  <2> HIDE DEF G, D
  <2>1. QED
    BY <1>1, <1>2, <1>3, SubsetInduction
<1>5. R \cup D = S
  OBVIOUS
<1>6. SumFunctionOnSet(f, R \cup D) = SumFunctionOnSet(f, R)
  BY <1>4
<1>7. QED
  BY <1>5, <1>6, Zenon

\* The part of a sum that belongs to each value of k.
Fiber(S, k, u) == {x \in S : k[x] = u}

\* A sum splits into the sums of its parts.
THEOREM SumOfParts ==
  ASSUME NEW S, IsFiniteSet(S), NEW f, Ints(f, S),
         NEW U, IsFiniteSet(U), NEW k, \A x \in S : k[x] \in U
  PROVE  SumFunctionOnSet([u \in U |-> SumFunctionOnSet(f, Fiber(S, k, u))], U)
           = SumFunctionOnSet(f, S)
<1> DEFINE Part(T) == [u \in U |-> SumFunctionOnSet(f, Fiber(T, k, u))]
           G == {T \in SUBSET S : SumFunctionOnSet(Part(T), U) = SumFunctionOnSet(f, T)}
<1>1. \A T \in SUBSET S : \A u : Fiber(T, k, u) \in SUBSET S /\ IsFiniteSet(Fiber(T, k, u))
                                  /\ Ints(f, Fiber(T, k, u))
  BY FS_Subset DEF Fiber, Ints
<1>2. \A T \in SUBSET S : Ints(Part(T), U)
  BY <1>1, SumTakesOut DEF Ints
<1>3. {} \in G
  <2>1. \A u \in U : Part({})[u] = 0
    <3>1. \A u : Fiber({}, k, u) = {}
      BY DEF Fiber
    <3>2. SumFunctionOnSet(f, {}) = 0
      BY FS_EmptySet, SumTakesOut DEF Ints
    <3>3. QED
      BY <3>1, <3>2
  <2>2. SumFunctionOnSet(Part({}), U) = 0 * Cardinality(U)
    <3>1. PICK p : p = Part({})
      OBVIOUS
    <3>2. \A u \in U : p[u] = 0
      <4> HIDE DEF Part
      <4>1. QED
        BY <2>1, <3>1
    <3>3. SumFunctionOnSet(p, U) = 0 * Cardinality(U)
      BY <3>2, SumConstant
    <3>4. QED
      BY <3>1, <3>3
  <2>3. SumFunctionOnSet(f, {}) = 0 /\ Cardinality(U) \in Nat
    BY FS_EmptySet, SumTakesOut, FS_CardinalityType DEF Ints
  <2>4. QED
    <3> HIDE DEF Part
    <3>1. QED
      BY <2>2, <2>3
<1>4. ASSUME NEW T \in SUBSET S, NEW y \in S \ T, T \in G
      PROVE  T \cup {y} \in G
  <2>1. PICK v : v = k[y]
    OBVIOUS
  <2>2. v \in U /\ f[y] \in Int
    BY <2>1 DEF Ints
  <2>3. PICK delta : delta = [u \in U |-> IF u = v THEN f[y] ELSE 0]
    OBVIOUS
  <2>4. SumFunctionOnSet(delta, U) = f[y]
    <3>1. Ints(delta, U)
      BY <2>2, <2>3 DEF Ints
    <3>2. SumFunctionOnSet(delta, U) = delta[v] + SumFunctionOnSet(delta, U \ {v})
      BY <2>2, <3>1, SumTakesOut
    <3>3. IsFiniteSet(U \ {v}) /\ Cardinality(U \ {v}) \in Nat
      BY FS_RemoveElement, FS_CardinalityType
    <3>4. \A u \in U \ {v} : delta[u] = 0
      BY <2>3
    <3>5. SumFunctionOnSet(delta, U \ {v}) = 0 * Cardinality(U \ {v})
      BY <3>3, <3>4, SumConstant
    <3>6. delta[v] = f[y]
      BY <2>2, <2>3
    <3>7. QED
      BY <2>2, <3>2, <3>3, <3>5, <3>6
  <2>5. ASSUME NEW u \in U
        PROVE  Part(T \cup {y})[u] = Part(T)[u] + delta[u]
    <3>1. CASE u = v
      <4>1. Fiber(T \cup {y}, k, u) = Fiber(T, k, u) \cup {y} /\ y \notin Fiber(T, k, u)
        BY <2>1, <3>1 DEF Fiber
      <4>2. SumFunctionOnSet(f, Fiber(T, k, u) \cup {y}) = SumFunctionOnSet(f, Fiber(T, k, u)) + f[y]
        BY <1>1, <4>1, SumGains
      <4>3. QED
        BY <2>3, <3>1, <4>1, <4>2
    <3>2. CASE u # v
      <4>1. Fiber(T \cup {y}, k, u) = Fiber(T, k, u)
        BY <2>1, <3>2 DEF Fiber
      <4>2. SumFunctionOnSet(f, Fiber(T, k, u)) \in Int
        BY <1>1, SumTakesOut
      <4>3. QED
        BY <2>3, <3>2, <4>1, <4>2
    <3>3. QED
      BY <3>1, <3>2
  <2>6. SumFunctionOnSet(Part(T \cup {y}), U)
          = SumFunctionOnSet(Part(T), U) + SumFunctionOnSet(delta, U)
    <3>1. Ints(Part(T), U) /\ Ints(delta, U)
      BY <1>2, <2>2, <2>3 DEF Ints
    <3> HIDE DEF Part
    <3>2. QED
      BY <2>5, <3>1, SumPlus
  <2>7. SumFunctionOnSet(f, T \cup {y}) = SumFunctionOnSet(f, T) + f[y]
    BY SumGains
  <2>8. QED
    <3> HIDE DEF Part
    <3>1. QED
      BY <1>4, <2>4, <2>6, <2>7
<1>5. SUBSET S \subseteq G
  <2> HIDE DEF G
  <2>1. QED
    BY <1>3, <1>4, SubsetInduction
<1>6. QED
  BY <1>5

=============================================================================
