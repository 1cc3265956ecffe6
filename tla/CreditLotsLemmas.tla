--------------------------- MODULE CreditLotsLemmas ---------------------------
(***************************************************************************)
(* First what the community operator SumFunctionOnSet computes over a      *)
(* finite set.  The library's induction theorems take an operator as a     *)
(* parameter, which the provers cannot instantiate; FiniteInduction below  *)
(* states induction for a set of sets instead and gets it from the         *)
(* well-foundedness of strict inclusion.                                   *)
(*                                                                         *)
(* Then what the operators of CreditLots compute, for any lots, debts and  *)
(* amounts: a walk takes exactly what is asked, never more than a stop     *)
(* holds, the order in which it goes exists, and the sums come out right.  *)
(*                                                                         *)
(* Last the same by deadline: what sweeping, spending, giving back,        *)
(* reclaiming and granting do to the credits that die on each date.        *)
(***************************************************************************)
EXTENDS CreditLots, FiniteSetTheorems, SequenceTheorems, WellFoundedInduction, TLAPS

\* Induction over the finite subsets of S, the property given as a set P of
\* sets: if P holds of a set whenever it holds of its strict subsets, S is in P.
LEMMA StrongFiniteInduction ==
  ASSUME NEW S, IsFiniteSet(S), NEW P,
         \A T \in SUBSET S :
           (\A U \in SUBSET T : U # T => U \in P) => T \in P
  PROVE  S \in P
<1> DEFINE Bad == {T \in SUBSET S : T \notin P}
<1>1. SUFFICES ASSUME Bad # {} PROVE FALSE
  OBVIOUS
<1>2. Bad \subseteq FiniteSubsetsOf(S)
  BY FS_Subset DEF FiniteSubsetsOf
<1>3. PICK T \in Bad : \A U \in Bad : ~ (<<U, T>> \in StrictSubsetOrdering(S))
  <2> HIDE DEF Bad
  <2> QED BY <1>1, <1>2, FS_StrictSubsetOrderingWellFounded, WFMin
<1>4. ASSUME NEW U \in SUBSET T, U # T
      PROVE  U \in P
  BY <1>3, <1>4 DEF StrictSubsetOrdering
<1> QED
  BY <1>4

\* The same with one element added at a time.
LEMMA FiniteInduction ==
  ASSUME NEW S, IsFiniteSet(S), NEW P, {} \in P,
         \A T \in SUBSET S : \A x \in S \ T : T \in P => T \cup {x} \in P
  PROVE  S \in P
<1>1. ASSUME NEW T \in SUBSET S, \A U \in SUBSET T : U # T => U \in P
      PROVE  T \in P
  <2>1. CASE T = {}
    BY <2>1
  <2>2. CASE T # {}
    <3>1. PICK x : x \in T
      BY <2>2
    <3>2. T \ {x} \in P /\ (T \ {x}) \cup {x} = T /\ x \in S \ (T \ {x})
      BY <3>1, <1>1
    <3> QED BY <3>2
  <2> QED BY <2>1, <2>2
<1> QED
  BY <1>1, StrongFiniteInduction

-------------------------------------------------------------------------------
\* The recursive function inside SumFunctionOnSet, and its defining equation.
Pick(s) == CHOOSE x \in s : TRUE

IsIter(f, S, g) ==
  g = [s \in SUBSET S |-> IF s = {} THEN 0 ELSE f[Pick(s)] + g[s \ {Pick(s)}]]

Iter(f, S) == CHOOSE g : IsIter(f, S, g)

\* The community fold over a set, as an iteration over the set's subsets.
LEMMA SumIsIter ==
  ASSUME NEW f, NEW S
  PROVE  SumFunctionOnSet(f, S) = Iter(f, S)[S]
BY DEF SumFunctionOnSet, FoldFunctionOnSet, MapThenFoldSet, IsIter, Iter, Pick

\* A function that satisfies the equation exists on the subsets of a finite set.
LEMMA IterExists ==
  ASSUME NEW f, NEW S, IsFiniteSet(S)
  PROVE  IsIter(f, S, Iter(f, S))
<1> DEFINE Upto(n) == {s \in SUBSET S : Cardinality(s) <= n}
    Good(n, g) == g = [s \in Upto(n) |->
                   IF s = {} THEN 0 ELSE f[Pick(s)] + g[s \ {Pick(s)}]]
    N == Cardinality(S)
    P == {T \in SUBSET S : \E g : Good(Cardinality(T), g)}
<1>1. \A T \in SUBSET S : IsFiniteSet(T) /\ Cardinality(T) \in Nat /\ Cardinality(T) <= N
  BY FS_Subset, FS_CardinalityType
<1>2. \A T \in SUBSET S : T # {} =>
        /\ Pick(T) \in T
        /\ T \ {Pick(T)} \in SUBSET S
        /\ Cardinality(T \ {Pick(T)}) = Cardinality(T) - 1
  <2>1. \A T : T # {} => Pick(T) \in T
    BY DEF Pick
  <2> QED BY <2>1, <1>1, FS_RemoveElement
<1>3. {} \in P
  <2>1. Upto(0) = {{}}
    BY <1>1, FS_EmptySet
  <2>2. Good(0, [s \in {{}} |-> 0])
    BY <2>1
  <2> QED BY <2>2, FS_EmptySet
<1>4. ASSUME NEW T \in SUBSET S, NEW x \in S \ T, T \in P
      PROVE  T \cup {x} \in P
  <2> DEFINE n == Cardinality(T)
  <2>1. n \in Nat /\ Cardinality(T \cup {x}) = n + 1
    BY <1>1, FS_AddElement
  <2>2. PICK g : Good(n, g)
    BY <1>4
  <2> DEFINE h == [s \in Upto(n+1) |->
                IF s = {} THEN 0 ELSE f[Pick(s)] + g[s \ {Pick(s)}]]
  <2>3. \A s \in Upto(n) : h[s] = g[s]
    <3>1. Upto(n) \subseteq Upto(n+1)
      BY <2>1, <1>1
    <3>2. \A s \in Upto(n) :
            g[s] = IF s = {} THEN 0 ELSE f[Pick(s)] + g[s \ {Pick(s)}]
      <4> HIDE DEF Upto
      <4> QED BY <2>2
    <3> HIDE DEF Upto
    <3> QED BY <3>1, <3>2
  <2>4. \A s \in Upto(n+1) : s # {} => s \ {Pick(s)} \in Upto(n)
    BY <2>1, <1>1, <1>2
  <2>5. Good(n+1, h)
    BY <2>3, <2>4
  <2> HIDE DEF h, Good
  <2> QED BY <2>1, <2>5
<1>5. S \in P
  <2> HIDE DEF P
  <2> QED BY <1>3, <1>4, FiniteInduction
<1>6. Upto(N) = SUBSET S
  BY <1>1
<1>7. \E g : IsIter(f, S, g)
  BY <1>5, <1>6 DEF IsIter
<1> QED
  BY <1>7 DEF Iter

\* Iter does not depend on the set it was built for.
LEMMA IterSubset ==
  ASSUME NEW f, NEW S, IsFiniteSet(S), NEW T \in SUBSET S
  PROVE  Iter(f, S)[T] = Iter(f, T)[T]
<1> DEFINE P == {U \in SUBSET T : Iter(f, S)[U] = Iter(f, T)[U]}
<1>1. IsFiniteSet(T) /\ IsIter(f, S, Iter(f, S)) /\ IsIter(f, T, Iter(f, T))
  BY FS_Subset, IterExists
<1>2. ASSUME NEW U \in SUBSET T, \A V \in SUBSET U : V # U => V \in P
      PROVE  U \in P
  <2>1. U # {} => /\ U \ {Pick(U)} \in SUBSET U
                  /\ U \ {Pick(U)} # U
    BY DEF Pick
  <2>2. U # {} => U \ {Pick(U)} \in P
    BY <2>1, <1>2
  <2> DEFINE G == Iter(f, S)  H == Iter(f, T)
  <2>3. /\ G[U] = IF U = {} THEN 0 ELSE f[Pick(U)] + G[U \ {Pick(U)}]
        /\ H[U] = IF U = {} THEN 0 ELSE f[Pick(U)] + H[U \ {Pick(U)}]
    <3> HIDE DEF G, H
    <3>1. IsIter(f, S, G) /\ IsIter(f, T, H)
      BY <1>1 DEF G, H
    <3>2. U \in SUBSET S
      OBVIOUS
    <3> QED BY <3>1, <3>2 DEF IsIter
  <2> QED BY <2>2, <2>3
<1>3. T \in P
  <2> HIDE DEF P
  <2> QED BY <1>1, <1>2, StrongFiniteInduction
<1> QED
  BY <1>3

\* The sum over nothing, and the sum taken apart at the element picked.
LEMMA SumEmpty == \A f : SumFunctionOnSet(f, {}) = 0
<1>1. ASSUME NEW f PROVE SumFunctionOnSet(f, {}) = 0
  <2>1. IsIter(f, {}, Iter(f, {}))
    BY IterExists, FS_EmptySet
  <2> QED BY <2>1, SumIsIter DEF IsIter
<1> QED BY <1>1

\* The element the fold picks first does not matter.
LEMMA SumPick ==
  ASSUME NEW f, NEW S, IsFiniteSet(S), S # {}
  PROVE  /\ Pick(S) \in S
         /\ SumFunctionOnSet(f, S)
              = f[Pick(S)] + SumFunctionOnSet(f, S \ {Pick(S)})
<1>1. Pick(S) \in S
  BY DEF Pick
<1>2. IsIter(f, S, Iter(f, S))
  BY IterExists
<1>3. Iter(f, S)[S] = f[Pick(S)] + Iter(f, S)[S \ {Pick(S)}]
  <2> DEFINE G == Iter(f, S)
  <2> HIDE DEF G
  <2>1. IsIter(f, S, G)
    BY <1>2 DEF G
  <2>2. G[S] = f[Pick(S)] + G[S \ {Pick(S)}]
    BY <2>1 DEF IsIter
  <2> QED BY <2>2 DEF G
<1>4. Iter(f, S)[S \ {Pick(S)}] = Iter(f, S \ {Pick(S)})[S \ {Pick(S)}]
  BY IterSubset
<1> QED
  BY <1>1, <1>3, <1>4, SumIsIter

\* A sum of integers is an integer; a sum of naturals a natural.
LEMMA SumInt ==
  ASSUME NEW f, NEW S, IsFiniteSet(S), \A x \in S : f[x] \in Int
  PROVE  SumFunctionOnSet(f, S) \in Int
<1> DEFINE P == {T \in SUBSET S : SumFunctionOnSet(f, T) \in Int}
<1>1. ASSUME NEW T \in SUBSET S, \A U \in SUBSET T : U # T => U \in P
      PROVE  T \in P
  <2>1. CASE T = {}
    BY <2>1, SumEmpty
  <2>2. CASE T # {}
    <3>1. IsFiniteSet(T)
      BY FS_Subset
    <3>2. /\ Pick(T) \in T
          /\ SumFunctionOnSet(f, T)
               = f[Pick(T)] + SumFunctionOnSet(f, T \ {Pick(T)})
      BY <2>2, <3>1, SumPick
    <3>3. T \ {Pick(T)} \in P
      BY <3>2, <1>1
    <3> QED BY <3>2, <3>3
  <2> QED BY <2>1, <2>2
<1>2. S \in P
  <2> HIDE DEF P
  <2> QED BY <1>1, StrongFiniteInduction
<1> QED BY <1>2

\* Sums of natural numbers are natural numbers.
LEMMA SumNat ==
  ASSUME NEW f, NEW S, IsFiniteSet(S), \A x \in S : f[x] \in Nat
  PROVE  SumFunctionOnSet(f, S) \in Nat
<1> DEFINE P == {T \in SUBSET S : SumFunctionOnSet(f, T) \in Nat}
<1>1. ASSUME NEW T \in SUBSET S, \A U \in SUBSET T : U # T => U \in P
      PROVE  T \in P
  <2>1. CASE T = {}
    BY <2>1, SumEmpty
  <2>2. CASE T # {}
    <3>1. IsFiniteSet(T)
      BY FS_Subset
    <3>2. /\ Pick(T) \in T
          /\ SumFunctionOnSet(f, T)
               = f[Pick(T)] + SumFunctionOnSet(f, T \ {Pick(T)})
      BY <2>2, <3>1, SumPick
    <3>3. T \ {Pick(T)} \in P
      BY <3>2, <1>1
    <3> QED BY <3>2, <3>3
  <2> QED BY <2>1, <2>2
<1>2. S \in P
  <2> HIDE DEF P
  <2> QED BY <1>1, StrongFiniteInduction
<1> QED BY <1>2

-------------------------------------------------------------------------------
\* The order in which elements are added does not matter: any of them can be
\* taken out of the sum.
LEMMA SumRemove ==
  ASSUME NEW f, NEW S, IsFiniteSet(S), \A x \in S : f[x] \in Int, NEW z \in S
  PROVE  SumFunctionOnSet(f, S) = f[z] + SumFunctionOnSet(f, S \ {z})
<1> DEFINE Total(T) == SumFunctionOnSet(f, T)
    P == {T \in SUBSET S : \A x \in T : Total(T) = f[x] + Total(T \ {x})}
<1>1. \A T \in SUBSET S : IsFiniteSet(T) /\ Total(T) \in Int
  BY FS_Subset, SumInt
<1>2. \A T \in SUBSET S : T # {} =>
        Pick(T) \in T /\ Total(T) = f[Pick(T)] + Total(T \ {Pick(T)})
  BY <1>1, SumPick
<1> HIDE DEF Total
<1>3. ASSUME NEW T \in SUBSET S, \A U \in SUBSET T : U # T => U \in P
      PROVE  T \in P
  <2>1. SUFFICES ASSUME NEW x \in T PROVE Total(T) = f[x] + Total(T \ {x})
    OBVIOUS
  <2> DEFINE p == Pick(T)
  <2>2. p \in T /\ Total(T) = f[p] + Total(T \ {p})
    BY <1>2
  <2> HIDE DEF p
  <2>3. CASE x = p
    BY <2>2, <2>3
  <2>4. CASE x # p
    <3>1. Total(T \ {p}) = f[x] + Total((T \ {p}) \ {x})
      <4>1. T \ {p} \in P
        BY <1>3, <2>2
      <4> QED BY <4>1, <2>4
    <3>2. Total(T \ {x}) = f[p] + Total((T \ {x}) \ {p})
      <4>1. T \ {x} \in P
        BY <1>3
      <4> QED BY <4>1, <2>2, <2>4
    <3>3. (T \ {p}) \ {x} = (T \ {x}) \ {p}
      OBVIOUS
    <3>4. /\ f[p] \in Int /\ f[x] \in Int
          /\ Total((T \ {x}) \ {p}) \in Int
      BY <2>2, <1>1
    <3>5. Total(T) = f[p] + (f[x] + Total((T \ {x}) \ {p}))
      BY <2>2, <3>1, <3>3
    <3> DEFINE t == Total((T \ {x}) \ {p})
    <3>6. f[p] + (f[x] + t) = f[x] + (f[p] + t)
      <4> HIDE DEF t
      <4>1. \A a, b, c \in Int : a + (b + c) = b + (a + c)
        OBVIOUS
      <4>2. t \in Int
        BY <3>4 DEF t
      <4> QED BY <3>4, <4>1, <4>2
    <3> QED BY <3>2, <3>5, <3>6
  <2> QED BY <2>3, <2>4
<1>4. S \in P
  <2> HIDE DEF P
  <2> QED BY <1>3, StrongFiniteInduction
<1> QED
  BY <1>4 DEF Total

\* The sum over a set and one more element.
LEMMA SumAdd ==
  ASSUME NEW f, NEW S, IsFiniteSet(S), NEW z, z \notin S,
         \A x \in S \cup {z} : f[x] \in Int
  PROVE  SumFunctionOnSet(f, S \cup {z}) = SumFunctionOnSet(f, S) + f[z]
<1>1. IsFiniteSet(S \cup {z})
  BY FS_AddElement
<1>2. (S \cup {z}) \ {z} = S
  OBVIOUS
<1>3. SumFunctionOnSet(f, S \cup {z}) = f[z] + SumFunctionOnSet(f, S)
  BY <1>1, <1>2, SumRemove
<1>4. SumFunctionOnSet(f, S) \in Int /\ f[z] \in Int
  BY SumInt
<1> QED BY <1>3, <1>4

\* Functions that agree on a set have the same sum over it.
LEMMA SumEqual ==
  ASSUME NEW f, NEW g, NEW S, IsFiniteSet(S), \A x \in S : f[x] = g[x]
  PROVE  SumFunctionOnSet(f, S) = SumFunctionOnSet(g, S)
<1> DEFINE P == {T \in SUBSET S : SumFunctionOnSet(f, T) = SumFunctionOnSet(g, T)}
<1>1. ASSUME NEW T \in SUBSET S, \A U \in SUBSET T : U # T => U \in P
      PROVE  T \in P
  <2>1. CASE T = {}
    BY <2>1, SumEmpty
  <2>2. CASE T # {}
    <3>1. IsFiniteSet(T)
      BY FS_Subset
    <3>2. /\ Pick(T) \in T
          /\ SumFunctionOnSet(f, T)
               = f[Pick(T)] + SumFunctionOnSet(f, T \ {Pick(T)})
          /\ SumFunctionOnSet(g, T)
               = g[Pick(T)] + SumFunctionOnSet(g, T \ {Pick(T)})
      BY <2>2, <3>1, SumPick
    <3>3. T \ {Pick(T)} \in P
      BY <3>2, <1>1
    <3> QED BY <3>2, <3>3
  <2> QED BY <2>1, <2>2
<1>2. S \in P
  <2> HIDE DEF P
  <2> QED BY <1>1, StrongFiniteInduction
<1> QED BY <1>2

\* Sums add up pointwise ...
LEMMA SumPlus ==
  ASSUME NEW f, NEW g, NEW h, NEW S, IsFiniteSet(S),
         \A x \in S : f[x] \in Int /\ g[x] \in Int /\ h[x] = f[x] + g[x]
  PROVE  SumFunctionOnSet(h, S) = SumFunctionOnSet(f, S) + SumFunctionOnSet(g, S)
<1> DEFINE F(T) == SumFunctionOnSet(f, T)
    G(T) == SumFunctionOnSet(g, T)
    H(T) == SumFunctionOnSet(h, T)
    P == {T \in SUBSET S : H(T) = F(T) + G(T)}
<1>1. \A T \in SUBSET S : IsFiniteSet(T) /\ F(T) \in Int /\ G(T) \in Int
  BY FS_Subset, SumInt
<1>2. {} \in P
  BY SumEmpty
<1>3. ASSUME NEW T \in SUBSET S, NEW z \in S \ T, T \in P
      PROVE  T \cup {z} \in P
  <2>1. /\ F(T \cup {z}) = F(T) + f[z]
        /\ G(T \cup {z}) = G(T) + g[z]
        /\ H(T \cup {z}) = H(T) + h[z]
    BY <1>1, SumAdd
  <2>2. H(T) = F(T) + G(T) /\ h[z] = f[z] + g[z] /\ f[z] \in Int /\ g[z] \in Int
    BY <1>3
  <2>3. F(T) \in Int /\ G(T) \in Int
    BY <1>1
  <2> HIDE DEF F, G, H
  <2> QED BY <2>1, <2>2, <2>3
<1>4. S \in P
  <2> HIDE DEF P
  <2> QED BY <1>2, <1>3, FiniteInduction
<1> QED BY <1>4

\* ... and over disjoint sets.
LEMMA SumUnion ==
  ASSUME NEW f, NEW S, NEW T, IsFiniteSet(S), IsFiniteSet(T), S \cap T = {},
         \A x \in S \cup T : f[x] \in Int
  PROVE  SumFunctionOnSet(f, S \cup T)
           = SumFunctionOnSet(f, S) + SumFunctionOnSet(f, T)
<1> DEFINE F(U) == SumFunctionOnSet(f, U)
    P == {U \in SUBSET T : F(S \cup U) = F(S) + F(U)}
<1>1. \A U \in SUBSET T : /\ IsFiniteSet(U) /\ IsFiniteSet(S \cup U)
                          /\ F(U) \in Int /\ F(S \cup U) \in Int /\ F(S) \in Int
  BY FS_Subset, FS_Union, SumInt
<1>2. {} \in P
  <2>1. F({}) = 0 /\ S \cup {} = S /\ F(S) \in Int
    BY SumEmpty, <1>1
  <2> HIDE DEF F
  <2> QED BY <2>1
<1>3. ASSUME NEW U \in SUBSET T, NEW z \in T \ U, U \in P
      PROVE  U \cup {z} \in P
  <2>1. z \notin S \cup U /\ S \cup (U \cup {z}) = (S \cup U) \cup {z}
    OBVIOUS
  <2>2. F(U \cup {z}) = F(U) + f[z] /\ F((S \cup U) \cup {z}) = F(S \cup U) + f[z]
    BY <1>1, <2>1, SumAdd
  <2>3. F(S \cup U) = F(S) + F(U) /\ f[z] \in Int
    BY <1>3
  <2>4. F(S) \in Int /\ F(U) \in Int
    BY <1>1
  <2>5. F(S \cup (U \cup {z})) = F(S \cup U) + f[z]
    BY <2>1, <2>2
  <2>6. F(S \cup (U \cup {z})) = F(S) + F(U \cup {z})
    <3> HIDE DEF F
    <3>1. \A a, b, c \in Int : (a + b) + c = a + (b + c)
      OBVIOUS
    <3> QED BY <2>2, <2>3, <2>4, <2>5, <3>1
  <2>7. U \cup {z} \in SUBSET T
    OBVIOUS
  <2> HIDE DEF F
  <2> QED BY <2>6, <2>7
<1>4. T \in P
  <2> HIDE DEF P
  <2> QED BY <1>2, <1>3, FiniteInduction
<1> QED BY <1>4

\* A function that changes at one place changes its sum by as much.
LEMMA SumChange ==
  ASSUME NEW f, NEW g, NEW S, IsFiniteSet(S), NEW z \in S,
         \A x \in S : f[x] \in Int /\ g[x] \in Int,
         \A x \in S : x # z => g[x] = f[x]
  PROVE  /\ SumFunctionOnSet(g, S) = SumFunctionOnSet(f, S) - f[z] + g[z]
         /\ SumFunctionOnSet(f, S) \in Int /\ SumFunctionOnSet(g, S) \in Int
<1> DEFINE R == S \ {z}
<1>1. /\ SumFunctionOnSet(f, S) = f[z] + SumFunctionOnSet(f, R)
      /\ SumFunctionOnSet(g, S) = g[z] + SumFunctionOnSet(g, R)
  BY SumRemove
<1>2. IsFiniteSet(R)
  BY FS_Subset
<1>3. SumFunctionOnSet(g, R) = SumFunctionOnSet(f, R)
  BY <1>2, SumEqual
<1>4. SumFunctionOnSet(f, R) \in Int /\ f[z] \in Int /\ g[z] \in Int
  BY <1>2, SumInt
<1> HIDE DEF R
<1> QED BY <1>1, <1>3, <1>4

-------------------------------------------------------------------------------
StrictTotalOrder(R, S) ==
  /\ \A x \in S : <<x, x>> \notin R
  /\ \A x, y \in S : x # y => <<x, y>> \in R \/ <<y, x>> \in R
  /\ \A x, y, z \in S : <<x, y>> \in R /\ <<y, z>> \in R => <<x, z>> \in R

\* A finite set that is not empty has a last element.
LEMMA LastExists ==
  ASSUME NEW R, NEW S, IsFiniteSet(S), StrictTotalOrder(R, S), S # {}
  PROVE  \E m \in S : \A y \in S \ {m} : <<y, m>> \in R
<1> DEFINE P == {T \in SUBSET S : T # {} => \E m \in T : \A y \in T \ {m} : <<y, m>> \in R}
<1>1. {} \in P
  OBVIOUS
<1>2. ASSUME NEW T \in SUBSET S, NEW x \in S \ T, T \in P
      PROVE  T \cup {x} \in P
  <2>1. CASE T = {}
    BY <2>1
  <2>2. CASE T # {}
    <3>1. PICK m \in T : \A y \in T \ {m} : <<y, m>> \in R
      BY <1>2, <2>2
    <3>2. CASE <<x, m>> \in R
      BY <3>1, <3>2
    <3>3. CASE <<m, x>> \in R
      <4>1. \A y \in T : <<y, x>> \in R
        BY <3>1, <3>3 DEF StrictTotalOrder
      <4> QED BY <4>1
    <3> QED BY <3>2, <3>3 DEF StrictTotalOrder
  <2> QED BY <2>1, <2>2
<1>3. S \in P
  <2> HIDE DEF P
  <2> QED BY <1>1, <1>2, FiniteInduction
<1> QED BY <1>3

-------------------------------------------------------------------------------
\* Clip(m, hi) lies between 0 and hi and is m when m does.
LEMMA ClipBounds ==
  \A m \in Int, hi \in Nat :
    /\ Clip(m, hi) \in 0..hi
    /\ m >= 0 => Clip(m, hi) <= m
    /\ m \in 0..hi => Clip(m, hi) = m
BY DEF Clip

\* No stop of a walk gives more than it holds.
LEMMA WalkBounds ==
  ASSUME NEW f, NEW D, D = DOMAIN f, IsFiniteSet(D), \A i \in D : f[i] \in Nat,
         NEW n \in Int, NEW R
  PROVE  /\ Walk(n, f, R) \in [D -> Nat]
         /\ \A i \in D : Walk(n, f, R)[i] <= f[i]
<1>1. ASSUME NEW i \in D
      PROVE  Clip(n - SumFunctionOnSet(f, {j \in D : <<j, i>> \in R}), f[i]) \in 0..f[i]
  <2> DEFINE E == {j \in D : <<j, i>> \in R}
  <2>1. IsFiniteSet(E)
    BY FS_Subset
  <2>2. SumFunctionOnSet(f, E) \in Int
    <3>1. \A x \in E : f[x] \in Int
      OBVIOUS
    <3> HIDE DEF E
    <3> QED BY <2>1, <3>1, SumInt
  <2> QED BY <2>2, ClipBounds
<1> QED
  BY <1>1 DEF Walk

\* The stops of T come before all others: the walk takes from them what is
\* asked, or all they hold when that is less.
LEMMA WalkClosed ==
  ASSUME NEW f, NEW D, D = DOMAIN f, IsFiniteSet(D), \A i \in D : f[i] \in Nat,
         NEW n \in Int, NEW R, StrictTotalOrder(R, D), NEW T \in SUBSET D,
         \A i \in T : \A j \in D : <<j, i>> \in R => j \in T
  PROVE  SumFunctionOnSet(Walk(n, f, R), T) = Clip(n, SumFunctionOnSet(f, T))
<1> DEFINE w == Walk(n, f, R)
    F(U) == SumFunctionOnSet(f, U)
    Closed == {U \in SUBSET D : \A i \in U : \A j \in D : <<j, i>> \in R => j \in U}
    P == {U \in SUBSET D : U \in Closed => SumFunctionOnSet(w, U) = Clip(n, F(U))}
<1>1. \A U \in SUBSET D : IsFiniteSet(U) /\ F(U) \in Nat
  BY FS_Subset, SumNat
<1>2. w \in [D -> Nat]
  BY WalkBounds
<1>3. \A i \in D : w[i] = Clip(n - F({j \in D : <<j, i>> \in R}), f[i])
  BY DEF Walk
<1>4. ASSUME NEW V \in SUBSET D, \A U \in SUBSET V : U # V => U \in P
      PROVE  V \in P
  <2>1. CASE V = {}
    <3>1. SumFunctionOnSet(w, V) = 0 /\ F(V) = 0
      BY <2>1, SumEmpty
    <3> QED BY <3>1 DEF Clip
  <2>2. ASSUME V # {}, V \in Closed
        PROVE  SumFunctionOnSet(w, V) = Clip(n, F(V))
    <3>1. PICK m \in V : \A y \in V \ {m} : <<y, m>> \in R
      <4>1. IsFiniteSet(V) /\ StrictTotalOrder(R, V)
        BY <1>1 DEF StrictTotalOrder
      <4> QED BY <2>2, <4>1, LastExists
    <3> DEFINE U == V \ {m}
    <3>2. {j \in D : <<j, m>> \in R} = U
      BY <2>2, <3>1 DEF StrictTotalOrder
    <3>3. U \in Closed
      BY <2>2, <3>1 DEF StrictTotalOrder
    <3>4. SumFunctionOnSet(w, U) = Clip(n, F(U))
      <4>1. U \in P
        BY <1>4
      <4> QED BY <3>3, <4>1
    <3>5. SumFunctionOnSet(w, V) = w[m] + SumFunctionOnSet(w, U)
      <4>1. IsFiniteSet(V) /\ \A x \in V : w[x] \in Int
        BY <1>1, <1>2
      <4> HIDE DEF w
      <4> QED BY <4>1, SumRemove
    <3>6. F(V) = f[m] + F(U)
      BY <1>1, SumRemove
    <3>7. w[m] = Clip(n - F(U), f[m])
      BY <1>3, <3>2
    <3>8. F(U) \in Nat /\ f[m] \in Nat
      BY <1>1
    <3>9. \A a, b \in Nat : Clip(n - a, b) + Clip(n, a) = Clip(n, b + a)
      BY DEF Clip
    <3> HIDE DEF F, w, U
    <3> QED BY <3>4, <3>5, <3>6, <3>7, <3>8, <3>9
  <2> HIDE DEF F, w, Closed
  <2> QED BY <2>1, <2>2
<1>5. D \in P
  <2> HIDE DEF P
  <2> QED BY <1>4, StrongFiniteInduction
<1>6. T \in P
  <2>1. \A V \in SUBSET D : V \in P
    <3> SUFFICES ASSUME NEW V \in SUBSET D PROVE V \in P
      OBVIOUS
    <3>1. IsFiniteSet(V) /\ \A X \in SUBSET V : (\A U \in SUBSET X : U # X => U \in P) => X \in P
      <4> HIDE DEF P
      <4> QED BY <1>1, <1>4
    <3> HIDE DEF P
    <3> QED BY <3>1, StrongFiniteInduction
  <2> QED BY <2>1
<1>7. T \in Closed
  OBVIOUS
<1> HIDE DEF Closed, F, w
<1> QED BY <1>6, <1>7 DEF w, F

(***************************************************************************)
(* A walk takes what is asked, or all there is when that is less: nothing  *)
(* is lost or conjured between the stops.                                  *)
(***************************************************************************)
LEMMA WalkTotal ==
  ASSUME NEW D, IsFiniteSet(D), NEW f \in [D -> Nat], NEW n \in Int,
         NEW R, StrictTotalOrder(R, D)
  PROVE  SumFunctionOnSet(Walk(n, f, R), D) = Clip(n, SumFunctionOnSet(f, D))
<1>1. DOMAIN f = D /\ \A i \in D : f[i] \in Nat
  OBVIOUS
<1> QED BY <1>1, WalkClosed

-------------------------------------------------------------------------------
\* A finite, totally ordered set can be written down in its order.
LEMMA InOrderExists ==
  ASSUME NEW S, IsFiniteSet(S), NEW R, StrictTotalOrder(R, S)
  PROVE  /\ InOrder(S, R) \in [1..Cardinality(S) -> S]
         /\ \A i, j \in 1..Cardinality(S) :
              i < j => <<InOrder(S, R)[i], InOrder(S, R)[j]>> \in R
<1> DEFINE Sorted(T, s) ==
      /\ s \in [1..Cardinality(T) -> T]
      /\ \A i, j \in 1..Cardinality(T) : i < j => <<s[i], s[j]>> \in R
    P == {T \in SUBSET S : \E s : Sorted(T, s)}
<1>1. \A T \in SUBSET S : IsFiniteSet(T) /\ Cardinality(T) \in Nat
  BY FS_Subset, FS_CardinalityType
<1>2. ASSUME NEW T \in SUBSET S, \A U \in SUBSET T : U # T => U \in P
      PROVE  T \in P
  <2>1. CASE T = {}
    <3>1. Cardinality(T) = 0
      BY <2>1, FS_EmptySet
    <3>2. Sorted(T, [i \in {} |-> 0])
      BY <2>1, <3>1
    <3> QED BY <3>2
  <2>2. CASE T # {}
    <3>1. PICK m \in T : \A y \in T \ {m} : <<y, m>> \in R
      <4>1. StrictTotalOrder(R, T)
        BY DEF StrictTotalOrder
      <4> QED BY <1>1, <2>2, <4>1, LastExists
    <3> DEFINE U == T \ {m}  n == Cardinality(U)
    <3>2. n \in Nat /\ Cardinality(T) = n + 1
      BY <1>1, FS_RemoveElement, FS_CardinalityType
    <3>3. PICK s : Sorted(U, s)
      <4>1. U \in SUBSET T /\ U # T
        OBVIOUS
      <4>2. U \in P
        <5> HIDE DEF P, U
        <5> QED BY <1>2, <4>1
      <4> HIDE DEF Sorted, U
      <4> QED BY <4>2
    <3> DEFINE t == [i \in 1..(n+1) |-> IF i = n + 1 THEN m ELSE s[i]]
    <3>4. s \in [1..n -> U] /\ \A i, j \in 1..n : i < j => <<s[i], s[j]>> \in R
      BY <3>3
    <3> HIDE DEF n
    <3>5. t \in [1..(n+1) -> T]
      BY <3>2, <3>4
    <3>6. \A i, j \in 1..(n+1) : i < j => <<t[i], t[j]>> \in R
      BY <3>1, <3>2, <3>4
    <3> HIDE DEF t
    <3>7. Sorted(T, t)
      BY <3>2, <3>5, <3>6
    <3> QED BY <3>7
  <2> QED BY <2>1, <2>2
<1>3. S \in P
  <2> HIDE DEF P
  <2> QED BY <1>2, StrongFiniteInduction
<1>4. \E s \in [1..Cardinality(S) -> S] :
        \A i, j \in 1..Cardinality(S) : i < j => <<s[i], s[j]>> \in R
  BY <1>3
<1> QED
  BY <1>4 DEF InOrder

-------------------------------------------------------------------------------
\* Lots whose deadlines come from E.
LotWith(E) == [rem : Nat, exp : E, grant : Nat, expired : Nat]

\* A lot of a wallet has the fields of a lot.
LEMMA LotFields ==
  ASSUME NEW E, NEW ls \in Seq(LotWith(E)), NEW i \in DOMAIN ls
  PROVE  /\ i \in Nat /\ ls[i] \in LotWith(E)
         /\ ls[i].rem \in Nat /\ ls[i].expired \in Nat
         /\ ls[i].grant \in Nat /\ ls[i].exp \in E
<1>1. i \in 1..Len(ls) /\ Len(ls) \in Nat
  OBVIOUS
<1>2. ls[i] \in LotWith(E)
  OBVIOUS
<1>3. i \in Nat
  BY <1>1
<1> QED BY <1>2, <1>3, Zenon DEF LotWith

\* The orders in which the walks go are strict and total.
LEMMA OrdersAreTotal ==
  /\ \A S \in SUBSET Int : StrictTotalOrder(CreationOrder(S), S)
  /\ \A E \in SUBSET Int : \A ls \in Seq(LotWith(E)) : \A S \in SUBSET DOMAIN ls :
       /\ StrictTotalOrder(SpendOrder(ls), S)
       /\ StrictTotalOrder(RefundOrder(ls), S)
<1>1. ASSUME NEW S \in SUBSET Int PROVE StrictTotalOrder(CreationOrder(S), S)
  BY DEF StrictTotalOrder, CreationOrder
<1>2. ASSUME NEW E \in SUBSET Int, NEW ls \in Seq(LotWith(E)), NEW S \in SUBSET DOMAIN ls
      PROVE  /\ StrictTotalOrder(SpendOrder(ls), S)
             /\ StrictTotalOrder(RefundOrder(ls), S)
  <2> DEFINE before(i, j) == \/ ls[i].exp < ls[j].exp
                             \/ ls[i].exp = ls[j].exp /\ i < j
  <2>1. \A i \in S : i \in Int /\ ls[i].exp \in Int
    <3> SUFFICES ASSUME NEW i \in S PROVE i \in Int /\ ls[i].exp \in Int
      BY Zenon
    <3>1. i \in DOMAIN ls
      BY Zenon
    <3>2. i \in Nat /\ ls[i].exp \in E
      BY <3>1, LotFields, Zenon
    <3>3. /\ \A e \in E : e \in Int
          /\ \A n \in Nat : n \in Int
      OBVIOUS
    <3> QED BY <3>2, <3>3, Zenon
  <2>2. \A i, j \in S : /\ <<i, j>> \in SpendOrder(ls) <=> before(i, j)
                        /\ <<i, j>> \in RefundOrder(ls) <=> before(j, i)
    BY DEF SpendOrder, RefundOrder
  <2>3. /\ \A i \in S : ~before(i, i)
        /\ \A i, j \in S : i # j => before(i, j) \/ before(j, i)
        /\ \A i, j, k \in S : before(i, j) /\ before(j, k) => before(i, k)
    BY <2>1
  <2> HIDE DEF before
  <2> QED BY <2>2, <2>3 DEF StrictTotalOrder
<1> QED BY <1>1, <1>2

\* Indexes are a finite set; the live lots have a balance.
LEMMA LotsFinite ==
  ASSUME NEW L, NEW ls \in Seq(L)
  PROVE  /\ DOMAIN ls = 1..Len(ls) /\ Len(ls) \in Nat
         /\ IsFiniteSet(DOMAIN ls)
         /\ \A S \in SUBSET DOMAIN ls : IsFiniteSet(S)
BY FS_Interval, FS_Subset

\* The spendable balance is a natural number, and a function of the lots alone.
LEMMA LiveBalanceNat ==
  ASSUME NEW E, NEW ls \in Seq(LotWith(E)), NEW now
  PROVE  LiveBalance(ls, now) \in Nat
<1>1. IsFiniteSet(Live(ls, now))
  BY LotsFinite DEF Live
<1>2. \A i \in Live(ls, now) : Remaining(ls)[i] \in Nat
  BY LotFields, Zenon DEF Live, Remaining
<1> QED BY <1>1, <1>2, SumNat DEF LiveBalance

\* The lots new are the lots old after something was taken out of them.
Shrunk(old, new) ==
  /\ DOMAIN new = DOMAIN old
  /\ \A i \in DOMAIN old : /\ new[i].rem <= old[i].rem
                           /\ new[i].expired >= old[i].expired
                           /\ new[i].exp = old[i].exp
                           /\ new[i].grant = old[i].grant

\* The expiry sweep moves what is left of a lot to its EXPIRATION row.
LEMMA ExpireShrinks ==
  ASSUME NEW E, NEW ls \in Seq(LotWith(E)), NEW now
  PROVE  /\ ExpireDueLots(ls, now) \in Seq(LotWith(E))
         /\ Len(ExpireDueLots(ls, now)) = Len(ls)
         /\ Shrunk(ls, ExpireDueLots(ls, now))
<1> DEFINE new == ExpireDueLots(ls, now)
<1>1. \A i \in DOMAIN ls : ls[i] \in LotWith(E)
  OBVIOUS
<1>2. DOMAIN new = DOMAIN ls
  BY DEF ExpireDueLots
<1>3. \A i \in DOMAIN ls :
        \/ new[i] = ls[i]
        \/ new[i] = [ls[i] EXCEPT !.rem = 0, !.expired = @ + ls[i].rem]
  BY Zenon DEF ExpireDueLots
<1>4. ASSUME NEW i \in DOMAIN ls
      PROVE  /\ new[i] \in LotWith(E)
             /\ new[i].rem <= ls[i].rem /\ new[i].expired >= ls[i].expired
             /\ new[i].exp = ls[i].exp /\ new[i].grant = ls[i].grant
  <2> HIDE DEF new
  <2>1. ls[i] \in LotWith(E) /\ ls[i].rem \in Nat /\ ls[i].expired \in Nat
    BY LotFields, Zenon
  <2>2. CASE new[i] = ls[i]
    BY <2>1, <2>2
  <2>3. CASE new[i] = [ls[i] EXCEPT !.rem = 0, !.expired = @ + ls[i].rem]
    <3>1. /\ new[i] \in LotWith(E)
          /\ new[i].rem = 0 /\ new[i].expired = ls[i].expired + ls[i].rem
          /\ new[i].exp = ls[i].exp /\ new[i].grant = ls[i].grant
      <4>1. ls[i].expired + ls[i].rem \in Nat /\ 0 \in Nat
        BY <2>1
      <4> QED BY <4>1, <2>1, <2>3, Zenon DEF LotWith
    <3> HIDE <2>3
    <3> QED BY <2>1, <3>1
  <2> QED BY <1>3, <2>2, <2>3, Zenon
<1>5. Shrunk(ls, new)
  <2> HIDE DEF new
  <2> QED BY <1>2, <1>4, Zenon DEF Shrunk
<1>6. new = [i \in 1..Len(ls) |-> new[i]]
  BY LotsFinite DEF ExpireDueLots
<1>7. new \in Seq(LotWith(E)) /\ Len(new) = Len(ls)
  <2>1. DOMAIN new = 1..Len(ls) /\ Len(ls) \in Nat
    BY <1>2, LotsFinite
  <2> HIDE DEF new
  <2>2. new \in [1..Len(ls) -> LotWith(E)]
    BY <1>4, <1>6, <2>1
  <2> QED BY <2>2, <2>1, SeqDef
<1> QED BY <1>5, <1>7 DEF new

\* Taking what is there leaves lots.
LEMMA TakeShrinks ==
  ASSUME NEW E, NEW ls \in Seq(LotWith(E)), NEW take,
         \A i \in DOMAIN take : i \in DOMAIN ls =>
            take[i] \in Nat /\ take[i] <= ls[i].rem
  PROVE  /\ TakeFrom(ls, take) \in Seq(LotWith(E))
         /\ Len(TakeFrom(ls, take)) = Len(ls)
         /\ Shrunk(ls, TakeFrom(ls, take))
<1> DEFINE new == TakeFrom(ls, take)
<1>1. \A i \in DOMAIN ls : ls[i] \in LotWith(E)
  OBVIOUS
<1>2. DOMAIN new = DOMAIN ls
  BY DEF TakeFrom
<1>3. \A i \in DOMAIN ls :
        \/ new[i] = ls[i]
        \/ /\ new[i] = [ls[i] EXCEPT !.rem = @ - take[i]]
           /\ take[i] \in Nat /\ take[i] <= ls[i].rem
  BY Zenon DEF TakeFrom
<1>4. ASSUME NEW i \in DOMAIN ls
      PROVE  /\ new[i] \in LotWith(E)
             /\ new[i].rem <= ls[i].rem /\ new[i].expired >= ls[i].expired
             /\ new[i].exp = ls[i].exp /\ new[i].grant = ls[i].grant
  <2> HIDE DEF new
  <2>1. ls[i] \in LotWith(E) /\ ls[i].rem \in Nat /\ ls[i].expired \in Nat
    BY LotFields, Zenon
  <2>2. CASE new[i] = ls[i]
    BY <2>1, <2>2
  <2>3. CASE /\ new[i] = [ls[i] EXCEPT !.rem = @ - take[i]]
             /\ take[i] \in Nat /\ take[i] <= ls[i].rem
    <3>1. /\ new[i] \in LotWith(E)
          /\ new[i].rem = ls[i].rem - take[i] /\ new[i].expired = ls[i].expired
          /\ new[i].exp = ls[i].exp /\ new[i].grant = ls[i].grant
      <4>1. ls[i].rem - take[i] \in Nat
        <5> HIDE <2>3
        <5>1. take[i] \in Nat /\ take[i] <= ls[i].rem
          BY <2>3, Zenon
        <5> QED BY <5>1, <2>1
      <4> QED BY <4>1, <2>1, <2>3, Zenon DEF LotWith
    <3> HIDE <2>3
    <3>2. take[i] \in Nat
      BY <2>3
    <3> QED BY <2>1, <3>1, <3>2
  <2> QED BY <1>3, <2>2, <2>3, Zenon
<1>5. Shrunk(ls, new)
  <2> HIDE DEF new
  <2> QED BY <1>2, <1>4, Zenon DEF Shrunk
<1>6. new = [i \in 1..Len(ls) |-> new[i]]
  BY LotsFinite DEF TakeFrom
<1>7. new \in Seq(LotWith(E)) /\ Len(new) = Len(ls)
  <2>1. DOMAIN new = 1..Len(ls) /\ Len(ls) \in Nat
    BY <1>2, LotsFinite
  <2> HIDE DEF new
  <2>2. new \in [1..Len(ls) -> LotWith(E)]
    BY <1>4, <1>6, <2>1
  <2> QED BY <2>2, <2>1, SeqDef
<1> QED BY <1>5, <1>7 DEF new

\* A spend of n credits.
LEMMA ConsumeShrinks ==
  ASSUME NEW E, NEW ls \in Seq(LotWith(E)), NEW n \in Nat, NEW now
  PROVE  /\ Consumption(ls, n, now) \in [Live(ls, now) -> Nat]
         /\ Live(ls, now) \subseteq DOMAIN ls
         /\ \A i \in Live(ls, now) : Consumption(ls, n, now)[i] <= ls[i].rem
         /\ ConsumeLots(ls, n, now) \in Seq(LotWith(E))
         /\ Len(ConsumeLots(ls, n, now)) = Len(ls)
         /\ Shrunk(ls, ConsumeLots(ls, n, now))
<1> DEFINE D == Live(ls, now)  f == Restrict(Remaining(ls), D)
<1>1. IsFiniteSet(D) /\ D \subseteq DOMAIN ls
  BY LotsFinite DEF Live
<1>2. f \in [D -> Nat] /\ \A i \in D : f[i] = ls[i].rem
  <2>1. ASSUME NEW i \in DOMAIN ls PROVE ls[i].rem \in Nat
    BY LotFields, Zenon
  <2> QED BY <1>1, <2>1 DEF Restrict, Remaining
<1>3. /\ Consumption(ls, n, now) \in [D -> Nat]
      /\ \A i \in D : Consumption(ls, n, now)[i] <= f[i]
  <2> HIDE DEF D
  <2>1. Consumption(ls, n, now) = Walk(n, f, SpendOrder(ls))
    BY DEF Consumption, D
  <2> HIDE DEF f
  <2> QED BY <1>1, <1>2, <2>1, WalkBounds
<1>4. \A i \in D : Consumption(ls, n, now)[i] <= ls[i].rem
  BY <1>2, <1>3
<1>5. DOMAIN Consumption(ls, n, now) = D
  BY <1>3
<1> HIDE DEF D, f
<1>6. /\ ConsumeLots(ls, n, now) \in Seq(LotWith(E))
      /\ Len(ConsumeLots(ls, n, now)) = Len(ls)
      /\ Shrunk(ls, ConsumeLots(ls, n, now))
  BY <1>3, <1>4, <1>5, TakeShrinks DEF ConsumeLots
<1> QED BY <1>1, <1>3, <1>4, <1>6 DEF D

-------------------------------------------------------------------------------
(***************************************************************************)
(* What any service leaves of the lots old: they only went down, and every *)
(* lot of new has the grant and the deadline of a lot of old.              *)
(***************************************************************************)
Descends(old, new) ==
  /\ Len(old) <= Len(new)
  /\ \A i \in 1..Len(old) : /\ new[i].rem <= old[i].rem
                            /\ new[i].expired >= old[i].expired
                            /\ new[i].exp = old[i].exp
                            /\ new[i].grant = old[i].grant
  /\ \A i \in 1..Len(new) : \E j \in 1..Len(old) :
        new[i].exp = old[j].exp /\ new[i].grant = old[j].grant

\* Taking and expiring, that keep the lots' number, are such services.
LEMMA ShrunkDescends ==
  ASSUME NEW E, NEW old \in Seq(LotWith(E)), NEW new \in Seq(LotWith(E)),
         Len(new) = Len(old), Shrunk(old, new)
  PROVE  Descends(old, new)
<1>1. /\ DOMAIN old = 1..Len(old) /\ Len(old) \in Nat
      /\ Len(new) = Len(old)
  BY LotsFinite
<1>2. \A i \in 1..Len(old) : /\ new[i].rem <= old[i].rem
                             /\ new[i].expired >= old[i].expired
                             /\ new[i].exp = old[i].exp
                             /\ new[i].grant = old[i].grant
  BY <1>1, Zenon DEF Shrunk
<1>3. Len(old) <= Len(new)
  BY <1>1
<1> QED BY <1>1, <1>2, <1>3, Zenon DEF Descends

\* No movement at all is a descent: the lots a service leaves alone.
LEMMA DescendsReflexive ==
  ASSUME NEW E, NEW ls \in Seq(LotWith(E))
  PROVE  Descends(ls, ls)
<1>1. \A i \in 1..Len(ls) : ls[i].rem \in Nat /\ ls[i].expired \in Nat
  BY LotFields, LotsFinite, Zenon
<1>2. \A i \in 1..Len(ls) : ls[i].rem <= ls[i].rem /\ ls[i].expired >= ls[i].expired
  BY <1>1
<1>3. Len(ls) <= Len(ls)
  BY LotsFinite
<1> QED BY <1>2, <1>3, Zenon DEF Descends

\* Services compose: one that expires, spends and hands back descends as each part does.
LEMMA DescendsTransitive ==
  ASSUME NEW E, NEW a \in Seq(LotWith(E)), NEW b \in Seq(LotWith(E)),
         NEW c \in Seq(LotWith(E)), Descends(a, b), Descends(b, c)
  PROVE  Descends(a, c)
<1>1. /\ Len(a) \in Nat /\ Len(b) \in Nat /\ Len(c) \in Nat
      /\ Len(a) <= Len(b) /\ Len(b) <= Len(c)
  BY LotsFinite DEF Descends
<1>2. Len(a) <= Len(c) /\ \A i \in 1..Len(a) : i \in 1..Len(b) /\ i \in 1..Len(c)
  BY <1>1
<1>3. ASSUME NEW i \in 1..Len(a)
      PROVE  /\ c[i].rem <= a[i].rem /\ c[i].expired >= a[i].expired
             /\ c[i].exp = a[i].exp /\ c[i].grant = a[i].grant
  <2>1. i \in DOMAIN a /\ i \in DOMAIN b /\ i \in DOMAIN c
    BY <1>2, LotsFinite, Zenon
  <2>2. /\ a[i].rem \in Nat /\ b[i].rem \in Nat /\ c[i].rem \in Nat
        /\ a[i].expired \in Nat /\ b[i].expired \in Nat /\ c[i].expired \in Nat
    BY <2>1, LotFields, Zenon
  <2>3. /\ b[i].rem <= a[i].rem /\ c[i].rem <= b[i].rem
        /\ b[i].expired >= a[i].expired /\ c[i].expired >= b[i].expired
        /\ b[i].exp = a[i].exp /\ c[i].exp = b[i].exp
        /\ b[i].grant = a[i].grant /\ c[i].grant = b[i].grant
    BY <1>2, Zenon DEF Descends
  <2> QED BY <2>2, <2>3
<1>4. ASSUME NEW i \in 1..Len(c)
      PROVE  \E j \in 1..Len(a) : c[i].exp = a[j].exp /\ c[i].grant = a[j].grant
  <2>1. PICK k \in 1..Len(b) : c[i].exp = b[k].exp /\ c[i].grant = b[k].grant
    BY Zenon DEF Descends
  <2>2. PICK j \in 1..Len(a) : b[k].exp = a[j].exp /\ b[k].grant = a[j].grant
    BY Zenon DEF Descends
  <2> QED BY <2>1, <2>2, Zenon
<1> QED BY <1>2, <1>3, <1>4, Zenon DEF Descends

\* The expiry sweep and a spend, as services.
LEMMA ExpireDescends ==
  ASSUME NEW E, NEW ls \in Seq(LotWith(E)), NEW now
  PROVE  /\ ExpireDueLots(ls, now) \in Seq(LotWith(E))
         /\ Len(ExpireDueLots(ls, now)) = Len(ls)
         /\ Descends(ls, ExpireDueLots(ls, now))
BY ExpireShrinks, ShrunkDescends, Zenon

\* _consume_lots() adds no lot and raises none.
LEMMA ConsumeDescends ==
  ASSUME NEW E, NEW ls \in Seq(LotWith(E)), NEW n \in Nat, NEW now
  PROVE  /\ ConsumeLots(ls, n, now) \in Seq(LotWith(E))
         /\ Len(ConsumeLots(ls, n, now)) = Len(ls)
         /\ Descends(ls, ConsumeLots(ls, n, now))
BY ConsumeShrinks, ShrunkDescends, Zenon

\* Lots appended with the grant and the deadline of lots already there.
LEMMA AppendDescends ==
  ASSUME NEW E, NEW ls \in Seq(LotWith(E)), NEW more \in Seq(LotWith(E)),
         \A k \in 1..Len(more) : \E j \in 1..Len(ls) :
            more[k].exp = ls[j].exp /\ more[k].grant = ls[j].grant
  PROVE  /\ ls \o more \in Seq(LotWith(E))
         /\ Len(ls \o more) = Len(ls) + Len(more)
         /\ Descends(ls, ls \o more)
<1>1. /\ ls \o more \in Seq(LotWith(E)) /\ Len(ls \o more) = Len(ls) + Len(more)
      /\ Len(ls) \in Nat /\ Len(more) \in Nat
  BY ConcatProperties
<1>2. \A i \in 1..(Len(ls) + Len(more)) :
        (ls \o more)[i] = IF i <= Len(ls) THEN ls[i] ELSE more[i - Len(ls)]
  BY ConcatProperties
<1>3. \A i \in 1..Len(ls) : (ls \o more)[i] = ls[i]
  BY <1>1, <1>2
<1>4. \A i \in 1..(Len(ls) + Len(more)) :
        \/ i \in 1..Len(ls) /\ (ls \o more)[i] = ls[i]
        \/ i - Len(ls) \in 1..Len(more) /\ (ls \o more)[i] = more[i - Len(ls)]
  BY <1>1, <1>2
<1>5. \A i \in 1..Len(ls) : ls[i].rem <= ls[i].rem /\ ls[i].expired >= ls[i].expired
  BY DescendsReflexive, Zenon DEF Descends
<1>6. Len(ls) <= Len(ls \o more)
  BY <1>1
<1>7. \A i \in 1..Len(ls \o more) : \E j \in 1..Len(ls) :
        (ls \o more)[i].exp = ls[j].exp /\ (ls \o more)[i].grant = ls[j].grant
  BY <1>1, <1>4, ZenonT(60)
<1>8. Descends(ls, ls \o more)
  BY <1>3, <1>5, <1>6, <1>7, Zenon DEF Descends
<1> QED BY <1>1, <1>8

\* One more lot, before or after a service that keeps the lots' number.
LEMMA AppendBothDescends ==
  ASSUME NEW E, NEW a \in Seq(LotWith(E)), NEW b \in Seq(LotWith(E)),
         NEW l \in LotWith(E), Len(a) = Len(b), Descends(a, b)
  PROVE  /\ Append(a, l) \in Seq(LotWith(E)) /\ Append(b, l) \in Seq(LotWith(E))
         /\ Len(Append(a, l)) = Len(a) + 1 /\ Append(a, l)[Len(a) + 1] = l
         /\ Descends(Append(a, l), Append(b, l))
<1> DEFINE n == Len(a)  al == Append(a, l)  bl == Append(b, l)
<1>1. /\ n \in Nat /\ Len(b) = n
      /\ al \in Seq(LotWith(E)) /\ Len(al) = n + 1 /\ al[n + 1] = l
      /\ \A i \in 1..n : al[i] = a[i]
      /\ bl \in Seq(LotWith(E)) /\ Len(bl) = n + 1 /\ bl[n + 1] = l
      /\ \A i \in 1..n : bl[i] = b[i]
  BY AppendProperties
<1>2. \A i \in 1..(n + 1) : i \in 1..n \/ i = n + 1
  BY <1>1
<1>3. \A i \in 1..n : /\ b[i].rem <= a[i].rem /\ b[i].expired >= a[i].expired
                       /\ b[i].exp = a[i].exp /\ b[i].grant = a[i].grant
  BY Zenon DEF Descends
<1>4. l.rem <= l.rem /\ l.expired >= l.expired
  <2>1. l.rem \in Nat /\ l.expired \in Nat
    BY Zenon DEF LotWith
  <2> QED BY <2>1
<1>5. n + 1 <= n + 1
  BY <1>1
<1> HIDE DEF n, al, bl
<1>6. \A i \in 1..(n + 1) :
        /\ bl[i].rem <= al[i].rem /\ bl[i].expired >= al[i].expired
        /\ bl[i].exp = al[i].exp /\ bl[i].grant = al[i].grant
  BY <1>1, <1>2, <1>3, <1>4, Zenon
<1>7. Descends(al, bl)
  BY <1>1, <1>5, <1>6, Zenon DEF Descends
<1> QED BY <1>1, <1>7, Zenon DEF al, bl, n

\* The fresh lots of a hand-back carry the grants and deadlines they came with.
LEMMA ReleaseLots ==
  ASSUME NEW E \in SUBSET Int, NEW ls \in Seq(LotWith(E)), NEW back,
         DOMAIN back \subseteq DOMAIN ls, \A i \in DOMAIN back : back[i] \in Nat
  PROVE  /\ HoldReleaseLots(ls, back) \in Seq(LotWith(E))
         /\ \A k \in 1..Len(HoldReleaseLots(ls, back)) : \E j \in 1..Len(ls) :
               /\ HoldReleaseLots(ls, back)[k].exp = ls[j].exp
               /\ HoldReleaseLots(ls, back)[k].grant = ls[j].grant
         /\ \A k \in 1..Len(HoldReleaseLots(ls, back)) :
               /\ HoldReleaseLots(ls, back)[k].expired = 0
               /\ \E j \in DOMAIN back : /\ back[j] > 0
                     /\ HoldReleaseLots(ls, back)[k].grant = ls[j].grant
<1> DEFINE S == DOMAIN Positive(back)
           N == Cardinality(S)
           s == InOrder(S, RefundOrder(ls))
           lot(k) == [rem |-> back[s[k]], exp |-> ls[s[k]].exp,
                      grant |-> ls[s[k]].grant, expired |-> 0]
           more == [k \in 1..N |-> lot(k)]
<1>1. S \subseteq DOMAIN back /\ S \subseteq DOMAIN ls
  BY DEF Positive, Restrict
<1>0. \A i \in S : back[i] > 0
  BY DEF Positive, Restrict
<1>2. IsFiniteSet(S) /\ N \in Nat
  BY <1>1, LotsFinite, FS_CardinalityType
<1>3. s \in [1..N -> S]
  <2>1. StrictTotalOrder(RefundOrder(ls), S)
    BY <1>1, OrdersAreTotal, Zenon
  <2> HIDE DEF S
  <2> QED BY <1>2, <2>1, InOrderExists
<1>4. HoldReleaseLots(ls, back) = more
  <2>1. DOMAIN s = 1..N
    BY <1>3
  <2> QED BY <2>1, Zenon DEF HoldReleaseLots
<1>5. ASSUME NEW k \in 1..N
      PROVE  /\ lot(k) \in LotWith(E)
             /\ s[k] \in 1..Len(ls)
             /\ lot(k).exp = ls[s[k]].exp /\ lot(k).grant = ls[s[k]].grant
             /\ lot(k).expired = 0
             /\ s[k] \in DOMAIN back /\ back[s[k]] > 0
  <2>1. s[k] \in S
    BY <1>3
  <2>2. s[k] \in DOMAIN ls /\ s[k] \in DOMAIN back
    BY <1>1, <2>1
  <2>3. back[s[k]] \in Nat /\ 0 \in Nat /\ back[s[k]] > 0
    BY <1>0, <2>1, <2>2
  <2>4. s[k] \in 1..Len(ls)
    BY <2>2, LotsFinite, Zenon
  <2>5. ls[s[k]].exp \in E /\ ls[s[k]].grant \in Nat
    BY <2>2, LotFields, Zenon
  <2> HIDE DEF s
  <2> QED BY <2>2, <2>3, <2>4, <2>5, Zenon DEF LotWith
<1> HIDE DEF lot, s, S
<1>6. more \in Seq(LotWith(E)) /\ Len(more) = N
  <2>1. more \in [1..N -> LotWith(E)]
    BY <1>5
  <2> QED BY <2>1, <1>2, SeqDef
<1>7. \A k \in 1..N : more[k] = lot(k)
  OBVIOUS
<1> QED BY <1>4, <1>5, <1>6, <1>7, ZenonT(60)

\* A reservation holds part of the lots of a wallet.
Allocates(ls, alloc) ==
  /\ DOMAIN alloc \subseteq DOMAIN ls
  /\ \A i \in DOMAIN alloc : alloc[i] \in Nat

\* Handing back, with the expiry that follows it, is a service.
LEMMA HandingBackDescends ==
  ASSUME NEW E \in SUBSET Int, NEW ls \in Seq(LotWith(E)), NEW back,
         Allocates(ls, back), NEW now
  PROVE  LET new == ExpireDueLots(ls \o HoldReleaseLots(ls, back), now)
         IN  new \in Seq(LotWith(E)) /\ Descends(ls, new)
<1> DEFINE more == HoldReleaseLots(ls, back)
           all == ls \o more
<1>1. /\ more \in Seq(LotWith(E))
      /\ \A k \in 1..Len(more) : \E j \in 1..Len(ls) :
            more[k].exp = ls[j].exp /\ more[k].grant = ls[j].grant
  <2>1. DOMAIN back \subseteq DOMAIN ls /\ \A i \in DOMAIN back : back[i] \in Nat
    BY DEF Allocates
  <2> QED BY <2>1, ReleaseLots
<1> HIDE DEF more
<1>2. all \in Seq(LotWith(E)) /\ Descends(ls, all)
  BY <1>1, AppendDescends, Zenon
<1> HIDE DEF all
<1>3. /\ ExpireDueLots(all, now) \in Seq(LotWith(E))
      /\ Descends(all, ExpireDueLots(all, now))
  BY <1>2, ExpireDescends, Zenon
<1>4. Descends(ls, ExpireDueLots(all, now))
  BY <1>2, <1>3, DescendsTransitive, Zenon
<1> QED BY <1>3, <1>4 DEF all, more

\* What a hold reserves is part of the lots it was taken from.
LEMMA PositiveAllocates ==
  ASSUME NEW ls, NEW take, Allocates(ls, take)
  PROVE  /\ Allocates(ls, Positive(take))
         /\ \A i \in DOMAIN Positive(take) : Positive(take)[i] \in Nat \ {0}
<1>1. /\ DOMAIN Positive(take) = {i \in DOMAIN take : take[i] > 0}
      /\ \A i \in DOMAIN Positive(take) : Positive(take)[i] = take[i]
  BY DEF Positive, Restrict
<1>2. \A i \in DOMAIN Positive(take) : take[i] \in Nat /\ take[i] > 0 /\ i \in DOMAIN take
  BY <1>1 DEF Allocates
<1>3. \A i \in DOMAIN Positive(take) : take[i] \in Nat \ {0}
  BY <1>2
<1> QED BY <1>1, <1>2, <1>3, Zenon DEF Allocates

\* A refund takes no more out of an allocation than there is.
LEMMA RefundBounds ==
  ASSUME NEW L, NEW ls \in Seq(L), NEW alloc, Allocates(ls, alloc), NEW n \in Int,
         NEW R
  PROVE  /\ Walk(n, alloc, R) \in [DOMAIN alloc -> Nat]
         /\ \A i \in DOMAIN alloc : Walk(n, alloc, R)[i] <= alloc[i]
<1>1. IsFiniteSet(DOMAIN alloc)
  BY LotsFinite DEF Allocates
<1>2. \A i \in DOMAIN alloc : alloc[i] \in Nat
  BY DEF Allocates
<1> QED BY <1>1, <1>2, WalkBounds, Zenon

-------------------------------------------------------------------------------
DebtRecords == [out : Nat, init : Nat, billed : Nat, row : Nat]

\* The fields of a debt.
LEMMA DebtFields ==
  ASSUME NEW ds \in Seq(DebtRecords), NEW d \in DOMAIN ds
  PROVE  /\ d \in Nat /\ ds[d] \in DebtRecords
         /\ ds[d].out \in Nat /\ ds[d].init \in Nat
         /\ ds[d].billed \in Nat /\ ds[d].row \in Nat
<1>1. d \in 1..Len(ds) /\ Len(ds) \in Nat /\ ds[d] \in DebtRecords
  OBVIOUS
<1>2. d \in Nat
  BY <1>1
<1> QED BY <1>1, <1>2, Zenon DEF DebtRecords

\* No open debt pays more than it owes.
LEMMA CollectionBounds ==
  ASSUME NEW E, NEW ls \in Seq(LotWith(E)), NEW ds \in Seq(DebtRecords), NEW now
  PROVE  /\ Collection(ls, ds, now) \in [OpenDebts(ds) -> Nat]
         /\ \A d \in OpenDebts(ds) : Collection(ls, ds, now)[d] <= ds[d].out
         /\ SumFunction(Collection(ls, ds, now)) \in Nat
<1> DEFINE D == OpenDebts(ds)  f == Outstanding(ds)  pay == Collection(ls, ds, now)
<1>1. IsFiniteSet(D) /\ D \subseteq DOMAIN ds
  BY LotsFinite DEF OpenDebts
<1>2. D = DOMAIN f /\ \A d \in D : f[d] = ds[d].out
  BY DEF Outstanding
<1>3. \A d \in D : f[d] \in Nat
  BY <1>1, <1>2, DebtFields, Zenon
<1>4. LiveBalance(ls, now) \in Int
  <2>1. LiveBalance(ls, now) \in Nat
    BY LiveBalanceNat, Zenon
  <2> QED BY <2>1
<1>5. pay = Walk(LiveBalance(ls, now), f, CreationOrder(DOMAIN ds))
  BY Zenon DEF Collection
<1> HIDE DEF D, f, pay
<1>6. pay \in [D -> Nat] /\ \A d \in D : pay[d] <= f[d]
  BY <1>1, <1>2, <1>3, <1>4, <1>5, WalkBounds
<1>7. SumFunction(pay) \in Nat
  <2>1. SumFunction(pay) = SumFunctionOnSet(pay, DOMAIN pay)
    BY Zenon DEF SumFunction, SumFunctionOnSet, FoldFunction
  <2> QED BY <1>1, <1>6, <2>1, SumNat
<1>8. \A d \in D : pay[d] <= ds[d].out
  BY <1>2, <1>6
<1> QED BY <1>6, <1>7, <1>8 DEF D, pay

\* Settling leaves the same debts, each owed no more than before.
LEMMA SettlingDebts ==
  ASSUME NEW E, NEW ls \in Seq(LotWith(E)), NEW ds \in Seq(DebtRecords), NEW now
  PROVE  /\ SettleDebts(ls, ds, now) \in Seq(DebtRecords)
         /\ Len(SettleDebts(ls, ds, now)) = Len(ds)
         /\ \A d \in 1..Len(ds) : SettleDebts(ls, ds, now)[d].row = ds[d].row
<1> DEFINE pay == Collection(ls, ds, now)
           new == SettleDebts(ls, ds, now)
<1>1. /\ DOMAIN pay = OpenDebts(ds)
      /\ \A d \in OpenDebts(ds) : pay[d] \in Nat /\ pay[d] <= ds[d].out
  <2> HIDE DEF pay
  <2> QED BY CollectionBounds DEF pay
<1>2. \A d \in DOMAIN ds :
         \/ new[d] = ds[d]
         \/ d \in DOMAIN pay /\ new[d] =
              [ds[d] EXCEPT !.out = @ - pay[d], !.billed = @ + pay[d]]
  BY Zenon DEF SettleDebts
<1>3. new = [d \in DOMAIN ds |-> new[d]]
  BY DEF SettleDebts
<1> HIDE DEF new, pay
<1>4. ASSUME NEW d \in DOMAIN ds
      PROVE  new[d] \in DebtRecords /\ new[d].row = ds[d].row
  <2>1. /\ ds[d] \in DebtRecords /\ ds[d].out \in Nat /\ ds[d].init \in Nat
        /\ ds[d].billed \in Nat /\ ds[d].row \in Nat
    BY DebtFields, Zenon
  <2>2. CASE new[d] = ds[d]
    BY <2>1, <2>2
  <2>3. CASE d \in DOMAIN pay /\ new[d] =
               [ds[d] EXCEPT !.out = @ - pay[d], !.billed = @ + pay[d]]
    <3>1. ds[d].out - pay[d] \in Nat /\ ds[d].billed + pay[d] \in Nat
      <4>1. pay[d] \in Nat /\ pay[d] <= ds[d].out
        BY <1>1, <2>3, Zenon
      <4> HIDE <2>3
      <4> QED BY <4>1, <2>1
    <3> QED BY <3>1, <2>1, <2>3, Zenon DEF DebtRecords
  <2> QED BY <1>2, <2>2, <2>3, Zenon
<1>5. DOMAIN ds = 1..Len(ds) /\ Len(ds) \in Nat
  BY LotsFinite
<1>6. new \in Seq(DebtRecords) /\ Len(new) = Len(ds)
  <2>1. new \in [1..Len(ds) -> DebtRecords]
    BY <1>3, <1>4, <1>5
  <2> QED BY <2>1, <1>5, SeqDef
<1> QED BY <1>4, <1>5, <1>6, Zenon DEF new

\* ... and is a spend of the lots.
LEMMA SettlingDescends ==
  ASSUME NEW E, NEW ls \in Seq(LotWith(E)), NEW ds \in Seq(DebtRecords), NEW now
  PROVE  /\ LotsAfterSettling(ls, ds, now) \in Seq(LotWith(E))
         /\ Len(LotsAfterSettling(ls, ds, now)) = Len(ls)
         /\ Descends(ls, LotsAfterSettling(ls, ds, now))
BY CollectionBounds, ConsumeDescends, Zenon DEF LotsAfterSettling

-------------------------------------------------------------------------------
(***************************************************************************)
(* What the services do to the sum of a wallet's credits: a sweep moves    *)
(* credits from a lot to its EXPIRATION row, a spend takes exactly what it *)
(* was asked for, a hand-back returns exactly what it was given, a         *)
(* settlement bills what it takes.                                         *)
(***************************************************************************)
\* The sum of a function is the sum over its domain.
LEMMA SumOfFunction == \A f : SumFunction(f) = SumFunctionOnSet(f, DOMAIN f)
BY Zenon DEF SumFunction, SumFunctionOnSet, FoldFunction

\* A function that rises by k at one place sums to k more.
LEMMA SumMoves ==
  ASSUME NEW S, IsFiniteSet(S), NEW f, NEW g, DOMAIN f = S, DOMAIN g = S,
         \A x \in S : f[x] \in Int, NEW z \in S, NEW k \in Int,
         g[z] = f[z] + k, \A x \in S : x # z => g[x] = f[x]
  PROVE  SumFunction(g) = SumFunction(f) + k
<1>1. f[z] \in Int /\ g[z] \in Int
  <2>1. f[z] \in Int
    OBVIOUS
  <2> QED BY <2>1
<1>2. \A x \in S : f[x] \in Int /\ g[x] \in Int
  BY <1>1, Zenon
<1>3. /\ SumFunctionOnSet(g, S) = SumFunctionOnSet(f, S) - f[z] + g[z]
      /\ SumFunctionOnSet(f, S) \in Int
  BY <1>2, SumChange, SMT
<1>4. SumFunction(f) = SumFunctionOnSet(f, S) /\ SumFunction(g) = SumFunctionOnSet(g, S)
  BY SumOfFunction, Zenon
<1> QED BY <1>1, <1>3, <1>4

\* Zeros add nothing ...
LEMMA SumZeros ==
  ASSUME NEW f, NEW S, IsFiniteSet(S), \A x \in S : f[x] = 0
  PROVE  SumFunctionOnSet(f, S) = 0
<1> DEFINE F(T) == SumFunctionOnSet(f, T)
           P == {T \in SUBSET S : F(T) = 0}
<1>1. {} \in P
  BY SumEmpty
<1>2. ASSUME NEW T \in SUBSET S, NEW x \in S \ T, T \in P
      PROVE  T \cup {x} \in P
  <2>1. IsFiniteSet(T) /\ F(T) = 0
    BY <1>2, FS_Subset
  <2>2. \A y \in T \cup {x} : f[y] \in Int
    OBVIOUS
  <2>3. F(T \cup {x}) = F(T) + f[x]
    BY <2>1, <2>2, SumAdd
  <2>4. f[x] = 0
    OBVIOUS
  <2> HIDE DEF F
  <2> QED BY <2>1, <2>3, <2>4
<1>3. S \in P
  <2> HIDE DEF P
  <2> QED BY <1>1, <1>2, FiniteInduction
<1> QED BY <1>3

\* ... so only where a function is not zero matters.
LEMMA SumSupport ==
  ASSUME NEW f, NEW S, IsFiniteSet(S), NEW T \in SUBSET S,
         \A x \in S : f[x] \in Int, \A x \in S \ T : f[x] = 0
  PROVE  SumFunctionOnSet(f, S) = SumFunctionOnSet(f, T)
<1> DEFINE F(U) == SumFunctionOnSet(f, U)
<1>1. IsFiniteSet(T) /\ IsFiniteSet(S \ T) /\ T \cap (S \ T) = {} /\ T \cup (S \ T) = S
  BY FS_Subset
<1>2. F(S) = F(T) + F(S \ T)
  BY <1>1, SumUnion
<1>3. F(S \ T) = 0 /\ F(T) \in Int
  BY <1>1, SumZeros, SumInt
<1> HIDE DEF F
<1>4. F(S) = F(T)
  BY <1>2, <1>3
<1> QED BY <1>4 DEF F

\* What is taken from each is taken from the sum.
LEMMA SumMinus ==
  ASSUME NEW f, NEW g, NEW h, NEW S, IsFiniteSet(S),
         \A x \in S : f[x] \in Int /\ g[x] \in Int /\ h[x] = f[x] - g[x]
  PROVE  SumFunctionOnSet(h, S) = SumFunctionOnSet(f, S) - SumFunctionOnSet(g, S)
<1> DEFINE F == SumFunctionOnSet(f, S)
           G == SumFunctionOnSet(g, S)
           H == SumFunctionOnSet(h, S)
<1>1. \A x \in S : h[x] \in Int /\ g[x] \in Int /\ f[x] = h[x] + g[x]
  OBVIOUS
<1>2. F = H + G
  BY <1>1, SumPlus
<1>3. F \in Int /\ G \in Int /\ H \in Int
  BY <1>1, SumInt
<1> HIDE DEF F, G, H
<1>4. H = F - G
  BY <1>2, <1>3
<1> QED BY <1>4 DEF F, G, H

\* A sum does not depend on the order it is written in.
LEMMA SumInOrder ==
  ASSUME NEW f, NEW S, IsFiniteSet(S), \A x \in S : f[x] \in Int,
         NEW s \in [1..Cardinality(S) -> S],
         \A i, j \in 1..Cardinality(S) : i # j => s[i] # s[j],
         NEW g, \A k \in 1..Cardinality(S) : g[k] = f[s[k]]
  PROVE  SumFunctionOnSet(g, 1..Cardinality(S)) = SumFunctionOnSet(f, S)
<1> DEFINE N == Cardinality(S)
           D == 1..N
           At(T) == {s[k] : k \in T}
           F(T) == SumFunctionOnSet(f, T)
           G(T) == SumFunctionOnSet(g, T)
           P == {T \in SUBSET D : G(T) = F(At(T))}
<1>1. IsFiniteSet(D) /\ N \in Nat /\ Cardinality(D) = N
  BY FS_CardinalityType, FS_Interval
<1>2. \A T \in SUBSET D : IsFiniteSet(T) /\ At(T) \subseteq S /\ IsFiniteSet(At(T))
  <2>1. \A T \in SUBSET D : IsFiniteSet(T) /\ At(T) \subseteq S
    BY <1>1, FS_Subset
  <2> QED BY <2>1, FS_Subset
<1>3. {} \in P
  <2>1. At({}) = {}
    OBVIOUS
  <2> QED BY <2>1, SumEmpty
<1>4. ASSUME NEW T \in SUBSET D, NEW x \in D \ T, T \in P
      PROVE  T \cup {x} \in P
  <2>1. s[x] \notin At(T) /\ At(T \cup {x}) = At(T) \cup {s[x]} /\ s[x] \in S
    OBVIOUS
  <2>2. g[x] = f[s[x]] /\ \A y \in T \cup {x} : g[y] \in Int
    OBVIOUS
  <2>3. G(T) = F(At(T))
    BY <1>4
  <2>4. \A y \in At(T) \cup {s[x]} : f[y] \in Int
    BY <1>2, <2>1
  <2> HIDE DEF At
  <2>5. G(T \cup {x}) = G(T) + g[x]
    BY <1>2, <2>2, SumAdd
  <2>6. F(At(T) \cup {s[x]}) = F(At(T)) + f[s[x]]
    BY <1>2, <2>1, <2>4, SumAdd
  <2> HIDE DEF F, G
  <2> QED BY <2>1, <2>2, <2>3, <2>5, <2>6
<1>5. D \in P
  <2> HIDE DEF P, D
  <2> QED BY <1>1, <1>3, <1>4, FiniteInduction
<1>6. At(D) = S
  <2>1. s \in Injection(D, S)
    BY DEF Injection, IsInjective
  <2>2. s \in Surjection(D, S)
    BY <1>1, <2>1, FS_Injection
  <2> QED BY <2>2 DEF Surjection
<1> QED BY <1>5, <1>6

-------------------------------------------------------------------------------
\* What a lot came with, spent credits apart: what it still has and what its
\* EXPIRATION row took.
Face(ls) == [i \in DOMAIN ls |-> ls[i].rem + ls[i].expired]

Expirations(ls) == [i \in DOMAIN ls |-> ls[i].expired]

Worth(ls) == SumFunctionOnSet(Face(ls), DOMAIN ls)

\* The sums of a wallet's lots are amounts.
LEMMA WorthSplits ==
  ASSUME NEW E, NEW ls \in Seq(LotWith(E))
  PROVE  /\ Worth(ls) \in Nat
         /\ SumFunction(Remaining(ls)) \in Nat /\ SumFunction(Expirations(ls)) \in Nat
         /\ Worth(ls) = SumFunction(Remaining(ls)) + SumFunction(Expirations(ls))
<1> DEFINE D == DOMAIN ls  f == Remaining(ls)  g == Expirations(ls)
<1>1. IsFiniteSet(D)
  BY LotsFinite
<1>2. DOMAIN f = D /\ DOMAIN g = D
  BY DEF Remaining, Expirations
<1>3. \A i \in D : f[i] \in Nat /\ g[i] \in Nat /\ Face(ls)[i] = f[i] + g[i]
  <2>1. \A i \in D : ls[i].rem \in Nat /\ ls[i].expired \in Nat
    BY LotFields, Zenon
  <2> QED BY <2>1 DEF Remaining, Expirations, Face
<1>4. /\ SumFunction(f) = SumFunctionOnSet(f, D)
      /\ SumFunction(g) = SumFunctionOnSet(g, D)
  BY <1>2, SumOfFunction
<1> HIDE DEF D, f, g
<1>5. SumFunctionOnSet(f, D) \in Nat /\ SumFunctionOnSet(g, D) \in Nat
  BY <1>1, <1>3, SumNat
<1>6. SumFunctionOnSet(Face(ls), D) = SumFunctionOnSet(f, D) + SumFunctionOnSet(g, D)
  <2>1. \A i \in D : /\ f[i] \in Int /\ g[i] \in Int
                     /\ Face(ls)[i] = f[i] + g[i]
    BY <1>3
  <2> QED BY <1>1, <2>1, SumPlus
<1> QED BY <1>4, <1>5, <1>6 DEF Worth, D, f, g

\* The sweep moves credits to the EXPIRATION rows and loses none.
LEMMA ExpiryKeepsWorth ==
  ASSUME NEW E, NEW ls \in Seq(LotWith(E)), NEW now
  PROVE  Worth(ExpireDueLots(ls, now)) = Worth(ls)
<1> DEFINE new == ExpireDueLots(ls, now)
<1>1. DOMAIN new = DOMAIN ls
  BY DEF ExpireDueLots
<1>2. ASSUME NEW i \in DOMAIN ls PROVE new[i].rem + new[i].expired = ls[i].rem + ls[i].expired
  <2>1. ls[i].rem \in Nat /\ ls[i].expired \in Nat /\ ls[i] \in LotWith(E)
    BY LotFields, Zenon
  <2>2. \/ new[i] = ls[i]
        \/ new[i] = [ls[i] EXCEPT !.rem = 0, !.expired = @ + ls[i].rem]
    BY Zenon DEF ExpireDueLots
  <2> HIDE DEF new
  <2>3. CASE new[i] = [ls[i] EXCEPT !.rem = 0, !.expired = @ + ls[i].rem]
    <3>1. new[i].rem = 0 /\ new[i].expired = ls[i].expired + ls[i].rem
      BY <2>1, <2>3, Zenon DEF LotWith
    <3> HIDE <2>3
    <3> QED BY <2>1, <3>1
  <2>4. CASE new[i] = ls[i]
    BY <2>4
  <2> QED BY <2>2, <2>3, <2>4, Zenon
<1> HIDE DEF new
<1>3. DOMAIN Face(new) = DOMAIN ls /\ \A i \in DOMAIN ls : Face(new)[i] = Face(ls)[i]
  BY <1>1, <1>2 DEF Face
<1> QED BY <1>1, <1>3, LotsFinite, SumEqual DEF Worth, new

\* What is taken from the lots is taken from their worth.
LEMMA TakingLowersWorth ==
  ASSUME NEW E, NEW ls \in Seq(LotWith(E)), NEW take, DOMAIN take \subseteq DOMAIN ls,
         \A i \in DOMAIN take : take[i] \in Nat /\ take[i] <= ls[i].rem
  PROVE  /\ SumFunction(take) \in Nat
         /\ Worth(TakeFrom(ls, take)) = Worth(ls) - SumFunction(take)
<1> DEFINE D == DOMAIN ls
           new == TakeFrom(ls, take)
           all == [i \in D |-> IF i \in DOMAIN take THEN take[i] ELSE 0]
<1>1. IsFiniteSet(D) /\ IsFiniteSet(DOMAIN take)
  BY LotsFinite
<1>2. DOMAIN new = D
  BY DEF TakeFrom
<1>3. ASSUME NEW i \in D
      PROVE  Face(ls)[i] \in Int /\ all[i] \in Int /\ Face(new)[i] = Face(ls)[i] - all[i]
  <2>1. ls[i].rem \in Nat /\ ls[i].expired \in Nat /\ ls[i] \in LotWith(E)
    BY LotFields, Zenon
  <2>2. /\ Face(ls)[i] = ls[i].rem + ls[i].expired
        /\ Face(new)[i] = new[i].rem + new[i].expired
    BY <1>2 DEF Face
  <2>3. CASE i \in DOMAIN take
    <3>1. new[i] = [ls[i] EXCEPT !.rem = @ - take[i]]
      BY <2>3, Zenon DEF TakeFrom
    <3> HIDE DEF new
    <3>2. new[i].rem = ls[i].rem - take[i] /\ new[i].expired = ls[i].expired
      BY <2>1, <3>1, Zenon DEF LotWith
    <3>3. all[i] = take[i] /\ take[i] \in Nat
      BY <2>3
    <3> HIDE DEF all
    <3> QED BY <2>1, <2>2, <3>2, <3>3
  <2>4. CASE i \notin DOMAIN take
    <3>1. new[i] = ls[i] /\ all[i] = 0
      BY <2>4, Zenon DEF TakeFrom
    <3> HIDE DEF new, all
    <3> QED BY <2>1, <2>2, <3>1
  <2> QED BY <2>3, <2>4
<1>4. /\ SumFunctionOnSet(all, DOMAIN take) = SumFunctionOnSet(take, DOMAIN take)
      /\ \A i \in D \ DOMAIN take : all[i] = 0
  <2>1. \A i \in DOMAIN take : all[i] = take[i]
    OBVIOUS
  <2>2. \A i \in D \ DOMAIN take : all[i] = 0
    OBVIOUS
  <2> HIDE DEF all
  <2> QED BY <1>1, <2>1, <2>2, SumEqual
<1> HIDE DEF new, all, D
<1>5. SumFunctionOnSet(all, D) = SumFunctionOnSet(all, DOMAIN take)
  <2>1. DOMAIN take \in SUBSET D /\ \A i \in D : all[i] \in Int
    BY <1>3 DEF D
  <2> QED BY <1>1, <1>4, <2>1, SumSupport
<1>6. SumFunctionOnSet(Face(new), D) = SumFunctionOnSet(Face(ls), D) - SumFunctionOnSet(all, D)
  BY <1>1, <1>3, SumMinus
<1>7. SumFunction(take) = SumFunctionOnSet(take, DOMAIN take)
  BY SumOfFunction
<1>8. SumFunctionOnSet(take, DOMAIN take) \in Nat
  BY <1>1, SumNat
<1> QED BY <1>2, <1>4, <1>5, <1>6, <1>7, <1>8 DEF Worth, new, D

\* A spend that the live lots can cover takes exactly what was asked.
LEMMA SpendTakesAll ==
  ASSUME NEW E \in SUBSET Int, NEW ls \in Seq(LotWith(E)), NEW now,
         NEW n \in Nat, n <= LiveBalance(ls, now)
  PROVE  /\ SumFunction(Consumption(ls, n, now)) = n
         /\ Worth(ConsumeLots(ls, n, now)) = Worth(ls) - n
<1> DEFINE D == Live(ls, now)  f == Restrict(Remaining(ls), D)
           take == Consumption(ls, n, now)
<1>1. IsFiniteSet(D) /\ D \subseteq DOMAIN ls
  BY LotsFinite DEF Live
<1>2. f \in [D -> Nat] /\ \A i \in D : f[i] = Remaining(ls)[i]
  <2>1. ASSUME NEW i \in DOMAIN ls PROVE ls[i].rem \in Nat
    BY LotFields, Zenon
  <2> QED BY <1>1, <2>1 DEF Restrict, Remaining
<1>3. /\ take \in [D -> Nat]
      /\ \A i \in D : take[i] <= ls[i].rem
  BY ConsumeShrinks, Zenon
<1>4. take = Walk(n, f, SpendOrder(ls))
  BY Zenon DEF Consumption
<1>5. StrictTotalOrder(SpendOrder(ls), D)
  BY <1>1, OrdersAreTotal, Zenon
<1>6. SumFunctionOnSet(f, D) = LiveBalance(ls, now) /\ LiveBalance(ls, now) \in Nat
  BY <1>1, <1>2, SumEqual, LiveBalanceNat DEF LiveBalance
<1>7. ConsumeLots(ls, n, now) = TakeFrom(ls, take)
  BY Zenon DEF ConsumeLots
<1> HIDE DEF D, f, take
<1>8. SumFunctionOnSet(take, D) = Clip(n, SumFunctionOnSet(f, D))
  BY <1>1, <1>2, <1>4, <1>5, WalkTotal
<1>9. SumFunctionOnSet(take, D) = n
  BY <1>6, <1>8, ClipBounds
<1>10. SumFunction(take) = n
  BY <1>3, <1>9, SumOfFunction
<1>11. Worth(TakeFrom(ls, take)) = Worth(ls) - SumFunction(take)
  BY <1>1, <1>3, TakingLowersWorth
<1> QED BY <1>7, <1>10, <1>11 DEF take

\* h is the n numbers of f and behind them the m numbers of g.
Joined(n, m, f, g, h) ==
  /\ \A i \in 1..(n + m) : h[i] \in Int
  /\ \A i \in 1..n : h[i] = f[i]
  /\ \A k \in 1..m : h[n + k] = g[k]

\* The sum of a sequence of numbers put behind another.
LEMMA SumJoins ==
  ASSUME NEW n \in Nat, NEW m \in Nat, NEW f, NEW g, NEW h, Joined(n, m, f, g, h)
  PROVE  SumFunctionOnSet(h, 1..(n + m))
           = SumFunctionOnSet(f, 1..n) + SumFunctionOnSet(g, 1..m)
<1> DEFINE N == 1..n  M == 1..m  A == (n + 1)..(n + m)
           s == [k \in M |-> n + k]
<1>1. /\ 1..(n + m) = N \cup A /\ N \cap A = {} /\ IsFiniteSet(N) /\ IsFiniteSet(A)
      /\ Cardinality(A) = m
  <2>1. 1..(n + m) = N \cup A /\ N \cap A = {}
    OBVIOUS
  <2>2. IsFiniteSet(N) /\ IsFiniteSet(A) /\ Cardinality(A) = m
    BY FS_Interval
  <2> QED BY <2>1, <2>2, Zenon
<1>2. /\ \A i \in 1..(n + m) : h[i] \in Int
      /\ \A i \in N : h[i] = f[i]
      /\ \A k \in M : h[n + k] = g[k]
  BY DEF Joined
<1>3. SumFunctionOnSet(h, 1..(n + m))
        = SumFunctionOnSet(h, N) + SumFunctionOnSet(h, A)
  <2> HIDE DEF N, A
  <2> QED BY <1>1, <1>2, SumUnion
<1>4. SumFunctionOnSet(h, N) = SumFunctionOnSet(f, N)
  BY <1>1, <1>2, SumEqual
<1>5. SumFunctionOnSet(g, M) = SumFunctionOnSet(h, A)
  <2>1. /\ s \in [M -> A] /\ \A i, j \in M : i # j => s[i] # s[j]
        /\ \A k \in M : g[k] = h[s[k]]
    BY <1>2
  <2>2. (\A i \in A : h[i] \in Int) /\ M = 1..Cardinality(A)
    BY <1>1, <1>2
  <2> HIDE DEF A, s, M
  <2>3. /\ s \in [1..Cardinality(A) -> A]
        /\ \A i, j \in 1..Cardinality(A) : i # j => s[i] # s[j]
        /\ \A k \in 1..Cardinality(A) : g[k] = h[s[k]]
    BY <2>1, <2>2
  <2>4. IsFiniteSet(A) /\ \A i \in A : h[i] \in Int
    BY <1>1, <2>2
  <2>5. SumFunctionOnSet(g, 1..Cardinality(A)) = SumFunctionOnSet(h, A)
    BY <2>3, <2>4, SumInOrder
  <2> QED BY <2>2, <2>5, Zenon
<1> HIDE DEF N, A, M
<1>6. SumFunctionOnSet(h, 1..(n + m))
        = SumFunctionOnSet(f, N) + SumFunctionOnSet(g, M)
  BY <1>3, <1>4, <1>5, Zenon
<1> QED BY <1>6 DEF N, M

\* Lots that come in bring what they hold.
LEMMA ConcatAddsWorth ==
  ASSUME NEW E, NEW ls \in Seq(LotWith(E)), NEW more \in Seq(LotWith(E))
  PROVE  Worth(ls \o more) = Worth(ls) + Worth(more)
<1> DEFINE all == ls \o more
<1>1. PICK n, m \in Nat : n = Len(ls) /\ m = Len(more)
  BY LotsFinite
<1>2. /\ DOMAIN ls = 1..n /\ DOMAIN more = 1..m
      /\ all \in Seq(LotWith(E)) /\ DOMAIN all = 1..(n + m)
      /\ \A i \in 1..n : all[i] = ls[i]
      /\ \A k \in 1..m : all[n + k] = more[k]
  BY <1>1, ConcatProperties
<1> HIDE DEF all
<1>3. \A i \in 1..(n + m) : Face(all)[i] \in Int
  <2>1. \A i \in DOMAIN all : all[i].rem \in Nat /\ all[i].expired \in Nat
    BY <1>2, LotFields, Zenon
  <2>2. \A i \in DOMAIN all : Face(all)[i] \in Int
    BY <2>1 DEF Face
  <2> QED BY <1>2, <2>2, Zenon
<1>4. PICK f, g, h : f = Face(ls) /\ g = Face(more) /\ h = Face(all)
  OBVIOUS
<1>5. Joined(n, m, f, g, h)
  <2>1. \A i \in 1..n : i \in DOMAIN all /\ i \in DOMAIN ls
    BY <1>2
  <2>2. \A k \in 1..m : n + k \in DOMAIN all /\ k \in DOMAIN more
    BY <1>2
  <2>3. \A i \in 1..n : h[i] = f[i]
    BY <1>2, <1>4, <2>1 DEF Face
  <2>4. \A k \in 1..m : h[n + k] = g[k]
    BY <1>2, <1>4, <2>2 DEF Face
  <2> QED BY <1>3, <1>4, <2>3, <2>4 DEF Joined
<1>6. SumFunctionOnSet(h, 1..(n + m))
        = SumFunctionOnSet(f, 1..n) + SumFunctionOnSet(g, 1..m)
  <2>1. n \in Nat /\ m \in Nat
    OBVIOUS
  <2> QED BY <1>5, <2>1, SumJoins
<1> QED BY <1>2, <1>4, <1>6, Zenon DEF Worth, all

\* One lot that comes in brings what it holds.
LEMMA AppendAddsWorth ==
  ASSUME NEW E, NEW ls \in Seq(LotWith(E)), NEW l \in LotWith(E), l.expired = 0
  PROVE  Worth(Append(ls, l)) = Worth(ls) + l.rem
<1> DEFINE n == Len(ls)  N == 1..n  all == Append(ls, l)
<1>1. n \in Nat /\ DOMAIN ls = N /\ IsFiniteSet(N)
  BY LotsFinite
<1>2. /\ all \in Seq(LotWith(E)) /\ Len(all) = n + 1 /\ all[n + 1] = l
      /\ \A i \in N : all[i] = ls[i]
  BY AppendProperties
<1>3. DOMAIN all = 1..(n + 1)
  BY <1>2
<1> HIDE DEF n, all
<1>4. 1..(n + 1) = N \cup {n + 1} /\ n + 1 \notin N
  BY <1>1
<1>5. l.rem \in Nat
  BY Zenon DEF LotWith
<1>6. Face(all)[n + 1] = l.rem
  <2>1. Face(all)[n + 1] = l.rem + 0
    BY <1>2, <1>3, <1>4 DEF Face
  <2> QED BY <1>5, <2>1
<1>7. \A i \in N : Face(all)[i] = Face(ls)[i]
  BY <1>1, <1>2, <1>3, <1>4 DEF Face
<1>8. \A i \in N \cup {n + 1} : Face(all)[i] \in Int
  <2>1. \A i \in DOMAIN all : all[i].rem \in Nat /\ all[i].expired \in Nat
    BY <1>2, LotFields, Zenon
  <2> QED BY <1>3, <1>4, <2>1 DEF Face
<1> HIDE DEF N
<1>9. SumFunctionOnSet(Face(all), N \cup {n + 1}) = SumFunctionOnSet(Face(all), N) + Face(all)[n + 1]
  BY <1>1, <1>4, <1>8, SumAdd
<1>10. SumFunctionOnSet(Face(all), N) = SumFunctionOnSet(Face(ls), N)
  BY <1>1, <1>7, SumEqual
<1> QED BY <1>1, <1>3, <1>4, <1>6, <1>9, <1>10 DEF Worth, all

-------------------------------------------------------------------------------
\* Leaving out what is nothing leaves the sum.
LEMMA PositiveSum ==
  ASSUME NEW take, IsFiniteSet(DOMAIN take), \A i \in DOMAIN take : take[i] \in Nat
  PROVE  SumFunction(Positive(take)) = SumFunction(take)
<1> DEFINE D == DOMAIN take  T == {i \in D : take[i] > 0}
<1>1. DOMAIN Positive(take) = T /\ \A i \in T : Positive(take)[i] = take[i]
  BY DEF Positive, Restrict
<1>2. T \in SUBSET D /\ \A i \in D \ T : take[i] = 0
  OBVIOUS
<1>3. \A i \in D : take[i] \in Int
  OBVIOUS
<1> HIDE DEF D, T
<1>4. SumFunctionOnSet(take, D) = SumFunctionOnSet(take, T)
  BY <1>2, <1>3, SumSupport DEF D
<1>5. SumFunctionOnSet(Positive(take), T) = SumFunctionOnSet(take, T)
  BY <1>1, <1>2, FS_Subset, SumEqual DEF D
<1> QED BY <1>1, <1>4, <1>5, SumOfFunction DEF D

\* A hand-back returns exactly what it was given.
LEMMA ReleaseBringsBack ==
  ASSUME NEW E \in SUBSET Int, NEW ls \in Seq(LotWith(E)), NEW back, Allocates(ls, back)
  PROVE  Worth(HoldReleaseLots(ls, back)) = SumFunction(back)
<1> DEFINE P == Positive(back)
           S == DOMAIN P
           N == Cardinality(S)
           s == InOrder(S, RefundOrder(ls))
           more == HoldReleaseLots(ls, back)
<1>1. /\ S \subseteq DOMAIN back /\ S \subseteq DOMAIN ls
      /\ \A i \in S : P[i] = back[i] /\ back[i] \in Nat
  BY DEF Positive, Restrict, Allocates
<1>2. IsFiniteSet(S) /\ N \in Nat /\ IsFiniteSet(DOMAIN back)
  BY <1>1, LotsFinite, FS_CardinalityType DEF Allocates
<1>3. StrictTotalOrder(RefundOrder(ls), S)
  BY <1>1, OrdersAreTotal, Zenon
<1>4. more = [k \in DOMAIN s |-> [rem |-> back[s[k]], exp |-> ls[s[k]].exp,
                                  grant |-> ls[s[k]].grant, expired |-> 0]]
  BY Zenon DEF HoldReleaseLots
<1> HIDE DEF P, S, more
<1>5. /\ s \in [1..N -> S]
      /\ \A i, j \in 1..N : i < j => <<s[i], s[j]>> \in RefundOrder(ls)
  BY <1>2, <1>3, InOrderExists
<1> HIDE DEF s
<1>6. \A i, j \in 1..N : i # j => s[i] # s[j]
  <2> SUFFICES ASSUME NEW i \in 1..N, NEW j \in 1..N, i # j, s[i] = s[j]
               PROVE  FALSE
    OBVIOUS
  <2>1. i < j \/ j < i
    BY <1>2
  <2>2. <<s[i], s[i]>> \in RefundOrder(ls)
    BY <1>5, <2>1
  <2> QED BY <1>3, <1>5, <2>2 DEF StrictTotalOrder
<1>7. DOMAIN more = 1..N /\ \A k \in 1..N : Face(more)[k] = P[s[k]]
  <2>1. DOMAIN more = 1..N
    BY <1>4, <1>5
  <2>2. ASSUME NEW k \in 1..N PROVE Face(more)[k] = P[s[k]]
    <3>1. more[k].rem = back[s[k]] /\ more[k].expired = 0
      BY <1>4, <1>5, Zenon
    <3>2. s[k] \in S
      BY <1>5
    <3>3. P[s[k]] = back[s[k]] /\ back[s[k]] \in Nat
      BY <1>1, <3>2
    <3>4. Face(more)[k] = back[s[k]] + 0
      BY <2>1, <3>1 DEF Face
    <3> QED BY <3>3, <3>4
  <2> QED BY <2>1, <2>2
<1>8. SumFunctionOnSet(Face(more), 1..N) = SumFunctionOnSet(P, S)
  <2>1. \A i \in S : P[i] \in Int
    BY <1>1
  <2> QED BY <1>2, <1>5, <1>6, <1>7, <2>1, SumInOrder
<1>9. SumFunction(P) = SumFunction(back)
  <2>1. \A i \in DOMAIN back : back[i] \in Nat
    BY DEF Allocates
  <2> QED BY <1>2, <2>1, PositiveSum DEF P
<1> QED BY <1>7, <1>8, <1>9, SumOfFunction DEF Worth, S, more

\* Handing back, with the expiry that follows it, returns what was given.
LEMMA HandingBackAddsWorth ==
  ASSUME NEW E \in SUBSET Int, NEW ls \in Seq(LotWith(E)), NEW back,
         Allocates(ls, back), NEW now
  PROVE  Worth(ExpireDueLots(ls \o HoldReleaseLots(ls, back), now))
           = Worth(ls) + SumFunction(back)
<1> DEFINE more == HoldReleaseLots(ls, back)
<1>1. more \in Seq(LotWith(E))
  BY ReleaseLots DEF Allocates
<1>2. Worth(more) = SumFunction(back)
  BY ReleaseBringsBack
<1> HIDE DEF more
<1>3. ls \o more \in Seq(LotWith(E))
  BY <1>1, ConcatProperties
<1>4. Worth(ls \o more) = Worth(ls) + Worth(more)
  BY <1>1, ConcatAddsWorth
<1>5. Worth(ExpireDueLots(ls \o more, now)) = Worth(ls \o more)
  BY <1>3, ExpiryKeepsWorth
<1> QED BY <1>2, <1>4, <1>5 DEF more

\* A refund of a reservation takes what is asked, as far as it is reserved.
LEMMA RefundTakesAll ==
  ASSUME NEW E \in SUBSET Int, NEW ls \in Seq(LotWith(E)), NEW alloc,
         Allocates(ls, alloc), NEW n \in Int
  PROVE  /\ SumFunction(alloc) \in Nat
         /\ SumFunction(Refund(ls, alloc, n)) = Clip(n, SumFunction(alloc))
<1> DEFINE D == DOMAIN alloc  w == Walk(n, alloc, RefundOrder(ls))
           f == [i \in D |-> alloc[i]]
<1>1. D \subseteq DOMAIN ls /\ IsFiniteSet(D) /\ \A i \in D : alloc[i] \in Nat
  BY LotsFinite DEF Allocates
<1>2. StrictTotalOrder(RefundOrder(ls), D)
  BY <1>1, OrdersAreTotal, Zenon
<1>3. f \in [D -> Nat] /\ \A i \in D : f[i] = alloc[i]
  BY <1>1
<1>4. Walk(n, f, RefundOrder(ls)) \in [D -> Nat] /\ w \in [D -> Nat]
  BY <1>1, <1>3, WalkBounds
<1>5. \A i \in D : Walk(n, f, RefundOrder(ls))[i] = w[i]
  <2> DEFINE F(T) == SumFunctionOnSet(f, T)  A(T) == SumFunctionOnSet(alloc, T)
             before(i) == {j \in D : <<j, i>> \in RefundOrder(ls)}
  <2>1. \A i \in D : F(before(i)) = A(before(i))
    <3>1. \A T \in SUBSET D : IsFiniteSet(T) /\ \A i \in T : f[i] = alloc[i]
      BY <1>1, <1>3, FS_Subset
    <3> HIDE DEF f
    <3>2. \A T \in SUBSET D : F(T) = A(T)
      BY <3>1, SumEqual
    <3> QED BY <3>2
  <2>2. \A i \in D : /\ Walk(n, f, RefundOrder(ls))[i] = Clip(n - F(before(i)), f[i])
                     /\ w[i] = Clip(n - A(before(i)), alloc[i])
    <3>1. DOMAIN f = D
      OBVIOUS
    <3> HIDE DEF f
    <3> QED BY <3>1 DEF Walk
  <2> HIDE DEF F, A, before, f, w
  <2> QED BY <1>3, <2>1, <2>2
<1> HIDE DEF f, w, D
<1>6. SumFunctionOnSet(Walk(n, f, RefundOrder(ls)), D) = Clip(n, SumFunctionOnSet(f, D))
  BY <1>1, <1>2, <1>3, WalkTotal
<1>7. SumFunctionOnSet(Walk(n, f, RefundOrder(ls)), D) = SumFunctionOnSet(w, D)
  BY <1>1, <1>5, SumEqual
<1>8. /\ SumFunctionOnSet(f, D) = SumFunctionOnSet(alloc, D)
      /\ SumFunctionOnSet(alloc, D) \in Nat
  BY <1>1, <1>3, SumEqual, SumNat
<1>9. DOMAIN w = D /\ Refund(ls, alloc, n) = w
  BY <1>4, Zenon DEF Refund, w
<1> QED BY <1>6, <1>7, <1>8, <1>9, SumOfFunction DEF D

-------------------------------------------------------------------------------
Billings(ds) == [d \in DOMAIN ds |-> ds[d].billed]

Billed(ds) == SumFunction(Billings(ds))

\* A settlement bills exactly what it takes out of the lots.
LEMMA SettlingBillsWhatItTakes ==
  ASSUME NEW E \in SUBSET Int, NEW ls \in Seq(LotWith(E)),
         NEW ds \in Seq(DebtRecords), NEW now
  PROVE  /\ Worth(LotsAfterSettling(ls, ds, now)) \in Int
         /\ Billed(ds) \in Nat
         /\ Billed(SettleDebts(ls, ds, now)) \in Int
         /\ Worth(LotsAfterSettling(ls, ds, now)) + Billed(SettleDebts(ls, ds, now))
              = Worth(ls) + Billed(ds)
<1> DEFINE D == OpenDebts(ds)
           there == LiveBalance(ls, now)
           f == Outstanding(ds)
           pay == Collection(ls, ds, now)
           paid == SumFunction(pay)
           new == SettleDebts(ls, ds, now)
           all == [d \in DOMAIN ds |-> IF d \in D THEN pay[d] ELSE 0]
<1>1. /\ D \subseteq DOMAIN ds /\ IsFiniteSet(D) /\ IsFiniteSet(DOMAIN ds)
      /\ DOMAIN ds \subseteq Int
  BY LotsFinite DEF OpenDebts
<1>2. f \in [D -> Nat]
  <2>1. \A d \in DOMAIN ds : ds[d].out \in Nat
    BY DebtFields, Zenon
  <2> QED BY <1>1, <2>1 DEF Outstanding
<1>3. pay \in [D -> Nat] /\ paid \in Nat /\ there \in Nat
  BY CollectionBounds, LiveBalanceNat, Zenon
<1>4. pay = Walk(there, f, CreationOrder(DOMAIN ds))
  BY Zenon DEF Collection
<1>5. StrictTotalOrder(CreationOrder(DOMAIN ds), D)
  <2>1. StrictTotalOrder(CreationOrder(DOMAIN ds), DOMAIN ds)
    BY <1>1, OrdersAreTotal, Zenon
  <2> QED BY <1>1, <2>1 DEF StrictTotalOrder
<1>6. LotsAfterSettling(ls, ds, now) = ConsumeLots(ls, paid, now)
  BY Zenon DEF LotsAfterSettling
<1>7. \A d \in DOMAIN ds :
        \/ d \notin D /\ new[d] = ds[d]
        \/ d \in D /\ new[d] = [ds[d] EXCEPT !.out = @ - pay[d], !.billed = @ + pay[d]]
  <2>1. DOMAIN pay = D
    BY <1>3
  <2> QED BY <2>1, Zenon DEF SettleDebts
<1>8. DOMAIN new = DOMAIN ds
  BY DEF SettleDebts
<1>9. \A d \in DOMAIN ds : d \notin D => all[d] = 0
  OBVIOUS
<1>10. \A d \in D : all[d] = pay[d]
  BY <1>1
<1> HIDE DEF D, there, f, pay, new, all
<1>11. paid <= there
  <2>1. SumFunctionOnSet(pay, D) = Clip(there, SumFunctionOnSet(f, D))
    BY <1>1, <1>2, <1>3, <1>4, <1>5, WalkTotal
  <2>2. paid = SumFunctionOnSet(pay, D)
    BY <1>3, SumOfFunction
  <2>3. SumFunctionOnSet(f, D) \in Nat
    BY <1>1, <1>2, SumNat
  <2> QED BY <1>3, <2>1, <2>2, <2>3, ClipBounds
<1>12. SumFunctionOnSet(all, DOMAIN ds) = paid
  <2>1. \A d \in DOMAIN ds : all[d] \in Int
    BY <1>3, <1>9, <1>10
  <2>2. SumFunctionOnSet(all, DOMAIN ds) = SumFunctionOnSet(all, D)
    BY <1>1, <1>9, <2>1, SumSupport
  <2>3. SumFunctionOnSet(all, D) = SumFunctionOnSet(pay, D)
    BY <1>1, <1>10, SumEqual
  <2> QED BY <1>3, <2>2, <2>3, SumOfFunction
<1> HIDE DEF paid
<1>13. Worth(ConsumeLots(ls, paid, now)) = Worth(ls) - paid
  BY <1>3, <1>11, SpendTakesAll DEF there
<1>14. ASSUME NEW d \in DOMAIN ds
       PROVE  /\ Billings(ds)[d] \in Nat /\ all[d] \in Nat
              /\ Billings(new)[d] = Billings(ds)[d] + all[d]
  <2>1. ds[d] \in DebtRecords /\ ds[d].billed \in Nat
    BY DebtFields, Zenon
  <2>2. Billings(ds)[d] = ds[d].billed /\ Billings(new)[d] = new[d].billed
    BY <1>8 DEF Billings
  <2>3. CASE d \in D /\ new[d] = [ds[d] EXCEPT !.out = @ - pay[d], !.billed = @ + pay[d]]
    <3>1. new[d].billed = ds[d].billed + pay[d]
      BY <2>1, <2>3, Zenon DEF DebtRecords
    <3>2. all[d] = pay[d] /\ pay[d] \in Nat
      BY <1>3, <1>10, <2>3
    <3> HIDE <2>3
    <3> QED BY <2>1, <2>2, <3>1, <3>2
  <2>4. CASE d \notin D /\ new[d] = ds[d]
    <3>1. all[d] = 0
      BY <1>9, <2>4
    <3> QED BY <2>1, <2>2, <2>4, <3>1
  <2> QED BY <1>7, <2>3, <2>4, Zenon
<1>15. /\ Billed(ds) = SumFunctionOnSet(Billings(ds), DOMAIN ds)
       /\ Billed(new) = SumFunctionOnSet(Billings(new), DOMAIN ds)
  <2>1. DOMAIN Billings(ds) = DOMAIN ds /\ DOMAIN Billings(new) = DOMAIN ds
    BY <1>8 DEF Billings
  <2> QED BY <2>1, SumOfFunction DEF Billed
<1>16. Billed(new) = Billed(ds) + paid /\ Billed(ds) \in Nat
  <2>1. SumFunctionOnSet(Billings(new), DOMAIN ds)
          = SumFunctionOnSet(Billings(ds), DOMAIN ds) + SumFunctionOnSet(all, DOMAIN ds)
    <3>1. \A d \in DOMAIN ds : /\ Billings(ds)[d] \in Int /\ all[d] \in Int
                              /\ Billings(new)[d] = Billings(ds)[d] + all[d]
      BY <1>14
    <3> QED BY <1>1, <3>1, SumPlus
  <2>2. SumFunctionOnSet(Billings(ds), DOMAIN ds) \in Nat
    BY <1>1, <1>14, SumNat
  <2> QED BY <1>12, <1>15, <2>1, <2>2
<1>17. Worth(ls) \in Nat
  BY WorthSplits
<1> QED BY <1>3, <1>6, <1>13, <1>16, <1>17 DEF new

\* Debts put behind others were billed as much together.
LEMMA ConcatAddsBilled ==
  ASSUME NEW a \in Seq(DebtRecords), NEW b \in Seq(DebtRecords)
  PROVE  /\ a \o b \in Seq(DebtRecords)
         /\ Billed(a \o b) = Billed(a) + Billed(b)
<1> DEFINE c == a \o b
<1>1. /\ Len(a) \in Nat /\ Len(b) \in Nat
      /\ c \in Seq(DebtRecords) /\ Len(c) = Len(a) + Len(b)
      /\ \A i \in 1..Len(a) : c[i] = a[i]
      /\ \A k \in 1..Len(b) : c[Len(a) + k] = b[k]
  BY ConcatProperties
<1>2. /\ DOMAIN a = 1..Len(a) /\ DOMAIN b = 1..Len(b)
      /\ DOMAIN c = 1..(Len(a) + Len(b))
  BY <1>1, LotsFinite, Zenon
<1> HIDE DEF c
<1>3. \A i \in 1..(Len(a) + Len(b)) : Billings(c)[i] \in Int
  <2>1. \A i \in DOMAIN c : c[i].billed \in Nat
    BY <1>1, DebtFields, Zenon
  <2> QED BY <1>2, <2>1 DEF Billings
<1>4. \A i \in 1..Len(a) : Billings(c)[i] = Billings(a)[i]
  BY <1>1, <1>2 DEF Billings
<1>5. \A k \in 1..Len(b) : Billings(c)[Len(a) + k] = Billings(b)[k]
  <2>1. \A k \in 1..Len(b) : Len(a) + k \in DOMAIN c
    BY <1>1, <1>2
  <2> QED BY <1>1, <1>2, <2>1 DEF Billings
<1>6. SumFunctionOnSet(Billings(c), 1..(Len(a) + Len(b)))
        = SumFunctionOnSet(Billings(a), 1..Len(a)) + SumFunctionOnSet(Billings(b), 1..Len(b))
  <2>1. PICK n, m \in Nat : n = Len(a) /\ m = Len(b)
    BY <1>1
  <2>2. PICK f, g, h : f = Billings(a) /\ g = Billings(b) /\ h = Billings(c)
    OBVIOUS
  <2>3. Joined(n, m, f, g, h)
    BY <1>3, <1>4, <1>5, <2>1, <2>2 DEF Joined
  <2>4. SumFunctionOnSet(h, 1..(n + m))
          = SumFunctionOnSet(f, 1..n) + SumFunctionOnSet(g, 1..m)
    BY <2>1, <2>3, SumJoins
  <2> QED BY <2>1, <2>2, <2>4, Zenon
<1>7. /\ DOMAIN Billings(a) = DOMAIN a /\ DOMAIN Billings(b) = DOMAIN b
      /\ DOMAIN Billings(c) = DOMAIN c
  BY DEF Billings
<1> HIDE DEF c
<1>8. Billed(c) = Billed(a) + Billed(b)
  BY <1>2, <1>6, <1>7, SumOfFunction DEF Billed
<1> QED BY <1>1, <1>8 DEF c

\* One more debt, nothing of it collected.
LEMMA AppendAddsBilled ==
  ASSUME NEW ds \in Seq(DebtRecords), NEW d \in DebtRecords, d.billed = 0
  PROVE  /\ Append(ds, d) \in Seq(DebtRecords)
         /\ Billed(Append(ds, d)) = Billed(ds)
<1>1. Append(ds, d) = ds \o <<d>> /\ <<d>> \in Seq(DebtRecords)
  OBVIOUS
<1>2. Billed(Append(ds, d)) = Billed(ds) + Billed(<<d>>)
  BY <1>1, ConcatAddsBilled, Zenon
<1>3. Billed(<<d>>) = 0
  <2>1. DOMAIN Billings(<<d>>) = {1} /\ Billings(<<d>>)[1] = 0
    BY DEF Billings
  <2>2. IsFiniteSet({1})
    BY FS_Singleton
  <2> QED BY <2>1, <2>2, SumZeros, SumOfFunction DEF Billed
<1>4. Billed(ds) \in Nat
  <2>1. IsFiniteSet(DOMAIN ds) /\ \A i \in DOMAIN ds : ds[i].billed \in Nat
    BY LotsFinite, DebtFields, Zenon
  <2>2. SumFunctionOnSet(Billings(ds), DOMAIN ds) \in Nat
    BY <2>1, SumNat DEF Billings
  <2> QED BY <2>2, SumOfFunction DEF Billed, Billings
<1> QED BY <1>1, <1>2, <1>3, <1>4

-------------------------------------------------------------------------------
(***************************************************************************)
(* Lots by deadline.  Lots with the same deadline are alike to a caller:   *)
(* what a walk, a sweep or a hand-back does to lots is told here by what   *)
(* it does to the sum of each deadline, E being the deadlines there are.   *)
(***************************************************************************)
DatedOf(ls, f, E) ==
  [d \in E |-> SumFunctionOnSet(f, {i \in DOMAIN f : ls[i].exp = d})]

\* A sum over some elements, as a sum over all of them.
LEMMA SumIndicator ==
  ASSUME NEW f, NEW S, IsFiniteSet(S), \A x \in S : f[x] \in Int, NEW T \in SUBSET S
  PROVE  SumFunctionOnSet([x \in S |-> IF x \in T THEN f[x] ELSE 0], S)
           = SumFunctionOnSet(f, T)
<1> DEFINE g == [x \in S |-> IF x \in T THEN f[x] ELSE 0]
<1>1. /\ \A x \in S : g[x] \in Int
      /\ \A x \in S \ T : g[x] = 0
      /\ \A x \in T : g[x] = f[x]
  OBVIOUS
<1> HIDE DEF g
<1>2. SumFunctionOnSet(g, S) = SumFunctionOnSet(g, T)
  BY <1>1, SumSupport
<1>3. SumFunctionOnSet(g, T) = SumFunctionOnSet(f, T)
  BY <1>1, FS_Subset, SumEqual
<1> QED BY <1>2, <1>3 DEF g

\* The deadlines of U together hold what the lots with one of them hold.
LEMMA DatedSum ==
  ASSUME NEW ls, NEW f, IsFiniteSet(DOMAIN f), \A i \in DOMAIN f : f[i] \in Int,
         NEW E, NEW U \in SUBSET E, IsFiniteSet(U)
  PROVE  SumFunctionOnSet(DatedOf(ls, f, E), U)
           = SumFunctionOnSet(f, {i \in DOMAIN f : ls[i].exp \in U})
<1> DEFINE D(V) == {i \in DOMAIN f : ls[i].exp \in V}
    g == DatedOf(ls, f, E)
    P == {V \in SUBSET U : SumFunctionOnSet(g, V) = SumFunctionOnSet(f, D(V))}
<1>1. \A V : IsFiniteSet(D(V)) /\ D(V) \subseteq DOMAIN f
  BY FS_Subset
<1>2. \A V : SumFunctionOnSet(f, D(V)) \in Int
  <2> SUFFICES ASSUME NEW V PROVE SumFunctionOnSet(f, D(V)) \in Int
    OBVIOUS
  <2> DEFINE DV == D(V)
  <2>1. IsFiniteSet(DV) /\ \A x \in DV : f[x] \in Int
    BY <1>1
  <2> HIDE DEF DV
  <2> QED BY <2>1, SumInt DEF DV
<1>3. \A d \in E : g[d] = SumFunctionOnSet(f, D({d})) /\ g[d] \in Int
  <2> SUFFICES ASSUME NEW d \in E PROVE g[d] = SumFunctionOnSet(f, D({d}))
    BY <1>2
  <2>1. D({d}) = {i \in DOMAIN f : ls[i].exp = d}
    OBVIOUS
  <2> QED BY <2>1 DEF DatedOf
<1>4. {} \in P
  <2>1. D({}) = {}
    OBVIOUS
  <2> HIDE DEF g
  <2> QED BY <2>1, SumEmpty
<1>5. ASSUME NEW V \in SUBSET U, NEW d \in U \ V, V \in P
      PROVE  V \cup {d} \in P
  <2>1. D(V \cup {d}) = D(V) \cup D({d}) /\ D(V) \cap D({d}) = {}
    OBVIOUS
  <2> DEFINE DV == D(V)  DD == D({d})
  <2>2. /\ IsFiniteSet(DV) /\ IsFiniteSet(DD) /\ DV \cap DD = {}
        /\ \A x \in DV \cup DD : f[x] \in Int
        /\ g[d] = SumFunctionOnSet(f, DD)
        /\ SumFunctionOnSet(g, V) = SumFunctionOnSet(f, DV)
    BY <1>1, <1>3, <1>5, <2>1
  <2>3. D(V \cup {d}) = DV \cup DD
    BY <2>1
  <2> HIDE DEF DV, DD
  <2>4. SumFunctionOnSet(f, DV \cup DD) = SumFunctionOnSet(f, DV) + SumFunctionOnSet(f, DD)
    BY <2>2, SumUnion
  <2>5. IsFiniteSet(V) /\ \A x \in V \cup {d} : g[x] \in Int
    BY <1>3, FS_Subset
  <2> HIDE DEF g
  <2>6. SumFunctionOnSet(g, V \cup {d}) = SumFunctionOnSet(g, V) + g[d]
    BY <2>5, SumAdd
  <2> HIDE DEF D
  <2> QED BY <2>2, <2>3, <2>4, <2>6
<1>6. U \in P
  <2> HIDE DEF P
  <2> QED BY <1>4, <1>5, FiniteInduction
<1> QED BY <1>6

\* What lots hold by deadline is a number for each deadline.
LEMMA DatedNat ==
  ASSUME NEW ls, NEW f, IsFiniteSet(DOMAIN f), \A i \in DOMAIN f : f[i] \in Nat, NEW E
  PROVE  DatedOf(ls, f, E) \in [E -> Nat]
<1> SUFFICES ASSUME NEW d \in E
             PROVE  SumFunctionOnSet(f, {i \in DOMAIN f : ls[i].exp = d}) \in Nat
  BY DEF DatedOf
<1> DEFINE S == {i \in DOMAIN f : ls[i].exp = d}
<1>1. IsFiniteSet(S) /\ \A x \in S : f[x] \in Nat
  BY FS_Subset
<1> HIDE DEF S
<1> QED BY <1>1, SumNat DEF S

\* All deadlines together hold what the lots hold.
LEMMA DatedTotal ==
  ASSUME NEW ls, NEW f, IsFiniteSet(DOMAIN f), \A i \in DOMAIN f : f[i] \in Nat,
         NEW E, IsFiniteSet(E), \A i \in DOMAIN f : ls[i].exp \in E
  PROVE  SumFunction(DatedOf(ls, f, E)) = SumFunction(f)
<1>1. {i \in DOMAIN f : ls[i].exp \in E} = DOMAIN f
  OBVIOUS
<1>2. SumFunctionOnSet(DatedOf(ls, f, E), E) = SumFunctionOnSet(f, DOMAIN f)
  BY <1>1, DatedSum
<1>3. DOMAIN DatedOf(ls, f, E) = E
  BY DEF DatedOf
<1> QED BY <1>2, <1>3, SumOfFunction

\* Where f is not empty, the deadlines agree ...
SameDeadlines(ls, ms, f) == \A i \in DOMAIN f : ls[i].exp = ms[i].exp

\* ... and then it is the same by deadline.
LEMMA SameDates ==
  ASSUME NEW ls, NEW ms, NEW f, NEW E, SameDeadlines(ls, ms, f)
  PROVE  DatedOf(ls, f, E) = DatedOf(ms, f, E)
<1>1. \A d : {i \in DOMAIN f : ls[i].exp = d} = {i \in DOMAIN f : ms[i].exp = d}
  BY DEF SameDeadlines
<1> QED BY <1>1 DEF DatedOf

\* What holds nothing can be left out.
LEMMA DatedSupport ==
  ASSUME NEW ls, NEW f, NEW g, IsFiniteSet(DOMAIN f), \A i \in DOMAIN f : f[i] \in Int,
         DOMAIN g \subseteq DOMAIN f, \A i \in DOMAIN g : g[i] = f[i],
         \A i \in DOMAIN f \ DOMAIN g : f[i] = 0, NEW E
  PROVE  DatedOf(ls, f, E) = DatedOf(ls, g, E)
<1> SUFFICES ASSUME NEW d \in E
             PROVE  SumFunctionOnSet(f, {i \in DOMAIN f : ls[i].exp = d})
                      = SumFunctionOnSet(g, {i \in DOMAIN g : ls[i].exp = d})
  BY DEF DatedOf
<1> DEFINE S == {i \in DOMAIN f : ls[i].exp = d}
           T == {i \in DOMAIN g : ls[i].exp = d}
<1>1. /\ T \in SUBSET S /\ IsFiniteSet(S) /\ IsFiniteSet(T)
      /\ \A x \in S : f[x] \in Int
      /\ \A x \in S \ T : f[x] = 0
      /\ \A x \in T : f[x] = g[x]
  BY FS_Subset
<1> HIDE DEF S, T
<1>2. SumFunctionOnSet(f, S) = SumFunctionOnSet(f, T)
  BY <1>1, SumSupport
<1>3. SumFunctionOnSet(f, T) = SumFunctionOnSet(g, T)
  BY <1>1, SumEqual
<1> QED BY <1>2, <1>3 DEF S, T

\* A walk that comes to the deadlines of U, then to d, then to the rest, takes
\* of d what the deadlines of U leave wanting.
LEMMA DatedWalk ==
  ASSUME NEW ls, NEW f, NEW D, D = DOMAIN f, IsFiniteSet(D), \A i \in D : f[i] \in Nat,
         NEW n \in Int, NEW R, StrictTotalOrder(R, D),
         NEW E, IsFiniteSet(E), NEW U \in SUBSET E, NEW d \in E, d \notin U,
         \A i, j \in D : <<j, i>> \in R /\ ls[i].exp \in U => ls[j].exp \in U,
         \A i, j \in D : <<j, i>> \in R /\ ls[i].exp = d => ls[j].exp \in U \cup {d}
  PROVE  DatedOf(ls, Walk(n, f, R), E)[d]
           = Clip(n - SumFunctionOnSet(DatedOf(ls, f, E), U), DatedOf(ls, f, E)[d])
<1> DEFINE w == Walk(n, f, R)
           A == {i \in D : ls[i].exp \in U}
           B == {i \in D : ls[i].exp = d}
<1>1. /\ A \in SUBSET D /\ B \in SUBSET D /\ A \cup B \in SUBSET D /\ A \cap B = {}
      /\ IsFiniteSet(A) /\ IsFiniteSet(B) /\ IsFiniteSet(U)
  BY FS_Subset
<1>2. w \in [D -> Nat] /\ DOMAIN w = D
  BY WalkBounds
<1>3. /\ DatedOf(ls, w, E)[d] = SumFunctionOnSet(w, B)
      /\ DatedOf(ls, f, E)[d] = SumFunctionOnSet(f, B)
  <2> HIDE DEF w
  <2> QED BY <1>2 DEF DatedOf
<1>4. SumFunctionOnSet(DatedOf(ls, f, E), U) = SumFunctionOnSet(f, A)
  BY <1>1, DatedSum
<1>5. \A i \in A : \A j \in D : <<j, i>> \in R => j \in A
  OBVIOUS
<1>6. \A i \in A \cup B : \A j \in D : <<j, i>> \in R => j \in A \cup B
  OBVIOUS
<1> HIDE DEF A, B
<1>7. SumFunctionOnSet(w, A) = Clip(n, SumFunctionOnSet(f, A))
  BY <1>1, <1>5, WalkClosed
<1>8. SumFunctionOnSet(w, A \cup B) = Clip(n, SumFunctionOnSet(f, A \cup B))
  BY <1>1, <1>6, WalkClosed
<1> HIDE DEF w
<1>9. /\ SumFunctionOnSet(w, A \cup B) = SumFunctionOnSet(w, A) + SumFunctionOnSet(w, B)
      /\ SumFunctionOnSet(f, A \cup B) = SumFunctionOnSet(f, A) + SumFunctionOnSet(f, B)
  <2>1. \A i \in A \cup B : w[i] \in Int /\ f[i] \in Int
    BY <1>1, <1>2
  <2> QED BY <1>1, <2>1, SumUnion
<1>10. /\ SumFunctionOnSet(f, A) \in Nat /\ SumFunctionOnSet(f, B) \in Nat
       /\ SumFunctionOnSet(w, B) \in Nat
  <2>1. /\ \A i \in A : f[i] \in Nat
        /\ \A i \in B : f[i] \in Nat /\ w[i] \in Nat
    BY <1>1, <1>2
  <2> QED BY <1>1, <2>1, SumNat
<1>11. \A a, b, x \in Nat : Clip(n, a) + x = Clip(n, a + b) => x = Clip(n - a, b)
  BY DEF Clip
<1>12. SumFunctionOnSet(w, B) = Clip(n - SumFunctionOnSet(f, A), SumFunctionOnSet(f, B))
  <2> DEFINE a == SumFunctionOnSet(f, A)  b == SumFunctionOnSet(f, B)
             x == SumFunctionOnSet(w, B)
  <2>1. a \in Nat /\ b \in Nat /\ x \in Nat
    BY <1>10
  <2>2. Clip(n, a) + x = Clip(n, a + b)
    BY <1>7, <1>8, <1>9
  <2> HIDE DEF a, b, x
  <2>3. x = Clip(n - a, b)
    BY <1>11, <2>1, <2>2
  <2> QED BY <2>3 DEF a, b, x
<1> QED BY <1>3, <1>4, <1>12, Zenon DEF w

\* A spend takes the credits that die soonest.
LEMMA SoonestFirst ==
  ASSUME NEW E \in SUBSET Int, IsFiniteSet(E), NEW ls \in Seq(LotWith(E)),
         NEW f, Allocates(ls, f), NEW n \in Int, NEW d \in E
  PROVE  DatedOf(ls, Walk(n, f, SpendOrder(ls)), E)[d]
           = Clip(n - SumFunctionOnSet(DatedOf(ls, f, E), {e \in E : e < d}),
                  DatedOf(ls, f, E)[d])
<1> DEFINE D == DOMAIN f  R == SpendOrder(ls)  U == {e \in E : e < d}
<1>1. D \subseteq DOMAIN ls /\ IsFiniteSet(D) /\ \A i \in D : f[i] \in Nat
  BY LotsFinite DEF Allocates
<1>2. StrictTotalOrder(R, D)
  BY <1>1, OrdersAreTotal, Zenon
<1>3. \A i \in D : ls[i].exp \in E /\ ls[i].exp \in Int
  BY <1>1, LotFields
<1>4. \A i, j \in D : <<j, i>> \in R => ls[j].exp <= ls[i].exp
  BY <1>1, <1>3 DEF SpendOrder
<1>5. d \in Int /\ U \in SUBSET E /\ d \notin U
  OBVIOUS
<1> HIDE DEF D, R
<1>6. \A i, j \in D : <<j, i>> \in R /\ ls[i].exp \in U => ls[j].exp \in U
  BY <1>3, <1>4, <1>5
<1>7. \A i, j \in D : <<j, i>> \in R /\ ls[i].exp = d => ls[j].exp \in U \cup {d}
  BY <1>3, <1>4, <1>5
<1> HIDE DEF U
<1> QED BY <1>1, <1>2, <1>5, <1>6, <1>7, DatedWalk DEF D, R, U

\* A refund gives back the credits that die latest.
LEMMA LatestFirst ==
  ASSUME NEW E \in SUBSET Int, IsFiniteSet(E), NEW ls \in Seq(LotWith(E)),
         NEW f, Allocates(ls, f), NEW n \in Int, NEW d \in E
  PROVE  DatedOf(ls, Walk(n, f, RefundOrder(ls)), E)[d]
           = Clip(n - SumFunctionOnSet(DatedOf(ls, f, E), {e \in E : e > d}),
                  DatedOf(ls, f, E)[d])
<1> DEFINE D == DOMAIN f  R == RefundOrder(ls)  U == {e \in E : e > d}
<1>1. D \subseteq DOMAIN ls /\ IsFiniteSet(D) /\ \A i \in D : f[i] \in Nat
  BY LotsFinite DEF Allocates
<1>2. StrictTotalOrder(R, D)
  BY <1>1, OrdersAreTotal, Zenon
<1>3. \A i \in D : ls[i].exp \in E /\ ls[i].exp \in Int
  BY <1>1, LotFields
<1>4. \A i, j \in D : <<j, i>> \in R => ls[j].exp >= ls[i].exp
  BY <1>1, <1>3 DEF SpendOrder, RefundOrder
<1>5. d \in Int /\ U \in SUBSET E /\ d \notin U
  OBVIOUS
<1> HIDE DEF D, R
<1>6. \A i, j \in D : <<j, i>> \in R /\ ls[i].exp \in U => ls[j].exp \in U
  BY <1>3, <1>4, <1>5
<1>7. \A i, j \in D : <<j, i>> \in R /\ ls[i].exp = d => ls[j].exp \in U \cup {d}
  BY <1>3, <1>4, <1>5
<1> HIDE DEF U
<1> QED BY <1>1, <1>2, <1>5, <1>6, <1>7, DatedWalk DEF D, R, U

-------------------------------------------------------------------------------
\* No lot of ls that holds credits is past its deadline.
Alive(ls, now) == \A i \in 1..Len(ls) : ls[i].rem > 0 => ls[i].exp > now

\* After the sweep nothing that is dead holds credits.
LEMMA SweptAlive ==
  ASSUME NEW E \in SUBSET Int, NEW ls \in Seq(LotWith(E)), NEW now \in Nat
  PROVE  Alive(ExpireDueLots(ls, now), now)
<1> DEFINE new == ExpireDueLots(ls, now)
<1>1. Len(new) = Len(ls) /\ DOMAIN ls = 1..Len(ls)
  BY ExpireShrinks, LotsFinite, Zenon
<1>2. \A i \in DOMAIN ls :
        new[i] = IF i \in Due(ls, now)
                   THEN [ls[i] EXCEPT !.rem = 0, !.expired = @ + ls[i].rem]
                   ELSE ls[i]
  BY Zenon DEF ExpireDueLots
<1> HIDE DEF new
<1>3. ASSUME NEW i \in DOMAIN ls, new[i].rem > 0
      PROVE  new[i].exp > now
  <2>1. ls[i] \in LotWith(E) /\ ls[i].rem \in Nat /\ ls[i].exp \in E
    BY LotFields, Zenon
  <2>2. CASE i \in Due(ls, now)
    <3>1. new[i] = [ls[i] EXCEPT !.rem = 0, !.expired = @ + ls[i].rem]
      BY <1>2, <2>2, Zenon
    <3>2. new[i].rem = 0
      BY <2>1, <3>1, Zenon DEF LotWith
    <3> HIDE <3>1
    <3> QED BY <1>3, <3>2
  <2>3. CASE i \notin Due(ls, now)
    <3>1. new[i] = ls[i]
      BY <1>2, <2>3, Zenon
    <3>2. ~(ls[i].rem > 0 /\ ls[i].exp <= now)
      BY <2>3, Zenon DEF Due
    <3>3. ls[i].rem > 0 /\ new[i].exp = ls[i].exp
      BY <1>3, <3>1, Zenon
    <3>4. ls[i].exp \in Int
      BY <2>1
    <3> QED BY <3>2, <3>3, <3>4
  <2> QED BY <2>2, <2>3, Zenon
<1> QED BY <1>1, <1>3, Zenon DEF Alive, new

\* A spend brings nothing back to life.
LEMMA AliveDescends ==
  ASSUME NEW E \in SUBSET Int, NEW old \in Seq(LotWith(E)), NEW new \in Seq(LotWith(E)),
         Descends(old, new), Len(new) = Len(old), NEW now \in Nat, Alive(old, now)
  PROVE  Alive(new, now)
<1> SUFFICES ASSUME NEW i \in 1..Len(new), new[i].rem > 0
             PROVE  new[i].exp > now
  BY Zenon DEF Alive
<1>1. i \in DOMAIN old /\ i \in DOMAIN new /\ i \in 1..Len(old)
  BY LotsFinite, Zenon
<1>2. new[i].rem <= old[i].rem /\ new[i].exp = old[i].exp
  BY <1>1, Zenon DEF Descends
<1>3. old[i].rem \in Nat /\ new[i].rem \in Nat /\ old[i].exp \in E
  BY <1>1, LotFields, Zenon
<1>4. old[i].rem > 0
  BY <1>2, <1>3
<1> QED BY <1>1, <1>2, <1>4, Zenon DEF Alive

\* What the lots ls can be spent for, deadline by deadline.
Funds(ls, E) == DatedOf(ls, Remaining(ls), E)

\* What is left of the lots, lot by lot.
LEMMA RemainingNat ==
  ASSUME NEW E, NEW ls \in Seq(LotWith(E))
  PROVE  /\ Remaining(ls) \in [DOMAIN ls -> Nat] /\ DOMAIN Remaining(ls) = DOMAIN ls
         /\ IsFiniteSet(DOMAIN ls) /\ Allocates(ls, Remaining(ls))
         /\ \A i \in DOMAIN ls : Remaining(ls)[i] = ls[i].rem
<1>1. \A i \in DOMAIN ls : ls[i].rem \in Nat
  BY LotFields, Zenon
<1> QED BY <1>1, LotsFinite DEF Remaining, Allocates

\* The funds are whole numbers and add up to what the lots hold.
LEMMA FundsNat ==
  ASSUME NEW E, IsFiniteSet(E), NEW ls \in Seq(LotWith(E))
  PROVE  /\ Funds(ls, E) \in [E -> Nat]
         /\ SumFunction(Funds(ls, E)) = SumFunction(Remaining(ls))
         /\ SumFunction(Funds(ls, E)) \in Nat
<1>1. \A i \in DOMAIN ls : ls[i].exp \in E
  BY LotFields, Zenon
<1>2. Funds(ls, E) \in [E -> Nat]
  BY RemainingNat, DatedNat DEF Funds
<1>3. SumFunction(Funds(ls, E)) = SumFunction(Remaining(ls))
  BY <1>1, RemainingNat, DatedTotal DEF Funds
<1>4. SumFunction(Remaining(ls)) \in Nat
  <2>1. SumFunctionOnSet(Remaining(ls), DOMAIN ls) \in Nat
    BY RemainingNat, SumNat
  <2> QED BY <2>1, RemainingNat, SumOfFunction
<1> QED BY <1>2, <1>3, <1>4

\* The sweep drops the credits of the deadlines that have passed.
LEMMA ExpiredByDate ==
  ASSUME NEW E \in SUBSET Int, NEW ls \in Seq(LotWith(E)), NEW now \in Nat, NEW d \in E
  PROVE  Funds(ExpireDueLots(ls, now), E)[d] = IF d > now THEN Funds(ls, E)[d] ELSE 0
<1> DEFINE new == ExpireDueLots(ls, now)
           S == {i \in DOMAIN ls : ls[i].exp = d}
<1>1. /\ new \in Seq(LotWith(E)) /\ DOMAIN new = DOMAIN ls
      /\ \A i \in DOMAIN ls : new[i].exp = ls[i].exp
  BY ExpireShrinks DEF Shrunk
<1>2. \A i \in DOMAIN ls :
        new[i] = IF i \in Due(ls, now)
                   THEN [ls[i] EXCEPT !.rem = 0, !.expired = @ + ls[i].rem]
                   ELSE ls[i]
  BY Zenon DEF ExpireDueLots
<1> HIDE DEF new
<1>3. ASSUME NEW i \in S
      PROVE  new[i].rem = IF d > now THEN ls[i].rem ELSE 0
  <2>1. ls[i] \in LotWith(E) /\ ls[i].rem \in Nat /\ i \in DOMAIN ls /\ ls[i].exp = d
    BY LotFields, Zenon
  <2>2. CASE i \in Due(ls, now)
    <3>1. new[i] = [ls[i] EXCEPT !.rem = 0, !.expired = @ + ls[i].rem]
      BY <1>2, <2>1, <2>2, Zenon
    <3>2. new[i].rem = 0
      BY <2>1, <3>1, Zenon DEF LotWith
    <3>3. d <= now /\ d \in Int /\ now \in Int
      BY <2>1, <2>2 DEF Due
    <3>4. ~(d > now)
      BY <3>3
    <3> HIDE <3>1
    <3> QED BY <3>2, <3>4
  <2>3. CASE i \notin Due(ls, now)
    <3>1. new[i] = ls[i]
      BY <1>2, <2>1, <2>3, Zenon
    <3>2. ~(ls[i].rem > 0 /\ d <= now)
      BY <2>1, <2>3 DEF Due
    <3>3. new[i].rem = ls[i].rem /\ d \in Int
      BY <3>1
    <3> QED BY <2>1, <3>2, <3>3
  <2> QED BY <2>2, <2>3
<1>4. /\ DOMAIN Remaining(new) = DOMAIN ls /\ DOMAIN Remaining(ls) = DOMAIN ls
      /\ \A i \in DOMAIN ls : Remaining(new)[i] = new[i].rem /\ Remaining(ls)[i] = ls[i].rem
  BY <1>1, RemainingNat
<1>5. /\ Funds(new, E)[d] = SumFunctionOnSet(Remaining(new), S)
      /\ Funds(ls, E)[d] = SumFunctionOnSet(Remaining(ls), S)
  <2>1. S = {i \in DOMAIN Remaining(new) : new[i].exp = d}
    BY <1>1, <1>4
  <2>2. S = {i \in DOMAIN Remaining(ls) : ls[i].exp = d}
    BY <1>4
  <2> HIDE DEF S
  <2> QED BY <2>1, <2>2 DEF Funds, DatedOf
<1>6. IsFiniteSet(S) /\ S \subseteq DOMAIN ls
  BY LotsFinite
<1> HIDE DEF S
<1>7. CASE d > now
  <2>1. \A i \in S : Remaining(new)[i] = Remaining(ls)[i]
    BY <1>3, <1>4, <1>6, <1>7
  <2> QED BY <1>5, <1>6, <1>7, <2>1, SumEqual DEF new
<1>8. CASE ~(d > now)
  <2>1. \A i \in S : Remaining(new)[i] = 0
    BY <1>3, <1>4, <1>6, <1>8
  <2> QED BY <1>5, <1>6, <1>8, <2>1, SumZeros DEF new
<1> QED BY <1>7, <1>8

\* What is taken out of lots is gone from their deadlines.
LEMMA TakenByDate ==
  ASSUME NEW E, NEW ls \in Seq(LotWith(E)), NEW take, Allocates(ls, take),
         \A i \in DOMAIN take : take[i] <= ls[i].rem, NEW d \in E
  PROVE  Funds(TakeFrom(ls, take), E)[d] = Funds(ls, E)[d] - DatedOf(ls, take, E)[d]
<1> DEFINE new == TakeFrom(ls, take)
           T == DOMAIN take
           all == [i \in DOMAIN ls |-> IF i \in T THEN take[i] ELSE 0]
           S == {i \in DOMAIN ls : ls[i].exp = d}
<1>1. T \subseteq DOMAIN ls /\ \A i \in T : take[i] \in Nat
  BY DEF Allocates
<1>2. /\ new \in Seq(LotWith(E)) /\ DOMAIN new = DOMAIN ls
      /\ \A i \in DOMAIN ls : new[i].exp = ls[i].exp
  <2>1. \A i \in T : i \in DOMAIN ls => take[i] \in Nat /\ take[i] <= ls[i].rem
    BY <1>1
  <2> QED BY <2>1, TakeShrinks DEF Shrunk
<1>3. \A i \in DOMAIN ls :
        new[i] = IF i \in T THEN [ls[i] EXCEPT !.rem = @ - take[i]] ELSE ls[i]
  BY Zenon DEF TakeFrom
<1>4. all \in [DOMAIN ls -> Nat] /\ DOMAIN all = DOMAIN ls
  BY <1>1
<1>5. \A i \in DOMAIN ls : all[i] = IF i \in T THEN take[i] ELSE 0
  OBVIOUS
<1>6. DatedOf(ls, take, E) = DatedOf(ls, all, E)
  <2>1. \A i \in DOMAIN all : all[i] \in Int
    BY <1>4
  <2>2. \A i \in T : take[i] = all[i]
    BY <1>1, <1>5
  <2>3. \A i \in DOMAIN all \ T : all[i] = 0
    BY <1>4, <1>5
  <2> HIDE DEF all
  <2>4. DatedOf(ls, all, E) = DatedOf(ls, take, E)
    BY <1>1, <1>4, <2>1, <2>2, <2>3, LotsFinite, DatedSupport
  <2> QED BY <2>4
<1> HIDE DEF new, all
<1>7. ASSUME NEW i \in DOMAIN ls
      PROVE  new[i].rem = ls[i].rem - all[i]
  <2>1. ls[i] \in LotWith(E) /\ ls[i].rem \in Nat
    BY LotFields, Zenon
  <2>2. CASE i \in T
    <3>1. new[i] = [ls[i] EXCEPT !.rem = @ - take[i]]
      BY <1>3, <2>2, Zenon
    <3>2. new[i].rem = ls[i].rem - take[i]
      BY <2>1, <3>1, Zenon DEF LotWith
    <3> HIDE <3>1
    <3> QED BY <1>5, <2>2, <3>2
  <2>3. CASE i \notin T
    <3>1. new[i] = ls[i] /\ all[i] = 0
      BY <1>3, <1>5, <2>3, Zenon
    <3> QED BY <2>1, <3>1
  <2> QED BY <2>2, <2>3
<1>8. /\ DOMAIN Remaining(new) = DOMAIN ls /\ DOMAIN Remaining(ls) = DOMAIN ls
      /\ \A i \in DOMAIN ls : /\ Remaining(new)[i] = new[i].rem /\ Remaining(ls)[i] = ls[i].rem
                              /\ Remaining(ls)[i] \in Nat
  BY <1>2, RemainingNat
<1>9. /\ Funds(new, E)[d] = SumFunctionOnSet(Remaining(new), S)
      /\ Funds(ls, E)[d] = SumFunctionOnSet(Remaining(ls), S)
      /\ DatedOf(ls, all, E)[d] = SumFunctionOnSet(all, S)
  <2>1. S = {i \in DOMAIN Remaining(new) : new[i].exp = d}
    BY <1>2, <1>8
  <2>2. S = {i \in DOMAIN Remaining(ls) : ls[i].exp = d} /\ S = {i \in DOMAIN all : ls[i].exp = d}
    BY <1>4, <1>8
  <2> HIDE DEF S
  <2> QED BY <2>1, <2>2 DEF Funds, DatedOf
<1>10. IsFiniteSet(S) /\ S \subseteq DOMAIN ls
  BY LotsFinite
<1> HIDE DEF S
<1>11. \A i \in S : /\ Remaining(ls)[i] \in Int /\ all[i] \in Int
                    /\ Remaining(new)[i] = Remaining(ls)[i] - all[i]
  BY <1>4, <1>7, <1>8, <1>10
<1>12. SumFunctionOnSet(Remaining(new), S)
         = SumFunctionOnSet(Remaining(ls), S) - SumFunctionOnSet(all, S)
  BY <1>10, <1>11, SumMinus
<1> QED BY <1>6, <1>9, <1>12 DEF new

\* Where nothing dead holds credits, the live balance is all there is.
LEMMA AliveBalance ==
  ASSUME NEW E \in SUBSET Int, IsFiniteSet(E), NEW ls \in Seq(LotWith(E)),
         NEW now, Alive(ls, now)
  PROVE  /\ LiveBalance(ls, now) = SumFunction(Funds(ls, E))
         /\ DatedOf(ls, Restrict(Remaining(ls), Live(ls, now)), E) = Funds(ls, E)
         /\ Allocates(ls, Restrict(Remaining(ls), Live(ls, now)))
<1> DEFINE f == Remaining(ls)  L == Live(ls, now)  g == Restrict(f, L)
<1>1. f \in [DOMAIN ls -> Nat] /\ IsFiniteSet(DOMAIN ls) /\ \A i \in DOMAIN ls : f[i] = ls[i].rem
  BY RemainingNat
<1>2. L \in SUBSET DOMAIN ls /\ \A i \in DOMAIN ls \ L : f[i] = 0
  <2>1. L = {i \in DOMAIN ls : ls[i].rem > 0}
    BY LotsFinite DEF Live, Alive
  <2> QED BY <1>1, <2>1
<1>3. DOMAIN g = L /\ \A i \in L : g[i] = f[i]
  BY DEF Restrict
<1> HIDE DEF f, L, g
<1>4. SumFunctionOnSet(f, DOMAIN ls) = SumFunctionOnSet(f, L)
  BY <1>1, <1>2, SumSupport
<1>5. LiveBalance(ls, now) = SumFunctionOnSet(f, L)
  BY DEF LiveBalance, f, L
<1>6. SumFunction(f) = SumFunctionOnSet(f, DOMAIN ls)
  BY <1>1, SumOfFunction
<1>7. SumFunction(Funds(ls, E)) = SumFunction(f)
  BY FundsNat DEF f
<1>8. DatedOf(ls, f, E) = DatedOf(ls, g, E)
  BY <1>1, <1>2, <1>3, DatedSupport
<1>9. Allocates(ls, g)
  BY <1>1, <1>2, <1>3 DEF Allocates
<1> QED BY <1>4, <1>5, <1>6, <1>7, <1>8, <1>9 DEF f, L, g, Funds

\* A spend takes what dies soonest, as far as the amount goes.
LEMMA SpentByDate ==
  ASSUME NEW E \in SUBSET Int, IsFiniteSet(E), NEW ls \in Seq(LotWith(E)),
         NEW now, Alive(ls, now), NEW n \in Nat, NEW d \in E
  PROVE  LET taken == Clip(n - SumFunctionOnSet(Funds(ls, E), {e \in E : e < d}),
                           Funds(ls, E)[d])
         IN  /\ DatedOf(ls, Consumption(ls, n, now), E)[d] = taken
             /\ Funds(ConsumeLots(ls, n, now), E)[d] = Funds(ls, E)[d] - taken
<1> DEFINE g == Restrict(Remaining(ls), Live(ls, now))  take == Consumption(ls, n, now)
<1>1. DatedOf(ls, g, E) = Funds(ls, E) /\ Allocates(ls, g)
  BY AliveBalance
<1>2. take = Walk(n, g, SpendOrder(ls))
  BY DEF Consumption
<1> HIDE DEF g
<1>3. DatedOf(ls, take, E)[d]
        = Clip(n - SumFunctionOnSet(DatedOf(ls, g, E), {e \in E : e < d}), DatedOf(ls, g, E)[d])
  <2>1. n \in Int
    OBVIOUS
  <2> HIDE DEF take
  <2> QED BY <1>1, <1>2, <2>1, SoonestFirst
<1>4. Allocates(ls, take) /\ \A i \in DOMAIN take : take[i] <= ls[i].rem
  <2>1. take \in [Live(ls, now) -> Nat] /\ Live(ls, now) \subseteq DOMAIN ls
        /\ \A i \in Live(ls, now) : take[i] <= ls[i].rem
    BY ConsumeShrinks
  <2> HIDE DEF take
  <2> QED BY <2>1 DEF Allocates
<1>5. ConsumeLots(ls, n, now) = TakeFrom(ls, take)
  BY DEF ConsumeLots
<1> HIDE DEF take
<1>6. Funds(TakeFrom(ls, take), E)[d] = Funds(ls, E)[d] - DatedOf(ls, take, E)[d]
  BY <1>4, TakenByDate
<1> QED BY <1>1, <1>3, <1>5, <1>6 DEF take

\* The lots with the deadline d, the others as if they held nothing.
AtDate(ls, d) == [i \in DOMAIN ls |-> IF ls[i].exp = d THEN ls[i].rem ELSE 0]

\* The funds of a date are what the lots of that date hold.
LEMMA FundsAtDate ==
  ASSUME NEW E, NEW ls \in Seq(LotWith(E)), NEW d \in E
  PROVE  /\ AtDate(ls, d) \in [DOMAIN ls -> Nat]
         /\ Funds(ls, E)[d] = SumFunctionOnSet(AtDate(ls, d), DOMAIN ls)
<1> DEFINE f == Remaining(ls)
           T == {i \in DOMAIN ls : ls[i].exp = d}
           g == [i \in DOMAIN ls |-> IF i \in T THEN f[i] ELSE 0]
<1>1. f \in [DOMAIN ls -> Nat] /\ IsFiniteSet(DOMAIN ls) /\ \A i \in DOMAIN ls : f[i] = ls[i].rem
  BY RemainingNat
<1>2. \A i \in DOMAIN ls : f[i] \in Int
  <2> HIDE DEF f
  <2> QED BY <1>1
<1>3. AtDate(ls, d) = g
  <2>1. \A i \in DOMAIN ls : f[i] = ls[i].rem
    BY <1>1
  <2> HIDE DEF f
  <2> QED BY <2>1 DEF AtDate
<1>4. g \in [DOMAIN ls -> Nat]
  <2> HIDE DEF f, T
  <2> QED BY <1>1
<1>5. Funds(ls, E)[d] = SumFunctionOnSet(f, T)
  <2>1. T = {i \in DOMAIN f : ls[i].exp = d}
    BY <1>1
  <2> HIDE DEF f, T
  <2> QED BY <2>1 DEF Funds, DatedOf, f
<1>6. T \in SUBSET DOMAIN ls
  OBVIOUS
<1> HIDE DEF f, T
<1>7. SumFunctionOnSet(g, DOMAIN ls) = SumFunctionOnSet(f, T)
  BY <1>1, <1>2, <1>6, SumIndicator
<1> QED BY <1>3, <1>4, <1>5, <1>7

\* Lots put behind others bring their credits with their deadlines.
LEMMA ConcatByDate ==
  ASSUME NEW E, NEW ls \in Seq(LotWith(E)), NEW more \in Seq(LotWith(E)), NEW d \in E
  PROVE  /\ ls \o more \in Seq(LotWith(E))
         /\ Funds(ls \o more, E)[d] = Funds(ls, E)[d] + Funds(more, E)[d]
<1> DEFINE all == ls \o more
<1>1. /\ all \in Seq(LotWith(E)) /\ Len(all) = Len(ls) + Len(more)
      /\ \A i \in 1..Len(ls) : all[i] = ls[i]
      /\ \A k \in 1..Len(more) : all[Len(ls) + k] = more[k]
  BY ConcatProperties
<1> HIDE DEF all
<1>2. PICK n, m \in Nat : n = Len(ls) /\ m = Len(more)
  BY LotsFinite
<1>3. DOMAIN ls = 1..n /\ DOMAIN more = 1..m /\ DOMAIN all = 1..(n + m)
  BY <1>1, <1>2, LotsFinite
<1>4. PICK f, g, h : f = AtDate(ls, d) /\ g = AtDate(more, d) /\ h = AtDate(all, d)
  OBVIOUS
<1>5. Joined(n, m, f, g, h)
  <2>1. h \in [1..(n + m) -> Nat]
    BY <1>1, <1>3, <1>4, FundsAtDate
  <2>2. \A i \in 1..n : i \in 1..(n + m) /\ h[i] = f[i]
    BY <1>1, <1>2, <1>3, <1>4 DEF AtDate
  <2>3. \A k \in 1..m : n + k \in 1..(n + m) /\ h[n + k] = g[k]
    BY <1>1, <1>2, <1>3, <1>4 DEF AtDate
  <2> QED BY <2>1, <2>2, <2>3 DEF Joined
<1>6. SumFunctionOnSet(h, 1..(n + m)) = SumFunctionOnSet(f, 1..n) + SumFunctionOnSet(g, 1..m)
  BY <1>5, SumJoins
<1>7. /\ Funds(ls, E)[d] = SumFunctionOnSet(f, 1..n)
      /\ Funds(more, E)[d] = SumFunctionOnSet(g, 1..m)
      /\ Funds(all, E)[d] = SumFunctionOnSet(h, 1..(n + m))
  BY <1>1, <1>3, <1>4, FundsAtDate
<1> QED BY <1>1, <1>6, <1>7 DEF all

\* One lot that comes in brings its credits with its deadline.
LEMMA AppendedByDate ==
  ASSUME NEW E, NEW ls \in Seq(LotWith(E)), NEW l \in LotWith(E), NEW d \in E
  PROVE  Funds(Append(ls, l), E)[d] = Funds(ls, E)[d] + (IF l.exp = d THEN l.rem ELSE 0)
<1>1. PICK one, all : one = <<l>> /\ all = Append(ls, l)
  OBVIOUS
<1>2. all = ls \o one /\ one \in Seq(LotWith(E))
  BY <1>1
<1>3. Funds(all, E)[d] = Funds(ls, E)[d] + Funds(one, E)[d]
  BY <1>2, ConcatByDate
<1>4. one \in Seq(LotWith(E)) /\ DOMAIN one = {1} /\ one[1] = l
  BY <1>1
<1>5. Funds(one, E)[d] = SumFunctionOnSet(AtDate(one, d), {1}) /\ AtDate(one, d) \in [{1} -> Nat]
  BY <1>4, FundsAtDate
<1>6. AtDate(one, d)[1] = IF l.exp = d THEN l.rem ELSE 0
  BY <1>4 DEF AtDate
<1>7. SumFunctionOnSet(AtDate(one, d), {1}) = AtDate(one, d)[1]
  <2> DEFINE f == AtDate(one, d)
  <2>1. f \in [{1} -> Nat]
    BY <1>5
  <2> HIDE DEF f
  <2>2. f[1] \in Nat /\ {1} \ {1} = {} /\ IsFiniteSet({1}) /\ \A x \in {1} : f[x] \in Int
    <3>1. IsFiniteSet({1})
      BY FS_Singleton
    <3> QED BY <2>1, <3>1
  <2>3. SumFunctionOnSet(f, {1}) = f[1] + SumFunctionOnSet(f, {1} \ {1})
    BY <2>2, SumRemove
  <2>4. SumFunctionOnSet(f, {1} \ {1}) = 0
    BY <2>2, SumEmpty
  <2> QED BY <2>2, <2>3, <2>4 DEF f
<1> QED BY <1>1, <1>3, <1>5, <1>6, <1>7

\* What is left of a walk's takings without the empty ones.
LEMMA PositiveByDate ==
  ASSUME NEW ls, NEW take, IsFiniteSet(DOMAIN take), \A i \in DOMAIN take : take[i] \in Nat, NEW E
  PROVE  DatedOf(ls, Positive(take), E) = DatedOf(ls, take, E)
<1> DEFINE p == Positive(take)
<1>1. DOMAIN p = {i \in DOMAIN take : take[i] > 0} /\ \A i \in DOMAIN p : p[i] = take[i]
  BY DEF Positive, Restrict
<1> HIDE DEF p
<1>2. /\ DOMAIN p \subseteq DOMAIN take
      /\ \A i \in DOMAIN take \ DOMAIN p : take[i] = 0
      /\ \A i \in DOMAIN take : take[i] \in Int
  BY <1>1
<1> QED BY <1>1, <1>2, DatedSupport DEF p

\* What is handed back keeps its deadline.
LEMMA HandedBackByDate ==
  ASSUME NEW E \in SUBSET Int, NEW ls \in Seq(LotWith(E)), NEW back, Allocates(ls, back),
         NEW d \in E
  PROVE  /\ ls \o HoldReleaseLots(ls, back) \in Seq(LotWith(E))
         /\ Funds(ls \o HoldReleaseLots(ls, back), E)[d] = Funds(ls, E)[d] + DatedOf(ls, back, E)[d]
<1> DEFINE P == Positive(back)
           S == DOMAIN P
           N == Cardinality(S)
           s == InOrder(S, RefundOrder(ls))
           more == HoldReleaseLots(ls, back)
           T == {i \in S : ls[i].exp = d}
           p == [i \in S |-> IF i \in T THEN P[i] ELSE 0]
<1>1. /\ S \subseteq DOMAIN back /\ S \subseteq DOMAIN ls
      /\ \A i \in S : P[i] = back[i] /\ back[i] \in Nat
  BY DEF Positive, Restrict, Allocates
<1>2. IsFiniteSet(S) /\ N \in Nat /\ IsFiniteSet(DOMAIN back)
  BY <1>1, LotsFinite, FS_CardinalityType DEF Allocates
<1>3. StrictTotalOrder(RefundOrder(ls), S)
  BY <1>1, OrdersAreTotal, Zenon
<1>4. more = [k \in DOMAIN s |-> [rem |-> back[s[k]], exp |-> ls[s[k]].exp,
                                  grant |-> ls[s[k]].grant, expired |-> 0]]
  BY Zenon DEF HoldReleaseLots
<1>5. more \in Seq(LotWith(E))
  <2>1. DOMAIN back \subseteq DOMAIN ls /\ \A i \in DOMAIN back : back[i] \in Nat
    BY DEF Allocates
  <2> QED BY <2>1, ReleaseLots
<1>6. DatedOf(ls, P, E)[d] = SumFunctionOnSet(P, T) /\ T \in SUBSET S
  BY DEF DatedOf
<1>7. DatedOf(ls, P, E) = DatedOf(ls, back, E)
  BY <1>2, PositiveByDate DEF Allocates
<1>8. \A i \in S : p[i] = IF ls[i].exp = d THEN back[i] ELSE 0
  BY <1>1
<1> HIDE DEF P, S, more
<1>9. /\ s \in [1..N -> S]
      /\ \A i, j \in 1..N : i < j => <<s[i], s[j]>> \in RefundOrder(ls)
  BY <1>2, <1>3, InOrderExists
<1> HIDE DEF s
<1>10. \A i, j \in 1..N : i # j => s[i] # s[j]
  <2> SUFFICES ASSUME NEW i \in 1..N, NEW j \in 1..N, i # j, s[i] = s[j]
               PROVE  FALSE
    OBVIOUS
  <2>1. i < j \/ j < i
    BY <1>2
  <2>2. <<s[i], s[i]>> \in RefundOrder(ls)
    BY <1>9, <2>1
  <2> QED BY <1>3, <1>9, <2>2 DEF StrictTotalOrder
<1>11. DOMAIN more = 1..N
  BY <1>4, <1>9
<1>12. \A k \in 1..N : AtDate(more, d)[k] = p[s[k]]
  <2> SUFFICES ASSUME NEW k \in 1..N PROVE AtDate(more, d)[k] = p[s[k]]
    OBVIOUS
  <2>1. more[k].rem = back[s[k]] /\ more[k].exp = ls[s[k]].exp
    BY <1>4, <1>9, Zenon
  <2>2. s[k] \in S
    BY <1>9
  <2>3. AtDate(more, d)[k] = IF more[k].exp = d THEN more[k].rem ELSE 0
    BY <1>11 DEF AtDate
  <2> HIDE DEF p
  <2> QED BY <1>8, <2>1, <2>2, <2>3
<1>13. SumFunctionOnSet(p, S) = SumFunctionOnSet(P, T)
  <2>1. \A i \in S : P[i] \in Int
    BY <1>1
  <2> HIDE DEF T
  <2> QED BY <1>2, <1>6, <2>1, SumIndicator DEF p
<1>14. SumFunctionOnSet(AtDate(more, d), 1..N) = SumFunctionOnSet(p, S)
  <2>1. \A i \in S : p[i] \in Int
    BY <1>1, <1>8
  <2> HIDE DEF p, N
  <2> QED BY <1>2, <1>9, <1>10, <1>12, <2>1, SumInOrder DEF N
<1>15. Funds(more, E)[d] = SumFunctionOnSet(AtDate(more, d), 1..N)
  BY <1>5, <1>11, FundsAtDate
<1>16. Funds(ls \o more, E)[d] = Funds(ls, E)[d] + Funds(more, E)[d] /\ ls \o more \in Seq(LotWith(E))
  BY <1>5, ConcatByDate
<1> QED BY <1>6, <1>7, <1>13, <1>14, <1>15, <1>16 DEF more

\* Lots with one deadline are told by their sum: it is what that deadline
\* holds, and the others hold nothing.
LEMMA OneDate ==
  ASSUME NEW ls, NEW f, NEW E, NEW d \in E
  PROVE  /\ (\A i \in DOMAIN f : ls[i].exp = d) => DatedOf(ls, f, E)[d] = SumFunction(f)
         /\ (\A i \in DOMAIN f : ls[i].exp # d) => DatedOf(ls, f, E)[d] = 0
<1>1. ASSUME \A i \in DOMAIN f : ls[i].exp = d
      PROVE  DatedOf(ls, f, E)[d] = SumFunction(f)
  <2>1. {i \in DOMAIN f : ls[i].exp = d} = DOMAIN f
    BY <1>1
  <2> QED BY <2>1, SumOfFunction DEF DatedOf
<1>2. ASSUME \A i \in DOMAIN f : ls[i].exp # d
      PROVE  DatedOf(ls, f, E)[d] = 0
  <2>1. {i \in DOMAIN f : ls[i].exp = d} = {}
    BY <1>2
  <2> QED BY <2>1, SumEmpty DEF DatedOf
<1> QED BY <1>1, <1>2

-------------------------------------------------------------------------------
\* What is owed on the debts ds.
Owing(ds) == SumFunction([d \in DOMAIN ds |-> ds[d].out])

\* What is owed is a whole number.
LEMMA OwingNat ==
  ASSUME NEW ds \in Seq(DebtRecords)
  PROVE  /\ Owing(ds) \in Nat
         /\ Owing(ds) = SumFunctionOnSet([d \in DOMAIN ds |-> ds[d].out], DOMAIN ds)
<1> DEFINE f == [d \in DOMAIN ds |-> ds[d].out]
<1>1. IsFiniteSet(DOMAIN ds) /\ DOMAIN f = DOMAIN ds /\ \A d \in DOMAIN ds : f[d] \in Nat
  BY LotsFinite, DebtFields
<1> HIDE DEF f
<1>2. SumFunction(f) = SumFunctionOnSet(f, DOMAIN ds) /\ SumFunctionOnSet(f, DOMAIN ds) \in Nat
  BY <1>1, SumOfFunction, SumNat
<1> QED BY <1>2 DEF Owing, f

\* Debts that go down, each by less[d], go down by the sum together.
LEMMA OwingLowers ==
  ASSUME NEW ds \in Seq(DebtRecords), NEW new \in Seq(DebtRecords), DOMAIN new = DOMAIN ds,
         NEW less \in [DOMAIN ds -> Nat],
         \A d \in DOMAIN ds : new[d].out = ds[d].out - less[d]
  PROVE  /\ Owing(new) = Owing(ds) - SumFunctionOnSet(less, DOMAIN ds)
         /\ SumFunctionOnSet(less, DOMAIN ds) \in Nat
<1> DEFINE D == DOMAIN ds  f == [d \in D |-> ds[d].out]  g == [d \in DOMAIN new |-> new[d].out]
<1>1. /\ IsFiniteSet(D)
      /\ \A d \in D : f[d] \in Int /\ less[d] \in Int /\ g[d] = f[d] - less[d]
  BY LotsFinite, DebtFields
<1>2. /\ Owing(ds) = SumFunctionOnSet(f, D) /\ Owing(new) = SumFunctionOnSet(g, D)
      /\ SumFunctionOnSet(less, D) \in Nat
  <2>1. Owing(ds) = SumFunctionOnSet(f, D)
    BY OwingNat
  <2>2. Owing(new) = SumFunctionOnSet(g, DOMAIN new)
    BY OwingNat
  <2> QED BY <1>1, <2>1, <2>2, SumNat
<1> HIDE DEF f, g, D
<1>3. SumFunctionOnSet(g, D) = SumFunctionOnSet(f, D) - SumFunctionOnSet(less, D)
  BY <1>1, SumMinus
<1> QED BY <1>2, <1>3 DEF D

\* One more debt is owed with the others.
LEMMA OwingRises ==
  ASSUME NEW ds \in Seq(DebtRecords), NEW d \in DebtRecords
  PROVE  /\ Append(ds, d) \in Seq(DebtRecords)
         /\ Owing(Append(ds, d)) = Owing(ds) + d.out
<1> DEFINE new == Append(ds, d)  n == Len(ds)  N == 1..n
           f == [i \in DOMAIN ds |-> ds[i].out]  g == [i \in DOMAIN new |-> new[i].out]
<1>1. /\ new \in Seq(DebtRecords) /\ n \in Nat /\ DOMAIN ds = N
      /\ DOMAIN new = N \cup {n + 1} /\ n + 1 \notin N
      /\ new[n + 1] = d /\ \A i \in N : new[i] = ds[i]
  <2>1. new \in Seq(DebtRecords) /\ Len(new) = n + 1 /\ new[n + 1] = d /\ \A i \in 1..n : new[i] = ds[i]
    BY AppendProperties
  <2>2. n \in Nat /\ DOMAIN ds = 1..n /\ DOMAIN new = 1..(n + 1)
    BY <2>1, LotsFinite
  <2> HIDE DEF new, n
  <2> QED BY <2>1, <2>2
<1>2. Owing(ds) = SumFunctionOnSet(f, DOMAIN ds) /\ Owing(new) = SumFunctionOnSet(g, DOMAIN new)
  BY <1>1, OwingNat
<1>3. \A i \in N : g[i] = f[i]
  BY <1>1
<1>4. g[n + 1] = d.out
  BY <1>1
<1>5. \A i \in DOMAIN new : g[i] \in Int
  <2>1. \A i \in DOMAIN new : new[i].out \in Nat
    <3> HIDE DEF new
    <3> QED BY <1>1, DebtFields, Zenon
  <2> HIDE DEF new
  <2> QED BY <2>1
<1>6. IsFiniteSet(N)
  BY <1>1, LotsFinite
<1> HIDE DEF new, n, f, g, N
<1>7. SumFunctionOnSet(g, N \cup {n + 1}) = SumFunctionOnSet(g, N) + g[n + 1]
  BY <1>1, <1>5, <1>6, SumAdd
<1>8. SumFunctionOnSet(g, N) = SumFunctionOnSet(f, N)
  BY <1>3, <1>6, SumEqual
<1> QED BY <1>1, <1>2, <1>4, <1>7, <1>8 DEF new

\* Debts collect what there is, or all they are owed; the lots pay it.
LEMMA SettledTogether ==
  ASSUME NEW E \in SUBSET Int, IsFiniteSet(E), NEW ls \in Seq(LotWith(E)),
         NEW ds \in Seq(DebtRecords), NEW now, Alive(ls, now)
  PROVE  LET paid == Clip(Owing(ds), SumFunction(Funds(ls, E)))
         IN  /\ paid \in Nat
             /\ Owing(SettleDebts(ls, ds, now)) = Owing(ds) - paid
             /\ LotsAfterSettling(ls, ds, now) = ConsumeLots(ls, paid, now)
<1> DEFINE D == OpenDebts(ds)
           there == LiveBalance(ls, now)
           f == Outstanding(ds)
           h == [d \in DOMAIN ds |-> ds[d].out]
           pay == Collection(ls, ds, now)
           new == SettleDebts(ls, ds, now)
           all == [d \in DOMAIN ds |-> IF d \in D THEN pay[d] ELSE 0]
<1>1. /\ D \in SUBSET DOMAIN ds /\ IsFiniteSet(D) /\ IsFiniteSet(DOMAIN ds)
      /\ DOMAIN ds \subseteq Int
  BY LotsFinite DEF OpenDebts
<1>2. f \in [D -> Nat] /\ \A d \in D : h[d] = f[d]
  <2>1. \A d \in DOMAIN ds : ds[d].out \in Nat
    BY DebtFields, Zenon
  <2> QED BY <1>1, <2>1 DEF Outstanding
<1>3. pay \in [D -> Nat] /\ \A d \in D : pay[d] <= ds[d].out
  BY CollectionBounds, Zenon
<1>4. pay = Walk(there, f, CreationOrder(DOMAIN ds)) /\ there \in Nat
  BY LiveBalanceNat, Zenon DEF Collection
<1>5. StrictTotalOrder(CreationOrder(DOMAIN ds), D)
  <2>1. StrictTotalOrder(CreationOrder(DOMAIN ds), DOMAIN ds)
    BY <1>1, OrdersAreTotal, Zenon
  <2> QED BY <1>1, <2>1 DEF StrictTotalOrder
<1>6. LotsAfterSettling(ls, ds, now) = ConsumeLots(ls, SumFunction(pay), now)
  BY Zenon DEF LotsAfterSettling
<1>7. \A d \in DOMAIN ds :
        \/ d \notin D /\ new[d] = ds[d]
        \/ d \in D /\ new[d] = [ds[d] EXCEPT !.out = @ - pay[d], !.billed = @ + pay[d]]
  <2>1. DOMAIN pay = D
    BY <1>3
  <2> QED BY <2>1, Zenon DEF SettleDebts
<1>8. DOMAIN new = DOMAIN ds /\ new \in Seq(DebtRecords)
  <2>1. DOMAIN new = DOMAIN ds
    BY DEF SettleDebts
  <2> QED BY <2>1, SettlingDebts
<1>9. /\ \A d \in DOMAIN ds \ D : h[d] = 0
      /\ \A d \in DOMAIN ds : h[d] \in Int
      /\ \A d \in DOMAIN ds : d \notin D => all[d] = 0
  <2>1. \A d \in DOMAIN ds : ds[d].out \in Nat
    BY DebtFields, Zenon
  <2> QED BY <2>1 DEF OpenDebts
<1>10. \A d \in D : all[d] = pay[d]
  BY <1>1
<1>11. Owing(ds) = SumFunctionOnSet(h, DOMAIN ds) /\ Owing(ds) \in Nat
  BY OwingNat
<1>12. there = SumFunction(Funds(ls, E))
  BY AliveBalance
<1>13. all \in [DOMAIN ds -> Nat]
  <2> HIDE DEF D, pay
  <2> QED BY <1>3
<1> HIDE DEF D, there, f, pay, new, all, h
<1>14. SumFunctionOnSet(f, D) = Owing(ds)
  <2>1. SumFunctionOnSet(h, DOMAIN ds) = SumFunctionOnSet(h, D)
    BY <1>1, <1>9, SumSupport
  <2>2. SumFunctionOnSet(h, D) = SumFunctionOnSet(f, D)
    BY <1>1, <1>2, SumEqual
  <2> QED BY <1>11, <2>1, <2>2
<1>15. SumFunctionOnSet(pay, D) = Clip(there, Owing(ds))
  <2>1. SumFunctionOnSet(Walk(there, f, CreationOrder(DOMAIN ds)), D)
          = Clip(there, SumFunctionOnSet(f, D))
    BY <1>1, <1>2, <1>4, <1>5, WalkTotal
  <2> QED BY <1>4, <1>14, <2>1
<1>16. Clip(there, Owing(ds)) = Clip(Owing(ds), there) /\ Clip(there, Owing(ds)) \in Nat
  BY <1>4, <1>11 DEF Clip
<1>17. SumFunction(pay) = SumFunctionOnSet(pay, D)
  BY <1>3, SumOfFunction
<1>18. SumFunctionOnSet(all, DOMAIN ds) = SumFunctionOnSet(pay, D)
  <2>1. \A d \in DOMAIN ds : all[d] \in Int
    BY <1>13
  <2>2. \A d \in DOMAIN ds \ D : all[d] = 0
    BY <1>9
  <2>3. SumFunctionOnSet(all, DOMAIN ds) = SumFunctionOnSet(all, D)
    BY <1>1, <2>1, <2>2, SumSupport
  <2>4. SumFunctionOnSet(all, D) = SumFunctionOnSet(pay, D)
    BY <1>1, <1>10, SumEqual
  <2> QED BY <2>3, <2>4
<1>19. \A d \in DOMAIN ds : new[d].out = ds[d].out - all[d]
  <2> SUFFICES ASSUME NEW d \in DOMAIN ds PROVE new[d].out = ds[d].out - all[d]
    OBVIOUS
  <2>1. ds[d] \in DebtRecords /\ ds[d].out \in Nat
    BY DebtFields, Zenon
  <2>2. CASE d \in D /\ new[d] = [ds[d] EXCEPT !.out = @ - pay[d], !.billed = @ + pay[d]]
    <3>1. new[d].out = ds[d].out - pay[d]
      BY <2>1, <2>2, Zenon DEF DebtRecords
    <3>2. all[d] = pay[d]
      BY <1>10, <2>2
    <3> HIDE <2>2
    <3> QED BY <3>1, <3>2
  <2>3. CASE d \notin D /\ new[d] = ds[d]
    <3>1. all[d] = 0
      BY <1>9, <2>3
    <3> QED BY <2>1, <2>3, <3>1
  <2> QED BY <1>7, <2>2, <2>3, Zenon
<1>20. Owing(new) = Owing(ds) - SumFunctionOnSet(all, DOMAIN ds)
  BY <1>8, <1>13, <1>19, OwingLowers
<1> QED BY <1>6, <1>12, <1>15, <1>16, <1>17, <1>18, <1>20 DEF new

=============================================================================
