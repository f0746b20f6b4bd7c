-------------------------------- MODULE Sums --------------------------------
(***************************************************************************)
(* Sums over finite sets: what SumFunctionOnSet of the community modules    *)
(* returns, for every function and every finite set.  It is defined by      *)
(* recursion over the subsets; that such a function exists, and that the    *)
(* order in which it takes the elements does not matter, are proved here.   *)
(***************************************************************************)
EXTENDS Functions, Integers, FiniteSets, FiniteSetTheorems, WellFoundedInduction, TLAPS

Pick(s) == CHOOSE x \in s : TRUE

\* A step of the sum, over g for the rest; g adds f up over the sets in D.
Body(g, f, s)  == IF s = {} THEN 0 ELSE f[Pick(s)] + g[s \ {Pick(s)}]
Adds(g, f, D)  == g = [s \in D |-> Body(g, f, s)]
Level(S, n)    == {s \in SUBSET S : Cardinality(s) <= n}

\* SumFunctionOnSet is a function that is chosen among those that add up.
LEMMA SumIsChosen ==
  ASSUME NEW f, NEW S
  PROVE  SumFunctionOnSet(f, S) = (CHOOSE g : Adds(g, f, SUBSET S))[S]
BY DEF SumFunctionOnSet, FoldFunctionOnSet, MapThenFoldSet, Adds, Body, Pick

\* Induction over the naturals, for a set.
LEMMA NatSetInduction ==
  ASSUME NEW P, 0 \in P, \A n \in Nat : n \in P => n + 1 \in P
  PROVE  Nat \subseteq P
<1> SUFFICES ASSUME Nat \ P # {} PROVE FALSE
  OBVIOUS
<1> DEFINE R == {ss \in Nat \X Nat : ss[1] < ss[2]}
           T == Nat \ P
<1>1. IsWellFoundedOn(R, Nat)
  BY NatLessThanWellFounded DEF OpToRel
<1>2. \A x, y \in Nat : y < x => <<y, x>> \in R
  OBVIOUS
<1>3. T \subseteq Nat /\ T # {}
  OBVIOUS
<1> HIDE DEF R
<1>4. PICK x \in T : \A y \in T : ~(<<y, x>> \in R)
  <2> HIDE DEF T
  <2> QED BY <1>1, <1>3, WFMin, Zenon
<1>5. x \in Nat /\ x # 0
  BY <1>4
<1>6. x - 1 \in Nat /\ x - 1 < x /\ (x - 1) + 1 = x
  BY <1>5
<1>7. <<x - 1, x>> \in R
  BY <1>2, <1>5, <1>6
<1>8. x - 1 \in P
  BY <1>4, <1>6, <1>7
<1>9. x \in P
  BY <1>6, <1>8
<1> QED BY <1>4, <1>9

\* What a nonempty set is without the element that is picked.
LEMMA Rest ==
  ASSUME NEW S, IsFiniteSet(S), NEW s \in SUBSET S, s # {}
  PROVE  /\ Pick(s) \in s /\ s \ {Pick(s)} \in SUBSET S
         /\ \A x \in s : Cardinality(s \ {x}) = Cardinality(s) - 1 /\ Cardinality(s \ {x}) \in Nat
         /\ Cardinality(s) \in Nat \ {0}
<1>1. Pick(s) \in s
  BY Zenon DEF Pick
<1>2. IsFiniteSet(s)
  BY FS_Subset
<1>3. Cardinality(s) \in Nat /\ Cardinality(s) # 0
  BY <1>2, FS_CardinalityType, FS_EmptySet
<1>4. ASSUME NEW x \in s
      PROVE  Cardinality(s \ {x}) = Cardinality(s) - 1 /\ Cardinality(s \ {x}) \in Nat
  <2>1. Cardinality(s \ {x}) = Cardinality(s) - 1
    BY <1>2, FS_RemoveElement
  <2> QED BY <1>3, <2>1
<1> QED BY <1>1, <1>3, <1>4

\* There is a function that adds up over the sets of at most n elements, for every n.
LEMMA LevelsAdd ==
  ASSUME NEW f, NEW S, IsFiniteSet(S), NEW n \in Nat
  PROVE  \E g : Adds(g, f, Level(S, n))
<1> DEFINE P == {k \in Nat : \E g : Adds(g, f, Level(S, k))}
<1>1. 0 \in P
  <2> DEFINE g0 == [s \in Level(S, 0) |-> 0]
  <2>1. \A s \in Level(S, 0) : s = {}
    <3> TAKE s \in Level(S, 0)
    <3>1. s \in SUBSET S /\ Cardinality(s) <= 0
      BY DEF Level
    <3> QED BY <3>1, Rest
  <2>2. g0 = [s \in Level(S, 0) |-> Body(g0, f, s)]
    BY <2>1 DEF Body
  <2>3. Adds(g0, f, Level(S, 0))
    BY <2>2, Zenon DEF Adds
  <2> QED BY <2>3
<1>2. ASSUME NEW k \in Nat, k \in P PROVE k + 1 \in P
  <2>1. PICK g : Adds(g, f, Level(S, k))
    BY <1>2
  <2> DEFINE D  == Level(S, k + 1)
             g1 == [s \in D |-> Body(g, f, s)]
  <2>2. ASSUME NEW s \in D PROVE Body(g1, f, s) = Body(g, f, s)
    <3>1. CASE s = {}
      BY <3>1 DEF Body
    <3>2. CASE s # {}
      <4> DEFINE t == s \ {Pick(s)}
      <4>1. s \in SUBSET S /\ Cardinality(s) <= k + 1
        BY DEF Level
      <4>2. t \in SUBSET S /\ Cardinality(t) <= k
        BY <3>2, <4>1, Rest
      <4>3. t \in Level(S, k) /\ t \in D
        <5>1. Cardinality(t) \in Nat
          BY <3>2, <4>1, Rest
        <5> HIDE DEF t
        <5> QED BY <4>2, <5>1 DEF Level
      <4> HIDE DEF t
      <4>4. g[t] = Body(g, f, t)
        <5>1. g = [u \in Level(S, k) |-> Body(g, f, u)]
          BY <2>1, Zenon DEF Adds
        <5> DEFINE h == [u \in Level(S, k) |-> Body(g, f, u)]
        <5>2. h[t] = Body(g, f, t)
          BY <4>3
        <5> HIDE DEF h
        <5>3. g = h
          BY <5>1 DEF h
        <5> QED BY <5>2, <5>3
      <4>5. g1[t] = Body(g, f, t)
        BY <4>3
      <4>6. Body(g1, f, s) = f[Pick(s)] + g1[t] /\ Body(g, f, s) = f[Pick(s)] + g[t]
        <5> HIDE DEF g1
        <5> QED BY <3>2, Zenon DEF Body, t
      <4> QED BY <4>4, <4>5, <4>6
    <3> QED BY <3>1, <3>2
  <2>3. g1 = [s \in D |-> Body(g1, f, s)]
    <3> HIDE DEF D
    <3> QED BY <2>2
  <2>4. Adds(g1, f, D)
    BY <2>3, Zenon DEF Adds
  <2> QED BY <2>4
<1> HIDE DEF P
<1>3. n \in P
  BY <1>1, <1>2, NatSetInduction
<1> QED BY <1>3 DEF P

\* There is a function that adds up over all the subsets of a finite set.
LEMMA SumExists ==
  ASSUME NEW f, NEW S, IsFiniteSet(S)
  PROVE  \E g : Adds(g, f, SUBSET S)
<1>1. Cardinality(S) \in Nat
  BY FS_CardinalityType
<1>2. Level(S, Cardinality(S)) = SUBSET S
  <2>1. \A s \in SUBSET S : Cardinality(s) <= Cardinality(S)
    BY FS_Subset
  <2> QED BY <2>1 DEF Level
<1>3. \E g : Adds(g, f, Level(S, Cardinality(S)))
  BY <1>1, LevelsAdd
<1> QED BY <1>2, <1>3

\* The sum over a subset does not depend on the set it is a subset of.
LEMMA SumIsOne ==
  \A f, S, T, g, h : /\ IsFiniteSet(S) /\ T \in SUBSET S
                     /\ Adds(g, f, SUBSET S) /\ Adds(h, f, SUBSET T)
                     => g[T] = h[T]
<1> TAKE f, S, T, g, h
<1> HAVE /\ IsFiniteSet(S) /\ T \in SUBSET S
         /\ Adds(g, f, SUBSET S) /\ Adds(h, f, SUBSET T)
<1>0. IsFiniteSet(T) /\ T \in SUBSET T /\ Cardinality(T) \in Nat
  BY FS_Subset, FS_CardinalityType
<1>1. /\ \A s \in SUBSET S : g[s] = Body(g, f, s)
      /\ \A s \in SUBSET T : h[s] = Body(h, f, s)
  <2> DEFINE g1 == [s \in SUBSET S |-> Body(g, f, s)]
             h1 == [s \in SUBSET T |-> Body(h, f, s)]
  <2>1. (\A s \in SUBSET S : g1[s] = Body(g, f, s)) /\ (\A s \in SUBSET T : h1[s] = Body(h, f, s))
    OBVIOUS
  <2>2. g = g1 /\ h = h1
    BY Zenon DEF Adds
  <2> HIDE DEF g1, h1
  <2> QED BY <2>1, <2>2
<1> DEFINE P == {k \in Nat : \A s \in Level(T, k) : g[s] = h[s]}
<1>2. 0 \in P
  <2>1. ASSUME NEW s \in Level(T, 0) PROVE g[s] = h[s]
    <3>1. s \in SUBSET T /\ s \in SUBSET S /\ Cardinality(s) <= 0
      BY DEF Level
    <3>2. s = {}
      BY <1>0, <3>1, Rest
    <3>3. Body(g, f, s) = 0 /\ Body(h, f, s) = 0
      BY <3>2, Zenon DEF Body
    <3> QED BY <1>1, <3>1, <3>3
  <2> QED BY <2>1
<1>3. ASSUME NEW k \in Nat, k \in P PROVE k + 1 \in P
  <2>1. ASSUME NEW s \in Level(T, k + 1) PROVE g[s] = h[s]
    <3>1. s \in SUBSET T /\ s \in SUBSET S /\ Cardinality(s) <= k + 1
      BY DEF Level
    <3>2. CASE s = {}
      <4>1. Body(g, f, s) = 0 /\ Body(h, f, s) = 0
        BY <3>2, Zenon DEF Body
      <4> QED BY <1>1, <3>1, <4>1
    <3>3. CASE s # {}
      <4> DEFINE t == s \ {Pick(s)}
      <4>1. t \in SUBSET T /\ Cardinality(t) <= k
        <5>1. t \in SUBSET T /\ Cardinality(t) = Cardinality(s) - 1 /\ Cardinality(s) \in Nat \ {0}
          BY <1>0, <3>1, <3>3, Rest
        <5> HIDE DEF t
        <5> QED BY <3>1, <5>1
      <4>2. Body(g, f, s) = f[Pick(s)] + g[t] /\ Body(h, f, s) = f[Pick(s)] + h[t]
        BY <3>3, Zenon DEF Body
      <4> HIDE DEF t
      <4>3. t \in Level(T, k)
        BY <4>1 DEF Level
      <4>4. g[t] = h[t]
        BY <1>3, <4>3
      <4> QED BY <1>1, <3>1, <4>2, <4>4
    <3> QED BY <3>2, <3>3
  <2> QED BY <2>1
<1>4. Cardinality(T) \in P
  <2> HIDE DEF P
  <2> QED BY <1>0, <1>2, <1>3, NatSetInduction
<1>5. T \in Level(T, Cardinality(T))
  BY <1>0 DEF Level
<1>6. \A s \in Level(T, Cardinality(T)) : g[s] = h[s]
  BY <1>4
<1> HIDE DEF P
<1> QED BY <1>5, <1>6, Zenon

\* The sum itself adds up: it is the value of such a function.
LEMMA SumIsValue ==
  ASSUME NEW f, NEW S, IsFiniteSet(S)
  PROVE  \E g : Adds(g, f, SUBSET S) /\ \A T \in SUBSET S : SumFunctionOnSet(f, T) = g[T]
<1>1. PICK g : Adds(g, f, SUBSET S)
  BY SumExists
<1>2. ASSUME NEW T \in SUBSET S PROVE SumFunctionOnSet(f, T) = g[T]
  <2> DEFINE h == CHOOSE x : Adds(x, f, SUBSET T)
  <2>1. IsFiniteSet(T)
    BY FS_Subset
  <2>2. \E x : Adds(x, f, SUBSET T)
    BY <2>1, SumExists
  <2>3. Adds(h, f, SUBSET T)
    BY <2>2, Zenon
  <2>4. SumFunctionOnSet(f, T) = h[T]
    BY SumIsChosen
  <2> HIDE DEF h
  <2>5. g[T] = h[T]
    <3>1. Adds(g, f, SUBSET S)
      BY <1>1
    <3>2. IsFiniteSet(S) /\ T \in SUBSET S
      OBVIOUS
    <3> QED BY <2>3, <3>1, <3>2, SumIsOne, ZenonT(120)
  <2> QED BY <2>4, <2>5
<1> QED BY <1>1, <1>2

-----------------------------------------------------------------------------
(* What a sum is.                                                           *)

\* A sum is the picked element's value and the sum of the rest.
LEMMA SumByPick ==
  ASSUME NEW f, NEW S, IsFiniteSet(S)
  PROVE  /\ S = {} => SumFunctionOnSet(f, S) = 0
         /\ S # {} => SumFunctionOnSet(f, S) = f[Pick(S)] + SumFunctionOnSet(f, S \ {Pick(S)})
<1>1. PICK g : Adds(g, f, SUBSET S) /\ \A T \in SUBSET S : SumFunctionOnSet(f, T) = g[T]
  BY SumIsValue
<1>2. g[S] = Body(g, f, S)
  <2> DEFINE g1 == [s \in SUBSET S |-> Body(g, f, s)]
  <2>1. g1[S] = Body(g, f, S)
    OBVIOUS
  <2>2. g = g1
    BY <1>1, Zenon DEF Adds
  <2> HIDE DEF g1
  <2> QED BY <2>1, <2>2
<1>3. SumFunctionOnSet(f, S) = Body(g, f, S)
  BY <1>1, <1>2
<1>4. SumFunctionOnSet(f, S \ {Pick(S)}) = g[S \ {Pick(S)}]
  BY <1>1
<1>5. CASE S = {}
  BY <1>3, <1>5, Zenon DEF Body
<1>6. CASE S # {}
  <2>1. Body(g, f, S) = f[Pick(S)] + g[S \ {Pick(S)}]
    BY <1>6, Zenon DEF Body
  <2> QED BY <1>3, <1>4, <1>6, <2>1
<1> QED BY <1>5, <1>6

\* Induction over the subsets of a finite set, for a set of them.
LEMMA SubsetInduction ==
  ASSUME NEW S, IsFiniteSet(S), NEW P,
         \A s \in SUBSET S : (\A x \in s : s \ {x} \in P) => s \in P
  PROVE  S \in P
<1> DEFINE Q == {k \in Nat : Level(S, k) \subseteq P}
<1>1. 0 \in Q
  <2>1. ASSUME NEW s \in Level(S, 0) PROVE s \in P
    <3>1. s \in SUBSET S /\ Cardinality(s) <= 0
      BY DEF Level
    <3>2. s = {}
      BY <3>1, Rest
    <3> QED BY <3>1, <3>2
  <2> QED BY <2>1
<1>2. ASSUME NEW k \in Nat, k \in Q PROVE k + 1 \in Q
  <2>1. ASSUME NEW s \in Level(S, k + 1) PROVE s \in P
    <3>1. s \in SUBSET S /\ Cardinality(s) <= k + 1
      BY DEF Level
    <3>2. ASSUME NEW x \in s PROVE s \ {x} \in P
      <4>1. Cardinality(s \ {x}) = Cardinality(s) - 1 /\ Cardinality(s) \in Nat \ {0}
        BY <3>1, Rest
      <4>2. Cardinality(s \ {x}) <= k
        BY <3>1, <4>1
      <4>3. s \ {x} \in Level(S, k)
        BY <3>1, <4>2 DEF Level
      <4> QED BY <1>2, <4>3
    <3> QED BY <3>1, <3>2
  <2> QED BY <2>1
<1>3. Cardinality(S) \in Nat
  BY FS_CardinalityType
<1>4. Cardinality(S) \in Q
  <2> HIDE DEF Q
  <2> QED BY <1>1, <1>2, <1>3, NatSetInduction
<1>5. S \in Level(S, Cardinality(S))
  BY <1>3 DEF Level
<1>6. Level(S, Cardinality(S)) \subseteq P
  BY <1>4
<1> HIDE DEF Q
<1> QED BY <1>5, <1>6

\* A sum is in every set that is closed under addition and has its terms.
LEMMA SumIn ==
  ASSUME NEW f, NEW S, IsFiniteSet(S), NEW V, 0 \in V, \A a, b \in V : a + b \in V,
         \A x \in S : f[x] \in V
  PROVE  SumFunctionOnSet(f, S) \in V
<1> DEFINE P == {s \in SUBSET S : SumFunctionOnSet(f, s) \in V}
<1>1. ASSUME NEW s \in SUBSET S, \A x \in s : s \ {x} \in P PROVE s \in P
  <2>1. IsFiniteSet(s)
    BY FS_Subset
  <2>2. CASE s = {}
    BY <2>1, <2>2, SumByPick
  <2>3. CASE s # {}
    <3>1. Pick(s) \in s
      BY <2>3, Rest
    <3>2. SumFunctionOnSet(f, s \ {Pick(s)}) \in V /\ f[Pick(s)] \in V
      BY <1>1, <3>1
    <3>3. SumFunctionOnSet(f, s) = f[Pick(s)] + SumFunctionOnSet(f, s \ {Pick(s)})
      BY <2>1, <2>3, SumByPick
    <3> QED BY <3>2, <3>3
  <2> QED BY <2>2, <2>3
<1>2. S \in P
  <2> HIDE DEF P
  <2> QED BY <1>1, SubsetInduction
<1> QED BY <1>2

\* A sum of integers is an integer.
LEMMA SumIsInt ==
  ASSUME NEW f, NEW S, IsFiniteSet(S), \A x \in S : f[x] \in Int
  PROVE  SumFunctionOnSet(f, S) \in Int
<1>1. 0 \in Int /\ \A a, b \in Int : a + b \in Int
  OBVIOUS
<1> QED BY <1>1, SumIn

\* A sum of naturals is a natural.
LEMMA SumIsNat ==
  ASSUME NEW f, NEW S, IsFiniteSet(S), \A x \in S : f[x] \in Nat
  PROVE  SumFunctionOnSet(f, S) \in Nat
<1>1. 0 \in Nat /\ \A a, b \in Nat : a + b \in Nat
  OBVIOUS
<1> QED BY <1>1, SumIn

\* Any element can be taken first.
LEMMA SumRemove ==
  ASSUME NEW f, NEW S, IsFiniteSet(S), \A x \in S : f[x] \in Int, NEW e \in S
  PROVE  SumFunctionOnSet(f, S) = f[e] + SumFunctionOnSet(f, S \ {e})
<1> DEFINE P == {s \in SUBSET S : \A x \in s : SumFunctionOnSet(f, s) = f[x] + SumFunctionOnSet(f, s \ {x})}
<1>1. ASSUME NEW s \in SUBSET S, \A x \in s : s \ {x} \in P PROVE s \in P
  <2>1. \A t \in SUBSET s : SumFunctionOnSet(f, t) \in Int /\ IsFiniteSet(t)
    <3> TAKE t \in SUBSET s
    <3>1. IsFiniteSet(t) /\ \A x \in t : f[x] \in Int
      BY FS_Subset
    <3> QED BY <3>1, SumIsInt
  <2>2. ASSUME NEW x \in s PROVE SumFunctionOnSet(f, s) = f[x] + SumFunctionOnSet(f, s \ {x})
    <3> DEFINE c == Pick(s)
    <3>1. c \in s
      BY Rest
    <3>2. SumFunctionOnSet(f, s) = f[c] + SumFunctionOnSet(f, s \ {c})
      BY <2>1, SumByPick
    <3> HIDE DEF c
    <3>3. CASE x = c
      BY <3>2, <3>3
    <3>4. CASE x # c
      <4>1. SumFunctionOnSet(f, s \ {c}) = f[x] + SumFunctionOnSet(f, (s \ {c}) \ {x})
        <5>1. s \ {c} \in P /\ x \in s \ {c}
          BY <1>1, <3>1, <3>4
        <5> QED BY <5>1
      <4>2. SumFunctionOnSet(f, s \ {x}) = f[c] + SumFunctionOnSet(f, (s \ {x}) \ {c})
        <5>1. s \ {x} \in P /\ c \in s \ {x}
          BY <1>1, <3>1, <3>4
        <5> QED BY <5>1
      <4>3. (s \ {c}) \ {x} = (s \ {x}) \ {c}
        OBVIOUS
      <4>4. f[x] \in Int /\ f[c] \in Int /\ SumFunctionOnSet(f, (s \ {x}) \ {c}) \in Int
        BY <2>1, <3>1
      <4> DEFINE r == SumFunctionOnSet(f, (s \ {x}) \ {c})
      <4>5. /\ SumFunctionOnSet(f, s \ {c}) = f[x] + r
            /\ SumFunctionOnSet(f, s \ {x}) = f[c] + r
        BY <4>1, <4>2, <4>3
      <4>6. r \in Int
        BY <4>4
      <4> HIDE DEF r
      <4>7. SumFunctionOnSet(f, s) = f[c] + (f[x] + r)
        BY <3>2, <4>5
      <4>8. f[x] + SumFunctionOnSet(f, s \ {x}) = f[x] + (f[c] + r)
        BY <4>5
      <4>9. f[c] + (f[x] + r) = f[x] + (f[c] + r)
        BY <4>4, <4>6
      <4> QED BY <4>7, <4>8, <4>9
    <3> QED BY <3>3, <3>4
  <2> QED BY <2>2
<1>2. S \in P
  <2> HIDE DEF P
  <2> QED BY <1>1, SubsetInduction
<1> QED BY <1>2

\* An element more adds its value.
LEMMA SumAdd ==
  ASSUME NEW f, NEW S, IsFiniteSet(S), NEW e, e \notin S, \A x \in S \cup {e} : f[x] \in Int
  PROVE  SumFunctionOnSet(f, S \cup {e}) = f[e] + SumFunctionOnSet(f, S)
<1>1. IsFiniteSet(S \cup {e}) /\ (S \cup {e}) \ {e} = S
  BY FS_AddElement
<1> QED BY <1>1, SumRemove

\* The sum is of the values only.
LEMMA SumSame ==
  ASSUME NEW f, NEW g, NEW S, IsFiniteSet(S), \A x \in S : f[x] = g[x]
  PROVE  SumFunctionOnSet(f, S) = SumFunctionOnSet(g, S)
<1> DEFINE P == {s \in SUBSET S : SumFunctionOnSet(f, s) = SumFunctionOnSet(g, s)}
<1>1. ASSUME NEW s \in SUBSET S, \A x \in s : s \ {x} \in P PROVE s \in P
  <2>1. IsFiniteSet(s)
    BY FS_Subset
  <2>2. CASE s = {}
    BY <2>1, <2>2, SumByPick
  <2>3. CASE s # {}
    <3>1. Pick(s) \in s
      BY <2>3, Rest
    <3>2. SumFunctionOnSet(f, s \ {Pick(s)}) = SumFunctionOnSet(g, s \ {Pick(s)}) /\ f[Pick(s)] = g[Pick(s)]
      BY <1>1, <3>1
    <3>3. /\ SumFunctionOnSet(f, s) = f[Pick(s)] + SumFunctionOnSet(f, s \ {Pick(s)})
          /\ SumFunctionOnSet(g, s) = g[Pick(s)] + SumFunctionOnSet(g, s \ {Pick(s)})
      BY <2>1, <2>3, SumByPick
    <3> QED BY <3>2, <3>3
  <2> QED BY <2>2, <2>3
<1>2. S \in P
  <2> HIDE DEF P
  <2> QED BY <1>1, SubsetInduction
<1> QED BY <1>2

\* A function that changes at one element changes the sum by as much.
LEMMA SumChange ==
  ASSUME NEW f, NEW g, NEW S, IsFiniteSet(S), NEW e \in S, \A x \in S : f[x] \in Int /\ g[x] \in Int,
         \A x \in S \ {e} : f[x] = g[x]
  PROVE  SumFunctionOnSet(g, S) = SumFunctionOnSet(f, S) + (g[e] - f[e])
<1>1. IsFiniteSet(S \ {e})
  BY FS_Subset
<1>2. SumFunctionOnSet(f, S \ {e}) = SumFunctionOnSet(g, S \ {e})
  BY <1>1, SumSame
<1>3. SumFunctionOnSet(f, S \ {e}) \in Int
  BY <1>1, SumIsInt
<1>4. /\ SumFunctionOnSet(f, S) = f[e] + SumFunctionOnSet(f, S \ {e})
      /\ SumFunctionOnSet(g, S) = g[e] + SumFunctionOnSet(g, S \ {e})
  BY SumRemove
<1>5. \A a, b, r \in Int : b + r = (a + r) + (b - a)
  OBVIOUS
<1> QED BY <1>2, <1>3, <1>4, <1>5

\* Two sets without a common element add up.
LEMMA SumUnion ==
  ASSUME NEW f, NEW S, NEW T, IsFiniteSet(S), IsFiniteSet(T), S \cap T = {},
         \A x \in S \cup T : f[x] \in Int
  PROVE  SumFunctionOnSet(f, S \cup T) = SumFunctionOnSet(f, S) + SumFunctionOnSet(f, T)
<1> DEFINE P == {t \in SUBSET T : SumFunctionOnSet(f, S \cup t) = SumFunctionOnSet(f, S) + SumFunctionOnSet(f, t)}
<1>0. SumFunctionOnSet(f, S) \in Int
  BY SumIsInt
<1>1. ASSUME NEW t \in SUBSET T, \A x \in t : t \ {x} \in P PROVE t \in P
  <2>1. IsFiniteSet(t) /\ IsFiniteSet(S \cup t)
    BY FS_Subset, FS_Union
  <2>2. CASE t = {}
    <3>1. S \cup t = S
      BY <2>2
    <3>2. SumFunctionOnSet(f, S \cup t) = SumFunctionOnSet(f, S)
      BY <3>1
    <3>3. SumFunctionOnSet(f, t) = 0
      BY <2>1, <2>2, SumByPick
    <3>4. SumFunctionOnSet(f, S \cup t) = SumFunctionOnSet(f, S) + SumFunctionOnSet(f, t)
      BY <1>0, <3>2, <3>3
    <3> QED BY <3>4
  <2>3. CASE t # {}
    <3>1. PICK x \in t : TRUE
      BY <2>3
    <3> DEFINE u == t \ {x}
    <3>2. SumFunctionOnSet(f, S \cup u) = SumFunctionOnSet(f, S) + SumFunctionOnSet(f, u)
      BY <1>1
    <3>3. (S \cup t) \ {x} = S \cup u
      OBVIOUS
    <3>4. SumFunctionOnSet(f, S \cup t) = f[x] + SumFunctionOnSet(f, S \cup u)
      <4>1. x \in S \cup t /\ \A y \in S \cup t : f[y] \in Int
        OBVIOUS
      <4>2. SumFunctionOnSet(f, S \cup t) = f[x] + SumFunctionOnSet(f, (S \cup t) \ {x})
        BY <2>1, <4>1, SumRemove
      <4> HIDE DEF u
      <4> QED BY <3>3, <4>2
    <3>5. SumFunctionOnSet(f, t) = f[x] + SumFunctionOnSet(f, u)
      BY <2>1, SumRemove
    <3>6. f[x] \in Int /\ SumFunctionOnSet(f, u) \in Int
      <4>1. IsFiniteSet(u) /\ \A y \in u : f[y] \in Int
        BY <2>1, FS_Subset
      <4> HIDE DEF u
      <4> QED BY <4>1, SumIsInt
    <3> HIDE DEF u
    <3> QED BY <1>0, <3>2, <3>4, <3>5, <3>6
  <2> QED BY <2>2, <2>3
<1>2. T \in P
  <2> HIDE DEF P
  <2> QED BY <1>1, SubsetInduction
<1> QED BY <1>2

\* The sum over a part is the sum over the whole, with 0 for the others.
LEMMA SumWhere ==
  ASSUME NEW f, NEW g, NEW S, NEW T \in SUBSET S, IsFiniteSet(S), \A x \in S : f[x] \in Int,
         \A x \in S : g[x] = IF x \in T THEN f[x] ELSE 0
  PROVE  SumFunctionOnSet(f, T) = SumFunctionOnSet(g, S)
<1>1. /\ IsFiniteSet(T) /\ IsFiniteSet(S \ T) /\ T \cup (S \ T) = S /\ T \cap (S \ T) = {}
      /\ \A x \in S : g[x] \in Int
  BY FS_Subset
<1>2. SumFunctionOnSet(g, S) = SumFunctionOnSet(g, T) + SumFunctionOnSet(g, S \ T)
  <2>1. \A x \in T \cup (S \ T) : g[x] \in Int
    BY <1>1
  <2>2. SumFunctionOnSet(g, T \cup (S \ T)) = SumFunctionOnSet(g, T) + SumFunctionOnSet(g, S \ T)
    BY <1>1, <2>1, SumUnion
  <2> QED BY <1>1, <2>2
<1>3. SumFunctionOnSet(g, T) = SumFunctionOnSet(f, T)
  BY <1>1, SumSame
<1>4. SumFunctionOnSet(g, S \ T) = 0
  <2>1. 0 \in {0} /\ (\A a, b \in {0} : a + b \in {0}) /\ \A x \in S \ T : g[x] \in {0}
    OBVIOUS
  <2>2. SumFunctionOnSet(g, S \ T) \in {0}
    BY <1>1, <2>1, SumIn
  <2> QED BY <2>2
<1>5. SumFunctionOnSet(f, T) \in Int
  BY <1>1, SumIsInt
<1> QED BY <1>2, <1>3, <1>4, <1>5

\* Larger terms make a larger sum.
LEMMA SumGrows ==
  ASSUME NEW f, NEW g, NEW S, IsFiniteSet(S), \A x \in S : f[x] \in Int /\ g[x] \in Int /\ f[x] <= g[x]
  PROVE  SumFunctionOnSet(f, S) <= SumFunctionOnSet(g, S)
<1> DEFINE P == {s \in SUBSET S : SumFunctionOnSet(f, s) <= SumFunctionOnSet(g, s)}
<1>1. ASSUME NEW s \in SUBSET S, \A x \in s : s \ {x} \in P PROVE s \in P
  <2>1. IsFiniteSet(s)
    BY FS_Subset
  <2>2. CASE s = {}
    <3>1. SumFunctionOnSet(f, s) = 0 /\ SumFunctionOnSet(g, s) = 0
      BY <2>1, <2>2, SumByPick
    <3> QED BY <3>1
  <2>3. CASE s # {}
    <3>1. PICK x \in s : TRUE
      BY <2>3
    <3> DEFINE u == s \ {x}
    <3>2. SumFunctionOnSet(f, u) <= SumFunctionOnSet(g, u)
      BY <1>1
    <3>3. /\ SumFunctionOnSet(f, s) = f[x] + SumFunctionOnSet(f, u)
          /\ SumFunctionOnSet(g, s) = g[x] + SumFunctionOnSet(g, u)
      BY <2>1, SumRemove
    <3>4. IsFiniteSet(u)
      BY <2>1, FS_Subset
    <3>5. SumFunctionOnSet(f, u) \in Int /\ SumFunctionOnSet(g, u) \in Int
      <4>1. \A y \in u : f[y] \in Int /\ g[y] \in Int
        OBVIOUS
      <4> HIDE DEF u
      <4> QED BY <3>4, <4>1, SumIsInt
    <3>6. f[x] \in Int /\ g[x] \in Int /\ f[x] <= g[x]
      OBVIOUS
    <3> HIDE DEF u
    <3> QED BY <3>2, <3>3, <3>5, <3>6
  <2> QED BY <2>2, <2>3
<1>2. S \in P
  <2> HIDE DEF P
  <2> QED BY <1>1, SubsetInduction
<1> QED BY <1>2
=============================================================================
