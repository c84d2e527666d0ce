----------------------------- MODULE FiniteSums -----------------------------
(***************************************************************************)
(* What SumFunctionOnSet adds up, for any finite set.  The sum is defined  *)
(* by recursion over sets, an element of each chosen; that the recursion   *)
(* defines a function, and that the choice does not matter, is proved by   *)
(* induction over the subsets of a finite set: among the subsets that lack *)
(* a property there would be a minimal one.                                *)
(***************************************************************************)
EXTENDS Integers, Functions, FiniteSetTheorems, TLAPS

\* Induction over the subsets of a finite set, for the set of those that have
\* the property.
LEMMA SubsetInduction ==
  ASSUME NEW S, IsFiniteSet(S), NEW Good,
         ASSUME NEW U \in SUBSET S, \A V \in SUBSET U : V # U => V \in Good
         PROVE  U \in Good
  PROVE  (SUBSET S) \subseteq Good
<1> DEFINE Bad == (SUBSET S) \ Good
           R   == StrictSubsetOrdering(S)
<1>1. IsWellFoundedOn(R, SUBSET S)
  BY FS_StrictSubsetOrderingWellFounded, FS_FiniteSubsetsOfFinite
<1>2. ASSUME Bad # {} PROVE \E U \in Bad : \A V \in Bad : ~(<<V, U>> \in R)
  <2> HIDE DEF R
  <2>1. Bad \subseteq SUBSET S
    OBVIOUS
  <2> HIDE DEF Bad
  <2> QED
    BY <1>1, <1>2, <2>1, WFMin
<1>3. ASSUME NEW U \in Bad, \A V \in Bad : ~(<<V, U>> \in R)
      PROVE  \A V \in SUBSET U : V # U => V \in Good
  <2>1. SUFFICES ASSUME NEW V \in SUBSET U, V # U, V \in Bad PROVE FALSE
    BY DEF Bad
  <2>2. U \in SUBSET S
    OBVIOUS
  <2>3. <<V, U>> \in R
    BY <2>1, <2>2 DEF StrictSubsetOrdering
  <2> QED
    BY <1>3, <2>1, <2>3
<1>4. Bad = {}
  BY <1>2, <1>3
<1> QED
  BY <1>4

\* A finite set of integers that is not empty has a greatest element.
LEMMA GreatestOf ==
  ASSUME NEW S \in SUBSET Int, IsFiniteSet(S), S # {}
  PROVE  \E i \in S : \A j \in S : j <= i
<1> DEFINE Good == {U \in SUBSET S : U # {} => \E i \in U : \A j \in U : j <= i}
<1>1. ASSUME NEW U \in SUBSET S, \A V \in SUBSET U : V # U => V \in Good
      PROVE  U \in Good
  <2> SUFFICES ASSUME NEW x \in U PROVE \E i \in U : \A j \in U : j <= i
    OBVIOUS
  <2>1. CASE U = {x}
    BY <2>1
  <2>2. CASE U # {x}
    <3> DEFINE V == U \ {x}
    <3>0. V \in Good /\ V # {}
      BY <1>1, <2>2
    <3>1. PICK i \in V : \A j \in V : j <= i
      BY <3>0
    <3>2. CASE x <= i
      BY <3>1, <3>2
    <3>3. CASE i <= x
      <4>1. \A j \in U : j <= x
        BY <3>1, <3>3
      <4> QED
        BY <4>1
    <3> QED
      BY <3>1, <3>2, <3>3
  <2> QED
    BY <2>1, <2>2
<1> HIDE DEF Good
<1>2. (SUBSET S) \subseteq Good
  BY <1>1, SubsetInduction
<1> QED
  BY <1>2 DEF Good

-----------------------------------------------------------------------------
(* The recursion. *)

Chosen(s) == CHOOSE x \in s : TRUE

SumsTo(f, S, g) ==
  g = [s \in SUBSET S |-> IF s = {} THEN 0 ELSE f[Chosen(s)] + g[s \ {Chosen(s)}]]

LEMMA SumIs ==
  ASSUME NEW f, NEW S
  PROVE  SumFunctionOnSet(f, S) = (CHOOSE g : SumsTo(f, S, g))[S]
BY DEF SumFunctionOnSet, FoldFunctionOnSet, MapThenFoldSet, SumsTo, Chosen

LEMMA ChosenIn == ASSUME NEW s, s # {} PROVE Chosen(s) \in s
BY DEF Chosen

LEMMA SumsToOne ==
  ASSUME NEW f, NEW S, IsFiniteSet(S), NEW g, NEW h, SumsTo(f, S, g), SumsTo(f, S, h)
  PROVE  \A U \in SUBSET S : g[U] = h[U]
<1> DEFINE Same == {U \in SUBSET S : g[U] = h[U]}
<1>1. ASSUME NEW U \in SUBSET S, \A V \in SUBSET U : V # U => V \in Same
      PROVE  U \in Same
  <2>1. CASE U = {}
    BY <2>1 DEF SumsTo
  <2>2. CASE U # {}
    <3>1. Chosen(U) \in U
      BY <2>2, ChosenIn
    <3>2. g[U \ {Chosen(U)}] = h[U \ {Chosen(U)}]
      BY <1>1, <3>1
    <3> QED
      BY <2>2, <3>2 DEF SumsTo
  <2> QED
    BY <2>1, <2>2
<1> HIDE DEF Same
<1>2. (SUBSET S) \subseteq Same
  BY <1>1, SubsetInduction
<1> QED
  BY <1>2 DEF Same

LEMMA SumsToPart ==
  ASSUME NEW f, NEW S, NEW g, SumsTo(f, S, g), NEW U \in SUBSET S
  PROVE  SumsTo(f, U, [s \in SUBSET U |-> g[s]])
<1> DEFINE h == [s \in SUBSET U |-> g[s]]
           k == [s \in SUBSET U |-> IF s = {} THEN 0 ELSE f[Chosen(s)] + h[s \ {Chosen(s)}]]
<1>1. ASSUME NEW s \in SUBSET U PROVE h[s] = k[s]
  <2>1. g[s] = IF s = {} THEN 0 ELSE f[Chosen(s)] + g[s \ {Chosen(s)}]
    BY DEF SumsTo
  <2>2. s \ {Chosen(s)} \in SUBSET U
    OBVIOUS
  <2> QED
    BY <2>1, <2>2
<1>2. h = k
  BY <1>1
<1> QED
  BY <1>2 DEF SumsTo

LEMMA SumsToExists ==
  ASSUME NEW f, NEW S, IsFiniteSet(S)
  PROVE  \E g : SumsTo(f, S, g)
<1> DEFINE Good == {U \in SUBSET S : \E g : SumsTo(f, U, g)}
<1>1. ASSUME NEW U \in SUBSET S, \A V \in SUBSET U : V # U => V \in Good
      PROVE  U \in Good
  <2> DEFINE G(V) == CHOOSE g : SumsTo(f, V, g)
             rest(s) == s \ {Chosen(s)}
             h == [s \in SUBSET U |-> IF s = {} THEN 0 ELSE f[Chosen(s)] + G(rest(s))[rest(s)]]
  <2>1. \A V \in SUBSET U : V # U => SumsTo(f, V, G(V))
    BY <1>1
  <2>2. ASSUME NEW V \in SUBSET U, V # U, NEW X \in SUBSET V
        PROVE  G(V)[X] = G(X)[X]
    <3>1. SumsTo(f, X, [s \in SUBSET X |-> G(V)[s]])
      BY <2>1, <2>2, SumsToPart
    <3>2. SumsTo(f, X, G(X))
      BY <2>1, <2>2
    <3>3. IsFiniteSet(X)
      BY FS_Subset
    <3> HIDE DEF G
    <3>4. [s \in SUBSET X |-> G(V)[s]][X] = G(X)[X]
      BY <3>1, <3>2, <3>3, SumsToOne
    <3> QED
      BY <3>4
  <2>3. ASSUME NEW V \in SUBSET U, V # U PROVE h[V] = G(V)[V]
    <3>1. SumsTo(f, V, G(V))
      BY <2>1, <2>3
    <3>2. G(V)[rest(V)] = G(rest(V))[rest(V)]
      BY <2>2, <2>3
    <3> HIDE DEF G
    <3>3. G(V)[V] = IF V = {} THEN 0 ELSE f[Chosen(V)] + G(V)[rest(V)]
      BY <3>1 DEF SumsTo
    <3> QED
      BY <3>2, <3>3
  <2> DEFINE k == [s \in SUBSET U |-> IF s = {} THEN 0 ELSE f[Chosen(s)] + h[s \ {Chosen(s)}]]
  <2>4. ASSUME NEW s \in SUBSET U PROVE h[s] = k[s]
    <3>1. CASE s # {}
      <4>1. Chosen(s) \in s
        BY <3>1, ChosenIn
      <4>2. rest(s) \in SUBSET U /\ rest(s) # U
        BY <4>1
      <4>3. h[rest(s)] = G(rest(s))[rest(s)]
        BY <2>3, <4>2
      <4> HIDE DEF G
      <4> QED
        BY <3>1, <4>3
    <3> QED
      BY <3>1
  <2>5. h = k
    BY <2>4
  <2>6. SumsTo(f, U, h)
    BY <2>5 DEF SumsTo
  <2> QED
    BY <2>6
<1> HIDE DEF Good
<1>2. (SUBSET S) \subseteq Good
  BY <1>1, SubsetInduction
<1> QED
  BY <1>2 DEF Good

\* The sum of a set is an element of it and the sum of the others.
LEMMA SumUnfolds ==
  ASSUME NEW f, NEW S, IsFiniteSet(S)
  PROVE  SumFunctionOnSet(f, S) =
           IF S = {} THEN 0 ELSE f[Chosen(S)] + SumFunctionOnSet(f, S \ {Chosen(S)})
<1> DEFINE g(U) == CHOOSE h : SumsTo(f, U, h)
           V == S \ {Chosen(S)}
<1>1. IsFiniteSet(V)
  BY FS_Subset
<1>2. SumsTo(f, S, g(S)) /\ SumsTo(f, V, g(V))
  BY <1>1, SumsToExists
<1>3. SumsTo(f, V, [s \in SUBSET V |-> g(S)[s]])
  BY <1>2, SumsToPart
<1>4. SumFunctionOnSet(f, S) = g(S)[S] /\ SumFunctionOnSet(f, V) = g(V)[V]
  BY SumIs
<1> HIDE DEF g
<1>5. [s \in SUBSET V |-> g(S)[s]][V] = g(V)[V]
  BY <1>1, <1>2, <1>3, SumsToOne
<1>6. g(S)[S] = IF S = {} THEN 0 ELSE f[Chosen(S)] + g(S)[V]
  BY <1>2 DEF SumsTo
<1> QED
  BY <1>4, <1>5, <1>6

-----------------------------------------------------------------------------
(* What the sums are. *)

LEMMA SumOfNone == ASSUME NEW f PROVE SumFunctionOnSet(f, {}) = 0
BY FS_EmptySet, SumUnfolds

LEMMA SumIsNat ==
  ASSUME NEW f, NEW S, IsFiniteSet(S), \A x \in S : f[x] \in Nat
  PROVE  SumFunctionOnSet(f, S) \in Nat
<1> DEFINE Good == {U \in SUBSET S : SumFunctionOnSet(f, U) \in Nat}
<1>1. ASSUME NEW U \in SUBSET S, \A V \in SUBSET U : V # U => V \in Good
      PROVE  U \in Good
  <2>1. IsFiniteSet(U)
    BY FS_Subset
  <2>2. CASE U = {}
    BY <2>2, SumOfNone
  <2>3. CASE U # {}
    <3>1. Chosen(U) \in U
      BY <2>3, ChosenIn
    <3>2. SumFunctionOnSet(f, U \ {Chosen(U)}) \in Nat
      BY <1>1, <3>1
    <3>3. f[Chosen(U)] \in Nat
      BY <3>1
    <3> QED
      BY <2>1, <2>3, <3>2, <3>3, SumUnfolds
  <2> QED
    BY <2>2, <2>3
<1> HIDE DEF Good
<1>2. (SUBSET S) \subseteq Good
  BY <1>1, SubsetInduction
<1> QED
  BY <1>2 DEF Good

\* Whichever element is taken out.
LEMMA SumRemoves ==
  ASSUME NEW f, NEW S, IsFiniteSet(S), \A x \in S : f[x] \in Nat, NEW e \in S
  PROVE  SumFunctionOnSet(f, S) = f[e] + SumFunctionOnSet(f, S \ {e})
<1> DEFINE Good == {U \in SUBSET S :
                      \A x \in U : SumFunctionOnSet(f, U) = f[x] + SumFunctionOnSet(f, U \ {x})}
<1>1. ASSUME NEW U \in SUBSET S, \A V \in SUBSET U : V # U => V \in Good
      PROVE  U \in Good
  <2> SUFFICES ASSUME NEW x \in U
               PROVE  SumFunctionOnSet(f, U) = f[x] + SumFunctionOnSet(f, U \ {x})
    OBVIOUS
  <2> DEFINE c == Chosen(U)
  <2>1. c \in U
    BY ChosenIn
  <2>2. SumFunctionOnSet(f, U) = f[c] + SumFunctionOnSet(f, U \ {c})
    <3>1. IsFiniteSet(U)
      BY FS_Subset
    <3> QED
      BY <3>1, SumUnfolds
  <2> HIDE DEF c
  <2>3. CASE x # c
    <3>1. SumFunctionOnSet(f, U \ {c}) = f[x] + SumFunctionOnSet(f, (U \ {c}) \ {x})
      <4>1. U \ {c} \in SUBSET U /\ U \ {c} # U /\ x \in U \ {c}
        BY <2>1, <2>3
      <4> QED
        BY <1>1, <4>1
    <3>2. SumFunctionOnSet(f, U \ {x}) = f[c] + SumFunctionOnSet(f, (U \ {x}) \ {c})
      <4>1. U \ {x} \in SUBSET U /\ U \ {x} # U /\ c \in U \ {x}
        BY <2>1, <2>3
      <4> QED
        BY <1>1, <4>1
    <3>3. (U \ {c}) \ {x} = (U \ {x}) \ {c}
      OBVIOUS
    <3>4. SumFunctionOnSet(f, (U \ {x}) \ {c}) \in Nat
      <4>1. IsFiniteSet((U \ {x}) \ {c})
        BY FS_Subset
      <4> QED
        BY <4>1, SumIsNat
    <3>5. f[c] \in Nat /\ f[x] \in Nat
      BY <2>1
    <3> QED
      BY <2>2, <3>1, <3>2, <3>3, <3>4, <3>5
  <2> QED
    BY <2>2, <2>3
<1> HIDE DEF Good
<1>2. (SUBSET S) \subseteq Good
  BY <1>1, SubsetInduction
<1> QED
  BY <1>2 DEF Good

\* Equal terms have equal sums.
LEMMA SumSame ==
  ASSUME NEW f, NEW g, NEW S, IsFiniteSet(S), \A x \in S : f[x] = g[x]
  PROVE  SumFunctionOnSet(f, S) = SumFunctionOnSet(g, S)
<1> DEFINE Good == {U \in SUBSET S : SumFunctionOnSet(f, U) = SumFunctionOnSet(g, U)}
<1>1. ASSUME NEW U \in SUBSET S, \A V \in SUBSET U : V # U => V \in Good
      PROVE  U \in Good
  <2>1. IsFiniteSet(U)
    BY FS_Subset
  <2>2. CASE U = {}
    BY <2>2, SumOfNone
  <2>3. CASE U # {}
    <3>1. Chosen(U) \in U
      BY <2>3, ChosenIn
    <3>2. SumFunctionOnSet(f, U \ {Chosen(U)}) = SumFunctionOnSet(g, U \ {Chosen(U)})
      BY <1>1, <3>1
    <3>3. f[Chosen(U)] = g[Chosen(U)]
      BY <3>1
    <3> QED
      BY <2>1, <2>3, <3>2, <3>3, SumUnfolds
  <2> QED
    BY <2>2, <2>3
<1> HIDE DEF Good
<1>2. (SUBSET S) \subseteq Good
  BY <1>1, SubsetInduction
<1> QED
  BY <1>2 DEF Good

LEMMA SumOfZeros ==
  ASSUME NEW f, NEW S, IsFiniteSet(S), \A x \in S : f[x] = 0
  PROVE  SumFunctionOnSet(f, S) = 0
<1> DEFINE Good == {U \in SUBSET S : SumFunctionOnSet(f, U) = 0}
<1>1. ASSUME NEW U \in SUBSET S, \A V \in SUBSET U : V # U => V \in Good
      PROVE  U \in Good
  <2>1. IsFiniteSet(U)
    BY FS_Subset
  <2>2. CASE U # {}
    <3>1. Chosen(U) \in U
      BY <2>2, ChosenIn
    <3>2. SumFunctionOnSet(f, U \ {Chosen(U)}) = 0
      BY <1>1, <3>1
    <3> QED
      BY <2>1, <2>2, <3>1, <3>2, SumUnfolds
  <2> QED
    BY <2>2, SumOfNone
<1> HIDE DEF Good
<1>2. (SUBSET S) \subseteq Good
  BY <1>1, SubsetInduction
<1> QED
  BY <1>2 DEF Good

\* Where each term of one sum is at most the other's, the sums are, also with
\* factors.
LEMMA SumScaled ==
  ASSUME NEW f, NEW g, NEW S, IsFiniteSet(S), \A x \in S : f[x] \in Nat /\ g[x] \in Nat,
         NEW m \in Nat, NEW n \in Nat, \A x \in S : m * f[x] <= n * g[x]
  PROVE  m * SumFunctionOnSet(f, S) <= n * SumFunctionOnSet(g, S)
<1> DEFINE Good == {U \in SUBSET S : m * SumFunctionOnSet(f, U) <= n * SumFunctionOnSet(g, U)}
<1>0. \A a, b \in Nat : m * (a + b) = m * a + m * b /\ n * (a + b) = n * a + n * b
  OBVIOUS
<1>1. ASSUME NEW U \in SUBSET S, \A V \in SUBSET U : V # U => V \in Good
      PROVE  U \in Good
  <2>1. IsFiniteSet(U)
    BY FS_Subset
  <2>2. CASE U = {}
    <3>1. SumFunctionOnSet(f, U) = 0 /\ SumFunctionOnSet(g, U) = 0
      BY <2>2, SumOfNone
    <3> QED
      BY <3>1
  <2>3. CASE U # {}
    <3> DEFINE c == Chosen(U)
               V == U \ {c}
    <3>1. c \in U /\ V \in SUBSET U /\ V # U
      BY <2>3, ChosenIn
    <3>2. /\ SumFunctionOnSet(f, U) = f[c] + SumFunctionOnSet(f, V)
          /\ SumFunctionOnSet(g, U) = g[c] + SumFunctionOnSet(g, V)
      BY <2>1, <2>3, SumUnfolds
    <3>3. m * SumFunctionOnSet(f, V) <= n * SumFunctionOnSet(g, V)
      BY <1>1, <3>1
    <3>4. SumFunctionOnSet(f, V) \in Nat /\ SumFunctionOnSet(g, V) \in Nat
      <4>1. IsFiniteSet(V)
        BY FS_Subset
      <4> QED
        BY <4>1, SumIsNat
    <3>5. f[c] \in Nat /\ g[c] \in Nat /\ m * f[c] <= n * g[c]
      BY <3>1
    <3> HIDE DEF c, V
    <3>6. /\ m * SumFunctionOnSet(f, U) = m * f[c] + m * SumFunctionOnSet(f, V)
          /\ n * SumFunctionOnSet(g, U) = n * g[c] + n * SumFunctionOnSet(g, V)
      BY <1>0, <3>2, <3>4, <3>5
    <3>7. /\ m * f[c] \in Nat /\ n * g[c] \in Nat
          /\ m * SumFunctionOnSet(f, V) \in Nat /\ n * SumFunctionOnSet(g, V) \in Nat
      BY <3>4, <3>5
    <3> QED
      BY <3>3, <3>5, <3>6, <3>7
  <2> QED
    BY <2>2, <2>3
<1> HIDE DEF Good
<1>2. (SUBSET S) \subseteq Good
  BY <1>1, SubsetInduction
<1> QED
  BY <1>2 DEF Good

=============================================================================
