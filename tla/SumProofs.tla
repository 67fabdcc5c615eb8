------------------------------ MODULE SumProofs -----------------------------
(***************************************************************************)
(* What sums over finite sets are, for every finite set: SumFunctionOnSet  *)
(* of the community modules is a fold, defined by recursion over the set.  *)
(* The usage of a node, the requests of the pods on it and the estimator's *)
(* shortfall are such sums.                                                *)
(*                                                                         *)
(* Each induction over a set is a search for a minimal counterexample: the *)
(* subsets for which a claim is false form a set, and if that is not empty *)
(* it has a member none of whose strict subsets is in it (MinimalSubset,   *)
(* from the well-foundedness of strict inclusion).                         *)
(***************************************************************************)
EXTENDS Functions, FiniteSetsExt, FiniteSetTheorems, WellFoundedInduction, TLAPS

\* The member that a fold takes out of a set next.
Pick(s) == CHOOSE x \in s : TRUE

\* g gives each subset of T the sum of f over it: the equation of the fold.
Recursion(f, g, T) ==
    g = [s \in SUBSET T |-> IF s = {} THEN 0 ELSE f[Pick(s)] + g[s \ {Pick(s)}]]

\* A set of subsets of a finite set has a member none of whose strict subsets is
\* in it.
LEMMA MinimalSubset ==
    ASSUME NEW S, IsFiniteSet(S), NEW F, F \subseteq SUBSET S, F # {}
    PROVE  \E T \in F : \A U \in F : U \subseteq T => U = T
<1> DEFINE R == StrictSubsetOrdering(S)
<1>1. IsWellFoundedOn(R, SUBSET S)
    BY FS_FiniteSubsetsOfFinite, FS_StrictSubsetOrderingWellFounded, Zenon
<1>2. \E T \in F : \A U \in F : <<U, T>> \notin R
  <2> HIDE DEF R
  <2> QED
    BY <1>1, WFMin
<1> QED
    BY <1>2 DEF StrictSubsetOrdering

----------------------------------------------------------------------------
(* The recursion has exactly one solution *)

LEMMA PickIn == \A s : s # {} => Pick(s) \in s
BY DEF Pick

LEMMA RecursionValue ==
    ASSUME NEW f, NEW T, NEW g, Recursion(f, g, T), NEW s, s \subseteq T
    PROVE  /\ s = {} => g[s] = 0
           /\ s # {} => g[s] = f[Pick(s)] + g[s \ {Pick(s)}]
BY DEF Recursion

\* Two solutions agree where both are defined, whatever sets they are for.
LEMMA RecursionUnique ==
    ASSUME NEW f, NEW S, IsFiniteSet(S), NEW T, NEW U, NEW g, NEW h,
           Recursion(f, g, T), Recursion(f, h, U), S \subseteq T, S \subseteq U
    PROVE  g[S] = h[S]
<1> DEFINE F == {s \in SUBSET S : g[s] # h[s]}
<1> SUFFICES ASSUME F # {} PROVE FALSE
    OBVIOUS
<1>1. PICK s \in F : \A t \in F : t \subseteq s => t = s
  <2>1. F \subseteq SUBSET S
      OBVIOUS
  <2> HIDE DEF F
  <2> QED
      BY <2>1, MinimalSubset
<1>2. s \subseteq S /\ s \subseteq T /\ s \subseteq U /\ g[s] # h[s]
    OBVIOUS
<1>3. s # {}
    BY <1>2, RecursionValue
<1> DEFINE p == Pick(s)
<1>4. p \in s
    BY <1>3, PickIn
<1> HIDE DEF p
<1>5. g[s \ {p}] = h[s \ {p}]
  <2>1. s \ {p} \in SUBSET S /\ s \ {p} # s /\ s \ {p} \subseteq s
      BY <1>2, <1>4
  <2> QED
      BY <1>1, <2>1
<1> QED
    BY <1>2, <1>3, <1>5, RecursionValue DEF p

\* On every finite set there is one: on a minimal set without, those of its
\* strict subsets could be extended.
LEMMA RecursionExists ==
    ASSUME NEW f, NEW S, IsFiniteSet(S)
    PROVE  \E g : Recursion(f, g, S)
<1> DEFINE F == {T \in SUBSET S : ~ \E g : Recursion(f, g, T)}
<1> SUFFICES ASSUME F # {} PROVE FALSE
    OBVIOUS
<1>1. PICK T \in F : \A U \in F : U \subseteq T => U = T
  <2>1. F \subseteq SUBSET S
      OBVIOUS
  <2> HIDE DEF F
  <2> QED
      BY <2>1, MinimalSubset
<1>2. T \subseteq S /\ IsFiniteSet(T)
    BY FS_Subset
<1> DEFINE G(s) == CHOOSE g : Recursion(f, g, s)
<1>3. ASSUME NEW s, s \subseteq T, s # T PROVE Recursion(f, G(s), s)
  <2>1. \E g : Recursion(f, g, s)
      BY <1>1, <1>2, <1>3
  <2> QED
      BY <2>1
<1> DEFINE val(s) == IF s = T
                     THEN IF T = {} THEN 0 ELSE f[Pick(T)] + G(T \ {Pick(T)})[T \ {Pick(T)}]
                     ELSE G(s)[s]
           h == [s \in SUBSET T |-> val(s)]
<1>4. ASSUME NEW s, s \subseteq T
      PROVE  val(s) = IF s = {} THEN 0 ELSE f[Pick(s)] + h[s \ {Pick(s)}]
  <2> DEFINE r == s \ {Pick(s)}
  <2>1. s # {} => r \subseteq T /\ r # T /\ r # s /\ h[r] = G(r)[r]
      BY <1>4, PickIn
  <2>2. CASE s = T
      BY <2>1, <2>2
  <2>3. CASE s # T
    <3>1. val(s) = G(s)[s] /\ Recursion(f, G(s), s)
        BY <1>3, <1>4, <2>3
    <3> HIDE DEF val, G, h
    <3>2. CASE s = {}
      <4>1. s \subseteq s => G(s)[s] = 0
          BY <3>1, <3>2, RecursionValue
      <4> QED
          BY <3>1, <3>2, <4>1
    <3>3. CASE s # {}
      <4>1. G(s)[s] = f[Pick(s)] + G(s)[r]
          BY <3>1, <3>3, RecursionValue
      <4>2. Recursion(f, G(r), r)
          BY <1>3, <2>1, <3>3
      <4>3. IsFiniteSet(r)
          BY <1>2, <2>1, <3>3, FS_Subset
      <4>4. G(s)[r] = G(r)[r]
          BY <3>1, <4>2, <4>3, RecursionUnique
      <4> QED
          BY <2>1, <3>1, <3>3, <4>1, <4>4
    <3> QED
        BY <3>2, <3>3
  <2> QED
      BY <2>2, <2>3
<1>5. Recursion(f, h, T)
  <2>1. h = [s \in SUBSET T |-> IF s = {} THEN 0 ELSE f[Pick(s)] + h[s \ {Pick(s)}]]
    <3> HIDE DEF val
    <3> QED
      BY <1>4
  <2> QED
    BY <2>1 DEF Recursion
<1> QED
    BY <1>1, <1>5

\* Hence the CHOOSE in the definition of the fold finds a solution.
LEMMA SumIsRecursion ==
    ASSUME NEW f, NEW S, IsFiniteSet(S)
    PROVE  \E g : Recursion(f, g, S) /\ SumFunctionOnSet(f, S) = g[S]
<1>1. \E g : Recursion(f, g, S)
    BY RecursionExists
<1> QED
    BY <1>1 DEF Recursion, Pick, SumFunctionOnSet, FoldFunctionOnSet, MapThenFoldSet

----------------------------------------------------------------------------
(* Sums *)

LEMMA SumEmpty == ASSUME NEW f PROVE SumFunctionOnSet(f, {}) = 0
<1>1. PICK g : Recursion(f, g, {}) /\ SumFunctionOnSet(f, {}) = g[{}]
    BY SumIsRecursion, FS_EmptySet
<1> QED
    BY <1>1, RecursionValue

\* The equation of the fold, one member at a time.
LEMMA SumPick ==
    ASSUME NEW f, NEW S, IsFiniteSet(S), S # {}
    PROVE  SumFunctionOnSet(f, S) = f[Pick(S)] + SumFunctionOnSet(f, S \ {Pick(S)})
<1> DEFINE U == S \ {Pick(S)}
<1>1. IsFiniteSet(U) /\ U \subseteq S
    BY FS_Subset
<1> HIDE DEF U
<1>2. PICK g : Recursion(f, g, S) /\ SumFunctionOnSet(f, S) = g[S]
    BY SumIsRecursion
<1>3. PICK h : Recursion(f, h, U) /\ SumFunctionOnSet(f, U) = h[U]
    BY <1>1, SumIsRecursion
<1>4. g[U] = h[U]
    BY <1>1, <1>2, <1>3, RecursionUnique
<1>5. g[S] = f[Pick(S)] + g[U]
    BY <1>2, RecursionValue DEF U
<1> QED
    BY <1>2, <1>3, <1>4, <1>5 DEF U

\* The sum of natural numbers is one.
LEMMA SumNat ==
    ASSUME NEW f, NEW S, IsFiniteSet(S), \A p \in S : f[p] \in Nat
    PROVE  SumFunctionOnSet(f, S) \in Nat
<1> DEFINE F == {T \in SUBSET S : SumFunctionOnSet(f, T) \notin Nat}
<1> SUFFICES ASSUME F # {} PROVE FALSE
    OBVIOUS
<1>1. PICK T \in F : \A U \in F : U \subseteq T => U = T
  <2>1. F \subseteq SUBSET S
      OBVIOUS
  <2> HIDE DEF F
  <2> QED
      BY <2>1, MinimalSubset
<1>2. T \subseteq S /\ IsFiniteSet(T) /\ SumFunctionOnSet(f, T) \notin Nat
    BY FS_Subset
<1>3. T # {}
    BY <1>2, SumEmpty
<1> DEFINE p == Pick(T)
           U == T \ {p}
<1>4. p \in T /\ f[p] \in Nat
    BY <1>2, <1>3, PickIn
<1> HIDE DEF p
<1>5. SumFunctionOnSet(f, U) \in Nat
    BY <1>1, <1>2, <1>4
<1>6. SumFunctionOnSet(f, T) = f[p] + SumFunctionOnSet(f, U)
    BY <1>2, <1>3, SumPick DEF p
<1> QED
    BY <1>2, <1>4, <1>5, <1>6

\* Any member may be taken out of a sum.
LEMMA SumTakeOut ==
    ASSUME NEW f, NEW S, IsFiniteSet(S), \A p \in S : f[p] \in Nat, NEW q \in S
    PROVE  SumFunctionOnSet(f, S) = f[q] + SumFunctionOnSet(f, S \ {q})
<1> DEFINE F == {T \in SUBSET S : \E p \in T :
                    SumFunctionOnSet(f, T) # f[p] + SumFunctionOnSet(f, T \ {p})}
<1> SUFFICES ASSUME F # {} PROVE FALSE
    OBVIOUS
<1>1. PICK T \in F : \A U \in F : U \subseteq T => U = T
  <2>1. F \subseteq SUBSET S
      OBVIOUS
  <2> HIDE DEF F
  <2> QED
      BY <2>1, MinimalSubset
<1>2. T \subseteq S /\ IsFiniteSet(T)
    BY FS_Subset
<1>3. PICK p \in T : SumFunctionOnSet(f, T) # f[p] + SumFunctionOnSet(f, T \ {p})
    OBVIOUS
<1> DEFINE c == Pick(T)
<1>4. c \in T /\ SumFunctionOnSet(f, T) = f[c] + SumFunctionOnSet(f, T \ {c})
    BY <1>2, <1>3, PickIn, SumPick
<1> HIDE DEF c
<1>5. p # c
    BY <1>3, <1>4
<1> DEFINE tc == T \ {c}
           tp == T \ {p}
           tcp == (T \ {c}) \ {p}
           tpc == (T \ {p}) \ {c}
<1>6. /\ tc \in SUBSET S /\ tc # T /\ tc \subseteq T /\ p \in tc
      /\ tp \in SUBSET S /\ tp # T /\ tp \subseteq T /\ c \in tp
      /\ tcp = tpc /\ tcp \subseteq S /\ c \in S /\ p \in S
    BY <1>2, <1>4, <1>5
<1>7. SumFunctionOnSet(f, tc) = f[p] + SumFunctionOnSet(f, tcp)
    BY <1>1, <1>6
<1>8. SumFunctionOnSet(f, tp) = f[c] + SumFunctionOnSet(f, tpc)
    BY <1>1, <1>6
<1>9. f[c] \in Nat /\ f[p] \in Nat /\ SumFunctionOnSet(f, tcp) \in Nat
    BY <1>6, SumNat, FS_Subset
<1> HIDE DEF tc, tp, tcp, tpc, F
<1>10. SumFunctionOnSet(f, T) # f[p] + SumFunctionOnSet(f, tp)
    BY <1>3 DEF tp
<1>11. SumFunctionOnSet(f, T) = f[c] + SumFunctionOnSet(f, tc)
    BY <1>4 DEF tc
<1> QED
    BY <1>6, <1>7, <1>8, <1>9, <1>10, <1>11

\* Another member adds its value.
LEMMA SumAdd ==
    ASSUME NEW f, NEW S, IsFiniteSet(S), NEW q, q \notin S, \A p \in S \cup {q} : f[p] \in Nat
    PROVE  SumFunctionOnSet(f, S \cup {q}) = f[q] + SumFunctionOnSet(f, S)
<1>1. IsFiniteSet(S \cup {q}) /\ (S \cup {q}) \ {q} = S
    BY FS_AddElement
<1> HIDE DEF SumFunctionOnSet
<1>2. SumFunctionOnSet(f, S \cup {q}) = f[q] + SumFunctionOnSet(f, (S \cup {q}) \ {q})
    BY <1>1, SumTakeOut
<1> QED
    BY <1>1, <1>2

\* A sum of bounded numbers is bounded by their number times the bound.
LEMMA SumBound ==
    ASSUME NEW f, NEW S, IsFiniteSet(S), NEW c \in Nat, \A p \in S : f[p] \in Nat /\ f[p] <= c
    PROVE  SumFunctionOnSet(f, S) <= c * Cardinality(S)
<1> DEFINE F == {T \in SUBSET S : ~(SumFunctionOnSet(f, T) <= c * Cardinality(T))}
<1> SUFFICES ASSUME F # {} PROVE FALSE
    OBVIOUS
<1>1. PICK T \in F : \A U \in F : U \subseteq T => U = T
  <2>1. F \subseteq SUBSET S
      OBVIOUS
  <2> HIDE DEF F
  <2> QED
      BY <2>1, MinimalSubset
<1>2. T \subseteq S /\ IsFiniteSet(T) /\ ~(SumFunctionOnSet(f, T) <= c * Cardinality(T))
    BY FS_Subset
<1>3. T # {}
    BY <1>2, SumEmpty, FS_EmptySet
<1>4. PICK p \in T : TRUE
    BY <1>3
<1> DEFINE U == T \ {p}
<1>5. /\ IsFiniteSet(U) /\ U \subseteq S /\ Cardinality(U) = Cardinality(T) - 1
      /\ Cardinality(T) \in Nat /\ Cardinality(U) \in Nat
    BY <1>2, FS_RemoveElement, FS_CardinalityType
<1>6. SumFunctionOnSet(f, T) = f[p] + SumFunctionOnSet(f, U)
    BY <1>2, SumTakeOut
<1>7. SumFunctionOnSet(f, U) <= c * Cardinality(U)
    BY <1>1, <1>2
<1>8. SumFunctionOnSet(f, U) \in Nat /\ SumFunctionOnSet(f, T) \in Nat
    BY <1>2, <1>5, SumNat
<1>9. f[p] \in Nat /\ f[p] <= c
    BY <1>2
<1>10. c * Cardinality(T) = c * Cardinality(U) + c
  <2> HIDE DEF U
  <2>1. \A k, m \in Nat : k = m - 1 => c * m = c * k + c
      OBVIOUS
  <2> QED
      BY <1>5, <2>1
<1>11. c * Cardinality(U) \in Nat
    BY <1>5
<1> HIDE DEF F, U
<1> QED
    BY <1>2, <1>6, <1>7, <1>8, <1>9, <1>10, <1>11

\* A sum with a positive member is positive.
LEMMA SumPositive ==
    ASSUME NEW f, NEW S, IsFiniteSet(S), \A p \in S : f[p] \in Nat, NEW q \in S, f[q] > 0
    PROVE  SumFunctionOnSet(f, S) > 0
<1>1. SumFunctionOnSet(f, S) = f[q] + SumFunctionOnSet(f, S \ {q})
    BY SumTakeOut
<1>2. IsFiniteSet(S \ {q})
    BY FS_RemoveElement
<1>3. SumFunctionOnSet(f, S \ {q}) \in Nat /\ f[q] \in Nat
    BY <1>2, SumNat
<1> QED
    BY <1>1, <1>3

\* A sum of larger numbers is no smaller.
LEMMA SumGrows ==
    ASSUME NEW f, NEW g, NEW S, IsFiniteSet(S),
           \A p \in S : f[p] \in Nat /\ g[p] \in Nat /\ f[p] <= g[p]
    PROVE  SumFunctionOnSet(f, S) <= SumFunctionOnSet(g, S)
<1> DEFINE F == {T \in SUBSET S : ~(SumFunctionOnSet(f, T) <= SumFunctionOnSet(g, T))}
<1> SUFFICES ASSUME F # {} PROVE FALSE
    OBVIOUS
<1>1. PICK T \in F : \A U \in F : U \subseteq T => U = T
  <2>1. F \subseteq SUBSET S
      OBVIOUS
  <2> HIDE DEF F
  <2> QED
      BY <2>1, MinimalSubset
<1>2. T \subseteq S /\ IsFiniteSet(T) /\ ~(SumFunctionOnSet(f, T) <= SumFunctionOnSet(g, T))
    BY FS_Subset
<1>3. T # {}
    BY <1>2, SumEmpty
<1>4. PICK p \in T : TRUE
    BY <1>3
<1> DEFINE U == T \ {p}
<1>5. IsFiniteSet(U) /\ U \subseteq S
    BY <1>2, FS_RemoveElement
<1>6. /\ SumFunctionOnSet(f, T) = f[p] + SumFunctionOnSet(f, U)
      /\ SumFunctionOnSet(g, T) = g[p] + SumFunctionOnSet(g, U)
    BY <1>2, SumTakeOut
<1>7. SumFunctionOnSet(f, U) <= SumFunctionOnSet(g, U)
    BY <1>1, <1>2
<1>8. SumFunctionOnSet(f, U) \in Nat /\ SumFunctionOnSet(g, U) \in Nat
    BY <1>5, SumNat
<1>9. f[p] \in Nat /\ g[p] \in Nat /\ f[p] <= g[p]
    BY <1>2
<1> HIDE DEF F, U
<1> QED
    BY <1>2, <1>6, <1>7, <1>8, <1>9

LEMMA SumOfZeros ==
    ASSUME NEW f, NEW S, IsFiniteSet(S), \A p \in S : f[p] = 0
    PROVE  SumFunctionOnSet(f, S) = 0
<1>1. SumFunctionOnSet(f, S) \in Nat
    BY SumNat
<1>2. SumFunctionOnSet(f, S) <= 0 * Cardinality(S)
    BY SumBound
<1>3. 0 * Cardinality(S) = 0
    BY FS_CardinalityType
<1> QED
    BY <1>1, <1>2, <1>3

----------------------------------------------------------------------------
(* The maximum *)

\* A finite set of natural numbers has a largest one.
LEMMA MaxInSet ==
    ASSUME NEW S, S \subseteq Nat, IsFiniteSet(S), S # {}
    PROVE  Max(S) \in S /\ \A x \in S : x <= Max(S)
<1> DEFINE F == {T \in SUBSET S : T # {} /\ ~ \E x \in T : \A y \in T : x >= y}
<1>1. F = {}
  <2>0. SUFFICES ASSUME F # {} PROVE FALSE
      OBVIOUS
  <2>1. PICK T \in F : \A U \in F : U \subseteq T => U = T
    <3>1. F \subseteq SUBSET S
        OBVIOUS
    <3> HIDE DEF F
    <3> QED
        BY ONLY IsFiniteSet(S), <2>0, <3>1, MinimalSubset
  <2>2. PICK p \in T : TRUE
      OBVIOUS
  <2> DEFINE U == T \ {p}
  <2>3. U \in SUBSET S /\ U \subseteq T /\ U # T /\ T \in SUBSET Nat
      OBVIOUS
  <2>4. U # {} => \E x \in U : \A y \in U : x >= y
      BY <2>1, <2>3
  <2>5. CASE U = {}
      BY <2>2, <2>5, <2>3
  <2>6. CASE U # {}
    <3>1. PICK x \in U : \A y \in U : x >= y
        BY <2>4, <2>6
    <3>2. CASE x >= p
        BY <2>3, <3>1, <3>2
    <3>3. CASE p >= x
        BY <2>3, <3>1, <3>3
    <3> QED
        BY <2>3, <3>2, <3>3
  <2> QED
      BY <2>5, <2>6
<1>2. \E x \in S : \A y \in S : x >= y
    BY <1>1
<1> QED
    BY <1>2 DEF Max
=============================================================================
