---------------------------- MODULE IntakeProofs ----------------------------
(***************************************************************************)
(* Proofs about what comes into a node, for any uploads, copies, limits    *)
(* and contents: UploadAdmission (slots, promised space and the lease),    *)
(* BlockSessions (the cleanup of one upload spares the others') and        *)
(* PeerIntake (what peers may have this node pull in and pay for it).      *)
(*                                                                         *)
(* The first part has lemmas about sums over finite sets, which the        *)
(* library's MapThenSumSet computes in an order that nobody chooses.       *)
(***************************************************************************)
EXTENDS UploadAdmission, BlockSessions, PeerIntake,
        FiniteSetTheorems, WellFoundedInduction, TLAPS

-----------------------------------------------------------------------------
(* Sums *)

\* A set of subsets that contains a set whenever it contains its proper subsets
\* contains them all.
LEMMA SubsetInduction ==
  ASSUME NEW S, IsFiniteSet(S), NEW G,
         \A T \in SUBSET S : (\A U \in SUBSET T : U # T => U \in G) => T \in G
  PROVE  SUBSET S \subseteq G
<1> DEFINE B == (SUBSET S) \ G
<1> SUFFICES ASSUME B # {} PROVE FALSE
  OBVIOUS
<1>1. IsWellFoundedOn(StrictSubsetOrdering(S), SUBSET S)
  <2>1. IsWellFoundedOn(StrictSubsetOrdering(S), FiniteSubsetsOf(S))
    BY FS_StrictSubsetOrderingWellFounded
  <2>2. FiniteSubsetsOf(S) = SUBSET S
    BY FS_FiniteSubsetsOfFinite
  <2> QED
    BY <2>1, <2>2, Zenon
<1>2. B \subseteq SUBSET S
  OBVIOUS
<1> HIDE DEF B
<1>3. PICK T \in B : \A U \in B : ~(<<U, T>> \in StrictSubsetOrdering(S))
  BY <1>1, <1>2, WFMin
<1>4. \A U \in SUBSET T : U # T => U \in G
  <2> SUFFICES ASSUME NEW U \in SUBSET T, U # T, U \notin G PROVE FALSE
    OBVIOUS
  <2>1. U \in B /\ T \in SUBSET S
    BY DEF B
  <2>2. <<U, T>> \in StrictSubsetOrdering(S)
    BY <2>1 DEF StrictSubsetOrdering
  <2> QED
    BY <2>1, <2>2, <1>3
<1> QED
  BY <1>3, <1>4 DEF B

\* The sums over the sets of D, each from the sum of a smaller one.
pickIn(s) == CHOOSE x \in s : TRUE
SumsOn(f, D, g) ==
  g = [s \in D |-> IF s = {} THEN 0 ELSE f[pickIn(s)] + g[s \ {pickIn(s)}]]

upTo(S, n) == {s \in SUBSET S : Cardinality(s) <= n}

LEMMA SumsExist ==
  ASSUME NEW S, IsFiniteSet(S), NEW f
  PROVE  \E g : SumsOn(f, SUBSET S, g)
<1> DEFINE B == {n \in Nat : ~\E g : SumsOn(f, upTo(S, n), g)}
<1>0. \A s \in SUBSET S : /\ Cardinality(s) \in Nat /\ (Cardinality(s) = 0 <=> s = {})
                          /\ Cardinality(s) <= Cardinality(S)
                          /\ s # {} => /\ pickIn(s) \in s
                                       /\ Cardinality(s \ {pickIn(s)}) = Cardinality(s) - 1
  <2> SUFFICES ASSUME NEW s \in SUBSET S
               PROVE /\ Cardinality(s) \in Nat /\ (Cardinality(s) = 0 <=> s = {})
                     /\ Cardinality(s) <= Cardinality(S)
                     /\ s # {} => /\ pickIn(s) \in s
                                  /\ Cardinality(s \ {pickIn(s)}) = Cardinality(s) - 1
    OBVIOUS
  <2>1. IsFiniteSet(s) /\ Cardinality(s) <= Cardinality(S)
    BY FS_Subset
  <2>2. s # {} => pickIn(s) \in s
    BY DEF pickIn
  <2>3. s # {} => Cardinality(s \ {pickIn(s)}) = Cardinality(s) - 1
    BY <2>1, <2>2, FS_RemoveElement
  <2> QED
    BY <2>1, <2>2, <2>3, FS_CardinalityType, FS_EmptySet
<1>0a. \A s \in SUBSET S : Cardinality(s) \in Nat /\ (Cardinality(s) = 0 <=> s = {})
  BY <1>0
<1>0b. \A s \in SUBSET S : s # {} => pickIn(s) \in s /\ Cardinality(s \ {pickIn(s)}) = Cardinality(s) - 1
  BY <1>0
<1>1. B = {}
  <2> SUFFICES ASSUME B # {} PROVE FALSE
    OBVIOUS
  <2>1. IsWellFoundedOn({ss \in Nat \X Nat : ss[1] < ss[2]}, Nat)
    BY NatLessThanWellFounded DEF OpToRel
  <2>2. B \subseteq Nat
    OBVIOUS
  <2>3. PICK n \in B : \A m \in B : ~(<<m, n>> \in {ss \in Nat \X Nat : ss[1] < ss[2]})
    <3> HIDE DEF B
    <3> QED
      BY <2>1, <2>2, WFMin
  <2>4. CASE n = 0
    <3> DEFINE g == [s \in upTo(S, 0) |-> 0]
    <3>1. \A s \in upTo(S, 0) : s = {}
      <4> SUFFICES ASSUME NEW s \in SUBSET S, Cardinality(s) <= 0 PROVE s = {}
        BY DEF upTo
      <4> QED
        BY <1>0a
    <3>2. SumsOn(f, upTo(S, 0), g)
      BY <3>1 DEF SumsOn
    <3> QED
      BY <2>4, <3>2
  <2>5. CASE n # 0
    <3>1. n - 1 \in Nat /\ n - 1 < n
      BY <2>5
    <3>2. PICK g : SumsOn(f, upTo(S, n - 1), g)
      BY <3>1, <2>3
    <3> DEFINE h == [s \in upTo(S, n) |->
                       IF s = {} THEN 0 ELSE f[pickIn(s)] + g[s \ {pickIn(s)}]]
    <3>3. \A s \in upTo(S, n) : s # {} => s \ {pickIn(s)} \in upTo(S, n - 1)
      BY <1>0 DEF upTo
    <3>4. \A s \in upTo(S, n - 1) : s \in upTo(S, n) /\ g[s] = h[s]
      <4>1. upTo(S, n - 1) \subseteq upTo(S, n)
        <5> SUFFICES ASSUME NEW s \in SUBSET S, Cardinality(s) <= n - 1 PROVE Cardinality(s) <= n
          BY DEF upTo
        <5> QED
          BY <1>0a, <3>1
      <4> QED
        BY <3>2, <4>1 DEF SumsOn
    <3>5. h = [s \in upTo(S, n) |-> IF s = {} THEN 0 ELSE f[pickIn(s)] + h[s \ {pickIn(s)}]]
      <4> HIDE DEF h
      <4>1. \A s \in upTo(S, n) : s # {} => g[s \ {pickIn(s)}] = h[s \ {pickIn(s)}]
        BY <3>3, <3>4
      <4> QED
        BY <4>1 DEF h
    <3> QED
      BY <3>5 DEF SumsOn
  <2> QED
    BY <2>4, <2>5
<1>2. Cardinality(S) \in Nat /\ upTo(S, Cardinality(S)) = SUBSET S
  BY <1>0 DEF upTo
<1>3. \E g : SumsOn(f, upTo(S, Cardinality(S)), g)
  BY <1>1, <1>2
<1> QED
  BY <1>2, <1>3, Zenon

sum(f, S) == MapThenSumSet(LAMBDA x : f[x], S)
Sums(f, S) == CHOOSE g : SumsOn(f, SUBSET S, g)

LEMMA SumIs ==
  ASSUME NEW S, NEW f
  PROVE  sum(f, S) = Sums(f, S)[S]
BY DEF sum, Sums, SumsOn, pickIn, MapThenSumSet, MapThenFoldSet

\* What the sums of a function with natural values are.
LEMMA SumsFact ==
  ASSUME NEW S, IsFiniteSet(S), NEW f
  PROVE  /\ Sums(f, S)[{}] = 0
         /\ \A s \in SUBSET S : s # {} =>
              /\ pickIn(s) \in s
              /\ Sums(f, S)[s] = f[pickIn(s)] + Sums(f, S)[s \ {pickIn(s)}]
<1>1. SumsOn(f, SUBSET S, Sums(f, S))
  BY SumsExist DEF Sums
<1>2. \A s : s # {} => pickIn(s) \in s
  BY DEF pickIn
<1> HIDE DEF Sums, pickIn
<1> QED
  BY <1>1, <1>2 DEF SumsOn

Summable(f, S) == IsFiniteSet(S) /\ \A x \in S : f[x] \in Nat

\* A sum may be taken in any order.
LEMMA SumsSplit ==
  ASSUME NEW S, NEW f, Summable(f, S)
  PROVE  \A s \in SUBSET S :
           /\ Sums(f, S)[s] \in Nat
           /\ \A x \in s : Sums(f, S)[s] = f[x] + Sums(f, S)[s \ {x}]
<1>0. IsFiniteSet(S) /\ \A x \in S : f[x] \in Nat
  BY DEF Summable
<1> DEFINE g == Sums(f, S)
           good(s) == g[s] \in Nat /\ \A x \in s : g[s] = f[x] + g[s \ {x}]
           G == {s \in SUBSET S : good(s)}
<1>1. /\ g[{}] = 0
      /\ \A s \in SUBSET S : s # {} => pickIn(s) \in s /\ g[s] = f[pickIn(s)] + g[s \ {pickIn(s)}]
  BY <1>0, SumsFact
<1>2. ASSUME NEW T \in SUBSET S, \A U \in SUBSET T : U # T => U \in G
      PROVE  T \in G
  <2>1. CASE T = {}
    BY <1>1, <2>1
  <2>2. CASE T # {}
    <3> DEFINE y == pickIn(T)
    <3>1. y \in T /\ g[T] = f[y] + g[T \ {y}] /\ f[y] \in Nat
      BY <1>0, <1>1, <2>2
    <3>2. \A x \in T : good(T \ {x})
      BY <1>2
    <3>3. g[T] \in Nat
      <4>1. g[T \ {y}] \in Nat
        BY <3>1, <3>2
      <4> HIDE DEF g, y
      <4> QED
        BY <3>1, <4>1
    <3>4. ASSUME NEW x \in T, x # y
          PROVE  g[T] = f[x] + g[T \ {x}]
      <4>1. /\ g[T \ {y}] = f[x] + g[(T \ {y}) \ {x}]
            /\ g[T \ {x}] = f[y] + g[(T \ {x}) \ {y}]
        BY <3>1, <3>2, <3>4
      <4>2. (T \ {y}) \ {x} = (T \ {x}) \ {y}
        OBVIOUS
      <4>3. g[(T \ {x}) \ {y}] \in Nat
        BY <3>1, <1>2
      <4>4. f[x] \in Nat /\ f[y] \in Nat
        BY <1>0, <3>1
      <4> DEFINE c == g[(T \ {x}) \ {y}]
      <4>5. /\ g[T] = f[y] + (f[x] + c)
            /\ g[T \ {x}] = f[y] + c
        <5> HIDE DEF g, y
        <5> QED
          BY <3>1, <4>1, <4>2, Zenon
      <4> HIDE DEF g, y, c
      <4> QED
        BY <4>3, <4>4, <4>5 DEF c
    <3>5. good(T)
      <4> HIDE DEF g
      <4> QED
        BY <3>1, <3>3, <3>4
    <3> QED
      BY <3>5
  <2> QED
    BY <2>1, <2>2
<1>3. SUBSET S \subseteq G
  <2> HIDE DEF G
  <2> QED
    BY <1>0, <1>2, SubsetInduction
<1> QED
  BY <1>3
LEMMA SumNat ==
  ASSUME NEW S, NEW f, Summable(f, S)
  PROVE  sum(f, S) \in Nat
BY SumIs, SumsSplit

LEMMA SumMember ==
  ASSUME NEW S, NEW f, Summable(f, S), NEW x \in S
  PROVE  f[x] <= sum(f, S)
<1>1. /\ Sums(f, S)[S] = f[x] + Sums(f, S)[S \ {x}]
      /\ Sums(f, S)[S \ {x}] \in Nat
  BY SumsSplit
<1>2. f[x] \in Nat
  BY DEF Summable
<1> QED
  BY <1>1, <1>2, SumIs

\* Where two functions agree, and where one is below the other, so are their sums.
LEMMA SumsCompared ==
  ASSUME NEW S, NEW f, NEW h, Summable(f, S), Summable(h, S)
  PROVE  \A s \in SUBSET S :
           /\ (\A x \in s : f[x] <= h[x]) => Sums(f, S)[s] <= Sums(h, S)[s]
           /\ (\A x \in s : f[x] = h[x]) => Sums(f, S)[s] = Sums(h, S)[s]
<1> DEFINE F == Sums(f, S)
           H == Sums(h, S)
           below(s) == (\A x \in s : f[x] <= h[x]) => F[s] <= H[s]
           same(s) == (\A x \in s : f[x] = h[x]) => F[s] = H[s]
           G == {s \in SUBSET S : below(s) /\ same(s)}
<1>1. /\ F[{}] = 0 /\ H[{}] = 0
      /\ \A s \in SUBSET S : s # {} =>
           /\ pickIn(s) \in s
           /\ F[s] = f[pickIn(s)] + F[s \ {pickIn(s)}]
           /\ H[s] = h[pickIn(s)] + H[s \ {pickIn(s)}]
  BY SumsFact DEF Summable
<1>2. \A s \in SUBSET S : F[s] \in Nat /\ H[s] \in Nat
  BY SumsSplit
<1> HIDE DEF F, H
<1>3. ASSUME NEW T \in SUBSET S, \A U \in SUBSET T : U # T => U \in G
      PROVE  T \in G
  <2>1. CASE T = {}
    <3>1. F[T] = 0 /\ H[T] = 0
      BY <1>1, <2>1
    <3> QED
      BY <3>1
  <2>2. CASE T # {}
    <3> DEFINE y == pickIn(T)
    <3>1. y \in T /\ F[T] = f[y] + F[T \ {y}] /\ H[T] = h[y] + H[T \ {y}]
      BY <1>1, <2>2
    <3>2. T \ {y} \in G
      BY <1>3, <3>1
    <3>3. f[y] \in Nat /\ h[y] \in Nat /\ F[T \ {y}] \in Nat /\ H[T \ {y}] \in Nat
      BY <3>1, <1>2 DEF Summable
    <3> HIDE DEF y
    <3>4. ASSUME \A x \in T : f[x] <= h[x]  PROVE F[T] <= H[T]
      <4>1. F[T \ {y}] <= H[T \ {y}] /\ f[y] <= h[y]
        BY <3>1, <3>2, <3>4
      <4> QED
        BY <3>1, <3>3, <4>1
    <3>5. ASSUME \A x \in T : f[x] = h[x]  PROVE F[T] = H[T]
      <4>1. F[T \ {y}] = H[T \ {y}] /\ f[y] = h[y]
        BY <3>1, <3>2, <3>5
      <4> QED
        BY <3>1, <3>3, <4>1
    <3> QED
      BY <3>4, <3>5
  <2> QED
    BY <2>1, <2>2
<1>4. SUBSET S \subseteq G
  <2> HIDE DEF G
  <2> QED
    BY <1>3, SubsetInduction DEF Summable
<1> QED
  BY <1>4 DEF F, H

LEMMA SumMonotone ==
  ASSUME NEW S, NEW f, NEW h, Summable(f, S), Summable(h, S), \A x \in S : f[x] <= h[x]
  PROVE  sum(f, S) <= sum(h, S)
BY SumsCompared, SumIs

\* One value changes.
LEMMA SumUpdate ==
  ASSUME NEW S, NEW f, NEW h, Summable(f, S), Summable(h, S), NEW x \in S,
         \A y \in S \ {x} : h[y] = f[y]
  PROVE  sum(h, S) = sum(f, S) - f[x] + h[x]
<1>1. Sums(f, S)[S \ {x}] = Sums(h, S)[S \ {x}]
  BY SumsCompared
<1>2. /\ Sums(f, S)[S] = f[x] + Sums(f, S)[S \ {x}]
      /\ Sums(h, S)[S] = h[x] + Sums(h, S)[S \ {x}]
      /\ Sums(f, S)[S \ {x}] \in Nat
  BY SumsSplit
<1>3. f[x] \in Nat /\ h[x] \in Nat
  BY DEF Summable
<1> QED
  BY <1>1, <1>2, <1>3, SumIs

\* The sum of a constant, as a bound.
LEMMA SumBounded ==
  ASSUME NEW S, NEW f, Summable(f, S), NEW m \in Nat, \A x \in S : f[x] <= m
  PROVE  sum(f, S) <= Cardinality(S) * m
<1> DEFINE F == Sums(f, S)
           G == {s \in SUBSET S : F[s] <= Cardinality(s) * m}
<1>1. F[{}] = 0 /\ Cardinality({}) = 0
  BY SumsFact, FS_EmptySet DEF Summable
<1>2. \A s \in SUBSET S : F[s] \in Nat /\ \A x \in s : F[s] = f[x] + F[s \ {x}]
  BY SumsSplit
<1> HIDE DEF F
<1>3. ASSUME NEW T \in SUBSET S, \A U \in SUBSET T : U # T => U \in G
      PROVE  T \in G
  <2>1. CASE T = {}
    <3>1. F[T] = 0 /\ Cardinality(T) * m = 0
      BY <1>1, <2>1
    <3> QED
      BY <3>1
  <2>2. CASE T # {}
    <3>1. PICK y \in T : TRUE
      BY <2>2
    <3>2. T \ {y} \in G /\ F[T] = f[y] + F[T \ {y}] /\ F[T \ {y}] \in Nat
      BY <1>2, <1>3
    <3>3. /\ Cardinality(T \ {y}) = Cardinality(T) - 1
          /\ Cardinality(T) \in Nat
      BY FS_Subset, FS_RemoveElement, FS_CardinalityType DEF Summable
    <3>4. f[y] \in Nat /\ f[y] <= m
      BY DEF Summable
    <3>5. F[T \ {y}] <= (Cardinality(T) - 1) * m
      BY <3>2, <3>3
    <3>6. (Cardinality(T) - 1) * m = Cardinality(T) * m - m
      BY <3>3
    <3>7. Cardinality(T) * m \in Nat
      BY <3>3
    <3> QED
      BY <3>2, <3>4, <3>5, <3>6, <3>7
  <2> QED
    BY <2>1, <2>2
<1>4. SUBSET S \subseteq G
  <2> HIDE DEF G
  <2> QED
    BY <1>3, SubsetInduction DEF Summable
<1> QED
  BY <1>4, SumIs DEF F

\* Solutions of the recursive equation on smaller and larger domains agree.
LEMMA SumsUnique ==
  ASSUME NEW S, IsFiniteSet(S), NEW f, NEW U \in SUBSET S
  PROVE  \A s \in SUBSET U : Sums(f, U)[s] = Sums(f, S)[s]
<1> DEFINE F == Sums(f, U)
           H == Sums(f, S)
           G == {s \in SUBSET U : F[s] = H[s]}
<1>0. IsFiniteSet(U)
  BY FS_Subset
<1>1. /\ F[{}] = 0 /\ H[{}] = 0
      /\ \A s \in SUBSET U : s # {} => /\ pickIn(s) \in s
                                       /\ F[s] = f[pickIn(s)] + F[s \ {pickIn(s)}]
                                       /\ H[s] = f[pickIn(s)] + H[s \ {pickIn(s)}]
  BY <1>0, SumsFact
<1> HIDE DEF F, H
<1>2. ASSUME NEW T \in SUBSET U, \A V \in SUBSET T : V # T => V \in G
      PROVE  T \in G
  <2>1. CASE T = {}
    BY <1>1, <2>1
  <2>2. CASE T # {}
    BY <1>1, <1>2, <2>2
  <2> QED
    BY <2>1, <2>2
<1>3. SUBSET U \subseteq G
  <2> HIDE DEF G
  <2> QED
    BY <1>0, <1>2, SubsetInduction
<1> QED
  BY <1>3 DEF F, H

LEMMA SumEmpty == ASSUME NEW f PROVE sum(f, {}) = 0
BY SumIs, SumsFact, FS_EmptySet

\* One element is taken out.
LEMMA SumSplit ==
  ASSUME NEW S, NEW f, Summable(f, S), NEW x \in S
  PROVE  sum(f, S) = f[x] + sum(f, S \ {x})
<1>1. Sums(f, S)[S] = f[x] + Sums(f, S)[S \ {x}]
  BY SumsSplit
<1>2. Sums(f, S \ {x})[S \ {x}] = Sums(f, S)[S \ {x}]
  BY SumsUnique DEF Summable
<1> QED
  BY <1>1, <1>2, SumIs

\* One element is put in.
LEMMA SumAdd ==
  ASSUME NEW S, NEW f, NEW x, x \notin S, Summable(f, S \cup {x})
  PROVE  sum(f, S \cup {x}) = f[x] + sum(f, S)
<1>1. (S \cup {x}) \ {x} = S
  OBVIOUS
<1> QED
  BY <1>1, SumSplit

\* Where two functions agree, so do their sums.
LEMMA SumSame ==
  ASSUME NEW S, NEW f, NEW h, Summable(f, S), Summable(h, S), \A x \in S : f[x] = h[x]
  PROVE  sum(f, S) = sum(h, S)
BY SumsCompared, SumIs

\* A larger set has the larger sum.
LEMMA SumSubset ==
  ASSUME NEW S, NEW f, Summable(f, S), NEW U \in SUBSET S
  PROVE  sum(f, U) <= sum(f, S) /\ sum(f, U) \in Nat /\ sum(f, S) \in Nat
<1> DEFINE G == {T \in SUBSET S : U \subseteq T => sum(f, U) <= sum(f, T)}
<1>0. \A T \in SUBSET S : Summable(f, T)
  BY FS_Subset DEF Summable
<1>1. \A T \in SUBSET S : sum(f, T) \in Nat
  BY <1>0, SumNat
<1>2. ASSUME NEW T \in SUBSET S, \A V \in SUBSET T : V # T => V \in G
      PROVE  T \in G
  <2> SUFFICES ASSUME U \subseteq T, U # T PROVE sum(f, U) <= sum(f, T)
    BY <1>1
  <2>1. PICK x \in T : x \notin U
    OBVIOUS
  <2>2. sum(f, T) = f[x] + sum(f, T \ {x}) /\ f[x] \in Nat
    BY <1>0, SumSplit DEF Summable
  <2>3. sum(f, U) <= sum(f, T \ {x})
    BY <1>2, <2>1
  <2>4. sum(f, T \ {x}) \in Nat /\ sum(f, U) \in Nat
    BY <1>1
  <2> QED
    BY <2>2, <2>3, <2>4
<1>3. SUBSET S \subseteq G
  <2> HIDE DEF G
  <2> QED
    BY <1>2, SubsetInduction DEF Summable
<1> QED
  BY <1>1, <1>3

\* Zeros sum to zero.
LEMMA SumOfNothing ==
  ASSUME NEW S, NEW f, IsFiniteSet(S), \A x \in S : f[x] = 0
  PROVE  sum(f, S) = 0
<1>1. Summable(f, S)
  BY DEF Summable
<1> DEFINE z == [x \in S |-> 0]
           G == {T \in SUBSET S : sum(f, T) = 0}
<1>0. \A T \in SUBSET S : Summable(f, T)
  BY <1>1, FS_Subset DEF Summable
<1>2. ASSUME NEW T \in SUBSET S, \A V \in SUBSET T : V # T => V \in G
      PROVE  T \in G
  <2>1. CASE T = {}
    BY <2>1, SumEmpty
  <2>2. CASE T # {}
    <3>1. PICK x \in T : TRUE
      BY <2>2
    <3>2. sum(f, T) = f[x] + sum(f, T \ {x}) /\ f[x] = 0
      BY <1>0, SumSplit
    <3>3. sum(f, T \ {x}) = 0
      BY <1>2
    <3> QED
      BY <3>2, <3>3
  <2> QED
    BY <2>1, <2>2
<1>3. SUBSET S \subseteq G
  <2> HIDE DEF G
  <2> QED
    BY <1>2, SubsetInduction
<1> QED
  BY <1>3

-----------------------------------------------------------------------------
(* MeteredIntake *)

\* What readers in state r, holding z, have brought or still may bring.
weights(r, z) == [i \in Readers |-> IF r[i] = "asked" THEN MaxBlock ELSE z[i]]

weight == sum(weights(read, size), Readers)

MeterTypeOK ==
  /\ phase \in {"running", "drained", "failed", "settled"}
  /\ read \in [Readers -> {"idle", "asked", "stored"}]
  /\ size \in [Readers -> 0..MaxBlock]
  /\ arrived \in Nat /\ progress \in Nat /\ charged \in Nat

\* The reads in flight are never worth more than the overshoot on top of the
\* limit, or of what was charged.
MeterInv ==
  /\ MeterTypeOK
  /\ \A i \in Readers : read[i] # "stored" => size[i] = 0
  /\ arrived = progress + sum(size, Readers)
  /\ phase = "running" => progress <= Limit
  /\ progress + weight <= Limit + Overshoot
  /\ phase = "settled" => progress + weight <= charged + Overshoot

\* All these sums are at most one block per reader.
LEMMA MeterSums ==
  ASSUME IntakeAssumption, NEW r, NEW z \in [Readers -> 0..MaxBlock],
         \A i \in Readers : r[i] # "stored" => z[i] = 0
  PROVE  /\ Summable(z, Readers) /\ Summable(weights(r, z), Readers)
         /\ Overshoot \in Nat
         /\ sum(z, Readers) \in Nat /\ sum(weights(r, z), Readers) \in Nat
         /\ sum(weights(r, z), Readers) <= Overshoot
         /\ sum(z, Readers) <= sum(weights(r, z), Readers)
<1>0. IsFiniteSet(Readers) /\ MaxBlock \in Nat /\ Overshoot \in Nat
  BY FS_CardinalityType DEF IntakeAssumption, Overshoot
<1>1. Summable(z, Readers) /\ Summable(weights(r, z), Readers)
  BY <1>0 DEF Summable, weights
<1>2. \A i \in Readers : weights(r, z)[i] <= MaxBlock /\ z[i] <= weights(r, z)[i]
  BY <1>0 DEF weights
<1>3. sum(weights(r, z), Readers) <= Overshoot
  BY <1>0, <1>1, <1>2, SumBounded DEF Overshoot
<1>4. sum(z, Readers) <= sum(weights(r, z), Readers)
  BY <1>1, <1>2, SumMonotone
<1> QED
  BY <1>0, <1>1, <1>3, <1>4, SumNat

\* One reader moves.
LEMMA MeterMove ==
  ASSUME IntakeAssumption, MeterTypeOK, MeterTypeOK', NEW i \in Readers,
         \A j \in Readers \ {i} : read'[j] = read[j] /\ size'[j] = size[j]
  PROVE  /\ sum(size', Readers) = sum(size, Readers) - size[i] + size'[i]
         /\ weight' = weight - weights(read, size)[i] + weights(read', size')[i]
<1>0. IsFiniteSet(Readers) /\ MaxBlock \in Nat
  BY DEF IntakeAssumption
<1>1. /\ Summable(size, Readers) /\ Summable(size', Readers)
      /\ Summable(weights(read, size), Readers) /\ Summable(weights(read', size'), Readers)
  BY <1>0 DEF MeterTypeOK, Summable, weights
<1>2. \A j \in Readers \ {i} : weights(read', size')[j] = weights(read, size)[j]
  BY DEF weights
<1> QED
  BY <1>1, <1>2, SumUpdate DEF weight

LEMMA MeterTypeStep ==
  ASSUME IntakeAssumption, MeterTypeOK, [MeterNext]_meterVars
  PROVE  MeterTypeOK'
<1> USE DEF MeterTypeOK
<1>1. CASE UNCHANGED meterVars
  BY <1>1 DEF meterVars
<1>2. CASE Drained \/ FailTransfer \/ Settle
  BY <1>2 DEF Drained, FailTransfer, Settle
<1>3. ASSUME NEW i \in Readers, Ask(i) \/ GiveUp(i)  PROVE MeterTypeOK'
  BY <1>3 DEF Ask, GiveUp
<1>4. ASSUME NEW i \in Readers, Count(i)  PROVE MeterTypeOK'
  <2>1. size[i] \in Nat /\ MaxBlock \in Nat
    BY DEF IntakeAssumption
  <2>2. progress' \in Nat /\ phase' \in {"running", "drained", "failed", "settled"}
    BY <1>4, <2>1 DEF Count
  <2> QED
    BY <1>4, <2>1, <2>2 DEF Count
<1>5. ASSUME NEW i \in Readers, NEW s \in 1..MaxBlock, Arrive(i, s)  PROVE MeterTypeOK'
  BY <1>5 DEF Arrive, IntakeAssumption
<1> QED
  BY <1>1, <1>2, <1>3, <1>4, <1>5 DEF MeterNext

\* Three ways to stay below a bound.
LEMMA Below ==
  ASSUME NEW p \in Nat, NEW w \in Nat, NEW q \in Nat, NEW v \in Nat,
         NEW l \in Nat, NEW o \in Nat
  PROVE  /\ q <= l /\ v <= o => q + v <= l + o
         /\ p = q /\ v <= w => q + v <= p + w
         /\ l = q + v => l + p = q + (v + p)
OBVIOUS

LEMMA Between ==
  ASSUME NEW x \in Nat, NEW y \in Nat, NEW z \in Nat, x <= y, y <= z
  PROVE  x <= z
OBVIOUS

LEMMA PlusNat == \A x \in Nat : \A y \in Nat : x + y \in Nat
OBVIOUS

LEMMA MeterStep ==
  ASSUME IntakeAssumption, MeterInv, [MeterNext]_meterVars
  PROVE  MeterInv'
<1>0. /\ MeterTypeOK /\ MeterTypeOK' /\ Limit \in Nat /\ MaxBlock \in Nat
  BY MeterTypeStep DEF MeterInv, IntakeAssumption
<1>1. \A i \in Readers : read'[i] # "stored" => size'[i] = 0
  <2> USE DEF MeterInv, MeterTypeOK
  <2>1. CASE UNCHANGED meterVars
    BY <2>1 DEF meterVars
  <2>2. CASE Drained \/ FailTransfer \/ Settle
    BY <2>2 DEF Drained, FailTransfer, Settle
  <2>3. ASSUME NEW i \in Readers, Ask(i) \/ GiveUp(i) \/ Count(i) \/ \E s \in 1..MaxBlock : Arrive(i, s)
        PROVE  \A j \in Readers : read'[j] # "stored" => size'[j] = 0
    BY <2>3 DEF Ask, GiveUp, Count, Arrive
  <2> QED
    BY <2>1, <2>2, <2>3 DEF MeterNext
<1>2. /\ phase \in {"running", "drained", "failed", "settled"}
      /\ arrived \in Nat /\ progress \in Nat /\ charged \in Nat
      /\ arrived' \in Nat /\ progress' \in Nat /\ charged' \in Nat
  BY <1>0 DEF MeterTypeOK
<1>3. /\ Overshoot \in Nat /\ sum(size, Readers) \in Nat /\ weight \in Nat /\ weight <= Overshoot
      /\ sum(size', Readers) \in Nat /\ weight' \in Nat /\ weight' <= Overshoot
  BY <1>0, <1>1, MeterSums DEF MeterInv, MeterTypeOK, weight
<1>4. /\ arrived = progress + sum(size, Readers)
      /\ phase = "running" => progress <= Limit
      /\ progress + weight <= Limit + Overshoot
      /\ phase = "settled" => progress + weight <= charged + Overshoot
  BY DEF MeterInv
<1>a. /\ progress + weight \in Nat /\ progress' + weight' \in Nat
      /\ Limit + Overshoot \in Nat /\ charged + Overshoot \in Nat
  BY <1>0, <1>2, <1>3, PlusNat, Zenon
<1>b. progress' + weight' <= progress + weight => progress' + weight' <= Limit + Overshoot
  BY <1>4, <1>a, Between, Zenon
<1>c. phase = "settled" /\ progress' + weight' <= progress + weight
      => progress' + weight' <= charged + Overshoot
  BY <1>4, <1>a, Between, Zenon
<1>5. SUFFICES /\ arrived' = progress' + sum(size', Readers)
               /\ phase' = "running" => progress' <= Limit
               /\ progress' + weight' <= Limit + Overshoot
               /\ phase' = "settled" => progress' + weight' <= charged' + Overshoot
  BY <1>0, <1>1 DEF MeterInv
<1>6. CASE UNCHANGED meterVars
  BY <1>4, <1>6 DEF meterVars, weight
<1>7. CASE Drained \/ FailTransfer \/ Settle
  <2>1. /\ UNCHANGED <<arrived, progress>> /\ weight' = weight
        /\ sum(size', Readers) = sum(size, Readers)
    BY <1>7 DEF Drained, FailTransfer, Settle, weight
  <2>2. phase' # "running" /\ (phase' = "settled" => charged' = progress)
    BY <1>7 DEF Drained, FailTransfer, Settle
  <2>3. arrived' = progress' + sum(size', Readers)
    BY <1>4, <2>1
  <2>4. progress' + weight' <= Limit + Overshoot
    BY <1>4, <2>1
  <2>5. phase' = "settled" => progress' + weight' <= charged' + Overshoot
    BY <1>2, <1>3, <2>1, <2>2
  <2> QED
    BY <2>2, <2>3, <2>4, <2>5
<1>8. ASSUME NEW i \in Readers, Ask(i)  PROVE /\ UNCHANGED <<arrived, progress>> /\ phase = "running" /\ phase' = "running"
                                            /\ sum(size', Readers) = sum(size, Readers)
  BY <1>8 DEF Ask
<1>9. ASSUME NEW i \in Readers, GiveUp(i)
      PROVE  /\ UNCHANGED <<arrived, progress, charged, phase>>
             /\ sum(size', Readers) = sum(size, Readers)
             /\ weight' <= weight /\ phase # "running"
  <2>1. /\ read[i] = "asked" /\ read'[i] = "idle" /\ size' = size
        /\ \A j \in Readers \ {i} : read'[j] = read[j] /\ size'[j] = size[j]
        /\ UNCHANGED <<arrived, progress, charged, phase>> /\ phase # "running"
    BY <1>0, <1>9 DEF GiveUp, MeterTypeOK
  <2>2. weight' = weight - weights(read, size)[i] + weights(read', size')[i]
    BY <1>0, <2>1, MeterMove
  <2>3. weights(read, size)[i] = MaxBlock /\ weights(read', size')[i] = 0
    BY <1>1, <2>1 DEF weights
  <2> QED
    BY <1>0, <1>3, <2>1, <2>2, <2>3
<1>10. ASSUME NEW i \in Readers, Count(i)
       PROVE  /\ UNCHANGED <<arrived, charged>>
              /\ phase' = "running" => progress' <= Limit
              /\ phase' = "settled" => phase = "settled"
              /\ progress' + weight' = progress + weight
              /\ progress' + sum(size', Readers) = progress + sum(size, Readers)
  <2>1. /\ read[i] = "stored" /\ read'[i] = "idle" /\ size'[i] = 0
        /\ \A j \in Readers \ {i} : read'[j] = read[j] /\ size'[j] = size[j]
        /\ UNCHANGED <<arrived, charged>> /\ progress' = progress + size[i] /\ size[i] \in Nat
    BY <1>0, <1>10 DEF Count, MeterTypeOK
  <2>2. /\ weight' = weight - weights(read, size)[i] + weights(read', size')[i]
        /\ sum(size', Readers) = sum(size, Readers) - size[i] + size'[i]
    BY <1>0, <2>1, MeterMove
  <2>3. weights(read, size)[i] = size[i] /\ weights(read', size')[i] = 0
    BY <2>1 DEF weights
  <2>4. /\ phase' = "running" => progress' <= Limit
        /\ phase' = "settled" => phase = "settled"
    BY <1>0, <1>2, <1>10 DEF Count
  <2> QED
    BY <1>2, <1>3, <2>1, <2>2, <2>3, <2>4
<1>11. ASSUME NEW i \in Readers, NEW s \in 1..MaxBlock, Arrive(i, s)
       PROVE  /\ UNCHANGED <<progress, charged, phase>>
              /\ arrived' = arrived + s /\ sum(size', Readers) = sum(size, Readers) + s
              /\ weight' <= weight
  <2>1. /\ read[i] = "asked" /\ read'[i] = "stored" /\ size'[i] = s /\ size[i] = 0
        /\ \A j \in Readers \ {i} : read'[j] = read[j] /\ size'[j] = size[j]
        /\ UNCHANGED <<progress, charged, phase>> /\ arrived' = arrived + s
    BY <1>0, <1>11 DEF Arrive, MeterTypeOK, MeterInv
  <2>2. /\ weight' = weight - weights(read, size)[i] + weights(read', size')[i]
        /\ sum(size', Readers) = sum(size, Readers) - size[i] + size'[i]
    BY <1>0, <2>1, MeterMove
  <2>3. weights(read, size)[i] = MaxBlock /\ weights(read', size')[i] = s
    BY <2>1 DEF weights
  <2> QED
    BY <1>0, <1>3, <2>1, <2>2, <2>3
<1>12. CASE \E i \in Readers : Ask(i)
  <2>1. /\ UNCHANGED <<arrived, progress>> /\ phase = "running" /\ phase' = "running"
        /\ sum(size', Readers) = sum(size, Readers)
    BY <1>8, <1>12
  <2>2. progress' <= Limit
    BY <1>4, <2>1
  <2>3. progress' + weight' <= Limit + Overshoot
    BY <1>0, <1>2, <1>3, <2>2, Below
  <2> QED
    BY <1>4, <2>1, <2>2, <2>3
<1>13. CASE \E i \in Readers : GiveUp(i)
  <2>1. /\ UNCHANGED <<arrived, progress, charged, phase>>
        /\ sum(size', Readers) = sum(size, Readers)
        /\ weight' <= weight
    BY <1>9, <1>13
  <2>2. progress' + weight' <= progress + weight
    BY <1>2, <1>3, <2>1, Below
  <2>3. progress' + weight' <= Limit + Overshoot
    BY <2>2, <1>b
  <2>4. phase' = "settled" => progress' + weight' <= charged' + Overshoot
    <3>1. charged' = charged /\ phase' = phase
      BY <2>1
    <3> QED
      BY <2>2, <3>1, <1>c
  <2> QED
    BY <1>4, <2>1, <2>3, <2>4
<1>14. CASE \E i \in Readers : Count(i)
  BY <1>0, <1>2, <1>3, <1>4, <1>10, <1>14
<1>15. CASE \E i \in Readers : \E s \in 1..MaxBlock : Arrive(i, s)
  <2>1. PICK i \in Readers, s \in 1..MaxBlock : Arrive(i, s)
    BY <1>15
  <2>2. /\ UNCHANGED <<progress, charged, phase>>
        /\ arrived' = arrived + s /\ sum(size', Readers) = sum(size, Readers) + s
        /\ weight' <= weight /\ s \in Nat
    BY <1>0, <1>11, <2>1
  <2>3. progress' + weight' <= progress + weight
    BY <1>2, <1>3, <2>2, Below
  <2>4. arrived' = progress' + sum(size', Readers)
    BY <1>2, <1>3, <1>4, <2>2
  <2>5. /\ phase' = "running" => progress' <= Limit
        /\ phase' = "settled" => phase = "settled" /\ charged' = charged
    BY <1>4, <2>2
  <2>6. progress' + weight' <= Limit + Overshoot
    BY <2>3, <1>b
  <2>7. phase' = "settled" => progress' + weight' <= charged' + Overshoot
    BY <2>3, <2>5, <1>c
  <2> QED
    BY <2>4, <2>5, <2>6, <2>7
<1> QED
  BY <1>6, <1>7, <1>12, <1>13, <1>14, <1>15 DEF MeterNext

LEMMA MeterInitially == ASSUME IntakeAssumption, MeterInit PROVE MeterInv
<1>1. MeterTypeOK /\ Limit \in Nat
  BY DEF MeterInit, MeterTypeOK, IntakeAssumption
<1>2. \A i \in Readers : read[i] = "idle" /\ size[i] = 0 /\ weights(read, size)[i] = 0
  BY DEF MeterInit, weights
<1>3. /\ Summable(size, Readers) /\ Summable(weights(read, size), Readers)
      /\ Overshoot \in Nat
      /\ sum(size, Readers) \in Nat /\ weight \in Nat
  BY <1>1, <1>2, MeterSums DEF MeterTypeOK, weight
<1>4. sum(size, Readers) <= Cardinality(Readers) * 0 /\ weight <= Cardinality(Readers) * 0
  BY <1>2, <1>3, SumBounded DEF weight
<1>5. Cardinality(Readers) * 0 = 0
  BY FS_CardinalityType DEF IntakeAssumption
<1>6. sum(size, Readers) = 0 /\ weight = 0
  BY <1>3, <1>4, <1>5
<1> QED
  BY <1>1, <1>2, <1>3, <1>6 DEF MeterInv, MeterInit

LEMMA MeterBounds ==
  ASSUME IntakeAssumption, MeterInv
  PROVE  OvershootBounded /\ PaidUpToInFlight
<1>1. /\ sum(size, Readers) <= weight
      /\ sum(size, Readers) \in Nat /\ weight \in Nat /\ Overshoot \in Nat
  BY MeterSums DEF MeterInv, MeterTypeOK, weight
<1>2. arrived \in Nat /\ progress \in Nat /\ charged \in Nat /\ Limit \in Nat
  BY DEF MeterInv, MeterTypeOK, IntakeAssumption
<1> QED
  BY <1>1, <1>2 DEF MeterInv, OvershootBounded, PaidUpToInFlight

\* meter.ts 34-43 and 62-65, service.ts 885-892: whatever readers, block sizes and
\* limit, what one transfer brings exceeds its limit by no more than the reads in
\* flight, and neither does what came in exceed what its peer was charged.
THEOREM TransferBounded ==
  ASSUME IntakeAssumption
  PROVE  MeterSpec => [](OvershootBounded /\ PaidUpToInFlight)
<1>1. MeterInit => MeterInv
  BY MeterInitially
<1>2. MeterInv /\ [MeterNext]_meterVars => MeterInv'
  BY MeterStep
<1>3. MeterInv => OvershootBounded /\ PaidUpToInFlight
  BY MeterBounds
<1> QED
  BY <1>1, <1>2, <1>3, PTL DEF MeterSpec

-----------------------------------------------------------------------------
(* BlockSessions *)

SessionsTypeOK ==
  /\ BlockOf \in [Sessions -> [Puts -> Blocks]] /\ Stored \in SUBSET Blocks
  /\ overtaken \in BOOLEAN
  /\ disk \in SUBSET Blocks /\ pinned \in SUBSET SUBSET Blocks
  /\ inFlight \in [Blocks -> Int]
  /\ handler \in [Sessions -> {"idle", "importing", "handling", "pinned", "done"}]
  /\ session \in [Sessions -> {"open", "claimed", "settled"}]
  /\ createdPin \in [Sessions -> BOOLEAN]
  /\ put \in [Sessions -> [Puts -> {"none", "asked", "storing", "done"}]]
  /\ existed \in [Sessions -> SUBSET Puts]
  /\ touched \in [Sessions -> SUBSET Blocks] /\ created \in [Sessions -> SUBSET Blocks]
  /\ releasable \in [Sessions -> SUBSET Blocks] /\ seen \in [Sessions -> SUBSET Blocks]
  /\ check \in [Sessions -> Blocks \cup {None}] /\ delete \in [Sessions -> Blocks \cup {None}]

holders(b) == {s \in Sessions : b \in touched[s]}

\* Where the handler is tells the state of its session; a claimed one has
\* imported everything.
HandlerOwns ==
  \A s \in Sessions :
    /\ session[s] = "open" <=> handler[s] \in {"idle", "importing"}
    /\ session[s] = "claimed" <=> handler[s] \in {"handling", "pinned"}
    /\ session[s] = "claimed" => \A i \in Puts : put[s][i] = "done"

\* A put of an older block knows that the block was there, so no session calls
\* it its own.
OldRecognised ==
  /\ Stored \subseteq disk
  /\ \A s \in Sessions : /\ created[s] \cap Stored = {}
                         /\ check[s] \notin Stored /\ delete[s] \notin Stored
  /\ \A s \in Sessions, i \in Puts :
       put[s][i] \in {"asked", "storing"} /\ BlockOf[s][i] \in Stored => i \in existed[s]

\* A live session holds what it stores, what anybody holds is not deleted, and
\* so what it has stored is on disk.
LiveHeld ==
  /\ \A s \in Sessions, i \in Puts :
       session[s] # "settled" /\ put[s][i] \in {"storing", "done"} => BlockOf[s][i] \in touched[s]
  /\ ~SlowDelete =>
       /\ \A s \in Sessions : delete[s] # None => inFlight[delete[s]] = 0
       /\ \A s \in Sessions, i \in Puts :
            session[s] # "settled" /\ put[s][i] = "done" => BlockOf[s][i] \in disk

\* No cleanup is about to delete a block of pinned content.
PinsUnchallenged ==
  ~overtaken => \A d \in pinned : /\ d \subseteq disk
                                  /\ \A s \in Sessions : check[s] \notin d /\ delete[s] \notin d

SessionsInv == /\ SessionsTypeOK /\ ReferencesCounted /\ HandlerOwns /\ OldRecognised
               /\ LiveHeld /\ PinsUnchallenged

LEMMA DagIs ==
  ASSUME SessionsTypeOK, NEW s \in Sessions
  PROVE  Dag(s) = {BlockOf[s][i] : i \in Puts} /\ Dag(s) \subseteq Blocks
BY DEF Dag, Range, SessionsTypeOK

LEMMA SessionsTypeStep ==
  ASSUME SessionAssumption, SessionsTypeOK, [SessionsNext]_sessionVars
  PROVE  SessionsTypeOK'
<1>0. BlockOf' = BlockOf /\ Stored' = Stored /\ None \notin Blocks
  BY DEF SessionsNext, sessionVars, inputs, SessionAssumption
<1>1. CASE UNCHANGED sessionVars
  BY <1>1 DEF SessionsTypeOK, sessionVars, inputs, store, request, import, cleanup
<1> USE DEF SessionsTypeOK, store, request, import, cleanup
<1>2. ASSUME NEW s \in Sessions, NEW i \in Puts, AskHas(s, i)  PROVE SessionsTypeOK'
  BY <1>0, <1>2 DEF AskHas
<1>3. ASSUME NEW s \in Sessions, NEW i \in Puts, Retain(s, i)  PROVE SessionsTypeOK'
  BY <1>0, <1>3 DEF Retain, retainBlock
<1>4. ASSUME NEW s \in Sessions, NEW i \in Puts, PutEnds(s, i)  PROVE SessionsTypeOK'
  BY <1>0, <1>4 DEF PutEnds
<1>5. ASSUME NEW s \in Sessions, Disconnect(s)  PROVE SessionsTypeOK'
  BY <1>0, <1>5 DEF Disconnect, settle, releaseAll, zeroed
<1>6. ASSUME NEW s \in Sessions, Claim(s)  PROVE SessionsTypeOK'
  BY <1>0, <1>6 DEF Claim
<1>7. ASSUME NEW s \in Sessions, Pin(s)  PROVE SessionsTypeOK'
  BY <1>0, <1>7, DagIs DEF Pin, pin
<1>8. ASSUME NEW s \in Sessions, CommitBlocks(s)  PROVE SessionsTypeOK'
  BY <1>0, <1>8 DEF CommitBlocks, releaseAll
<1>9. ASSUME NEW s \in Sessions, Fail(s)  PROVE SessionsTypeOK'
  BY <1>0, <1>9 DEF Fail, settle, releaseAll, zeroed
<1>10. ASSUME NEW s \in Sessions, IntakePin(Dag(s))  PROVE SessionsTypeOK'
  BY <1>0, <1>10, DagIs DEF IntakePin, pin
<1>11. ASSUME NEW s \in Sessions, NEW b \in Blocks, CheckPin(s, b)  PROVE SessionsTypeOK'
  BY <1>0, <1>11 DEF CheckPin
<1>12. ASSUME NEW s \in Sessions, Recheck(s) \/ DeleteBlock(s)  PROVE SessionsTypeOK'
  BY <1>0, <1>12 DEF Recheck, DeleteBlock
<1> QED
  BY <1>1, <1>2, <1>3, <1>4, <1>5, <1>6, <1>7, <1>8, <1>9, <1>10, <1>11, <1>12
  DEF SessionsNext

\* A session takes a reference, or gives all of its references back.
LEMMA ReferencesStep ==
  ASSUME SessionAssumption, SessionsTypeOK, ReferencesCounted, [SessionsNext]_sessionVars
  PROVE  ReferencesCounted'
<1>0. \A b \in Blocks : /\ IsFiniteSet(holders(b))
                        /\ inFlight[b] = Cardinality(holders(b)) /\ Cardinality(holders(b)) \in Nat
  BY FS_Subset, FS_CardinalityType DEF SessionAssumption, holders, ReferencesCounted
<1> SUFFICES \A b \in Blocks : inFlight'[b] = Cardinality(holders(b)')
  BY DEF ReferencesCounted, holders
<1>1. ASSUME touched' = touched, inFlight' = inFlight
      PROVE  \A b \in Blocks : inFlight'[b] = Cardinality(holders(b)')
  BY <1>0, <1>1 DEF holders
<1>2. ASSUME NEW s \in Sessions, NEW i \in Puts, Retain(s, i)
      PROVE  \A b \in Blocks : inFlight'[b] = Cardinality(holders(b)')
  <2> DEFINE c == BlockOf[s][i]
  <2>1. /\ c \in Blocks
        /\ inFlight' = [inFlight EXCEPT ![c] = IF c \in touched[s] THEN @ ELSE @ + 1]
        /\ touched' = [touched EXCEPT ![s] = @ \cup {c}]
    BY <1>2 DEF Retain, retainBlock, SessionsTypeOK
  <2> SUFFICES ASSUME NEW b \in Blocks PROVE inFlight'[b] = Cardinality(holders(b)')
    OBVIOUS
  <2> HIDE DEF c
  <2>2. CASE b = c /\ c \notin touched[s]
    <3>1. holders(b)' = holders(b) \cup {s} /\ s \notin holders(b)
      BY <2>1, <2>2 DEF holders, SessionsTypeOK
    <3>2. Cardinality(holders(b)') = Cardinality(holders(b)) + 1
      BY <1>0, <3>1, FS_AddElement
    <3> QED
      BY <1>0, <2>1, <2>2, <3>2 DEF SessionsTypeOK
  <2>3. CASE ~(b = c /\ c \notin touched[s])
    <3>1. holders(b)' = holders(b)
      BY <2>1, <2>3 DEF holders, SessionsTypeOK
    <3> QED
      BY <1>0, <2>1, <2>3, <3>1 DEF SessionsTypeOK
  <2> QED
    BY <2>2, <2>3
<1>3. ASSUME NEW s \in Sessions, releaseAll(s)
      PROVE  \A b \in Blocks : inFlight'[b] = Cardinality(holders(b)')
  <2> SUFFICES ASSUME NEW b \in Blocks PROVE inFlight'[b] = Cardinality(holders(b)')
    OBVIOUS
  <2>1. CASE b \in touched[s]
    <3>1. holders(b)' = holders(b) \ {s} /\ s \in holders(b)
      BY <1>3, <2>1 DEF releaseAll, holders, SessionsTypeOK
    <3>2. Cardinality(holders(b)') = Cardinality(holders(b)) - 1
      BY <1>0, <3>1, FS_RemoveElement
    <3> QED
      BY <1>0, <1>3, <2>1, <3>2 DEF releaseAll
  <2>2. CASE b \notin touched[s]
    <3>1. holders(b)' = holders(b)
      BY <1>3, <2>2 DEF releaseAll, holders, SessionsTypeOK
    <3> QED
      BY <1>0, <1>3, <2>2, <3>1 DEF releaseAll
  <2> QED
    BY <2>1, <2>2
<1>4. \/ touched' = touched /\ inFlight' = inFlight
      \/ \E s \in Sessions : releaseAll(s) \/ \E i \in Puts : Retain(s, i)
  BY DEF SessionsNext, sessionVars, store, request, import, cleanup, AskHas, PutEnds, Disconnect,
         settle, Claim, Pin, CommitBlocks, Fail, IntakePin, pin, CheckPin, Recheck, DeleteBlock
<1> QED
  BY <1>1, <1>2, <1>3, <1>4

LEMMA HandlerOwnsStep ==
  ASSUME SessionAssumption, SessionsTypeOK, HandlerOwns, [SessionsNext]_sessionVars
  PROVE  HandlerOwns'
<1>1. ASSUME UNCHANGED <<handler, session, put>>  PROVE HandlerOwns'
  BY <1>1 DEF HandlerOwns
<1> USE DEF SessionsTypeOK, HandlerOwns, request, import
<1>2. ASSUME NEW s \in Sessions, NEW i \in Puts, AskHas(s, i)  PROVE HandlerOwns'
  BY <1>2 DEF AskHas
<1>3. ASSUME NEW s \in Sessions, NEW i \in Puts, Retain(s, i)  PROVE HandlerOwns'
  BY <1>3 DEF Retain
<1>4. ASSUME NEW s \in Sessions, NEW i \in Puts, PutEnds(s, i)  PROVE HandlerOwns'
  BY <1>4 DEF PutEnds
<1>5. ASSUME NEW s \in Sessions, Disconnect(s)  PROVE HandlerOwns'
  BY <1>5 DEF Disconnect, settle, unclaimed
<1>6. ASSUME NEW s \in Sessions, Claim(s)  PROVE HandlerOwns'
  BY <1>6 DEF Claim
<1>7. ASSUME NEW s \in Sessions, Pin(s)  PROVE HandlerOwns'
  BY <1>7 DEF Pin
<1>8. ASSUME NEW s \in Sessions, CommitBlocks(s)  PROVE HandlerOwns'
  BY <1>8 DEF CommitBlocks
<1>9. ASSUME NEW s \in Sessions, Fail(s)  PROVE HandlerOwns'
  BY <1>9 DEF Fail, settle
<1>10. \/ UNCHANGED <<handler, session, put>>
       \/ \E s \in Sessions : \/ Disconnect(s) \/ Claim(s) \/ Pin(s) \/ CommitBlocks(s) \/ Fail(s)
                              \/ \E i \in Puts : AskHas(s, i) \/ Retain(s, i) \/ PutEnds(s, i)
  BY DEF SessionsNext, sessionVars, IntakePin, CheckPin, Recheck, DeleteBlock
<1> QED
  BY <1>1, <1>2, <1>3, <1>4, <1>5, <1>6, <1>7, <1>8, <1>9, <1>10

LEMMA OldRecognisedStep ==
  ASSUME SessionAssumption, SessionsTypeOK, OldRecognised, [SessionsNext]_sessionVars
  PROVE  OldRecognised'
<1>0. BlockOf' = BlockOf /\ Stored' = Stored /\ None \notin Blocks
  BY DEF SessionsNext, sessionVars, inputs, SessionAssumption
<1>1. ASSUME UNCHANGED <<put, existed, created, check, delete>>, disk \subseteq disk'
      PROVE  OldRecognised'
  BY <1>0, <1>1 DEF OldRecognised
<1> USE DEF SessionsTypeOK, OldRecognised, store, request, import, cleanup
<1>2. ASSUME NEW s \in Sessions, NEW i \in Puts, AskHas(s, i)  PROVE OldRecognised'
  BY <1>0, <1>2 DEF AskHas
<1>3. ASSUME NEW s \in Sessions, NEW i \in Puts, Retain(s, i)  PROVE OldRecognised'
  BY <1>0, <1>3 DEF Retain
<1>4. ASSUME NEW s \in Sessions, NEW i \in Puts, PutEnds(s, i)  PROVE OldRecognised'
  <2>1. /\ put' = [put EXCEPT ![s][i] = "done"] /\ put[s][i] = "storing"
        /\ UNCHANGED <<existed, check, delete>> /\ disk \subseteq disk'
    BY <1>4 DEF PutEnds
  <2>2. \A t \in Sessions : created'[t] \cap Stored = {}
    BY <1>4 DEF PutEnds, firstWrite
  <2> QED
    BY <1>0, <2>1, <2>2
<1>5. ASSUME NEW s \in Sessions, NEW b \in Blocks, CheckPin(s, b)  PROVE OldRecognised'
  BY <1>0, <1>5 DEF CheckPin
<1>6. ASSUME NEW s \in Sessions, Recheck(s)  PROVE OldRecognised'
  BY <1>0, <1>6 DEF Recheck
<1>7. ASSUME NEW s \in Sessions, DeleteBlock(s)  PROVE OldRecognised'
  BY <1>0, <1>7 DEF DeleteBlock
<1>8. \/ UNCHANGED <<put, existed, created, check, delete>> /\ disk \subseteq disk'
      \/ \E s \in Sessions : \/ Recheck(s) \/ DeleteBlock(s)
                             \/ \E b \in Blocks : CheckPin(s, b)
                             \/ \E i \in Puts : AskHas(s, i) \/ Retain(s, i) \/ PutEnds(s, i)
  BY DEF SessionsNext, sessionVars, Disconnect, settle, Claim, Pin, CommitBlocks, Fail, IntakePin
<1> QED
  BY <1>1, <1>2, <1>3, <1>4, <1>5, <1>6, <1>7, <1>8

\* A block that a session touches is held.
LEMMA TouchedHeld ==
  ASSUME SessionAssumption, SessionsTypeOK, ReferencesCounted,
         NEW s \in Sessions, NEW b \in touched[s]
  PROVE  b \in Blocks /\ inFlight[b] # 0
<1>1. b \in Blocks /\ s \in holders(b) /\ IsFiniteSet(holders(b))
  BY FS_Subset DEF SessionsTypeOK, holders, SessionAssumption
<1>2. Cardinality(holders(b)) # 0
  BY <1>1, FS_EmptySet
<1> QED
  BY <1>1, <1>2 DEF ReferencesCounted, holders

LEMMA LiveHeldStep ==
  ASSUME SessionAssumption, SessionsTypeOK, ReferencesCounted, HandlerOwns, LiveHeld,
         [SessionsNext]_sessionVars
  PROVE  LiveHeld'
<1>0. BlockOf' = BlockOf /\ None \notin Blocks /\ SessionsTypeOK'
  BY SessionsTypeStep DEF SessionsNext, sessionVars, inputs, SessionAssumption
<1> USE DEF SessionsTypeOK, store, request, import, cleanup
\* what is held
<1>1. \A s \in Sessions, i \in Puts :
        session'[s] # "settled" /\ put'[s][i] \in {"storing", "done"} => BlockOf[s][i] \in touched'[s]
  <2>1. ASSUME UNCHANGED <<session, put, touched>>
        PROVE  \A s \in Sessions, i \in Puts :
                 session'[s] # "settled" /\ put'[s][i] \in {"storing", "done"} => BlockOf[s][i] \in touched'[s]
    BY <2>1 DEF LiveHeld
  <2>2. ASSUME NEW t \in Sessions, NEW j \in Puts, AskHas(t, j) \/ Retain(t, j) \/ PutEnds(t, j)
        PROVE  \A s \in Sessions, i \in Puts :
                 session'[s] # "settled" /\ put'[s][i] \in {"storing", "done"} => BlockOf[s][i] \in touched'[s]
    <3>1. ASSUME AskHas(t, j)
          PROVE  \A s \in Sessions, i \in Puts :
                   put'[s][i] \in {"storing", "done"} => put[s][i] = put'[s][i]
      BY <3>1 DEF AskHas
    <3>2. ASSUME Retain(t, j)
          PROVE  \A s \in Sessions, i \in Puts :
                   /\ touched[s] \subseteq touched'[s]
                   /\ put'[s][i] # put[s][i] => BlockOf[s][i] \in touched'[s]
      BY <3>2 DEF Retain
    <3>3. ASSUME PutEnds(t, j)
          PROVE  \A s \in Sessions, i \in Puts :
                   put'[s][i] = put[s][i] \/ put[s][i] = "storing"
      BY <3>3 DEF PutEnds
    <3>4. /\ session' = session
          /\ AskHas(t, j) \/ PutEnds(t, j) => touched' = touched
      BY <2>2 DEF AskHas, Retain, PutEnds
    <3> QED
      BY <2>2, <3>1, <3>2, <3>3, <3>4 DEF LiveHeld
  <2>3. ASSUME NEW t \in Sessions, Disconnect(t) \/ Claim(t) \/ CommitBlocks(t) \/ Fail(t)
        PROVE  \A s \in Sessions, i \in Puts :
                 session'[s] # "settled" /\ put'[s][i] \in {"storing", "done"} => BlockOf[s][i] \in touched'[s]
    BY <2>3 DEF LiveHeld, HandlerOwns, unclaimed, Disconnect, Claim, CommitBlocks, Fail, settle, releaseAll
  <2>4. \/ UNCHANGED <<session, put, touched>>
        \/ \E t \in Sessions : \/ Disconnect(t) \/ Claim(t) \/ CommitBlocks(t) \/ Fail(t)
                               \/ \E j \in Puts : AskHas(t, j) \/ Retain(t, j) \/ PutEnds(t, j)
    BY DEF SessionsNext, sessionVars, Pin, IntakePin, pin, CheckPin, Recheck, DeleteBlock
  <2> QED
    BY <2>1, <2>2, <2>3, <2>4
\* what is being deleted
<1>2. ASSUME ~SlowDelete
      PROVE  \A s \in Sessions : delete'[s] # None => inFlight'[delete'[s]] = 0
  <2>1. CASE UNCHANGED sessionVars
    BY <1>2, <2>1 DEF LiveHeld, sessionVars
  <2>2. CASE \E t \in Sessions : DeleteBlock(t)
    BY <1>2, <2>2 DEF LiveHeld, DeleteBlock
  <2>3. CASE \E t \in Sessions : Recheck(t) /\ othersMayMove
    BY <1>2, <2>3 DEF othersMayMove, Recheck, mayDelete
  <2>4. CASE othersMayMove /\ delete' = delete
    BY <1>2, <2>4 DEF othersMayMove
  <2> QED
    BY <2>1, <2>2, <2>3, <2>4
    DEF SessionsNext, AskHas, Retain, PutEnds, Disconnect, Claim, Pin, CommitBlocks, Fail, IntakePin, CheckPin
\* what is on disk
<1>3. ASSUME ~SlowDelete
      PROVE  \A s \in Sessions, i \in Puts :
               session'[s] # "settled" /\ put'[s][i] = "done" => BlockOf[s][i] \in disk'
  <2>0. \A s \in Sessions, i \in Puts :
          session[s] # "settled" /\ put[s][i] = "done" => BlockOf[s][i] \in disk
    BY <1>3 DEF LiveHeld
  <2>1. ASSUME UNCHANGED <<session, put, disk>>
        PROVE  \A s \in Sessions, i \in Puts :
                 session'[s] # "settled" /\ put'[s][i] = "done" => BlockOf[s][i] \in disk'
    BY <2>0, <2>1
  <2>2. ASSUME NEW t \in Sessions, NEW j \in Puts, AskHas(t, j) \/ Retain(t, j) \/ PutEnds(t, j)
        PROVE  \A s \in Sessions, i \in Puts :
                 session'[s] # "settled" /\ put'[s][i] = "done" => BlockOf[s][i] \in disk'
    <3>1. /\ session' = session /\ disk \subseteq disk'
          /\ AskHas(t, j) \/ Retain(t, j) => disk' = disk
      BY <2>2 DEF AskHas, Retain, PutEnds
    <3>2. ASSUME AskHas(t, j) \/ Retain(t, j)
          PROVE  \A s \in Sessions, i \in Puts : put'[s][i] = "done" => put[s][i] = "done"
      <4>1. CASE AskHas(t, j)
        BY <4>1 DEF AskHas
      <4>2. CASE Retain(t, j)
        BY <4>2 DEF Retain
      <4> QED
        BY <3>2, <4>1, <4>2
    <3>3. ASSUME PutEnds(t, j)
          PROVE  \A s \in Sessions, i \in Puts :
                   put'[s][i] = put[s][i] \/ BlockOf[s][i] \in disk'
      BY <3>3 DEF PutEnds
    <3> QED
      BY <2>0, <2>2, <3>1, <3>2, <3>3
  <2>3. ASSUME NEW t \in Sessions, Disconnect(t) \/ Claim(t) \/ CommitBlocks(t) \/ Fail(t)
        PROVE  \A s \in Sessions, i \in Puts :
                 session'[s] # "settled" /\ put'[s][i] = "done" => BlockOf[s][i] \in disk'
    BY <2>0, <2>3 DEF HandlerOwns, unclaimed, Disconnect, Claim, CommitBlocks, Fail, settle
  <2>4. ASSUME NEW t \in Sessions, DeleteBlock(t)
        PROVE  \A s \in Sessions, i \in Puts :
                 session'[s] # "settled" /\ put'[s][i] = "done" => BlockOf[s][i] \in disk'
    <3>1. inFlight[delete[t]] = 0 /\ disk' = disk \ {delete[t]} /\ UNCHANGED <<session, put>>
      BY <1>3, <2>4 DEF DeleteBlock, LiveHeld
    <3>2. \A s \in Sessions, i \in Puts :
            session[s] # "settled" /\ put[s][i] = "done" => inFlight[BlockOf[s][i]] # 0
      BY TouchedHeld DEF LiveHeld
    <3> QED
      BY <2>0, <3>1, <3>2
  <2>5. \/ UNCHANGED <<session, put, disk>>
        \/ \E t \in Sessions : \/ Disconnect(t) \/ Claim(t) \/ CommitBlocks(t) \/ Fail(t)
                               \/ DeleteBlock(t)
                               \/ \E j \in Puts : AskHas(t, j) \/ Retain(t, j) \/ PutEnds(t, j)
    BY DEF SessionsNext, sessionVars, Pin, IntakePin, CheckPin, Recheck
  <2> QED
    BY <2>1, <2>2, <2>3, <2>4, <2>5
<1> QED
  BY <1>0, <1>1, <1>2, <1>3 DEF LiveHeld

LEMMA PinsUnchallengedStep ==
  ASSUME SessionAssumption, SessionsTypeOK, PinsUnchallenged, [SessionsNext]_sessionVars
  PROVE  PinsUnchallenged'
<1>0. None \notin Blocks /\ pinned \subseteq SUBSET Blocks
  BY DEF SessionAssumption, SessionsTypeOK
<1>1. ASSUME UNCHANGED <<overtaken, check, delete>>, disk \subseteq disk', pinned' \subseteq pinned
      PROVE  PinsUnchallenged'
  BY <1>1 DEF PinsUnchallenged
<1> USE DEF store, request, import, cleanup
<1>2. ASSUME NEW d, d \subseteq disk, pin(d), UNCHANGED <<disk, check, delete>>
      PROVE  PinsUnchallenged'
  BY <1>2 DEF PinsUnchallenged, pin
<1>3. ASSUME NEW s \in Sessions, NEW b \in Blocks, CheckPin(s, b)  PROVE PinsUnchallenged'
  BY <1>0, <1>3 DEF PinsUnchallenged, CheckPin, isPinned, SessionsTypeOK
<1>4. ASSUME NEW s \in Sessions, Recheck(s)  PROVE PinsUnchallenged'
  BY <1>0, <1>4 DEF PinsUnchallenged, Recheck, SessionsTypeOK
<1>5. ASSUME NEW s \in Sessions, DeleteBlock(s)  PROVE PinsUnchallenged'
  BY <1>0, <1>5 DEF PinsUnchallenged, DeleteBlock, SessionsTypeOK
<1>6. ASSUME NEW s \in Sessions, NEW i \in Puts, AskHas(s, i) \/ Retain(s, i) \/ PutEnds(s, i)
      PROVE  PinsUnchallenged'
  BY <1>1, <1>6 DEF AskHas, Retain, PutEnds
<1>7. ASSUME NEW s \in Sessions, Disconnect(s) \/ Claim(s) \/ CommitBlocks(s) \/ Fail(s)
      PROVE  PinsUnchallenged'
  BY <1>1, <1>7 DEF Disconnect, settle, Claim, CommitBlocks, Fail
<1>8. ASSUME NEW s \in Sessions, Pin(s) \/ IntakePin(Dag(s))  PROVE PinsUnchallenged'
  BY <1>2, <1>8 DEF Pin, IntakePin
<1>9. CASE UNCHANGED sessionVars
  BY <1>1, <1>9 DEF sessionVars
<1> QED
  BY <1>3, <1>4, <1>5, <1>6, <1>7, <1>8, <1>9 DEF SessionsNext

LEMMA SessionsInitially == ASSUME SessionAssumption, SessionsInit PROVE SessionsInv
<1>0. SessionsTypeOK
  <2>1. BlockOf \in [Sessions -> [Puts -> Blocks]] /\ Stored \in SUBSET Blocks
    BY DEF SessionsInit, SessionAssumption
  <2>2. /\ overtaken \in BOOLEAN /\ disk \in SUBSET Blocks /\ pinned \in SUBSET SUBSET Blocks
    BY DEF SessionsInit
  <2>2a. inFlight \in [Blocks -> Int]
    BY DEF SessionsInit
  <2>3. put \in [Sessions -> [Puts -> {"none", "asked", "storing", "done"}]]
    BY DEF SessionsInit, perSession
  <2>4. /\ handler \in [Sessions -> {"idle", "importing", "handling", "pinned", "done"}]
        /\ session \in [Sessions -> {"open", "claimed", "settled"}]
        /\ createdPin \in [Sessions -> BOOLEAN]
        /\ existed \in [Sessions -> SUBSET Puts]
        /\ touched \in [Sessions -> SUBSET Blocks] /\ created \in [Sessions -> SUBSET Blocks]
        /\ releasable \in [Sessions -> SUBSET Blocks] /\ seen \in [Sessions -> SUBSET Blocks]
        /\ check \in [Sessions -> Blocks \cup {None}] /\ delete \in [Sessions -> Blocks \cup {None}]
    BY DEF SessionsInit, perSession
  <2> QED
    BY <2>1, <2>2, <2>2a, <2>3, <2>4 DEF SessionsTypeOK
<1>1. HandlerOwns /\ LiveHeld /\ PinsUnchallenged
  BY DEF SessionsInit, perSession, HandlerOwns, LiveHeld, PinsUnchallenged
<1>2. OldRecognised
  BY DEF SessionsInit, SessionAssumption, perSession, OldRecognised
<1>3. ReferencesCounted
  <2>1. \A b \in Blocks : {s \in Sessions : b \in touched[s]} = {} /\ inFlight[b] = 0
    BY DEF SessionsInit, perSession
  <2> QED
    BY <2>1, FS_EmptySet DEF ReferencesCounted
<1> QED
  BY <1>0, <1>1, <1>2, <1>3 DEF SessionsInv

\* uploadSession.ts, whatever clients upload at once: the cleanup of one upload
\* deletes no block that a live import has stored, that a handler is about to pin,
\* that was there before, or that belongs to pinned content (unless the pin
\* overtook the cleanup), and every block is counted once per session.
THEOREM CleanupSparesOthers ==
  ASSUME SessionAssumption
  PROVE  SessionsSpec => []CleanupSpares
<1>1. SessionsInit => SessionsInv
  BY SessionsInitially
<1>2. SessionsInv /\ [SessionsNext]_sessionVars => SessionsInv'
  BY SessionsTypeStep, ReferencesStep, HandlerOwnsStep, OldRecognisedStep, LiveHeldStep,
     PinsUnchallengedStep DEF SessionsInv
<1>3. SessionsInv => CleanupSpares
  <2> SUFFICES ASSUME SessionsInv PROVE CleanupSpares
    OBVIOUS
  <2>1. ASSUME ~SlowDelete PROVE LiveBlocksKept
    <3>1. \A s \in Sessions, i \in Puts :
            session[s] # "settled" /\ put[s][i] = "done" => BlockOf[s][i] \in disk
      BY <2>1 DEF SessionsInv, LiveHeld
    <3>2. \A s \in Sessions : handler[s] \in {"handling", "pinned"} => Dag(s) \subseteq disk
      BY <3>1, DagIs DEF SessionsInv, HandlerOwns
    <3> QED
      BY <3>1, <3>2 DEF LiveBlocksKept
  <2> QED
    BY <2>1 DEF SessionsInv, CleanupSpares, OldRecognised, OlderContentStays, PinsUnchallenged,
                DurableKept
<1> QED
  BY <1>1, <1>2, <1>3, PTL DEF SessionsSpec

-----------------------------------------------------------------------------
(* UploadAdmission *)

AdmissionTypeOK ==
  /\ pc \in [Work -> {"idle", "lease", "measure", "measured", "session", "claimed", "cleaning", "done"}]
  /\ declared \in [Work -> Nat] /\ claim \in [Work -> Nat]
  /\ written \in [Work -> Nat] /\ measured \in [Work -> Nat]
  /\ open \in [Work -> BOOLEAN] /\ released \in [Work -> BOOLEAN]
  /\ lease \in SUBSET Work
  /\ uploading \in Int /\ copying \in Int /\ claimed \in Nat /\ free \in Nat
  /\ gc \in {"idle", "waiting", "collecting"} /\ stale \in BOOLEAN

\* What an upload holds, at each of its awaits and on either side of the moment
\* its response closes.
UploadOK(u) ==
  /\ pc[u] = "idle" => ~open[u] /\ ~released[u]
  /\ pc[u] # "idle" /\ ~released[u] => open[u]
  /\ released[u] /\ open[u] => pc[u] = "done"
  /\ released[u] => claim[u] = 0
  /\ pc[u] \in {"idle", "lease", "measure", "measured"} => claim[u] = 0
  /\ pc[u] \in {"idle", "lease", "measure", "measured", "done"} => written[u] = 0
  /\ pc[u] \in {"idle", "lease", "done"} => u \notin lease
  /\ pc[u] \in {"measure", "measured"} => (u \in lease <=> ~released[u])
  /\ pc[u] \in {"session", "claimed"} => u \in lease /\ (~released[u] => claim[u] = declared[u])

CopyOK(k) ==
  /\ pc[k] \in {"idle", "measure", "measured", "session", "done"}
  /\ pc[k] # "session" => claim[k] = 0 /\ written[k] = 0
  /\ pc[k] = "session" => claim[k] = CopyClaim
  /\ k \in lease <=> pc[k] \in {"measure", "measured", "session"}

HeldRight == /\ \A u \in Uploads : UploadOK(u)
             /\ \A k \in Copies : CopyOK(k)
             /\ gc = "collecting" => lease = {}

slots == {u \in Uploads : pc[u] # "idle" /\ ~released[u]}
pulls == {k \in Copies : pc[k] \notin {"idle", "done"}}

CountersRight == /\ uploading = Cardinality(slots) /\ copying = Cardinality(pulls)
                 /\ claimed = sum(claim, Work)

\* What is promised to work that may still write it.
due(p, c, w) == [x \in Work |-> IF p[x] = "session" /\ c[x] > w[x] THEN c[x] - w[x] ELSE 0]

\* There is room for that above the reserve, or nothing was ever written.
room(f, d) == f >= Reserve + sum(d, Work) \/ (f >= Capacity /\ sum(d, Work) = 0)

RoomLeft == ~stale => room(free, due(pc, claim, written))

AdmissionInv == AdmissionTypeOK /\ HeldRight /\ CountersRight /\ RoomLeft

LEMMA Bounds ==
  ASSUME BoundAssumption
  PROVE  /\ MaxUploads \in Nat /\ MaxCopies \in Nat /\ MaxRequest \in Nat /\ CopyClaim \in Nat
         /\ CopyClaim # 0 /\ Capacity \in Nat /\ Reserve \in Nat
         /\ IsFiniteSet(Work) /\ IsFiniteSet(Uploads) /\ IsFiniteSet(Copies)
         /\ \A u \in Uploads : u \in Work /\ u \notin Copies
         /\ \A k \in Copies : k \in Work /\ k \notin Uploads
<1>1. IsFiniteSet(Work)
  BY FS_Union DEF BoundAssumption, Work
<1> QED
  BY <1>1 DEF BoundAssumption, Work

LEMMA AdmissionTypeStep ==
  ASSUME BoundAssumption, AdmissionTypeOK, [Next]_vars
  PROVE  AdmissionTypeOK'
<1>0. /\ MaxRequest \in Nat /\ CopyClaim \in Nat
      /\ \A u \in Uploads : u \in Work
      /\ \A k \in Copies : k \in Work
  BY Bounds
<1> USE DEF AdmissionTypeOK
<1>1. CASE UNCHANGED vars
  BY <1>1 DEF vars
<1>2. ASSUME NEW u \in Uploads, NEW amount \in 1..(MaxRequest + 1), Admit(u, amount)
      PROVE  AdmissionTypeOK'
  <2>1. amount \in Nat /\ declared' \in [Work -> Nat]
    BY <1>0, <1>2 DEF Admit
  <2>2. pc' \in [Work -> {"idle", "lease", "measure", "measured", "session", "claimed", "cleaning", "done"}]
    BY <1>0, <1>2 DEF Admit
  <2>3. /\ open' = open \/ open' = [open EXCEPT ![u] = TRUE]
        /\ released' = released \/ released' = [released EXCEPT ![u] = TRUE]
        /\ uploading' = uploading \/ uploading' = uploading + 1
    BY <1>2 DEF Admit
  <2>4. open' \in [Work -> BOOLEAN] /\ released' \in [Work -> BOOLEAN] /\ uploading' \in Int
    <3>1. open' \in [Work -> BOOLEAN]
      BY <2>3
    <3>2. released' \in [Work -> BOOLEAN]
      BY <2>3
    <3>3. uploading' \in Int
      BY <2>3
    <3> QED
      BY <3>1, <3>2, <3>3
  <2> QED
    BY <1>2, <2>1, <2>2, <2>4 DEF Admit
<1>3. ASSUME NEW w \in Work, Measure(w)  PROVE AdmissionTypeOK'
  BY <1>3 DEF Measure
<1>4. ASSUME NEW w \in Work, NEW amount \in Nat, promise(w, amount),
             UNCHANGED <<declared, open, released, lease, written, uploading, copying, free, gc>>
      PROVE  AdmissionTypeOK'
  BY <1>4 DEF promise
<1>5. ASSUME NEW u \in Uploads, OpenSession(u)  PROVE AdmissionTypeOK'
  BY <1>0, <1>4, <1>5 DEF OpenSession
<1>6. ASSUME NEW k \in Copies, ClaimCopy(k)  PROVE AdmissionTypeOK'
  BY <1>0, <1>4, <1>6 DEF ClaimCopy
<1>7. ASSUME NEW u \in Work, NEW has, giveBack(u, has)
      PROVE  /\ released' \in [Work -> BOOLEAN] /\ claimed' \in Nat /\ claim' \in [Work -> Nat]
             /\ uploading' \in Int /\ lease' \in SUBSET Work
  BY <1>7 DEF giveBack, unclaim
<1>8. ASSUME NEW u \in Uploads, RefuseUpload(u)  PROVE AdmissionTypeOK'
  <2>1. giveBack(u, FALSE) /\ pc' = [pc EXCEPT ![u] = "done"]
        /\ measured' = [measured EXCEPT ![u] = 0]
        /\ UNCHANGED <<declared, open, written, copying, free, gc, stale>>
    BY <1>8 DEF RefuseUpload
  <2> QED
    BY <1>0, <1>7, <2>1
<1>9. ASSUME NEW u \in Uploads, Close(u)  PROVE AdmissionTypeOK'
  <2>1. giveBack(u, pc[u] \in {"session", "claimed"})
    BY <1>9 DEF Close
  <2>2. open' = [open EXCEPT ![u] = FALSE]
        /\ UNCHANGED <<pc, declared, written, measured, copying, free, gc, stale>>
    BY <1>9 DEF Close
  <2> QED
    BY <1>0, <1>7, <2>1, <2>2
<1>10. ASSUME NEW u \in Uploads, LeaseGranted(u) \/ ClaimSession(u) \/ Commit(u) \/ BeginCleanup(u) \/ Again(u)
       PROVE  AdmissionTypeOK'
  <2>1. CASE LeaseGranted(u)
    BY <1>0, <2>1 DEF LeaseGranted
  <2>2. CASE ClaimSession(u) \/ BeginCleanup(u)
    BY <1>0, <2>2 DEF ClaimSession, BeginCleanup
  <2>3. CASE Commit(u)
    BY <1>0, <2>3 DEF Commit
  <2>4. CASE Again(u)
    BY <1>0, <2>4 DEF Again
  <2> QED
    BY <1>10, <2>1, <2>2, <2>3, <2>4
<1>11. ASSUME NEW u \in Uploads, EndCleanup(u)  PROVE AdmissionTypeOK'
  BY <1>0, <1>11 DEF EndCleanup
<1>12. ASSUME NEW u \in Uploads, WriteUpload(u)  PROVE AdmissionTypeOK'
  BY <1>0, <1>12 DEF WriteUpload
<1>13. ASSUME NEW k \in Copies, StartCopy(k)  PROVE AdmissionTypeOK'
  BY <1>0, <1>13 DEF StartCopy
<1>14. ASSUME NEW k \in Copies, WriteCopy(k)  PROVE AdmissionTypeOK'
  BY <1>0, <1>14 DEF WriteCopy
<1>15. ASSUME NEW k \in Copies, EndCopy(k)  PROVE AdmissionTypeOK'
  BY <1>0, <1>15 DEF EndCopy, unclaim
<1>16. CASE GcStep
  BY <1>16 DEF GcStep, AskLease, Collect, EndCollect
<1> QED
  BY <1>0, <1>1, <1>2, <1>3, <1>5, <1>6, <1>8, <1>9, <1>10, <1>11, <1>12, <1>13, <1>14, <1>15, <1>16
  DEF Next, HandlerStep

\* The handlers of others are where they were.
LEMMA HeldRightStep ==
  ASSUME BoundAssumption, AdmissionTypeOK, HeldRight, [Next]_vars
  PROVE  HeldRight'
<1>0. /\ \A u \in Uploads : u \in Work /\ u \notin Copies
      /\ \A k \in Copies : k \in Work /\ k \notin Uploads
  BY Bounds
<1>t. /\ pc \in [Work -> {"idle", "lease", "measure", "measured", "session", "claimed", "cleaning", "done"}]
      /\ declared \in [Work -> Nat] /\ claim \in [Work -> Nat]
      /\ written \in [Work -> Nat] /\ measured \in [Work -> Nat]
      /\ open \in [Work -> BOOLEAN] /\ released \in [Work -> BOOLEAN]
  BY DEF AdmissionTypeOK
<1> DEFINE Same(w) == /\ pc'[w] = pc[w] /\ declared'[w] = declared[w] /\ claim'[w] = claim[w]
                      /\ written'[w] = written[w] /\ open'[w] = open[w] /\ released'[w] = released[w]
                      /\ (w \in lease' <=> w \in lease)
           Held(v) == (v \in Uploads => UploadOK(v)') /\ (v \in Copies => CopyOK(v)')
<1>1. ASSUME NEW v \in Work, Same(v)  PROVE Held(v)
  BY <1>1 DEF HeldRight, UploadOK, CopyOK
<1>2. ASSUME NEW u \in Work, \A w \in Work \ {u} : Same(w), Held(u)
      PROVE  \A v \in Work : Held(v)
  BY <1>1, <1>2
<1>3. \A u \in Uploads : UploadOK(u)
  BY DEF HeldRight
<1>4. \A k \in Copies : CopyOK(k)
  BY DEF HeldRight
<1>5. ASSUME UNCHANGED vars \/ GcStep  PROVE \A v \in Work : Held(v)
  <2>1. \A w \in Work : Same(w)
    BY <1>5 DEF vars, GcStep
  <2> QED
    BY <1>1, <2>1
<1>6. ASSUME NEW u \in Uploads, NEW amount \in 1..(MaxRequest + 1), Admit(u, amount)
      PROVE  \A v \in Work : Held(v)
  <2>1. \A w \in Work \ {u} : Same(w)
    BY <1>0, <1>t, <1>6 DEF Admit
  <2>2. UploadOK(u)'
    BY <1>0, <1>t, <1>3, <1>6 DEF Admit, UploadOK
  <2> QED
    BY <1>0, <1>2, <2>1, <2>2
<1>7. ASSUME NEW u \in Uploads, LeaseGranted(u)  PROVE \A v \in Work : Held(v)
  <2>1. \A w \in Work \ {u} : Same(w)
    BY <1>0, <1>t, <1>7 DEF LeaseGranted
  <2>2. UploadOK(u)'
    BY <1>0, <1>t, <1>3, <1>7 DEF LeaseGranted, UploadOK
  <2> QED
    BY <1>0, <1>2, <2>1, <2>2
<1>8. ASSUME NEW w \in Work, Measure(w)  PROVE \A v \in Work : Held(v)
  <2>1. \A x \in Work \ {w} : Same(x)
    BY <1>0, <1>t, <1>8 DEF Measure
  <2>2. w \in Uploads => UploadOK(w)'
    BY <1>0, <1>t, <1>3, <1>8 DEF Measure, UploadOK
  <2>3. w \in Copies => CopyOK(w)'
    BY <1>0, <1>t, <1>4, <1>8 DEF Measure, CopyOK
  <2> QED
    BY <1>0, <1>2, <2>1, <2>2, <2>3
<1>9. ASSUME NEW u \in Uploads, OpenSession(u)  PROVE \A v \in Work : Held(v)
  <2>1. \A w \in Work \ {u} : Same(w)
    BY <1>0, <1>t, <1>9 DEF OpenSession, promise
  <2>2. UploadOK(u)'
    BY <1>0, <1>t, <1>3, <1>9 DEF OpenSession, promise, UploadOK
  <2> QED
    BY <1>0, <1>2, <2>1, <2>2
<1>10. ASSUME NEW u \in Uploads, RefuseUpload(u)  PROVE \A v \in Work : Held(v)
  <2>1. \A w \in Work \ {u} : Same(w)
    BY <1>0, <1>t, <1>10 DEF RefuseUpload, giveBack
  <2>2. UploadOK(u)'
    BY <1>0, <1>t, <1>3, <1>10 DEF RefuseUpload, giveBack, UploadOK
  <2> QED
    BY <1>0, <1>2, <2>1, <2>2
<1>11. ASSUME NEW u \in Uploads, Close(u)  PROVE \A v \in Work : Held(v)
  <2>1. \A w \in Work \ {u} : Same(w)
    BY <1>0, <1>t, <1>11 DEF Close, giveBack
  <2>2. UploadOK(u)'
    BY <1>0, <1>t, <1>3, <1>11 DEF Close, giveBack, UploadOK
  <2> QED
    BY <1>0, <1>2, <2>1, <2>2
<1>12. ASSUME NEW u \in Uploads,
              \/ WriteUpload(u) \/ ClaimSession(u) \/ BeginCleanup(u)
              \/ Commit(u) \/ EndCleanup(u) \/ Again(u)
       PROVE  \A v \in Work : Held(v)
  <2>1. CASE WriteUpload(u)
    BY <1>0, <1>t, <1>2, <1>3, <2>1 DEF WriteUpload, UploadOK
  <2>2. CASE ClaimSession(u) \/ BeginCleanup(u)
    BY <1>0, <1>t, <1>2, <1>3, <2>2 DEF ClaimSession, BeginCleanup, UploadOK
  <2>3. CASE Commit(u) \/ EndCleanup(u)
    BY <1>0, <1>t, <1>2, <1>3, <2>3 DEF Commit, EndCleanup, UploadOK
  <2>4. CASE Again(u)
    BY <1>0, <1>t, <1>2, <1>3, <2>4 DEF Again, UploadOK
  <2> QED
    BY <1>12, <2>1, <2>2, <2>3, <2>4
<1>13. ASSUME NEW k \in Copies, StartCopy(k) \/ ClaimCopy(k) \/ WriteCopy(k) \/ EndCopy(k)
       PROVE  \A v \in Work : Held(v)
  <2>1. CASE StartCopy(k)
    BY <1>0, <1>t, <1>2, <1>4, <2>1 DEF StartCopy, CopyOK
  <2>2. CASE ClaimCopy(k)
    BY <1>0, <1>t, <1>2, <1>4, <2>2 DEF ClaimCopy, promise, CopyOK
  <2>3. CASE WriteCopy(k)
    BY <1>0, <1>t, <1>2, <1>4, <2>3 DEF WriteCopy, CopyOK
  <2>4. CASE EndCopy(k)
    BY <1>0, <1>t, <1>2, <1>4, <2>4 DEF EndCopy, CopyOK
  <2> QED
    BY <1>13, <2>1, <2>2, <2>3, <2>4
<1>14. \A v \in Work : Held(v)
  BY <1>0, <1>5, <1>6, <1>7, <1>8, <1>9, <1>10, <1>11, <1>12, <1>13 DEF Next, HandlerStep
<1>15. gc' = "collecting" => lease' = {}
  <2>1. CASE GcStep
    BY <2>1 DEF GcStep, AskLease, Collect, EndCollect, HeldRight
  <2>2. CASE gc' = gc /\ (gc = "idle" \/ lease' \subseteq lease)
    BY <2>2 DEF HeldRight
  <2> QED
    BY <2>1, <2>2
    DEF Next, HandlerStep, vars, Admit, LeaseGranted, Measure, OpenSession, ClaimCopy, promise,
        RefuseUpload, Close, giveBack, WriteUpload, ClaimSession, BeginCleanup, Commit, EndCleanup,
        Again, StartCopy, WriteCopy, EndCopy
<1> QED
  BY <1>0, <1>14, <1>15 DEF HeldRight

\* One more, one fewer.
LEMMA CountedStep ==
  ASSUME NEW A, NEW B, IsFiniteSet(A), NEW n, n = Cardinality(A)
  PROVE  /\ A = B => n = Cardinality(B)
         /\ \A x : x \notin A /\ B = A \cup {x} => n + 1 = Cardinality(B)
         /\ \A x : x \in A /\ B = A \ {x} => n - 1 = Cardinality(B)
BY FS_AddElement, FS_RemoveElement, FS_CardinalityType

\* The claims of others are what they were.
LEMMA ClaimsStep ==
  ASSUME BoundAssumption, AdmissionTypeOK, AdmissionTypeOK', claimed = sum(claim, Work)
  PROVE  /\ Summable(claim, Work) /\ Summable(claim', Work)
         /\ \A w \in Work : claim' = [claim EXCEPT ![w] = 0]
                            => unclaim(claim[w]) = sum(claim', Work)
         /\ \A w \in Work, amount \in Nat :
              claim' = [claim EXCEPT ![w] = amount] /\ claim[w] = 0
                => claimed + amount = sum(claim', Work)
<1>1. Summable(claim, Work) /\ Summable(claim', Work)
  BY Bounds DEF AdmissionTypeOK, Summable
<1>2. ASSUME NEW w \in Work, NEW amount \in Nat, claim' = [claim EXCEPT ![w] = amount]
      PROVE  /\ sum(claim', Work) = claimed - claim[w] + amount
             /\ claim[w] <= claimed /\ claimed \in Nat /\ claim[w] \in Nat
  <2>1. claim'[w] = amount /\ \A y \in Work \ {w} : claim'[y] = claim[y]
    BY <1>2 DEF AdmissionTypeOK
  <2>2. sum(claim', Work) = sum(claim, Work) - claim[w] + claim'[w]
    BY <1>1, <2>1, SumUpdate
  <2>3. claim[w] <= claimed /\ claimed \in Nat /\ claim[w] \in Nat
    BY <1>1, SumMember DEF AdmissionTypeOK
  <2> QED
    BY <2>1, <2>2, <2>3
<1>3. ASSUME NEW w \in Work, claim' = [claim EXCEPT ![w] = 0]
      PROVE  unclaim(claim[w]) = sum(claim', Work)
  <2>1. /\ sum(claim', Work) = claimed - claim[w] + 0
        /\ claim[w] <= claimed /\ claimed \in Nat /\ claim[w] \in Nat
    BY <1>2, <1>3
  <2> QED
    BY <2>1 DEF unclaim
<1>4. ASSUME NEW w \in Work, NEW amount \in Nat, claim' = [claim EXCEPT ![w] = amount], claim[w] = 0
      PROVE  claimed + amount = sum(claim', Work)
  <2>1. sum(claim', Work) = claimed - claim[w] + amount /\ claimed \in Nat
    BY <1>2, <1>4
  <2> QED
    BY <1>4, <2>1
<1> QED
  BY <1>1, <1>3, <1>4

LEMMA CountersRightStep ==
  ASSUME BoundAssumption, AdmissionTypeOK, HeldRight, CountersRight, [Next]_vars
  PROVE  CountersRight'
<1>0. /\ \A u \in Uploads : u \in Work /\ u \notin Copies
      /\ \A k \in Copies : k \in Work /\ k \notin Uploads
      /\ CopyClaim \in Nat
  BY Bounds
<1>t. /\ pc \in [Work -> {"idle", "lease", "measure", "measured", "session", "claimed", "cleaning", "done"}]
      /\ declared \in [Work -> Nat] /\ claim \in [Work -> Nat]
      /\ open \in [Work -> BOOLEAN] /\ released \in [Work -> BOOLEAN]
  BY DEF AdmissionTypeOK
<1>f. /\ IsFiniteSet(slots) /\ IsFiniteSet(pulls)
      /\ uploading = Cardinality(slots) /\ copying = Cardinality(pulls) /\ claimed = sum(claim, Work)
  BY Bounds, FS_Subset DEF slots, pulls, CountersRight
<1>u. \A u \in Uploads : UploadOK(u)
  BY DEF HeldRight
<1>k. \A k \in Copies : CopyOK(k)
  BY DEF HeldRight
<1>c. /\ \A w \in Work : claim' = [claim EXCEPT ![w] = 0] => unclaim(claim[w]) = sum(claim', Work)
      /\ \A w \in Work, amount \in Nat :
           claim' = [claim EXCEPT ![w] = amount] /\ claim[w] = 0
             => claimed + amount = sum(claim', Work)
  BY <1>f, AdmissionTypeStep, ClaimsStep
\* slots
<1>1. uploading' = Cardinality(slots')
  <2>1. ASSUME uploading' = uploading, slots' = slots  PROVE uploading' = Cardinality(slots')
    BY <1>f, <2>1
  <2>2. ASSUME NEW u \in Uploads, giveBack(u, pc[u] \in {"session", "claimed"}) \/ giveBack(u, FALSE),
               pc[u] # "idle", pc' = pc \/ pc' = [pc EXCEPT ![u] = "done"]
        PROVE  uploading' = Cardinality(slots')
    <3>1. CASE released[u]
      <4>1. uploading' = uploading /\ slots' = slots
        BY <1>0, <1>t, <2>2, <3>1 DEF giveBack, slots
      <4> QED
        BY <2>1, <4>1
    <3>2. CASE ~released[u]
      <4>1. uploading' = uploading - 1 /\ u \in slots /\ slots' = slots \ {u}
        BY <1>0, <1>t, <2>2, <3>2 DEF giveBack, slots
      <4> QED
        BY <1>f, <4>1, CountedStep
    <3> QED
      BY <3>1, <3>2
  <2>3. ASSUME NEW u \in Uploads, NEW amount \in 1..(MaxRequest + 1), Admit(u, amount)
        PROVE  uploading' = Cardinality(slots')
    <3>1. CASE uploading' = uploading + 1 /\ released' = released /\ pc' = [pc EXCEPT ![u] = "lease"]
      <4>1. u \notin slots /\ slots' = slots \cup {u}
        BY <1>0, <1>t, <1>u, <2>3, <3>1 DEF Admit, slots, UploadOK
      <4> QED
        BY <1>f, <3>1, <4>1, CountedStep
    <3>2. CASE /\ uploading' = uploading /\ released' = [released EXCEPT ![u] = TRUE]
               /\ pc' = [pc EXCEPT ![u] = "done"]
      <4>1. slots' = slots
        BY <1>0, <1>t, <2>3, <3>2 DEF Admit, slots
      <4> QED
        BY <2>1, <3>2, <4>1
    <3> QED
      BY <2>3, <3>1, <3>2 DEF Admit
  <2>4. ASSUME NEW u \in Uploads, RefuseUpload(u)  PROVE uploading' = Cardinality(slots')
    BY <2>2, <2>4 DEF RefuseUpload
  <2>5. ASSUME NEW u \in Uploads, Close(u)  PROVE uploading' = Cardinality(slots')
    <3>1. pc[u] # "idle"
      BY <1>u, <2>5 DEF Close, UploadOK
    <3> QED
      BY <2>2, <2>5, <3>1 DEF Close
  <2>6. ASSUME NEW u \in Uploads, Again(u)  PROVE uploading' = Cardinality(slots')
    <3>1. uploading' = uploading /\ slots' = slots
      BY <1>0, <1>t, <1>u, <2>6 DEF Again, slots, UploadOK
    <3> QED
      BY <2>1, <3>1
  <2>7. ASSUME NEW w \in Work, NEW x, x # "idle", pc[w] # "idle", pc' = [pc EXCEPT ![w] = x] \/ pc' = pc,
               UNCHANGED <<released, uploading>>
        PROVE  uploading' = Cardinality(slots')
    <3>1. slots' = slots
      BY <1>0, <1>t, <2>7 DEF slots
    <3> QED
      BY <2>1, <2>7, <3>1
  <2>8. ASSUME NEW u \in Uploads, \/ LeaseGranted(u) \/ Measure(u) \/ OpenSession(u) \/ Commit(u)
                                 \/ BeginCleanup(u) \/ EndCleanup(u) \/ ClaimSession(u) \/ WriteUpload(u)
        PROVE  uploading' = Cardinality(slots')
    BY <1>0, <2>7, <2>8 DEF LeaseGranted, Measure, OpenSession, promise, Commit, BeginCleanup, EndCleanup,
                      ClaimSession, WriteUpload
  <2>9. ASSUME NEW k \in Copies, Measure(k) \/ ClaimCopy(k) \/ WriteCopy(k) \/ EndCopy(k)
        PROVE  uploading' = Cardinality(slots')
    BY <1>0, <2>7, <2>9 DEF Measure, ClaimCopy, promise, WriteCopy, EndCopy
  <2>10. ASSUME NEW k \in Copies, StartCopy(k)  PROVE uploading' = Cardinality(slots')
    <3>1. uploading' = uploading /\ slots' = slots
      BY <1>0, <1>t, <2>10 DEF StartCopy, slots
    <3> QED
      BY <2>1, <3>1
  <2>11. CASE UNCHANGED vars \/ GcStep
    <3>1. uploading' = uploading /\ slots' = slots
      BY <2>11 DEF vars, GcStep, slots
    <3> QED
      BY <2>1, <3>1
  <2> QED
    BY <2>3, <2>4, <2>5, <2>6, <2>8, <2>9, <2>10, <2>11 DEF Next, HandlerStep
\* copies
<1>2. copying' = Cardinality(pulls')
  <2>1. ASSUME copying' = copying, \A k \in Copies : pc'[k] \in {"idle", "done"} <=> pc[k] \in {"idle", "done"}
        PROVE copying' = Cardinality(pulls')
    <3>1. pulls' = pulls
      BY <2>1 DEF pulls
    <3> QED
      BY <1>f, <2>1, <3>1
  <2>2. ASSUME NEW k \in Copies, StartCopy(k)  PROVE copying' = Cardinality(pulls')
    <3>1. copying' = copying + 1 /\ k \notin pulls /\ pulls' = pulls \cup {k}
      BY <1>0, <1>t, <2>2 DEF StartCopy, pulls
    <3> QED
      BY <1>f, <3>1, CountedStep
  <2>3. ASSUME NEW k \in Copies, EndCopy(k)  PROVE copying' = Cardinality(pulls')
    <3>1. copying' = copying - 1 /\ k \in pulls /\ pulls' = pulls \ {k}
      BY <1>0, <1>t, <2>3 DEF EndCopy, pulls
    <3> QED
      BY <1>f, <3>1, CountedStep
  <2>4. ASSUME NEW k \in Copies, Measure(k) \/ ClaimCopy(k) \/ WriteCopy(k)
        PROVE  copying' = Cardinality(pulls')
    BY <1>0, <1>t, <2>1, <2>4 DEF Measure, ClaimCopy, promise, WriteCopy
  <2>5. ASSUME NEW u \in Uploads, NEW x, pc' = pc \/ pc' = [pc EXCEPT ![u] = x], copying' = copying
        PROVE  copying' = Cardinality(pulls')
    BY <1>0, <1>t, <2>1, <2>5
  <2>6. ASSUME NEW u \in Uploads, \/ HandlerStep(u) \/ WriteUpload(u) \/ ClaimSession(u) \/ Close(u) \/ Again(u)
                                 \/ \E amount \in 1..(MaxRequest + 1) : Admit(u, amount)
        PROVE  copying' = Cardinality(pulls')
    BY <2>5, <2>6 DEF HandlerStep, LeaseGranted, Measure, OpenSession, promise, RefuseUpload, Commit,
                      BeginCleanup, EndCleanup, ClaimSession, WriteUpload, Close, Again, Admit
  <2>7. CASE UNCHANGED vars \/ GcStep
    BY <2>1, <2>7 DEF vars, GcStep
  <2> QED
    BY <2>2, <2>3, <2>4, <2>6, <2>7 DEF Next
\* claims
<1>3. claimed' = sum(claim', Work)
  <2>1. ASSUME UNCHANGED <<claimed, claim>>  PROVE claimed' = sum(claim', Work)
    BY <1>f, <2>1
  <2>2. ASSUME NEW u \in Uploads, NEW has, giveBack(u, has)  PROVE claimed' = sum(claim', Work)
    BY <1>0, <1>c, <2>1, <2>2 DEF giveBack
  <2>3. ASSUME NEW u \in Uploads, OpenSession(u)  PROVE claimed' = sum(claim', Work)
    <3>1. /\ claim' = [claim EXCEPT ![u] = declared[u]] /\ claim[u] = 0
          /\ claimed' = claimed + declared[u] /\ declared[u] \in Nat /\ u \in Work
      BY <1>0, <1>t, <1>u, <2>3 DEF OpenSession, promise, UploadOK
    <3> QED
      BY <1>c, <3>1
  <2>4. ASSUME NEW k \in Copies, ClaimCopy(k)  PROVE claimed' = sum(claim', Work)
    <3>1. /\ claim' = [claim EXCEPT ![k] = CopyClaim] /\ claim[k] = 0
          /\ claimed' = claimed + CopyClaim /\ k \in Work
      BY <1>0, <1>k, <2>4 DEF ClaimCopy, promise, CopyOK
    <3> QED
      BY <1>0, <1>c, <3>1
  <2>5. ASSUME NEW k \in Copies, EndCopy(k)  PROVE claimed' = sum(claim', Work)
    BY <1>0, <1>c, <2>5 DEF EndCopy
  <2>6. \/ UNCHANGED <<claimed, claim>>
        \/ \E u \in Uploads : OpenSession(u) \/ RefuseUpload(u) \/ Close(u)
        \/ \E k \in Copies : ClaimCopy(k) \/ EndCopy(k)
    BY DEF Next, vars, HandlerStep, LeaseGranted, Measure, Commit, BeginCleanup, EndCleanup,
           ClaimSession, WriteUpload, Again, Admit, GcStep, StartCopy, WriteCopy
  <2> QED
    BY <2>1, <2>2, <2>3, <2>4, <2>5, <2>6 DEF RefuseUpload, Close
<1> QED
  BY <1>1, <1>2, <1>3 DEF CountersRight

\* Less is due, and no less is free.
LEMMA RoomWhenLess ==
  ASSUME BoundAssumption, NEW d, NEW e, Summable(d, Work), Summable(e, Work),
         \A x \in Work : e[x] <= d[x], NEW f \in Nat, NEW g \in Nat, g >= f, room(f, d)
  PROVE  room(g, e)
<1>1. sum(e, Work) <= sum(d, Work) /\ sum(e, Work) \in Nat /\ sum(d, Work) \in Nat
  BY SumMonotone, SumNat
<1>2. Reserve \in Nat /\ Capacity \in Nat
  BY Bounds
<1> QED
  BY <1>1, <1>2 DEF room

\* A promise is made when there is room for it on top of all others.
LEMMA RoomWhenPromised ==
  ASSUME BoundAssumption, NEW d, NEW e, Summable(d, Work), Summable(e, Work),
         NEW w \in Work, \A y \in Work \ {w} : e[y] = d[y], d[w] = 0,
         NEW f \in Nat, NEW n \in Nat, sum(d, Work) <= n, f >= n + Reserve + e[w]
  PROVE  room(f, e)
<1>1. sum(e, Work) = sum(d, Work) - d[w] + e[w]
  BY SumUpdate
<1>2. sum(d, Work) \in Nat /\ e[w] \in Nat /\ Reserve \in Nat
  BY Bounds, SumNat DEF Summable
<1> QED
  BY <1>1, <1>2 DEF room

\* What is written was due.
LEMMA RoomWhenWritten ==
  ASSUME BoundAssumption, NEW d, NEW e, Summable(d, Work), Summable(e, Work),
         NEW w \in Work, \A y \in Work \ {w} : e[y] = d[y], d[w] = e[w] + 1,
         NEW f \in Nat, f > 0, room(f, d)
  PROVE  room(f - 1, e)
<1>1. sum(e, Work) = sum(d, Work) - d[w] + e[w] /\ d[w] <= sum(d, Work)
  BY SumUpdate, SumMember
<1>2. /\ sum(d, Work) \in Nat /\ e[w] \in Nat /\ d[w] \in Nat
      /\ Reserve \in Nat /\ Capacity \in Nat
  BY Bounds, SumNat DEF Summable
<1> QED
  BY <1>1, <1>2 DEF room

LEMMA RoomLeftStep ==
  ASSUME BoundAssumption, AdmissionTypeOK, HeldRight, CountersRight, RoomLeft, [Next]_vars
  PROVE  RoomLeft'
<1>0. /\ \A u \in Uploads : u \in Work /\ u \notin Copies
      /\ \A k \in Copies : k \in Work /\ k \notin Uploads
      /\ CopyClaim \in Nat /\ Reserve \in Nat /\ IsFiniteSet(Work)
  BY Bounds
<1> DEFINE d == due(pc, claim, written)
           e == due(pc', claim', written')
<1>t. AdmissionTypeOK /\ AdmissionTypeOK'
  BY AdmissionTypeStep
<1>u. \A u \in Uploads : UploadOK(u)
  BY DEF HeldRight
<1>k. \A k \in Copies : CopyOK(k)
  BY DEF HeldRight
<1>s. /\ Summable(d, Work) /\ Summable(e, Work) /\ Summable(claim, Work)
      /\ claimed = sum(claim, Work) /\ claimed \in Nat /\ free \in Nat /\ free' \in Nat
  <2>1. \A x \in Work : d[x] \in Nat /\ e[x] \in Nat
    BY <1>t DEF due, AdmissionTypeOK
  <2> QED
    BY <1>0, <1>t, <2>1 DEF Summable, AdmissionTypeOK, CountersRight
<1>1. sum(d, Work) <= claimed
  <2>1. \A x \in Work : d[x] <= claim[x]
    BY <1>t DEF due, AdmissionTypeOK
  <2> HIDE DEF d
  <2> QED
    BY <1>s, <2>1, SumMonotone
<1> SUFFICES ASSUME ~stale'  PROVE room(free', e)
  BY DEF RoomLeft
<1>2. ASSUME \A x \in Work : e[x] <= d[x], free' >= free, ~stale  PROVE room(free', e)
  <2>1. room(free, d)
    BY <1>2 DEF RoomLeft
  <2> HIDE DEF d, e
  <2> QED
    BY <1>s, <1>2, <2>1, RoomWhenLess
<1>3. ASSUME NEW w \in Work, NEW amount \in Nat, promise(w, amount), UNCHANGED <<written, free>>,
             written[w] = 0
      PROVE  room(free', e)
  <2>1. free >= claimed + Reserve + amount
    <3>1. measured[w] >= claimed + Reserve + amount /\ ~(measured[w] > free)
      BY <1>3 DEF promise, fits
    <3>2. measured[w] \in Nat
      BY <1>t DEF AdmissionTypeOK
    <3> QED
      BY <1>0, <1>s, <3>1, <3>2
  <2>2. d[w] = 0 /\ e[w] = amount
    BY <1>t, <1>3 DEF due, promise, AdmissionTypeOK
  <2>3. \A y \in Work \ {w} : e[y] = d[y]
    BY <1>t, <1>3 DEF due, promise, AdmissionTypeOK
  <2>4. free' = free
    BY <1>3
  <2> HIDE DEF d, e
  <2>5. room(free, e)
    BY <1>1, <1>s, <2>1, <2>2, <2>3, RoomWhenPromised
  <2> QED
    BY <2>4, <2>5
<1>4. ASSUME NEW w \in Work, pc[w] = "session", claim[w] > written[w], free > 0,
             written' = [written EXCEPT ![w] = @ + 1], free' = free - 1,
             UNCHANGED <<pc, claim, stale>>
      PROVE  room(free', e)
  <2>1. d[w] = e[w] + 1
    <3>1. /\ d[w] = claim[w] - written[w]
          /\ e[w] = IF claim[w] > written[w] + 1 THEN claim[w] - (written[w] + 1) ELSE 0
      BY <1>t, <1>4 DEF due, AdmissionTypeOK
    <3>2. claim[w] \in Nat /\ written[w] \in Nat
      BY <1>t DEF AdmissionTypeOK
    <3> HIDE DEF d, e
    <3> QED
      BY <1>4, <3>1, <3>2
  <2>2. \A y \in Work \ {w} : e[y] = d[y]
    BY <1>t, <1>4 DEF due, AdmissionTypeOK
  <2>3. room(free, d)
    BY <1>4 DEF RoomLeft
  <2> HIDE DEF d, e
  <2>4. room(free - 1, e)
    BY <1>s, <1>4, <2>1, <2>2, <2>3, RoomWhenWritten
  <2> QED
    BY <1>4, <2>4
<1>5. ASSUME NEW u \in Uploads, OpenSession(u)  PROVE room(free', e)
  BY <1>0, <1>t, <1>u, <1>3, <1>5 DEF OpenSession, promise, UploadOK, AdmissionTypeOK
<1>6. ASSUME NEW k \in Copies, ClaimCopy(k)  PROVE room(free', e)
  BY <1>0, <1>k, <1>3, <1>6 DEF ClaimCopy, promise, CopyOK
<1>7. ASSUME NEW u \in Uploads, WriteUpload(u)  PROVE room(free', e)
  <2>1. claim[u] = declared[u]
    BY <1>0, <1>t, <1>u, <1>7 DEF WriteUpload, UploadOK, AdmissionTypeOK
  <2>2. claim[u] > written[u]
    BY <1>0, <1>t, <1>7, <2>1 DEF WriteUpload, AdmissionTypeOK
  <2> QED
    BY <1>0, <1>4, <1>7, <2>2 DEF WriteUpload
<1>8. ASSUME NEW k \in Copies, WriteCopy(k)  PROVE room(free', e)
  <2>1. claim[k] > written[k]
    BY <1>0, <1>t, <1>k, <1>8 DEF WriteCopy, CopyOK, AdmissionTypeOK
  <2> QED
    BY <1>0, <1>4, <1>8, <2>1 DEF WriteCopy
\* every other step leaves less or as much due
<1>9. ASSUME NEW w \in Work, stale' = stale, free' >= free,
             pc' = pc \/ (\E x : x # "session" /\ pc' = [pc EXCEPT ![w] = x]),
             claim' = claim \/ claim' = [claim EXCEPT ![w] = 0],
             written' = written \/ (pc'[w] # "session" /\ written' = [written EXCEPT ![w] = 0])
      PROVE  room(free', e)
  <2>1. \A y \in Work \ {w} : e[y] = d[y]
    BY <1>t, <1>9 DEF due, AdmissionTypeOK
  <2>2. pc'[w] = "session" => pc[w] = "session" /\ written'[w] = written[w] /\ claim'[w] <= claim[w]
    BY <1>t, <1>9 DEF AdmissionTypeOK
  <2>3. e[w] <= d[w]
    BY <1>t, <2>2 DEF due, AdmissionTypeOK
  <2>4. \A y \in Work : d[y] \in Nat
    BY <1>s DEF Summable
  <2> HIDE DEF d, e
  <2>5. \A y \in Work : e[y] <= d[y]
    BY <2>1, <2>3, <2>4
  <2> QED
    BY <1>2, <1>9, <2>5
<1>10. free >= free
  BY <1>s
<1>11. ASSUME NEW u \in Uploads, \/ \E amount \in 1..(MaxRequest + 1) : Admit(u, amount)
                                \/ LeaseGranted(u) \/ ClaimSession(u) \/ BeginCleanup(u) \/ Commit(u)
                                \/ Again(u)
       PROVE  room(free', e)
  <2>1. /\ stale' = stale /\ free' = free /\ claim' = claim
        /\ \E x : x # "session" /\ pc' = [pc EXCEPT ![u] = x]
    BY <1>11 DEF Admit, LeaseGranted, ClaimSession, BeginCleanup, Commit, Again
  <2>2. written' = written \/ (pc'[u] # "session" /\ written' = [written EXCEPT ![u] = 0])
    BY <1>0, <1>t, <1>11 DEF AdmissionTypeOK, Admit, LeaseGranted, ClaimSession, BeginCleanup, Commit, Again
  <2> QED
    BY <1>0, <1>9, <1>10, <2>1, <2>2
<1>12. ASSUME NEW u \in Uploads, RefuseUpload(u) \/ Close(u)  PROVE room(free', e)
  <2>1. /\ stale' = stale /\ free' = free /\ written' = written
        /\ pc' = pc \/ pc' = [pc EXCEPT ![u] = "done"]
        /\ claim' = claim \/ claim' = [claim EXCEPT ![u] = 0]
    BY <1>12 DEF RefuseUpload, Close, giveBack
  <2> QED
    BY <1>0, <1>9, <1>10, <2>1
<1>13. ASSUME NEW u \in Uploads, EndCleanup(u)  PROVE room(free', e)
  <2>1. /\ stale' = stale /\ claim' = claim /\ pc' = [pc EXCEPT ![u] = "done"]
        /\ written' = [written EXCEPT ![u] = 0] /\ pc'[u] # "session"
    BY <1>0, <1>t, <1>13 DEF EndCleanup, AdmissionTypeOK
  <2>2. free' >= free
    <3>1. free' = free + written[u] /\ written[u] \in Nat
      BY <1>0, <1>t, <1>13 DEF EndCleanup, AdmissionTypeOK
    <3> QED
      BY <1>s, <3>1
  <2> QED
    BY <1>0, <1>9, <2>1, <2>2
<1>14. ASSUME NEW w \in Work, Measure(w)  PROVE room(free', e)
  BY <1>9, <1>10, <1>14 DEF Measure
<1>15. ASSUME NEW k \in Copies, StartCopy(k) \/ EndCopy(k)  PROVE room(free', e)
  <2>1. CASE StartCopy(k)
    BY <1>0, <1>9, <1>10, <2>1 DEF StartCopy
  <2>2. CASE EndCopy(k)
    <3>1. /\ stale' = stale /\ free' = free /\ pc' = [pc EXCEPT ![k] = "done"]
          /\ claim' = [claim EXCEPT ![k] = 0]
          /\ written' = [written EXCEPT ![k] = 0] /\ pc'[k] # "session"
      BY <1>0, <1>t, <2>2 DEF EndCopy, AdmissionTypeOK
    <3> QED
      BY <1>0, <1>9, <1>10, <3>1
  <2> QED
    BY <1>15, <2>1, <2>2
<1>16. CASE UNCHANGED vars \/ GcStep
  <2>1. UNCHANGED <<pc, claim, written, free, stale>>
    BY <1>16 DEF vars, GcStep
  <2>2. room(free, d)
    BY <2>1 DEF RoomLeft
  <2> QED
    BY <2>1, <2>2
<1> HIDE DEF e
<1> QED
  BY <1>0, <1>5, <1>6, <1>7, <1>8, <1>11, <1>12, <1>13, <1>14, <1>15, <1>16 DEF Next, HandlerStep

LEMMA AdmissionInitially == ASSUME BoundAssumption, Init PROVE AdmissionInv
<1>0. /\ Capacity \in Nat /\ Reserve \in Nat /\ IsFiniteSet(Work)
      /\ \A u \in Uploads : u \in Work
      /\ \A k \in Copies : k \in Work
  BY Bounds
<1>1. AdmissionTypeOK
  <2>1. pc \in [Work -> {"idle", "lease", "measure", "measured", "session", "claimed", "cleaning", "done"}]
    BY DEF Init
  <2>2. open \in [Work -> BOOLEAN] /\ released \in [Work -> BOOLEAN]
    BY DEF Init
  <2>3. /\ declared \in [Work -> Nat] /\ claim \in [Work -> Nat]
        /\ written \in [Work -> Nat] /\ measured \in [Work -> Nat]
    BY DEF Init
  <2>4. lease \in SUBSET Work /\ gc \in {"idle", "waiting", "collecting"} /\ stale \in BOOLEAN
    BY DEF Init
  <2>5. uploading \in Int /\ copying \in Int /\ claimed \in Nat /\ free \in Nat
    BY <1>0 DEF Init
  <2> QED
    BY <2>1, <2>2, <2>3, <2>4, <2>5 DEF AdmissionTypeOK
<1>v. \A w \in Work : /\ pc[w] = "idle" /\ ~open[w] /\ ~released[w]
                     /\ claim[w] = 0 /\ written[w] = 0 /\ w \notin lease
  BY DEF Init
<1>2. HeldRight
  <2>1. \A u \in Uploads : UploadOK(u)
    BY <1>0, <1>v DEF UploadOK
  <2>2. \A k \in Copies : CopyOK(k)
    BY <1>0, <1>v DEF CopyOK
  <2> QED
    BY <2>1, <2>2 DEF HeldRight, Init
<1>3. slots = {} /\ pulls = {}
  BY <1>0, <1>v DEF slots, pulls
<1>4. ASSUME NEW f, \A x \in Work : f[x] = 0  PROVE sum(f, Work) = 0
  <2>1. Summable(f, Work) /\ \A x \in Work : f[x] <= 0
    BY <1>0, <1>4 DEF Summable
  <2>2. sum(f, Work) <= Cardinality(Work) * 0 /\ sum(f, Work) \in Nat
    BY <2>1, SumBounded, SumNat
  <2>3. Cardinality(Work) * 0 = 0
    BY <1>0, FS_CardinalityType
  <2> QED
    BY <2>2, <2>3
<1>5. sum(claim, Work) = 0 /\ sum(due(pc, claim, written), Work) = 0
  <2>1. \A x \in Work : claim[x] = 0 /\ due(pc, claim, written)[x] = 0
    BY DEF Init, due
  <2> QED
    BY <1>4, <2>1
<1>6. CountersRight
  BY <1>3, <1>5, FS_EmptySet DEF Init, CountersRight
<1>7. RoomLeft
  BY <1>0, <1>5 DEF Init, RoomLeft, room
<1> QED
  BY <1>1, <1>2, <1>6, <1>7 DEF AdmissionInv

\* uploadAdmission.ts, limits.ts, reservation.ts, whatever the numbers of requests
\* and copies, the limits and the sizes: no collection runs between an import and
\* its pin, whoever has nothing left to do holds no slot, claim or lease, the
\* counters are what the others hold, and the reserve stays free unless a reading
\* of the free space was used when it had become too large.
THEOREM AdmissionIsExact ==
  ASSUME BoundAssumption
  PROVE  Spec => []AdmissionExact
<1>1. Init => AdmissionInv
  BY AdmissionInitially
<1>2. AdmissionInv /\ [Next]_vars => AdmissionInv'
  BY AdmissionTypeStep, HeldRightStep, CountersRightStep, RoomLeftStep DEF AdmissionInv
<1>3. AdmissionInv => AdmissionExact
  <2> SUFFICES ASSUME AdmissionInv PROVE AdmissionExact
    OBVIOUS
  <2>1. NothingLeaks
    BY DEF AdmissionInv, HeldRight, UploadOK, CountersRight, slots, pulls, sum, NothingLeaks
  <2>2. SessionExcludesCollection
    BY DEF AdmissionInv, HeldRight, UploadOK, CopyOK, Work, SessionExcludesCollection
  <2>3. ReserveKept
    <3>1. AdmissionTypeOK /\ RoomLeft
      BY DEF AdmissionInv
    <3>2. Summable(due(pc, claim, written), Work)
      BY <3>1, Bounds DEF Summable, due, AdmissionTypeOK
    <3>3. sum(due(pc, claim, written), Work) \in Nat /\ Reserve \in Nat /\ Capacity \in Nat /\ free \in Nat
      BY <3>1, <3>2, Bounds, SumNat DEF AdmissionTypeOK
    <3> QED
      BY <3>1, <3>3 DEF RoomLeft, room, ReserveKept
  <2> QED
    BY <2>1, <2>2, <2>3 DEF AdmissionExact
<1> QED
  BY <1>1, <1>2, <1>3, PTL DEF Spec

-----------------------------------------------------------------------------
(* IntakeBudget *)

Reservations == [peer : Peers, time : 0..MaxTime, max : Nat, cost : Nat, settled : BOOLEAN]

BudgetTypeOK ==
  /\ now \in 0..MaxTime
  /\ bytes \in [Spenders -> [Starts -> Nat]] /\ requests \in [Spenders -> [Starts -> Nat]]
  /\ perPeer \subseteq Peers /\ IsFiniteSet(perPeer)
  /\ log \in Seq(Reservations)

LogOK == \A i \in DOMAIN log : /\ log[i].time <= now
                               /\ ~log[i].settled => log[i].cost = log[i].max

\* The reservations that were charged to x in a bucket of T.
ChargedTo(x, T) == {i \in DOMAIN log : /\ x = Total \/ log[i].peer = x
                                       /\ startedAt(log[i].time) \in T}

\* What the buckets of T say is what the reservations charged to them cost.
Ledger ==
  \A x \in Spenders, T \in SUBSET Starts :
    /\ sum(bytes[x], T) = sum(cost, ChargedTo(x, T))
    /\ sum(requests[x], T) = Cardinality(ChargedTo(x, T))

bytesLimit(x)    == IF x = Total THEN TotalBytes ELSE PerPeerBytes
requestsLimit(x) == IF x = Total THEN TotalRequests ELSE PerPeerRequests

InBudget == \A x \in Spenders : /\ totalBytes(x) <= bytesLimit(x)
                                /\ totalRequests(x) <= requestsLimit(x)

BudgetInv == BudgetTypeOK /\ LogOK /\ Ledger /\ InBudget /\ MapBounded

LEMMA WindowConstants ==
  ASSUME WindowAssumption
  PROVE  /\ Window \in Nat /\ Bucket \in Nat \ {0} /\ MaxTime \in Nat /\ MaxCost \in Nat
         /\ PerPeerBytes \in Nat /\ PerPeerRequests \in Nat
         /\ TotalBytes \in Nat /\ TotalRequests \in Nat
         /\ \A x : bytesLimit(x) \in Nat /\ requestsLimit(x) \in Nat
BY DEF WindowAssumption, bytesLimit, requestsLimit

\* A bucket contains the moments it is charged at.
LEMMA BucketOf ==
  ASSUME WindowAssumption, NEW t \in Nat
  PROVE  startedAt(t) \in Nat /\ startedAt(t) <= t /\ t < startedAt(t) + Bucket
<1> DEFINE n == Bucket  q == t \div n
<1>1. n \in Nat \ {0}
  BY WindowConstants
<1>2. q \in Nat /\ t % n \in 0..(n - 1) /\ t = n * q + (t % n)
  BY <1>1, SMT
<1>3. q * n = n * q /\ q * n \in Nat
  BY <1>1, <1>2, SMT
<1> HIDE DEF n, q
<1>4. q * n <= t /\ t < q * n + n
  BY <1>1, <1>2, <1>3
<1> QED
  BY <1>3, <1>4 DEF startedAt, n, q

LEMMA StartsFact ==
  ASSUME WindowAssumption
  PROVE  /\ IsFiniteSet(Starts) /\ Starts \subseteq Nat
         /\ \A t \in 0..MaxTime : startedAt(t) \in Starts
<1>1. IsFiniteSet(0..MaxTime)
  BY WindowConstants, FS_Interval
<1>2. IsFiniteSet({startedAt(t) : t \in 0..MaxTime})
  <2> DEFINE f == [t \in 0..MaxTime |-> startedAt(t)]
  <2>1. f \in Surjection(0..MaxTime, Starts)
    BY DEF Surjection, Starts
  <2> QED
    BY <1>1, <2>1, FS_Surjection DEF Starts
<1> QED
  BY <1>2, BucketOf, WindowConstants DEF Starts

\* A reservation goes up, and a settlement down, in two accounts at once.
share(x, y, p, q, s, d) == IF x \in {p, q} /\ y = s THEN d ELSE 0
raised(f, p, q, s, d) == [f EXCEPT ![p][s] = @ + d, ![q][s] = @ + d]

LEMMA TwoUp ==
  ASSUME NEW f, f \in [Spenders -> [Starts -> Nat]], NEW p \in Spenders, NEW q \in Spenders, p # q,
         NEW s \in Starts, NEW d \in Nat
  PROVE  /\ raised(f, p, q, s, d) \in [Spenders -> [Starts -> Nat]]
         /\ \A x \in Spenders : \A y \in Starts :
              raised(f, p, q, s, d)[x][y] = f[x][y] + share(x, y, p, q, s, d)
<1> DEFINE g == raised(f, p, q, s, d)
<1>1. f[p] \in [Starts -> Nat] /\ f[q] \in [Starts -> Nat]
  OBVIOUS
<1> DEFINE fp == [f[p] EXCEPT ![s] = @ + d]
           fq == [f[q] EXCEPT ![s] = @ + d]
<1>2. g = [f EXCEPT ![p] = fp, ![q] = fq]
  BY DEF raised
<1>3. /\ fp \in [Starts -> Nat] /\ \A y \in Starts : fp[y] = f[p][y] + IF y = s THEN d ELSE 0
      /\ fq \in [Starts -> Nat] /\ \A y \in Starts : fq[y] = f[q][y] + IF y = s THEN d ELSE 0
  BY <1>1
<1> HIDE DEF fp, fq, g
<1>4. g \in [Spenders -> [Starts -> Nat]]
  BY <1>2, <1>3
<1>5. \A x \in Spenders : g[x] = IF x = p THEN fp ELSE IF x = q THEN fq ELSE f[x]
  BY <1>2
<1>6. \A x \in Spenders : \A y \in Starts : f[x][y] \in Nat
  OBVIOUS
<1>7. ASSUME NEW x \in Spenders, NEW y \in Starts
      PROVE  g[x][y] = f[x][y] + share(x, y, p, q, s, d)
  <2>0. f[x][y] \in Nat
    BY <1>6
  <2>1. CASE x = p
    BY <1>3, <1>5, <2>0, <2>1 DEF share
  <2>2. CASE x = q
    BY <1>3, <1>5, <2>0, <2>2 DEF share
  <2>3. CASE x \notin {p, q}
    <3>1. g[x] = f[x]
      BY <1>5, <2>3
    <3> QED
      BY <2>0, <2>3, <3>1 DEF share
  <2> QED
    BY <2>1, <2>2, <2>3
<1> QED
  BY <1>4, <1>7 DEF g

lowered(f, p, q, s, d) == [f EXCEPT ![p][s] = @ - d, ![q][s] = @ - d]

LEMMA TwoDown ==
  ASSUME NEW f, f \in [Spenders -> [Starts -> Nat]], NEW p \in Spenders, NEW q \in Spenders, p # q,
         NEW s \in Starts, NEW d \in Nat, d <= f[p][s], d <= f[q][s]
  PROVE  /\ lowered(f, p, q, s, d) \in [Spenders -> [Starts -> Nat]]
         /\ \A x \in Spenders : \A y \in Starts :
              lowered(f, p, q, s, d)[x][y] = f[x][y] - share(x, y, p, q, s, d)
<1> DEFINE g == lowered(f, p, q, s, d)
<1>1. f[p] \in [Starts -> Nat] /\ f[q] \in [Starts -> Nat]
  OBVIOUS
<1> DEFINE fp == [f[p] EXCEPT ![s] = @ - d]
           fq == [f[q] EXCEPT ![s] = @ - d]
<1>2. g = [f EXCEPT ![p] = fp, ![q] = fq]
  BY DEF lowered
<1>3. /\ fp \in [Starts -> Nat] /\ \A y \in Starts : fp[y] = f[p][y] - IF y = s THEN d ELSE 0
      /\ fq \in [Starts -> Nat] /\ \A y \in Starts : fq[y] = f[q][y] - IF y = s THEN d ELSE 0
  BY <1>1
<1> HIDE DEF fp, fq, g
<1>4. g \in [Spenders -> [Starts -> Nat]]
  BY <1>2, <1>3
<1>5. \A x \in Spenders : g[x] = IF x = p THEN fp ELSE IF x = q THEN fq ELSE f[x]
  BY <1>2
<1>6. \A x \in Spenders : \A y \in Starts : f[x][y] \in Nat
  OBVIOUS
<1>7. ASSUME NEW x \in Spenders, NEW y \in Starts
      PROVE  g[x][y] = f[x][y] - share(x, y, p, q, s, d)
  <2>0. f[x][y] \in Nat
    BY <1>6
  <2>1. CASE x = p
    BY <1>3, <1>5, <2>0, <2>1 DEF share
  <2>2. CASE x = q
    BY <1>3, <1>5, <2>0, <2>2 DEF share
  <2>3. CASE x \notin {p, q}
    <3>1. g[x] = f[x]
      BY <1>5, <2>3
    <3> QED
      BY <2>0, <2>3, <3>1 DEF share
  <2> QED
    BY <2>1, <2>2, <2>3
<1> QED
  BY <1>4, <1>7 DEF g

LEMMA BucketsSummable ==
  ASSUME WindowAssumption, BudgetTypeOK, NEW x \in Spenders, NEW T \in SUBSET Starts
  PROVE  Summable(bytes[x], T) /\ Summable(requests[x], T)
BY StartsFact, FS_Subset DEF Summable, BudgetTypeOK

LEMMA LogFinite ==
  ASSUME BudgetTypeOK
  PROVE  /\ Len(log) \in Nat /\ DOMAIN log = 1..Len(log) /\ IsFiniteSet(DOMAIN log)
         /\ \A i \in DOMAIN log : log[i] \in Reservations
<1>1. Len(log) \in Nat /\ DOMAIN log = 1..Len(log) /\ \A i \in DOMAIN log : log[i] \in Reservations
  BY DEF BudgetTypeOK
<1> QED
  BY <1>1, FS_Interval

LEMMA CostsSummable ==
  ASSUME BudgetTypeOK, NEW S \in SUBSET DOMAIN log
  PROVE  Summable(cost, S) /\ \A i \in S : cost[i] = log[i].cost
<1>1. IsFiniteSet(S)
  BY LogFinite, FS_Subset
<1>2. \A i \in S : cost[i] = log[i].cost /\ log[i] \in Reservations
  BY LogFinite DEF cost
<1> QED
  BY <1>1, <1>2 DEF Summable, Reservations

LEMMA BudgetInitially == ASSUME WindowAssumption, BudgetInit PROVE BudgetInv
<1>1. BudgetTypeOK /\ LogOK
  BY WindowConstants, FS_EmptySet DEF BudgetInit, BudgetTypeOK, LogOK
<1>2. Ledger
  <2> SUFFICES ASSUME NEW x \in Spenders, NEW T \in SUBSET Starts
               PROVE  /\ sum(bytes[x], T) = sum(cost, ChargedTo(x, T))
                      /\ sum(requests[x], T) = Cardinality(ChargedTo(x, T))
    BY DEF Ledger
  <2>1. ChargedTo(x, T) = {}
    BY DEF BudgetInit, ChargedTo
  <2>2. IsFiniteSet(T) /\ \A s \in T : bytes[x][s] = 0 /\ requests[x][s] = 0
    BY StartsFact, FS_Subset DEF BudgetInit
  <2>3. sum(bytes[x], T) = 0 /\ sum(requests[x], T) = 0
    BY <2>2, SumOfNothing
  <2> QED
    BY <2>1, <2>3, SumEmpty, FS_EmptySet
<1>3. InBudget
  <2> SUFFICES ASSUME NEW x \in Spenders
               PROVE  totalBytes(x) <= bytesLimit(x) /\ totalRequests(x) <= requestsLimit(x)
    BY DEF InBudget
  <2> DEFINE T == {s \in Starts : InWindow(s)}
  <2>2. IsFiniteSet(T) /\ \A s \in T : bytes[x][s] = 0 /\ requests[x][s] = 0
    BY StartsFact, FS_Subset DEF BudgetInit
  <2>3. sum(bytes[x], T) = 0 /\ sum(requests[x], T) = 0
    <3> HIDE DEF T
    <3> QED BY <2>2, SumOfNothing
  <2> QED
    BY <2>3, WindowConstants DEF sum, totalBytes, totalRequests
<1>4. MapBounded
  BY WindowConstants, FS_EmptySet DEF MapBounded, BudgetInit
<1> QED
  BY <1>1, <1>2, <1>3, <1>4 DEF BudgetInv

\* One bucket changes.
LEMMA OneBucket ==
  ASSUME WindowAssumption, NEW f \in [Starts -> Nat], NEW h \in [Starts -> Nat],
         NEW s \in Starts, \A y \in Starts \ {s} : h[y] = f[y], NEW T \in SUBSET Starts
  PROVE  /\ sum(f, T) \in Nat /\ sum(h, T) \in Nat
         /\ s \in T => sum(h, T) = sum(f, T) - f[s] + h[s]
         /\ s \notin T => sum(h, T) = sum(f, T)
<1>1. Summable(f, T) /\ Summable(h, T)
  BY StartsFact, FS_Subset DEF Summable
<1>2. s \in T => sum(h, T) = sum(f, T) - f[s] + h[s]
  BY <1>1, SumUpdate
<1>3. s \notin T => sum(h, T) = sum(f, T)
  BY <1>1, SumSame
<1> QED
  BY <1>1, <1>2, <1>3, SumNat

live == {s \in Starts : InWindow(s)}

LEMMA Totals ==
  ASSUME NEW x
  PROVE  /\ totalBytes(x) = sum(bytes[x], live) /\ totalBytes(x)' = sum(bytes'[x], live')
         /\ totalRequests(x) = sum(requests[x], live)
         /\ totalRequests(x)' = sum(requests'[x], live')
<1>1. /\ totalBytes(x) = sum(bytes[x], live)
      /\ totalRequests(x) = sum(requests[x], live)
  BY DEF totalBytes, totalRequests, sum, live
<1>2. /\ (totalBytes(x) = sum(bytes[x], live))'
      /\ (totalRequests(x) = sum(requests[x], live))'
  BY <1>1, PTL
<1> QED
  BY <1>1, <1>2

LEMMA ReserveTypes ==
  ASSUME WindowAssumption, BudgetInv, NEW p \in Peers, NEW max \in 1..MaxCost, reserveIntake(p, max)
  PROVE  /\ BudgetTypeOK' /\ LogOK'
         /\ p \in Spenders /\ Total \in Spenders /\ p # Total
         /\ startedAt(now) \in Starts
         /\ \A x \in Spenders : \A s \in Starts :
              /\ bytes'[x][s] = bytes[x][s]
                   + IF x \in {p, Total} /\ s = startedAt(now) THEN max ELSE 0
              /\ requests'[x][s] = requests[x][s]
                   + IF x \in {p, Total} /\ s = startedAt(now) THEN 1 ELSE 0
<1>0. max \in Nat /\ now' = now /\ now \in 0..MaxTime
  BY WindowConstants DEF reserveIntake, BudgetInv, BudgetTypeOK
<1>1. p \in Spenders /\ Total \in Spenders /\ p # Total
  BY DEF Spenders, WindowAssumption
<1>2. startedAt(now) \in Starts
  BY StartsFact DEF BudgetInv, BudgetTypeOK
<1> DEFINE s0 == startedAt(now)
<1>2a. s0 \in Starts
  BY <1>2
<1>3. /\ bytes' \in [Spenders -> [Starts -> Nat]]
      /\ \A x \in Spenders : \A s \in Starts :
           bytes'[x][s] = bytes[x][s] + IF x \in {p, Total} /\ s = s0 THEN max ELSE 0
  <2>1. bytes' = raised(bytes, p, Total, s0, max)
    BY DEF reserveIntake, raised
  <2>2. bytes \in [Spenders -> [Starts -> Nat]]
    BY DEF BudgetInv, BudgetTypeOK
  <2> HIDE DEF s0
  <2>3. /\ raised(bytes, p, Total, s0, max) \in [Spenders -> [Starts -> Nat]]
        /\ \A x \in Spenders : \A y \in Starts :
             raised(bytes, p, Total, s0, max)[x][y]
               = bytes[x][y] + share(x, y, p, Total, s0, max)
    BY <1>0, <1>1, <1>2a, <2>2, TwoUp
  <2> QED
    BY <2>1, <2>3 DEF share
<1>4. /\ requests' \in [Spenders -> [Starts -> Nat]]
      /\ \A x \in Spenders : \A s \in Starts :
           requests'[x][s] = requests[x][s] + IF x \in {p, Total} /\ s = s0 THEN 1 ELSE 0
  <2> DEFINE n == 1
  <2>1. requests' = raised(requests, p, Total, s0, n)
    BY DEF reserveIntake, raised
  <2>2. requests \in [Spenders -> [Starts -> Nat]] /\ n \in Nat
    BY DEF BudgetInv, BudgetTypeOK
  <2> HIDE DEF s0, n
  <2>3. raised(requests, p, Total, s0, n) \in [Spenders -> [Starts -> Nat]]
    BY <1>1, <1>2a, <2>2, TwoUp
  <2>4. \A x \in Spenders : \A y \in Starts :
          raised(requests, p, Total, s0, n)[x][y] = requests[x][y] + share(x, y, p, Total, s0, n)
    BY <1>1, <1>2a, <2>2, TwoUp
  <2> QED
    BY <2>1, <2>3, <2>4 DEF share, n
<1> HIDE DEF s0
<1>5. perPeer' \subseteq Peers /\ IsFiniteSet(perPeer')
  <2>1. IsFiniteSet(perPeer \cup {p})
    BY FS_AddElement DEF BudgetInv, BudgetTypeOK
  <2>2. perPeer' \subseteq perPeer \cup {p}
    BY DEF reserveIntake, pruned
  <2> QED
    BY <2>1, <2>2, FS_Subset DEF BudgetInv, BudgetTypeOK
<1> DEFINE r == [peer |-> p, time |-> now, max |-> max, cost |-> max, settled |-> FALSE]
<1>6. r \in Reservations /\ log' = Append(log, r)
  BY <1>0 DEF reserveIntake, Reservations
<1>7. log' \in Seq(Reservations)
  BY <1>6 DEF BudgetInv, BudgetTypeOK
<1>8. LogOK'
  <2>1. Len(log) \in Nat /\ DOMAIN log = 1..Len(log) /\ DOMAIN log' = 1..(Len(log) + 1)
    BY <1>6 DEF BudgetInv, BudgetTypeOK
  <2>2. \A i \in DOMAIN log' : log'[i] = IF i \in DOMAIN log THEN log[i] ELSE r
    BY <1>6, <2>1 DEF BudgetInv, BudgetTypeOK
  <2> QED
    BY <1>0, <2>2 DEF LogOK, BudgetInv
<1> QED
  BY <1>0, <1>1, <1>2, <1>3, <1>4, <1>5, <1>7, <1>8 DEF BudgetTypeOK, s0

\* The new reservation is charged to its peer and to the node, in the bucket of now.
LEMMA ReserveCharged ==
  ASSUME WindowAssumption, BudgetInv, NEW p \in Peers, NEW max \in 1..MaxCost, reserveIntake(p, max),
         NEW x \in Spenders, NEW T \in SUBSET Starts
  PROVE  LET n == Len(log) + 1
         IN  /\ n \notin DOMAIN log
             /\ ChargedTo(x, T)' = IF x \in {p, Total} /\ startedAt(now) \in T
                                     THEN ChargedTo(x, T) \cup {n} ELSE ChargedTo(x, T)
             /\ \A i \in DOMAIN log : cost'[i] = cost[i]
             /\ cost'[n] = max
             /\ DOMAIN log' = DOMAIN log \cup {n}
<1> DEFINE r == [peer |-> p, time |-> now, max |-> max, cost |-> max, settled |-> FALSE]
           n == Len(log) + 1
<1>1. log' = Append(log, r) /\ log \in Seq(Reservations)
  BY DEF reserveIntake, BudgetInv, BudgetTypeOK
<1> HIDE DEF r
<1>2. /\ Len(log) \in Nat /\ DOMAIN log = 1..Len(log) /\ DOMAIN log' = 1..n
      /\ \A i \in 1..Len(log) : log'[i] = log[i]
      /\ log'[n] = r
  BY <1>1
<1>3. n \notin DOMAIN log /\ DOMAIN log' = DOMAIN log \cup {n}
  BY <1>2
<1>4. /\ \A i \in DOMAIN log : cost'[i] = cost[i]
      /\ cost'[n] = max
  BY <1>2, <1>3 DEF cost, r
<1>5. ChargedTo(x, T)' = IF x \in {p, Total} /\ startedAt(now) \in T
                           THEN ChargedTo(x, T) \cup {n} ELSE ChargedTo(x, T)
  <2>1. r.peer = p /\ r.time = now
    BY DEF r
  <2>2. \A i \in DOMAIN log : log'[i] = log[i]
    BY <1>2
  <2>3. \A i : i \in ChargedTo(x, T)' <=>
                 i \in DOMAIN log \cup {n} /\ (x = Total \/ log'[i].peer = x)
                   /\ startedAt(log'[i].time) \in T
    BY <1>3 DEF ChargedTo, startedAt
  <2>4. \A i : i \in ChargedTo(x, T) <=>
                 i \in DOMAIN log /\ (x = Total \/ log[i].peer = x) /\ startedAt(log[i].time) \in T
    BY DEF ChargedTo
  <2> QED
    BY <1>2, <1>3, <2>1, <2>2, <2>3, <2>4
<1> QED
  BY <1>3, <1>4, <1>5

LEMMA ReserveLedger ==
  ASSUME WindowAssumption, BudgetInv, NEW p \in Peers, NEW max \in 1..MaxCost, reserveIntake(p, max),
         NEW x \in Spenders, NEW T \in SUBSET Starts
  PROVE  LET more == x \in {p, Total} /\ startedAt(now) \in T
         IN  /\ sum(bytes'[x], T) = sum(bytes[x], T) + IF more THEN max ELSE 0
             /\ sum(requests'[x], T) = sum(requests[x], T) + IF more THEN 1 ELSE 0
             /\ sum(bytes'[x], T) = sum(cost', ChargedTo(x, T)')
             /\ sum(requests'[x], T) = Cardinality(ChargedTo(x, T)')
             /\ sum(bytes[x], T) \in Nat /\ sum(requests[x], T) \in Nat
<1> DEFINE s == startedAt(now)
           n == Len(log) + 1
           C == ChargedTo(x, T)
           D == ChargedTo(x, T)'
<1>0. max \in Nat /\ s \in Starts /\ BudgetTypeOK /\ BudgetTypeOK'
  BY WindowConstants, ReserveTypes DEF BudgetInv
<1>1. /\ bytes[x] \in [Starts -> Nat] /\ bytes'[x] \in [Starts -> Nat]
      /\ requests[x] \in [Starts -> Nat] /\ requests'[x] \in [Starts -> Nat]
  BY <1>0 DEF BudgetTypeOK
<1>2. \A y \in Starts \ {s} : bytes'[x][y] = bytes[x][y] /\ requests'[x][y] = requests[x][y]
  BY <1>1, ReserveTypes
<1>3. /\ bytes'[x][s] = bytes[x][s] + IF x \in {p, Total} THEN max ELSE 0
      /\ requests'[x][s] = requests[x][s] + IF x \in {p, Total} THEN 1 ELSE 0
  BY <1>0, ReserveTypes
<1>4. /\ sum(bytes[x], T) \in Nat /\ sum(bytes'[x], T) \in Nat
      /\ s \in T => sum(bytes'[x], T) = sum(bytes[x], T) - bytes[x][s] + bytes'[x][s]
      /\ s \notin T => sum(bytes'[x], T) = sum(bytes[x], T)
  BY <1>0, <1>1, <1>2, OneBucket
<1>5. /\ sum(requests[x], T) \in Nat /\ sum(requests'[x], T) \in Nat
      /\ s \in T => sum(requests'[x], T) = sum(requests[x], T) - requests[x][s] + requests'[x][s]
      /\ s \notin T => sum(requests'[x], T) = sum(requests[x], T)
  BY <1>0, <1>1, <1>2, OneBucket
<1>5a. bytes[x][s] \in Nat /\ requests[x][s] \in Nat
  BY <1>0, <1>1
<1> DEFINE more == x \in {p, Total} /\ s \in T
<1>6. /\ sum(bytes'[x], T) = sum(bytes[x], T) + IF more THEN max ELSE 0
      /\ sum(requests'[x], T) = sum(requests[x], T) + IF more THEN 1 ELSE 0
  BY <1>0, <1>3, <1>4, <1>5, <1>5a
<1>7. /\ sum(bytes[x], T) = sum(cost, C) /\ sum(requests[x], T) = Cardinality(C)
  BY DEF BudgetInv, Ledger
<1>8. /\ n \notin DOMAIN log /\ DOMAIN log' = DOMAIN log \cup {n}
      /\ D = IF more THEN C \cup {n} ELSE C
      /\ \A i \in DOMAIN log : cost'[i] = cost[i]
      /\ cost'[n] = max
  BY ReserveCharged
<1>9. C \subseteq DOMAIN log /\ IsFiniteSet(C) /\ D \subseteq DOMAIN log'
  BY <1>0, <1>8, LogFinite, FS_Subset DEF ChargedTo
<1>10. Summable(cost, C) /\ Summable(cost', D) /\ Summable(cost', C)
  <2>1. Summable(cost, C)
    BY <1>0, <1>9, CostsSummable
  <2>2. Summable(cost', C)
    BY <1>8, <1>9, <2>1 DEF Summable
  <2>3. Summable(cost', D)
    BY <1>0, <1>8, <1>9, <2>2, FS_AddElement DEF Summable
  <2> QED
    BY <2>1, <2>2, <2>3
<1> HIDE DEF C, D, n, s
<1>11. sum(cost', C) = sum(cost, C)
  BY <1>8, <1>9, <1>10, SumSame
<1>12. /\ sum(cost', D) = sum(cost, C) + IF more THEN max ELSE 0
       /\ Cardinality(D) = Cardinality(C) + IF more THEN 1 ELSE 0
  <2>1. n \notin C
    BY <1>8, <1>9
  <2>2. sum(cost, C) \in Nat /\ Cardinality(C) \in Nat
    BY <1>9, <1>10, SumNat, FS_CardinalityType
  <2>3. CASE more
    <3>1. D = C \cup {n}
      BY <1>8, <2>3
    <3>2. sum(cost', D) = max + sum(cost', C)
      BY <1>8, <1>10, <2>1, <3>1, SumAdd
    <3>3. Cardinality(D) = Cardinality(C) + 1
      BY <1>9, <2>1, <3>1, FS_AddElement
    <3> QED
      BY <1>0, <1>11, <2>2, <2>3, <3>2, <3>3
  <2>4. CASE ~more
    BY <1>0, <1>8, <1>11, <2>2, <2>4
  <2> QED
    BY <2>3, <2>4
<1> QED
  BY <1>4, <1>5, <1>6, <1>7, <1>12 DEF s, C, D

\* Every peer but p that the map keeps has been charged for a reservation that
\* still counts.
LEMMA SpentPeers ==
  ASSUME WindowAssumption, BudgetInv, NEW S \in SUBSET Peers, \A q \in S : spent(q)
  PROVE  IsFiniteSet(S) /\ Cardinality(S) \in Nat /\ Cardinality(S) <= totalRequests(Total)
<1> DEFINE C == ChargedTo(Total, live)
           f == [i \in C |-> log[i].peer]
           R == {f[i] : i \in C}
<1>0. BudgetTypeOK /\ Ledger /\ Total \in Spenders /\ Peers \subseteq Spenders /\ Total \notin Peers
      /\ live \in SUBSET Starts
  BY DEF BudgetInv, Spenders, WindowAssumption, live
<1>1. IsFiniteSet(C)
  BY <1>0, LogFinite, FS_Subset DEF ChargedTo
<1>2. Cardinality(C) = totalRequests(Total)
  BY <1>0, Totals DEF Ledger
<1>3. IsFiniteSet(R) /\ Cardinality(R) <= Cardinality(C)
  <2>1. f \in Surjection(C, R)
    BY DEF Surjection
  <2> HIDE DEF C, f, R
  <2> QED
    BY <1>1, <2>1, FS_Surjection
<1>4. ASSUME NEW q \in S PROVE q \in R
  <2>1. PICK s \in Starts : InWindow(s) /\ requests[q][s] > 0
    BY <1>4 DEF spent
  <2>2. q \in Spenders /\ q # Total
    BY <1>0
  <2>3. sum(requests[q], {s}) = requests[q][s]
    <3>1. Summable(requests[q], {s}) /\ requests[q][s] \in Nat
      BY <1>0, <2>2, BucketsSummable DEF BudgetTypeOK
    <3>2. sum(requests[q], {s}) = requests[q][s] + sum(requests[q], {s} \ {s})
      BY <3>1, SumSplit
    <3>3. sum(requests[q], {s} \ {s}) = 0
      BY SumEmpty
    <3> QED
      BY <3>1, <3>2, <3>3
  <2>4. Cardinality(ChargedTo(q, {s})) = requests[q][s]
    BY <1>0, <2>2, <2>3 DEF Ledger
  <2>5. ChargedTo(q, {s}) # {}
    BY <2>1, <2>4, FS_EmptySet
  <2>6. PICK i \in ChargedTo(q, {s}) : TRUE
    BY <2>5
  <2>7. i \in C /\ log[i].peer = q
    BY <2>1, <2>2, <2>6 DEF ChargedTo, live
  <2> QED
    BY <2>7
<1>5. IsFiniteSet(S) /\ Cardinality(S) <= Cardinality(R)
  <2>1. S \subseteq R
    BY <1>4
  <2> HIDE DEF R
  <2> QED
    BY <1>3, <2>1, FS_Subset
<1>6. Cardinality(S) \in Nat /\ Cardinality(R) \in Nat /\ Cardinality(C) \in Nat
  <2> HIDE DEF R, C
  <2> QED BY <1>1, <1>3, <1>5, FS_CardinalityType
<1> QED
  BY <1>2, <1>3, <1>5, <1>6

LEMMA ReserveStep ==
  ASSUME WindowAssumption, BudgetInv, NEW p \in Peers, NEW max \in 1..MaxCost, reserveIntake(p, max)
  PROVE  BudgetInv'
<1>1. BudgetTypeOK' /\ LogOK' /\ p \in Spenders /\ Total \in Spenders /\ p # Total
      /\ startedAt(now) \in Starts
  BY ReserveTypes
<1>2. Ledger'
  BY ReserveLedger DEF Ledger
<1>3. live' = live /\ live \in SUBSET Starts /\ startedAt(now) \in live
  <2>1. now' = now /\ now \in Nat
    BY WindowConstants DEF reserveIntake, BudgetInv, BudgetTypeOK
  <2>2. now < startedAt(now) + Bucket /\ startedAt(now) \in Nat
    BY <2>1, BucketOf
  <2>3. InWindow(startedAt(now))
    BY <2>1, <2>2, WindowConstants DEF InWindow
  <2> QED
    BY <1>1, <2>1, <2>3 DEF live, InWindow
<1>4. InBudget'
  <2> SUFFICES ASSUME NEW x \in Spenders
               PROVE  /\ totalBytes(x)' <= bytesLimit(x)
                      /\ totalRequests(x)' <= requestsLimit(x)
    BY DEF InBudget, bytesLimit, requestsLimit
  <2>1. /\ totalBytes(x) = sum(bytes[x], live) /\ totalRequests(x) = sum(requests[x], live)
        /\ totalBytes(x)' = sum(bytes'[x], live) /\ totalRequests(x)' = sum(requests'[x], live)
    BY <1>3, Totals
  <2>2. /\ sum(bytes'[x], live) = sum(bytes[x], live) + IF x \in {p, Total} THEN max ELSE 0
        /\ sum(requests'[x], live) = sum(requests[x], live) + IF x \in {p, Total} THEN 1 ELSE 0
        /\ sum(bytes[x], live) \in Nat /\ sum(requests[x], live) \in Nat
    BY <1>3, ReserveLedger
  <2>3. totalBytes(x) <= bytesLimit(x) /\ totalRequests(x) <= requestsLimit(x)
    BY DEF BudgetInv, InBudget
  <2>4. CASE x \in {p, Total}
    <3>1. totalBytes(x) + max <= bytesLimit(x) /\ totalRequests(x) < requestsLimit(x)
      BY <1>1, <2>4 DEF reserveIntake, Covers, bytesLimit, requestsLimit
    <3> QED
      BY <2>1, <2>2, <2>4, <3>1, WindowConstants
  <2>5. CASE x \notin {p, Total}
    BY <2>1, <2>2, <2>3, <2>5
  <2> QED
    BY <2>4, <2>5
<1>5. MapBounded'
  <2> DEFINE known == perPeer \cup {p}
  <2>1. perPeer' = IF Cardinality(known) > TotalRequests
                     THEN {q \in known : q = p \/ spent(q)} ELSE known
    BY DEF reserveIntake, pruned
  <2>2. known \subseteq Peers /\ IsFiniteSet(known) /\ Cardinality(known) \in Nat
    BY FS_AddElement, FS_CardinalityType DEF BudgetInv, BudgetTypeOK
  <2>3. CASE Cardinality(known) > TotalRequests
    <3> DEFINE S == {q \in known : q # p /\ spent(q)}
    <3>1. IsFiniteSet(S) /\ Cardinality(S) \in Nat /\ Cardinality(S) <= totalRequests(Total)
      BY <2>2, SpentPeers
    <3>2. perPeer' = S \cup {p} /\ p \notin S
      BY <2>1, <2>3
    <3>3. Cardinality(perPeer') = Cardinality(S) + 1
      <4> HIDE DEF S
      <4> QED BY <3>1, <3>2, FS_AddElement
    <3>4. totalRequests(Total) < TotalRequests
      BY DEF reserveIntake, Covers
    <3>5. totalRequests(Total) \in Nat
      <4>1. totalRequests(Total) = sum(requests[Total], live)
        BY Totals
      <4>2. sum(requests[Total], live) \in Nat
        BY <1>1, <1>3, ReserveLedger
      <4> QED
        BY <4>1, <4>2
    <3> HIDE DEF S
    <3> QED
      BY <3>1, <3>3, <3>4, <3>5, WindowConstants DEF MapBounded
  <2>4. CASE ~(Cardinality(known) > TotalRequests)
    <3>1. perPeer' = known
      BY <2>1, <2>4
    <3> HIDE DEF known
    <3> QED
      BY <2>2, <2>4, <3>1, WindowConstants DEF MapBounded
  <2> QED
    BY <2>3, <2>4
<1> QED
  BY <1>1, <1>2, <1>4, <1>5 DEF BudgetInv

\* A settled reservation keeps its peer and its bucket; their two accounts get back
\* what was not used, and hold at least that much.
LEMMA SettleTypes ==
  ASSUME WindowAssumption, BudgetInv, NEW i \in DOMAIN log, NEW used \in 0..log[i].max, settleIntake(i, used)
  PROVE  /\ log[i].peer \in Spenders /\ Total \in Spenders
         /\ startedAt(log[i].time) \in Starts
         /\ log[i].max \in Nat /\ used \in Nat /\ used <= log[i].max
         /\ cost[i] = log[i].max /\ cost'[i] = used
         /\ DOMAIN log' = DOMAIN log
         /\ \A j \in DOMAIN log \ {i} : cost'[j] = cost[j]
         /\ \A x, T : ChargedTo(x, T)' = ChargedTo(x, T)
         /\ BudgetTypeOK' /\ LogOK' /\ live' = live /\ requests' = requests
         /\ \A x \in Spenders : \A s \in Starts :
              bytes'[x][s] = bytes[x][s]
                - share(x, s, log[i].peer, Total, startedAt(log[i].time), log[i].max - used)
<1> DEFINE r == log[i]
           p == r.peer
           s0 == startedAt(r.time)
           d == r.max - used
<1>1. /\ BudgetTypeOK /\ LogOK /\ Ledger
      /\ Len(log) \in Nat /\ DOMAIN log = 1..Len(log) /\ r \in Reservations
  BY LogFinite DEF BudgetInv
<1>2. /\ p \in Peers /\ p \in Spenders /\ Total \in Spenders /\ p # Total
      /\ r.max \in Nat /\ used \in Nat /\ used <= r.max /\ d \in Nat /\ d <= r.max
  BY <1>1 DEF Reservations, Spenders, WindowAssumption
<1>3. s0 \in Starts
  BY <1>1, StartsFact DEF Reservations
<1>4. cost[i] = r.max
  BY <1>1 DEF settleIntake, LogOK, cost
<1>5. ASSUME NEW x \in {p, Total} PROVE d <= bytes[x][s0]
  <2> DEFINE C == ChargedTo(x, {s0})
  <2>1. sum(bytes[x], {s0}) = sum(cost, C)
    BY <1>1, <1>2, <1>3, <1>5 DEF Ledger
  <2>2. bytes[x][s0] \in Nat /\ Summable(bytes[x], {s0})
    BY <1>1, <1>2, <1>3, <1>5, BucketsSummable DEF BudgetTypeOK
  <2>3. sum(bytes[x], {s0}) = bytes[x][s0] + sum(bytes[x], {s0} \ {s0})
    BY <2>2, SumSplit
  <2>4. sum(bytes[x], {s0} \ {s0}) = 0
    BY SumEmpty
  <2>5. i \in C /\ C \subseteq DOMAIN log
    BY <1>5 DEF ChargedTo
  <2>6. Summable(cost, C)
    BY <1>1, <2>5, CostsSummable
  <2> HIDE DEF C, s0
  <2>7. sum(cost, C) = cost[i] + sum(cost, C \ {i})
    BY <2>5, <2>6, SumSplit
  <2>8. sum(cost, C \ {i}) \in Nat
    BY <2>6, SumSubset
  <2> QED
    BY <1>2, <1>4, <2>1, <2>2, <2>3, <2>4, <2>7, <2>8
<1>6. /\ bytes' \in [Spenders -> [Starts -> Nat]]
      /\ \A x \in Spenders : \A s \in Starts :
           bytes'[x][s] = bytes[x][s] - share(x, s, p, Total, s0, d)
  <2>1. bytes' = lowered(bytes, p, Total, s0, d)
    BY DEF settleIntake, lowered
  <2>2. bytes \in [Spenders -> [Starts -> Nat]] /\ d <= bytes[p][s0] /\ d <= bytes[Total][s0]
    BY <1>1, <1>5 DEF BudgetTypeOK
  <2> HIDE DEF p, s0, d
  <2>3. lowered(bytes, p, Total, s0, d) \in [Spenders -> [Starts -> Nat]]
    BY <1>2, <1>3, <2>2, TwoDown
  <2>4. \A x \in Spenders : \A y \in Starts :
          lowered(bytes, p, Total, s0, d)[x][y] = bytes[x][y] - share(x, y, p, Total, s0, d)
    BY <1>2, <1>3, <2>2, TwoDown
  <2> QED
    BY <2>1, <2>3, <2>4
<1> DEFINE q == [r EXCEPT !.cost = used, !.settled = TRUE]
<1>7. log' = [log EXCEPT ![i] = q]
  BY DEF settleIntake
<1>8. /\ q \in Reservations /\ q.peer = r.peer /\ q.time = r.time /\ q.cost = used /\ q.settled
  BY <1>1, <1>2 DEF Reservations
<1>9. /\ log' \in Seq(Reservations) /\ DOMAIN log' = DOMAIN log
      /\ log'[i] = q /\ \A j \in DOMAIN log \ {i} : log'[j] = log[j]
  <2> HIDE DEF q
  <2> QED BY <1>1, <1>7, <1>8 DEF BudgetTypeOK
<1> HIDE DEF q
<1>10. cost'[i] = used /\ \A j \in DOMAIN log \ {i} : cost'[j] = cost[j]
  BY <1>8, <1>9 DEF cost
<1>11. ASSUME NEW x, NEW T PROVE ChargedTo(x, T)' = ChargedTo(x, T)
  BY <1>8, <1>9 DEF ChargedTo
<1>12. live' = live /\ requests' = requests
  BY DEF settleIntake, live, InWindow
<1>13. BudgetTypeOK'
  BY <1>1, <1>6, <1>9 DEF settleIntake, BudgetTypeOK
<1>14. LogOK'
  BY <1>1, <1>8, <1>9 DEF settleIntake, LogOK
<1> QED
  BY <1>2, <1>3, <1>4, <1>6, <1>9, <1>10, <1>11, <1>12, <1>13, <1>14

LEMMA SettleStep ==
  ASSUME WindowAssumption, BudgetInv, NEW i \in DOMAIN log, NEW used \in 0..log[i].max, settleIntake(i, used)
  PROVE  BudgetInv'
<1> DEFINE p == log[i].peer
           s == startedAt(log[i].time)
           d == log[i].max - used
<1>1. /\ BudgetTypeOK' /\ LogOK' /\ live' = live /\ requests' = requests
      /\ BudgetTypeOK /\ Ledger /\ s \in Starts /\ d \in Nat /\ live \in SUBSET Starts
      /\ used \in Nat /\ cost[i] = used + d /\ cost'[i] = used
  BY SettleTypes DEF BudgetInv, live
<1>2. ASSUME NEW x \in Spenders, NEW T \in SUBSET Starts
      PROVE  /\ sum(bytes'[x], T) = sum(cost', ChargedTo(x, T)')
             /\ sum(requests'[x], T) = Cardinality(ChargedTo(x, T)')
             /\ sum(bytes'[x], T) <= sum(bytes[x], T)
  <2> DEFINE C == ChargedTo(x, T)
             more == x \in {p, Total} /\ s \in T
  <2>1. ChargedTo(x, T)' = C /\ (i \in C <=> more) /\ C \subseteq DOMAIN log /\ DOMAIN log' = DOMAIN log
    <3>1. i \in C <=> more
      BY DEF ChargedTo
    <3>2. C \subseteq DOMAIN log
      BY DEF ChargedTo
    <3> QED
      BY <3>1, <3>2, SettleTypes
  <2>2. Summable(cost, C) /\ Summable(cost', C) /\ sum(cost, C) \in Nat
    <3>1. Summable(cost, C) /\ IsFiniteSet(C)
      BY <1>1, <2>1, CostsSummable DEF Summable
    <3>2. \A j \in C : cost'[j] \in Nat
      BY <1>1, <2>1, <3>1, SettleTypes DEF Summable
    <3> HIDE DEF C
    <3> QED
      BY <3>1, <3>2, SumNat DEF Summable
  <2>3. sum(bytes[x], T) = sum(cost, C) /\ sum(requests[x], T) = Cardinality(C)
    BY <1>1 DEF Ledger
  <2>4. bytes[x] \in [Starts -> Nat] /\ bytes'[x] \in [Starts -> Nat]
    BY <1>1 DEF BudgetTypeOK
  <2>5. \A y \in Starts : bytes'[x][y] = bytes[x][y] - share(x, y, p, Total, s, d)
    BY SettleTypes
  <2>6. /\ \A y \in Starts \ {s} : bytes'[x][y] = bytes[x][y]
        /\ bytes'[x][s] = bytes[x][s] - IF x \in {p, Total} THEN d ELSE 0
    BY <1>1, <2>4, <2>5 DEF share
  <2>7. /\ sum(bytes[x], T) \in Nat /\ sum(bytes'[x], T) \in Nat
        /\ s \in T => sum(bytes'[x], T) = sum(bytes[x], T) - bytes[x][s] + bytes'[x][s]
        /\ s \notin T => sum(bytes'[x], T) = sum(bytes[x], T)
    BY <1>1, <2>4, <2>6, OneBucket
  <2>8. bytes[x][s] \in Nat
    BY <1>1, <2>4
  <2>9. sum(bytes'[x], T) = sum(bytes[x], T) - IF more THEN d ELSE 0
    BY <1>1, <2>6, <2>7, <2>8
  <2>10. sum(cost', C) = sum(cost, C) - IF more THEN d ELSE 0
    <3>1. \A j \in C \ {i} : cost'[j] = cost[j]
      BY <2>1, SettleTypes
    <3> HIDE DEF C
    <3>2. CASE i \in C
      <4>1. sum(cost', C) = sum(cost, C) - cost[i] + cost'[i]
        BY <2>2, <3>1, <3>2, SumUpdate
      <4> QED
        BY <1>1, <2>1, <2>2, <3>2, <4>1
    <3>3. CASE i \notin C
      <4>1. sum(cost', C) = sum(cost, C)
        BY <2>2, <3>1, <3>3, SumSame
      <4> QED
        BY <2>1, <2>2, <3>3, <4>1
    <3> QED
      BY <3>2, <3>3
  <2> HIDE DEF C, more
  <2> QED
    BY <1>1, <2>1, <2>3, <2>7, <2>9, <2>10
<1>3. Ledger'
  BY <1>2 DEF Ledger
<1>4. ASSUME NEW x \in Spenders
      PROVE  totalBytes(x)' <= bytesLimit(x) /\ totalRequests(x)' <= requestsLimit(x)
  <2>1. /\ totalBytes(x) = sum(bytes[x], live) /\ totalBytes(x)' = sum(bytes'[x], live)
        /\ totalRequests(x)' = totalRequests(x)
    BY <1>1, Totals
  <2>2. totalBytes(x) <= bytesLimit(x) /\ totalRequests(x) <= requestsLimit(x)
    BY DEF BudgetInv, InBudget
  <2>3. sum(bytes'[x], live) <= sum(bytes[x], live)
    BY <1>1, <1>2
  <2>4. sum(bytes[x], live) \in Nat /\ sum(bytes'[x], live) \in Nat
    <3>1. Summable(bytes[x], live) /\ Summable(bytes'[x], live)
      <4>1. bytes[x] \in [Starts -> Nat] /\ bytes'[x] \in [Starts -> Nat]
        BY <1>1 DEF BudgetTypeOK
      <4>2. IsFiniteSet(live)
        BY <1>1, StartsFact, FS_Subset
      <4> QED
        BY <1>1, <4>1, <4>2 DEF Summable
    <3> QED BY <3>1, SumNat
  <2> QED
    BY <2>1, <2>2, <2>3, <2>4, WindowConstants
<1>5. MapBounded'
  BY DEF settleIntake, BudgetInv, MapBounded
<1> QED
  BY <1>1, <1>3, <1>4, <1>5 DEF BudgetInv, InBudget, bytesLimit, requestsLimit

LEMMA AdvanceStep ==
  ASSUME WindowAssumption, BudgetInv, Advance
  PROVE  BudgetInv'
<1>1. /\ BudgetTypeOK /\ now' = now + 1 /\ now \in Nat /\ bytes' = bytes /\ requests' = requests
      /\ log' = log /\ perPeer' = perPeer
  BY WindowConstants DEF BudgetInv, BudgetTypeOK, Advance
<1>2. BudgetTypeOK' /\ LogOK' /\ Ledger' /\ MapBounded'
  <2>1. BudgetTypeOK'
    BY <1>1, WindowConstants DEF BudgetTypeOK, Advance
  <2>2. LogOK'
    BY <1>1, LogFinite DEF BudgetInv, LogOK, Reservations
  <2>3. cost' = cost /\ \A x, T : ChargedTo(x, T)' = ChargedTo(x, T)
    BY <1>1 DEF cost, ChargedTo
  <2>4. Ledger'
    BY <1>1, <2>3 DEF BudgetInv, Ledger
  <2> QED
    BY <1>1, <2>1, <2>2, <2>4 DEF BudgetInv, MapBounded
<1>3. live' \subseteq live
  BY <1>1, WindowConstants, StartsFact DEF live, InWindow
<1>4. ASSUME NEW x \in Spenders
      PROVE  totalBytes(x)' <= bytesLimit(x) /\ totalRequests(x)' <= requestsLimit(x)
  <2>1. Summable(bytes[x], live) /\ Summable(requests[x], live)
    BY <1>1, BucketsSummable DEF live
  <2>2. /\ sum(bytes[x], live') <= sum(bytes[x], live)
        /\ sum(bytes[x], live) \in Nat /\ sum(bytes[x], live') \in Nat
    BY <1>3, <2>1, SumSubset
  <2>3. /\ sum(requests[x], live') <= sum(requests[x], live)
        /\ sum(requests[x], live) \in Nat /\ sum(requests[x], live') \in Nat
    BY <1>3, <2>1, SumSubset
  <2>4. totalBytes(x) <= bytesLimit(x) /\ totalRequests(x) <= requestsLimit(x)
    BY DEF BudgetInv, InBudget
  <2> QED
    BY <1>1, <2>2, <2>3, <2>4, Totals, WindowConstants
<1> QED
  BY <1>2, <1>4 DEF BudgetInv, InBudget, bytesLimit, requestsLimit

LEMMA BudgetStep ==
  ASSUME WindowAssumption, BudgetInv, [BudgetNext]_budgetVars
  PROVE  BudgetInv'
<1>1. CASE UNCHANGED budgetVars
  <2>1. now' = now /\ bytes' = bytes /\ requests' = requests /\ log' = log /\ perPeer' = perPeer
    BY <1>1 DEF budgetVars
  <2>2. BudgetTypeOK' /\ LogOK' /\ MapBounded'
    BY <2>1 DEF BudgetInv, BudgetTypeOK, LogOK, MapBounded
  <2>3. cost' = cost /\ \A x, T : ChargedTo(x, T)' = ChargedTo(x, T)
    BY <2>1 DEF cost, ChargedTo
  <2>4. Ledger'
    BY <2>1, <2>3 DEF BudgetInv, Ledger
  <2>5. live' = live
    BY <2>1 DEF live, InWindow
  <2>6. InBudget'
    BY <2>1, <2>5, Totals DEF BudgetInv, InBudget, bytesLimit, requestsLimit
  <2> QED
    BY <2>2, <2>4, <2>6 DEF BudgetInv
<1> QED
  BY <1>1, ReserveStep, SettleStep, AdvanceStep DEF BudgetNext

\* A reservation of the last window counts in full, and what counts is no older
\* than a window and a bucket.
LEMMA WindowCovered ==
  ASSUME WindowAssumption, BudgetInv, NEW x \in Spenders, NEW ps,
         ps = IF x = Total THEN Peers ELSE {x}
  PROVE  /\ Cost(Recent(ps, Window)) <= bytesLimit(x)
         /\ Cardinality(Recent(ps, Window)) <= requestsLimit(x)
         /\ totalBytes(x) <= Cost(Recent(ps, Window + Bucket))
<1> DEFINE C == ChargedTo(x, live)
           R == Recent(ps, Window)
           L == Recent(ps, Window + Bucket)
<1>1. /\ BudgetTypeOK /\ Ledger /\ now \in Nat /\ live \in SUBSET Starts
      /\ totalBytes(x) <= bytesLimit(x) /\ totalRequests(x) <= requestsLimit(x)
      /\ bytesLimit(x) \in Nat /\ requestsLimit(x) \in Nat
  BY WindowConstants DEF BudgetInv, BudgetTypeOK, InBudget, live
<1>2. ASSUME NEW i \in DOMAIN log
      PROVE  /\ log[i].peer \in Peers /\ log[i].time \in Nat
             /\ startedAt(log[i].time) \in Starts /\ startedAt(log[i].time) \in Nat
             /\ startedAt(log[i].time) <= log[i].time
             /\ log[i].time < startedAt(log[i].time) + Bucket
             /\ log[i].peer \in ps <=> (x = Total \/ log[i].peer = x)
  <2>1. log[i].peer \in Peers /\ log[i].time \in 0..MaxTime
    BY <1>1, LogFinite DEF Reservations
  <2>2. log[i].time \in Nat
    BY <2>1, WindowConstants
  <2> QED
    BY <2>1, <2>2, BucketOf, StartsFact
<1>3. R \subseteq C
  <2> SUFFICES ASSUME NEW i \in R PROVE i \in C
    OBVIOUS
  <2>1. i \in DOMAIN log /\ log[i].peer \in ps /\ log[i].time + Window > now
    BY DEF Recent
  <2>2. InWindow(startedAt(log[i].time))
    BY <1>1, <1>2, <2>1, WindowConstants DEF InWindow
  <2> QED
    BY <1>2, <2>1, <2>2 DEF ChargedTo, live
<1>4. C \subseteq L
  <2> SUFFICES ASSUME NEW i \in C PROVE i \in L
    OBVIOUS
  <2>1. /\ i \in DOMAIN log /\ (x = Total \/ log[i].peer = x)
        /\ startedAt(log[i].time) + Bucket + Window > now
    BY DEF ChargedTo, live, InWindow
  <2>2. log[i].time + (Window + Bucket) > now
    BY <1>1, <1>2, <2>1, WindowConstants
  <2> QED
    BY <1>2, <2>1, <2>2 DEF Recent
<1>5. C \in SUBSET DOMAIN log /\ L \in SUBSET DOMAIN log
  BY DEF ChargedTo, Recent
<1>6. /\ totalBytes(x) = sum(cost, C)
      /\ totalRequests(x) = Cardinality(C)
  BY <1>1, Totals DEF Ledger
<1>7. Summable(cost, C) /\ Summable(cost, L)
  BY <1>1, <1>5, CostsSummable
<1>8. Cost(R) = sum(cost, R) /\ Cost(L) = sum(cost, L)
  BY DEF Cost, sum
<1> HIDE DEF C, R, L
<1>9. sum(cost, R) <= sum(cost, C) /\ sum(cost, R) \in Nat /\ sum(cost, C) \in Nat
  BY <1>3, <1>7, SumSubset
<1>10. sum(cost, C) <= sum(cost, L) /\ sum(cost, L) \in Nat
  BY <1>4, <1>7, SumSubset
<1>11. Cardinality(R) <= Cardinality(C) /\ Cardinality(R) \in Nat /\ Cardinality(C) \in Nat
  BY <1>3, <1>7, FS_Subset, FS_CardinalityType DEF Summable
<1> QED
  BY <1>1, <1>6, <1>8, <1>9, <1>10, <1>11 DEF R, L

LEMMA BudgetHolds ==
  ASSUME WindowAssumption, BudgetInv
  PROVE  SpendBounded /\ OnlyRecentSpendCounts /\ MapBounded
<1>1. Total \in Spenders /\ Peers \subseteq Spenders /\ Total \notin Peers
  BY DEF Spenders, WindowAssumption
<1>2. /\ Cost(Recent(Peers, Window)) <= bytesLimit(Total)
      /\ Cardinality(Recent(Peers, Window)) <= requestsLimit(Total)
      /\ totalBytes(Total) <= Cost(Recent(Peers, Window + Bucket))
  BY <1>1, WindowCovered
<1>3. ASSUME NEW p \in Peers
      PROVE  /\ Cost(Recent({p}, Window)) <= bytesLimit(p)
             /\ Cardinality(Recent({p}, Window)) <= requestsLimit(p)
             /\ totalBytes(p) <= Cost(Recent({p}, Window + Bucket))
  BY <1>1, WindowCovered
<1>4. /\ bytesLimit(Total) = TotalBytes /\ requestsLimit(Total) = TotalRequests
      /\ \A p \in Peers : bytesLimit(p) = PerPeerBytes /\ requestsLimit(p) = PerPeerRequests
  BY <1>1 DEF bytesLimit, requestsLimit
<1> QED
  BY <1>2, <1>3, <1>4 DEF SpendBounded, OnlyRecentSpendCounts, BudgetInv

-----------------------------------------------------------------------------
(* PeerIntake *)

PeerIntakeInv == BudgetInv /\ MeterInv /\ SettledWithinReservation

\* What the meter has counted stays within the reservation, so the settlement does.
LEMMA SettlementStep ==
  ASSUME IntakeAssumption, MeterInv, SettledWithinReservation, [MeterNext]_meterVars
  PROVE  SettledWithinReservation'
<1>1. /\ progress \in Nat /\ Limit \in Nat /\ Overshoot \in Nat /\ weight \in Nat
      /\ progress + weight <= Limit + Overshoot
  BY MeterSums DEF MeterInv, MeterTypeOK, weight, IntakeAssumption
<1>2. charged' = charged \/ charged' = progress
  BY DEF MeterNext, Ask, Arrive, Count, Drained, FailTransfer, GiveUp, Settle, meterVars
<1> QED
  BY <1>1, <1>2 DEF SettledWithinReservation, Overshoot

\* intakeBudget.ts, meter.ts, service.ts 858-893: for any peers, window, budgets,
\* readers and sizes, in every trailing window no peer and no set of peers gets more
\* than its budget, whatever is refunded when; only what was spent within a window
\* and a bucket counts; the map of peers stays bounded; and what one transfer brings,
\* costs and gives back stays within its reservation, up to the reads in flight.
THEOREM PeersPayForIntake ==
  ASSUME WindowAssumption, IntakeAssumption
  PROVE  PeerIntakeSpec => []IntakePaid
<1>1. PeerIntakeInit => PeerIntakeInv
  <2> SUFFICES ASSUME PeerIntakeInit PROVE PeerIntakeInv
    OBVIOUS
  <2>1. BudgetInv /\ MeterInv
    BY BudgetInitially, MeterInitially DEF PeerIntakeInit
  <2>2. SettledWithinReservation
    <3>1. Overshoot \in Nat /\ Limit \in Nat
      BY FS_CardinalityType DEF IntakeAssumption, Overshoot
    <3> QED
      BY <3>1 DEF PeerIntakeInit, MeterInit, SettledWithinReservation
  <2> QED
    BY <2>1, <2>2 DEF PeerIntakeInv
<1>2. PeerIntakeInv /\ [PeerIntakeNext]_<<budgetVars, meterVars>> => PeerIntakeInv'
  <2> SUFFICES ASSUME PeerIntakeInv, [PeerIntakeNext]_<<budgetVars, meterVars>>
               PROVE  PeerIntakeInv'
    OBVIOUS
  <2>1. [BudgetNext]_budgetVars /\ [MeterNext]_meterVars
    BY DEF PeerIntakeNext
  <2>2. BudgetInv' /\ MeterInv'
    BY <2>1, BudgetStep, MeterStep DEF PeerIntakeInv
  <2>3. SettledWithinReservation'
    BY <2>1, SettlementStep DEF PeerIntakeInv
  <2> QED
    BY <2>2, <2>3 DEF PeerIntakeInv
<1>3. PeerIntakeInv => IntakePaid
  <2> SUFFICES ASSUME PeerIntakeInv PROVE IntakePaid
    OBVIOUS
  <2>1. SpendBounded /\ OnlyRecentSpendCounts /\ MapBounded
    BY BudgetHolds DEF PeerIntakeInv
  <2>2. OvershootBounded /\ PaidUpToInFlight
    BY MeterBounds DEF PeerIntakeInv
  <2> QED
    BY <2>1, <2>2 DEF IntakePaid, PeerIntakeInv
<1> QED
  BY <1>1, <1>2, <1>3, PTL DEF PeerIntakeSpec
=============================================================================
