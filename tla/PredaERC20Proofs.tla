-------------------------- MODULE PredaERC20Proofs --------------------------
(***************************************************************************)
(* Proofs about the PREDA token contract, for every finite set of          *)
(* addresses, every initial balance and every bound:                       *)
(*                                                                         *)
(*   - the contract implements the atomic ledger of TokenLedger, under the *)
(*     mapping that counts a credit as soon as it is relayed;              *)
(*   - tokens are conserved: balances and relayed credits add up to the    *)
(*     supply in every state.                                              *)
(*                                                                         *)
(* The first two parts are about sums over finite sets (SumFunctionOnSet)  *)
(* and about bags of relays; the third has one lemma per operation, and    *)
(* conservation then follows from what the ledger's two steps do.          *)
(* The inductive invariant is TypeInv: balances are naturals, as every     *)
(* debit is guarded, and the relays in flight are a finite bag of credits. *)
(***************************************************************************)
EXTENDS PredaERC20, FiniteSetTheorems, WellFoundedInduction, TLAPS

-----------------------------------------------------------------------------
(* Part 1.  Sums over finite sets. *)

(* A set of naturals that is not empty has a least element. *)
LEMMA LeastNatural ==
    ASSUME NEW S \in SUBSET Nat, S # {}
    PROVE  \E m \in S : \A j \in S : m <= j
<1>1. PICK m \in S : \A y \in S : ~(<<y, m>> \in OpToRel(<, Nat))
  BY NatLessThanWellFounded, WFMin, Zenon
<1>2. ASSUME NEW j \in S PROVE ~(j < m)
  BY <1>1, <1>2, Zenon DEF OpToRel
<1>3. ASSUME NEW j \in S PROVE m <= j
  BY <1>2, <1>3
<1> QED
  BY <1>3

(* Induction over the subsets of a finite set: G holds the sets for which the
   claim is shown. *)
LEMMA SetInduction ==
    ASSUME NEW S, IsFiniteSet(S), NEW G,
           \A s \in SUBSET S : (\A x \in s : s \ {x} \in G) => s \in G
    PROVE  S \in G
<1> SUFFICES ASSUME S \notin G PROVE FALSE
  OBVIOUS
<1> DEFINE Bad == {s \in SUBSET S : s \notin G}
           Sizes == {Cardinality(s) : s \in Bad}
<1>1. \A s \in SUBSET S : IsFiniteSet(s) /\ Cardinality(s) \in Nat
  BY FS_Subset, FS_CardinalityType
<1>2. Sizes \in SUBSET Nat /\ Sizes # {}
  BY <1>1
<1> HIDE DEF Sizes
<1>3. PICK m \in Sizes : \A j \in Sizes : m <= j
  BY <1>2, LeastNatural
<1>4. PICK s \in Bad : m = Cardinality(s)
  BY <1>3 DEF Sizes
<1>5. PICK x \in s : s \ {x} \notin G
  BY <1>4
<1>6. Cardinality(s \ {x}) \in Sizes
  <2>1. s \ {x} \in Bad
    BY <1>5
  <2> QED
    BY <2>1 DEF Sizes
<1>7. Cardinality(s \ {x}) = Cardinality(s) - 1
  BY <1>1, <1>4, <1>5, FS_RemoveElement
<1>8. Cardinality(s) \in Nat /\ m <= Cardinality(s \ {x})
  BY <1>1, <1>3, <1>4, <1>6
<1> QED
  BY <1>4, <1>7, <1>8

(* What SumFunctionOnSet computes. *)
First(s) == CHOOSE x \in s : TRUE
Sums(g, f, S) == g = [s \in SUBSET S |-> IF s = {} THEN 0 ELSE f[First(s)] + g[s \ {First(s)}]]

(* The library's sum is the value at S of a function that Sums describes. *)
LEMMA SumUnfold ==
    ASSUME NEW f, NEW S
    PROVE  SumFunctionOnSet(f, S) = (CHOOSE g : Sums(g, f, S))[S]
  BY DEF SumFunctionOnSet, FoldFunctionOnSet, MapThenFoldSet, Sums, First

(* The element the recursion takes first is one of the set. *)
LEMMA FirstIn == \A s : s # {} => First(s) \in s
  BY DEF First

(* A solution of the recursion, applied to one subset. *)
LEMMA SumsStep ==
    ASSUME NEW g, NEW f, NEW S, Sums(g, f, S), NEW s \in SUBSET S
    PROVE  g[s] = IF s = {} THEN 0 ELSE f[First(s)] + g[s \ {First(s)}]
<1> DEFINE F(t) == IF t = {} THEN 0 ELSE f[First(t)] + g[t \ {First(t)}]
<1>1. g = [t \in SUBSET S |-> F(t)]
  BY DEF Sums
<1> HIDE DEF F
<1>2. g[s] = F(s)
  BY <1>1
<1> QED
  BY <1>2 DEF F

(* Two solutions agree where both are defined. *)
LEMMA SumsAgree ==
    ASSUME NEW f, NEW S, NEW T, NEW g, NEW h, Sums(g, f, S), Sums(h, f, T),
           NEW s \in SUBSET S, s \in SUBSET T, IsFiniteSet(s)
    PROVE  g[s] = h[s]
<1> DEFINE G == {t \in SUBSET s : g[t] = h[t]}
<1>1. ASSUME NEW t \in SUBSET s, \A x \in t : t \ {x} \in G
      PROVE  t \in G
  <2>1. /\ g[t] = IF t = {} THEN 0 ELSE f[First(t)] + g[t \ {First(t)}]
        /\ h[t] = IF t = {} THEN 0 ELSE f[First(t)] + h[t \ {First(t)}]
    <3>1. t \in SUBSET S /\ t \in SUBSET T
      OBVIOUS
    <3>2. g[t] = IF t = {} THEN 0 ELSE f[First(t)] + g[t \ {First(t)}]
      BY <3>1, SumsStep
    <3>3. h[t] = IF t = {} THEN 0 ELSE f[First(t)] + h[t \ {First(t)}]
      BY <3>1, SumsStep
    <3> QED
      BY <3>2, <3>3
  <2>2. CASE t = {}
    BY <2>1, <2>2
  <2>3. CASE t # {}
    <3>1. t \ {First(t)} \in G
      BY <1>1, <2>3, FirstIn
    <3> QED
      BY <2>1, <2>3, <3>1
  <2> QED
    BY <2>2, <2>3
<1>2. s \in G
  <2> HIDE DEF G
  <2> QED
    BY <1>1, SetInduction
<1> QED
  BY <1>2

(* The recursion unfolds where there are solutions. *)
LEMMA SumsAt ==
    ASSUME NEW f, NEW S, IsFiniteSet(S), \A t \in SUBSET S : \E g : Sums(g, f, t)
    PROVE  SumFunctionOnSet(f, S) =
             IF S = {} THEN 0 ELSE f[First(S)] + SumFunctionOnSet(f, S \ {First(S)})
<1> DEFINE R == S \ {First(S)}
           g == CHOOSE g : Sums(g, f, S)
           h == CHOOSE h : Sums(h, f, R)
<1>1. Sums(g, f, S) /\ Sums(h, f, R)
  <2>1. S \in SUBSET S /\ R \in SUBSET S
    OBVIOUS
  <2>2. (\E k : Sums(k, f, S)) /\ (\E k : Sums(k, f, R))
    BY <2>1
  <2> QED
    BY <2>2
<1>2. SumFunctionOnSet(f, S) = g[S] /\ SumFunctionOnSet(f, R) = h[R]
  BY SumUnfold
<1>3. R \in SUBSET S /\ R \in SUBSET R /\ IsFiniteSet(R)
  BY FS_Subset
<1> HIDE DEF R, g, h
<1>4. g[S] = IF S = {} THEN 0 ELSE f[First(S)] + g[R]
  <2>1. S \in SUBSET S
    OBVIOUS
  <2> QED
    BY <1>1, <2>1, SumsStep DEF R
<1>5. g[R] = h[R]
  BY <1>1, <1>3, SumsAgree
<1> QED
  BY <1>2, <1>4, <1>5 DEF R

(* The recursion has a solution on every finite set. *)
LEMMA SumsExist ==
    ASSUME NEW f, NEW S, IsFiniteSet(S)
    PROVE  \E g : Sums(g, f, S)
<1> DEFINE G == {s \in SUBSET S : \A t \in SUBSET s : \E g : Sums(g, f, t)}
<1>1. ASSUME NEW s \in SUBSET S, \A x \in s : s \ {x} \in G
      PROVE  s \in G
  <2>1. ASSUME NEW t \in SUBSET s, t # s PROVE \A u \in SUBSET t : \E g : Sums(g, f, u)
    <3>1. PICK x \in s : x \notin t
      BY <2>1
    <3>2. t \in SUBSET (s \ {x})
      BY <3>1
    <3>3. s \ {x} \in G
      BY <1>1
    <3> QED
      BY <3>2, <3>3
  <2> DEFINE g == [t \in SUBSET s |->
                     IF t = {} THEN 0 ELSE f[First(t)] + SumFunctionOnSet(f, t \ {First(t)})]
  <2>2. ASSUME NEW t \in SUBSET s, t # s PROVE g[t] = SumFunctionOnSet(f, t)
    <3>1. IsFiniteSet(t)
      BY FS_Subset
    <3>2. SumFunctionOnSet(f, t) =
            IF t = {} THEN 0 ELSE f[First(t)] + SumFunctionOnSet(f, t \ {First(t)})
      BY <2>1, <2>2, <3>1, SumsAt
    <3> QED
      BY <3>2
  <2>3. \A t \in SUBSET s : t # {} => t \ {First(t)} \in SUBSET s /\ t \ {First(t)} # s
    BY FirstIn
  <2>4. \A t \in SUBSET s : g[t] = IF t = {} THEN 0 ELSE f[First(t)] + g[t \ {First(t)}]
    <3>1. \A t \in SUBSET s : t # {} => g[t \ {First(t)}] = SumFunctionOnSet(f, t \ {First(t)})
      <4> HIDE DEF g
      <4> QED
        BY <2>2, <2>3
    <3>2. \A t \in SUBSET s :
             g[t] = IF t = {} THEN 0 ELSE f[First(t)] + SumFunctionOnSet(f, t \ {First(t)})
      OBVIOUS
    <3> HIDE DEF g
    <3> QED
      BY <3>1, <3>2
  <2>5. Sums(g, f, s)
    <3>1. g = [t \in SUBSET s |-> g[t]]
      OBVIOUS
    <3> HIDE DEF g
    <3> QED
      BY <2>4, <3>1 DEF Sums
  <2>6. \A t \in SUBSET s : \E k : Sums(k, f, t)
    <3> HIDE DEF g
    <3> QED
      BY <2>1, <2>5
  <2> QED
    BY <2>6
<1>2. S \in G
  <2> HIDE DEF G
  <2> QED
    BY <1>1, SetInduction
<1> QED
  BY <1>2

(* The recursion of a sum over a finite set. *)
LEMMA SumStep ==
    ASSUME NEW f, NEW S, IsFiniteSet(S)
    PROVE  SumFunctionOnSet(f, S) =
             IF S = {} THEN 0 ELSE f[First(S)] + SumFunctionOnSet(f, S \ {First(S)})
<1>1. \A t \in SUBSET S : \E g : Sums(g, f, t)
  BY FS_Subset, SumsExist
<1> QED
  BY <1>1, SumsAt

(* A sum of integers is one. *)
LEMMA SumInt ==
    ASSUME NEW f, NEW S, IsFiniteSet(S), \A x \in S : f[x] \in Int
    PROVE  SumFunctionOnSet(f, S) \in Int
<1> DEFINE G == {s \in SUBSET S : SumFunctionOnSet(f, s) \in Int}
<1>1. ASSUME NEW s \in SUBSET S, \A x \in s : s \ {x} \in G
      PROVE  s \in G
  <2>1. IsFiniteSet(s)
    BY FS_Subset
  <2>2. SumFunctionOnSet(f, s) =
          IF s = {} THEN 0 ELSE f[First(s)] + SumFunctionOnSet(f, s \ {First(s)})
    BY <2>1, SumStep
  <2>3. s # {} => f[First(s)] \in Int /\ SumFunctionOnSet(f, s \ {First(s)}) \in Int
    BY <1>1, FirstIn
  <2> QED
    BY <2>2, <2>3
<1>2. S \in G
  <2> HIDE DEF G
  <2> QED
    BY <1>1, SetInduction
<1> QED
  BY <1>2

(* The sum depends on the values in the set only. *)
LEMMA SumSame ==
    ASSUME NEW f, NEW g, NEW S, IsFiniteSet(S), \A x \in S : f[x] = g[x]
    PROVE  SumFunctionOnSet(f, S) = SumFunctionOnSet(g, S)
<1> DEFINE G == {s \in SUBSET S : SumFunctionOnSet(f, s) = SumFunctionOnSet(g, s)}
<1>1. ASSUME NEW s \in SUBSET S, \A x \in s : s \ {x} \in G
      PROVE  s \in G
  <2>1. IsFiniteSet(s)
    BY FS_Subset
  <2>2. SumFunctionOnSet(f, s) =
          IF s = {} THEN 0 ELSE f[First(s)] + SumFunctionOnSet(f, s \ {First(s)})
    BY <2>1, SumStep
  <2>3. SumFunctionOnSet(g, s) =
          IF s = {} THEN 0 ELSE g[First(s)] + SumFunctionOnSet(g, s \ {First(s)})
    BY <2>1, SumStep
  <2>4. s # {} => /\ f[First(s)] = g[First(s)]
                  /\ SumFunctionOnSet(f, s \ {First(s)}) = SumFunctionOnSet(g, s \ {First(s)})
    BY <1>1, FirstIn
  <2> QED
    BY <2>2, <2>3, <2>4
<1>2. S \in G
  <2> HIDE DEF G
  <2> QED
    BY <1>1, SetInduction
<1> QED
  BY <1>2

(* Any element can be taken out of the sum: the order does not matter. *)
LEMMA SumRemove ==
    ASSUME NEW f, NEW S, IsFiniteSet(S), \A x \in S : f[x] \in Int, NEW a \in S
    PROVE  SumFunctionOnSet(f, S) = f[a] + SumFunctionOnSet(f, S \ {a})
<1> DEFINE Sum(s) == SumFunctionOnSet(f, s)
           G == {s \in SUBSET S : \A x \in s : Sum(s) = f[x] + Sum(s \ {x})}
<1>1. ASSUME NEW s \in SUBSET S, \A x \in s : s \ {x} \in G
      PROVE  s \in G
  <2> SUFFICES ASSUME NEW x \in s PROVE Sum(s) = f[x] + Sum(s \ {x})
    OBVIOUS
  <2> DEFINE p == First(s)
  <2>1. \A t \in SUBSET s : Sum(t) \in Int
    BY FS_Subset, SumInt
  <2>2. p \in s /\ Sum(s) = f[p] + Sum(s \ {p})
    <3>1. IsFiniteSet(s) /\ s # {}
      BY FS_Subset
    <3> QED
      BY <3>1, SumStep, FirstIn
  <2> HIDE DEF p
  <2>3. CASE x = p
    BY <2>2, <2>3
  <2>4. CASE x # p
    <3>1. Sum(s \ {p}) = f[x] + Sum((s \ {p}) \ {x})
      <4>1. s \ {p} \in G /\ x \in s \ {p}
        BY <1>1, <2>2, <2>4
      <4> HIDE DEF Sum
      <4> QED
        BY <4>1
    <3>2. Sum(s \ {x}) = f[p] + Sum((s \ {x}) \ {p})
      <4>1. s \ {x} \in G /\ p \in s \ {x}
        BY <1>1, <2>2, <2>4
      <4> HIDE DEF Sum
      <4> QED
        BY <4>1
    <3>3. (s \ {p}) \ {x} = (s \ {x}) \ {p} /\ (s \ {x}) \ {p} \in SUBSET s
      OBVIOUS
    <3>4. f[p] \in Int /\ f[x] \in Int /\ Sum((s \ {x}) \ {p}) \in Int
      BY <2>1, <2>2, <3>3
    <3> HIDE DEF Sum, G
    <3>5. Sum(s) = f[p] + (f[x] + Sum((s \ {x}) \ {p}))
      BY <2>2, <3>1, <3>3
    <3>6. \A i, j, k \in Int : i + (j + k) = j + (i + k)
      OBVIOUS
    <3> QED
      BY <3>2, <3>4, <3>5, <3>6
  <2> QED
    BY <2>3, <2>4
<1>2. S \in G
  <2> HIDE DEF G
  <2> QED
    BY <1>1, SetInduction
<1> QED
  BY <1>2

(* One value changes. *)
LEMMA SumChange ==
    ASSUME NEW f, NEW g, NEW S, IsFiniteSet(S), NEW a \in S,
           \A x \in S : f[x] \in Int /\ g[x] \in Int,
           \A x \in S \ {a} : g[x] = f[x]
    PROVE  SumFunctionOnSet(g, S) = SumFunctionOnSet(f, S) + g[a] - f[a]
<1>1. IsFiniteSet(S \ {a})
  BY FS_Subset
<1>2. SumFunctionOnSet(f, S \ {a}) = SumFunctionOnSet(g, S \ {a})
  BY <1>1, SumSame
<1>3. SumFunctionOnSet(f, S) = f[a] + SumFunctionOnSet(f, S \ {a})
  BY SumRemove
<1>4. SumFunctionOnSet(g, S) = g[a] + SumFunctionOnSet(g, S \ {a})
  BY SumRemove
<1>5. SumFunctionOnSet(g, S \ {a}) \in Int /\ f[a] \in Int /\ g[a] \in Int
  BY <1>1, SumInt
<1> QED
  BY <1>2, <1>3, <1>4, <1>5

(* A constant is added up as often as the set has elements. *)
LEMMA SumConstant ==
    ASSUME NEW f, NEW S, IsFiniteSet(S), NEW c \in Int, \A x \in S : f[x] = c
    PROVE  SumFunctionOnSet(f, S) = c * Cardinality(S)
<1> DEFINE G == {s \in SUBSET S : SumFunctionOnSet(f, s) = c * Cardinality(s)}
<1>1. ASSUME NEW s \in SUBSET S, \A x \in s : s \ {x} \in G
      PROVE  s \in G
  <2>1. IsFiniteSet(s)
    BY FS_Subset
  <2>2. SumFunctionOnSet(f, s) =
          IF s = {} THEN 0 ELSE f[First(s)] + SumFunctionOnSet(f, s \ {First(s)})
    BY <2>1, SumStep
  <2>3. CASE s = {}
    BY <2>2, <2>3, FS_EmptySet
  <2>4. CASE s # {}
    <3>1. f[First(s)] = c /\ SumFunctionOnSet(f, s \ {First(s)}) = c * Cardinality(s \ {First(s)})
      BY <1>1, <2>4, FirstIn
    <3>2. Cardinality(s \ {First(s)}) = Cardinality(s) - 1 /\ Cardinality(s) \in Nat
      BY <2>1, <2>4, FirstIn, FS_RemoveElement, FS_CardinalityType
    <3>3. \A n \in Nat : c + c * (n - 1) = c * n
      OBVIOUS
    <3> QED
      BY <2>2, <2>4, <3>1, <3>2, <3>3
  <2> QED
    BY <2>3, <2>4
<1>2. S \in G
  <2> HIDE DEF G
  <2> QED
    BY <1>1, SetInduction
<1> QED
  BY <1>2

(* Values of zero add nothing. *)
LEMMA SumSupport ==
    ASSUME NEW f, NEW S, IsFiniteSet(S), NEW T \in SUBSET S,
           \A x \in S : f[x] \in Int, \A x \in S \ T : f[x] = 0
    PROVE  SumFunctionOnSet(f, S) = SumFunctionOnSet(f, T)
<1> DEFINE Sum(s) == SumFunctionOnSet(f, s)
           G == {s \in SUBSET S : T \subseteq s => Sum(s) = Sum(T)}
<1>1. ASSUME NEW s \in SUBSET S, \A x \in s : s \ {x} \in G
      PROVE  s \in G
  <2> SUFFICES ASSUME T \subseteq s, s # T PROVE Sum(s) = Sum(T)
    BY Zenon
  <2>1. PICK x \in s : x \notin T
    OBVIOUS
  <2>2. Sum(s) = f[x] + Sum(s \ {x})
    <3>1. IsFiniteSet(s)
      BY FS_Subset
    <3> QED
      BY <3>1, SumRemove
  <2>3. f[x] = 0 /\ Sum(s \ {x}) = Sum(T)
    <3>1. s \ {x} \in G /\ T \subseteq s \ {x}
      BY <1>1, <2>1
    <3> HIDE DEF Sum
    <3> QED
      BY <2>1, <3>1
  <2>4. Sum(T) \in Int
    <3>1. IsFiniteSet(T)
      BY FS_Subset
    <3> QED
      BY <3>1, SumInt
  <2> HIDE DEF Sum
  <2> QED
    BY <2>2, <2>3, <2>4
<1>2. S \in G
  <2> HIDE DEF G
  <2> QED
    BY <1>1, SetInduction
<1> QED
  BY <1>2

(* The sum of two functions. *)
LEMMA SumAdd ==
    ASSUME NEW f, NEW g, NEW h, NEW S, IsFiniteSet(S),
           \A x \in S : f[x] \in Int /\ g[x] \in Int /\ h[x] = f[x] + g[x]
    PROVE  SumFunctionOnSet(h, S) = SumFunctionOnSet(f, S) + SumFunctionOnSet(g, S)
<1> DEFINE Sum(k, s) == SumFunctionOnSet(k, s)
           G == {s \in SUBSET S : Sum(h, s) = Sum(f, s) + Sum(g, s)}
<1>1. ASSUME NEW s \in SUBSET S, \A x \in s : s \ {x} \in G
      PROVE  s \in G
  <2>1. IsFiniteSet(s)
    BY FS_Subset
  <2> DEFINE x == First(s)
             r == s \ {x}
  <2>2. \A k : Sum(k, s) = IF s = {} THEN 0 ELSE k[x] + Sum(k, r)
    BY <2>1, SumStep
  <2>3. CASE s = {}
    <3> HIDE DEF Sum, x, r
    <3> QED
      BY <2>2, <2>3
  <2>4. CASE s # {}
    <3>1. x \in s
      BY <2>4, FirstIn
    <3>2. Sum(h, r) = Sum(f, r) + Sum(g, r)
      <4>1. r \in G
        BY <1>1, <3>1
      <4> HIDE DEF Sum, r
      <4> QED
        BY <4>1
    <3>3. Sum(f, r) \in Int /\ Sum(g, r) \in Int
      <4>1. IsFiniteSet(r) /\ r \subseteq S
        BY <2>1, FS_Subset
      <4> HIDE DEF r
      <4> QED
        BY <4>1, SumInt
    <3>4. f[x] \in Int /\ g[x] \in Int /\ h[x] = f[x] + g[x]
      BY <3>1
    <3> HIDE DEF Sum, x, r
    <3>5. \A i, j, k, l \in Int : (i + j) + (k + l) = (i + k) + (j + l)
      OBVIOUS
    <3>6. Sum(h, s) = (f[x] + g[x]) + (Sum(f, r) + Sum(g, r))
      BY <2>2, <2>4, <3>2, <3>4
    <3>7. Sum(f, s) = f[x] + Sum(f, r) /\ Sum(g, s) = g[x] + Sum(g, r)
      BY <2>2, <2>4
    <3> QED
      BY <3>3, <3>4, <3>5, <3>6, <3>7
  <2> QED
    BY <2>3, <2>4
<1>2. S \in G
  <2> HIDE DEF G
  <2> QED
    BY <1>1, SetInduction
<1> QED
  BY <1>2

(* A sum of naturals is one. *)
LEMMA SumNat ==
    ASSUME NEW f, NEW S, IsFiniteSet(S), \A x \in S : f[x] \in Nat
    PROVE  SumFunctionOnSet(f, S) \in Nat
<1> DEFINE G == {s \in SUBSET S : SumFunctionOnSet(f, s) \in Nat}
<1>1. ASSUME NEW s \in SUBSET S, \A x \in s : s \ {x} \in G
      PROVE  s \in G
  <2>1. IsFiniteSet(s)
    BY FS_Subset
  <2>2. SumFunctionOnSet(f, s) =
          IF s = {} THEN 0 ELSE f[First(s)] + SumFunctionOnSet(f, s \ {First(s)})
    BY <2>1, SumStep
  <2>3. s # {} => f[First(s)] \in Nat /\ SumFunctionOnSet(f, s \ {First(s)}) \in Nat
    BY <1>1, FirstIn
  <2> QED
    BY <2>2, <2>3
<1>2. S \in G
  <2> HIDE DEF G
  <2> QED
    BY <1>1, SetInduction
<1> QED
  BY <1>2

(* A sum of one value. *)
LEMMA SumOne ==
    ASSUME NEW f, NEW x, f[x] \in Int
    PROVE  SumFunctionOnSet(f, {x}) = f[x]
<1>1. IsFiniteSet({x}) /\ IsFiniteSet({}) /\ {x} # {}
  BY FS_Singleton, FS_EmptySet
<1>2. First({x}) = x /\ {x} \ {x} = {}
  BY <1>1, FirstIn
<1>3. SumFunctionOnSet(f, {}) = 0
  BY <1>1, SumStep
<1> QED
  BY <1>1, <1>2, <1>3, SumStep

(* A sum is the sum of its parts: h says to which part an element counts. *)
LEMMA SumSplit ==
    ASSUME NEW f, NEW h, NEW S, NEW A, IsFiniteSet(S), IsFiniteSet(A),
           \A i \in S : f[i] \in Int /\ h[i] \in A
    PROVE  SumFunctionOnSet([a \in A |->
             SumFunctionOnSet([i \in S |-> IF h[i] = a THEN f[i] ELSE 0], S)], A)
           = SumFunctionOnSet(f, S)
<1> DEFINE Part(a) == [i \in S |-> IF h[i] = a THEN f[i] ELSE 0]
           Parts(s) == [a \in A |-> SumFunctionOnSet(Part(a), s)]
           G == {s \in SUBSET S : SumFunctionOnSet(Parts(s), A) = SumFunctionOnSet(f, s)}
<1>1. \A a : \A i \in S : Part(a)[i] \in Int /\ Part(a)[i] = IF h[i] = a THEN f[i] ELSE 0
  OBVIOUS
<1>2. \A s \in SUBSET S : IsFiniteSet(s)
  BY FS_Subset
<1>3. \A s \in SUBSET S, a \in A : SumFunctionOnSet(Part(a), s) \in Int
  <2> HIDE DEF Part
  <2> QED
    BY <1>1, <1>2, SumInt
<1>4. \A s \in SUBSET S, a \in A : Parts(s)[a] \in Int
  BY <1>3
<1>5. ASSUME NEW s \in SUBSET S, \A x \in s : s \ {x} \in G
      PROVE  s \in G
  <2>1. CASE s = {}
    <3>1. \A k : SumFunctionOnSet(k, s) = 0
      BY <1>2, <2>1, SumStep
    <3>2. \A a \in A : Parts(s)[a] = 0
      BY <3>1
    <3>3. SumFunctionOnSet(Parts(s), A) = 0 * Cardinality(A)
      <4> HIDE DEF Parts
      <4> QED
        BY <3>2, SumConstant
    <3>4. Cardinality(A) \in Nat
      BY FS_CardinalityType
    <3> QED
      BY <3>1, <3>3, <3>4
  <2>2. CASE s # {}
    <3>1. PICK x : x \in s
      BY <2>2
    <3> DEFINE r == s \ {x}
    <3>2. r \in SUBSET S /\ SumFunctionOnSet(Parts(r), A) = SumFunctionOnSet(f, r)
      BY <1>5, <3>1
    <3>3. SumFunctionOnSet(f, s) = f[x] + SumFunctionOnSet(f, r)
      BY <1>2, <3>1, SumRemove
    <3>4. \A a \in A : SumFunctionOnSet(Part(a), s) = Part(a)[x] + SumFunctionOnSet(Part(a), r)
      <4> HIDE DEF Part
      <4> QED
        BY <1>1, <1>2, <3>1, SumRemove
    <3>5. \A a \in A : Parts(s)[a] = (IF h[x] = a THEN f[x] ELSE 0) + Parts(r)[a]
      BY <1>1, <3>1, <3>4
    <3> HIDE DEF Parts, r
    <3>6. SumFunctionOnSet(Parts(s), A)
            = SumFunctionOnSet(Parts(r), A) + Parts(s)[h[x]] - Parts(r)[h[x]]
      <4>1. h[x] \in A /\ \A a \in A : Parts(r)[a] \in Int /\ Parts(s)[a] \in Int
        BY <1>4, <3>1, <3>2
      <4>2. \A a \in A \ {h[x]} : Parts(s)[a] = Parts(r)[a]
        BY <3>5, <4>1
      <4> QED
        BY <4>1, <4>2, SumChange
    <3>7. /\ f[x] \in Int /\ Parts(r)[h[x]] \in Int /\ SumFunctionOnSet(Parts(r), A) \in Int
          /\ Parts(s)[h[x]] = f[x] + Parts(r)[h[x]]
      BY <1>4, <3>1, <3>2, <3>5, SumInt
    <3>8. SumFunctionOnSet(Parts(s), A) = SumFunctionOnSet(f, s)
      BY <3>2, <3>3, <3>6, <3>7
    <3> QED
      BY <3>8
  <2> QED
    BY <2>1, <2>2
<1>6. S \in G
  <2> HIDE DEF G
  <2> QED
    BY <1>5, SetInduction
<1> QED
  BY <1>6


-----------------------------------------------------------------------------
(* Part 2.  Bags of relays. *)

(* The credits that can be relayed, and the bags of them. *)
Credited == [to : Addresses, amount : Nat]
IsBag(B) == B \in [DOMAIN B -> Nat \ {0}] /\ IsFiniteSet(DOMAIN B) /\ DOMAIN B \subseteq Credited

(* What payment p brings to address a. *)
Share(p, a) == IF p.to = a THEN p.amount ELSE 0

(* What the relays of a bag bring to address a. *)
Carried(B, a) ==
    SumFunctionOnSet([r \in DOMAIN B |-> IF r.to = a THEN r.amount * B[r] ELSE 0], DOMAIN B)

(* The balances are never negative, and the relays are a finite bag. *)
TypeInv ==
    /\ balance \in [Addresses -> Nat]
    /\ supply \in Int
    /\ IsBag(relays)

(* What is on its way to an address is what the relays in flight bring. *)
LEMMA IncomingCarried == \A a : Incoming(a) = Carried(relays, a)
  BY DEF Incoming, Carried, SumFunction, BagToSet

(* Relays bring amounts that are not negative. *)
LEMMA CarriedNat ==
    ASSUME NEW B, IsBag(B), NEW a
    PROVE  Carried(B, a) \in Nat
<1> DEFINE f == [r \in DOMAIN B |-> IF r.to = a THEN r.amount * B[r] ELSE 0]
<1>1. ASSUME NEW r \in DOMAIN B PROVE f[r] \in Nat
  <2>1. r.amount \in Nat /\ B[r] \in Nat
    BY DEF IsBag, Credited
  <2>2. \A i, j \in Nat : i * j \in Nat
    OBVIOUS
  <2> QED
    BY <2>1, <2>2
<1>2. IsFiniteSet(DOMAIN B)
  BY DEF IsBag
<1> HIDE DEF f
<1>3. SumFunctionOnSet(f, DOMAIN B) \in Nat
  BY <1>1, <1>2, SumNat
<1> QED
  BY <1>3 DEF Carried, f

(* The union of two bags of relays adds up their copies. *)
LEMMA Joined ==
    ASSUME NEW B, NEW C, IsBag(B), IsBag(C)
    PROVE  /\ IsBag(B (+) C)
           /\ DOMAIN (B (+) C) = DOMAIN B \cup DOMAIN C
           /\ \A r \in DOMAIN (B (+) C) :
                (B (+) C)[r] = (IF r \in DOMAIN B THEN B[r] ELSE 0)
                             + (IF r \in DOMAIN C THEN C[r] ELSE 0)
<1>1. /\ DOMAIN (B (+) C) = DOMAIN B \cup DOMAIN C
      /\ \A r \in DOMAIN B \cup DOMAIN C :
           (B (+) C)[r] = (IF r \in DOMAIN B THEN B[r] ELSE 0)
                        + (IF r \in DOMAIN C THEN C[r] ELSE 0)
      /\ B (+) C = [r \in DOMAIN B \cup DOMAIN C |-> (B (+) C)[r]]
  BY DEF (+)
<1>2. IsFiniteSet(DOMAIN B \cup DOMAIN C)
  BY FS_Union DEF IsBag
<1>3. \A r \in DOMAIN B : B[r] \in Nat \ {0}
  BY DEF IsBag
<1>4. \A r \in DOMAIN C : C[r] \in Nat \ {0}
  BY DEF IsBag
<1>5. ASSUME NEW r \in DOMAIN B \cup DOMAIN C PROVE (B (+) C)[r] \in Nat \ {0}
  <2>1. (B (+) C)[r] = (IF r \in DOMAIN B THEN B[r] ELSE 0) + (IF r \in DOMAIN C THEN C[r] ELSE 0)
    BY <1>1
  <2>2. (r \in DOMAIN B => B[r] \in Nat \ {0}) /\ (r \in DOMAIN C => C[r] \in Nat \ {0})
    BY <1>3, <1>4
  <2>3. CASE r \in DOMAIN B /\ r \in DOMAIN C
    BY <2>1, <2>2, <2>3
  <2>4. CASE r \in DOMAIN B /\ r \notin DOMAIN C
    BY <2>1, <2>2, <2>4
  <2>5. CASE r \notin DOMAIN B /\ r \in DOMAIN C
    BY <2>1, <2>2, <2>5
  <2> QED
    BY <2>3, <2>4, <2>5
<1> QED
  BY <1>1, <1>2, <1>5 DEF IsBag

(* What a union of bags brings is what the two bring. *)
LEMMA CarriedUnion ==
    ASSUME NEW B, NEW C, IsBag(B), IsBag(C), NEW a
    PROVE  Carried(B (+) C, a) = Carried(B, a) + Carried(C, a)
<1> DEFINE D == DOMAIN B \cup DOMAIN C
           U == B (+) C
           V(X) == [r \in D |-> IF r \in DOMAIN X /\ r.to = a THEN r.amount * X[r] ELSE 0]
           W(X) == [r \in DOMAIN X |-> IF r.to = a THEN r.amount * X[r] ELSE 0]
<1>1. DOMAIN U = D /\ IsBag(U) /\ IsFiniteSet(D)
  <2>1. DOMAIN U = D /\ IsBag(U)
    BY Joined
  <2> HIDE DEF U, D
  <2> QED
    BY <2>1 DEF IsBag
<1>2. \A r \in D : r.amount \in Nat
  BY DEF IsBag, Credited
<1>3. ASSUME NEW X, IsBag(X), DOMAIN X \subseteq D
      PROVE  /\ \A r \in D : V(X)[r] \in Int
             /\ SumFunctionOnSet(V(X), D) = Carried(X, a)
  <2>1. \A r \in D : V(X)[r] \in Int
    <3> SUFFICES ASSUME NEW r \in D PROVE V(X)[r] \in Int
      BY Zenon
    <3>1. r \in DOMAIN X => X[r] \in Nat
      BY <1>3 DEF IsBag
    <3>2. \A i, j \in Nat : i * j \in Int
      OBVIOUS
    <3> QED
      BY <1>2, <3>1, <3>2
  <2>2. \A r \in D \ DOMAIN X : V(X)[r] = 0
    OBVIOUS
  <2>3. \A r \in DOMAIN X : V(X)[r] = W(X)[r]
    BY <1>3
  <2>4. IsFiniteSet(DOMAIN X)
    BY <1>3 DEF IsBag
  <2> HIDE DEF V, W, D
  <2>5. SumFunctionOnSet(V(X), D) = SumFunctionOnSet(V(X), DOMAIN X)
    BY <1>1, <1>3, <2>1, <2>2, SumSupport
  <2>6. SumFunctionOnSet(V(X), DOMAIN X) = SumFunctionOnSet(W(X), DOMAIN X)
    BY <2>3, <2>4, SumSame
  <2> QED
    BY <2>1, <2>5, <2>6 DEF Carried, W
<1>4. \A r \in D : V(U)[r] = V(B)[r] + V(C)[r]
  <2> SUFFICES ASSUME NEW r \in D PROVE V(U)[r] = V(B)[r] + V(C)[r]
    BY Zenon
  <2>1. U[r] = (IF r \in DOMAIN B THEN B[r] ELSE 0) + (IF r \in DOMAIN C THEN C[r] ELSE 0)
    BY <1>1, Joined
  <2>2. /\ V(U)[r] = IF r.to = a THEN r.amount * U[r] ELSE 0
        /\ V(B)[r] = IF r \in DOMAIN B /\ r.to = a THEN r.amount * B[r] ELSE 0
        /\ V(C)[r] = IF r \in DOMAIN C /\ r.to = a THEN r.amount * C[r] ELSE 0
    BY <1>1
  <2>3. r.amount \in Nat /\ (r \in DOMAIN B => B[r] \in Nat) /\ (r \in DOMAIN C => C[r] \in Nat)
    BY <1>2 DEF IsBag
  <2> HIDE DEF V, U
  <2>4. \A i, j, k \in Nat : i * (j + k) = i * j + i * k /\ i * (j + 0) = i * j + 0
                              /\ i * (0 + k) = 0 + i * k
    OBVIOUS
  <2>5. CASE r.to # a
    BY <2>2, <2>5
  <2>6. CASE r.to = a /\ r \in DOMAIN B /\ r \in DOMAIN C
    BY <2>1, <2>2, <2>3, <2>4, <2>6
  <2>7. CASE r.to = a /\ r \in DOMAIN B /\ r \notin DOMAIN C
    BY <2>1, <2>2, <2>3, <2>4, <2>7
  <2>8. CASE r.to = a /\ r \notin DOMAIN B /\ r \in DOMAIN C
    BY <2>1, <2>2, <2>3, <2>4, <2>8
  <2> QED
    BY <2>5, <2>6, <2>7, <2>8
<1>5. DOMAIN B \subseteq D /\ DOMAIN C \subseteq D /\ DOMAIN U \subseteq D
  BY <1>1
<1> HIDE DEF V, D
<1>6. SumFunctionOnSet(V(U), D) = SumFunctionOnSet(V(B), D) + SumFunctionOnSet(V(C), D)
  BY <1>1, <1>3, <1>4, <1>5, SumAdd
<1> HIDE DEF U
<1> QED
  BY <1>1, <1>3, <1>5, <1>6 DEF U

(* One relay. *)
LEMMA CarriedOne ==
    ASSUME NEW p \in Credited, NEW a
    PROVE  IsBag(SetToBag({p})) /\ Carried(SetToBag({p}), a) = Share(p, a)
<1>1. SetToBag({p}) = [r \in {p} |-> 1] /\ DOMAIN SetToBag({p}) = {p} /\ SetToBag({p})[p] = 1
  BY DEF SetToBag
<1>2. IsFiniteSet({p})
  BY FS_Singleton
<1>3. IsBag(SetToBag({p}))
  BY <1>1, <1>2 DEF IsBag
<1> DEFINE f == [r \in {p} |-> IF r.to = a THEN r.amount * SetToBag({p})[r] ELSE 0]
<1>4. f[p] = Share(p, a) /\ f[p] \in Int
  BY <1>1 DEF Share, Credited
<1> HIDE DEF f
<1>5. SumFunctionOnSet(f, {p}) = Share(p, a)
  BY <1>4, SumOne
<1> QED
  BY <1>1, <1>3, <1>5 DEF Carried, f

(* The bag without one relay, and that relay. *)
LEMMA TakeOut ==
    ASSUME NEW B, IsBag(B), NEW r \in DOMAIN B
    PROVE  /\ IsBag(B (-) SetToBag({r}))
           /\ B = (B (-) SetToBag({r})) (+) SetToBag({r})
<1> DEFINE C == B (-) SetToBag({r})
           one == SetToBag({r})
<1>1. one = [e \in {r} |-> 1]
  BY DEF SetToBag
<1>2. \A e \in DOMAIN B : B[e] \in Nat \ {0}
  BY DEF IsBag
<1>3. \A e \in DOMAIN B : B[e] - (IF e \in DOMAIN one THEN one[e] ELSE 0)
                          = IF e = r THEN B[e] - 1 ELSE B[e]
  BY <1>1, <1>2
<1>4. /\ DOMAIN C = {e \in DOMAIN B : (IF e = r THEN B[e] - 1 ELSE B[e]) > 0}
      /\ \A e \in DOMAIN C : C[e] = IF e = r THEN B[e] - 1 ELSE B[e]
      /\ C = [e \in DOMAIN C |-> C[e]]
  BY <1>1, <1>2, <1>3 DEF (-)
<1> HIDE DEF C, one
<1>5. \A e \in DOMAIN C : e \in DOMAIN B /\ C[e] \in Nat \ {0}
  BY <1>2, <1>4
<1>6. IsBag(C)
  <2>1. IsFiniteSet(DOMAIN C)
    BY <1>4, FS_Subset DEF IsBag
  <2> QED
    BY <1>4, <1>5, <2>1 DEF IsBag
<1>7. IsBag(one)
  BY CarriedOne DEF one, IsBag
<1>8. DOMAIN (C (+) one) = DOMAIN B
  <2>1. DOMAIN (C (+) one) = DOMAIN C \cup {r}
    BY <1>1, <1>6, <1>7, Joined
  <2>2. \A e \in DOMAIN B : e # r => e \in DOMAIN C
    BY <1>2, <1>4
  <2> QED
    BY <1>5, <2>1, <2>2
<1>9. ASSUME NEW e \in DOMAIN B PROVE (C (+) one)[e] = B[e]
  <2>1. (C (+) one)[e] = (IF e \in DOMAIN C THEN C[e] ELSE 0)
                       + (IF e \in DOMAIN one THEN one[e] ELSE 0)
    <3>1. e \in DOMAIN C \cup DOMAIN one
      BY <1>6, <1>7, <1>8, Joined
    <3> QED
      BY <3>1 DEF (+)
  <2>2. (IF e \in DOMAIN one THEN one[e] ELSE 0) = IF e = r THEN 1 ELSE 0
    BY <1>1
  <2>3. (IF e \in DOMAIN C THEN C[e] ELSE 0) = IF e = r THEN B[e] - 1 ELSE B[e]
    BY <1>2, <1>4
  <2> QED
    BY <1>2, <2>1, <2>2, <2>3
<1>10. C (+) one = [e \in DOMAIN B |-> (C (+) one)[e]] /\ B = [e \in DOMAIN B |-> B[e]]
  <2>1. IsBag(C (+) one)
    BY <1>6, <1>7, Joined
  <2> QED
    BY <1>8, <2>1 DEF IsBag
<1> QED
  BY <1>6, <1>9, <1>10 DEF C, one

(* The ledger's sums are those of the contract. *)
LEMMA LedgerSum == \A f : Ledger!SumFunction(f) = SumFunction(f)
  BY DEF Ledger!SumFunction, Ledger!SumFunctionOnSet, Ledger!FoldFunctionOnSet,
         Ledger!MapThenFoldSet, SumFunction, SumFunctionOnSet, FoldFunctionOnSet, MapThenFoldSet

(* What the payments of a transaction are. *)
LEMMA RecipientsType ==
    ASSUME NEW ps \in Recipients
    PROVE  /\ IsFiniteSet(DOMAIN ps)
           /\ \A i \in DOMAIN ps : ps[i] \in Credited
<1>1. PICK n \in 0 .. MaxPayments : ps \in [1 .. n -> [to : Addresses, amount : Amounts]]
  BY DEF Recipients
<1>2. IsFiniteSet(1 .. n)
  BY FS_Interval
<1>3. Amounts \subseteq Nat
  BY TokenAssumption
<1> QED
  BY <1>1, <1>2, <1>3 DEF Credited

(* The image of a finite set. *)
LEMMA FiniteImage ==
    ASSUME NEW f, NEW S, IsFiniteSet(S)
    PROVE  IsFiniteSet({f[x] : x \in S})
<1> DEFINE T == {f[x] : x \in S}
           g == [x \in S |-> f[x]]
<1>1. g \in [S -> T] /\ \A y \in T : \E x \in S : g[x] = y
  OBVIOUS
<1>2. g \in Surjection(S, T)
  BY <1>1 DEF Surjection
<1> HIDE DEF T, g
<1>3. IsFiniteSet(T)
  BY <1>2, FS_Surjection
<1> QED
  BY <1>3 DEF T

(* The credits of transfer_n bring every address what the payments name for
   it: those of an amount of zero bring nothing, and equal ones are counted. *)
LEMMA CarriedCredits ==
    ASSUME NEW ps \in Recipients, NEW a
    PROVE  IsBag(Credits(ps)) /\ Carried(Credits(ps), a) = Ledger!PaidTo(ps, a)
<1> DEFINE I == DOMAIN ps
           P == Paid(ps)
           A == {ps[i] : i \in P}
           Of(p) == {i \in P : ps[i] = p}
           f == [i \in I |-> IF ps[i].to = a THEN ps[i].amount ELSE 0]
           Part(p) == [i \in P |-> IF ps[i] = p THEN f[i] ELSE 0]
           parts == [p \in A |-> SumFunctionOnSet(Part(p), P)]
           w == [p \in A |-> IF p.to = a THEN p.amount * Cardinality(Of(p)) ELSE 0]
<1>1. IsFiniteSet(I) /\ \A i \in I : ps[i] \in Credited
  BY RecipientsType
<1>2. P \subseteq I /\ IsFiniteSet(P) /\ IsFiniteSet(A)
  <2>1. P \subseteq I
    BY DEF Paid
  <2>2. IsFiniteSet(P)
    BY <1>1, <2>1, FS_Subset
  <2>3. IsFiniteSet(A)
    BY <2>2, FiniteImage
  <2> QED
    BY <2>1, <2>2, <2>3
<1>3. ASSUME NEW p \in A
      PROVE  IsFiniteSet(Of(p)) /\ Cardinality(Of(p)) \in Nat \ {0} /\ p \in Credited
  <2>1. Of(p) \subseteq P /\ Of(p) # {} /\ p \in Credited
    BY <1>1, <1>2
  <2> HIDE DEF Of, P, A
  <2>2. IsFiniteSet(Of(p))
    BY <1>2, <2>1, FS_Subset
  <2> QED
    BY <2>1, <2>2, FS_CardinalityType, FS_EmptySet
<1>4. Credits(ps) = [p \in A |-> Cardinality(Of(p))]
  BY DEF Credits
<1>5. \A i \in I : f[i] \in Int
  BY <1>1 DEF Credited
<1>6. \A i \in I \ P : f[i] = 0
  BY <1>1 DEF Credited, Paid
<1>7. ASSUME NEW p \in A PROVE SumFunctionOnSet(Part(p), P) = w[p]
  <2> DEFINE c == IF p.to = a THEN p.amount ELSE 0
  <2>1. /\ \A i \in P : Part(p)[i] \in Int
        /\ \A i \in P \ Of(p) : Part(p)[i] = 0
        /\ Of(p) \in SUBSET P
    BY <1>2, <1>5
  <2>2. \A i \in Of(p) : Part(p)[i] = c
    BY <1>2
  <2>3. c \in Int
    <3>1. p.amount \in Nat
      BY <1>3 DEF Credited
    <3> QED
      BY <3>1
  <2>4. w[p] = c * Cardinality(Of(p))
    <3>1. w[p] = IF p.to = a THEN p.amount * Cardinality(Of(p)) ELSE 0
      OBVIOUS
    <3>2. Cardinality(Of(p)) \in Nat
      BY <1>3
    <3> HIDE DEF w, Of
    <3> QED
      BY <3>1, <3>2
  <2> HIDE DEF Part, Of, w, c, P
  <2>5. SumFunctionOnSet(Part(p), P) = SumFunctionOnSet(Part(p), Of(p))
    BY <1>2, <2>1, SumSupport
  <2>6. SumFunctionOnSet(Part(p), Of(p)) = c * Cardinality(Of(p))
    BY <1>3, <2>2, <2>3, SumConstant
  <2> QED
    BY <2>4, <2>5, <2>6
<1>8. SumFunctionOnSet(parts, A) = SumFunctionOnSet(f, P)
  <2>1. \A i \in P : f[i] \in Int /\ ps[i] \in A
    BY <1>2, <1>5
  <2> HIDE DEF f, P, A
  <2> QED
    BY <1>2, <2>1, SumSplit
<1>9. SumFunctionOnSet(w, A) = SumFunctionOnSet(parts, A)
  <2>1. \A p \in A : parts[p] = w[p]
    <3> HIDE DEF A, Part, w
    <3> QED
      BY <1>7
  <2> HIDE DEF A, parts, w
  <2> QED
    BY <1>2, <2>1, SumSame
<1>10. SumFunctionOnSet(f, I) = SumFunctionOnSet(f, P)
  <2> HIDE DEF f, P, I
  <2> QED
    BY <1>1, <1>2, <1>5, <1>6, SumSupport
<1>11. Ledger!PaidTo(ps, a) = SumFunctionOnSet(f, I)
  BY LedgerSum DEF Ledger!PaidTo, SumFunction
<1>12. Carried(Credits(ps), a) = SumFunctionOnSet(w, A)
  <2>1. DOMAIN Credits(ps) = A /\ \A p \in A : Credits(ps)[p] = Cardinality(Of(p))
    BY <1>4
  <2>2. [r \in A |-> IF r.to = a THEN r.amount * Credits(ps)[r] ELSE 0] = w
    <3> HIDE DEF A, Of
    <3> QED
      BY <2>1
  <2> HIDE DEF A, w
  <2> QED
    BY <2>1, <2>2 DEF Carried
<1>13. IsBag(Credits(ps))
  <2>1. DOMAIN Credits(ps) = A
    BY <1>4
  <2>2. \A p \in A : p \in Credited /\ Cardinality(Of(p)) \in Nat \ {0}
    BY <1>3
  <2> HIDE DEF A, Of
  <2> QED
    BY <1>2, <1>4, <2>1, <2>2 DEF IsBag
<1> HIDE DEF f, I, P, A, w, parts
<1> QED
  BY <1>8, <1>9, <1>10, <1>11, <1>12, <1>13

(* What is paid to all addresses is what the payer pays. *)
LEMMA PaidTotal ==
    ASSUME NEW ps \in Recipients
    PROVE  /\ Total(ps) \in Nat
           /\ \A a : Ledger!PaidTo(ps, a) \in Nat
           /\ SumFunctionOnSet([a \in Addresses |-> Ledger!PaidTo(ps, a)], Addresses) = Total(ps)
<1> DEFINE I == DOMAIN ps
           h == [i \in I |-> ps[i].to]
           f == [i \in I |-> ps[i].amount]
           Part(a) == [i \in I |-> IF h[i] = a THEN f[i] ELSE 0]
<1>1. IsFiniteSet(I) /\ \A i \in I : ps[i] \in Credited
  BY RecipientsType
<1>2. \A i \in I : f[i] \in Nat /\ f[i] \in Int /\ h[i] \in Addresses
  BY <1>1 DEF Credited
<1>3. Total(ps) = SumFunctionOnSet(f, I)
  BY DEF Total, SumFunction
<1>4. \A a : Ledger!PaidTo(ps, a) = SumFunctionOnSet(Part(a), I)
  <2> SUFFICES ASSUME NEW a PROVE Ledger!PaidTo(ps, a) = SumFunctionOnSet(Part(a), I)
    BY Zenon
  <2>1. Part(a) = [i \in I |-> IF ps[i].to = a THEN ps[i].amount ELSE 0] /\ DOMAIN Part(a) = I
    OBVIOUS
  <2> HIDE DEF Part
  <2> QED
    BY <2>1, LedgerSum DEF Ledger!PaidTo, SumFunction
<1>5. \A a : \A i \in I : Part(a)[i] \in Nat
  BY <1>2
<1>6. \A a : SumFunctionOnSet(Part(a), I) \in Nat
  <2> HIDE DEF Part, I
  <2> QED
    BY <1>1, <1>5, SumNat
<1>7. SumFunctionOnSet(f, I) \in Nat
  <2> HIDE DEF f, I
  <2> QED
    BY <1>1, <1>2, SumNat
<1>8. SumFunctionOnSet([a \in Addresses |-> SumFunctionOnSet(Part(a), I)], Addresses)
        = SumFunctionOnSet(f, I)
  <2> HIDE DEF f, h, I
  <2> QED
    BY <1>1, <1>2, TokenAssumption, SumSplit
<1>9. [a \in Addresses |-> Ledger!PaidTo(ps, a)]
        = [a \in Addresses |-> SumFunctionOnSet(Part(a), I)]
  <2> HIDE DEF Part, I
  <2> QED
    BY <1>4
<1> HIDE DEF f, I, Part
<1> QED
  BY <1>3, <1>4, <1>6, <1>7, <1>8, <1>9

-----------------------------------------------------------------------------
(* Part 3.  The operations. *)

(* What an address holds: its balance and what is on its way to it. *)
Held == [a \in Addresses |-> balance[a] + Incoming(a)]

(* What an address holds is a natural. *)
LEMMA HeldType ==
    ASSUME TypeInv
    PROVE  /\ \A a : Incoming(a) \in Nat
           /\ Held \in [Addresses -> Nat]
<1>1. \A a : Incoming(a) \in Nat
  BY IncomingCarried, CarriedNat DEF TypeInv
<1> QED
  BY <1>1 DEF Held, TypeInv

(* What is on its way after a step. *)
LEMMA IncomingNext == \A a : Incoming(a)' = Carried(relays', a)
  BY DEF Incoming, Carried, SumFunction, BagToSet

(* A debit of what the new relays carry is one payment of the ledger. *)
LEMMA DebitPays ==
    ASSUME TypeInv, NEW from \in Addresses, NEW ps \in Recipients, NEW C, IsBag(C),
           \A a \in Addresses : Carried(C, a) = Ledger!PaidTo(ps, a),
           Total(ps) <= balance[from],
           balance' = [balance EXCEPT ![from] = @ - Total(ps)],
           relays' = relays (+) C,
           UNCHANGED supply
    PROVE  TypeInv' /\ Ledger!LedgerPay(from, ps)
<1>1. Total(ps) \in Nat /\ \A a : Ledger!PaidTo(ps, a) \in Nat
  BY PaidTotal
<1>2. TypeInv'
  <2>1. IsBag(relays')
    BY Joined DEF TypeInv
  <2>2. balance' \in [Addresses -> Nat]
    BY <1>1 DEF TypeInv
  <2> QED
    BY <2>1, <2>2 DEF TypeInv
<1>3. \A a \in Addresses : Incoming(a)' = Incoming(a) + Ledger!PaidTo(ps, a)
  BY IncomingNext, IncomingCarried, CarriedUnion DEF TypeInv
<1>4. Total(ps) <= Held[from]
  <2>1. Incoming(from) \in Nat /\ balance[from] \in Nat
    BY HeldType DEF TypeInv
  <2> QED
    BY <1>1, <2>1 DEF Held
<1>5. ASSUME NEW a \in Addresses
      PROVE  balance'[a] + Incoming(a)' = (IF a = from THEN Held[a] - Total(ps) ELSE Held[a])
                                          + Ledger!PaidTo(ps, a)
  <2>1. /\ Incoming(a) \in Nat /\ balance[a] \in Nat /\ Ledger!PaidTo(ps, a) \in Nat
        /\ Held[a] = balance[a] + Incoming(a)
        /\ balance'[a] = IF a = from THEN balance[a] - Total(ps) ELSE balance[a]
    BY <1>1, HeldType DEF TypeInv, Held
  <2> QED
    BY <1>1, <1>3, <2>1
<1>6. Held' = [a \in Addresses |-> (IF a = from THEN Held[a] - Total(ps) ELSE Held[a])
                                   + Ledger!PaidTo(ps, a)]
  BY <1>5 DEF Held
<1>7. Ledger!Total(ps) = Total(ps)
  BY LedgerSum DEF Ledger!Total, Total
<1> QED
  BY <1>2, <1>4, <1>6, <1>7 DEF Ledger!LedgerPay, Held

(* transfer pays one recipient. *)
LEMMA TransferPays ==
    ASSUME TypeInv, NEW from \in Addresses, NEW to \in Addresses, NEW amount \in Amounts,
           Transfer(from, to, amount)
    PROVE  TypeInv' /\ \E ps \in Recipients : Ledger!LedgerPay(from, ps)
<1> DEFINE p == [to |-> to, amount |-> amount]
           ps == <<p>>
<1>1. p \in Credited /\ p \in [to : Addresses, amount : Amounts]
  BY TokenAssumption DEF Credited
<1>2. ps \in Recipients
  <2>1. ps \in [1 .. 1 -> [to : Addresses, amount : Amounts]] /\ 1 \in 0 .. MaxPayments
    BY <1>1, TokenAssumption
  <2> HIDE DEF ps
  <2> QED
    BY <2>1 DEF Recipients
<1>3. DOMAIN ps = {1} /\ ps[1] = p
  OBVIOUS
<1>4. p.to = to /\ p.amount = amount /\ amount \in Nat
  BY TokenAssumption
<1> HIDE DEF p, ps
<1>5. Total(ps) = amount
  <2> DEFINE f == [i \in {1} |-> ps[i].amount]
  <2>1. f[1] = amount /\ DOMAIN f = {1}
    BY <1>3, <1>4
  <2> HIDE DEF f
  <2>2. SumFunctionOnSet(f, {1}) = amount
    BY <1>4, <2>1, SumOne
  <2> QED
    BY <1>3, <2>1, <2>2 DEF Total, SumFunction, f
<1>6. ASSUME NEW a \in Addresses
      PROVE  Carried(SetToBag({p}), a) = Ledger!PaidTo(ps, a)
  <2> DEFINE f == [i \in {1} |-> IF ps[i].to = a THEN ps[i].amount ELSE 0]
  <2>1. f[1] = Share(p, a) /\ f[1] \in Int /\ DOMAIN f = {1}
    BY <1>3, <1>4 DEF Share
  <2>2. SumFunction(f) = Ledger!PaidTo(ps, a)
    BY <1>3, LedgerSum DEF Ledger!PaidTo
  <2> HIDE DEF f
  <2>3. SumFunction(f) = Share(p, a)
    BY <2>1, SumOne DEF SumFunction
  <2> QED
    BY <1>1, <2>2, <2>3, CarriedOne
<1>7. IsBag(SetToBag({p}))
  BY <1>1, CarriedOne
<1>8. /\ Total(ps) <= balance[from]
      /\ balance' = [balance EXCEPT ![from] = @ - Total(ps)]
      /\ relays' = relays (+) SetToBag({p})
      /\ UNCHANGED supply
  <2>1. Total(ps) <= balance[from]
    BY <1>4, <1>5 DEF Transfer, TypeInv
  <2> QED
    BY <1>5, <2>1 DEF Transfer, Credit, p
<1>9. TypeInv' /\ Ledger!LedgerPay(from, ps)
  BY <1>2, <1>6, <1>7, <1>8, DebitPays
<1> QED
  BY <1>2, <1>9

(* transfer_n pays its recipients. *)
LEMMA TransferNPays ==
    ASSUME TypeInv, NEW from \in Addresses, NEW ps \in Recipients, TransferN(from, ps)
    PROVE  TypeInv' /\ Ledger!LedgerPay(from, ps)
<1>1. IsBag(Credits(ps)) /\ \A a \in Addresses : Carried(Credits(ps), a) = Ledger!PaidTo(ps, a)
  BY CarriedCredits
<1>2. /\ Total(ps) <= balance[from]
      /\ balance' = [balance EXCEPT ![from] = @ - Total(ps)]
      /\ relays' = relays (+) Credits(ps)
      /\ UNCHANGED supply
  BY DEF TransferN
<1> HIDE DEF Ledger!LedgerPay
<1> QED
  BY <1>1, <1>2, DebitPays

(* mint mints. *)
LEMMA MintMints ==
    ASSUME TypeInv, NEW a \in Addresses, NEW v \in Amounts, Mint(a, v)
    PROVE  TypeInv' /\ Ledger!LedgerMint(a, v)
<1>1. v \in Nat
  BY TokenAssumption
<1>2. TypeInv'
  BY <1>1 DEF TypeInv, Mint
<1>3. \A b : Incoming(b)' = Incoming(b)
  BY IncomingNext, IncomingCarried DEF Mint
<1>4. ASSUME NEW b \in Addresses
      PROVE  balance'[b] + Incoming(b)' = IF b = a THEN Held[b] + v ELSE Held[b]
  <2>1. /\ Incoming(b) \in Nat /\ balance[b] \in Nat
        /\ Held[b] = balance[b] + Incoming(b)
        /\ balance'[b] = IF b = a THEN balance[b] + v ELSE balance[b]
    BY HeldType DEF TypeInv, Held, Mint
  <2> QED
    BY <1>1, <1>3, <2>1
<1>5. Held' = [Held EXCEPT ![a] = @ + v]
  BY <1>4, HeldType DEF Held
<1>6. supply' = supply + v
  BY DEF Mint
<1> QED
  BY <1>2, <1>5, <1>6 DEF Ledger!LedgerMint, Held

(* The relayed statement changes nothing that the ledger sees. *)
LEMMA RelayStutters ==
    ASSUME TypeInv, RelayCredit
    PROVE  TypeInv' /\ UNCHANGED <<Held, supply>>
<1>1. PICK r \in DOMAIN relays :
        /\ relays' = relays (-) SetToBag({r})
        /\ balance' = [balance EXCEPT ![r.to] = @ + r.amount]
        /\ UNCHANGED supply
  BY DEF RelayCredit, BagToSet
<1>2. r \in Credited /\ r.to \in Addresses /\ r.amount \in Nat
  BY DEF TypeInv, IsBag, Credited
<1>3. IsBag(relays') /\ relays = relays' (+) SetToBag({r})
  BY <1>1, TakeOut DEF TypeInv
<1>4. TypeInv'
  BY <1>1, <1>2, <1>3 DEF TypeInv
<1>5. \A a : Incoming(a) = Incoming(a)' + Share(r, a)
  BY <1>2, <1>3, IncomingNext, IncomingCarried, CarriedUnion, CarriedOne
<1>6. ASSUME NEW a \in Addresses PROVE balance'[a] + Incoming(a)' = Held[a]
  <2>1. /\ Incoming(a)' \in Nat /\ balance[a] \in Nat /\ Held[a] = balance[a] + Incoming(a)
    BY <1>3, IncomingNext, CarriedNat DEF TypeInv, Held
  <2>2. balance'[a] = balance[a] + Share(r, a)
    BY <1>1, <1>2 DEF TypeInv, Share
  <2>3. Share(r, a) \in Nat
    BY <1>2 DEF Share
  <2> QED
    BY <1>5, <2>1, <2>2, <2>3
<1>7. Held' = Held
  BY <1>6, HeldType DEF Held
<1> QED
  BY <1>1, <1>4, <1>7

(* At the start every address holds the balance the script set. *)
LEMMA InitHeld ==
    ASSUME Init
    PROVE  TypeInv /\ Ledger!LedgerInit /\ Conservation
<1>1. DOMAIN relays = {} /\ relays = [r \in {} |-> relays[r]]
  BY DEF Init, EmptyBag, SetToBag
<1>2. IsFiniteSet({}) /\ Cardinality(Addresses) \in Nat
  BY FS_EmptySet, FS_CardinalityType, TokenAssumption
<1>3. TypeInv
  <2>1. IsBag(relays)
    BY <1>1, <1>2 DEF IsBag
  <2>2. \A i, j \in Nat : i * j \in Int
    OBVIOUS
  <2>3. supply \in Int
    BY <1>2, <2>2, TokenAssumption DEF Init
  <2> QED
    BY <2>1, <2>3, TokenAssumption DEF Init, TypeInv
<1>4. \A a : Incoming(a) = 0
  BY <1>1, <1>2, IncomingCarried, SumStep DEF Carried
<1>5. \A a \in Addresses : Held[a] = InitialBalance
  BY <1>4, TokenAssumption DEF Held, Init
<1>6. Held \in [Addresses -> Nat] /\ DOMAIN Held = Addresses
  BY <1>3, HeldType DEF Held
<1>7. SumFunctionOnSet(Held, Addresses) = InitialBalance * Cardinality(Addresses)
  BY <1>5, TokenAssumption, SumConstant
<1>8. SumFunction(Held) = supply
  BY <1>6, <1>7 DEF SumFunction, Init
<1> QED
  BY <1>3, <1>6, <1>8, LedgerSum DEF Ledger!LedgerInit, Conservation, Held

(* A step of the ledger changes the sum of what is held as it changes the
   supply. *)
LEMMA LedgerConserves ==
    ASSUME TypeInv, TypeInv', Conservation, Ledger!LedgerNext
    PROVE  Conservation'
<1>1. /\ Held \in [Addresses -> Nat] /\ Held' \in [Addresses -> Nat]
      /\ DOMAIN Held = Addresses /\ DOMAIN Held' = Addresses
  <2>1. Held \in [Addresses -> Nat]
    BY HeldType
  <2>2. \A a : Incoming(a)' \in Nat
    BY IncomingNext, CarriedNat DEF TypeInv
  <2>3. Held' \in [Addresses -> Nat]
    BY <2>2 DEF Held, TypeInv
  <2> QED
    BY <2>1, <2>3
<1>2. SumFunctionOnSet(Held, Addresses) = supply /\ supply \in Int
  BY <1>1 DEF Conservation, Held, SumFunction, TypeInv
<1>3. SUFFICES SumFunctionOnSet(Held', Addresses) = supply'
  BY <1>1 DEF Conservation, Held, SumFunction
<1>4. IsFiniteSet(Addresses)
  BY TokenAssumption
<1>5. \A a \in Addresses : Held[a] \in Int /\ Held'[a] \in Int
  BY <1>1
<1>6. ASSUME NEW a \in Addresses, NEW v \in Amounts, Ledger!LedgerMint(a, v)
      PROVE  SumFunctionOnSet(Held', Addresses) = supply'
  <2>1. Held' = [Held EXCEPT ![a] = @ + v] /\ supply' = supply + v
    BY <1>6 DEF Ledger!LedgerMint, Held
  <2>2. v \in Nat /\ Held'[a] = Held[a] + v /\ \A b \in Addresses \ {a} : Held'[b] = Held[b]
    BY <1>1, <2>1, TokenAssumption
  <2>3. SumFunctionOnSet(Held', Addresses)
          = SumFunctionOnSet(Held, Addresses) + Held'[a] - Held[a]
    BY <1>4, <1>5, <2>2, SumChange
  <2> QED
    BY <1>2, <1>5, <2>1, <2>2, <2>3
<1>7. ASSUME NEW from \in Addresses, NEW ps \in Recipients, Ledger!LedgerPay(from, ps)
      PROVE  SumFunctionOnSet(Held', Addresses) = supply'
  <2> DEFINE debited == [a \in Addresses |-> IF a = from THEN Held[a] - Total(ps) ELSE Held[a]]
             paid == [a \in Addresses |-> Ledger!PaidTo(ps, a)]
  <2>1. Total(ps) \in Nat /\ SumFunctionOnSet(paid, Addresses) = Total(ps)
    BY PaidTotal
  <2>2. \A a \in Addresses : paid[a] \in Int
    <3>1. \A a : Ledger!PaidTo(ps, a) \in Nat
      BY PaidTotal
    <3> QED
      BY <3>1
  <2>3. Ledger!Total(ps) = Total(ps)
    BY LedgerSum DEF Ledger!Total, Total
  <2>4. supply' = supply /\ \A a \in Addresses : Held'[a] = debited[a] + paid[a]
    BY <1>7, <2>3 DEF Ledger!LedgerPay, Held
  <2>5. /\ \A a \in Addresses : debited[a] \in Int
        /\ debited[from] = Held[from] - Total(ps)
        /\ \A a \in Addresses \ {from} : debited[a] = Held[a]
    BY <1>5, <2>1
  <2> HIDE DEF debited, paid
  <2>6. SumFunctionOnSet(debited, Addresses)
          = SumFunctionOnSet(Held, Addresses) + debited[from] - Held[from]
    BY <1>4, <1>5, <2>5, SumChange
  <2>7. SumFunctionOnSet(Held', Addresses)
          = SumFunctionOnSet(debited, Addresses) + SumFunctionOnSet(paid, Addresses)
    BY <1>4, <2>2, <2>4, <2>5, SumAdd
  <2>8. Held[from] \in Int
    BY <1>5
  <2> QED
    BY <1>2, <2>1, <2>4, <2>5, <2>6, <2>7, <2>8
<1> QED
  BY <1>6, <1>7 DEF Ledger!LedgerNext, Ledger!Payments, Recipients

(* Every step of the contract is a step of the ledger, or one it does not see. *)
LEMMA NextLedger ==
    ASSUME TypeInv, [Next]_vars
    PROVE  TypeInv' /\ (Ledger!LedgerNext \/ UNCHANGED <<Held, supply>>)
<1>0. Ledger!Payments = Recipients
  BY DEF Ledger!Payments, Recipients
<1>1. ASSUME NEW from \in Addresses, NEW to \in Addresses, NEW amount \in Amounts,
             Transfer(from, to, amount)
      PROVE  TypeInv' /\ Ledger!LedgerNext
  <2>1. TypeInv' /\ \E ps \in Recipients : Ledger!LedgerPay(from, ps)
    BY <1>1, TransferPays
  <2> QED
    BY <1>0, <2>1, Zenon DEF Ledger!LedgerNext
<1>2. ASSUME NEW from \in Addresses, NEW ps \in Recipients, TransferN(from, ps)
      PROVE  TypeInv' /\ Ledger!LedgerNext
  <2>1. TypeInv' /\ Ledger!LedgerPay(from, ps)
    BY <1>2, TransferNPays
  <2> QED
    BY <1>0, <2>1, Zenon DEF Ledger!LedgerNext
<1>3. ASSUME NEW a \in Addresses, NEW v \in Amounts, Mint(a, v)
      PROVE  TypeInv' /\ Ledger!LedgerNext
  <2>1. TypeInv' /\ Ledger!LedgerMint(a, v)
    BY <1>3, MintMints
  <2> QED
    BY <2>1, Zenon DEF Ledger!LedgerNext
<1>4. ASSUME RelayCredit
      PROVE  TypeInv' /\ UNCHANGED <<Held, supply>>
  BY <1>4, RelayStutters
<1>5. ASSUME UNCHANGED vars
      PROVE  TypeInv' /\ UNCHANGED <<Held, supply>>
  <2>1. TypeInv'
    BY <1>5 DEF vars, TypeInv
  <2>2. \A a : Incoming(a)' = Incoming(a)
    BY <1>5, IncomingNext, IncomingCarried DEF vars
  <2> QED
    BY <1>5, <2>1, <2>2 DEF vars, Held
<1> QED
  BY <1>1, <1>2, <1>3, <1>4, <1>5 DEF Next

(* Every reachable state keeps the types: in particular no balance is ever
   negative. *)
THEOREM NobodyOverdrawn == Spec => []TypeInv
<1>1. Init => TypeInv
  BY InitHeld
<1>2. TypeInv /\ [Next]_vars => TypeInv'
  BY NextLedger
<1> QED
  BY <1>1, <1>2, PTL DEF Spec

(* Conservation in every reachable state: whatever the order of transfers,
   mints and relayed credits, balances and credits in flight add up to what
   was set at the start and minted. *)
THEOREM TokensConserved == Spec => []Conservation
<1>1. Init => TypeInv /\ Conservation
  BY InitHeld
<1>2. TypeInv /\ Conservation /\ [Next]_vars => (TypeInv /\ Conservation)'
  <2> SUFFICES ASSUME TypeInv, Conservation, [Next]_vars PROVE TypeInv' /\ Conservation'
    OBVIOUS
  <2>1. TypeInv' /\ (Ledger!LedgerNext \/ UNCHANGED <<Held, supply>>)
    BY NextLedger
  <2>2. CASE Ledger!LedgerNext
    BY <2>1, <2>2, LedgerConserves
  <2>3. CASE UNCHANGED <<Held, supply>>
    BY <2>1, <2>3 DEF Conservation, Held
  <2> QED
    BY <2>1, <2>2, <2>3
<1> QED
  BY <1>1, <1>2, PTL DEF Spec

(* ImplementsLedger: transfer and transfer_n are one atomic payment that
   nobody overdraws with, mint is one minting, and the relayed statement is
   not seen. *)
THEOREM ContractIsLedger == Spec => ImplementsLedger
<1>1. Init => Ledger!LedgerInit
  BY InitHeld
<1>2. TypeInv /\ [Next]_vars => [Ledger!LedgerNext]_<<Held, supply>>
  BY NextLedger
<1>3. ImplementsLedger <=> Ledger!LedgerInit /\ [][Ledger!LedgerNext]_<<Held, supply>>
  BY DEF ImplementsLedger, Ledger!LedgerSpec, Held
<1> QED
  BY <1>1, <1>2, <1>3, NobodyOverdrawn, PTL DEF Spec
=============================================================================
