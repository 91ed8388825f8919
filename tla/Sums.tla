-------------------------------- MODULE Sums --------------------------------
(***************************************************************************)
(* What MapThenSumSet adds up: guests in a slot, nights of a stay, a       *)
(* vendor's payments.  Induction over finite sets is by smallest           *)
(* counterexample: a least cardinality that fails (LeastIsOne), hence a    *)
(* set that fails and none of whose subsets one smaller does.              *)
(***************************************************************************)
EXTENDS Integers, FiniteSets, FiniteSetsExt, FiniteSetTheorems, WellFoundedInduction, TLAPS

\* A set of numbers that is not empty has a least element, and Min is it.
LEMMA LeastIsOne ==
    ASSUME NEW S, S \subseteq Nat, S # {}
    PROVE  Min(S) \in S /\ \A y \in S : Min(S) <= y
<1>. DEFINE R == OpToRel(<, Nat)
<1>1. IsWellFoundedOn(R, Nat)
  BY NatLessThanWellFounded
<1>2. PICK x \in S : \A y \in S : ~ (<<y, x>> \in R)
  <2>. HIDE DEF R
  <2>. QED BY <1>1, WFMin
<1>3. \A y \in S : x <= y
  <2>. TAKE y \in S
  <2>1. x \in Nat /\ y \in Nat
    OBVIOUS
  <2>2. ~ (y < x)
    BY <1>2, <2>1 DEF OpToRel
  <2>. QED BY <2>1, <2>2
<1>. QED BY <1>3 DEF Min

\* Dually, Max of a set of numbers with a bound.
LEMMA GreatestIsOne ==
    ASSUME NEW S, S \subseteq Nat, S # {}, NEW n \in Nat, \A y \in S : y <= n
    PROVE  Max(S) \in S /\ \A y \in S : y <= Max(S)
<1>. DEFINE gaps == { n - y : y \in S }
<1>1. gaps \subseteq Nat /\ gaps # {}
  <2>1. ASSUME NEW y \in S PROVE n - y \in Nat
    <3>1. y \in Nat /\ y <= n
      OBVIOUS
    <3>. QED BY <3>1
  <2>. QED BY <2>1
<1>2. Min(gaps) \in gaps /\ \A d \in gaps : Min(gaps) <= d
  <2>. HIDE DEF gaps
  <2>. QED BY <1>1, LeastIsOne
<1>3. PICK x \in S : \A y \in S : n - x <= n - y
  BY <1>2
<1>4. \A y \in S : x >= y
  <2>. TAKE y \in S
  <2>. QED BY <1>3
<1>5. Max(S) \in S /\ \A y \in S : Max(S) >= y
  BY <1>4 DEF Max
<1>. QED BY <1>5

\* The sum of f over S, as MapThenSumSet adds it up: element by element.
SumOf(f, S) == MapThenSumSet(LAMBDA x : f[x], S)
Pick(s) == CHOOSE x \in s : TRUE
Adds(it, f, S) ==
    it = [s \in SUBSET S |-> IF s = {} THEN 0 ELSE f[Pick(s)] + it[s \ {Pick(s)}]]

LEMMA SumIs ==
    ASSUME NEW f, NEW S
    PROVE  SumOf(f, S) = (CHOOSE it : Adds(it, f, S))[S]
BY DEF SumOf, Adds, Pick, MapThenSumSet, MapThenFoldSet

\* Induction over finite sets: of the sets that fail, one is smallest.
LEMMA SmallestOfSets ==
    ASSUME NEW Bad, Bad # {}, \A T \in Bad : IsFiniteSet(T)
    PROVE  \E T \in Bad : \A x \in T : T \ {x} \notin Bad
<1>. DEFINE sizes == { Cardinality(T) : T \in Bad }
<1>1. sizes \subseteq Nat /\ sizes # {}
  BY FS_CardinalityType
<1>2. Min(sizes) \in sizes /\ \A n \in sizes : Min(sizes) <= n
  <2>. HIDE DEF sizes
  <2>. QED BY <1>1, LeastIsOne
<1>3. PICK T \in Bad : \A U \in Bad : Cardinality(T) <= Cardinality(U)
  BY <1>2
<1>4. ASSUME NEW x \in T, T \ {x} \in Bad PROVE FALSE
  <2>1. Cardinality(T \ {x}) = Cardinality(T) - 1 /\ Cardinality(T) \in Nat
    BY FS_RemoveElement, FS_CardinalityType
  <2>2. Cardinality(T) <= Cardinality(T \ {x})
    BY <1>3, <1>4
  <2>. QED BY <2>1, <2>2
<1>. QED BY <1>4

\* Two ways to add up agree where they meet.
LEMMA AddsOneWay ==
    ASSUME NEW f, NEW A, NEW B, NEW i, NEW j, Adds(i, f, A), Adds(j, f, B),
           NEW S \in SUBSET A, S \in SUBSET B, IsFiniteSet(S)
    PROVE  i[S] = j[S]
<1>. DEFINE Bad == { s \in SUBSET S : i[s] # j[s] }
<1>1. SUFFICES ASSUME Bad # {} PROVE FALSE
  OBVIOUS
<1>2. \A T \in Bad : IsFiniteSet(T)
  BY FS_Subset
<1>3. PICK T \in Bad : \A x \in T : T \ {x} \notin Bad
  <2>. HIDE DEF Bad
  <2>. QED BY <1>1, <1>2, SmallestOfSets
<1>4. /\ i[T] = IF T = {} THEN 0 ELSE f[Pick(T)] + i[T \ {Pick(T)}]
      /\ j[T] = IF T = {} THEN 0 ELSE f[Pick(T)] + j[T \ {Pick(T)}]
  <2>1. T \in SUBSET A /\ T \in SUBSET B
    OBVIOUS
  <2>2. i[T] = IF T = {} THEN 0 ELSE f[Pick(T)] + i[T \ {Pick(T)}]
    BY <2>1 DEF Adds
  <2>3. j[T] = IF T = {} THEN 0 ELSE f[Pick(T)] + j[T \ {Pick(T)}]
    BY <2>1 DEF Adds
  <2>. QED BY <2>2, <2>3
<1>5. T # {}
  BY <1>4
<1>6. Pick(T) \in T
  BY <1>5 DEF Pick
<1>7. i[T \ {Pick(T)}] = j[T \ {Pick(T)}]
  BY <1>3, <1>6
<1>. QED BY <1>4, <1>5, <1>7

\* Every finite set can be added up.
LEMMA AddsExists ==
    ASSUME NEW f, NEW S, IsFiniteSet(S)
    PROVE  \E it : Adds(it, f, S)
<1>. DEFINE Bad == { s \in SUBSET S : ~\E it : Adds(it, f, s) }
<1>1. SUFFICES ASSUME Bad # {} PROVE FALSE
  OBVIOUS
<1>2. \A T \in Bad : IsFiniteSet(T)
  BY FS_Subset
<1>3. PICK T \in Bad : \A x \in T : T \ {x} \notin Bad
  <2>. HIDE DEF Bad
  <2>. QED BY <1>1, <1>2, SmallestOfSets
<1>4. IsFiniteSet(T) /\ T \in SUBSET S
  BY <1>2
<1>. DEFINE part(s) == CHOOSE it : Adds(it, f, s)
            whole == [s \in SUBSET T |->
                        IF s = T THEN (IF T = {} THEN 0 ELSE f[Pick(T)] + part(T \ {Pick(T)})[T \ {Pick(T)}])
                        ELSE part(T \ {CHOOSE x \in T : x \notin s})[s]]
<1>5. \A x \in T : Adds(part(T \ {x}), f, T \ {x})
  <2>. TAKE x \in T
  <2>1. \E it : Adds(it, f, T \ {x})
    BY <1>3
  <2>. QED BY <2>1
<1>6. ASSUME NEW s \in SUBSET T, s # T, NEW x \in T, x \notin s
      PROVE  whole[s] = part(T \ {x})[s]
  <2>. DEFINE y == CHOOSE y \in T : y \notin s
  <2>1. y \in T /\ y \notin s
    BY <1>6
  <2>2. IsFiniteSet(s) /\ s \in SUBSET (T \ {x}) /\ s \in SUBSET (T \ {y})
    BY <1>4, <1>6, <2>1, FS_Subset
  <2>3. Adds(part(T \ {x}), f, T \ {x}) /\ Adds(part(T \ {y}), f, T \ {y})
    BY <1>5, <2>1
  <2>4. whole[s] = part(T \ {y})[s]
    BY <1>6
  <2>. HIDE DEF y, part, whole
  <2>5. part(T \ {x})[s] = part(T \ {y})[s]
    BY <2>2, <2>3, AddsOneWay
  <2>. QED BY <2>4, <2>5
<1>7. ASSUME NEW s \in SUBSET T
      PROVE  whole[s] = IF s = {} THEN 0 ELSE f[Pick(s)] + whole[s \ {Pick(s)}]
  <2>. DEFINE rest == s \ {Pick(s)}
  <2>0. s # {} => Pick(s) \in s
    BY DEF Pick
  <2>1. CASE s = T
    <3>1. CASE T = {}
      BY <2>1, <3>1
    <3>2. CASE T # {}
      <4>1. Pick(T) \in T /\ rest = T \ {Pick(T)} /\ rest # T /\ rest \in SUBSET T
        BY <2>0, <2>1, <3>2
      <4>2. whole[rest] = part(T \ {Pick(T)})[rest]
        <5>. HIDE DEF whole, part
        <5>. QED BY <4>1, <1>6
      <4>. QED BY <2>1, <3>2, <4>1, <4>2
    <3>. QED BY <3>1, <3>2
  <2>2. CASE s # T
    <3>1. PICK x \in T : x \notin s
      BY <2>2
    <3>2. whole[s] = part(T \ {x})[s] /\ Adds(part(T \ {x}), f, T \ {x}) /\ s \in SUBSET (T \ {x})
      <4>. HIDE DEF whole, part
      <4>. QED BY <3>1, <2>2, <1>5, <1>6
    <3>. HIDE DEF part
    <3>3. part(T \ {x})[s] = IF s = {} THEN 0 ELSE f[Pick(s)] + part(T \ {x})[rest]
      BY <3>2 DEF Adds
    <3>4. CASE s = {}
      BY <3>2, <3>3, <3>4
    <3>5. CASE s # {}
      <4>1. rest \in SUBSET T /\ rest # T /\ x \notin rest
        BY <2>0, <3>1, <3>5
      <4>. HIDE DEF whole, rest
      <4>2. whole[rest] = part(T \ {x})[rest]
        BY <4>1, <3>1, <1>6
      <4>. QED BY <3>2, <3>3, <3>5, <4>2 DEF rest
    <3>. QED BY <3>4, <3>5
  <2>. QED BY <2>1, <2>2
<1>8. Adds(whole, f, T)
  <2>1. whole = [s \in SUBSET T |-> whole[s]]
    OBVIOUS
  <2>. HIDE DEF whole
  <2>2. [s \in SUBSET T |-> whole[s]]
          = [s \in SUBSET T |-> IF s = {} THEN 0 ELSE f[Pick(s)] + whole[s \ {Pick(s)}]]
    BY <1>7
  <2>. QED BY <2>1, <2>2 DEF Adds
<1>. QED
  <2>. HIDE DEF whole
  <2>. QED BY <1>8

\* The sum over a finite set, unfolded once.
LEMMA SumUnfolds ==
    ASSUME NEW f, NEW S, IsFiniteSet(S)
    PROVE  SumOf(f, S) = IF S = {} THEN 0 ELSE f[Pick(S)] + SumOf(f, S \ {Pick(S)})
<1>. DEFINE it(s) == CHOOSE i : Adds(i, f, s)
            rest == S \ {Pick(S)}
<1>1. IsFiniteSet(rest)
  BY FS_RemoveElement
<1>2. Adds(it(S), f, S) /\ Adds(it(rest), f, rest)
  BY <1>1, AddsExists
<1>3. SumOf(f, S) = it(S)[S] /\ SumOf(f, rest) = it(rest)[rest]
  BY SumIs
<1>. HIDE DEF it
<1>4. it(S)[S] = IF S = {} THEN 0 ELSE f[Pick(S)] + it(S)[rest]
  BY <1>2 DEF Adds
<1>5. it(S)[rest] = it(rest)[rest]
  <2>. HIDE DEF rest
  <2>1. rest \in SUBSET S
    BY DEF rest
  <2>. QED BY <1>1, <1>2, <2>1, AddsOneWay
<1>. QED BY <1>3, <1>4, <1>5

\* A sum of numbers is a number.
LEMMA SumIsNat ==
    ASSUME NEW D, NEW f \in [D -> Nat], NEW S \in SUBSET D, IsFiniteSet(S)
    PROVE  SumOf(f, S) \in Nat
<1>. DEFINE Bad == { s \in SUBSET S : SumOf(f, s) \notin Nat }
<1>1. SUFFICES ASSUME Bad # {} PROVE FALSE
  OBVIOUS
<1>2. \A T \in Bad : IsFiniteSet(T)
  BY FS_Subset
<1>3. PICK T \in Bad : \A x \in T : T \ {x} \notin Bad
  <2>. HIDE DEF Bad
  <2>. QED BY <1>1, <1>2, SmallestOfSets
<1>4. SumOf(f, T) = IF T = {} THEN 0 ELSE f[Pick(T)] + SumOf(f, T \ {Pick(T)})
  BY <1>2, SumUnfolds
<1>5. T # {}
  BY <1>4
<1>6. Pick(T) \in T /\ T \in SUBSET D
  BY <1>5 DEF Pick
<1>7. SumOf(f, T \ {Pick(T)}) \in Nat
  BY <1>3, <1>6
<1>. QED BY <1>4, <1>5, <1>6, <1>7

\* In whatever order the elements are added.
LEMMA SumSplits ==
    ASSUME NEW D, NEW f \in [D -> Nat], NEW S \in SUBSET D, IsFiniteSet(S), NEW x \in S
    PROVE  SumOf(f, S) = f[x] + SumOf(f, S \ {x})
<1>. DEFINE Bad == { s \in SUBSET S : \E e \in s : SumOf(f, s) # f[e] + SumOf(f, s \ {e}) }
<1>1. SUFFICES ASSUME Bad # {} PROVE FALSE
  OBVIOUS
<1>2. \A T \in Bad : IsFiniteSet(T)
  BY FS_Subset
<1>3. PICK T \in Bad : \A e \in T : T \ {e} \notin Bad
  <2>. HIDE DEF Bad
  <2>. QED BY <1>1, <1>2, SmallestOfSets
<1>4. PICK e \in T : SumOf(f, T) # f[e] + SumOf(f, T \ {e})
  OBVIOUS
<1>. DEFINE p == Pick(T)
<1>5. p \in T /\ T \in SUBSET D /\ IsFiniteSet(T)
  BY <1>2 DEF Pick
<1>6. SumOf(f, T) = f[p] + SumOf(f, T \ {p})
  BY <1>5, SumUnfolds
<1>7. p # e
  BY <1>4, <1>6
<1>. HIDE DEF p
<1>8. SumOf(f, T \ {p}) = f[e] + SumOf(f, (T \ {p}) \ {e})
  BY <1>3, <1>5, <1>7
<1>9. SumOf(f, T \ {e}) = f[p] + SumOf(f, (T \ {e}) \ {p})
  BY <1>3, <1>5, <1>7
<1>10. (T \ {p}) \ {e} = (T \ {e}) \ {p}
  OBVIOUS
<1>11. SumOf(f, (T \ {p}) \ {e}) \in Nat /\ f[p] \in Nat /\ f[e] \in Nat
  <2>1. (T \ {p}) \ {e} \in SUBSET D /\ IsFiniteSet((T \ {p}) \ {e})
    BY <1>5, FS_Subset
  <2>. QED BY <1>5, <2>1, SumIsNat
<1>12. SumOf(f, T \ {e}) = f[p] + SumOf(f, (T \ {p}) \ {e})
  BY <1>9, <1>10
<1>13. SumOf(f, T) = f[p] + (f[e] + SumOf(f, (T \ {p}) \ {e}))
  BY <1>6, <1>8
<1>14. f[p] + (f[e] + SumOf(f, (T \ {p}) \ {e})) = f[e] + (f[p] + SumOf(f, (T \ {p}) \ {e}))
  BY <1>11
<1>. QED BY <1>4, <1>12, <1>13, <1>14

\* More elements, no smaller sum.
LEMMA SumGrows ==
    ASSUME NEW D, NEW f \in [D -> Nat], NEW S \in SUBSET D, IsFiniteSet(S), NEW A \in SUBSET S
    PROVE  SumOf(f, A) <= SumOf(f, S)
<1>. DEFINE Bad == { s \in SUBSET S : A \subseteq s /\ ~(SumOf(f, A) <= SumOf(f, s)) }
<1>1. SUFFICES ASSUME Bad # {} PROVE FALSE
  OBVIOUS
<1>2. \A T \in Bad : IsFiniteSet(T)
  BY FS_Subset
<1>3. PICK T \in Bad : \A e \in T : T \ {e} \notin Bad
  <2>. HIDE DEF Bad
  <2>. QED BY <1>1, <1>2, SmallestOfSets
<1>4. IsFiniteSet(A) /\ A \in SUBSET D /\ T \in SUBSET D /\ IsFiniteSet(T)
  BY <1>2, FS_Subset
<1>5. SumOf(f, A) \in Nat
  BY <1>4, SumIsNat
<1>6. A # T
  BY <1>5
<1>7. PICK e \in T : e \notin A
  BY <1>6
<1>8. SumOf(f, A) <= SumOf(f, T \ {e})
  BY <1>3, <1>7
<1>9. SumOf(f, T) = f[e] + SumOf(f, T \ {e}) /\ f[e] \in Nat /\ SumOf(f, T \ {e}) \in Nat
  <2>1. T \ {e} \in SUBSET D /\ IsFiniteSet(T \ {e})
    BY <1>4, FS_Subset
  <2>. QED BY <1>4, <2>1, SumSplits, SumIsNat
<1>. QED BY <1>5, <1>8, <1>9

\* Something is left in all exactly when something is left somewhere.
LEMMA SumPositive ==
    ASSUME NEW D, NEW f \in [D -> Nat], NEW S \in SUBSET D, IsFiniteSet(S)
    PROVE  SumOf(f, S) > 0 <=> \E x \in S : f[x] > 0
<1>1. ASSUME NEW x \in S, f[x] > 0 PROVE SumOf(f, S) > 0
  <2>1. IsFiniteSet(S \ {x}) /\ S \ {x} \in SUBSET D /\ x \in D
    BY FS_RemoveElement
  <2>2. SumOf(f, S) = f[x] + SumOf(f, S \ {x}) /\ SumOf(f, S \ {x}) \in Nat
    BY <2>1, SumSplits, SumIsNat
  <2>3. f[x] \in Nat
    BY <2>1
  <2>. QED BY <1>1, <2>2, <2>3
<1>2. ASSUME \A x \in S : ~(f[x] > 0) PROVE SumOf(f, S) = 0
  <2>. DEFINE Bad == { s \in SUBSET S : SumOf(f, s) # 0 }
  <2>1. SUFFICES ASSUME Bad # {} PROVE FALSE
    OBVIOUS
  <2>2. \A T \in Bad : IsFiniteSet(T)
    BY FS_Subset
  <2>3. PICK T \in Bad : \A x \in T : T \ {x} \notin Bad
    <3>. HIDE DEF Bad
    <3>. QED BY <2>1, <2>2, SmallestOfSets
  <2>4. SumOf(f, T) = IF T = {} THEN 0 ELSE f[Pick(T)] + SumOf(f, T \ {Pick(T)})
    BY <2>2, SumUnfolds
  <2>5. T # {}
    BY <2>4
  <2>6. Pick(T) \in T /\ T \in SUBSET S
    BY <2>5 DEF Pick
  <2>7. SumOf(f, T \ {Pick(T)}) = 0
    BY <2>3, <2>6
  <2>8. f[Pick(T)] = 0
    <3>1. f[Pick(T)] \in Nat /\ ~(f[Pick(T)] > 0)
      BY <1>2, <2>6
    <3>. QED BY <3>1
  <2>. QED BY <2>4, <2>5, <2>7, <2>8
<1>. QED BY <1>1, <1>2

\* Two groups that share nobody.
LEMMA SumOfTwo ==
    ASSUME NEW D, NEW f \in [D -> Nat], NEW A \in SUBSET D, NEW B \in SUBSET D,
           IsFiniteSet(A), IsFiniteSet(B), A \cap B = {}
    PROVE  SumOf(f, A \cup B) = SumOf(f, A) + SumOf(f, B)
<1>. DEFINE Bad == { T \in SUBSET B : SumOf(f, A \cup T) # SumOf(f, A) + SumOf(f, T) }
<1>1. SUFFICES ASSUME Bad # {} PROVE FALSE
  OBVIOUS
<1>2. \A T \in Bad : IsFiniteSet(T)
  BY FS_Subset
<1>3. PICK T \in Bad : \A x \in T : T \ {x} \notin Bad
  <2>. HIDE DEF Bad
  <2>. QED BY <1>1, <1>2, SmallestOfSets
<1>4. SumOf(f, A) \in Nat
  BY SumIsNat
<1>5. T # {}
  <2>1. SumOf(f, {}) = 0
    BY SumUnfolds, FS_EmptySet
  <2>2. T = {} => A \cup T = A
    OBVIOUS
  <2>. QED BY <1>4, <2>1, <2>2
<1>6. PICK x \in T : TRUE
  BY <1>5
<1>7. /\ SumOf(f, T) = f[x] + SumOf(f, T \ {x})
      /\ SumOf(f, A \cup T) = f[x] + SumOf(f, (A \cup T) \ {x})
      /\ SumOf(f, T \ {x}) \in Nat /\ f[x] \in Nat
  <2>1. IsFiniteSet(T) /\ IsFiniteSet(A \cup T) /\ IsFiniteSet(T \ {x})
    BY <1>2, FS_Union, FS_RemoveElement
  <2>2. T \in SUBSET D /\ A \cup T \in SUBSET D /\ T \ {x} \in SUBSET D /\ x \in D
    OBVIOUS
  <2>. QED BY <1>6, <2>1, <2>2, SumSplits, SumIsNat
<1>8. (A \cup T) \ {x} = A \cup (T \ {x})
  BY <1>6
<1>9. SumOf(f, A \cup (T \ {x})) = SumOf(f, A) + SumOf(f, T \ {x})
  BY <1>3, <1>6
<1>10. SumOf(f, A \cup T) # SumOf(f, A) + SumOf(f, T)
  BY <1>3
<1>. HIDE DEF Bad
<1>. QED
  <2>1. SumOf(f, A \cup T) = f[x] + (SumOf(f, A) + SumOf(f, T \ {x}))
    BY <1>7, <1>8, <1>9
  <2>2. SumOf(f, A) + SumOf(f, T) = f[x] + (SumOf(f, A) + SumOf(f, T \ {x}))
    BY <1>4, <1>7
  <2>. QED BY <1>10, <2>1, <2>2
=============================================================================
