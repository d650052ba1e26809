---------------------------- MODULE IntervalFacts ----------------------------
(***************************************************************************)
(* Intervals of natural numbers: what the maxima and the sorted sets of    *)
(* the other modules rest on.  Induction over numbers enters by the        *)
(* library's theorem that < is well-founded on Nat, which needs no         *)
(* operator as a parameter.                                                *)
(***************************************************************************)
EXTENDS Integers, FiniteSetTheorems, WellFoundedInduction, TLAPS

LEMMA LessWellFounded == IsWellFoundedOn({ss \in Nat \X Nat : ss[1] < ss[2]}, Nat)
BY NatLessThanWellFounded DEF OpToRel

\* A set of numbers below a bound has a greatest one: the one that leaves the
\* least to the bound.
LEMMA GreatestElement ==
  ASSUME NEW n \in Nat, NEW S \in SUBSET (1..n), S # {}
  PROVE  \E m \in S : \A y \in S : m >= y
<1> DEFINE T == {x \in Nat : \E w \in S : w + x = n}
           R == {ss \in Nat \X Nat : ss[1] < ss[2]}
<1>1. \A w \in S : w \in Nat /\ n - w \in Nat /\ w + (n - w) = n
  OBVIOUS
<1>2. T \subseteq Nat /\ T # {}
  <2>1. PICK w \in S : TRUE
    OBVIOUS
  <2>2. n - w \in T
    BY <1>1, <2>1
  <2> QED BY <2>2
<1>3. PICK x \in T : \A y \in T : ~(<<y, x>> \in R)
  <2>1. IsWellFoundedOn(R, Nat)
    BY LessWellFounded
  <2> HIDE DEF T, R
  <2> QED BY <1>2, <2>1, WFMin
<1>4. \A y \in T : x <= y
  <2>1. TAKE y \in T
  <2>2. x \in Nat /\ y \in Nat
    BY <1>2
  <2>3. y < x => <<y, x>> \in R
    BY <2>2
  <2> HIDE DEF R
  <2> QED BY <1>3, <2>2, <2>3
<1>5. PICK w \in S : w + x = n
  BY <1>3
<1>6. \A y \in S : w >= y
  <2>1. TAKE y \in S
  <2>2. n - y \in T
    BY <1>1
  <2>3. x <= n - y /\ x \in Nat /\ w \in Nat /\ y \in Nat
    BY <1>1, <1>2, <1>4, <2>2
  <2> HIDE DEF T, R
  <2> QED BY <1>5, <2>3
<1> QED BY <1>6

\* A set of numbers has a least one.
LEMMA LeastElement ==
  ASSUME NEW S \in SUBSET Nat, S # {}
  PROVE  \E m \in S : \A y \in S : m <= y
<1> DEFINE R == {ss \in Nat \X Nat : ss[1] < ss[2]}
<1>1. PICK m \in S : \A y \in S : ~(<<y, m>> \in R)
  <2>1. IsWellFoundedOn(R, Nat)
    BY LessWellFounded
  <2> HIDE DEF R
  <2> QED BY <2>1, WFMin
<1>2. ASSUME NEW y \in S
      PROVE  m <= y
  <2>1. m \in Nat /\ y \in Nat
    OBVIOUS
  <2>2. y < m => <<y, m>> \in R
    BY <2>1
  <2> HIDE DEF R
  <2> QED BY <1>1, <2>1, <2>2
<1> QED BY <1>1, <1>2

\* The k-th smallest number of an interval: sorting leaves it as it is.
LEMMA IntervalRank ==
  ASSUME NEW lo \in Nat, NEW hi \in Nat, lo <= hi
  PROVE  /\ Cardinality((lo + 1)..hi) = hi - lo
         /\ \A k \in 1..(hi - lo) :
              (CHOOSE x \in (lo + 1)..hi :
                 Cardinality({y \in (lo + 1)..hi : y < x}) = k - 1) = lo + k
<1>1. Cardinality((lo + 1)..hi) = hi - lo
  <2>1. lo + 1 \in Int /\ hi \in Int
    OBVIOUS
  <2>2. Cardinality((lo + 1)..hi) = IF lo + 1 > hi THEN 0 ELSE hi - (lo + 1) + 1
    BY <2>1, FS_Interval
  <2> QED BY <2>2
<1>2. ASSUME NEW k \in 1..(hi - lo)
      PROVE  (CHOOSE x \in (lo + 1)..hi :
                Cardinality({y \in (lo + 1)..hi : y < x}) = k - 1) = lo + k
  <2>1. \A x \in (lo + 1)..hi : {y \in (lo + 1)..hi : y < x} = (lo + 1)..(x - 1)
    OBVIOUS
  <2>2. \A x \in (lo + 1)..hi : Cardinality({y \in (lo + 1)..hi : y < x}) = x - lo - 1
    <3>1. TAKE x \in (lo + 1)..hi
    <3>2. Cardinality((lo + 1)..(x - 1)) = x - lo - 1
      BY FS_Interval
    <3> QED BY <2>1, <3>2
  <2> QED BY <2>2
<1> QED BY <1>1, <1>2

=============================================================================
