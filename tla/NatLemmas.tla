----------------------------- MODULE NatLemmas -----------------------------
(***************************************************************************)
(* Facts about sets of natural numbers that the proofs of several modules  *)
(* use.  A least member replaces induction: a property of all numbers is   *)
(* proved by looking at the least one that does not have it.               *)
(***************************************************************************)
EXTENDS Integers, FiniteSetsExt, WellFoundedInduction, TLAPS

\* A nonempty set of naturals has a least member.
LEMMA LeastOf ==
    ASSUME NEW T, T \subseteq Nat, T # {}
    PROVE  \E x \in T : \A y \in T : x <= y
<1>1. PICK x \in T : \A y \in T : ~ (<<y, x>> \in OpToRel(<, Nat))
  BY NatLessThanWellFounded, WFMin
<1>2. \A y \in T : ~(y < x)
  BY <1>1 DEF OpToRel
<1> QED
  BY <1>2

\* A bounded one has a greatest, which is its Max.
LEMMA MaxOf ==
    ASSUME NEW n \in Nat, NEW T, T \subseteq 1..n, T # {}
    PROVE  Max(T) \in T /\ \A y \in T : y <= Max(T)
<1> DEFINE U == {u \in 0..n : n - u \in T}
<1>1. U \subseteq Nat
  OBVIOUS
<1>2. U # {}
  <2>1. PICK t \in T : TRUE
    OBVIOUS
  <2>2. n - t \in 0..n /\ n - (n - t) = t
    BY <2>1
  <2>3. n - t \in U
    BY <2>2
  <2> HIDE DEF U
  <2> QED
    BY <2>3
<1>3. PICK u \in U : \A v \in U : u <= v
  <2> HIDE DEF U
  <2> QED
    BY <1>1, <1>2, LeastOf
<1>4. ASSUME NEW y \in T PROVE y <= n - u
  <2>1. n - y \in U
    OBVIOUS
  <2> QED
    BY <2>1, <1>3
<1>5. \E x \in T : \A y \in T : x >= y
  BY <1>3, <1>4
<1>6. Max(T) \in T /\ \A y \in T : Max(T) >= y
  BY <1>5 DEF Max
<1> QED
  BY <1>6

\* A nonempty one's Min is its least.
LEMMA MinOf ==
    ASSUME NEW T, T \subseteq Nat, T # {}
    PROVE  Min(T) \in T /\ \A y \in T : Min(T) <= y
<1>1. \E x \in T : \A y \in T : x <= y
  BY LeastOf
<1> QED
  BY <1>1 DEF Min

\* Of two numbers.
LEMMA MinPair ==
    ASSUME NEW a \in Int, NEW b \in Int
    PROVE  Min({a, b}) = IF a <= b THEN a ELSE b
<1> DEFINE n == Min({a, b})
<1>1. \E x \in {a, b} : \A y \in {a, b} : x <= y
  OBVIOUS
<1>2. n \in {a, b} /\ \A y \in {a, b} : n <= y
  BY <1>1 DEF Min
<1> HIDE DEF n
<1>3. n = IF a <= b THEN a ELSE b
  BY <1>2
<1> QED
  BY <1>3 DEF n

LEMMA MaxPair ==
    ASSUME NEW a \in Int, NEW b \in Int
    PROVE  Max({a, b}) = IF a >= b THEN a ELSE b
<1> DEFINE n == Max({a, b})
<1>1. \E x \in {a, b} : \A y \in {a, b} : x >= y
  OBVIOUS
<1>2. n \in {a, b} /\ \A y \in {a, b} : n >= y
  BY <1>1 DEF Max
<1> HIDE DEF n
<1>3. n = IF a >= b THEN a ELSE b
  BY <1>2
<1> QED
  BY <1>3 DEF n

\* The member below which there is none is the Min.
LEMMA MinIs ==
    ASSUME NEW T, T \subseteq Nat \ {0}, NEW m \in T, \A k \in 1..(m - 1) : k \notin T
    PROVE  Min(T) = m
<1> DEFINE n == Min(T)
<1>1. \A y \in T : m <= y
  OBVIOUS
<1>2. n \in T /\ \A y \in T : n <= y
  BY <1>1 DEF Min
<1> HIDE DEF n
<1>3. n \in Int /\ m \in Int /\ m <= n /\ n <= m
  BY <1>1, <1>2
<1>4. n = m
  BY <1>3
<1> QED
  BY <1>4 DEF n
============================================================================
