----------------------------- MODULE Induction -----------------------------
(***************************************************************************)
(* Induction stated about sets, so that it can be cited in a proof: what   *)
(* is proved by induction is that a set of numbers is all of them.  Each   *)
(* lemma goes back to the least counterexample, whose existence the well-  *)
(* foundedness of the natural numbers gives.  The passes, counters and     *)
(* recursive tables of the other proof modules need them.                  *)
(***************************************************************************)
EXTENDS Integers, TLAPS, WellFoundedInduction

(* A nonempty set of natural numbers has a least element.                  *)
LEMMA LeastNatural ==
  ASSUME NEW T, T \subseteq Nat, T # {}
  PROVE  \E x \in T : \A y \in T : x <= y
  <1>1. PICK x \in T : \A y \in T : ~(<<y, x>> \in OpToRel(<, Nat))
    BY NatLessThanWellFounded, WFMin
  <1>2. \A y \in T : ~(y < x)
    BY <1>1 DEF OpToRel
  <1>3. \A y \in T : x <= y
    <2> TAKE y \in T
    <2>1. x \in Nat /\ y \in Nat /\ ~(y < x)
      BY <1>2
    <2> QED
      BY <2>1
  <1> QED
    BY <1>3

(* What holds at the beginning of an interval, and goes from one number    *)
(* to the next, holds in the interval.                                     *)
LEMMA IntervalInduction ==
  ASSUME NEW m \in Int, NEW n \in Int, NEW S,
         m <= n => m \in S,
         \A i \in m..n : i < n /\ i \in S => i + 1 \in S
  PROVE  m..n \subseteq S
  <1> DEFINE bad == {k \in Nat : m + k <= n /\ m + k \notin S}
  <1>1. SUFFICES ASSUME NEW i \in m..n, i \notin S PROVE FALSE
    OBVIOUS
  <1>2. i - m \in bad
    BY <1>1
  <1>3. PICK k \in bad : \A y \in bad : k <= y
    <2> HIDE DEF bad
    <2>1. bad \subseteq Nat
      BY DEF bad
    <2> QED
      BY <1>2, <2>1, LeastNatural
  <1>4. k # 0
    BY <1>3
  <1>5. /\ k - 1 \in Nat /\ k - 1 \notin bad
        /\ m + (k - 1) \in m..n /\ m + (k - 1) < n
    BY <1>3, <1>4
  <1>6. m + (k - 1) \in S
    BY <1>5
  <1>7. m + (k - 1) + 1 \in S
    BY <1>5, <1>6
  <1>8. m + (k - 1) + 1 = m + k
    BY <1>3
  <1> QED
    BY <1>3, <1>7, <1>8

(* The values of a computation: from c, n steps, D saying what a step      *)
(* makes of the value before it.                                           *)
IsIteration(f, n, T, c, D) ==
  /\ f \in [0..n -> T]
  /\ f[0] = c
  /\ \A i \in 1..n : f[i] = D[<<i, f[i - 1]>>]

(* Such a computation exists.                                              *)
LEMMA IterationExists ==
  ASSUME NEW n \in Nat, NEW T, NEW c \in T, NEW D \in [(1..n) \X T -> T]
  PROVE  \E f : IsIteration(f, n, T, c, D)
  <1> DEFINE Upto(k, f) == f[0] = c /\ \A i \in 1..k : f[i] = D[<<i, f[i - 1]>>]
             S == {k \in 0..n : \E f \in [0..k -> T] : Upto(k, f)}
  <1>1. 0 \in S
    <2>1. [i \in 0..0 |-> c] \in [0..0 -> T] /\ Upto(0, [i \in 0..0 |-> c])
      OBVIOUS
    <2>2. \E f \in [0..0 -> T] : Upto(0, f)
      <3> HIDE DEF Upto
      <3> QED
        BY <2>1
    <2>3. 0 \in 0..n
      OBVIOUS
    <2> HIDE DEF Upto
    <2> QED
      BY <2>2, <2>3
  <1>2. ASSUME NEW k \in 0..n, k < n, k \in S
        PROVE  k + 1 \in S
    <2>1. PICK f \in [0..k -> T] : Upto(k, f)
      BY <1>2
    <2> DEFINE g == [i \in 0..(k + 1) |->
                       IF i = k + 1 THEN D[<<k + 1, f[k]>>] ELSE f[i]]
    <2>2. f[k] \in T /\ k + 1 \in 1..n
      BY <1>2
    <2>3. D[<<k + 1, f[k]>>] \in T
      <3>1. <<k + 1, f[k]>> \in (1..n) \X T
        BY <2>2
      <3> QED
        BY <3>1
    <2>4. g \in [0..(k + 1) -> T]
      BY <2>3
    <2>5. g[0] = c
      BY <2>1
    <2>6. ASSUME NEW i \in 1..(k + 1) PROVE g[i] = D[<<i, g[i - 1]>>]
      <3>1. CASE i = k + 1
        <4>1. g[i] = D[<<k + 1, f[k]>>] /\ g[i - 1] = f[k]
          BY <3>1
        <4> QED
          BY <3>1, <4>1
      <3>2. CASE i # k + 1
        <4>1. i \in 1..k /\ i - 1 \in 0..k /\ i - 1 # k + 1
          BY <3>2
        <4>2. g[i] = f[i] /\ g[i - 1] = f[i - 1] /\ f[i] = D[<<i, f[i - 1]>>]
          BY <4>1, <2>1
        <4> QED
          BY <4>2
      <3> QED
        BY <3>1, <3>2
    <2>7. Upto(k + 1, g)
      BY <2>5, <2>6
    <2>8. \E h \in [0..(k + 1) -> T] : Upto(k + 1, h)
      <3> HIDE DEF Upto, g
      <3> QED
        BY <2>4, <2>7
    <2>9. k + 1 \in 0..n
      BY <1>2
    <2> HIDE DEF Upto, g
    <2> QED
      BY <2>8, <2>9
  <1>3. 0..n \subseteq S
    <2> HIDE DEF S
    <2> QED
      BY <1>1, <1>2, IntervalInduction
  <1>4. PICK f \in [0..n -> T] : Upto(n, f)
    BY <1>3
  <1> QED
    BY <1>4 DEF IsIteration

=============================================================================
