-------------------------- MODULE Arithmetic_proofs --------------------------
(***************************************************************************)
(* Facts about whole numbers that the provers lack: the least-number       *)
(* principle and induction over a set, since the theorems of the library   *)
(* take an operator as a parameter; what Power and CeilDiv compute.        *)
(***************************************************************************)
EXTENDS Arithmetic, WellFoundedInduction, TLAPS

Less == {p \in Nat \X Nat : p[1] < p[2]}

\* A nonempty set of naturals has a least element.
LEMMA LeastNat ==
  ASSUME NEW S \in SUBSET Nat, S # {}
  PROVE  \E n \in S : \A k \in S : n <= k
<1>1. IsWellFoundedOn(Less, Nat)
  BY NatLessThanWellFounded DEF OpToRel, Less
<1>2. PICK n \in S : \A k \in S : <<k, n>> \notin Less
  BY <1>1, WFMin
<1>3. \A k \in S : ~(k < n)
  BY <1>2 DEF Less
<1> QED
  BY <1>3

\* Induction: a set with 0, and with the successor of each of its elements, has
\* all naturals.
LEMMA NatSetInduction ==
  ASSUME NEW S \in SUBSET Nat, 0 \in S, \A n \in S : n + 1 \in S
  PROVE  S = Nat
<1> SUFFICES ASSUME Nat \ S # {} PROVE FALSE
  OBVIOUS
<1>1. PICK n \in Nat \ S : \A k \in Nat \ S : n <= k
  <2> DEFINE T == Nat \ S
  <2>1. T \in SUBSET Nat /\ T # {}
    OBVIOUS
  <2> HIDE DEF T
  <2>2. \E n \in T : \A k \in T : n <= k
    BY <2>1, LeastNat
  <2> QED
    BY <2>2 DEF T
<1>2. n # 0 /\ n - 1 \in Nat
  BY <1>1
<1>3. n - 1 \in S
  BY <1>1, <1>2
<1>4. (n - 1) + 1 \in S
  BY <1>3
<1> QED
  BY <1>1, <1>2, <1>4

-----------------------------------------------------------------------------
(* The recursive function behind Power is defined: its equation has a      *)
(* solution, put together from the functions that satisfy it up to an      *)
(* exponent.                                                               *)

Partial(b, n) ==
  {g \in [0..n -> Nat] : g[0] = 1 /\ \A k \in 1..n : g[k] = b * g[k - 1]}

\* They exist for every exponent, and agree where they are both defined.
LEMMA PartialExists ==
  ASSUME NEW b \in Nat, NEW n \in Nat
  PROVE  Partial(b, n) # {}
<1> DEFINE S == {k \in Nat : Partial(b, k) # {}}
<1>1. 0 \in S
  <2>1. [k \in 0..0 |-> 1] \in Partial(b, 0)
    BY DEF Partial
  <2> QED
    BY <2>1
<1>2. ASSUME NEW k \in S PROVE k + 1 \in S
  <2>1. PICK g \in Partial(b, k) : TRUE
    BY <1>2
  <2> DEFINE h == [i \in 0..(k + 1) |-> IF i = k + 1 THEN b * g[k] ELSE g[i]]
  <2>2. g \in [0..k -> Nat] /\ g[0] = 1 /\ \A i \in 1..k : g[i] = b * g[i - 1]
    BY <2>1 DEF Partial
  <2>3. k \in Nat /\ b * g[k] \in Nat
    BY <2>2, <1>2
  <2>4. h \in [0..(k + 1) -> Nat]
    BY <2>2, <2>3
  <2>5. h[0] = 1
    BY <2>2, <2>3
  <2>6. \A i \in 1..(k + 1) : h[i] = b * h[i - 1]
    BY <2>2, <2>3
  <2>7. h \in Partial(b, k + 1)
    BY <2>4, <2>5, <2>6 DEF Partial
  <2> QED
    BY <2>7, <2>3
<1> HIDE DEF S
<1>3. S = Nat
  BY <1>1, <1>2, NatSetInduction DEF S
<1> QED
  BY <1>3 DEF S

LEMMA PartialUnique ==
  ASSUME NEW b \in Nat, NEW n \in Nat, NEW m \in Nat, n <= m,
         NEW g \in Partial(b, n), NEW h \in Partial(b, m)
  PROVE  \A k \in 0..n : g[k] = h[k]
<1> DEFINE S == {k \in Nat : k <= n => g[k] = h[k]}
<1>1. 0 \in S
  BY DEF Partial
<1>2. ASSUME NEW k \in S PROVE k + 1 \in S
  <2> SUFFICES ASSUME k + 1 <= n PROVE g[k + 1] = h[k + 1]
    BY <1>2
  <2>1. k \in Nat /\ g[k] = h[k]
    BY <1>2
  <2>2. k + 1 \in 1..n /\ k + 1 \in 1..m /\ (k + 1) - 1 = k
    BY <2>1
  <2>3. g[k + 1] = b * g[k] /\ h[k + 1] = b * h[k]
    BY <2>2 DEF Partial
  <2> QED
    BY <2>1, <2>3
<1> HIDE DEF S
<1>3. S = Nat
  BY <1>1, <1>2, NatSetInduction DEF S
<1> QED
  BY <1>3 DEF S

LEMMA PowersDefined ==
  ASSUME NEW b \in Nat
  PROVE  Powers(b) = [n \in Nat |-> IF n = 0 THEN 1 ELSE b * Powers(b)[n - 1]]
<1> DEFINE G(n) == CHOOSE g : g \in Partial(b, n)
           q == [n \in Nat |-> G(n)[n]]
           Eq(p) == p = [n \in Nat |-> IF n = 0 THEN 1 ELSE b * p[n - 1]]
<1>1. \A n \in Nat : G(n) \in Partial(b, n)
  BY PartialExists
<1> HIDE DEF G
<1>2. ASSUME NEW n \in Nat PROVE q[n] = IF n = 0 THEN 1 ELSE b * q[n - 1]
  <2>1. CASE n = 0
    BY <2>1, <1>1 DEF Partial
  <2>2. CASE n # 0
    <3>1. n - 1 \in Nat /\ n - 1 <= n /\ n \in 1..n
      BY <2>2
    <3>2. G(n)[n] = b * G(n)[n - 1]
      BY <3>1, <1>1 DEF Partial
    <3>3. G(n - 1)[n - 1] = G(n)[n - 1]
      BY <3>1, <1>1, PartialUnique
    <3> QED
      BY <3>1, <3>2, <3>3, <2>2
  <2> QED
    BY <2>1, <2>2
<1>3. Eq(q)
  BY <1>2
<1>4. Powers(b) = CHOOSE p : Eq(p)
  BY DEF Powers
<1> HIDE DEF Eq
<1>5. Eq(Powers(b))
  BY <1>3, <1>4
<1> QED
  BY <1>5 DEF Eq

-----------------------------------------------------------------------------
(* Powers *)

LEMMA PowerZero == ASSUME NEW b \in Nat PROVE Power(b, 0) = 1
BY PowersDefined DEF Power

LEMMA PowerNext ==
  ASSUME NEW b \in Nat, NEW n \in Nat PROVE Power(b, n + 1) = b * Power(b, n)
<1>1. n + 1 \in Nat /\ n + 1 # 0 /\ (n + 1) - 1 = n
  OBVIOUS
<1> QED
  BY <1>1, PowersDefined DEF Power

LEMMA PowerNat ==
  ASSUME NEW b \in Nat, NEW n \in Nat
  PROVE  Power(b, n) \in Nat /\ (b > 0 => Power(b, n) > 0)
<1> DEFINE S == {k \in Nat : Power(b, k) \in Nat /\ (b > 0 => Power(b, k) > 0)}
<1>1. 0 \in S
  BY PowerZero
<1>2. ASSUME NEW k \in S PROVE k + 1 \in S
  <2>1. k \in Nat /\ Power(b, k) \in Nat /\ (b > 0 => Power(b, k) > 0)
    BY <1>2
  <2>2. Power(b, k + 1) = b * Power(b, k)
    BY <2>1, PowerNext
  <2>3. b * Power(b, k) \in Nat /\ (b > 0 => b * Power(b, k) > 0)
    BY <2>1
  <2> QED
    BY <2>1, <2>2, <2>3
<1> HIDE DEF S
<1>3. S = Nat
  BY <1>1, <1>2, NatSetInduction DEF S
<1> QED
  BY <1>3 DEF S

\* The greater base has the greater power.
LEMMA PowerMonotone ==
  ASSUME NEW a \in Nat, NEW b \in Nat, a <= b, NEW n \in Nat
  PROVE  Power(a, n) <= Power(b, n)
<1> DEFINE S == {k \in Nat : Power(a, k) <= Power(b, k)}
<1>1. 0 \in S
  BY PowerZero
<1>2. ASSUME NEW k \in S PROVE k + 1 \in S
  <2>1. /\ k \in Nat /\ Power(a, k) <= Power(b, k)
        /\ Power(a, k) \in Nat /\ Power(b, k) \in Nat
    BY <1>2, PowerNat
  <2>2. Power(a, k + 1) = a * Power(a, k) /\ Power(b, k + 1) = b * Power(b, k)
    BY <2>1, PowerNext
  <2>3. a * Power(a, k) <= b * Power(a, k) /\ b * Power(a, k) <= b * Power(b, k)
    BY <2>1
  <2> QED
    BY <2>1, <2>2, <2>3
<1> HIDE DEF S
<1>3. S = Nat
  BY <1>1, <1>2, NatSetInduction DEF S
<1> QED
  BY <1>3 DEF S

-----------------------------------------------------------------------------
(* Rounding up *)

\* CeilDiv is the least whole number that is not below the fraction.
LEMMA CeilDivLeast ==
  ASSUME NEW a \in Int, NEW b \in Nat \ {0}
  PROVE  /\ CeilDiv(a, b) \in Int
         /\ CeilDiv(a, b) * b >= a
         /\ (CeilDiv(a, b) - 1) * b < a
BY DEF CeilDiv

LEMMA CeilDivNat ==
  ASSUME NEW a \in Nat, NEW b \in Nat \ {0}
  PROVE  CeilDiv(a, b) \in Nat
<1>1. CeilDiv(a, b) \in Int /\ CeilDiv(a, b) * b >= a
  BY CeilDivLeast
<1>2. ASSUME CeilDiv(a, b) < 0 PROVE FALSE
  <2>1. CeilDiv(a, b) * b < 0
    BY <1>1, <1>2
  <2> QED
    BY <1>1, <2>1
<1> QED
  BY <1>1, <1>2
=============================================================================
