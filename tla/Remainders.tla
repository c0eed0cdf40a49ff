------------------------------ MODULE Remainders ------------------------------
(***************************************************************************)
(* Facts about remainders for the rings of the other modules: the entries  *)
(* of a window no longer than the ring differ.                             *)
(***************************************************************************)
EXTENDS Integers, TLAPS

LEMMA ProductGrows ==
  ASSUME NEW n \in Nat, NEW k \in Nat, k >= 1
  PROVE  n * k >= n
BY Z3

LEMMA Division ==
  ASSUME NEW n \in Nat \ {0}, NEW a \in Nat
  PROVE  /\ a \div n \in Int
         /\ a % n \in 0 .. n - 1
         /\ a = n * (a \div n) + (a % n)
OBVIOUS

\* Two numbers less than n apart have different remainders.
LEMMA WindowInjective ==
  ASSUME NEW n \in Nat \ {0}, NEW a \in Nat, NEW b \in Nat, a < b, b - a < n
  PROVE  a % n # b % n
<1>1. SUFFICES ASSUME a % n = b % n PROVE FALSE
  OBVIOUS
<1>2. a = n * (a \div n) + (a % n) /\ b = n * (b \div n) + (b % n)
  BY Division
<1>3. PICK p \in Int, q \in Int : p = a \div n /\ q = b \div n
  BY Division
<1>4. b - a = n * q - n * p
  BY <1>1, <1>2, <1>3
<1>5. n * q - n * p = n * (q - p)
  OBVIOUS
<1>6. CASE q - p >= 1
  <2>1. n * (q - p) >= n
    BY <1>6, ProductGrows
  <2>2. QED
    BY <2>1, <1>4, <1>5
<1>7. CASE q - p <= 0
  <2>1. n * (q - p) <= 0
    BY <1>7
  <2>2. QED
    BY <2>1, <1>4, <1>5
<1>8. QED
  BY <1>6, <1>7
=============================================================================
