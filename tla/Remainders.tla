----------------------------- MODULE Remainders -----------------------------
(***************************************************************************)
(* Facts about the remainder of a division that the proofs about slot       *)
(* indices and counters modulo a word size share.                           *)
(***************************************************************************)
EXTENDS Integers, TLAPS

\* The only multiple of n between -n and n is zero.
LEMMA MultipleIsZero ==
  ASSUME NEW n \in Nat \ {0}, NEW k \in Int, NEW d \in Int, d = n * k, -n < d, d < n
  PROVE  d = 0
  <1>1. CASE k <= -1
    <2>1. n * k <= -n
      BY <1>1
    <2> QED
      BY <2>1
  <1>2. CASE k >= 1
    <2>1. n * k >= n
      BY <1>2
    <2> QED
      BY <2>1
  <1>3. CASE k = 0
    BY <1>3
  <1> QED
    BY <1>1, <1>2, <1>3

\* Division with remainder.
LEMMA ModDivision ==
  ASSUME NEW n \in Nat \ {0}, NEW a \in Nat
  PROVE  \E q \in Nat : a = n * q + (a % n) /\ a % n \in 0 .. n - 1
  <1>1. a \div n \in Nat /\ a = n * (a \div n) + (a % n) /\ a % n \in 0 .. n - 1
    OBVIOUS
  <1> QED
    BY <1>1

\* Numbers less than n apart have different remainders.
LEMMA ModDiffer ==
  ASSUME NEW n \in Nat \ {0}, NEW a \in Nat, NEW b \in Nat, NEW d \in 1 .. n - 1, a = b + d
  PROVE  a % n # b % n
  <1> SUFFICES ASSUME a % n = b % n PROVE FALSE
    OBVIOUS
  <1>1. PICK qa \in Nat : a = n * qa + (a % n) /\ a % n \in 0 .. n - 1
    BY ModDivision
  <1>2. PICK qb \in Nat : b = n * qb + (b % n)
    BY ModDivision
  <1>3. d = n * (qa - qb)
    BY <1>1, <1>2
  <1>4. qa - qb \in Int /\ d \in Int /\ -n < d /\ d < n /\ d # 0
    OBVIOUS
  <1> QED
    BY <1>3, <1>4, MultipleIsZero

\* Whole laps do not change a remainder.
LEMMA ModLaps ==
  ASSUME NEW n \in Nat \ {0}, NEW a \in Nat, NEW laps \in Nat
  PROVE  (a + laps * n) % n = a % n
  <1> DEFINE c == a + laps * n
  <1>0. c \in Nat
    OBVIOUS
  <1>1. PICK qa \in Nat : a = n * qa + (a % n) /\ a % n \in 0 .. n - 1
    BY ModDivision
  <1>2. PICK qc \in Nat : c = n * qc + (c % n) /\ c % n \in 0 .. n - 1
    BY <1>0, ModDivision
  <1>3. c - a = n * laps
    OBVIOUS
  <1> HIDE DEF c
  <1>4. n * qc - n * qa + ((c % n) - (a % n)) = n * laps
    BY <1>0, <1>1, <1>2, <1>3
  <1>5. (c % n) - (a % n) = n * (laps - qc + qa)
    BY <1>1, <1>2, <1>4
  <1> DEFINE k == laps - qc + qa
             e == (c % n) - (a % n)
  <1>6. k \in Int /\ e \in Int /\ -n < e /\ e < n /\ e = n * k
    BY <1>1, <1>2, <1>5
  <1> HIDE DEF k, e
  <1>7. e = 0
    BY <1>6, MultipleIsZero
  <1> QED
    BY <1>1, <1>2, <1>7 DEF c, e

\* A quotient and a remainder in range are the quotient and the remainder.
LEMMA DivisionUnique ==
  ASSUME NEW n \in Nat \ {0}, NEW q \in Nat, NEW r \in 0 .. n - 1, NEW a, a = n * q + r
  PROVE  a % n = r /\ a \div n = q
  <1>0. a \in Nat
    OBVIOUS
  <1>1. a \div n \in Nat /\ a = n * (a \div n) + (a % n) /\ a % n \in 0 .. n - 1
    BY <1>0
  <1>2. PICK x \in Nat : x = a \div n
    BY <1>1
  <1>3. PICK m \in 0 .. n - 1 : m = a % n
    BY <1>1
  <1>4. a = n * x + m
    BY <1>1, <1>2, <1>3
  <1>5. r - m = n * (x - q)
    BY <1>4
  <1> DEFINE k == x - q
             e == r - m
  <1>6. k \in Int /\ e \in Int /\ -n < e /\ e < n /\ e = n * k
    BY <1>5
  <1> HIDE DEF k, e
  <1>7. e = 0
    BY <1>6, MultipleIsZero
  <1>8. k = 0
    BY <1>6, <1>7
  <1> QED
    BY <1>2, <1>3, <1>7, <1>8 DEF e, k

\* Counting modulo n.
LEMMA ModSuccessor ==
  ASSUME NEW n \in Nat \ {0}, NEW a \in Nat
  PROVE  ((a % n) + 1) % n = (a + 1) % n
  <1>1. PICK q \in Nat : a = n * q + (a % n) /\ a % n \in 0 .. n - 1
    BY ModDivision
  <1> DEFINE b == (a % n) + 1
  <1>2. b \in Nat /\ a + 1 = b + q * n
    BY <1>1
  <1> HIDE DEF b
  <1>3. (b + q * n) % n = b % n
    BY <1>2, ModLaps
  <1> QED
    BY <1>2, <1>3 DEF b
=============================================================================
