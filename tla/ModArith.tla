------------------------------ MODULE ModArith ------------------------------
(***************************************************************************)
(* Facts about a counter kept modulo B, such as the 16-bit block id of     *)
(* TFTP or the 8-bit packet number of YModem, for every modulus B above 1. *)
(***************************************************************************)
EXTENDS Integers, TLAPS

\* A number is its quotient times the divisor, plus its remainder.
LEMMA DivMod ==
  ASSUME NEW n \in Nat, NEW B \in Nat, B > 1
  PROVE  /\ n \div B \in Nat
         /\ n % B \in 0 .. B - 1
         /\ n = (B * (n \div B)) + (n % B)
  OBVIOUS

\* Quotient and remainder are unique.
LEMMA DivModUnique ==
  ASSUME NEW B \in Nat, B > 1,
         NEW q \in Int, NEW p \in Int, NEW r \in 0 .. B - 1, NEW s \in 0 .. B - 1,
         B * q + r = B * p + s
  PROVE  r = s
<1>1. CASE q > p
  <2>1. B * (q - p) >= B
    BY <1>1
  <2> QED BY <2>1, <1>1
<1>2. CASE q < p
  <2>1. B * (p - q) >= B
    BY <1>2
  <2> QED BY <2>1, <1>2
<1> QED BY <1>1, <1>2

\* A counter and its successor never look alike.
LEMMA ModNext ==
  ASSUME NEW n \in Nat, NEW B \in Nat, B > 1
  PROVE  (n % B) # ((n + 1) % B)
<1> DEFINE q == n \div B
           p == (n + 1) \div B
           r == n % B
<1>1. SUFFICES ASSUME r = (n + 1) % B PROVE FALSE
  OBVIOUS
<1>2. n + 1 \in Nat
  OBVIOUS
<1>3. q \in Nat /\ r \in 0 .. B - 1 /\ n = (B * q) + r
  BY DivMod
<1>4. p \in Nat /\ n + 1 = (B * p) + r
  BY <1>1, <1>2, DivMod
<1>5. B * (p - q) = 1
  BY <1>3, <1>4
<1>6. CASE p > q
  <2>1. B * (p - q) >= B
    BY <1>6, <1>3, <1>4
  <2> QED BY <2>1, <1>5
<1>7. CASE p <= q
  <2>1. B * (p - q) <= 0
    BY <1>7, <1>3, <1>4
  <2> QED BY <2>1, <1>5
<1> QED BY <1>3, <1>4, <1>6, <1>7

\* Counting on from a reduced counter reduces to the same.
LEMMA ModStep ==
  ASSUME NEW n \in Nat, NEW B \in Nat, B > 1
  PROVE  ((n % B) + 1) % B = (n + 1) % B
<1> DEFINE q == n \div B
           r == n % B
           t == (r + 1) \div B
           u == (r + 1) % B
           p == (n + 1) \div B
           v == (n + 1) % B
<1>1. q \in Nat /\ r \in 0 .. B - 1 /\ n = (B * q) + r
  BY DivMod
<1>2. r + 1 \in Nat /\ n + 1 \in Nat
  BY <1>1
<1>3. t \in Nat /\ u \in 0 .. B - 1 /\ r + 1 = (B * t) + u
  BY <1>2, DivMod
<1>4. p \in Nat /\ v \in 0 .. B - 1 /\ n + 1 = (B * p) + v
  BY <1>2, DivMod
<1> HIDE DEF q, r, t, u, p, v
<1>5. (B * p) + v = B * (q + t) + u
  BY <1>1, <1>3, <1>4
<1>6. u = v
  BY <1>1, <1>3, <1>4, <1>5, DivModUnique
<1> QED BY <1>6 DEF u, v, r
=============================================================================
