----------------------------- MODULE NatLemmas -----------------------------
(***************************************************************************)
(* Facts about the natural numbers that the proofs of several components   *)
(* use: searches that stop at the first match, indices of ring buffers.    *)
(***************************************************************************)
EXTENDS Integers, WellFoundedInduction, NaturalsInduction, TLAPS

\* A set of natural numbers has a least element.
LEMMA NatMin ==
    ASSUME NEW T, T \subseteq Nat, T # {}
    PROVE  \E x \in T : \A y \in T : x <= y
<1> DEFINE R == OpToRel(<, Nat)
<1>1. IsWellFoundedOn(R, Nat)
  BY NatLessThanWellFounded, Zenon
<1> HIDE DEF R
<1>2. PICK x \in T : \A y \in T : ~ (<<y, x>> \in R)
  BY <1>1, WFMin, Zenon
<1>3. ASSUME NEW y \in T PROVE x <= y
  <2>1. <<y, x>> \in Nat \X Nat /\ <<y, x>>[1] = y /\ <<y, x>>[2] = x
    OBVIOUS
  <2>2. (y < x) => <<y, x>> \in R
    BY <2>1, Zenon DEF R, OpToRel
  <2> QED
    BY <1>2, <2>2
<1> QED
  BY <1>3

\* The successor of an index of a ring buffer: either the next one or 0.
LEMMA RingNext ==
    ASSUME NEW n \in Nat \ {0}, NEW k \in 0 .. n - 1
    PROVE  /\ (k + 1) % n = IF k + 1 = n THEN 0 ELSE k + 1
           /\ (k + 1) % n \in 0 .. n - 1
OBVIOUS

\* An index of a ring buffer that is at most one round ahead of k.
LEMMA RingAt ==
    ASSUME NEW n \in Nat \ {0}, NEW k \in 0 .. n - 1, NEW j \in 0 .. n
    PROVE  /\ (k + j) % n = IF k + j < n THEN k + j ELSE k + j - n
           /\ (k + j) % n \in 0 .. n - 1
OBVIOUS

\* What the quotient and the remainder of a division are.
LEMMA Division ==
    ASSUME NEW n \in Nat \ {0}, NEW a \in Nat
    PROVE  \E q \in Nat : a = n * q + (a % n) /\ a % n \in 0 .. n - 1
<1>1. a \div n \in Nat /\ a = n * (a \div n) + (a % n) /\ a % n \in 0 .. n - 1
  OBVIOUS
<1> QED BY <1>1, Zenon

\* A multiple of n that is above -n and below n is 0.
LEMMA SmallMultiple ==
    ASSUME NEW n \in Nat \ {0}, NEW t \in Int, n * t > 0 - n
    PROVE  t >= 0 /\ n * t >= 0
<1>1. ASSUME t <= -1 PROVE FALSE
  <2>1. n * t <= n * (-1)
    BY <1>1
  <2> QED BY <2>1
<1>2. t >= 0
  BY <1>1
<1> QED BY <1>2

\* The remainder is the only one: a number below n that differs by a multiple.
LEMMA Remainder ==
    ASSUME NEW n \in Nat \ {0}, NEW a \in Nat, NEW q \in Int, NEW r \in 0 .. n - 1, a = n * q + r
    PROVE  a % n = r
<1>1. PICK p \in Nat : a = n * p + (a % n) /\ a % n \in 0 .. n - 1
  BY Division, Zenon
<1>2. n * (p - q) = r - (a % n) /\ n * (q - p) = (a % n) - r
  <2>1. n * (p - q) = n * p - n * q /\ n * (q - p) = n * q - n * p
    OBVIOUS
  <2>2. PICK np \in Int, nq \in Int : np = n * p /\ nq = n * q
    OBVIOUS
  <2>3. PICK m \in Int : m = a % n
    BY <1>1
  <2>4. a = np + m /\ a = nq + r
    BY <1>1, <2>2, <2>3
  <2>5. np - nq = r - m /\ nq - np = m - r
    BY <2>4
  <2> QED BY <2>1, <2>2, <2>3, <2>5
<1>3. p - q >= 0
  BY <1>1, <1>2, SmallMultiple
<1>4. q - p >= 0
  BY <1>1, <1>2, SmallMultiple
<1>5. p = q
  BY <1>3, <1>4
<1> QED BY <1>1, <1>5

\* The remainder of the next number.
LEMMA NextRemainder ==
    ASSUME NEW n \in Nat \ {0}, NEW a \in Nat
    PROVE  (a + 1) % n = IF (a % n) + 1 = n THEN 0 ELSE (a % n) + 1
<1>1. PICK p \in Nat : a = n * p + (a % n) /\ a % n \in 0 .. n - 1
  BY Division, Zenon
<1>2. CASE (a % n) + 1 = n
  <2>1. PICK q \in Int : q = p + 1
    OBVIOUS
  <2>2. a + 1 \in Nat /\ 0 \in 0 .. n - 1 /\ a + 1 = n * q + 0
    BY <1>1, <1>2, <2>1
  <2>3. (a + 1) % n = 0
    BY <2>2, Remainder, Zenon
  <2> QED BY <1>2, <2>3
<1>3. CASE (a % n) + 1 # n
  <2>1. PICK b \in Nat : b = a + 1
    OBVIOUS
  <2>2. PICK r \in 0 .. n - 1 : r = (a % n) + 1
    BY <1>1, <1>3
  <2>3. b = n * p + r /\ p \in Int
    BY <1>1, <2>1, <2>2
  <2>4. b % n = r
    BY <2>3, Remainder, Zenon
  <2> QED BY <1>3, <2>1, <2>2, <2>4
<1> QED BY <1>2, <1>3

\* Two counters kept modulo n: the difference that they show is at most the
\* difference there is, whether they wrapped or not.
LEMMA WrappedDifference ==
    ASSUME NEW n \in Nat \ {0}, NEW a \in Nat, NEW k \in Nat
    PROVE  (((a + k) % n) + n - (a % n)) % n <= k
<1> DEFINE x == ((a + k) % n) + n - (a % n)
<1>1. PICK p \in Nat : a = n * p + (a % n) /\ a % n \in 0 .. n - 1
  BY Division, Zenon
<1>2. PICK b \in Nat : b = a + k
  OBVIOUS
<1>3. PICK q \in Nat : b = n * q + (b % n) /\ b % n \in 0 .. n - 1
  BY Division, Zenon
<1>4. x \in Nat /\ k = n * q - n * p - n + x
  <2>1. PICK np \in Int, nq \in Int : np = n * p /\ nq = n * q
    OBVIOUS
  <2>2. PICK s \in 0 .. n - 1, t \in 0 .. n - 1 : s = a % n /\ t = b % n
    BY <1>1, <1>3
  <2>3. a = np + s /\ a + k = nq + t
    BY <1>1, <1>2, <1>3, <2>1, <2>2
  <2>4. x = t + n - s
    BY <1>2, <2>2
  <2>5. x \in Nat /\ k = nq - np - n + x
    <3> HIDE DEF x
    <3> QED BY <2>3, <2>4
  <2> QED BY <2>1, <2>5
<1> HIDE DEF x
<1>5. PICK u \in Nat : x = n * u + (x % n) /\ x % n \in 0 .. n - 1
  BY <1>4, Division, Zenon
<1>6. k = n * (q - p - 1 + u) + (x % n)
  <2>1. n * (q - p - 1 + u) = n * q - n * p - n + n * u
    OBVIOUS
  <2>2. n * p \in Int /\ n * q \in Int /\ n * u \in Int
    OBVIOUS
  <2> QED BY <1>4, <1>5, <2>1, <2>2
<1>7. n * (q - p - 1 + u) >= 0
  <2>1. n * (q - p - 1 + u) \in Int /\ n * (q - p - 1 + u) > 0 - n
    BY <1>5, <1>6
  <2> QED BY <2>1, SmallMultiple
<1> QED BY <1>5, <1>6, <1>7 DEF x
============================================================================
