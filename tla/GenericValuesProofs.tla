------------------------ MODULE GenericValuesProofs ------------------------
(***************************************************************************)
(* Numbers between Lean and LLVM, for machine words, ints, integer types   *)
(* and numbers of any size.                                                *)
(***************************************************************************)
EXTENDS IntegerConstants, WellFoundedInduction, TLAPS

(* Induction over Nat, in the form in which it can be used for any         *)
(* formula: the numbers that violate it have a least one.                  *)
LEMMA LeastNumber ==
  ASSUME NEW T \in SUBSET Nat, T # {}
  PROVE  \E x \in T : \A y \in T : x <= y
<1>1. PICK x \in T : \A y \in T : ~ (<<y, x>> \in OpToRel(<, Nat))
  BY NatLessThanWellFounded, WFMin
<1>2. \A y \in T : y \in Nat /\ x \in Nat /\ ~(y < x)
  BY <1>1 DEF OpToRel
<1>. QED
  BY <1>2
-----------------------------------------------------------------------------
(* That the recursive function Pow2 exists: its restrictions to 0 .. n do, *)
(* and agree with each other.                                              *)
PowersUpTo(n, g) ==
  /\ g \in [0 .. n -> Nat]
  /\ \A i \in 0 .. n : g[i] = IF i = 0 THEN 1 ELSE 2 * g[i - 1]

LEMMA PowersExist ==
  ASSUME NEW n \in Nat
  PROVE  \E g : PowersUpTo(n, g)
<1>. DEFINE T == {k \in Nat : ~ \E g : PowersUpTo(k, g)}
<1>1. SUFFICES ASSUME T # {} PROVE FALSE
  OBVIOUS
<1>2. PICK k \in T : \A y \in T : k <= y
  <2>. HIDE DEF T
  <2>1. T \in SUBSET Nat
    BY DEF T
  <2>. QED
    BY <1>1, <2>1, LeastNumber
<1>3. CASE k = 0
  <2>1. PowersUpTo(0, [i \in 0 .. 0 |-> 1])
    BY DEF PowersUpTo
  <2>. QED
    BY <1>3, <2>1
<1>4. CASE k > 0
  <2>1. k \in Nat /\ k - 1 \in Nat /\ k - 1 \notin T
    BY <1>2, <1>4
  <2>2. PICK g : PowersUpTo(k - 1, g)
    BY <2>1
  <2>3. PowersUpTo(k, [i \in 0 .. k |-> IF i = k THEN 2 * g[k - 1] ELSE g[i]])
    BY <2>1, <2>2, <1>4, SMTT(30) DEF PowersUpTo
  <2>. QED
    BY <2>3
<1>. QED
  BY <1>3, <1>4

LEMMA PowersAgree ==
  ASSUME NEW n \in Nat, NEW m \in Nat, NEW g, NEW h,
         PowersUpTo(n, g), PowersUpTo(m, h),
         NEW i \in Nat, i <= n, i <= m
  PROVE  g[i] = h[i]
<1>. DEFINE T == {k \in Nat : k <= n /\ k <= m /\ g[k] # h[k]}
<1>1. SUFFICES ASSUME T # {} PROVE FALSE
  OBVIOUS
<1>2. PICK k \in T : \A y \in T : k <= y
  <2>. HIDE DEF T
  <2>1. T \in SUBSET Nat
    BY DEF T
  <2>. QED
    BY <1>1, <2>1, LeastNumber
<1>3. CASE k = 0
  BY <1>3, <1>2 DEF PowersUpTo
<1>4. CASE k > 0
  <2>1. k \in Nat /\ k - 1 \in Nat /\ k - 1 \notin T /\ k <= n /\ k <= m
    BY <1>2, <1>4
  <2>2. g[k - 1] = h[k - 1]
    BY <2>1
  <2>3. g[k] = 2 * g[k - 1] /\ h[k] = 2 * h[k - 1]
    BY <2>1, <1>4 DEF PowersUpTo
  <2>. QED
    BY <2>2, <2>3, <1>2
<1>. QED
  BY <1>3, <1>4

LEMMA Pow2Def ==
  Pow2 = [n \in Nat |-> IF n = 0 THEN 1 ELSE 2 * Pow2[n - 1]]
<1>. DEFINE G(n) == CHOOSE g : PowersUpTo(n, g)
            f == [n \in Nat |-> G(n)[n]]
<1>1. \A n \in Nat : PowersUpTo(n, G(n))
  BY PowersExist
<1>2. ASSUME NEW n \in Nat
      PROVE  f[n] = IF n = 0 THEN 1 ELSE 2 * f[n - 1]
  <2>. HIDE DEF G
  <2>1. f[n] = G(n)[n]
    OBVIOUS
  <2>2. CASE n = 0
    BY <2>1, <2>2, <1>1 DEF PowersUpTo
  <2>3. CASE n > 0
    <3>1. n - 1 \in Nat /\ f[n - 1] = G(n - 1)[n - 1]
      BY <2>3
    <3>2. PowersUpTo(n, G(n)) /\ PowersUpTo(n - 1, G(n - 1))
      BY <1>1, <3>1
    <3>3. G(n)[n - 1] = G(n - 1)[n - 1]
      <4>. HIDE DEF f
      <4>. QED
        BY <3>1, <3>2, PowersAgree
    <3>4. G(n)[n] = 2 * G(n)[n - 1]
      BY <2>3, <3>2 DEF PowersUpTo
    <3>. QED
      BY <2>1, <2>3, <3>1, <3>3, <3>4
  <2>. QED
    BY <2>2, <2>3
<1>3. f = [n \in Nat |-> IF n = 0 THEN 1 ELSE 2 * f[n - 1]]
  <2>. HIDE DEF G
  <2>. QED
    BY <1>2
<1>4. \E p : p = [n \in Nat |-> IF n = 0 THEN 1 ELSE 2 * p[n - 1]]
  <2>. HIDE DEF f
  <2>. QED
    BY <1>3
<1>. QED
  BY <1>4 DEF Pow2

LEMMA Pow2Step ==
  /\ Pow2[0] = 1
  /\ \A n \in Nat : Pow2[n + 1] = 2 * Pow2[n]
<1>1. \A n \in Nat : Pow2[n] = IF n = 0 THEN 1 ELSE 2 * Pow2[n - 1]
  BY Pow2Def
<1>2. ASSUME NEW n \in Nat PROVE Pow2[n + 1] = 2 * Pow2[n]
  <2>1. n + 1 \in Nat /\ n + 1 # 0 /\ (n + 1) - 1 = n
    OBVIOUS
  <2>. QED
    BY <1>1, <2>1
<1>. QED
  BY <1>1, <1>2

(* Powers are positive, and greater than their exponents. *)
LEMMA Pow2Positive ==
  ASSUME NEW n \in Nat
  PROVE  Pow2[n] \in Nat /\ Pow2[n] > n
<1>. DEFINE T == {k \in Nat : ~ (Pow2[k] \in Nat /\ Pow2[k] > k)}
<1>1. SUFFICES ASSUME T # {} PROVE FALSE
  OBVIOUS
<1>2. PICK k \in T : \A y \in T : k <= y
  <2>. HIDE DEF T
  <2>1. T \in SUBSET Nat
    BY DEF T
  <2>. QED
    BY <1>1, <2>1, LeastNumber
<1>3. CASE k = 0
  BY <1>2, <1>3, Pow2Step
<1>4. CASE k > 0
  <2>1. k - 1 \in Nat /\ k - 1 \notin T /\ k = (k - 1) + 1
    BY <1>2, <1>4
  <2>2. Pow2[k - 1] \in Nat /\ Pow2[k - 1] > k - 1
    BY <2>1
  <2>3. Pow2[k] = 2 * Pow2[k - 1]
    BY <2>1, Pow2Step
  <2>4. Pow2[k] \in Nat /\ Pow2[k] > k
    BY <2>1, <2>2, <2>3
  <2>. QED
    BY <1>2, <2>4
<1>. QED
  BY <1>3, <1>4

LEMMA Pow2Sum ==
  ASSUME NEW m \in Nat, NEW n \in Nat
  PROVE  Pow2[m + n] = Pow2[m] * Pow2[n]
<1>. DEFINE T == {k \in Nat : Pow2[m + k] # Pow2[m] * Pow2[k]}
<1>1. SUFFICES ASSUME T # {} PROVE FALSE
  OBVIOUS
<1>2. PICK k \in T : \A y \in T : k <= y
  <2>. HIDE DEF T
  <2>1. T \in SUBSET Nat
    BY DEF T
  <2>. QED
    BY <1>1, <2>1, LeastNumber
<1>3. CASE k = 0
  <2>1. m + k = m /\ Pow2[k] = 1 /\ Pow2[m] \in Nat
    BY <1>3, Pow2Step, Pow2Positive
  <2>2. Pow2[m] * 1 = Pow2[m]
    BY <2>1
  <2>. QED
    BY <1>2, <2>1, <2>2
<1>4. CASE k > 0
  <2>1. k - 1 \in Nat /\ k - 1 \notin T /\ k = (k - 1) + 1 /\ m + (k - 1) \in Nat
    BY <1>2, <1>4
  <2>2. Pow2[m + (k - 1)] = Pow2[m] * Pow2[k - 1]
    BY <2>1
  <2>3. Pow2[k] = 2 * Pow2[k - 1]
    BY <2>1, Pow2Step
  <2>4. m + k = (m + (k - 1)) + 1
    BY <2>1
  <2>5. Pow2[m + k] = 2 * Pow2[m + (k - 1)]
    BY <2>1, <2>4, Pow2Step
  <2>6. Pow2[m] \in Nat /\ Pow2[k - 1] \in Nat
    BY <2>1, Pow2Positive
  <2>7. Pow2[m] * (2 * Pow2[k - 1]) = 2 * (Pow2[m] * Pow2[k - 1])
    BY <2>6
  <2>. QED
    BY <1>2, <2>2, <2>3, <2>5, <2>7
<1>. QED
  BY <1>3, <1>4

(* A lesser power divides a greater one. *)
LEMMA Pow2Divides ==
  ASSUME NEW m \in Nat, NEW n \in Nat, m <= n
  PROVE  \E k \in Nat \ {0} : Pow2[n] = Pow2[m] * k
<1>1. n - m \in Nat /\ n = m + (n - m)
  OBVIOUS
<1>2. Pow2[n] = Pow2[m] * Pow2[n - m]
  BY <1>1, Pow2Sum
<1>3. Pow2[n - m] \in Nat \ {0}
  BY <1>1, Pow2Positive
<1>. QED
  BY <1>2, <1>3

LEMMA Pow2Grows ==
  ASSUME NEW m \in Nat, NEW n \in Nat, m <= n
  PROVE  Pow2[m] <= Pow2[n]
<1>1. PICK k \in Nat \ {0} : Pow2[n] = Pow2[m] * k
  BY Pow2Divides
<1>2. Pow2[m] \in Nat
  BY Pow2Positive
<1>3. Pow2[m] * k >= Pow2[m]
  BY <1>2
<1>. QED
  BY <1>1, <1>3
-----------------------------------------------------------------------------
(* Division with remainder, by any positive number. *)
LEMMA Remainder ==
  ASSUME NEW n \in Int, NEW m \in Nat \ {0}
  PROVE  /\ n % m \in Nat /\ n % m < m
         /\ n \div m \in Int
         /\ n = m * (n \div m) + (n % m)
OBVIOUS

LEMMA RemainderUnique ==
  ASSUME NEW m \in Nat \ {0}, NEW q \in Int, NEW r \in Nat, r < m,
         NEW n \in Int, n = m * q + r
  PROVE  n % m = r
<1>. DEFINE p == n \div m
            s == n % m
<1>1. p \in Int /\ s \in Nat /\ s < m /\ n = m * p + s
  BY Remainder
<1>. HIDE DEF p, s
<1>2. m * (q - p) = s - r
  <2>1. m * (q - p) = m * q - m * p
    BY <1>1
  <2>2. m * q \in Int /\ m * p \in Int
    BY <1>1
  <2>. QED
    BY <1>1, <2>1, <2>2
<1>3. CASE q - p >= 1
  <2>1. m * (q - p) >= m
    BY <1>1, <1>3
  <2>. QED
    BY <1>1, <1>2, <2>1
<1>4. CASE q - p <= -1
  <2>1. m * (q - p) <= -m
    BY <1>1, <1>4
  <2>. QED
    BY <1>1, <1>2, <2>1
<1>5. CASE q = p
  <2>1. m * q = m * p /\ m * p \in Int
    BY <1>1, <1>5
  <2>. QED
    BY <1>1, <2>1
<1>6. s = r
  BY <1>1, <1>3, <1>4, <1>5
<1>. QED
  BY <1>6 DEF s

(* A number is congruent to itself plus a multiple. *)
LEMMA RemainderOfSum ==
  ASSUME NEW m \in Nat \ {0}, NEW n \in Int, NEW q \in Int
  PROVE  (n + m * q) % m = n % m
<1>1. PICK d \in Int, r \in Nat : n = m * d + r /\ r < m /\ n % m = r
  BY Remainder
<1>. DEFINE N == n + m * q
            Q == d + q
<1>2. N = m * Q + r
  <2>1. m * (d + q) = m * d + m * q
    OBVIOUS
  <2>. QED
    BY <1>1, <2>1
<1>3. N \in Int /\ Q \in Int
  OBVIOUS
<1>4. N % m = r
  <2>. HIDE DEF N, Q
  <2>. QED
    BY <1>1, <1>2, <1>3, RemainderUnique
<1>. QED
  BY <1>1, <1>4

LEMMA RemainderOfSmall ==
  ASSUME NEW m \in Nat \ {0}, NEW n \in Nat, n < m
  PROVE  n % m = n
<1>1. n = m * 0 + n
  OBVIOUS
<1>. QED
  BY <1>1, RemainderUnique

LEMMA RemainderTwice ==
  ASSUME NEW m \in Nat \ {0}, NEW k \in Nat \ {0}, NEW n \in Int
  PROVE  (n % (m * k)) % m = n % m
<1>. DEFINE M == m * k
            q == n \div M
<1>1. M \in Nat \ {0}
  OBVIOUS
<1>2. n % M \in Int /\ q \in Int /\ n = M * q + (n % M)
  <2>. HIDE DEF M
  <2>. QED
    BY <1>1, Remainder
<1>. DEFINE r == n % M
            t == k * q
<1>3. M * q = m * t /\ t \in Int
  <2>1. q \in Int
    BY <1>2
  <2>. HIDE DEF q
  <2>. QED
    BY <2>1
<1>4. n = r + m * t /\ r \in Int
  BY <1>2, <1>3
<1>5. (r + m * t) % m = r % m
  <2>. HIDE DEF r, t
  <2>. QED
    BY <1>3, <1>4, RemainderOfSum
<1>. QED
  BY <1>4, <1>5

LEMMA RemainderOfNegated ==
  ASSUME NEW m \in Nat \ {0}, NEW n \in Int
  PROVE  (-(n % m)) % m = (-n) % m
<1>1. n % m \in Int /\ n \div m \in Int /\ n = m * (n \div m) + (n % m)
  BY Remainder
<1>2. -(n % m) = -n + m * (n \div m)
  BY <1>1
<1>3. -n \in Int
  OBVIOUS
<1>. QED
  BY <1>1, <1>2, <1>3, RemainderOfSum
-----------------------------------------------------------------------------
(* The signed reading of the low bits of a number. *)
LEMMA SignedRange ==
  ASSUME NEW n \in Int, NEW w \in Nat \ {0}
  PROVE  /\ Signed(n, w) \in Int
         /\ Signed(n, w) >= -Pow2[w - 1] /\ Signed(n, w) < Pow2[w - 1]
         /\ Signed(n, w) >= 0 => Signed(n, w) = n % Pow2[w]
         /\ Signed(n, w) < 0 => Signed(n, w) = (n % Pow2[w]) - Pow2[w]
<1>1. w - 1 \in Nat /\ w = (w - 1) + 1
  OBVIOUS
<1>2. /\ Pow2[w - 1] \in Nat \ {0} /\ Pow2[w] = 2 * Pow2[w - 1]
  BY <1>1, Pow2Step, Pow2Positive
<1>3. Pow2[w] \in Nat \ {0}
  BY <1>2
<1>4. n % Pow2[w] \in Nat /\ n % Pow2[w] < Pow2[w]
  BY <1>3, Remainder
<1>. QED
  BY <1>2, <1>4 DEF Signed

LEMMA SignedOfRange ==
  ASSUME NEW n \in Int, NEW w \in Nat \ {0}, n >= -Pow2[w - 1], n < Pow2[w - 1]
  PROVE  Signed(n, w) = n
<1>1. w - 1 \in Nat /\ w = (w - 1) + 1
  OBVIOUS
<1>2. /\ Pow2[w - 1] \in Nat \ {0} /\ Pow2[w] = 2 * Pow2[w - 1]
  BY <1>1, Pow2Step, Pow2Positive
<1>3. Pow2[w] \in Nat \ {0}
  BY <1>2
<1>4. CASE n >= 0
  <2>1. n % Pow2[w] = n
    BY <1>2, <1>3, <1>4, RemainderOfSmall
  <2>. QED
    BY <1>2, <1>4, <2>1 DEF Signed
<1>5. CASE n < 0
  <2>1. n = Pow2[w] * (-1) + (n + Pow2[w])
    BY <1>3
  <2>2. n + Pow2[w] \in Nat /\ n + Pow2[w] < Pow2[w]
    BY <1>2, <1>5
  <2>3. n % Pow2[w] = n + Pow2[w]
    BY <1>3, <2>1, <2>2, RemainderUnique
  <2>. QED
    BY <1>2, <1>5, <2>3 DEF Signed
<1>. QED
  BY <1>4, <1>5

(* It is the number, but for the bits that were cut off; so what is cut or *)
(* extended again, to any width, is as if it had been done at once.        *)
LEMMA SignedCongruent ==
  ASSUME NEW n \in Int, NEW w \in Nat \ {0}
  PROVE  /\ Signed(n, w) % Pow2[w] = n % Pow2[w]
         /\ Signed(n % Pow2[w], w) = Signed(n, w)
<1>. DEFINE M == Pow2[w]
<1>1. M \in Nat \ {0}
  BY Pow2Positive
<1>2. n % M \in Nat /\ n % M < M
  BY <1>1, Remainder
<1>3. (n % M) % M = n % M
  BY <1>1, <1>2, RemainderOfSmall
<1>4. Signed(n, w) = n % M \/ Signed(n, w) = (n % M) + M * (-1)
  <2>1. Signed(n, w) = n % M \/ Signed(n, w) = (n % M) - M
    BY SignedRange
  <2>. QED
    BY <1>1, <1>2, <2>1
<1>5. ((n % M) + M * (-1)) % M = (n % M) % M
  BY <1>1, <1>2, RemainderOfSum
<1>6. Signed(n % M, w) = Signed(n, w)
  BY <1>3 DEF Signed
<1>. QED
  BY <1>3, <1>4, <1>5, <1>6
-----------------------------------------------------------------------------
(* The conversions, one lemma each. *)
LEMMA Sizes ==
  /\ WordBits \in Nat \ {0} /\ IntBits \in Nat \ {0}
  /\ IntBits - 1 \in Nat \ {0} /\ WordBits - 1 \in Nat \ {0}
  /\ IntBits - 1 < WordBits - 1 /\ Widths \subseteq Nat \ {0}
BY SizeAssumption

LEMMA SizeIsLeast ==
  ASSUME NEW n \in Nat
  PROVE  /\ SizeInBase2(n) \in Nat \ {0}
         /\ n < Pow2[SizeInBase2(n)]
         /\ SizeInBase2(n) = 1 \/ n >= Pow2[SizeInBase2(n) - 1]
<1>. DEFINE T == {k \in Nat : k >= 1 /\ n < Pow2[k]}
<1>1. n + 1 \in T
  <2>1. n + 1 \in Nat /\ Pow2[n + 1] > n + 1 /\ Pow2[n + 1] \in Nat
    BY Pow2Positive
  <2>. QED
    BY <2>1
<1>2. PICK k \in T : \A y \in T : k <= y
  <2>. HIDE DEF T
  <2>1. T \in SUBSET Nat
    BY DEF T
  <2>. QED
    BY <1>1, <2>1, LeastNumber
<1>3. k \in 1 .. n + 1
  BY <1>1, <1>2
<1>4. k = 1 \/ n >= Pow2[k - 1]
  <2>1. CASE k > 1
    <3>1. k - 1 \in Nat /\ k - 1 >= 1 /\ k - 1 \notin T
      BY <1>2, <2>1
    <3>2. Pow2[k - 1] \in Nat
      BY <3>1, Pow2Positive
    <3>. QED
      BY <3>1, <3>2
  <2>. QED
    BY <1>2, <2>1
<1>5. \E j \in 1 .. n + 1 : n < Pow2[j] /\ (j = 1 \/ n >= Pow2[j - 1])
  BY <1>2, <1>3, <1>4
<1>. QED
  BY <1>5 DEF SizeInBase2

(* A number has more than b bits if it is not less than 2 ^ b. *)
LEMMA SizeAbove ==
  ASSUME NEW n \in Nat, NEW b \in Nat \ {0}
  PROVE  SizeInBase2(n) > b <=> n >= Pow2[b]
<1>. DEFINE s == SizeInBase2(n)
<1>1. s \in Nat \ {0} /\ n < Pow2[s] /\ (s = 1 \/ n >= Pow2[s - 1])
  BY SizeIsLeast
<1>. HIDE DEF s
<1>2. Pow2[s] \in Nat /\ Pow2[s - 1] \in Nat /\ Pow2[b] \in Nat
  <2>1. s - 1 \in Nat
    BY <1>1
  <2>. QED
    BY <1>1, <2>1, Pow2Positive
<1>3. CASE s > b
  <2>1. b <= s - 1 /\ s - 1 \in Nat /\ s # 1
    BY <1>1, <1>3
  <2>2. Pow2[b] <= Pow2[s - 1]
    BY <2>1, Pow2Grows
  <2>. QED
    BY <1>1, <1>2, <1>3, <2>1, <2>2 DEF s
<1>4. CASE s <= b
  <2>1. Pow2[s] <= Pow2[b]
    BY <1>1, <1>4, Pow2Grows
  <2>. QED
    BY <1>1, <1>2, <1>4, <2>1 DEF s
<1>. QED
  BY <1>1, <1>3, <1>4

(* The words that hold x bits have room for them. *)
LEMMA RoundedUp ==
  ASSUME NEW x \in Nat, NEW b \in Nat \ {0}
  PROVE  /\ (x + b - 1) \div b \in Int
         /\ ((x + b - 1) \div b) * b \in Nat
         /\ ((x + b - 1) \div b) * b >= x
<1>1. x + b - 1 \in Int
  OBVIOUS
<1>2. PICK d \in Int, r \in Nat :
        x + b - 1 = b * d + r /\ r < b /\ (x + b - 1) \div b = d
  BY <1>1, Remainder
<1>3. b * d = d * b /\ d * b \in Int
  OBVIOUS
<1>. QED
  BY <1>2, <1>3

LEMMA MpzToAP ==
  ASSUME NEW w \in Nat \ {0}, NEW n \in Int
  PROVE  ApNatOfMpz(w, n) = [width |-> w, bits |-> Magnitude(n) % Pow2[w]]
<1>. DEFINE m == Magnitude(n)
            s == SizeInBase2(m)
            size == (s + WordBits - 1) \div WordBits
            kept == (w + WordBits - 1) \div WordBits
            have == IF size < kept THEN size ELSE kept
<1>1. m \in Nat
  BY DEF Magnitude
<1>2. s \in Nat \ {0} /\ m < Pow2[s]
  <2>. HIDE DEF m
  <2>. QED
    BY <1>1, SizeIsLeast
<1>3. /\ size * WordBits \in Nat /\ size * WordBits >= s
      /\ kept * WordBits \in Nat /\ kept * WordBits >= w
  <2>. HIDE DEF s
  <2>. QED
    BY <1>2, RoundedUp, Sizes
<1>4. Pow2[w] \in Nat \ {0}
  BY Pow2Positive
<1>5. (m % Pow2[have * WordBits]) % Pow2[w] = m % Pow2[w]
  <2>1. CASE have = size
    <3>1. Pow2[s] <= Pow2[size * WordBits] /\ Pow2[s] \in Nat
      <4>. HIDE DEF s, size
      <4>. QED
        BY <1>2, <1>3, Pow2Grows, Pow2Positive
    <3>2. Pow2[size * WordBits] \in Nat \ {0}
      <4>. HIDE DEF size
      <4>. QED
        BY <1>3, Pow2Positive
    <3>3. m < Pow2[size * WordBits]
      <4>. HIDE DEF m, s, size
      <4>. QED
        BY <1>1, <1>2, <3>1, <3>2
    <3>4. m % Pow2[size * WordBits] = m
      <4>. HIDE DEF m, size
      <4>. QED
        BY <1>1, <3>2, <3>3, RemainderOfSmall
    <3>. QED
      BY <2>1, <3>4
  <2>2. CASE have = kept
    <3>1. PICK k \in Nat \ {0} : Pow2[kept * WordBits] = Pow2[w] * k
      <4>. HIDE DEF kept
      <4>. QED
        BY <1>3, Pow2Divides
    <3>2. (m % (Pow2[w] * k)) % Pow2[w] = m % Pow2[w]
      <4>. HIDE DEF m
      <4>. QED
        BY <1>1, <1>4, RemainderTwice
    <3>. QED
      BY <2>2, <3>1, <3>2
  <2>3. have = size \/ have = kept
    <3>. HIDE DEF size, kept
    <3>. QED
      OBVIOUS
  <2>. QED
    BY <2>1, <2>2, <2>3
<1>6. ApNatOfMpz(w, n) =
        [width |-> w, bits |-> (m % Pow2[have * WordBits]) % Pow2[w]]
  BY DEF ApNatOfMpz
<1>. QED
  BY <1>5, <1>6
LEMMA IntValues ==
  ASSUME NEW o \in [type : {"nat", "int"}, big : BOOLEAN, raw : Int]
  PROVE  /\ Value(o) \in Int
         /\ o.type = "int" /\ ~o.big =>
              Value(o) >= -Pow2[IntBits - 1] /\ Value(o) < Pow2[IntBits - 1]
         /\ o.type = "nat" \/ o.big => Value(o) = o.raw
<1>1. o.raw \in Int
  OBVIOUS
<1>. QED
  BY <1>1, Sizes, SignedRange DEF Value

LEMMA WordToAP ==
  ASSUME NEW w \in Nat \ {0}, NEW n \in Int,
         n >= -Pow2[WordBits - 1], n < Pow2[WordBits - 1]
  PROVE  ApOfWord(w, n % Pow2[WordBits], TRUE) = [width |-> w, bits |-> n % Pow2[w]]
<1>1. Signed(n % Pow2[WordBits], WordBits) = n
  BY Sizes, SignedCongruent, SignedOfRange
<1>. QED
  BY <1>1 DEF ApOfWord

(* LLVM holds what a Nat stands for, made to fit. *)
LEMMA NatToAP ==
  ASSUME NEW w \in Nat \ {0},
         NEW o \in [type : {"nat", "int"}, big : BOOLEAN, raw : Int],
         o.type = "nat", o.raw \in Nat
  PROVE  ApOfNat(w, o) = [width |-> w, bits |-> Value(o) % Pow2[w]]
<1>1. Value(o) = o.raw
  BY IntValues
<1>2. Magnitude(o.raw) = o.raw
  BY DEF Magnitude
<1>3. CASE o.big
  BY <1>1, <1>2, <1>3, MpzToAP DEF ApOfNat
<1>4. CASE ~o.big
  BY <1>1, <1>4 DEF ApOfNat, ApOfWord
<1>. QED
  BY <1>3, <1>4

(* LLVM holds what an Int stands for, made to fit. *)
LEMMA IntToAP ==
  ASSUME NEW w \in Nat \ {0},
         NEW o \in [type : {"nat", "int"}, big : BOOLEAN, raw : Int],
         o.type = "int"
  PROVE  ApOfInt(w, o) = [width |-> w, bits |-> Value(o) % Pow2[w]]
<1>1. CASE ~o.big
  <2>1. /\ Value(o) \in Int
        /\ Value(o) >= -Pow2[IntBits - 1] /\ Value(o) < Pow2[IntBits - 1]
    BY <1>1, IntValues
  <2>2. /\ Pow2[IntBits - 1] <= Pow2[WordBits - 1]
        /\ Pow2[IntBits - 1] \in Nat /\ Pow2[WordBits - 1] \in Nat
    BY Sizes, Pow2Grows, Pow2Positive
  <2>3. Value(o) >= -Pow2[WordBits - 1] /\ Value(o) < Pow2[WordBits - 1]
    BY <2>1, <2>2
  <2>. QED
    BY <1>1, <2>1, <2>3, WordToAP DEF ApOfInt
<1>2. CASE o.big /\ o.raw >= 0
  <2>1. Magnitude(o.raw) = o.raw /\ Value(o) = o.raw
    BY <1>2, IntValues DEF Magnitude
  <2>. QED
    BY <1>2, <2>1, MpzToAP DEF ApOfInt
<1>3. CASE o.big /\ o.raw < 0
  <2>1. Magnitude(o.raw) = -o.raw /\ Value(o) = o.raw /\ o.raw \in Int
    BY <1>3, IntValues DEF Magnitude
  <2>2. ApNatOfMpz(w, o.raw) = [width |-> w, bits |-> (-o.raw) % Pow2[w]]
    BY <2>1, MpzToAP
  <2>3. Negate([width |-> w, bits |-> (-o.raw) % Pow2[w]])
          = [width |-> w, bits |-> (-((-o.raw) % Pow2[w])) % Pow2[w]]
    BY DEF Negate
  <2>4. (-((-o.raw) % Pow2[w])) % Pow2[w] = (-(-o.raw)) % Pow2[w]
    <3>1. Pow2[w] \in Nat \ {0} /\ -o.raw \in Int
      BY <2>1, Pow2Positive
    <3>. QED
      BY <3>1, RemainderOfNegated
  <2>5. -(-o.raw) = o.raw
    BY <2>1
  <2>. QED
    BY <1>3, <2>1, <2>2, <2>3, <2>4, <2>5 DEF ApOfInt
<1>. QED
  BY <1>1, <1>2, <1>3

(* An APInt of LLVM. *)
APInt == {a \in [width : Nat \ {0}, bits : Nat] : a.bits < Pow2[a.width]}

(* The Nat for an APInt is the one that the runtime would make. *)
LEMMA NatFromAP ==
  ASSUME NEW a \in APInt
  PROVE  MkNatFromAP(a) = LeanNat(a.bits)
<1>1. a.bits \in Nat
  BY DEF APInt
<1>2. SizeInBase2(a.bits) > SmallNatBits <=> a.bits >= Pow2[WordBits - 1]
  BY <1>1, Sizes, SizeAbove DEF SmallNatBits
<1>3. Pow2[WordBits - 1] \in Nat \ {0}
  BY Sizes, Pow2Positive
<1>4. CASE a.bits >= Pow2[WordBits - 1]
  <2>1. a.bits # 0
    BY <1>1, <1>3, <1>4
  <2>2. ~ (SizeInBase2(a.bits) <= SmallNatBits)
    BY <1>1, <1>2, <1>4, Sizes, SizeIsLeast DEF SmallNatBits
  <2>3. ~ (a.bits < Pow2[WordBits - 1])
    BY <1>1, <1>3, <1>4
  <2>. QED
    BY <2>1, <2>2, <2>3 DEF MkNatFromAP, LeanNat
<1>5. CASE a.bits < Pow2[WordBits - 1]
  <2>1. SizeInBase2(a.bits) <= SmallNatBits
    BY <1>1, <1>2, <1>3, <1>5, Sizes, SizeIsLeast DEF SmallNatBits
  <2>. QED
    BY <1>5, <2>1 DEF MkNatFromAP, LeanNat
<1>. QED
  BY <1>1, <1>3, <1>4, <1>5

LEMMA SignedOfAP ==
  ASSUME NEW a \in APInt
  PROVE  /\ Signed(a.bits, a.width) \in Int
         /\ Signed(a.bits, a.width) >= 0 => Signed(a.bits, a.width) = a.bits
         /\ Signed(a.bits, a.width) < 0 =>
              /\ Signed(a.bits, a.width) = a.bits - Pow2[a.width]
              /\ a.bits > 0
<1>1. a.width \in Nat \ {0} /\ a.bits \in Nat /\ a.bits < Pow2[a.width]
  BY DEF APInt
<1>2. Pow2[a.width] \in Nat \ {0}
  BY <1>1, Pow2Positive
<1>3. a.bits % Pow2[a.width] = a.bits
  BY <1>1, <1>2, RemainderOfSmall
<1>4. Signed(0, a.width) = 0
  <2>1. a.width - 1 \in Nat /\ Pow2[a.width - 1] \in Nat \ {0}
    BY <1>1, Pow2Positive
  <2>. QED
    BY <1>1, <2>1, SignedOfRange
<1>5. ASSUME Signed(a.bits, a.width) < 0
      PROVE  a.bits > 0
  <2>1. CASE a.bits = 0
    BY <1>4, <1>5, <2>1
  <2>. QED
    BY <1>1, <2>1
<1>6. PICK n \in Int : n = Signed(a.bits, a.width)
  BY <1>1, SignedRange
<1>7. n >= 0 => n = a.bits
  BY <1>1, <1>3, <1>6, SignedRange
<1>8. n < 0 => n = a.bits - Pow2[a.width]
  BY <1>1, <1>3, <1>6, SignedRange
<1>. QED
  BY <1>5, <1>6, <1>7, <1>8

(* What is boxed fits in an int, also with its sign. *)
LEMMA MinSignedBitsFit ==
  ASSUME NEW a \in APInt, MinSignedBits(a) <= SmallIntBits
  PROVE  /\ Signed(a.bits, a.width) >= -Pow2[IntBits - 1]
         /\ Signed(a.bits, a.width) < Pow2[IntBits - 1]
<1>1. PICK n \in Int : n = Signed(a.bits, a.width)
  BY SignedOfAP
<1>2. IntBits - 1 \in Nat \ {0} /\ Pow2[IntBits - 1] \in Nat \ {0}
  BY Sizes, Pow2Positive
<1>3. ASSUME NEW m \in Nat, SizeInBase2(m) + 1 <= IntBits - 1
      PROVE  m < Pow2[IntBits - 1]
  <2>1. SizeInBase2(m) \in Nat
    BY SizeIsLeast
  <2>. QED
    BY <1>2, <1>3, <2>1, SizeAbove
<1>4. CASE n > 0
  BY <1>1, <1>2, <1>3, <1>4 DEF MinSignedBits, SmallIntBits
<1>5. CASE n = 0 \/ n = -1
  BY <1>1, <1>2, <1>5
<1>6. CASE n < -1
  <2>1. -n - 1 \in Nat
    BY <1>6
  <2>2. SizeInBase2(-n - 1) + 1 <= IntBits - 1
    BY <1>1, <1>6 DEF MinSignedBits, SmallIntBits
  <2>3. -n - 1 < Pow2[IntBits - 1]
    BY <1>3, <2>1, <2>2
  <2>. QED
    BY <1>1, <1>2, <1>6, <2>3
<1>. QED
  BY <1>4, <1>5, <1>6

(* The Int for an APInt stands for its signed reading. *)
LEMMA IntFromAP ==
  ASSUME NEW a \in APInt
  PROVE  /\ MkIntFromAP(a) \in [type : {"int"}, big : BOOLEAN, raw : Int]
         /\ Value(MkIntFromAP(a)) = Signed(a.bits, a.width)
<1>1. PICK n \in Int : n = Signed(a.bits, a.width)
  BY SignedOfAP
<1>2. CASE MinSignedBits(a) <= SmallIntBits
  <2>1. n >= -Pow2[IntBits - 1] /\ n < Pow2[IntBits - 1]
    BY <1>1, <1>2, MinSignedBitsFit
  <2>2. Signed(n % Pow2[IntBits], IntBits) = n
    BY <2>1, Sizes, SignedCongruent, SignedOfRange
  <2>3. n % Pow2[IntBits] \in Int
    BY Sizes, Pow2Positive, Remainder
  <2>4. MkIntFromAP(a) = [type |-> "int", big |-> FALSE, raw |-> n % Pow2[IntBits]]
    BY <1>1, <1>2 DEF MkIntFromAP
  <2>. QED
    BY <1>1, <2>2, <2>3, <2>4 DEF Value
<1>3. CASE ~ (MinSignedBits(a) <= SmallIntBits)
  <2>1. a.width \in Nat \ {0} /\ a.bits \in Nat /\ a.bits < Pow2[a.width]
    BY DEF APInt
  <2>2. PICK M \in Nat \ {0} : M = Pow2[a.width]
    BY <2>1, Pow2Positive
  <2>3. CASE n >= 0
    <3>1. MkIntFromAP(a) = [type |-> "int", big |-> TRUE, raw |-> a.bits]
      <4>1. ~ (Signed(a.bits, a.width) < 0)
        BY <1>1, <2>3
      <4>. QED
        BY <1>3, <4>1 DEF MkIntFromAP
    <3>2. n = a.bits
      BY <1>1, <2>3, SignedOfAP
    <3>. QED
      BY <1>1, <2>1, <3>1, <3>2 DEF Value
  <2>4. CASE n < 0
    <3>1. n = a.bits - M /\ a.bits > 0
      BY <1>1, <2>2, <2>4, SignedOfAP
    <3>2. ApAbs(a).bits = (-a.bits) % M
      BY <1>1, <2>2, <2>4 DEF ApAbs, Negate, APInt
    <3>3. (-a.bits) % M = M - a.bits
      <4>1. -a.bits = M * (-1) + (M - a.bits)
        BY <2>1, <2>2
      <4>2. M - a.bits \in Nat /\ M - a.bits < M /\ -a.bits \in Int
        BY <2>1, <2>2, <3>1
      <4>. QED
        BY <4>1, <4>2, RemainderUnique
    <3>4. MkIntFromAP(a) = [type |-> "int", big |-> TRUE, raw |-> -ApAbs(a).bits]
      BY <1>1, <1>3, <2>4 DEF MkIntFromAP
    <3>5. -ApAbs(a).bits = n
      BY <2>1, <2>2, <3>1, <3>2, <3>3
    <3>. QED
      BY <1>1, <3>4, <3>5 DEF Value
  <2>. QED
    BY <2>3, <2>4
<1>. QED
  BY <1>2, <1>3
-----------------------------------------------------------------------------
(* The invariant is inductive because a number that was read back is the   *)
(* one that the next conversion is to fit.                                 *)
NumbersInv == TypeOK /\ TruncatedToFit /\ ReadsBack /\ NatsAreCanonical

LEMMA NatsOfLean ==
  ASSUME NEW n \in Nat
  PROVE  /\ LeanNat(n) \in [type : {"nat"}, big : BOOLEAN, raw : Nat]
         /\ LeanNat(n).raw = n /\ Value(LeanNat(n)) = n
BY DEF LeanNat, Value

LEMMA IntsOfLean ==
  ASSUME NEW n \in Int
  PROVE  /\ LeanInt(n) \in [type : {"int"}, big : BOOLEAN, raw : Int]
         /\ Value(LeanInt(n)) = n
<1>. DEFINE P == Pow2[IntBits - 1]
<1>1. P \in Nat \ {0} /\ Pow2[IntBits] \in Nat \ {0}
  BY Sizes, Pow2Positive
<1>2. CASE n \in -P .. P - 1
  <2>1. n >= -P /\ n < P
    BY <1>1, <1>2
  <2>2. Signed(n % Pow2[IntBits], IntBits) = n
    BY <2>1, Sizes, SignedCongruent, SignedOfRange
  <2>3. n % Pow2[IntBits] \in Int
    BY <1>1, Remainder
  <2>4. LeanInt(n) = [type |-> "int", big |-> FALSE, raw |-> n % Pow2[IntBits]]
    BY <1>2 DEF LeanInt
  <2>. QED
    BY <2>2, <2>3, <2>4 DEF Value
<1>3. CASE n \notin -P .. P - 1
  <2>1. LeanInt(n) = [type |-> "int", big |-> TRUE, raw |-> n]
    BY <1>3 DEF LeanInt
  <2>. QED
    BY <2>1 DEF Value
<1>. QED
  BY <1>2, <1>3

(* A number that LLVM was given, made to fit, is an APInt of it. *)
LEMMA ApOf ==
  ASSUME NEW w \in Nat \ {0}, NEW n \in Int,
         ap' = [width |-> w, bits |-> n % Pow2[w]], meant' = n,
         object' = object, expected' = expected, NumbersInv
  PROVE  NumbersInv'
<1>1. Pow2[w] \in Nat \ {0}
  BY Pow2Positive
<1>2. n % Pow2[w] \in Nat /\ n % Pow2[w] < Pow2[w]
  BY <1>1, Remainder
<1>3. ap' \in [width : Nat \ {0}, bits : Nat] /\ ap'.width = w /\ ap'.bits = n % Pow2[w]
  BY <1>2
<1>4. TypeOK'
  BY <1>2, <1>3 DEF NumbersInv, TypeOK
<1>5. TruncatedToFit'
  BY <1>3 DEF TruncatedToFit
<1>6. ReadsBack' /\ NatsAreCanonical'
  BY DEF NumbersInv, ReadsBack, NatsAreCanonical
<1>. QED
  BY <1>4, <1>5, <1>6 DEF NumbersInv

(* The program has another number. *)
LEMMA ObjectOf ==
  ASSUME NEW n \in Int, NumbersInv, ap' = ap, meant' = meant, expected' = n,
         Value(object') = n,
         \/ object' \in [type : {"int"}, big : BOOLEAN, raw : Int]
         \/ n \in Nat /\ object' = LeanNat(n)
  PROVE  NumbersInv'
<1>1. TypeOK'
  BY NatsOfLean DEF NumbersInv, TypeOK
<1>2. NatsAreCanonical'
  BY NatsOfLean DEF NatsAreCanonical
<1>3. ReadsBack' /\ TruncatedToFit'
  BY DEF NumbersInv, ReadsBack, TruncatedToFit
<1>. QED
  BY <1>1, <1>2, <1>3 DEF NumbersInv

LEMMA NumbersInit == Init => NumbersInv
<1>. SUFFICES ASSUME Init PROVE NumbersInv
  OBVIOUS
<1>1. /\ LeanNat(0) \in [type : {"nat"}, big : BOOLEAN, raw : Nat]
      /\ LeanNat(0).raw = 0 /\ Value(LeanNat(0)) = 0
  BY NatsOfLean
<1>2. Pow2[1] = 2
  BY Pow2Step
<1>3. 0 % Pow2[1] = 0
  BY <1>2
<1>. QED
  BY <1>1, <1>2, <1>3 DEF Init, NumbersInv, TypeOK, TruncatedToFit, ReadsBack,
     NatsAreCanonical

LEMMA NumbersNext == NumbersInv /\ [Next]_vars => NumbersInv'
<1>. SUFFICES ASSUME NumbersInv, [Next]_vars PROVE NumbersInv'
  OBVIOUS
<1>. USE DEF MakeConstant
<1>1. /\ object \in [type : {"nat", "int"}, big : BOOLEAN, raw : Int]
      /\ object.type = "nat" => object.raw \in Nat
      /\ ap \in APInt /\ expected \in Int /\ meant \in Int
      /\ Value(object) = expected
      /\ ap.bits = meant % Pow2[ap.width]
  BY DEF NumbersInv, TypeOK, APInt, ReadsBack, TruncatedToFit
<1>2. ap.width \in Nat \ {0} /\ Pow2[ap.width] \in Nat \ {0}
  BY <1>1, Pow2Positive DEF APInt
<1>3. ASSUME NEW n \in Literals, Literal(n)
      PROVE  NumbersInv'
  <2>1. n \in Int
    BY ValueAssumption
  <2>2. object' = LeanInt(n) \/ (n \in Nat /\ object' = LeanNat(n))
    BY <1>3 DEF Literal
  <2>. QED
    BY <1>3, <2>1, <2>2, IntsOfLean, NatsOfLean, ObjectOf DEF Literal
<1>4. ASSUME NEW w \in Widths, OfNat(w)
      PROVE  NumbersInv'
  <2>1. w \in Nat \ {0}
    BY Sizes
  <2>2. ap' = [width |-> w, bits |-> expected % Pow2[w]]
    BY <1>1, <1>4, <2>1, NatToAP DEF OfNat
  <2>. QED
    BY <1>1, <1>4, <2>1, <2>2, ApOf DEF OfNat
<1>5. ASSUME NEW w \in Widths, OfInt(w)
      PROVE  NumbersInv'
  <2>1. w \in Nat \ {0}
    BY Sizes
  <2>2. ap' = [width |-> w, bits |-> expected % Pow2[w]]
    BY <1>1, <1>5, <2>1, IntToAP DEF OfInt
  <2>. QED
    BY <1>1, <1>5, <2>1, <2>2, ApOf DEF OfInt
<1>6. ASSUME NEW w \in Widths, NullConstant(w)
      PROVE  NumbersInv'
  <2>1. w \in Nat \ {0} /\ Pow2[w] \in Nat \ {0}
    BY Sizes, Pow2Positive
  <2>2. 0 % Pow2[w] = 0
    BY <2>1, RemainderOfSmall
  <2>. QED
    BY <1>6, <2>1, <2>2, ApOf DEF NullConstant
<1>7. ASSUME NEW w \in Widths, AllOnesConstant(w)
      PROVE  NumbersInv'
  <2>1. w \in Nat \ {0} /\ Pow2[w] \in Nat \ {0}
    BY Sizes, Pow2Positive
  <2>2. -1 = Pow2[w] * (-1) + (Pow2[w] - 1)
    BY <2>1
  <2>3. (-1) % Pow2[w] = Pow2[w] - 1
    BY <2>1, <2>2, RemainderUnique
  <2>. QED
    BY <1>7, <2>1, <2>3, ApOf DEF AllOnesConstant
<1>8. ASSUME NEW w \in Widths, NEW n \in Literals \cap Nat, OfUInt(w, n)
      PROVE  NumbersInv'
  <2>1. w \in Nat \ {0}
    BY Sizes
  <2>2. ap' = [width |-> w, bits |-> n % Pow2[w]]
    BY <1>8 DEF OfUInt, ApOfWord
  <2>3. n \in Int /\ meant' = n /\ object' = object /\ expected' = expected
    BY <1>8 DEF OfUInt
  <2>. QED
    BY <2>1, <2>2, <2>3, ApOf
<1>9. CASE ToNat
  <2>1. object' = LeanNat(ap.bits) /\ ap.bits \in Nat
    BY <1>1, <1>9, NatFromAP DEF ToNat, APInt
  <2>2. expected' = ap.bits
    BY <1>1, <1>9 DEF ToNat
  <2>. QED
    BY <1>9, <2>1, <2>2, NatsOfLean, ObjectOf DEF ToNat
<1>10. CASE ToInt
  <2>1. /\ object' \in [type : {"int"}, big : BOOLEAN, raw : Int]
        /\ Value(object') = Signed(ap.bits, ap.width)
    BY <1>1, <1>10, IntFromAP DEF ToInt
  <2>2. Signed(ap.bits, ap.width) = Signed(meant, ap.width)
    BY <1>1, <1>2, SignedCongruent
  <2>3. Signed(meant, ap.width) \in Int
    BY <1>1, <1>2, SignedRange
  <2>. QED
    BY <1>10, <2>1, <2>2, <2>3, ObjectOf DEF ToInt
<1>11. ASSUME UNCHANGED <<object, expected, ap, meant>>
       PROVE  NumbersInv'
  BY <1>11 DEF NumbersInv, TypeOK, TruncatedToFit, ReadsBack, NatsAreCanonical
<1>12. CASE \E x \in Doubles : OfFloat(x)
  BY <1>11, <1>12 DEF OfFloat
<1>13. CASE \E n \in 1 .. MaxLength : OfArray(n)
  BY <1>11, <1>13 DEF OfArray
<1>14. CASE UNCHANGED vars
  BY <1>11, <1>14 DEF vars
<1>. QED
  BY <1>3, <1>4, <1>5, <1>6, <1>7, <1>8, <1>9, <1>10, <1>12, <1>13, <1>14 DEF Next

(* The inductive invariant of numbers on their way. *)
THEOREM NumbersInvariance == Spec => []NumbersInv
BY NumbersInit, NumbersNext, PTL DEF Spec

(* An APInt never has bits above its width, and a Nat is never negative    *)
(* (adt.cpp:77-110).                                                       *)
THEOREM TypeCorrect == Spec => []TypeOK
<1>1. NumbersInv => TypeOK
  BY DEF NumbersInv
<1>. QED
  BY <1>1, NumbersInvariance, PTL

(* LLVM holds the number it was given, made to fit by truncation or        *)
(* extension, for all widths and for numbers of any number of words        *)
(* (adt.cpp:77-122).                                                       *)
THEOREM Truncated == Spec => []TruncatedToFit
<1>1. NumbersInv => TruncatedToFit
  BY DEF NumbersInv
<1>. QED
  BY <1>1, NumbersInvariance, PTL

(* What is read back stands for the bits as unsigned or as signed, at      *)
(* every boundary of boxes and words (adt.cpp:51-75).                      *)
THEOREM NumbersReadBack == Spec => []ReadsBack
<1>1. NumbersInv => ReadsBack
  BY DEF NumbersInv
<1>. QED
  BY <1>1, NumbersInvariance, PTL

(* A Nat that fits in a box is in a box (adt.cpp:48-61).                   *)
THEOREM NatsCanonical == Spec => []NatsAreCanonical
<1>1. NumbersInv => NatsAreCanonical
  BY DEF NumbersInv
<1>. QED
  BY <1>1, NumbersInvariance, PTL
-----------------------------------------------------------------------------
(* The bits of a number, and those that are left below a power of two. *)
LEMMA QuotientUnique ==
  ASSUME NEW m \in Nat \ {0}, NEW q \in Int, NEW r \in Nat, r < m,
         NEW n \in Int, n = m * q + r
  PROVE  n \div m = q
<1>1. PICK d \in Int, s \in Nat : n = m * d + s /\ s < m /\ n % m = s /\ n \div m = d
  BY Remainder
<1>2. s = r
  BY <1>1, RemainderUnique
<1>3. m * d = m * q /\ m * d \in Int
  BY <1>1, <1>2
<1>4. d = q
  BY <1>3
<1>. QED
  BY <1>1, <1>4

LEMMA BitsOfRemainder ==
  ASSUME NEW n \in Int, NEW w \in Nat, NEW i \in Nat
  PROVE  BitSet(n % Pow2[w], i) <=> BitSet(n, i) /\ i < w
<1>. DEFINE M == Pow2[w]
<1>1. M \in Nat \ {0} /\ Pow2[i] \in Nat \ {0}
  BY Pow2Positive
<1>2. PICK d \in Int, r \in Nat : n = M * d + r /\ r < M /\ n % M = r
  BY <1>1, Remainder
<1>. SUFFICES BitSet(r, i) <=> BitSet(n, i) /\ i < w
  BY <1>2
<1>3. CASE i < w
  <2>1. PICK k \in Nat : w = i + 1 + k /\ k = w - (i + 1)
    <3>1. w - (i + 1) \in Nat
      BY <1>3
    <3>. QED
      BY <3>1
  <2>2. M = Pow2[i] * (2 * Pow2[k])
    <3>1. w = i + (1 + k) /\ 1 + k \in Nat /\ 1 + k = k + 1
      BY <2>1
    <3>. QED
      BY <3>1, Pow2Sum, Pow2Step
  <2>3. PICK p \in Nat : p = Pow2[k]
    BY Pow2Positive
  <2>4. PICK t \in Nat \ {0} : t = Pow2[i]
    BY <1>1
  <2>5. PICK e \in Int, s \in Nat : r = t * e + s /\ s < t /\ r \div t = e
    BY Remainder
  <2>6. n = t * (2 * (p * d) + e) + s
    <3>1. M * d = t * (2 * (p * d))
      BY <2>2, <2>3, <2>4
    <3>2. t * (2 * (p * d) + e) = t * (2 * (p * d)) + t * e
      OBVIOUS
    <3>3. t * (2 * (p * d)) \in Int /\ t * e \in Int
      OBVIOUS
    <3>. QED
      BY <1>2, <2>5, <3>1, <3>2, <3>3
  <2>7. PICK c \in Int : c = p * d
    OBVIOUS
  <2>8. n \div t = 2 * c + e
    <3>. DEFINE q == 2 * c + e
    <3>1. n = t * q + s /\ q \in Int
      BY <2>6, <2>7
    <3>2. n \div t = q
      <4>. HIDE DEF q
      <4>. QED
        BY <2>5, <3>1, QuotientUnique
    <3>. QED
      BY <3>2
  <2>9. (2 * c + e) % 2 = e % 2
    BY <2>7
  <2>. QED
    BY <1>3, <2>4, <2>5, <2>8, <2>9 DEF BitSet
<1>4. CASE ~ (i < w)
  <2>1. M <= Pow2[i]
    BY <1>4, Pow2Grows
  <2>2. r < Pow2[i] /\ r = Pow2[i] * 0 + r
    BY <1>1, <1>2, <2>1
  <2>3. r \div Pow2[i] = 0
    BY <1>1, <2>2, QuotientUnique
  <2>. QED
    BY <1>4, <2>3 DEF BitSet
<1>. QED
  BY <1>3, <1>4

(* The number that has all the bits below w, and the one that has only w. *)
LEMMA BitsOfOnes ==
  ASSUME NEW w \in Nat, NEW i \in Nat
  PROVE  BitSet(Pow2[w] - 1, i) <=> i < w
<1>. DEFINE M == Pow2[w]
<1>1. M \in Nat \ {0} /\ Pow2[i] \in Nat \ {0}
  BY Pow2Positive
<1>2. -1 = M * (-1) + (M - 1) /\ M - 1 \in Nat /\ M - 1 < M
  BY <1>1
<1>3. (-1) % M = M - 1
  BY <1>1, <1>2, RemainderUnique
<1>4. -1 = Pow2[i] * (-1) + (Pow2[i] - 1) /\ Pow2[i] - 1 \in Nat /\ Pow2[i] - 1 < Pow2[i]
  BY <1>1
<1>5. (-1) \div Pow2[i] = -1
  BY <1>1, <1>4, QuotientUnique
<1>6. BitSet(-1, i)
  BY <1>5 DEF BitSet
<1>. QED
  BY <1>3, <1>6, BitsOfRemainder

LEMMA BitsOfPower ==
  ASSUME NEW k \in Nat, NEW i \in Nat
  PROVE  BitSet(Pow2[k], i) <=> i = k
<1>. DEFINE t == Pow2[i]
<1>1. t \in Nat \ {0} /\ Pow2[k] \in Nat \ {0}
  BY Pow2Positive
<1>2. CASE i = k
  <2>1. Pow2[k] = t * 1 + 0
    BY <1>1, <1>2
  <2>2. Pow2[k] \div t = 1
    BY <1>1, <2>1, QuotientUnique
  <2>. QED
    BY <1>2, <2>2 DEF BitSet
<1>3. CASE i < k
  <2>1. k - i - 1 \in Nat /\ k = i + ((k - i - 1) + 1) /\ (k - i - 1) + 1 \in Nat
    BY <1>3
  <2>2. PICK p \in Nat : p = Pow2[k - i - 1]
    BY <2>1, Pow2Positive
  <2>3. Pow2[(k - i - 1) + 1] = 2 * p
    BY <2>1, <2>2, Pow2Step
  <2>4. Pow2[k] = t * (2 * p) + 0
    <3>1. Pow2[k] = t * (2 * p)
      BY <2>1, <2>3, Pow2Sum
    <3>. QED
      BY <1>1, <3>1
  <2>5. Pow2[k] \div t = 2 * p
    <3>. HIDE DEF t
    <3>. QED
      BY <1>1, <2>4, QuotientUnique
  <2>. QED
    BY <1>3, <2>5 DEF BitSet
<1>4. CASE i > k
  <2>1. k + 1 \in Nat /\ k + 1 <= i
    BY <1>4
  <2>2. Pow2[k + 1] <= t /\ Pow2[k + 1] = 2 * Pow2[k]
    BY <2>1, Pow2Grows, Pow2Step
  <2>3. Pow2[k] < t /\ Pow2[k] = t * 0 + Pow2[k]
    BY <1>1, <2>2
  <2>4. Pow2[k] \div t = 0
    BY <1>1, <2>3, QuotientUnique
  <2>. QED
    BY <1>4, <2>4 DEF BitSet
<1>. QED
  BY <1>2, <1>3, <1>4
(* The masks of Lean, as numbers. *)
LEMMA BitMaskIsMask ==
  ASSUME NEW w \in Nat \ {0}, w <= WordBits
  PROVE  BitMask(w) = Mask(w)
<1>. DEFINE d == WordBits - w
<1>1. d \in Nat /\ d < WordBits /\ WordBits = d + w
  BY Sizes
<1>2. PICK t \in Nat \ {0} : t = Pow2[d]
  BY <1>1, Pow2Positive
<1>3. PICK p \in Nat \ {0} : p = Pow2[w]
  BY Pow2Positive
<1>4. Word = t * p /\ Word \in Nat /\ Word > WordBits
  BY <1>1, <1>2, <1>3, Sizes, Pow2Sum, Pow2Positive DEF Word
<1>5. d % Word = d /\ (Word - 1) % Word = Word - 1
  BY <1>1, <1>4, Sizes, RemainderOfSmall
<1>6. d % WordBits = d
  BY <1>1, Sizes, RemainderOfSmall
<1>7. (Word - 1) \div t = p - 1
  <2>1. t * p = t * (p - 1) + t
    OBVIOUS
  <2>2. Word - 1 = t * (p - 1) + (t - 1)
    BY <1>4, <2>1
  <2>. QED
    BY <1>4, <2>2, QuotientUnique
<1>. QED
  BY <1>2, <1>3, <1>5, <1>6, <1>7 DEF BitMask, ShiftRight, Mask

LEMMA SignBitIsPower ==
  ASSUME NEW w \in Nat \ {0}, w <= WordBits
  PROVE  SignBit(w) = Pow2[w - 1]
<1>1. w - 1 \in Nat /\ w - 1 < WordBits /\ (w - 1) + 1 <= WordBits
  BY Sizes
<1>2. PICK t \in Nat \ {0} : t = Pow2[w - 1]
  BY <1>1, Pow2Positive
<1>3. Word \in Nat /\ Word > WordBits
  BY Sizes, Pow2Positive DEF Word
<1>4. 2 * t <= Word
  <2>1. Pow2[(w - 1) + 1] = 2 * t
    BY <1>1, <1>2, Pow2Step
  <2>. QED
    BY <1>1, <2>1, Sizes, Pow2Grows DEF Word
<1>5. (w - 1) % Word = w - 1 /\ (w - 1) % WordBits = w - 1
  BY <1>1, <1>3, Sizes, RemainderOfSmall
<1>6. 1 % Word = 1 /\ t % Word = t
  BY <1>2, <1>3, <1>4, RemainderOfSmall
<1>7. 1 * t = t
  OBVIOUS
<1>. QED
  BY <1>2, <1>5, <1>6, <1>7 DEF SignBit, ShiftLeft

(* A number is negative when the highest bit that is left of it is set. *)
LEMMA SignIsHighestBit ==
  ASSUME NEW n \in Int, NEW w \in Nat \ {0}
  PROVE  Signed(n, w) < 0 <=> BitSet(n % Pow2[w], w - 1)
<1>1. w - 1 \in Nat /\ w = (w - 1) + 1
  OBVIOUS
<1>2. PICK t \in Nat \ {0} : t = Pow2[w - 1] /\ Pow2[w] = 2 * t
  BY <1>1, Pow2Step, Pow2Positive
<1>3. PICK r \in Nat : r = n % Pow2[w] /\ r < 2 * t
  <2>1. Pow2[w] \in Nat \ {0}
    BY <1>2
  <2>2. n % Pow2[w] \in Nat /\ n % Pow2[w] < Pow2[w]
    BY <2>1, Remainder
  <2>. QED
    BY <1>2, <2>2
<1>4. CASE r < t
  <2>1. r = t * 0 + r
    OBVIOUS
  <2>2. r \div t = 0
    BY <1>4, <2>1, QuotientUnique
  <2>. QED
    BY <1>2, <1>3, <1>4, <2>2 DEF Signed, BitSet
<1>5. CASE r >= t
  <2>1. r = t * 1 + (r - t) /\ r - t \in Nat /\ r - t < t
    BY <1>3, <1>5
  <2>2. r \div t = 1
    BY <2>1, QuotientUnique
  <2>. QED
    BY <1>2, <1>3, <1>5, <2>2 DEF Signed, BitSet
<1>. QED
  BY <1>4, <1>5

(* The masks that Lean computes on its own describe the constants of LLVM: *)
(* mask for all widths of types, bitMask and signBit for those up to a     *)
(* word, 64 bits in the code (TypeBases.lean:32-51).                       *)
THEOREM MasksAgree == Spec => []MasksDescribeConstants
<1>1. ASSUME NumbersInv
      PROVE  MasksDescribeConstants
  <2>. DEFINE w == ap.width
  <2>1. w \in Nat \ {0} /\ meant \in Int /\ ap.bits = meant % Pow2[w]
    BY <1>1 DEF NumbersInv, TypeOK, TruncatedToFit
  <2>2. ASSUME NEW i \in Nat
        PROVE  BitSet(ap.bits, i) <=> BitSet(meant, i) /\ BitSet(Mask(w), i)
    BY <2>1, BitsOfRemainder, BitsOfOnes DEF Mask
  <2>3. w <= WordBits => BitMask(w) = Mask(w)
    BY <2>1, BitMaskIsMask
  <2>4. ASSUME w <= WordBits
        PROVE  Signed(meant, w) < 0 <=>
                 \E i \in 0 .. w : BitSet(ap.bits, i) /\ BitSet(SignBit(w), i)
    <3>1. w - 1 \in Nat /\ w - 1 \in 0 .. w
      BY <2>1
    <3>2. \A i \in 0 .. w : BitSet(SignBit(w), i) <=> i = w - 1
      BY <2>1, <2>4, <3>1, SignBitIsPower, BitsOfPower
    <3>3. Signed(meant, w) < 0 <=> BitSet(ap.bits, w - 1)
      BY <2>1, SignIsHighestBit
    <3>. QED
      BY <3>1, <3>2, <3>3
  <2>5. \A i \in 0 .. w + WordBits : i \in Nat
    BY <2>1, Sizes
  <2>. QED
    BY <2>2, <2>3, <2>4, <2>5 DEF MasksDescribeConstants
<1>. QED
  BY <1>1, NumbersInvariance, PTL
=============================================================================
