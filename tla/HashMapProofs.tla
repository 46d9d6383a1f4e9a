---------------------------- MODULE HashMapProofs ----------------------------
(***************************************************************************)
(* Theorems about module HashMap, for every set of keys, every hash, both  *)
(* lengths of a bucket and every size of key: the probes of the hash maps  *)
(* of lib/stb_ds.h end, the index always matches the entries, every key    *)
(* has one owner, and every lookup gives what a map would give.            *)
(*                                                                         *)
(* Three facts about the code carry the proof.  The quadratic probe visits *)
(* every slot of an index once, because the numbers of buckets are powers  *)
(* of two.  A slot in use is on the way of the probe for its key with no   *)
(* empty slot before it, which a tombstone keeps true and a rebuilt index  *)
(* makes true again.  And the limits of used slots and of tombstones leave *)
(* at least one slot empty.                                                *)
(***************************************************************************)
EXTENDS HashMap, FiniteSetTheorems, WellFoundedInduction, TLAPS

-----------------------------------------------------------------------------
(* Naturals and powers of two. *)

(* Every set of naturals that is not empty has a least element.            *)
LEMMA LeastNatural ==
  ASSUME NEW T, T \subseteq Nat, T # {}
  PROVE  \E x \in T : \A y \in T : x <= y
<1>1. \E R : IsWellFoundedOn(R, Nat) /\ \A x, y \in Nat : y < x => <<y, x>> \in R
  <2>1. \A x, y \in Nat : y < x => <<y, x>> \in OpToRel(<, Nat)
    BY DEF OpToRel
  <2> QED
    BY <2>1, NatLessThanWellFounded
<1>2. PICK R : IsWellFoundedOn(R, Nat) /\ \A x, y \in Nat : y < x => <<y, x>> \in R
  BY <1>1
<1>3. PICK x \in T : \A y \in T : <<y, x>> \notin R
  BY <1>2, WFMin
<1>4. ASSUME NEW y \in T PROVE x <= y
  <2>1. ~ (y < x)
    BY <1>2, <1>3, Zenon
  <2> QED
    BY <2>1
<1> QED
  BY <1>4

(* Induction, over a set.                                                  *)
LEMMA Induction ==
  ASSUME NEW S, 0 \in S, \A n \in Nat : n \in S => n + 1 \in S
  PROVE  Nat \subseteq S
<1> SUFFICES ASSUME Nat \ S # {} PROVE FALSE
  OBVIOUS
<1>1. PICK x \in Nat \ S : \A y \in Nat \ S : x <= y
  BY LeastNatural
<1>2. x # 0 /\ x - 1 \in Nat /\ x - 1 \in S
  BY <1>1
<1>3. (x - 1) + 1 \in S
  BY <1>2
<1> QED
  BY <1>1, <1>3

(* A function given by its first value and by the step from one value to   *)
(* the next.                                                               *)
Steps(f, m, S, c, G) ==
  f \in [0 .. m -> S] /\ f[0] = c /\ \A i \in 1 .. m : f[i] = G[i][f[i - 1]]

(* There is a function with a given first value and given steps.           *)
LEMMA Recursion ==
  ASSUME NEW m \in Nat, NEW S, NEW c \in S, NEW G \in [1 .. m -> [S -> S]]
  PROVE  \E f : Steps(f, m, S, c, G)
<1> DEFINE Upto(n) == \E f \in [0 .. n -> S] :
                        f[0] = c /\ \A i \in 1 .. n : f[i] = G[i][f[i - 1]]
<1> DEFINE Ns == {n \in Nat : n <= m => Upto(n)}
<1>1. Upto(0)
  <2> DEFINE g == [i \in 0 .. 0 |-> c]
  <2>1. g \in [0 .. 0 -> S] /\ g[0] = c /\ 1 .. 0 = {}
    OBVIOUS
  <2> HIDE DEF g
  <2> QED
    BY <2>1
<1>2. ASSUME NEW n \in Nat, n + 1 <= m, Upto(n) PROVE Upto(n + 1)
  <2>1. PICK f \in [0 .. n -> S] : f[0] = c /\ \A i \in 1 .. n : f[i] = G[i][f[i - 1]]
    BY <1>2
  <2> DEFINE g == [i \in 0 .. n + 1 |-> IF i = n + 1 THEN G[n + 1][f[n]] ELSE f[i]]
  <2>2. f[n] \in S /\ n + 1 \in 1 .. m
    BY <1>2
  <2>3. g \in [0 .. n + 1 -> S]
    BY <2>2
  <2>4. g[0] = c
    BY <2>1
  <2>5. ASSUME NEW i \in 1 .. n + 1 PROVE g[i] = G[i][g[i - 1]]
    <3>1. i - 1 \in 0 .. n /\ g[i - 1] = f[i - 1]
      OBVIOUS
    <3>2. CASE i = n + 1
      <4>1. g[i] = G[n + 1][f[n]] /\ i - 1 = n
        BY <3>2
      <4> QED
        BY <3>1, <3>2, <4>1
    <3>3. CASE i \in 1 .. n
      <4>1. g[i] = f[i] /\ f[i] = G[i][f[i - 1]]
        BY <2>1, <3>3
      <4> QED
        BY <3>1, <4>1
    <3> QED
      BY <3>2, <3>3
  <2> HIDE DEF g
  <2> QED
    BY <2>3, <2>4, <2>5
<1>3. Nat \subseteq Ns
  <2>1. 0 \in Ns
    BY <1>1
  <2>2. ASSUME NEW n \in Nat, n \in Ns PROVE n + 1 \in Ns
    <3> HIDE DEF Upto
    <3>1. n + 1 <= m => n <= m
      OBVIOUS
    <3> QED
      BY <1>2, <2>2, <3>1
  <2> HIDE DEF Ns
  <2> QED
    BY <2>1, <2>2, Induction
<1> QED
  BY <1>3 DEF Steps
-----------------------------------------------------------------------------
(* The powers of two: what doubling makes of 1.                            *)
Powers ==
  {p \in Nat : \A S \in SUBSET Nat : 1 \in S /\ (\A x \in S : 2 * x \in S) => p \in S}

(* Doubling a power gives a power.                                         *)
LEMMA PowersClosed == 1 \in Powers /\ \A p \in Powers : 2 * p \in Powers
  BY DEF Powers

(* What holds of 1 and is kept by doubling holds of every power.           *)
LEMMA PowersInduction ==
  ASSUME NEW S, S \subseteq Nat, 1 \in S, \A x \in S : 2 * x \in S
  PROVE  Powers \subseteq S
  BY DEF Powers

(* Every power but 1 is twice another.                                     *)
LEMMA PowersHalved ==
  ASSUME NEW p \in Powers, p # 1
  PROVE  \E q \in Powers : p = 2 * q
<1> DEFINE S == {1} \union {x \in Nat : \E q \in Powers : x = 2 * q}
<1>1. Powers \subseteq Nat
  BY DEF Powers
<1>2. 2 * 1 \in S /\ \A x \in S : 2 * x \in S
  BY <1>1, PowersClosed
<1>3. Powers \subseteq S
  <2>1. S \subseteq Nat /\ 1 \in S /\ \A x \in S : 2 * x \in S
    BY <1>2
  <2> HIDE DEF S
  <2> QED
    BY <2>1, PowersInduction
<1> QED
  BY <1>3

(* Powers are positive.                                                    *)
LEMMA PowersPositive == Powers \subseteq Nat \ {0}
<1> DEFINE S == Nat \ {0}
<1>1. S \subseteq Nat /\ 1 \in S /\ \A x \in S : 2 * x \in S
  OBVIOUS
<1>2. Powers \subseteq S
  <2> HIDE DEF S
  <2> QED
    BY <1>1, PowersInduction
<1> QED
  BY <1>2

(* Odd numbers, and multiples.                                             *)
Odd(x) == \E a \in Nat : x = 2 * a + 1
Multiple(x, p) == \E c \in Nat : x = c * p

(* What an odd number times another is a multiple of p, the other is too.  *)
LEMMA OddFactor ==
  ASSUME NEW p \in Powers, NEW o \in Nat, NEW b \in Nat, Odd(o), Multiple(o * b, p)
  PROVE  Multiple(b, p)
<1>0. PICK a \in Nat, c \in Nat : o = 2 * a + 1 /\ (2 * a + 1) * b = c * p
  BY DEF Odd, Multiple
<1> DEFINE S == {x \in Nat : \A y, z \in Nat : (2 * a + 1) * y = z * x => \E d \in Nat : y = d * x}
<1>1. 1 \in S
  OBVIOUS
<1>2. ASSUME NEW x \in S PROVE 2 * x \in S
  <2> SUFFICES ASSUME NEW y \in Nat, NEW z \in Nat, (2 * a + 1) * y = z * (2 * x)
               PROVE  \E d \in Nat : y = d * (2 * x)
    OBVIOUS
  <2>0. x \in Nat
    OBVIOUS
  <2>1. PICK h \in Nat : y = 2 * h \/ y = 2 * h + 1
    <3>1. y = 2 * (y \div 2) \/ y = 2 * (y \div 2) + 1
      OBVIOUS
    <3>2. y \div 2 \in Nat
      OBVIOUS
    <3> QED
      BY <3>1, <3>2
  <2>2. z * x \in Nat /\ z * (2 * x) = 2 * (z * x)
    BY <2>0
  <2>3. a * y \in Nat /\ (2 * a + 1) * y = 2 * (a * y) + y
    OBVIOUS
  <2>4. y = 2 * h
    BY <2>1, <2>2, <2>3
  <2>5. a * h \in Nat /\ (2 * a + 1) * h = 2 * (a * h) + h /\ a * y = 2 * (a * h)
    BY <2>4
  <2>6. (2 * a + 1) * h = z * x
    BY <2>2, <2>3, <2>4, <2>5
  <2>7. PICK d \in Nat : h = d * x
    BY <2>6
  <2>8. y = d * (2 * x)
    BY <2>0, <2>4, <2>7
  <2> QED
    BY <2>8
<1>3. Powers \subseteq S
  <2>1. S \subseteq Nat
    OBVIOUS
  <2> HIDE DEF S
  <2> QED
    BY <1>1, <1>2, <2>1, PowersInduction
<1> QED
  BY <1>0, <1>3 DEF Multiple
-----------------------------------------------------------------------------
(* Quotient and rest.                                                      *)
LEMMA DivMod ==
  ASSUME NEW a \in Nat, NEW b \in Nat \ {0}
  PROVE  /\ a \div b \in Nat /\ a % b \in 0 .. b - 1
         /\ a = b * (a \div b) + (a % b)
  OBVIOUS

(* Two numbers with the same rest differ by a multiple.                    *)
LEMMA SameRest ==
  ASSUME NEW a \in Nat, NEW b \in Nat, NEW m \in Nat \ {0}, a <= b, a % m = b % m
  PROVE  \E c \in Nat : b = a + c * m
<1> DEFINE c == (b \div m) - (a \div m)
<1>1. a \div m \in Nat /\ b \div m \in Nat /\ a % m \in 0 .. m - 1
  BY DivMod
<1>2. a = m * (a \div m) + (a % m) /\ b = m * (b \div m) + (b % m)
  BY DivMod
<1>3. PICK x \in Nat, y \in Nat, r \in 0 .. m - 1 :
        a = m * x + r /\ b = m * y + r
  BY <1>1, <1>2
<1>4. x <= y
  <2> SUFFICES ASSUME y < x PROVE FALSE
    BY <1>3
  <2>1. PICK e \in Nat : x = y + 1 + e
    <3>1. x - y - 1 \in Nat /\ x = y + 1 + (x - y - 1)
      OBVIOUS
    <3> QED
      BY <3>1
  <2>2. m * x = m * y + m + m * e /\ m * e \in Nat /\ m * y \in Nat
    BY <2>1
  <2> QED
    BY <1>3, <2>2
<1>5. PICK e \in Nat : y = x + e
  <2>1. y - x \in Nat /\ y = x + (y - x)
    BY <1>4
  <2> QED
    BY <2>1
<1>6. m * y = m * x + e * m
  BY <1>5
<1>7. b = a + e * m
  BY <1>3, <1>6
<1> QED
  BY <1>7

(* How many buckets a probe has advanced after j steps.                    *)
Triangle(j) == (j * (j + 1)) \div 2

(* A triangular number is half of j (j + 1), with no rest.                 *)
LEMMA Doubled ==
  ASSUME NEW j \in Nat
  PROVE  Triangle(j) \in Nat /\ 2 * Triangle(j) = j * (j + 1)
<1>1. PICK h \in Nat : j = 2 * h \/ j = 2 * h + 1
  <2>1. j = 2 * (j \div 2) \/ j = 2 * (j \div 2) + 1
    OBVIOUS
  <2>2. j \div 2 \in Nat
    OBVIOUS
  <2> QED
    BY <2>1, <2>2
<1>2. \E k \in Nat : j * (j + 1) = 2 * k
  <2>1. CASE j = 2 * h
    <3>1. h * (j + 1) \in Nat /\ j * (j + 1) = 2 * (h * (j + 1))
      BY <2>1
    <3> QED
      BY <3>1
  <2>2. CASE j = 2 * h + 1
    <3>1. j * (h + 1) \in Nat /\ j * (j + 1) = 2 * (j * (h + 1))
      BY <2>2
    <3> QED
      BY <3>1
  <2> QED
    BY <1>1, <2>1, <2>2
<1> QED
  BY <1>2 DEF Triangle

(* The buckets that a probe visits are all different.                      *)
LEMMA TrianglesApart ==
  ASSUME NEW p \in Powers, NEW i \in 0 .. p - 1, NEW j \in 0 .. p - 1, i < j,
         NEW c \in Nat, Triangle(j) = Triangle(i) + c * p
  PROVE  FALSE
<1>1. p \in Nat \ {0} /\ 2 * p \in Powers /\ i \in Nat /\ j \in Nat
  BY PowersPositive, PowersClosed
<1>2. PICK d \in Nat : j = i + d /\ d > 0 /\ d < p
  <2>1. j - i \in Nat /\ j = i + (j - i)
    BY <1>1
  <2> QED
    BY <1>1, <2>1
<1>3. j * (j + 1) = i * (i + 1) + d * (i + j + 1)
  <2>1. j * (j + 1) = i * (j + 1) + d * (j + 1)
    BY <1>1, <1>2
  <2>2. i * (j + 1) = i * (i + 1) + i * d
    BY <1>1, <1>2
  <2>3. i * d = d * i /\ d * (i + j + 1) = d * i + d * (j + 1)
    BY <1>1, <1>2
  <2>4. i * (j + 1) \in Nat /\ d * (j + 1) \in Nat /\ i * (i + 1) \in Nat /\ i * d \in Nat
    BY <1>1, <1>2
  <2> QED
    BY <2>1, <2>2, <2>3, <2>4
<1>4. d * (i + j + 1) = c * (2 * p)
  <2>1. 2 * Triangle(j) = j * (j + 1) /\ 2 * Triangle(i) = i * (i + 1)
        /\ Triangle(i) \in Nat /\ Triangle(j) \in Nat
    BY <1>1, Doubled
  <2>2. 2 * (c * p) = c * (2 * p) /\ c * p \in Nat
    BY <1>1
  <2>3. d * (i + j + 1) \in Nat /\ i * (i + 1) \in Nat
    BY <1>1, <1>2
  <2> QED
    BY <1>3, <2>1, <2>2, <2>3
<1>5. PICK a \in Nat : d = 2 * a \/ d = 2 * a + 1
  <2>1. d = 2 * (d \div 2) \/ d = 2 * (d \div 2) + 1
    OBVIOUS
  <2>2. d \div 2 \in Nat
    OBVIOUS
  <2> QED
    BY <2>1, <2>2
<1>6. ASSUME NEW x \in Nat, NEW e \in Nat, x > 0, x < 2 * p, x = e * (2 * p) PROVE FALSE
  <2>1. e # 0
    BY <1>1, <1>6
  <2>2. PICK g \in Nat : e = 1 + g
    <3>1. e - 1 \in Nat /\ e = 1 + (e - 1)
      BY <2>1
    <3> QED
      BY <3>1
  <2>3. e * (2 * p) = 2 * p + g * (2 * p) /\ g * (2 * p) \in Nat
    BY <1>1, <2>2
  <2> QED
    BY <1>1, <1>6, <2>3
<1>7. CASE d = 2 * a + 1
  <2>1. Odd(d) /\ i + j + 1 \in Nat
    BY <1>1, <1>7 DEF Odd
  <2>2. Multiple(d * (i + j + 1), 2 * p)
    BY <1>4 DEF Multiple
  <2>3. Multiple(i + j + 1, 2 * p)
    BY <1>1, <2>1, <2>2, OddFactor
  <2> QED
    BY <1>1, <1>6, <2>1, <2>3 DEF Multiple
<1>8. CASE d = 2 * a
  <2>1. i + a \in Nat /\ i + j + 1 = 2 * (i + a) + 1 /\ i + j + 1 \in Nat
    BY <1>1, <1>2, <1>8
  <2>2. Odd(i + j + 1)
    BY <2>1 DEF Odd
  <2>3. (i + j + 1) * d = c * (2 * p)
    BY <1>1, <1>4, <2>1
  <2>4. Multiple((i + j + 1) * d, 2 * p)
    BY <2>3 DEF Multiple
  <2>5. Multiple(d, 2 * p)
    BY <1>1, <2>1, <2>2, <2>4, OddFactor
  <2> QED
    BY <1>1, <1>2, <1>6, <2>5 DEF Multiple
<1> QED
  BY <1>5, <1>7, <1>8
-----------------------------------------------------------------------------
(* The bucket of a step is as many buckets on as the triangle says, and    *)
(* the position in it is that of the hash.                                 *)
LEMMA Position ==
  ASSUME NEW h \in Nat, NEW p \in Powers, NEW n \in Nat
  PROVE  /\ n \div B \in Nat
         /\ BucketAt(h, B * p, n) = (h + B * Triangle(n \div B)) % (B * p)
         /\ BucketAt(h, B * p, n) \in 0 .. B * p - 1
         /\ BucketAt(h, B * p, n) % B = h % B
<1>1. p \in Nat \ {0} /\ B \in {4, 8} /\ n \div B \in Nat
  BY PowersPositive, ConstantsAssumption
<1>2. PICK t \in Nat : t = Triangle(n \div B)
  BY <1>1, Doubled
<1>3. BucketAt(h, B * p, n) = (h + B * t) % (B * p)
  BY <1>2 DEF BucketAt, Triangle
<1>4. B * p \in Nat \ {0} /\ h + B * t \in Nat
  BY <1>1
<1>5. PICK q \in Nat, r \in 0 .. B * p - 1 :
        h + B * t = (B * p) * q + r /\ r = (h + B * t) % (B * p)
  <2>1. PICK a \in Nat, b \in Nat \ {0} : a = h + B * t /\ b = B * p
    BY <1>4
  <2>2. a \div b \in Nat /\ a % b \in 0 .. b - 1 /\ a = b * (a \div b) + (a % b)
    BY DivMod
  <2> QED
    BY <2>1, <2>2
<1>6. (B * p) * q = B * (p * q) /\ p * q \in Nat
  BY <1>1
<1>7. r % B = h % B
  <2>1. PICK w \in Nat : h + B * t = B * w + r
    BY <1>5, <1>6
  <2>2. CASE B = 4
    BY <2>1, <2>2
  <2>3. CASE B = 8
    BY <2>1, <2>3
  <2> QED
    BY <1>1, <2>2, <2>3
<1> QED
  BY <1>1, <1>2, <1>3, <1>5, <1>7

(* Where the probe goes within a bucket.                                   *)
LEMMA InBucket ==
  ASSUME NEW h \in Nat, NEW p \in Powers, NEW n \in Nat
  PROVE  \E u \in 0 .. p - 1 :
           /\ BucketAt(h, B * p, n) = B * u + (h % B)
           /\ Probe(h, B * p, n) = B * u + ((h + n) % B)
<1> DEFINE pos == BucketAt(h, B * p, n)
<1>1. pos \in 0 .. B * p - 1 /\ pos % B = h % B /\ B \in {4, 8} /\ p \in Nat \ {0}
  BY Position, PowersPositive, ConstantsAssumption
<1>2. Probe(h, B * p, n) = (pos - (pos % B)) + ((pos + n) % B)
  BY DEF Probe
<1> HIDE DEF pos
<1>3. CASE B = 4
  <2>1. pos \div 4 \in 0 .. p - 1 /\ pos = 4 * (pos \div 4) + (h % 4)
        /\ Probe(h, B * p, n) = 4 * (pos \div 4) + ((h + n) % 4)
    BY <1>1, <1>2, <1>3
  <2> QED
    BY <1>3, <2>1 DEF pos
<1>4. CASE B = 8
  <2>1. pos \div 8 \in 0 .. p - 1 /\ pos = 8 * (pos \div 8) + (h % 8)
        /\ Probe(h, B * p, n) = 8 * (pos \div 8) + ((h + n) % 8)
    BY <1>1, <1>2, <1>4
  <2> QED
    BY <1>4, <2>1 DEF pos
<1> QED
  BY <1>1, <1>3, <1>4

(* The numbers of slots that an index can have.                            *)
Sizes == {B * p : p \in Powers}

(* A probe stays within the index.                                         *)
LEMMA ProbeInside ==
  ASSUME NEW h \in Nat, NEW slots \in Sizes, NEW n \in 0 .. slots - 1
  PROVE  Probe(h, slots, n) \in 0 .. slots - 1
<1>1. PICK p \in Powers : slots = B * p
  BY DEF Sizes
<1>0. n \in Nat
  BY <1>1, PowersPositive, ConstantsAssumption
<1>2. PICK u \in 0 .. p - 1 : Probe(h, B * p, n) = B * u + ((h + n) % B)
  BY <1>0, InBucket
<1>3. B \in {4, 8} /\ p \in Nat \ {0}
  BY PowersPositive, ConstantsAssumption
<1> QED
  BY <1>1, <1>2, <1>3

(* No slot is looked at twice.                                             *)
LEMMA ProbeApart ==
  ASSUME NEW h \in Nat, NEW slots \in Sizes, NEW n \in 0 .. slots - 1,
         NEW m \in 0 .. slots - 1, Probe(h, slots, n) = Probe(h, slots, m)
  PROVE  n = m
<1>1. PICK p \in Powers : slots = B * p
  BY DEF Sizes
<1>2. PICK u \in 0 .. p - 1 : BucketAt(h, B * p, n) = B * u + (h % B)
                              /\ Probe(h, B * p, n) = B * u + ((h + n) % B)
  BY InBucket
<1>3. PICK v \in 0 .. p - 1 : BucketAt(h, B * p, m) = B * v + (h % B)
                              /\ Probe(h, B * p, m) = B * v + ((h + m) % B)
  BY InBucket
<1>4. B \in {4, 8} /\ p \in Nat \ {0} /\ n \in Nat /\ m \in Nat
  BY <1>1, PowersPositive, ConstantsAssumption
<1>5. u = v /\ (h + n) % B = (h + m) % B
  BY <1>1, <1>2, <1>3, <1>4
<1>6. n \div B = m \div B
  <2> DEFINE i == n \div B
             j == m \div B
  <2>1. i \in 0 .. p - 1 /\ j \in 0 .. p - 1
    BY <1>1, <1>4
  <2>2. (h + B * Triangle(i)) % (B * p) = (h + B * Triangle(j)) % (B * p)
    BY <1>2, <1>3, <1>4, <1>5, Position
  <2> HIDE DEF i, j
  <2>3. ASSUME NEW x \in 0 .. p - 1, NEW y \in 0 .. p - 1, x < y,
               (h + B * Triangle(x)) % (B * p) = (h + B * Triangle(y)) % (B * p)
        PROVE  FALSE
    <3>1. PICK s \in Nat, t \in Nat : s = Triangle(x) /\ t = Triangle(y) /\ s <= t
      <4>1. x \in Nat /\ y \in Nat
        BY <1>4
      <4>2. 2 * Triangle(x) = x * (x + 1) /\ 2 * Triangle(y) = y * (y + 1)
            /\ Triangle(x) \in Nat /\ Triangle(y) \in Nat
        BY <4>1, Doubled
      <4>3. x * (x + 1) <= y * (y + 1)
        BY <2>3, <4>1
      <4> QED
        BY <4>2, <4>3
    <3>2. PICK c \in Nat : h + B * t = (h + B * s) + c * (B * p)
      <4>1. h + B * s \in Nat /\ h + B * t \in Nat /\ h + B * s <= h + B * t
            /\ B * p \in Nat \ {0}
        BY <1>4, <3>1
      <4> QED
        BY <2>3, <3>1, <4>1, SameRest
    <3>3. c * (B * p) = B * (c * p) /\ c * p \in Nat
      BY <1>4
    <3>4. t = s + c * p
      BY <1>4, <3>2, <3>3
    <3> QED
      BY <2>3, <3>1, <3>4, TrianglesApart
  <2>4. ~ (i < j) /\ ~ (j < i)
    BY <2>1, <2>2, <2>3
  <2>5. i = j
    BY <1>4, <2>1, <2>4
  <2> QED
    BY <2>5 DEF i, j
<1>7. CASE B = 4
  BY <1>4, <1>5, <1>6, <1>7
<1>8. CASE B = 8
  BY <1>4, <1>5, <1>6, <1>8
<1> QED
  BY <1>4, <1>7, <1>8

(* Every slot is looked at.                                                *)
LEMMA ProbeReaches ==
  ASSUME NEW h \in Nat, NEW slots \in Sizes, NEW s \in 0 .. slots - 1
  PROVE  \E n \in 0 .. slots - 1 : Probe(h, slots, n) = s
<1> DEFINE S == 0 .. slots - 1
           f == [n \in S |-> Probe(h, slots, n)]
<1>1. slots \in Nat \ {0}
  BY PowersPositive, ConstantsAssumption DEF Sizes
<1>2. IsFiniteSet(S)
  BY <1>1, FS_Interval
<1>3. f \in [S -> S]
  <2>1. \A n \in S : Probe(h, slots, n) \in S
    BY ProbeInside
  <2> QED
    BY <2>1
<1>4. \A n, m \in S : f[n] = f[m] => n = m
  BY <1>1, ProbeApart
<1>5. f \in Injection(S, S)
  BY <1>3, <1>4 DEF Injection, IsInjective
<1>6. f \in Surjection(S, S)
  <2> HIDE DEF f, S
  <2> QED
    BY <1>2, <1>5, FS_Injection
<1> QED
  BY <1>6 DEF Surjection

(* A probe for any hash looks at every slot of an index, and at none of     *)
(* them twice in as many steps as there are slots: the quadratic steps of   *)
(* stbds_hm_find_slot from bucket to bucket miss none.                      *)
THEOREM ProbesVisitEverySlot ==
  ASSUME NEW h \in Nat, NEW slots \in Sizes, NEW s \in 0 .. slots - 1
  PROVE  \E n \in 0 .. slots - 1 :
           /\ Probe(h, slots, n) = s
           /\ \A m \in 0 .. slots - 1 : Probe(h, slots, m) = s => m = n
<1>1. PICK n \in 0 .. slots - 1 : Probe(h, slots, n) = s
  BY ProbeReaches
<1> QED
  BY <1>1, ProbeApart

-----------------------------------------------------------------------------
(* What an index is, and what is found in it. *)

(* How an index keeps its keys.                                            *)
Modes == {"none", "default", "strdup", "arena"}
(* The ranges of a block of an arena, and what an arena is.                *)
Pieces == [from : Nat, to : Nat]
(* An arena.                                                               *)
Arenas == [storage : Seq([size : Nat, used : SUBSET Pieces]), remaining : Nat, block : Nat]

(* An index of n slots.                                                    *)
Tables(n) ==
  [slots : {n}, hash : [0 .. n - 1 -> Nat], index : [0 .. n - 1 -> Int],
   used : Int, tombs : Int, mode : Modes, arena : Arenas, temp : {Garbage}]

(* An entry of the array.                                                  *)
Entries == [key : Keys, val : UNION {Vals[k] : k \in Keys}, block : {Caller} \union (Keys \X Nat)]

(* The slots in use point one to one to the entries E of its, and hold the *)
(* hashes of their keys; an empty slot is told by its hash.                *)
Linked(t, its, E) ==
  /\ \A s \in SlotsOf(t) :
       /\ t.index[s] \in {EMPTY, DELETED} \union E
       /\ t.hash[s] = 0 <=> t.index[s] = EMPTY
       /\ t.index[s] = DELETED => t.hash[s] = 1
       /\ t.index[s] >= 0 => t.hash[s] = HashOf(its[t.index[s] + 1].key)
  /\ \A r, s \in SlotsOf(t) : t.index[r] >= 0 /\ t.index[r] = t.index[s] => r = s
  /\ \A e \in E : \E s \in SlotsOf(t) : t.index[s] = e

(* A probe for the key of a slot meets no empty slot before that one.      *)
Reached(t) ==
  \A s, n \in SlotsOf(t) :
    t.index[s] >= 0 /\ Probe(t.hash[s], t.slots, n) = s =>
      \A m \in 0 .. n - 1 : t.hash[Probe(t.hash[s], t.slots, m)] # 0

(* No two entries have one key.                                            *)
Distinct(its) == \A i, j \in DOMAIN its : its[i].key = its[j].key => i = j

(* What an index of n slots, in front of the entries E of its, always is.  *)
Table(t, n, its, E) ==
  /\ t \in Tables(n) /\ n \in Sizes
  /\ its \in Seq(Entries) /\ E \subseteq 0 .. Len(its) - 1
  /\ Linked(t, its, E) /\ Reached(t)

(* No stored hash looks like that of an empty or of a deleted slot.        *)
LEMMA Hashes == \A k \in Keys : HashOf(k) \in Nat /\ HashOf(k) >= 2
  BY ConstantsAssumption DEF HashOf

(* An index has slots.                                                     *)
LEMMA SizesPositive == Sizes \subseteq Nat \ {0}
  BY PowersPositive, ConstantsAssumption DEF Sizes

(* A new index is in front of no entry.                                    *)
LEMMA EmptyTable ==
  ASSUME NEW n \in Sizes, NEW mode \in Modes, NEW arena \in Arenas, NEW its \in Seq(Entries)
  PROVE  Table(Empty(n, mode, arena), n, its, {})
<1>1. n \in Nat \ {0}
  BY SizesPositive
<1>2. Empty(n, mode, arena) \in Tables(n)
  BY <1>1 DEF Empty, Tables, EMPTY
<1>3. Linked(Empty(n, mode, arena), its, {})
  BY <1>1 DEF Empty, Linked, SlotsOf, EMPTY, DELETED
<1>4. Reached(Empty(n, mode, arena))
  BY <1>1 DEF Empty, Reached, SlotsOf, EMPTY, DELETED
<1> QED
  BY <1>2, <1>3, <1>4 DEF Table

(* What an index is made of.                                               *)
LEMMA TableIs ==
  ASSUME NEW t, NEW n, NEW its, NEW E, Table(t, n, its, E)
  PROVE  /\ n \in Sizes /\ n \in Nat \ {0} /\ t \in Tables(n) /\ t.slots = n
         /\ t.hash \in [0 .. n - 1 -> Nat] /\ t.index \in [0 .. n - 1 -> Int]
         /\ its \in Seq(Entries) /\ Len(its) \in Nat
         /\ E \subseteq 0 .. Len(its) - 1
         /\ \A e \in E : e \in Nat /\ e + 1 \in DOMAIN its /\ its[e + 1].key \in Keys
<1>1. n \in Sizes /\ n \in Nat \ {0} /\ t \in Tables(n) /\ its \in Seq(Entries)
      /\ E \subseteq 0 .. Len(its) - 1
  BY SizesPositive DEF Table
<1>2. Len(its) \in Nat /\ DOMAIN its = 1 .. Len(its)
  BY <1>1
<1>3. ASSUME NEW e \in 0 .. Len(its) - 1 PROVE e + 1 \in DOMAIN its /\ its[e + 1].key \in Keys
  <2>1. e + 1 \in DOMAIN its
    BY <1>2
  <2>2. its[e + 1] \in Entries
    BY <1>1, <2>1
  <2> QED
    BY <2>1, <2>2 DEF Entries
<1>4. t.slots = n /\ t.hash \in [0 .. n - 1 -> Nat] /\ t.index \in [0 .. n - 1 -> Int]
  BY <1>1 DEF Tables
<1> QED
  BY <1>1, <1>2, <1>3, <1>4

(* What a slot of an index says of the entries.                            *)
LEMMA SlotIs ==
  ASSUME NEW t, NEW n, NEW its, NEW E, Table(t, n, its, E)
  PROVE  /\ \A s \in 0 .. n - 1 :
              /\ t.index[s] \in {-1, -2} \union E
              /\ t.hash[s] = 0 <=> t.index[s] = -1
              /\ t.index[s] = -2 => t.hash[s] = 1
              /\ t.index[s] >= 0 <=> t.index[s] \in E
              /\ t.index[s] \in E => t.hash[s] = HashOf(its[t.index[s] + 1].key)
         /\ \A r, s \in 0 .. n - 1 : t.index[r] \in E /\ t.index[r] = t.index[s] => r = s
         /\ \A e \in E : \E s \in 0 .. n - 1 : t.index[s] = e
<1>1. t.slots = n /\ t.index \in [0 .. n - 1 -> Int] /\ \A e \in E : e \in Nat
  BY TableIs
<1>2. Linked(t, its, E)
  BY DEF Table
<1>3. \A s \in 0 .. n - 1 : t.index[s] \in {-1, -2} \union E
  BY <1>1, <1>2 DEF Linked, SlotsOf, EMPTY, DELETED
<1>4. \A s \in 0 .. n - 1 : t.index[s] >= 0 <=> t.index[s] \in E
  BY <1>1, <1>3
<1> QED
  BY <1>1, <1>2, <1>3, <1>4 DEF Linked, SlotsOf, EMPTY, DELETED

(* The way of a probe to a slot in use has no empty slot.                  *)
LEMMA ReachedIs ==
  ASSUME NEW t, NEW n, NEW its, NEW E, Table(t, n, its, E), NEW s \in 0 .. n - 1,
         t.index[s] \in E, NEW j \in 0 .. n - 1, Probe(t.hash[s], n, j) = s,
         NEW m \in 0 .. j - 1
  PROVE  t.hash[Probe(t.hash[s], n, m)] # 0
<1>1. t.slots = n /\ t.index[s] >= 0
  BY TableIs
<1>2. Reached(t)
  BY DEF Table
<1> QED
  BY <1>1, <1>2 DEF Reached, SlotsOf

(* An update keeps the type of a function.                                 *)
LEMMA Updated ==
  ASSUME NEW S, NEW T, NEW f \in [S -> T], NEW a, NEW v \in T
  PROVE  [f EXCEPT ![a] = v] \in [S -> T]
  OBVIOUS

(* Filling a slot that a probe for its hash has come to makes an index of  *)
(* one entry more.                                                         *)
LEMMA FillTable ==
  ASSUME NEW t, NEW n, NEW its, NEW E, Table(t, n, its, E),
         NEW e \in (0 .. Len(its) - 1) \ E, NEW h, h = HashOf(its[e + 1].key),
         NEW j \in 0 .. n - 1, NEW slot, slot = Probe(h, n, j), t.index[slot] < 0,
         \A m \in 0 .. j - 1 : t.hash[Probe(h, n, m)] # 0
  PROVE  Table(Fill(t, slot, h, e), n, its, E \union {e})
<1> DEFINE u == Fill(t, slot, h, e)
           F == E \union {e}
<1>1. n \in Sizes /\ n \in Nat \ {0} /\ t.slots = n /\ t \in Tables(n)
      /\ t.hash \in [0 .. n - 1 -> Nat] /\ t.index \in [0 .. n - 1 -> Int]
      /\ its \in Seq(Entries) /\ E \subseteq 0 .. Len(its) - 1 /\ \A x \in E : x \in Nat
  BY TableIs
<1>2. h \in Nat /\ h >= 2 /\ e \in Nat
  <2>1. e + 1 \in DOMAIN its /\ e \in Nat
    BY <1>1
  <2>2. its[e + 1] \in Entries
    BY <1>1, <2>1
  <2>3. its[e + 1].key \in Keys
    BY <2>2 DEF Entries
  <2> QED
    BY <2>1, <2>3, Hashes
<1>3. slot \in 0 .. n - 1
  BY <1>1, <1>2, ProbeInside
<1>4. u.slots = n /\ u.hash = [t.hash EXCEPT ![slot] = h]
      /\ u.index = [t.index EXCEPT ![slot] = e]
  BY <1>1 DEF Fill, Tables
<1>5. u \in Tables(n)
  <2>1. PICK hs \in [0 .. n - 1 -> Nat], is \in [0 .. n - 1 -> Int] :
          u = [t EXCEPT !.hash = hs, !.index = is]
    <3>1. u = [t EXCEPT !.hash = [t.hash EXCEPT ![slot] = h],
                        !.index = [t.index EXCEPT ![slot] = e]]
      BY DEF Fill
    <3>2. [t.hash EXCEPT ![slot] = h] \in [0 .. n - 1 -> Nat]
          /\ [t.index EXCEPT ![slot] = e] \in [0 .. n - 1 -> Int]
      <4>1. e \in Int
        BY <1>2
      <4> QED
        BY <1>1, <1>2, <4>1, Updated
    <3> HIDE DEF u
    <3> QED
      BY <3>1, <3>2
  <2> HIDE DEF u
  <2> QED
    BY <1>1, <2>1 DEF Tables
<1> HIDE DEF u
<1>6. /\ u.index[slot] = e /\ u.hash[slot] = h
      /\ \A s \in 0 .. n - 1 : s # slot => u.index[s] = t.index[s] /\ u.hash[s] = t.hash[s]
  BY <1>1, <1>3, <1>4
<1>7. ASSUME NEW s \in 0 .. n - 1
      PROVE  /\ u.index[s] \in {-1, -2} \union F
             /\ u.hash[s] = 0 <=> u.index[s] = -1
             /\ u.index[s] = -2 => u.hash[s] = 1
             /\ u.index[s] >= 0 => u.hash[s] = HashOf(its[u.index[s] + 1].key)
  <2>1. CASE s = slot
    BY <1>2, <1>6, <2>1
  <2>2. CASE s # slot
    <3>1. u.index[s] = t.index[s] /\ u.hash[s] = t.hash[s]
      BY <1>6, <2>2
    <3> QED
      BY <3>1, SlotIs
  <2> QED
    BY <2>1, <2>2
<1>8. ASSUME NEW r \in 0 .. n - 1, NEW s \in 0 .. n - 1, u.index[r] >= 0, u.index[r] = u.index[s]
      PROVE  r = s
  <2>1. \A x \in 0 .. n - 1 : t.index[x] # e
    BY <1>2, SlotIs
  <2>2. CASE r = slot \/ s = slot
    BY <1>6, <1>8, <2>1, <2>2
  <2>3. CASE r # slot /\ s # slot
    <3>1. u.index[r] = t.index[r] /\ u.index[s] = t.index[s]
      BY <1>6, <2>3
    <3>2. t.index[r] \in E /\ t.index[r] = t.index[s]
      BY <1>8, <3>1, SlotIs
    <3> QED
      BY <3>2, SlotIs
  <2> QED
    BY <2>2, <2>3
<1>9. ASSUME NEW x \in F PROVE \E s \in 0 .. n - 1 : u.index[s] = x
  <2>1. CASE x = e
    BY <1>3, <1>6, <2>1
  <2>2. CASE x \in E
    <3>1. PICK s \in 0 .. n - 1 : t.index[s] = x
      BY <2>2, SlotIs
    <3>2. s # slot
      BY <1>1, <2>2, <3>1
    <3> QED
      BY <1>6, <3>1, <3>2
  <2> QED
    BY <2>1, <2>2
<1>10. Linked(u, its, F)
  BY <1>4, <1>7, <1>8, <1>9 DEF Linked, SlotsOf, EMPTY, DELETED
<1>11. Reached(u)
  <2> SUFFICES ASSUME NEW s \in 0 .. n - 1, NEW i \in 0 .. n - 1, u.index[s] >= 0,
                      Probe(u.hash[s], n, i) = s, NEW m \in 0 .. i - 1
               PROVE  u.hash[Probe(u.hash[s], n, m)] # 0
    BY <1>4 DEF Reached, SlotsOf
  <2>1. u.hash[s] \in Nat /\ m \in 0 .. n - 1
    BY <1>1, <1>5 DEF Tables
  <2>2. PICK r \in 0 .. n - 1 : r = Probe(u.hash[s], n, m)
    BY <1>1, <2>1, ProbeInside
  <2>3. CASE r = slot
    BY <1>2, <1>6, <2>2, <2>3
  <2>4. CASE r # slot /\ s = slot
    <3>1. u.hash[s] = h
      BY <1>6, <2>4
    <3>2. i = j
      BY <1>1, <1>2, <3>1, <2>4, ProbeApart
    <3> QED
      BY <1>6, <2>2, <2>4, <3>1, <3>2
  <2>5. CASE r # slot /\ s # slot
    <3>1. u.hash[s] = t.hash[s] /\ u.index[s] = t.index[s] /\ u.hash[r] = t.hash[r]
      BY <1>6, <2>5
    <3>2. t.index[s] \in E
      BY <3>1, SlotIs
    <3> QED
      BY <2>2, <3>1, <3>2, ReachedIs
  <2> QED
    BY <2>3, <2>4, <2>5, <2>2
<1>12. F \subseteq 0 .. Len(its) - 1
  BY <1>1
<1> QED
  BY <1>1, <1>5, <1>10, <1>11, <1>12 DEF Table, u

(* The slot that holds a key is that of its entry.                         *)
LEMMA HoldsKey ==
  ASSUME NEW t, NEW n, NEW E, Table(t, n, items, E), NEW s \in 0 .. n - 1, NEW k \in Keys,
         Holds(t, s, k)
  PROVE  t.index[s] \in E /\ items[t.index[s] + 1].key = k /\ t.hash[s] # 0
<1>1. HashOf(k) \in Nat /\ HashOf(k) >= 2 /\ t.hash[s] = HashOf(k) /\ KeyAt(t, s) = k
  BY Hashes DEF Holds
<1>2. t.index[s] \in E
  BY <1>1, SlotIs
<1> QED
  BY <1>1, <1>2 DEF KeyAt

(* The search for the key of a slot in use stops there: stbds_hm_find_slot *)
(* finds every key of the map.                                             *)
LEMMA FindPresent ==
  ASSUME NEW t, NEW n, NEW E, Table(t, n, items, E), Distinct(items),
         NEW s \in 0 .. n - 1, t.index[s] >= 0
  PROVE  /\ FindStop(t, KeyAt(t, s)) \in 0 .. n - 1
         /\ Find(t, KeyAt(t, s)) = s
<1> DEFINE stops(k, i) == LET slot == Probe(HashOf(k), t.slots, i)
                          IN t.hash[slot] = 0 \/ Holds(t, slot, k)
<1>1. n \in Nat \ {0} /\ t.slots = n /\ n \in Sizes
  BY TableIs
<1>2. PICK k \in Keys, h \in Nat :
        k = KeyAt(t, s) /\ h = HashOf(k) /\ t.hash[s] = h /\ t.index[s] \in E
  <2>1. t.index[s] \in E
    BY SlotIs
  <2>2. KeyAt(t, s) \in Keys /\ t.hash[s] = HashOf(KeyAt(t, s))
    BY <2>1, SlotIs, TableIs DEF KeyAt
  <2>3. HashOf(KeyAt(t, s)) \in Nat
    BY <2>2, Hashes
  <2> QED
    BY <2>1, <2>2, <2>3
<1>3. h \in Nat /\ h >= 2 /\ Holds(t, s, k)
  BY <1>2, Hashes DEF Holds
<1>4. PICK j \in 0 .. n - 1 : Probe(h, n, j) = s
  BY <1>1, <1>3, ProbeReaches
<1>5. ASSUME NEW m \in 0 .. j - 1 PROVE ~stops(k, m)
  <2>0. m \in 0 .. n - 1
    BY <1>1
  <2>1. PICK r \in 0 .. n - 1 : r = Probe(h, n, m)
    BY <1>1, <1>3, <2>0, ProbeInside
  <2>2. t.hash[r] # 0
    BY <1>2, <1>4, <2>1, ReachedIs
  <2>3. ~Holds(t, r, k)
    <3> SUFFICES ASSUME Holds(t, r, k) PROVE FALSE
      OBVIOUS
    <3>1. t.index[r] \in E /\ items[t.index[r] + 1].key = k
      BY HoldsKey
    <3>2. items[t.index[s] + 1].key = k
      BY <1>2 DEF KeyAt
    <3>3. t.index[r] + 1 \in DOMAIN items /\ t.index[s] + 1 \in DOMAIN items
          /\ t.index[r] \in Nat /\ t.index[s] \in Nat
      BY <1>2, <3>1, TableIs
    <3>4. t.index[r] + 1 = t.index[s] + 1
      BY <3>1, <3>2, <3>3 DEF Distinct
    <3>5. r = s
      BY <3>1, <3>3, <3>4, SlotIs
    <3>6. m = j
      BY <1>1, <1>3, <1>4, <2>0, <2>1, <3>5, ProbeApart
    <3> QED
      BY <3>6
  <2> QED
    BY <1>1, <1>2, <2>1, <2>2, <2>3
<1>6. stops(k, j)
  BY <1>1, <1>2, <1>3, <1>4
<1>7. FindStop(t, k) = CHOOSE i \in 0 .. n - 1 : stops(k, i) /\ \A m \in 0 .. i - 1 : ~stops(k, m)
  BY <1>1 DEF FindStop
<1> HIDE DEF stops
<1>8. FindStop(t, k) = j
  <2>1. \A i \in 0 .. n - 1 : (stops(k, i) /\ \A m \in 0 .. i - 1 : ~stops(k, m)) => i = j
    BY <1>1, <1>5, <1>6
  <2> QED
    BY <1>5, <1>6, <1>7, <2>1
<1>9. Find(t, k) = s
  BY <1>1, <1>2, <1>3, <1>4, <1>8 DEF Find
<1> QED
  BY <1>2, <1>8, <1>9

(* The search for a key that no entry has stops at an empty slot.          *)
LEMMA FindAbsent ==
  ASSUME NEW t, NEW n, NEW E, Table(t, n, items, E), NEW k \in Keys,
         \A e \in E : items[e + 1].key # k,
         \E s \in 0 .. n - 1 : t.hash[s] = 0
  PROVE  /\ FindStop(t, k) \in 0 .. n - 1
         /\ t.hash[Probe(HashOf(k), n, FindStop(t, k))] = 0
         /\ \A m \in 0 .. FindStop(t, k) - 1 : t.hash[Probe(HashOf(k), n, m)] # 0
         /\ Find(t, k) = -1
<1> DEFINE stops(i) == LET slot == Probe(HashOf(k), t.slots, i)
                       IN t.hash[slot] = 0 \/ Holds(t, slot, k)
           Stops == {i \in 0 .. n - 1 : stops(i)}
<1>1. n \in Nat \ {0} /\ t.slots = n /\ n \in Sizes
  BY TableIs
<1>2. PICK h \in Nat : h = HashOf(k)
  BY Hashes
<1>3. ASSUME NEW i \in 0 .. n - 1 PROVE stops(i) <=> t.hash[Probe(h, n, i)] = 0
  <2>1. Probe(h, n, i) \in 0 .. n - 1
    BY <1>1, ProbeInside
  <2>2. ~Holds(t, Probe(h, n, i), k)
    BY <2>1, HoldsKey
  <2> QED
    BY <1>1, <1>2, <2>2
<1>4. FindStop(t, k) = CHOOSE i \in 0 .. n - 1 : stops(i) /\ \A m \in 0 .. i - 1 : ~stops(m)
  BY <1>1 DEF FindStop
<1>5. \E i \in 0 .. n - 1 : stops(i)
  <2>1. PICK s \in 0 .. n - 1 : t.hash[s] = 0
    OBVIOUS
  <2>2. PICK i \in 0 .. n - 1 : Probe(h, n, i) = s
    BY <1>1, ProbeReaches
  <2> QED
    BY <1>3, <2>1, <2>2
<1> HIDE DEF stops
<1>6. Stops \subseteq Nat /\ Stops # {}
  BY <1>1, <1>5
<1>7. PICK x \in Stops : \A y \in Stops : x <= y
  <2> HIDE DEF Stops
  <2> QED
    BY <1>6, LeastNatural
<1>8. x \in 0 .. n - 1 /\ stops(x) /\ \A m \in 0 .. x - 1 : ~stops(m)
  BY <1>1, <1>7
<1>9. PICK i \in 0 .. n - 1 : /\ i = FindStop(t, k) /\ stops(i)
                              /\ \A m \in 0 .. i - 1 : ~stops(m)
  BY <1>4, <1>8
<1>10. t.hash[Probe(h, n, i)] = 0 /\ \A m \in 0 .. i - 1 : t.hash[Probe(h, n, m)] # 0
  BY <1>1, <1>3, <1>9
<1>11. Find(t, k) = -1
  BY <1>1, <1>2, <1>9, <1>10 DEF Find
<1> QED
  BY <1>2, <1>9, <1>10, <1>11

-----------------------------------------------------------------------------
(* Rebuilding an index. *)

(* The tombstones of an index, and the slots in use.                       *)
Graves(t) == {s \in SlotsOf(t) : t.index[s] = DELETED}
InUse(t) == {s \in SlotsOf(t) : t.index[s] >= 0}

(* There are as many slots in use as entries.                              *)
LEMMA InUseCounted ==
  ASSUME NEW t, NEW n, NEW its, NEW E, Table(t, n, its, E)
  PROVE  /\ IsFiniteSet(InUse(t)) /\ IsFiniteSet(E)
         /\ Cardinality(InUse(t)) = Cardinality(E)
<1> DEFINE f == [s \in InUse(t) |-> t.index[s]]
<1>1. t.slots = n /\ n \in Nat /\ E \subseteq 0 .. Len(its) - 1 /\ Len(its) \in Nat
  BY TableIs
<1>2. IsFiniteSet(E)
  <2>1. IsFiniteSet(0 .. Len(its) - 1)
    BY <1>1, FS_Interval
  <2> QED
    BY <1>1, <2>1, FS_Subset
<1>3. \A s : s \in InUse(t) <=> s \in 0 .. n - 1 /\ t.index[s] \in E
  BY <1>1, SlotIs DEF InUse, SlotsOf
<1>4. f \in [InUse(t) -> E] /\ \A s \in InUse(t) : f[s] = t.index[s]
  BY <1>3
<1> HIDE DEF f
<1>5. \A r, s \in InUse(t) : f[r] = f[s] => r = s
  BY <1>3, <1>4, SlotIs
<1>6. \A e \in E : \E s \in InUse(t) : f[s] = e
  BY <1>3, <1>4, SlotIs
<1>7. f \in Injection(InUse(t), E) /\ f \in Surjection(InUse(t), E)
  BY <1>4, <1>5, <1>6 DEF Injection, Surjection, IsInjective
<1> QED
  BY <1>2, <1>7, FS_Injection

(* Entries and tombstones that are fewer than the slots leave one empty.   *)
LEMMA SomeEmpty ==
  ASSUME NEW t, NEW n, NEW its, NEW E, Table(t, n, its, E),
         Cardinality(E) + Cardinality(Graves(t)) < n
  PROVE  \E s \in 0 .. n - 1 : t.hash[s] = 0
<1> SUFFICES ASSUME \A s \in 0 .. n - 1 : t.hash[s] # 0 PROVE FALSE
  OBVIOUS
<1>1. t.slots = n /\ n \in Nat \ {0}
  BY TableIs
<1>2. IsFiniteSet(0 .. n - 1) /\ Cardinality(0 .. n - 1) = n
  BY <1>1, FS_Interval
<1>3. 0 .. n - 1 = InUse(t) \union Graves(t)
  BY <1>1, SlotIs DEF InUse, Graves, SlotsOf, DELETED
<1>4. IsFiniteSet(InUse(t)) /\ IsFiniteSet(Graves(t))
  BY <1>2, <1>3, FS_Subset
<1>5. InUse(t) \cap Graves(t) = {}
  BY DEF InUse, Graves, DELETED
<1>6. Cardinality(InUse(t)) + Cardinality(Graves(t)) = n
  <2>1. Cardinality(InUse(t)) \in Nat /\ Cardinality(Graves(t)) \in Nat
    BY <1>4, FS_CardinalityType
  <2>2. Cardinality(InUse(t) \cap Graves(t)) = 0
    BY <1>5, FS_EmptySet
  <2>3. Cardinality(InUse(t) \union Graves(t))
          = Cardinality(InUse(t)) + Cardinality(Graves(t)) - Cardinality(InUse(t) \cap Graves(t))
    BY <1>4, FS_Union
  <2>4. Cardinality(InUse(t) \union Graves(t)) = n
    BY <1>2, <1>3
  <2> QED
    BY <2>1, <2>2, <2>3, <2>4
<1> QED
  BY <1>1, <1>6, InUseCounted

(* Where a probe for h finds its first empty slot. *)
StopsAt(t, n, h, j) ==
  /\ j \in 0 .. n - 1 /\ t.hash[Probe(h, n, j)] = 0
  /\ \A m \in 0 .. j - 1 : t.hash[Probe(h, n, m)] # 0

(* If a slot is empty, a probe for any hash finds its first empty one.     *)
LEMMA FirstEmptyIs ==
  ASSUME NEW t, NEW n, NEW its, NEW E, Table(t, n, its, E), NEW h \in Nat,
         \E s \in 0 .. n - 1 : t.hash[s] = 0
  PROVE  StopsAt(t, n, h, FirstEmpty(h, t))
<1> DEFINE Stops == {i \in 0 .. n - 1 : t.hash[Probe(h, n, i)] = 0}
<1>1. n \in Nat \ {0} /\ t.slots = n /\ n \in Sizes
  BY TableIs
<1>2. Stops \subseteq Nat /\ Stops # {}
  <2>1. PICK s \in 0 .. n - 1 : t.hash[s] = 0
    OBVIOUS
  <2>2. PICK i \in 0 .. n - 1 : Probe(h, n, i) = s
    BY <1>1, ProbeReaches
  <2> QED
    BY <1>1, <2>1, <2>2
<1>3. PICK x \in Stops : \A y \in Stops : x <= y
  <2> HIDE DEF Stops
  <2> QED
    BY <1>2, LeastNatural
<1>4. x \in 0 .. n - 1 /\ t.hash[Probe(h, n, x)] = 0
      /\ \A m \in 0 .. x - 1 : t.hash[Probe(h, n, m)] # 0
  BY <1>1, <1>3
<1> QED
  BY <1>1, <1>4 DEF FirstEmpty, StopsAt

(* One round of the loops of stbds_make_hash_index over the old index.     *)
Copied(t, m, c) ==
  [i \in 0 .. t.slots |->
     IF i = 0 THEN Empty(m, t.mode, t.arena)
     ELSE IF t.index[i - 1] < 0 THEN c[i - 1]
     ELSE Fill(c[i - 1], Probe(t.hash[i - 1], m, FirstEmpty(t.hash[i - 1], c[i - 1])),
               t.hash[i - 1], t.index[i - 1])]

(* What the loops compute, given the one function that satisfies them.     *)
LEMMA RehashIs ==
  ASSUME NEW t, NEW m, NEW f, f = Copied(t, m, f), \A g : g = Copied(t, m, g) => g = f
  PROVE  Rehash(t, m) = [f[t.slots] EXCEPT !.used = t.used]
<1> DEFINE c == CHOOSE g : g = Copied(t, m, g)
<1>1. c = f
  OBVIOUS
<1>2. Rehash(t, m) = [c[t.slots] EXCEPT !.used = t.used]
  BY DEF Rehash, Copied
<1> QED
  BY <1>1, <1>2

(* Filling a slot keeps the type of an index.                              *)
LEMMA FillType ==
  ASSUME NEW m, NEW t \in Tables(m), NEW slot, NEW h \in Nat, NEW e \in Int
  PROVE  Fill(t, slot, h, e) \in Tables(m)
<1>1. t.hash \in [0 .. m - 1 -> Nat] /\ t.index \in [0 .. m - 1 -> Int]
  BY DEF Tables
<1>2. PICK hs \in [0 .. m - 1 -> Nat], is \in [0 .. m - 1 -> Int] :
        Fill(t, slot, h, e) = [t EXCEPT !.hash = hs, !.index = is]
  <2>1. Fill(t, slot, h, e) = [t EXCEPT !.hash = [t.hash EXCEPT ![slot] = h],
                                        !.index = [t.index EXCEPT ![slot] = e]]
    BY DEF Fill
  <2> QED
    BY <1>1, <2>1, Updated
<1> QED
  BY <1>2 DEF Tables

(* A rebuilt index is in front of the same entries, and has no tombstone.  *)
LEMMA RehashTable ==
  ASSUME NEW t, NEW n, NEW its, NEW E, Table(t, n, its, E), NEW m \in Sizes,
         Cardinality(E) < m
  PROVE  LET r == Rehash(t, m)
         IN  /\ Table(r, m, its, E) /\ Graves(r) = {}
             /\ r.used = t.used /\ r.tombs = 0 /\ r.mode = t.mode /\ r.arena = t.arena
<1> DEFINE S == Tables(m)
           c == Empty(m, t.mode, t.arena)
           G == [i \in 1 .. n |-> [x \in S |->
                  IF t.index[i - 1] < 0 THEN x
                  ELSE Fill(x, Probe(t.hash[i - 1], m, FirstEmpty(t.hash[i - 1], x)),
                            t.hash[i - 1], t.index[i - 1])]]
           Upto(i) == {e \in E : \E j \in 0 .. i - 1 : t.index[j] = e}
<1>1. /\ n \in Nat \ {0} /\ t.slots = n /\ t \in Tables(n)
      /\ t.hash \in [0 .. n - 1 -> Nat] /\ t.index \in [0 .. n - 1 -> Int]
      /\ its \in Seq(Entries) /\ E \subseteq 0 .. Len(its) - 1
  BY TableIs
<1>2. t.mode \in Modes /\ t.arena \in Arenas
  BY <1>1 DEF Tables
<1>3. Table(c, m, its, {}) /\ Graves(c) = {} /\ c.mode = t.mode /\ c.arena = t.arena /\ c.tombs = 0
  <2>1. Table(c, m, its, {})
    BY <1>1, <1>2, EmptyTable
  <2> QED
    BY <2>1 DEF Empty, Graves, SlotsOf, DELETED, EMPTY
<1>4. c \in S
  BY <1>3 DEF Table
<1>5. G \in [1 .. n -> [S -> S]]
  <2>1. ASSUME NEW i \in 1 .. n, NEW x \in S, NEW slot
        PROVE  Fill(x, slot, t.hash[i - 1], t.index[i - 1]) \in S
    <3>1. t.hash[i - 1] \in Nat /\ t.index[i - 1] \in Int
      BY <1>1
    <3> QED
      BY <3>1, FillType
  <2> HIDE DEF S
  <2> QED
    BY <2>1
<1>6. PICK f \in [0 .. n -> S] : f[0] = c /\ \A i \in 1 .. n : f[i] = G[i][f[i - 1]]
  <2> HIDE DEF S, c, G
  <2>1. n \in Nat
    BY <1>1
  <2>2. PICK f : Steps(f, n, S, c, G)
    BY <1>4, <1>5, <2>1, Recursion
  <2> QED
    BY <2>2 DEF Steps
<1>7. ASSUME NEW i \in 1 .. n
      PROVE  f[i] = IF t.index[i - 1] < 0 THEN f[i - 1]
                    ELSE Fill(f[i - 1],
                              Probe(t.hash[i - 1], m, FirstEmpty(t.hash[i - 1], f[i - 1])),
                              t.hash[i - 1], t.index[i - 1])
  <2>1. f[i - 1] \in S /\ f[i] = G[i][f[i - 1]]
    <3>1. i - 1 \in 0 .. n
      BY <1>1
    <3> HIDE DEF S, G, c
    <3> QED
      BY <1>6, <3>1
  <2> HIDE DEF S
  <2> QED
    BY <2>1
<1>8. f = Copied(t, m, f)
  <2>1. DOMAIN f = 0 .. n /\ f = [i \in 0 .. n |-> f[i]]
    BY <1>6
  <2>2. ASSUME NEW i \in 0 .. n PROVE f[i] = Copied(t, m, f)[i]
    <3>1. CASE i = 0
      BY <1>1, <1>6, <3>1 DEF Copied
    <3>2. CASE i \in 1 .. n
      BY <1>1, <1>7, <3>2 DEF Copied
    <3> QED
      BY <1>1, <3>1, <3>2
  <2>3. Copied(t, m, f) = [i \in 0 .. n |-> Copied(t, m, f)[i]]
    BY <1>1 DEF Copied
  <2> QED
    BY <2>1, <2>2, <2>3
<1> HIDE DEF c, G, S
<1>9. ASSUME NEW g, g = Copied(t, m, g) PROVE g = f
  <2> DEFINE Same == {i \in Nat : i <= n => g[i] = f[i]}
  <2>1. g = [i \in 0 .. n |-> g[i]]
    BY <1>1, <1>9 DEF Copied
  <2>2. 0 \in Same
    BY <1>1, <1>6, <1>9 DEF Copied, c
  <2>3. ASSUME NEW i \in Nat, i \in Same PROVE i + 1 \in Same
    <3> SUFFICES ASSUME i + 1 <= n PROVE g[i + 1] = f[i + 1]
      OBVIOUS
    <3>1. i + 1 \in 0 .. n /\ i + 1 # 0 /\ (i + 1) - 1 = i /\ g[i] = f[i] /\ i + 1 \in 1 .. n
      BY <1>1, <2>3
    <3>2. g[i + 1] = IF t.index[i] < 0 THEN g[i]
                     ELSE Fill(g[i], Probe(t.hash[i], m, FirstEmpty(t.hash[i], g[i])),
                               t.hash[i], t.index[i])
      BY <1>1, <1>9, <3>1 DEF Copied
    <3>3. f[i + 1] = IF t.index[i] < 0 THEN f[i]
                     ELSE Fill(f[i], Probe(t.hash[i], m, FirstEmpty(t.hash[i], f[i])),
                               t.hash[i], t.index[i])
      BY <1>7, <3>1
    <3> QED
      BY <3>1, <3>2, <3>3
  <2>4. Nat \subseteq Same
    <3> HIDE DEF Same
    <3> QED
      BY <2>2, <2>3, Induction
  <2>5. \A i \in 0 .. n : g[i] = f[i]
    BY <1>1, <2>4
  <2>6. f = [i \in 0 .. n |-> f[i]]
    BY <1>6
  <2> QED
    BY <2>1, <2>5, <2>6
<1>10. Rehash(t, m) = [f[n] EXCEPT !.used = t.used]
  BY <1>1, <1>8, <1>9, RehashIs
<1> DEFINE Good(i) == /\ Table(f[i], m, its, Upto(i)) /\ Graves(f[i]) = {}
                      /\ f[i].mode = t.mode /\ f[i].arena = t.arena /\ f[i].tombs = 0
           Goods == {i \in Nat : i <= n => Good(i)}
<1>11. 0 \in Goods
  <2>1. Upto(0) = {}
    OBVIOUS
  <2> HIDE DEF Upto
  <2> QED
    BY <1>3, <1>6, <2>1
<1>12. ASSUME NEW i \in Nat, i \in Goods PROVE i + 1 \in Goods
  <2> SUFFICES ASSUME i + 1 <= n PROVE Good(i + 1)
    <3> HIDE DEF Good
    <3> QED
      OBVIOUS
  <2>0. i \in 0 .. n - 1 /\ i + 1 \in 1 .. n /\ (i + 1) - 1 = i
        /\ \A j \in 0 .. i - 1 : j \in 0 .. n - 1 /\ j # i
    BY <1>1
  <2>1. i \in 0 .. n - 1 /\ i + 1 \in 1 .. n /\ (i + 1) - 1 = i /\ Good(i)
    BY <1>1, <1>12, <2>0
  <2>2. f[i + 1] = IF t.index[i] < 0 THEN f[i]
                   ELSE Fill(f[i], Probe(t.hash[i], m, FirstEmpty(t.hash[i], f[i])),
                             t.hash[i], t.index[i])
    BY <1>7, <2>1
  <2>3. 0 .. (i + 1) - 1 = (0 .. i - 1) \union {i}
    BY <2>0
  <2>4. CASE t.index[i] < 0
    <3>1. t.index[i] \notin E
      BY <1>1, <2>4
    <3>2. Upto(i + 1) = Upto(i)
      BY <2>3, <3>1
    <3> HIDE DEF Upto
    <3> QED
      BY <2>1, <2>2, <2>4, <3>2
  <2>5. CASE ~ (t.index[i] < 0)
    <3>1. PICK e, h : e = t.index[i] /\ h = t.hash[i]
      OBVIOUS
    <3>2. e \in E /\ h = HashOf(its[e + 1].key) /\ h \in Nat
      <4>1. h \in Nat /\ e \in Int /\ e >= 0
        BY <1>1, <2>0, <2>5, <3>1
      <4>2. e \in E
        BY <2>0, <3>1, <4>1, SlotIs
      <4> QED
        BY <2>0, <3>1, <4>1, <4>2, SlotIs
    <3>3. e \notin Upto(i)
      <4> SUFFICES ASSUME NEW j \in 0 .. i - 1, t.index[j] = e PROVE FALSE
        BY <3>1
      <4>1. j \in 0 .. n - 1 /\ j # i
        BY <2>0
      <4> QED
        BY <2>0, <3>1, <3>2, <4>1, SlotIs
    <3>4. Upto(i + 1) = Upto(i) \union {e} /\ Upto(i) \subseteq E
      BY <2>3, <3>1, <3>2
    <3> HIDE DEF Upto
    <3>5. Cardinality(Upto(i)) + Cardinality(Graves(f[i])) < m
      <4>1. IsFiniteSet(E)
        BY InUseCounted
      <4>2. Cardinality(Upto(i)) <= Cardinality(E) /\ Cardinality(Upto(i)) \in Nat
            /\ Cardinality(E) \in Nat
        BY <3>4, <4>1, FS_Subset, FS_CardinalityType
      <4>3. Cardinality(Graves(f[i])) = 0
        BY <2>1, FS_EmptySet
      <4>4. m \in Nat
        BY SizesPositive
      <4> QED
        BY <4>2, <4>3, <4>4
    <3>6. \E s \in 0 .. m - 1 : f[i].hash[s] = 0
      BY <2>1, <3>5, SomeEmpty
    <3>7. PICK j \in 0 .. m - 1 :
            /\ j = FirstEmpty(h, f[i]) /\ f[i].hash[Probe(h, m, j)] = 0
            /\ \A k \in 0 .. j - 1 : f[i].hash[Probe(h, m, k)] # 0
      <4>1. Table(f[i], m, its, Upto(i)) /\ h \in Nat
        BY <2>1, <3>2
      <4>2. StopsAt(f[i], m, h, FirstEmpty(h, f[i]))
        BY <3>6, <4>1, FirstEmptyIs
      <4> QED
        BY <4>2 DEF StopsAt
    <3>8. PICK slot \in 0 .. m - 1 : slot = Probe(h, m, j)
      BY <3>2, ProbeInside
    <3>9. f[i + 1] = Fill(f[i], slot, h, e)
      BY <2>2, <2>5, <3>1, <3>7, <3>8
    <3>10. f[i].index[slot] = -1
      BY <2>1, <3>7, <3>8, SlotIs
    <3>11. e \in (0 .. Len(its) - 1) \ Upto(i)
      BY <1>1, <3>2, <3>3
    <3>12. Table(f[i + 1], m, its, Upto(i + 1))
      <4>1. f[i].index[slot] < 0 /\ Table(f[i], m, its, Upto(i))
        BY <2>1, <3>10
      <4>2. \A k \in 0 .. j - 1 : f[i].hash[Probe(h, m, k)] # 0
        BY <3>7
      <4>3. Table(Fill(f[i], slot, h, e), m, its, Upto(i) \union {e})
        BY <3>2, <3>8, <3>11, <4>1, <4>2, FillTable
      <4> QED
        BY <3>4, <3>9, <4>3
    <3>13. /\ f[i + 1].mode = t.mode /\ f[i + 1].arena = t.arena /\ f[i + 1].tombs = 0
      <4>1. f[i] \in Tables(m)
        BY <2>1, TableIs
      <4> QED
        BY <2>1, <3>9, <4>1 DEF Fill, Tables
    <3>14. Graves(f[i + 1]) = {}
      <4>1. f[i] \in Tables(m) /\ f[i].index \in [0 .. m - 1 -> Int] /\ f[i].slots = m
        BY <2>1, TableIs
      <4>2. f[i + 1].index = [f[i].index EXCEPT ![slot] = e] /\ f[i + 1].slots = m
        BY <3>9, <4>1 DEF Fill, Tables
      <4>3. e # DELETED
        BY <2>5, <3>1 DEF DELETED
      <4>4. \A s \in 0 .. m - 1 : f[i].index[s] # DELETED
        BY <2>1, <4>1 DEF Graves, SlotsOf
      <4> QED
        BY <4>1, <4>2, <4>3, <4>4 DEF Graves, SlotsOf
    <3> QED
      BY <3>12, <3>13, <3>14
  <2> QED
    BY <2>4, <2>5
<1>13. Good(n)
  <2>1. Nat \subseteq Goods
    <3> HIDE DEF Goods
    <3> QED
      BY <1>11, <1>12, Induction
  <2> HIDE DEF Good
  <2>2. n \in Nat /\ n <= n /\ n \in Goods
    BY <1>1, <2>1
  <2> QED
    BY <2>2
<1>14. Upto(n) = E
  BY SlotIs
<1>15. PICK x : x = f[n] /\ Table(x, m, its, E) /\ Graves(x) = {} /\ x.mode = t.mode
                 /\ x.arena = t.arena /\ x.tombs = 0
  <2> HIDE DEF Upto
  <2> QED
    BY <1>13, <1>14
<1>16. PICK r : r = Rehash(t, m) /\ r = [x EXCEPT !.used = t.used]
  BY <1>10, <1>15
<1>17. x \in Tables(m) /\ t.used \in Int /\ m \in Sizes
  BY <1>1, <1>15, TableIs DEF Tables
<1>18. /\ r \in Tables(m) /\ r.slots = x.slots /\ r.hash = x.hash /\ r.index = x.index
       /\ r.used = t.used /\ r.tombs = x.tombs /\ r.mode = x.mode /\ r.arena = x.arena
  BY <1>16, <1>17 DEF Tables
<1>19. Table(r, m, its, E) /\ Graves(r) = {}
  BY <1>15, <1>18 DEF Table, Linked, Reached, Graves, SlotsOf
<1> QED
  BY <1>15, <1>16, <1>18, <1>19

-----------------------------------------------------------------------------
(* Changing the slots of an index. *)

(* An index is as good in front of entries with the same keys.             *)
LEMMA AgreeTable ==
  ASSUME NEW t, NEW n, NEW its, NEW E, Table(t, n, its, E), NEW its2 \in Seq(Entries),
         E \subseteq 0 .. Len(its2) - 1, \A e \in E : its2[e + 1].key = its[e + 1].key
  PROVE  Table(t, n, its2, E)
<1>1. t.slots = n
  BY TableIs
<1>2. ASSUME NEW s \in 0 .. n - 1, t.index[s] >= 0
      PROVE  t.hash[s] = HashOf(its2[t.index[s] + 1].key)
  <2>1. t.index[s] \in E
    BY <1>2, SlotIs
  <2>2. t.hash[s] = HashOf(its[t.index[s] + 1].key)
    BY <2>1, SlotIs
  <2> QED
    BY <2>1, <2>2
<1>3. Linked(t, its2, E)
  BY <1>1, <1>2 DEF Table, Linked, SlotsOf
<1> QED
  BY <1>3 DEF Table

(* The counters, the arena and temp_key do not matter to the slots.        *)
LEMMA CountersTable ==
  ASSUME NEW t, NEW n, NEW its, NEW E, Table(t, n, its, E), NEW u \in Tables(n),
         u.hash = t.hash, u.index = t.index
  PROVE  Table(u, n, its, E) /\ Graves(u) = Graves(t)
<1>1. t.slots = n /\ u.slots = n
  BY TableIs DEF Tables
<1>2. SlotsOf(u) = SlotsOf(t)
  BY <1>1 DEF SlotsOf
<1>3. Linked(u, its, E)
  BY <1>2 DEF Table, Linked
<1>4. Reached(u)
  BY <1>1, <1>2 DEF Table, Reached
<1>5. Graves(u) = Graves(t)
  BY <1>2 DEF Graves
<1> QED
  BY <1>3, <1>4, <1>5 DEF Table

(* A slot that is not in use any more keeps the probes that pass it going. *)
LEMMA RemoveTable ==
  ASSUME NEW t, NEW n, NEW its, NEW E, Table(t, n, its, E), NEW slot \in 0 .. n - 1,
         t.index[slot] \in E, NEW u \in Tables(n),
         u.hash = [t.hash EXCEPT ![slot] = 1], u.index = [t.index EXCEPT ![slot] = DELETED]
  PROVE  Table(u, n, its, E \ {t.index[slot]})
<1> DEFINE F == E \ {t.index[slot]}
<1>1. n \in Sizes /\ n \in Nat \ {0} /\ t.slots = n /\ u.slots = n
      /\ t.hash \in [0 .. n - 1 -> Nat] /\ t.index \in [0 .. n - 1 -> Int]
      /\ its \in Seq(Entries) /\ E \subseteq 0 .. Len(its) - 1 /\ \A x \in E : x \in Nat
  BY TableIs DEF Tables
<1>2. /\ u.index[slot] = -2 /\ u.hash[slot] = 1
      /\ \A s \in 0 .. n - 1 : s # slot => u.index[s] = t.index[s] /\ u.hash[s] = t.hash[s]
  BY <1>1 DEF DELETED
<1>3. ASSUME NEW s \in 0 .. n - 1
      PROVE  /\ u.index[s] \in {-1, -2} \union F
             /\ u.hash[s] = 0 <=> u.index[s] = -1
             /\ u.index[s] = -2 => u.hash[s] = 1
             /\ u.index[s] >= 0 => u.hash[s] = HashOf(its[u.index[s] + 1].key)
  <2>1. CASE s = slot
    BY <1>2, <2>1
  <2>2. CASE s # slot
    <3>1. u.index[s] = t.index[s] /\ u.hash[s] = t.hash[s]
      BY <1>2, <2>2
    <3>2. t.index[s] \notin E \/ t.index[s] \in F
      BY <2>2, SlotIs
    <3>3. /\ t.index[s] \in {-1, -2} \union E
          /\ t.hash[s] = 0 <=> t.index[s] = -1
          /\ t.index[s] = -2 => t.hash[s] = 1
          /\ t.index[s] >= 0 => t.hash[s] = HashOf(its[t.index[s] + 1].key)
      BY SlotIs
    <3> HIDE DEF F
    <3> QED
      BY <3>1, <3>2, <3>3
  <2> QED
    BY <2>1, <2>2
<1>4. ASSUME NEW r \in 0 .. n - 1, NEW s \in 0 .. n - 1, u.index[r] >= 0, u.index[r] = u.index[s]
      PROVE  r = s
  <2>1. r # slot /\ s # slot
    BY <1>2, <1>4
  <2>2. u.index[r] = t.index[r] /\ u.index[s] = t.index[s]
    BY <1>2, <2>1
  <2>3. t.index[r] \in E /\ t.index[r] = t.index[s]
    BY <1>4, <2>2, SlotIs
  <2> QED
    BY <2>3, SlotIs
<1>5. ASSUME NEW x \in F PROVE \E s \in 0 .. n - 1 : u.index[s] = x
  <2>1. PICK s \in 0 .. n - 1 : t.index[s] = x
    BY SlotIs
  <2>2. s # slot
    BY <2>1
  <2> QED
    BY <1>2, <2>1, <2>2
<1>6. Linked(u, its, F)
  <2> HIDE DEF F
  <2> QED
    BY <1>1, <1>3, <1>4, <1>5 DEF Linked, SlotsOf, EMPTY, DELETED
<1>7. Reached(u)
  <2> SUFFICES ASSUME NEW s \in 0 .. n - 1, NEW i \in 0 .. n - 1, u.index[s] >= 0,
                      Probe(u.hash[s], n, i) = s, NEW m \in 0 .. i - 1
               PROVE  u.hash[Probe(u.hash[s], n, m)] # 0
    BY <1>1 DEF Reached, SlotsOf
  <2>1. s # slot
    BY <1>2
  <2>2. u.hash[s] = t.hash[s] /\ u.index[s] = t.index[s] /\ t.hash[s] \in Nat
    BY <1>1, <1>2, <2>1
  <2>3. m \in 0 .. n - 1 /\ t.index[s] \in E
    BY <1>1, <2>2, SlotIs
  <2>4. PICK r \in 0 .. n - 1 : r = Probe(t.hash[s], n, m)
    BY <1>1, <2>2, <2>3, ProbeInside
  <2>5. t.hash[r] # 0
    BY <2>2, <2>3, <2>4, ReachedIs
  <2> QED
    BY <1>2, <2>2, <2>4, <2>5
<1>8. F \subseteq 0 .. Len(its) - 1
  BY <1>1
<1> QED
  BY <1>1, <1>6, <1>7, <1>8 DEF Table

(* The entry that a slot is of gets another number. *)
LEMMA RelinkTable ==
  ASSUME NEW t, NEW n, NEW its, NEW E, Table(t, n, its, E), NEW slot \in 0 .. n - 1,
         t.index[slot] \in E, NEW its2 \in Seq(Entries), NEW new \in (0 .. Len(its2) - 1) \ E,
         E \ {t.index[slot]} \subseteq 0 .. Len(its2) - 1,
         \A e \in E \ {t.index[slot]} : its2[e + 1].key = its[e + 1].key,
         its2[new + 1].key = its[t.index[slot] + 1].key,
         NEW u \in Tables(n), u.hash = t.hash, u.index = [t.index EXCEPT ![slot] = new]
  PROVE  Table(u, n, its2, (E \ {t.index[slot]}) \union {new})
<1> DEFINE F == (E \ {t.index[slot]}) \union {new}
<1>1. n \in Sizes /\ n \in Nat \ {0} /\ t.slots = n /\ u.slots = n
      /\ t.hash \in [0 .. n - 1 -> Nat] /\ t.index \in [0 .. n - 1 -> Int]
      /\ \A x \in E : x \in Nat
  BY TableIs DEF Tables
<1>0. new \in Nat
  BY SMT
<1>2. /\ u.index[slot] = new
      /\ \A s \in 0 .. n - 1 : s # slot => u.index[s] = t.index[s]
  BY <1>1
<1>3. ASSUME NEW s \in 0 .. n - 1
      PROVE  /\ u.index[s] \in {-1, -2} \union F
             /\ u.hash[s] = 0 <=> u.index[s] = -1
             /\ u.index[s] = -2 => u.hash[s] = 1
             /\ u.index[s] >= 0 => u.hash[s] = HashOf(its2[u.index[s] + 1].key)
             /\ u.index[s] >= 0 <=> t.index[s] >= 0
  <2>1. CASE s = slot
    <3>0. t.index[slot] \in Nat
      BY <1>1
    <3>1. t.index[slot] >= 0 /\ u.hash[slot] = HashOf(its[t.index[slot] + 1].key)
      <4>1. t.hash[slot] = HashOf(its[t.index[slot] + 1].key)
        BY SlotIs
      <4>2. u.hash[slot] = t.hash[slot]
        OBVIOUS
      <4> QED
        BY <3>0, <4>1, <4>2
    <3>2. u.hash[slot] # 0
      BY <1>1, <3>1, SlotIs
    <3> QED
      BY <1>0, <1>2, <2>1, <3>1, <3>2
  <2>2. CASE s # slot
    <3>1. u.index[s] = t.index[s] /\ u.hash[s] = t.hash[s]
      BY <1>2, <2>2
    <3>2. t.index[s] \notin E \/ t.index[s] \in E \ {t.index[slot]}
      BY <2>2, SlotIs
    <3>3. /\ t.index[s] \in {-1, -2} \union E
          /\ t.hash[s] = 0 <=> t.index[s] = -1
          /\ t.index[s] = -2 => t.hash[s] = 1
          /\ t.index[s] >= 0 => t.hash[s] = HashOf(its[t.index[s] + 1].key)
          /\ t.index[s] >= 0 <=> t.index[s] \in E
      BY SlotIs
    <3>4. t.index[s] \in {-1, -2} \union F
      BY <3>2, <3>3
    <3>5. t.index[s] >= 0 => t.hash[s] = HashOf(its2[t.index[s] + 1].key)
      BY <3>2, <3>3
    <3> HIDE DEF F
    <3> QED
      BY <3>1, <3>3, <3>4, <3>5
  <2> QED
    BY <2>1, <2>2
<1>4. ASSUME NEW r \in 0 .. n - 1, NEW s \in 0 .. n - 1, u.index[r] >= 0, u.index[r] = u.index[s]
      PROVE  r = s
  <2>1. t.index[r] \in E /\ t.index[s] \in E
    BY <1>3, <1>4, SlotIs
  <2>2. CASE r = slot \/ s = slot
    BY <1>2, <1>4, <2>1, <2>2
  <2>3. CASE r # slot /\ s # slot
    <3>1. t.index[r] = t.index[s]
      BY <1>2, <1>4, <2>3
    <3> QED
      BY <2>1, <3>1, SlotIs
  <2> QED
    BY <2>2, <2>3
<1>5. ASSUME NEW x \in F PROVE \E s \in 0 .. n - 1 : u.index[s] = x
  <2>1. CASE x = new
    BY <1>2, <2>1
  <2>2. CASE x \in E \ {t.index[slot]}
    <3>1. PICK s \in 0 .. n - 1 : t.index[s] = x
      BY <2>2, SlotIs
    <3>2. s # slot
      BY <2>2, <3>1
    <3> QED
      BY <1>2, <3>1, <3>2
  <2> QED
    BY <2>1, <2>2
<1>6. Linked(u, its2, F)
  <2> HIDE DEF F
  <2> QED
    BY <1>1, <1>3, <1>4, <1>5 DEF Linked, SlotsOf, EMPTY, DELETED
<1>7. Reached(u)
  <2> SUFFICES ASSUME NEW s \in 0 .. n - 1, NEW i \in 0 .. n - 1, u.index[s] >= 0,
                      Probe(t.hash[s], n, i) = s, NEW m \in 0 .. i - 1
               PROVE  t.hash[Probe(t.hash[s], n, m)] # 0
    BY <1>1 DEF Reached, SlotsOf
  <2>1. t.index[s] \in E
    BY <1>3, SlotIs
  <2> QED
    BY <2>1, ReachedIs
<1>8. F \subseteq 0 .. Len(its2) - 1
  OBVIOUS
<1> QED
  BY <1>1, <1>6, <1>7, <1>8 DEF Table

-----------------------------------------------------------------------------
(* The counters, and the limits of an index. *)

(* An index in front of the entries its: its counters count, and neither   *)
(* is beyond its limit.                                                    *)
Sound(t, its) ==
  /\ Table(t, t.slots, its, 0 .. Len(its) - 1)
  /\ t.used = Len(its) /\ t.used <= UsedMax(t.slots)
  /\ t.tombs = Cardinality(Graves(t)) /\ t.tombs <= TombsMax(t.slots)

(* There is room for one more entry.                                       *)
Ready(t, its) == Sound(t, its) /\ t.used < UsedMax(t.slots)

(* The mode and the arena have not changed.                                *)
Kept(u, t) == u.mode = t.mode /\ u.arena = t.arena

(* What the limits of an index are; twice as many slots make room.         *)
LEMMA Doubling ==
  ASSUME NEW n \in Sizes
  PROVE  /\ n \in Nat \ {0} /\ 2 * n \in Sizes
         /\ UsedMax(n) \in Nat /\ TombsMax(n) \in Nat /\ ShrinkAt(n) \in Nat
         /\ UsedMax(n) >= 1 /\ UsedMax(2 * n) > UsedMax(n)
         /\ UsedMax(n) + TombsMax(n) < n
<1>1. PICK p \in Powers : n = B * p
  BY DEF Sizes
<1>2. p \in Nat \ {0} /\ 2 * p \in Powers /\ B \in {4, 8}
  BY <1>1, PowersPositive, PowersClosed, ConstantsAssumption
<1>3. 2 * n = B * (2 * p)
  BY <1>1, <1>2
<1>4. PICK q \in Nat \ {0} : n = 4 * q
  <2>1. CASE B = 4
    BY <1>1, <1>2, <2>1
  <2>2. CASE B = 8
    <3>1. n = 4 * (2 * p) /\ 2 * p \in Nat \ {0}
      BY <1>1, <1>2, <2>2
    <3> QED
      BY <3>1
  <2> QED
    BY <1>2, <2>1, <2>2
<1>5. n \div 4 = q /\ (2 * n) \div 4 = 2 * q /\ n \div 8 \in Nat /\ n \div 16 \in Nat
      /\ 8 * (n \div 8) <= n /\ 16 * (n \div 16) <= n
  BY <1>4
<1>6. UsedMax(n) = 3 * q /\ UsedMax(2 * n) = 6 * q /\ TombsMax(n) < q /\ TombsMax(n) \in Nat
  BY <1>4, <1>5 DEF UsedMax, TombsMax
<1>7. ShrinkAt(n) \in Nat
  BY <1>5 DEF ShrinkAt
<1>8. 2 * n \in Sizes
  BY <1>2, <1>3 DEF Sizes
<1> QED
  BY <1>4, <1>6, <1>7, <1>8

(* An index that shrinks has room in half as many slots.                   *)
LEMMA Halving ==
  ASSUME NEW n \in Sizes, NEW used \in Nat, used < ShrinkAt(n)
  PROVE  n \div 2 \in Sizes /\ used < UsedMax(n \div 2) /\ used < n \div 2
<1>1. PICK p \in Powers : n = B * p
  BY DEF Sizes
<1>2. p \in Nat \ {0} /\ B \in {4, 8} /\ p # 1
  BY <1>1, PowersPositive, ConstantsAssumption DEF ShrinkAt
<1>3. PICK q \in Powers : p = 2 * q
  BY <1>2, PowersHalved
<1>4. q \in Nat \ {0}
  BY <1>3, PowersPositive
<1>5. n = 2 * (B * q)
  BY <1>1, <1>2, <1>3, <1>4
<1>6. n \div 2 = B * q /\ B * q \in Nat
  BY <1>2, <1>4, <1>5
<1>7. n \div 2 \in Sizes
  BY <1>6 DEF Sizes
<1>8. PICK m \in Nat : m = n \div 2 /\ n = 2 * m
  BY <1>5, <1>6
<1>9. used < n \div 4
  BY <1>2, <1>4, <1>5 DEF ShrinkAt
<1>10. 2 * used < m
  BY <1>8, <1>9
<1>11. used < m - (m \div 4)
  BY <1>8, <1>10
<1> QED
  BY <1>7, <1>8, <1>10, <1>11 DEF UsedMax

(* There are n naturals below n.                                           *)
LEMMA Below ==
  ASSUME NEW n \in Nat
  PROVE  Cardinality(0 .. n - 1) = n
<1>1. n - 1 \in Int /\ 0 \in Int
  OBVIOUS
<1>2. Cardinality(0 .. n - 1) = IF 0 > n - 1 THEN 0 ELSE (n - 1) - 0 + 1
  BY <1>1, FS_Interval
<1> QED
  BY <1>2

(* What an index with true counters is made of.                            *)
LEMMA SoundIs ==
  ASSUME NEW t, NEW its, Sound(t, its)
  PROVE  /\ t.slots \in Sizes /\ t.slots \in Nat \ {0} /\ t \in Tables(t.slots)
         /\ t.hash \in [0 .. t.slots - 1 -> Nat] /\ t.index \in [0 .. t.slots - 1 -> Int]
         /\ its \in Seq(Entries) /\ Len(its) \in Nat
         /\ IsFiniteSet(Graves(t)) /\ Cardinality(Graves(t)) \in Nat
         /\ Cardinality(0 .. Len(its) - 1) = Len(its)
<1>1. /\ t.slots \in Sizes /\ t.slots \in Nat \ {0} /\ t \in Tables(t.slots)
      /\ t.hash \in [0 .. t.slots - 1 -> Nat] /\ t.index \in [0 .. t.slots - 1 -> Int]
      /\ its \in Seq(Entries) /\ Len(its) \in Nat
  BY TableIs DEF Sound
<1>2. IsFiniteSet(Graves(t)) /\ Cardinality(Graves(t)) \in Nat
  <2>1. IsFiniteSet(0 .. t.slots - 1)
    BY <1>1, FS_Interval
  <2>2. Graves(t) \subseteq 0 .. t.slots - 1
    BY DEF Graves, SlotsOf
  <2> QED
    BY <2>1, <2>2, FS_Subset, FS_CardinalityType
<1>3. Cardinality(0 .. Len(its) - 1) = Len(its)
  BY <1>1, Below
<1> QED
  BY <1>1, <1>2, <1>3

(* An index with true counters has an empty slot (stb_ds.h:934).           *)
LEMMA SoundEmpty ==
  ASSUME NEW t, NEW its, Sound(t, its)
  PROVE  \E s \in 0 .. t.slots - 1 : t.hash[s] = 0
<1>1. Cardinality(0 .. Len(its) - 1) + Cardinality(Graves(t)) < t.slots
  <2>1. t.slots \in Sizes /\ t.slots \in Nat /\ Len(its) \in Nat
        /\ Cardinality(0 .. Len(its) - 1) = Len(its) /\ Cardinality(Graves(t)) \in Nat
    BY SoundIs
  <2>2. UsedMax(t.slots) + TombsMax(t.slots) < t.slots
        /\ UsedMax(t.slots) \in Nat /\ TombsMax(t.slots) \in Nat
    BY <2>1, Doubling
  <2>3. Len(its) <= UsedMax(t.slots) /\ Cardinality(Graves(t)) <= TombsMax(t.slots)
    BY DEF Sound
  <2> QED
    BY <2>1, <2>2, <2>3
<1> QED
  BY <1>1, SomeEmpty DEF Sound

(* A rebuilt index has true counters.                                      *)
LEMMA RehashSound ==
  ASSUME NEW t, NEW its, NEW n, Table(t, n, its, 0 .. Len(its) - 1), t.used = Len(its),
         NEW m \in Sizes, Len(its) < m, Len(its) <= UsedMax(m)
  PROVE  Sound(Rehash(t, m), its) /\ Kept(Rehash(t, m), t) /\ Rehash(t, m).slots = m
<1>1. Len(its) \in Nat
  BY TableIs
<1>2. Cardinality(0 .. Len(its) - 1) = Len(its)
  BY <1>1, Below
<1>3. PICK r : r = Rehash(t, m)
  OBVIOUS
<1>4. /\ Table(r, m, its, 0 .. Len(its) - 1) /\ Graves(r) = {}
      /\ r.used = t.used /\ r.tombs = 0 /\ r.mode = t.mode /\ r.arena = t.arena
  BY <1>2, <1>3, RehashTable
<1>5. r.slots = m
  BY <1>4, TableIs
<1>6. Cardinality(Graves(r)) = 0
  BY <1>4, FS_EmptySet
<1>7. TombsMax(m) \in Nat
  BY Doubling
<1> QED
  BY <1>1, <1>3, <1>4, <1>5, <1>6, <1>7 DEF Sound, Kept

(* So has a new one, and it has room.                                      *)
LEMMA EmptySound ==
  ASSUME NEW n \in Sizes, NEW mode \in Modes, NEW arena \in Arenas
  PROVE  Ready(Empty(n, mode, arena), <<>>)
<1> DEFINE t == Empty(n, mode, arena)
<1>1. n \in Nat \ {0} /\ UsedMax(n) >= 1 /\ UsedMax(n) \in Nat /\ TombsMax(n) \in Nat
  BY Doubling
<1>2. <<>> \in Seq(Entries) /\ Len(<<>>) = 0 /\ 0 .. Len(<<>>) - 1 = {}
  OBVIOUS
<1>3. Table(t, n, <<>>, {})
  BY <1>2, EmptyTable
<1>4. t.slots = n /\ t.used = 0 /\ t.tombs = 0
  BY DEF Empty
<1>5. Graves(t) = {}
  BY <1>1 DEF Graves, SlotsOf, Empty, EMPTY, DELETED
<1>6. Cardinality(Graves(t)) = 0
  BY <1>5, FS_EmptySet
<1> HIDE DEF t
<1>7. Sound(t, <<>>)
  BY <1>1, <1>2, <1>3, <1>4, <1>6 DEF Sound
<1>8. Ready(t, <<>>)
  BY <1>1, <1>4, <1>7 DEF Ready
<1> QED
  BY <1>8 DEF t

(* The first index is one bucket.                                          *)
LEMMA FirstSize == B \in Sizes
<1>1. B = B * 1
  BY ConstantsAssumption
<1> QED
  BY <1>1, PowersClosed DEF Sizes

(* Before it probes, stbds_hmput_key has an index with room.               *)
LEMMA RoomyReady ==
  ASSUME NEW t, NEW its, Sound(t, its)
  PROVE  Ready(Roomy(t), its) /\ Kept(Roomy(t), t)
<1>1. t.slots \in Sizes /\ t.slots \in Nat \ {0} /\ Len(its) \in Nat
  BY SoundIs
<1>2. CASE t.used >= UsedMax(t.slots)
  <2>1. Roomy(t) = Rehash(t, 2 * t.slots)
    BY <1>1, <1>2 DEF Roomy
  <2>2. PICK m \in Sizes : m = 2 * t.slots /\ UsedMax(t.slots) < UsedMax(m)
                           /\ UsedMax(m) \in Nat /\ UsedMax(t.slots) \in Nat
    BY <1>1, Doubling
  <2>3. t.used = Len(its) /\ Len(its) <= UsedMax(t.slots) /\ Len(its) < UsedMax(m)
    BY <1>1, <2>2 DEF Sound
  <2>4. UsedMax(m) + TombsMax(m) < m /\ m \in Nat /\ TombsMax(m) \in Nat
    BY Doubling
  <2>5. Len(its) < m
    BY <1>1, <2>2, <2>3, <2>4
  <2>6. Sound(Rehash(t, m), its) /\ Kept(Rehash(t, m), t) /\ Rehash(t, m).slots = m
    <3>1. Table(t, t.slots, its, 0 .. Len(its) - 1)
      BY DEF Sound
    <3> QED
      BY <1>1, <2>2, <2>3, <2>5, <3>1, RehashSound
  <2>7. Rehash(t, m).used = Len(its)
    BY <2>6 DEF Sound
  <2> QED
    BY <2>1, <2>2, <2>3, <2>6, <2>7 DEF Ready
<1>3. CASE ~ (t.used >= UsedMax(t.slots))
  <2>1. Roomy(t) = t
    BY <1>1, <1>3 DEF Roomy
  <2>2. t.used < UsedMax(t.slots)
    BY <1>1, <1>3, Doubling DEF Sound
  <2> QED
    BY <2>1, <2>2 DEF Ready, Kept
<1> QED
  BY <1>2, <1>3

-----------------------------------------------------------------------------
(* A new key. *)

(* What Append gives.                                                      *)
LEMMA Appended ==
  ASSUME NEW its \in Seq(Entries), NEW e \in Entries
  PROVE  /\ Append(its, e) \in Seq(Entries) /\ Len(Append(its, e)) = Len(its) + 1
         /\ Append(its, e)[Len(its) + 1] = e
         /\ \A i \in 1 .. Len(its) : Append(its, e)[i] = its[i]
  OBVIOUS

(* A counter that is left alone keeps its value.                           *)
LEMMA SameTombs ==
  ASSUME NEW n, NEW t \in Tables(n), NEW used, NEW slot, NEW h, NEW i
  PROVE  [t EXCEPT !.used = used, !.hash[slot] = h, !.index[slot] = i]
           = [t EXCEPT !.used = used, !.tombs = t.tombs, !.hash[slot] = h, !.index[slot] = i]
<1>1. \A hs, is : [t EXCEPT !.used = used, !.hash = hs, !.index = is]
                  = [t EXCEPT !.used = used, !.tombs = t.tombs, !.hash = hs, !.index = is]
  BY DEF Tables
<1>2. [t EXCEPT !.used = used, !.hash[slot] = h, !.index[slot] = i]
        = [t EXCEPT !.used = used, !.hash = [t.hash EXCEPT ![slot] = h],
                    !.index = [t.index EXCEPT ![slot] = i]]
  OBVIOUS
<1>3. [t EXCEPT !.used = used, !.tombs = t.tombs, !.hash[slot] = h, !.index[slot] = i]
        = [t EXCEPT !.used = used, !.tombs = t.tombs, !.hash = [t.hash EXCEPT ![slot] = h],
                    !.index = [t.index EXCEPT ![slot] = i]]
  OBVIOUS
<1> QED
  BY <1>1, <1>2, <1>3

(* A new key gets a slot on the way of its probe, a tombstone if there is  *)
(* one, and the counters stay true.                                        *)
LEMMA TakingSound ==
  ASSUME NEW t, Ready(t, items), NEW k \in Keys, \A i \in DOMAIN items : items[i].key # k,
         NEW e \in Entries, e.key = k
  PROVE  Sound(Taking(t, k), Append(items, e)) /\ Kept(Taking(t, k), t)
<1> DEFINE its2 == Append(items, e)
           E == 0 .. Len(items) - 1
           F == 0 .. Len(its2) - 1
<1>1. PICK n \in Sizes, l \in Nat :
        /\ n = t.slots /\ n \in Nat \ {0} /\ t \in Tables(n) /\ l = Len(items)
        /\ t.hash \in [0 .. n - 1 -> Nat] /\ t.index \in [0 .. n - 1 -> Int]
        /\ items \in Seq(Entries) /\ IsFiniteSet(Graves(t)) /\ Cardinality(Graves(t)) \in Nat
        /\ Table(t, n, items, 0 .. l - 1) /\ t.used = l /\ t.used < UsedMax(n)
        /\ t.tombs = Cardinality(Graves(t)) /\ t.tombs <= TombsMax(n)
  BY SoundIs DEF Ready, Sound
<1>2. UsedMax(n) \in Nat /\ TombsMax(n) \in Nat
  BY Doubling
<1>3. /\ its2 \in Seq(Entries) /\ Len(its2) = l + 1 /\ its2[l + 1] = e
      /\ \A i \in 1 .. l : its2[i] = items[i]
  BY <1>1, Appended
<1> HIDE DEF its2
<1>4. 0 .. l - 1 \subseteq 0 .. Len(its2) - 1 /\ l \in (0 .. Len(its2) - 1) \ (0 .. l - 1)
      /\ 0 .. Len(its2) - 1 = (0 .. l - 1) \union {l}
  BY <1>3
<1>5. Table(t, n, its2, 0 .. l - 1)
  <2>1. \A x \in 0 .. l - 1 : its2[x + 1].key = items[x + 1].key
    BY <1>3
  <2> QED
    BY <1>1, <1>3, <1>4, <2>1, AgreeTable
<1>6. PICK h \in Nat, j \in 0 .. n - 1 :
        /\ h = HashOf(k) /\ h >= 2 /\ j = FindStop(t, k) /\ t.hash[Probe(h, n, j)] = 0
        /\ \A m \in 0 .. j - 1 : t.hash[Probe(h, n, m)] # 0
  <2>1. \A x \in 0 .. l - 1 : items[x + 1].key # k
    BY <1>1
  <2>2. \E s \in 0 .. n - 1 : t.hash[s] = 0
    BY <1>1, SoundEmpty DEF Ready
  <2>3. Table(t, n, items, E) /\ \A x \in E : items[x + 1].key # k
    BY <1>1, <2>1
  <2> HIDE DEF E
  <2>4. /\ FindStop(t, k) \in 0 .. n - 1
        /\ t.hash[Probe(HashOf(k), n, FindStop(t, k))] = 0
        /\ \A m \in 0 .. FindStop(t, k) - 1 : t.hash[Probe(HashOf(k), n, m)] # 0
    BY <2>2, <2>3, FindAbsent
  <2> QED
    BY <2>4, Hashes
<1>7. ASSUME NEW m \in 0 .. j, NEW slot, slot = Probe(h, n, m), t.index[slot] < 0,
             NEW tombs \in Int, NEW u,
             u = [t EXCEPT !.used = l + 1, !.tombs = tombs, !.hash[slot] = h, !.index[slot] = l],
             tombs = Cardinality(Graves(t) \ {slot}), tombs <= TombsMax(n)
      PROVE  Sound(u, its2) /\ Kept(u, t)
  <2>0. m \in 0 .. n - 1 /\ slot \in 0 .. n - 1
    <3>1. m \in 0 .. n - 1
      BY <1>1
    <3> QED
      BY <1>7, <3>1, ProbeInside
  <2>1. PICK v : v = Fill(t, slot, h, l)
    OBVIOUS
  <2>2. Table(v, n, its2, (0 .. l - 1) \union {l})
    <3>1. h = HashOf(its2[l + 1].key)
      BY <1>3, <1>6
    <3>2. \A i \in 0 .. m - 1 : t.hash[Probe(h, n, i)] # 0
      BY <1>6
    <3> QED
      BY <1>4, <1>5, <1>7, <2>0, <2>1, <3>1, <3>2, FillTable
  <2>3. v \in Tables(n) /\ v.slots = n /\ v.index = [t.index EXCEPT ![slot] = l]
        /\ v.hash = [t.hash EXCEPT ![slot] = h] /\ v.mode = t.mode /\ v.arena = t.arena
    <3>1. v \in Tables(n)
      BY <2>2, TableIs
    <3> QED
      BY <1>1, <2>1, <3>1 DEF Fill, Tables
  <2>4. u = [v EXCEPT !.used = l + 1, !.tombs = tombs]
    BY <1>1, <1>7, <2>1 DEF Fill, Tables
  <2>5. u \in Tables(n) /\ u.hash = v.hash /\ u.index = v.index /\ u.used = l + 1
        /\ u.tombs = tombs /\ u.mode = t.mode /\ u.arena = t.arena /\ u.slots = n
    <3>1. PICK used \in Int : used = l + 1 /\ v \in Tables(n)
      BY <2>3
    <3>2. /\ u \in Tables(n) /\ u.slots = n /\ u.hash = v.hash /\ u.index = v.index
          /\ u.used = used /\ u.tombs = tombs /\ u.mode = v.mode /\ u.arena = v.arena
      <4>1. u = [v EXCEPT !.used = used, !.tombs = tombs]
        BY <2>4, <3>1
      <4> QED
        BY <3>1, <4>1 DEF Tables
    <3> QED
      BY <2>3, <3>1, <3>2
  <2>6. Table(u, n, its2, (0 .. l - 1) \union {l}) /\ Graves(u) = Graves(v)
    BY <2>2, <2>5, CountersTable
  <2>7. Graves(v) = Graves(t) \ {slot}
    <3>1. l # -2
      BY <1>1
    <3> QED
      BY <1>1, <2>0, <2>3, <3>1 DEF Graves, SlotsOf, DELETED
  <2>8. Table(u, u.slots, its2, 0 .. Len(its2) - 1)
    BY <1>4, <2>5, <2>6
  <2>9. u.used = Len(its2) /\ u.used <= UsedMax(u.slots)
    BY <1>1, <1>2, <1>3, <2>5
  <2>10. u.tombs = Cardinality(Graves(u)) /\ u.tombs <= TombsMax(u.slots)
    BY <1>7, <2>5, <2>6, <2>7
  <2> QED
    BY <2>5, <2>8, <2>9, <2>10 DEF Sound, Kept
<1> DEFINE at(m) == Probe(HashOf(k), t.slots, m)
           graves == {m \in 0 .. j - 1 : t.index[at(m)] = DELETED}
           first == CHOOSE m \in graves : \A g \in graves : m <= g
<1>8. Taking(t, k) =
        IF graves = {} THEN [t EXCEPT !.used = @ + 1, !.hash[at(j)] = HashOf(k),
                                      !.index[at(j)] = Len(items)]
        ELSE [t EXCEPT !.used = @ + 1, !.tombs = @ - 1, !.hash[at(first)] = HashOf(k),
                       !.index[at(first)] = Len(items)]
  BY <1>6 DEF Taking
<1>9. \A m : at(m) = Probe(h, n, m)
  BY <1>1, <1>6
<1> HIDE DEF at
<1>10. CASE graves = {}
  <2>1. PICK slot : slot = at(j) /\ slot = Probe(h, n, j)
    BY <1>9
  <2>2. slot \in 0 .. n - 1
    BY <2>1, ProbeInside
  <2>3. t.index[slot] = -1
    BY <1>1, <1>6, <2>1, <2>2, SlotIs
  <2>4. Graves(t) \ {slot} = Graves(t)
    BY <2>3 DEF Graves, DELETED
  <2>5. Taking(t, k) = [t EXCEPT !.used = l + 1, !.tombs = t.tombs, !.hash[slot] = h,
                                 !.index[slot] = l]
    <3>1. Taking(t, k) = [t EXCEPT !.used = l + 1, !.hash[slot] = h, !.index[slot] = l]
      BY <1>1, <1>6, <1>8, <1>10, <2>1
    <3> QED
      BY <1>1, <3>1, SameTombs
  <2>6. j \in 0 .. j /\ t.tombs \in Int /\ t.tombs = Cardinality(Graves(t) \ {slot})
        /\ t.index[slot] < 0 /\ slot = Probe(h, n, j) /\ t.tombs <= TombsMax(n)
    <3>1. j \in 0 .. j
      OBVIOUS
    <3>2. t.tombs \in Int /\ t.tombs = Cardinality(Graves(t)) /\ t.tombs <= TombsMax(n)
      BY <1>1
    <3>3. t.index[slot] < 0
      BY <2>3
    <3> QED
      BY <2>1, <2>4, <3>1, <3>2, <3>3
  <2>7. Sound(Taking(t, k), its2) /\ Kept(Taking(t, k), t)
    BY <1>7, <2>5, <2>6
  <2> QED
    BY <2>7 DEF its2
<1>11. CASE graves # {}
  <2>1. graves \subseteq Nat
    OBVIOUS
  <2>2. \E m \in graves : \A g \in graves : m <= g
    <3> HIDE DEF graves
    <3> QED
      BY <1>11, <2>1, LeastNatural
  <2>3. first \in graves
    <3> HIDE DEF graves
    <3> QED
      BY <2>2
  <2>4. PICK m \in 0 .. j - 1 : m = first /\ t.index[at(m)] = DELETED
    BY <2>3
  <2> HIDE DEF graves, first
  <2>5. PICK slot : slot = at(m) /\ slot = Probe(h, n, m)
    BY <1>9
  <2>6. m \in 0 .. n - 1 /\ m \in 0 .. j
    BY <1>1
  <2>7. slot \in 0 .. n - 1
    BY <2>5, <2>6, ProbeInside
  <2>8. slot \in Graves(t) /\ t.index[slot] < 0
    BY <1>1, <2>4, <2>5, <2>7 DEF Graves, SlotsOf, DELETED
  <2>9. Cardinality(Graves(t) \ {slot}) = Cardinality(Graves(t)) - 1
    BY <1>1, <2>8, FS_RemoveElement
  <2>10. PICK tombs \in Int : tombs = t.tombs - 1
    BY <1>1
  <2>11. Taking(t, k) = [t EXCEPT !.used = l + 1, !.tombs = tombs, !.hash[slot] = h,
                                  !.index[slot] = l]
    BY <1>1, <1>6, <1>8, <1>11, <2>4, <2>5, <2>10 DEF Tables
  <2>12. tombs = Cardinality(Graves(t) \ {slot}) /\ tombs <= TombsMax(n)
    BY <1>1, <1>2, <2>9, <2>10
  <2> QED
    BY <1>7, <2>5, <2>6, <2>8, <2>11, <2>12 DEF its2
<1> QED
  BY <1>10, <1>11

-----------------------------------------------------------------------------
(* A deletion. *)

(* An index that a deletion may have left with too many tombstones. *)
Untidy(t, n, its) ==
  /\ Table(t, n, its, 0 .. Len(its) - 1)
  /\ t.used = Len(its) /\ t.used <= UsedMax(n) /\ t.tombs = Cardinality(Graves(t))

(* The last entry has moved into the place of entry number old. *)
MovedInto(its, old, its2) ==
  /\ its2 \in Seq(Entries) /\ Len(its2) = Len(its) - 1 /\ Len(its2) \in Nat
  /\ \A i \in 1 .. Len(its) - 1 : its2[i] = IF i = old + 1 THEN its[Len(its)] ELSE its[i]

(* stbds_hmdel_key moves the last entry into the hole.                     *)
LEMMA Shortened ==
  ASSUME NEW its \in Seq(Entries), NEW old \in 0 .. Len(its) - 1, NEW its2,
         its2 = SubSeq([its EXCEPT ![old + 1] = its[Len(its)]], 1, Len(its) - 1)
  PROVE  MovedInto(its, old, its2)
<1> DEFINE its1 == [its EXCEPT ![old + 1] = its[Len(its)]]
<1>1. PICK l \in Nat : l = Len(its) /\ l >= 1 /\ old + 1 \in 1 .. l
  OBVIOUS
<1>2. its[l] \in Entries
  BY <1>1
<1>3. its1 \in Seq(Entries) /\ Len(its1) = l
  BY <1>1, <1>2
<1>4. \A i \in 1 .. l : its1[i] = IF i = old + 1 THEN its[l] ELSE its[i]
  BY <1>1
<1> HIDE DEF its1
<1>5. its2 \in Seq(Entries) /\ Len(its2) = l - 1 /\ \A i \in 1 .. l - 1 : its2[i] = its1[i]
  BY <1>1, <1>3 DEF its1
<1> QED
  BY <1>1, <1>4, <1>5 DEF MovedInto

(* The index after the move is one in front of the entries that are left:  *)
(* the slot of the entry that moved is found, and points to its new place. *)
LEMMA UnlinkedUntidy ==
  ASSUME NEW t, Sound(t, items), Distinct(items), NEW slot \in 0 .. t.slots - 1,
         t.index[slot] >= 0, NEW its2, MovedInto(items, t.index[slot], its2)
  PROVE  Untidy(Unlinked(t, slot), t.slots, its2) /\ Kept(Unlinked(t, slot), t)
<1>1. PICK n \in Sizes, l \in Nat :
        /\ n = t.slots /\ n \in Nat \ {0} /\ t \in Tables(n) /\ l = Len(items)
        /\ t.hash \in [0 .. n - 1 -> Nat] /\ t.index \in [0 .. n - 1 -> Int]
        /\ items \in Seq(Entries) /\ IsFiniteSet(Graves(t)) /\ Cardinality(Graves(t)) \in Nat
        /\ Table(t, n, items, 0 .. l - 1) /\ t.used = l /\ t.used <= UsedMax(n)
        /\ t.tombs = Cardinality(Graves(t))
  BY SoundIs DEF Sound
<1>2. PICK old \in 0 .. l - 1 : old = t.index[slot]
  BY <1>1, SlotIs
<1>3. /\ its2 \in Seq(Entries) /\ Len(its2) = l - 1 /\ l - 1 \in Nat
      /\ \A i \in 1 .. l - 1 : its2[i] = IF i = old + 1 THEN items[l] ELSE items[i]
  BY <1>1, <1>2 DEF MovedInto
<1>0. PICK used \in Int, tombs \in Int : used = l - 1 /\ tombs = Cardinality(Graves(t)) + 1
  <2>1. l - 1 \in Int /\ Cardinality(Graves(t)) + 1 \in Int
    BY <1>1
  <2> QED
    BY <2>1
<1>4. PICK u : /\ used = l - 1 /\ tombs = Cardinality(Graves(t)) + 1
               /\ u = [t EXCEPT !.used = used, !.tombs = tombs, !.hash[slot] = 1,
                                !.index[slot] = -2]
  BY <1>0
<1>5. u = [t EXCEPT !.used = @ - 1, !.tombs = @ + 1, !.hash[slot] = 1, !.index[slot] = DELETED]
  BY <1>1, <1>4 DEF DELETED
<1>6. Unlinked(t, slot) =
        IF old = l - 1 THEN u ELSE [u EXCEPT !.index[Find(u, items[l].key)] = old]
  BY <1>1, <1>2, <1>5 DEF Unlinked
<1>7. /\ u \in Tables(n) /\ u.slots = n
      /\ u.hash = [t.hash EXCEPT ![slot] = 1] /\ u.index = [t.index EXCEPT ![slot] = DELETED]
      /\ u.used = used /\ u.tombs = tombs /\ u.mode = t.mode /\ u.arena = t.arena
  <2>1. PICK hs \in [0 .. n - 1 -> Nat], is \in [0 .. n - 1 -> Int] :
          hs = [t.hash EXCEPT ![slot] = 1] /\ is = [t.index EXCEPT ![slot] = DELETED]
    <3>1. DELETED \in Int /\ 1 \in Nat
      BY DEF DELETED
    <3> QED
      BY <1>1, <3>1, Updated
  <2>2. u = [t EXCEPT !.used = used, !.tombs = tombs, !.hash = hs, !.index = is]
    BY <1>4, <2>1 DEF DELETED
  <2> QED
    BY <1>1, <2>1, <2>2 DEF Tables
<1>8. Table(u, n, items, (0 .. l - 1) \ {old})
  <2>1. slot \in 0 .. n - 1 /\ t.index[slot] \in 0 .. l - 1
    BY <1>1, <1>2
  <2> QED
    BY <1>1, <1>2, <1>7, <2>1, RemoveTable
<1>9. Graves(u) = Graves(t) \union {slot} /\ slot \notin Graves(t)
  BY <1>1, <1>2, <1>7 DEF Graves, SlotsOf, DELETED
<1>10. Cardinality(Graves(u)) = tombs
  BY <1>1, <1>4, <1>9, FS_AddElement
<1>13. l - 1 <= UsedMax(n)
  <2>1. UsedMax(n) \in Nat /\ l <= UsedMax(n)
    BY <1>1, Doubling
  <2> QED
    BY <2>1
<1>14. u.index \in [0 .. n - 1 -> Int] /\ u.hash \in [0 .. n - 1 -> Nat]
  BY <1>7 DEF Tables
<1>11. CASE old = l - 1
  <2>1. (0 .. l - 1) \ {old} = 0 .. Len(its2) - 1
    BY <1>3, <1>11
  <2>2. \A e \in 0 .. Len(its2) - 1 : its2[e + 1].key = items[e + 1].key
    BY <1>3, <1>11
  <2>3. Table(u, n, its2, 0 .. Len(its2) - 1)
    BY <1>3, <1>8, <2>1, <2>2, AgreeTable
  <2>4. Unlinked(t, slot) = u
    BY <1>6, <1>11
  <2>5. u.used = Len(its2) /\ u.used <= UsedMax(n) /\ u.tombs = Cardinality(Graves(u))
    BY <1>3, <1>4, <1>7, <1>10, <1>13
  <2> QED
    BY <1>1, <1>7, <2>3, <2>4, <2>5 DEF Untidy, Kept
<1>12. CASE old # l - 1
  <2>1. l - 1 \in (0 .. l - 1) \ {old}
    BY <1>3, <1>12
  <2>2. PICK s \in 0 .. n - 1 : u.index[s] = l - 1
    <3>1. PICK E : E = (0 .. l - 1) \ {old} /\ l - 1 \in E /\ Table(u, n, items, E)
      BY <1>8, <2>1
    <3> QED
      BY <3>1, SlotIs
  <2>3. KeyAt(u, s) = items[l].key
    BY <2>2 DEF KeyAt
  <2>4. Find(u, items[l].key) = s
    <3>1. Find(u, KeyAt(u, s)) = s
      BY <1>3, <1>8, <2>2, FindPresent
    <3> QED
      BY <2>3, <3>1
  <2>5. PICK v : v = Unlinked(t, slot) /\ v = [u EXCEPT !.index[s] = old]
    BY <1>6, <1>12, <2>4
  <2>6. /\ v \in Tables(n) /\ v.slots = n /\ v.hash = u.hash
        /\ v.index = [u.index EXCEPT ![s] = old] /\ v.used = used /\ v.tombs = tombs
        /\ v.mode = t.mode /\ v.arena = t.arena
    <3>1. PICK is \in [0 .. n - 1 -> Int] : is = [u.index EXCEPT ![s] = old]
      <4>1. u.index \in [0 .. n - 1 -> Int] /\ old \in Int
        BY <1>14
      <4> QED
        BY <4>1, Updated
    <3>2. v = [u EXCEPT !.index = is]
      BY <2>5, <3>1
    <3> QED
      BY <1>7, <3>1, <3>2 DEF Tables
  <2>7. Table(v, n, its2, (((0 .. l - 1) \ {old}) \ {l - 1}) \union {old})
    <3>1. PICK E, x : E = (0 .. l - 1) \ {old} /\ x = u.index[s] /\ x = l - 1
      BY <2>2
    <3>2. u.index[s] \in E /\ old \in (0 .. Len(its2) - 1) \ E
      BY <1>3, <1>12, <2>1, <3>1
    <3>3. E \ {u.index[s]} \subseteq 0 .. Len(its2) - 1
      BY <1>3, <3>1
    <3>4. \A e \in E \ {u.index[s]} : its2[e + 1].key = items[e + 1].key
      BY <1>3, <3>1
    <3>5. its2[old + 1].key = items[u.index[s] + 1].key
      BY <1>3, <1>12, <3>1
    <3>6. Table(u, n, items, E) /\ its2 \in Seq(Entries) /\ v \in Tables(n) /\ v.hash = u.hash
          /\ v.index = [u.index EXCEPT ![s] = old]
      BY <1>3, <1>8, <2>6, <3>1
    <3>7. Table(v, n, its2, (E \ {u.index[s]}) \union {old})
      BY <3>2, <3>3, <3>4, <3>5, <3>6, RelinkTable
    <3> QED
      BY <3>1, <3>7
  <2>8. (((0 .. l - 1) \ {old}) \ {l - 1}) \union {old} = 0 .. Len(its2) - 1
    BY <1>3, <1>12
  <2>9. Graves(v) = Graves(u)
    <3>1. u.index[s] # -2 /\ old # -2 /\ u.index \in [0 .. n - 1 -> Int]
      BY <1>3, <1>14, <2>2
    <3> QED
      BY <1>7, <2>6, <3>1 DEF Graves, SlotsOf, DELETED
  <2>10. v.used = Len(its2) /\ v.used <= UsedMax(n) /\ v.tombs = Cardinality(Graves(v))
    BY <1>3, <1>4, <1>10, <1>13, <2>6, <2>9
  <2> QED
    BY <1>1, <2>5, <2>6, <2>7, <2>8, <2>10 DEF Untidy, Kept
<1> QED
  BY <1>11, <1>12

(* Shrinking or rebuilding brings the tombstones below their limit.        *)
LEMMA TidySound ==
  ASSUME NEW t, NEW n, NEW its, Untidy(t, n, its)
  PROVE  Sound(Tidy(t), its) /\ Kept(Tidy(t), t)
<1>1. /\ n \in Sizes /\ n = t.slots /\ Len(its) \in Nat /\ t.used = Len(its)
      /\ Table(t, n, its, 0 .. Len(its) - 1) /\ t.used <= UsedMax(n)
      /\ t.tombs = Cardinality(Graves(t)) /\ t \in Tables(n)
  BY TableIs DEF Untidy
<1>2. UsedMax(n) \in Nat /\ TombsMax(n) \in Nat /\ ShrinkAt(n) \in Nat /\ n \in Nat
      /\ UsedMax(n) + TombsMax(n) < n
  BY <1>1, Doubling
<1>3. CASE t.used < ShrinkAt(n)
  <2>1. Tidy(t) = Rehash(t, n \div 2)
    <3>1. t.used \in Int /\ ShrinkAt(n) \in Int /\ ~ (t.used >= ShrinkAt(n)) /\ t.slots = n
      BY <1>1, <1>2, <1>3
    <3> QED
      BY <1>3, <3>1 DEF Tidy
  <2>2. PICK m \in Sizes : m = n \div 2 /\ Len(its) < UsedMax(m) /\ Len(its) < m
    BY <1>1, <1>3, Halving
  <2>3. Len(its) <= UsedMax(m)
    BY <1>1, <2>2, Doubling
  <2> QED
    BY <1>1, <2>1, <2>2, <2>3, RehashSound
<1>4. CASE ~ (t.used < ShrinkAt(n)) /\ t.tombs > TombsMax(n)
  <2>1. t.used >= ShrinkAt(n)
    BY <1>1, <1>2, <1>4
  <2>2. Tidy(t) = Rehash(t, n)
    BY <1>1, <1>4, <2>1 DEF Tidy
  <2>3. Len(its) < n /\ Len(its) <= UsedMax(n)
    BY <1>1, <1>2
  <2> QED
    BY <1>1, <2>2, <2>3, RehashSound
<1>5. CASE ~ (t.used < ShrinkAt(n)) /\ ~ (t.tombs > TombsMax(n))
  <2>1. Tidy(t) = t
    BY <1>1, <1>5 DEF Tidy
  <2>2. t.tombs <= TombsMax(n)
    BY <1>1, <1>2, <1>5 DEF Tables
  <2> QED
    BY <1>1, <2>1, <2>2 DEF Sound, Kept
<1> QED
  BY <1>3, <1>4, <1>5

-----------------------------------------------------------------------------
(* The arena. *)

(* What is left of an arena's first block lies before every string in it. *)
ArenaFine(a) ==
  /\ a \in Arenas /\ ArenaSound(a)
  /\ a.storage = <<>> => a.remaining = 0
  /\ a.storage # <<>> => /\ a.remaining <= a.storage[1].size
                         /\ \A r \in a.storage[1].used : a.remaining <= r.from

(* The size of a block of an arena is a natural.                           *)
LEMMA SizeOfBlock ==
  ASSUME NEW n \in Nat
  PROVE  SizeOf(n) \in Nat
<1>1. n \div 2 \in Nat /\ \A i \in Nat : i - 1 \in Int /\ 0 \in Int
  OBVIOUS
<1>2. PICK i \in Nat : i = n \div 2
  BY <1>1
<1>3. IsFiniteSet(0 .. i - 1) /\ Cardinality(0 .. i - 1) = i
  BY <1>1, FS_Interval, Below
<1>4. Cardinality(SUBSET (0 .. i - 1)) = 2 ^ i /\ IsFiniteSet(SUBSET (0 .. i - 1))
  BY <1>3, FS_SUBSET
<1>5. 2 ^ i \in Nat
  BY <1>4, FS_CardinalityType
<1> QED
  BY <1>2, <1>5, ArenaAssumption DEF SizeOf

(* An arena that has never been used is sound.                             *)
LEMMA NoArenaFine == ArenaFine(NoArena)
  BY DEF ArenaFine, NoArena, ArenaSound, Arenas

(* The kind of the next block is a natural.                                *)
LEMMA AdvancedType ==
  ASSUME NEW a \in Arenas
  PROVE  Advanced(a) \in Nat
  BY DEF Arenas, Advanced

(* A block of an arena.                                                    *)
Blocks == [size : Nat, used : SUBSET Pieces]

(* The strings of a block neither overlap nor leave it.                    *)
BlockSound(b) ==
  \A r \in b.used :
    /\ 0 <= r.from /\ r.from < r.to /\ r.to <= b.size
    /\ \A q \in b.used \ {r} : q.to <= r.from \/ r.to <= q.from

(* A sound arena, block by block.                                          *)
LEMMA FineIs ==
  ASSUME NEW a
  PROVE  ArenaFine(a) <=>
           /\ a \in Arenas /\ \A i \in 1 .. Len(a.storage) : BlockSound(a.storage[i])
           /\ a.storage = <<>> => a.remaining = 0
           /\ a.storage # <<>> => /\ a.remaining <= a.storage[1].size
                                  /\ \A r \in a.storage[1].used : a.remaining <= r.from
<1>1. a \in Arenas => DOMAIN a.storage = 1 .. Len(a.storage)
  BY DEF Arenas
<1> QED
  BY <1>1 DEF ArenaFine, ArenaSound, BlockSound

(* An arena is sound if its parts are.                                     *)
LEMMA ArenaOf ==
  ASSUME NEW st \in Seq(Blocks), NEW rem \in Nat, NEW blk \in Nat,
         \A i \in 1 .. Len(st) : BlockSound(st[i]), st = <<>> => rem = 0,
         st # <<>> => rem <= st[1].size /\ \A r \in st[1].used : rem <= r.from
  PROVE  ArenaFine([storage |-> st, remaining |-> rem, block |-> blk])
<1> DEFINE a == [storage |-> st, remaining |-> rem, block |-> blk]
<1>1. a \in Arenas /\ a.storage = st /\ a.remaining = rem
  BY DEF Arenas, Blocks
<1> HIDE DEF a
<1>2. ArenaFine(a)
  BY <1>1, FineIs
<1> QED
  BY <1>2 DEF a

(* Carving a string off what is left keeps the arena sound.                *)
LEMMA CarveFine ==
  ASSUME NEW a, ArenaFine(a), NEW len \in Nat \ {0}, len <= a.remaining
  PROVE  ArenaFine(Carve(a, len))
<1>1. PICK st \in Seq(Blocks), rem \in Nat, blk \in Nat :
        st = a.storage /\ rem = a.remaining /\ blk = a.block
        /\ a = [storage |-> st, remaining |-> rem, block |-> blk]
  BY DEF ArenaFine, Arenas, Blocks
<1>2. /\ st # <<>> /\ rem <= st[1].size /\ \A r \in st[1].used : rem <= r.from
      /\ \A i \in 1 .. Len(st) : BlockSound(st[i])
  BY <1>1, FineIs
<1>3. 1 \in 1 .. Len(st) /\ st[1] \in Blocks /\ Len(st) \in Nat
  BY <1>1, <1>2
<1>4. PICK from \in Nat : from = rem - len /\ from + len = rem
  <2>1. rem - len \in Nat /\ (rem - len) + len = rem
    BY <1>1
  <2> QED
    BY <2>1
<1>5. PICK new : new = [st[1] EXCEPT !.used = @ \union {Taken(from, rem)}]
  OBVIOUS
<1>6. Taken(from, rem) \in Pieces /\ Taken(from, rem).from = from /\ Taken(from, rem).to = rem
  BY DEF Taken, Pieces
<1>7. new \in Blocks /\ new.size = st[1].size /\ new.used = st[1].used \union {Taken(from, rem)}
  BY <1>3, <1>5, <1>6 DEF Blocks
<1>8. BlockSound(new) /\ \A r \in new.used : from <= r.from
  <2>1. \A r \in st[1].used : r.from \in Nat /\ r.to \in Nat
    BY <1>3 DEF Blocks, Pieces
  <2>2. st[1].size \in Nat
    BY <1>3 DEF Blocks
  <2>3. BlockSound(st[1])
    BY <1>2, <1>3
  <2> QED
    BY <1>2, <1>4, <1>6, <1>7, <2>1, <2>2, <2>3 DEF BlockSound
<1> DEFINE st2 == [st EXCEPT ![1] = new]
<1>9. st2 \in Seq(Blocks) /\ Len(st2) = Len(st) /\ st2[1] = new
      /\ \A i \in 1 .. Len(st) : i # 1 => st2[i] = st[i]
  BY <1>3, <1>7
<1>10. Carve(a, len) = [storage |-> st2, remaining |-> from, block |-> blk]
  <2>1. Carve(a, len) = [a EXCEPT !.storage = [st EXCEPT ![1] = new], !.remaining = from]
    BY <1>1, <1>4, <1>5 DEF Carve
  <2>2. PICK x : x = st2
    OBVIOUS
  <2>3. Carve(a, len) = [a EXCEPT !.storage = x, !.remaining = from]
    BY <2>1, <2>2
  <2> HIDE DEF st2
  <2>4. Carve(a, len) = [storage |-> x, remaining |-> from, block |-> blk]
    BY <1>1, <2>3
  <2> QED
    BY <2>2, <2>4
<1> HIDE DEF st2
<1>11. \A i \in 1 .. Len(st2) : BlockSound(st2[i])
  BY <1>2, <1>8, <1>9
<1>12. from <= new.size /\ st2 # <<>>
  <2>1. st[1].size \in Nat
    BY <1>3 DEF Blocks
  <2> QED
    BY <1>2, <1>3, <1>4, <1>7, <1>9, <2>1
<1> QED
  BY <1>8, <1>9, <1>10, <1>11, <1>12, ArenaOf

(* What an element in front of a sequence makes of it.                     *)
LEMMA InFront ==
  ASSUME NEW S, NEW s \in Seq(S), NEW e \in S, NEW r, r = <<e>> \o s
  PROVE  /\ r \in Seq(S) /\ Len(r) = Len(s) + 1 /\ r[1] = e
         /\ \A i \in 2 .. Len(s) + 1 : r[i] = s[i - 1]
  OBVIOUS

(* What an element behind the first of a sequence makes of it.             *)
LEMMA BehindFirst ==
  ASSUME NEW S, NEW s \in Seq(S), s # <<>>, NEW e \in S, NEW r, r = <<Head(s), e>> \o Tail(s)
  PROVE  /\ r \in Seq(S) /\ Len(r) = Len(s) + 1 /\ r[1] = s[1] /\ r[2] = e
         /\ \A i \in 3 .. Len(s) + 1 : r[i] = s[i - 1]
<1>1. /\ Head(s) = s[1] /\ s[1] \in S /\ Tail(s) \in Seq(S) /\ Len(Tail(s)) = Len(s) - 1
      /\ \A i \in 1 .. Len(s) - 1 : Tail(s)[i] = s[i + 1]
      /\ Len(s) \in Nat /\ Len(s) >= 1
  OBVIOUS
<1>2. PICK t \in Seq(S), l \in Nat : t = Tail(s) /\ l = Len(s) /\ Len(t) = l - 1 /\ l >= 1
  BY <1>1
<1>3. PICK f \in S : f = Head(s) /\ f = s[1]
  BY <1>1
<1>4. r = <<f, e>> \o t
  BY <1>2, <1>3
<1>5. /\ r \in Seq(S) /\ Len(r) = Len(t) + 2 /\ r[1] = f /\ r[2] = e
      /\ \A i \in 3 .. Len(t) + 2 : r[i] = t[i - 2]
  BY <1>4
<1>6. ASSUME NEW i \in 3 .. Len(s) + 1 PROVE r[i] = s[i - 1]
  <2>1. i - 2 \in 1 .. Len(s) - 1 /\ (i - 2) + 1 = i - 1
    BY <1>1
  <2> QED
    BY <1>1, <1>2, <1>5, <2>1
<1> QED
  BY <1>2, <1>3, <1>5, <1>6

(* A new first block keeps the arena sound.                                *)
LEMMA NewBlockFine ==
  ASSUME NEW a, ArenaFine(a)
  PROVE  ArenaFine(NewBlock(a)) /\ NewBlock(a).remaining = SizeOf(a.block)
<1>1. PICK st \in Seq(Blocks), blk \in Nat :
        st = a.storage /\ blk = a.block /\ \A i \in 1 .. Len(st) : BlockSound(st[i])
  BY FineIs DEF ArenaFine, Arenas, Blocks
<1>2. PICK size \in Nat, adv \in Nat : size = SizeOf(a.block) /\ adv = Advanced(a)
  BY <1>1, SizeOfBlock, AdvancedType DEF ArenaFine
<1>3. PICK new : new = [size |-> size, used |-> {}]
  OBVIOUS
<1>4. new \in Blocks /\ new.size = size /\ new.used = {} /\ BlockSound(new)
  BY <1>3 DEF Blocks, BlockSound
<1>5. PICK st2 : st2 = <<new>> \o st
  OBVIOUS
<1>6. /\ st2 \in Seq(Blocks) /\ Len(st2) = Len(st) + 1 /\ st2[1] = new
      /\ \A i \in 2 .. Len(st) + 1 : st2[i] = st[i - 1]
  BY <1>4, <1>5, InFront
<1>7. \A i \in 1 .. Len(st2) : BlockSound(st2[i])
  <2> SUFFICES ASSUME NEW i \in 1 .. Len(st2), i # 1 PROVE BlockSound(st2[i])
    BY <1>4, <1>6
  <2>1. i \in 2 .. Len(st) + 1 /\ i - 1 \in 1 .. Len(st)
    BY <1>6
  <2> QED
    BY <1>1, <1>6, <2>1
<1>8. NewBlock(a) = [storage |-> st2, remaining |-> size, block |-> adv]
  BY <1>1, <1>2, <1>3, <1>5 DEF NewBlock
<1>9. st2 # <<>> /\ size <= st2[1].size /\ st2[1].used = {}
  BY <1>4, <1>6
<1> QED
  BY <1>2, <1>6, <1>7, <1>8, <1>9, ArenaOf

(* So does a block for one string behind the first one.                    *)
LEMMA OwnFine ==
  ASSUME NEW a, ArenaFine(a), NEW len \in Nat \ {0}
  PROVE  ArenaFine(Own(a, len))
<1>1. PICK st \in Seq(Blocks), rem \in Nat, blk \in Nat :
        /\ st = a.storage /\ rem = a.remaining /\ blk = a.block
        /\ a = [storage |-> st, remaining |-> rem, block |-> blk]
        /\ \A i \in 1 .. Len(st) : BlockSound(st[i])
        /\ st # <<>> => rem <= st[1].size /\ \A r \in st[1].used : rem <= r.from
  BY FineIs DEF ArenaFine, Arenas, Blocks
<1>2. PICK adv \in Nat : adv = Advanced(a)
  BY AdvancedType DEF ArenaFine
<1>3. PICK p : p = Taken(0, len)
  OBVIOUS
<1>4. p \in Pieces /\ p.from = 0 /\ p.to = len
  BY <1>3 DEF Taken, Pieces
<1>5. PICK sb : sb = [size |-> len, used |-> {p}]
  OBVIOUS
<1>6. sb \in Blocks /\ sb.size = len /\ sb.used = {p} /\ BlockSound(sb)
  BY <1>4, <1>5 DEF Blocks, BlockSound
<1>7. CASE st = <<>>
  <2>1. PICK st2 : st2 = <<sb>>
    OBVIOUS
  <2>2. st2 \in Seq(Blocks) /\ Len(st2) = 1 /\ st2[1] = sb /\ st2 # <<>>
    BY <1>6, <2>1
  <2>3. Own(a, len) = [storage |-> st2, remaining |-> 0, block |-> adv]
    BY <1>1, <1>2, <1>3, <1>5, <1>7, <2>1 DEF Own
  <2>4. \A i \in 1 .. Len(st2) : BlockSound(st2[i])
    BY <1>6, <2>2
  <2>5. 0 <= st2[1].size /\ \A r \in st2[1].used : 0 <= r.from
    BY <1>4, <1>6, <2>2
  <2> QED
    BY <2>2, <2>3, <2>4, <2>5, ArenaOf
<1>8. CASE st # <<>>
  <2>1. PICK st2 : st2 = <<Head(st), sb>> \o Tail(st)
    OBVIOUS
  <2>2. /\ st2 \in Seq(Blocks) /\ Len(st2) = Len(st) + 1 /\ st2[1] = st[1] /\ st2[2] = sb
        /\ \A i \in 3 .. Len(st) + 1 : st2[i] = st[i - 1]
    BY <1>6, <1>8, <2>1, BehindFirst
  <2>3. Len(st) \in Nat /\ 1 \in 1 .. Len(st)
    BY <1>8
  <2>4. \A i \in 1 .. Len(st2) : BlockSound(st2[i])
    <3> SUFFICES ASSUME NEW i \in 1 .. Len(st2), i # 1, i # 2 PROVE BlockSound(st2[i])
      BY <1>1, <1>6, <2>2, <2>3
    <3>1. i \in 3 .. Len(st) + 1 /\ i - 1 \in 1 .. Len(st)
      BY <2>2, <2>3
    <3> QED
      BY <1>1, <2>2, <3>1
  <2>5. Own(a, len) = [storage |-> st2, remaining |-> rem, block |-> adv]
    <3>1. Own(a, len) = [a EXCEPT !.storage = <<Head(@), sb>> \o Tail(@), !.block = adv]
      BY <1>1, <1>2, <1>3, <1>5, <1>8 DEF Own
    <3>2. Own(a, len) = [a EXCEPT !.storage = st2, !.block = adv]
      BY <1>1, <2>1, <3>1
    <3> QED
      BY <1>1, <3>2
  <2>6. st2 # <<>> /\ rem <= st2[1].size /\ \A r \in st2[1].used : rem <= r.from
    BY <1>1, <1>8, <2>2, <2>3
  <2> QED
    BY <2>2, <2>4, <2>5, <2>6, ArenaOf
<1> QED
  BY <1>7, <1>8

(* stbds_stralloc keeps the arena sound.                                   *)
LEMMA StrallocFine ==
  ASSUME NEW a, ArenaFine(a), NEW len \in Nat \ {0}
  PROVE  ArenaFine(Stralloc(a, len))
<1>1. PICK rem \in Nat, size \in Nat : rem = a.remaining /\ size = SizeOf(a.block)
  <2>1. a.remaining \in Nat /\ a.block \in Nat
    BY DEF ArenaFine, Arenas
  <2> QED
    BY <2>1, SizeOfBlock
<1>2. CASE len <= rem
  BY <1>1, <1>2, CarveFine DEF Stralloc
<1>3. CASE len > rem /\ len > size
  BY <1>1, <1>3, OwnFine DEF Stralloc
<1>4. CASE len > rem /\ ~ (len > size)
  <2>1. Stralloc(a, len) = Carve(NewBlock(a), len)
    BY <1>1, <1>4 DEF Stralloc
  <2>2. ArenaFine(NewBlock(a)) /\ NewBlock(a).remaining = size /\ len <= size
    BY <1>1, <1>4, NewBlockFine
  <2> QED
    BY <2>1, <2>2, CarveFine
<1> QED
  BY <1>1, <1>2, <1>3, <1>4

-----------------------------------------------------------------------------
(* The invariant. *)

(* Only a string map whose second loop is looked at too may hold another   *)
(* key than it should: see the run HashMapUpdate.                          *)
KeysKept == ~StalePuts \/ TRUE \notin Strings

(* There is no index and no entry, or an index in front of the entries.    *)
Indexed ==
  IF table.slots = 0 THEN table = NoTable /\ items = <<>>
  ELSE Sound(table, items) /\ ArenaFine(table.arena) /\ Len(items) + 1 <= cap

(* The blocks the keys are in, and that no two keys share one.             *)
Blocked(its) == {its[i].block : i \in DOMAIN its}
Apart(its) == \A i, j \in DOMAIN its : its[i].block = its[j].block => i = j

(* strdup has made the block of each key, and no other.                    *)
KeysOwned ==
  IF table.mode = "strdup" THEN live = Blocked(items) /\ Apart(items) ELSE live = {}

(* The entries are what the map should hold.                               *)
Mapped ==
  /\ Distinct(items)
  /\ DOMAIN dict = {items[i].key : i \in DOMAIN items}
  /\ \A i \in DOMAIN items : dict[items[i].key] = items[i].val

(* The inductive invariant.                                                *)
MapInv ==
  /\ string \in Strings /\ null \in BOOLEAN /\ items \in Seq(Entries) /\ cap \in Nat
  /\ null => table.slots = 0
  /\ ~string => table.mode = "none"
  /\ Indexed /\ KeysOwned /\ Mapped

(* A map that nobody has used satisfies the invariant.                     *)
LEMMA InitMap ==
  ASSUME Init
  PROVE  MapInv
<1>1. /\ string \in Strings /\ null = TRUE /\ items = <<>> /\ cap = 0 /\ table = NoTable
      /\ live = {} /\ dict = <<>>
  BY DEF Init, M!Init
<1>2. table.slots = 0 /\ table.mode = "none"
  BY <1>1 DEF NoTable
<1>3. Mapped
  BY <1>1 DEF Mapped, Distinct
<1> QED
  BY <1>1, <1>2, <1>3 DEF MapInv, Indexed, KeysOwned

(* What a search finds is the entry of the key. *)
LEMMA Search ==
  ASSUME NEW t, Sound(t, items), Distinct(items), NEW k \in Keys
  PROVE  /\ Find(t, k) = -1 => \A i \in DOMAIN items : items[i].key # k
         /\ Find(t, k) # -1 => /\ Find(t, k) \in 0 .. t.slots - 1
                               /\ t.index[Find(t, k)] \in 0 .. Len(items) - 1
                               /\ items[t.index[Find(t, k)] + 1].key = k
<1>1. PICK n \in Sizes, l \in Nat :
        /\ n = t.slots /\ l = Len(items) /\ items \in Seq(Entries)
        /\ Table(t, n, items, 0 .. l - 1)
  BY SoundIs DEF Sound
<1>2. CASE \A i \in DOMAIN items : items[i].key # k
  <2>1. \A e \in 0 .. l - 1 : items[e + 1].key # k
    BY <1>1, <1>2
  <2>2. \E s \in 0 .. n - 1 : t.hash[s] = 0
    BY <1>1, SoundEmpty
  <2>3. Find(t, k) = -1
    BY <1>1, <2>1, <2>2, FindAbsent
  <2> QED
    BY <1>2, <2>3
<1>3. ASSUME NEW i \in DOMAIN items, items[i].key = k
      PROVE  /\ Find(t, k) # -1 /\ Find(t, k) \in 0 .. n - 1
             /\ t.index[Find(t, k)] \in 0 .. l - 1
             /\ items[t.index[Find(t, k)] + 1].key = k
  <2>1. i - 1 \in 0 .. l - 1 /\ (i - 1) + 1 = i
    BY <1>1
  <2>2. PICK s \in 0 .. n - 1 : t.index[s] = i - 1
    <3>1. PICK E, e : E = 0 .. l - 1 /\ e = i - 1 /\ e \in E /\ Table(t, n, items, E)
      BY <1>1, <2>1
    <3>2. \A x \in E : \E s \in 0 .. n - 1 : t.index[s] = x
      <4>1. Table(t, n, items, E)
        BY <3>1
      <4> QED
        BY ONLY <4>1, SlotIs
    <3> QED
      BY <3>1, <3>2
  <2>3. KeyAt(t, s) = k
    BY <1>3, <2>1, <2>2 DEF KeyAt
  <2>4. t.index[s] >= 0
    BY <2>1, <2>2
  <2>5. Find(t, k) = s
    <3>1. Find(t, KeyAt(t, s)) = s
      BY <1>1, <2>4, FindPresent
    <3> QED
      BY <2>3, <3>1
  <2>6. s # -1
    OBVIOUS
  <2> QED
    BY <1>3, <2>1, <2>2, <2>5, <2>6
<1> QED
  BY <1>1, <1>2, <1>3

(* Growing gives at least the capacity that is asked for.                  *)
LEMMA GrownIs ==
  ASSUME NEW c \in Nat, NEW need \in Nat
  PROVE  Grown(c, need) \in Nat /\ Grown(c, need) >= need
  BY DEF Grown

(* The index that a put looks the key up in. *)
LEMMA PutIndex ==
  ASSUME MapInv, NEW t, t = Roomy(table)
  PROVE  /\ Ready(t, items) /\ ArenaFine(t.arena)
         /\ ~string => t.mode = "none"
         /\ t.mode = "strdup" <=> table.mode = "strdup"
<1>1. string \in BOOLEAN
  BY ConstantsAssumption DEF MapInv
<1>2. CASE table.slots = 0
  <2>1. table = NoTable /\ items = <<>>
    BY <1>2 DEF MapInv, Indexed
  <2>2. PICK mode \in Modes : mode = (IF string THEN "default" ELSE "none")
    BY DEF Modes
  <2>3. t = Empty(B, mode, NoArena)
    BY <1>2, <2>2 DEF Roomy
  <2>4. NoArena \in Arenas /\ ArenaFine(NoArena)
    BY NoArenaFine DEF ArenaFine
  <2>5. Ready(t, items)
    BY <2>1, <2>3, <2>4, EmptySound, FirstSize
  <2>6. t.mode = mode /\ t.arena = NoArena /\ table.mode = "none"
    BY <2>1, <2>3 DEF Empty, NoTable
  <2> QED
    BY <1>1, <2>2, <2>4, <2>5, <2>6
<1>3. CASE table.slots # 0
  <2>1. Sound(table, items) /\ ArenaFine(table.arena)
    BY <1>3 DEF MapInv, Indexed
  <2>2. Ready(t, items) /\ t.mode = table.mode /\ t.arena = table.arena
    BY <2>1, RoomyReady DEF Kept
  <2> QED
    BY <2>1, <2>2 DEF MapInv
<1> QED
  BY <1>2, <1>3

(* strdup gives a block that no key of the map is in. *)
LEMMA NewBlockOfKey ==
  ASSUME MapInv, NEW t, NEW k \in Keys, t.mode = "strdup", table.mode = "strdup"
  PROVE  KeyBlock(t, k) \in Keys \X Nat /\ KeyBlock(t, k) \notin live
<1> DEFINE l == Len(items)
           Ns == {n \in 0 .. l : <<k, n>> \notin live}
<1>1. items \in Seq(Entries) /\ l \in Nat /\ live = Blocked(items)
  BY DEF MapInv, KeysOwned
<1>2. Ns # {}
  <2> SUFFICES ASSUME \A n \in 0 .. l : <<k, n>> \in live PROVE FALSE
    OBVIOUS
  <2> DEFINE f == [n \in 0 .. l |-> CHOOSE i \in DOMAIN items : items[i].block = <<k, n>>]
  <2>1. ASSUME NEW n \in 0 .. l PROVE f[n] \in 1 .. l /\ items[f[n]].block = <<k, n>>
    <3>1. \E i \in DOMAIN items : items[i].block = <<k, n>>
      BY <1>1 DEF Blocked
    <3> QED
      BY <1>1, <3>1
  <2>2. f \in [0 .. l -> 1 .. l]
    BY <2>1
  <2> HIDE DEF f
  <2>3. IsFiniteSet(0 .. l) /\ IsFiniteSet(1 .. l)
        /\ Cardinality(0 .. l) = l + 1 /\ Cardinality(1 .. l) = l
    <3>1. l \in Int /\ 0 \in Int /\ 1 \in Int
      BY <1>1
    <3>2. Cardinality(0 .. l) = (IF 0 > l THEN 0 ELSE l - 0 + 1)
          /\ Cardinality(1 .. l) = (IF 1 > l THEN 0 ELSE l - 1 + 1)
          /\ IsFiniteSet(0 .. l) /\ IsFiniteSet(1 .. l)
      BY <3>1, FS_Interval
    <3> HIDE DEF l
    <3> QED
      BY <1>1, <3>2
  <2>4. Cardinality(1 .. l) < Cardinality(0 .. l)
    BY <1>1, <2>3
  <2>5. PICK m, n \in 0 .. l : m # n /\ f[m] = f[n]
    BY <2>2, <2>3, <2>4, FS_PigeonHole
  <2>6. <<k, m>> = <<k, n>>
    BY <2>1, <2>5
  <2> QED
    BY <2>5, <2>6
<1>3. PICK x \in Ns : \A y \in Ns : x <= y
  <2>1. Ns \subseteq Nat
    OBVIOUS
  <2> HIDE DEF Ns
  <2> QED
    BY <1>2, <2>1, LeastNatural
<1> DEFINE fits(b) == b \notin live /\ \A n \in 0 .. b[2] - 1 : <<k, n>> \in live
           pairs == {<<k, n>> : n \in 0 .. l}
<1>4. <<k, x>> \in pairs /\ fits(<<k, x>>)
  <2>1. x \in 0 .. l /\ <<k, x>> \notin live /\ <<k, x>>[2] = x
    BY <1>3
  <2>2. ASSUME NEW n \in 0 .. x - 1 PROVE <<k, n>> \in live
    <3>1. n \in 0 .. l /\ ~ (x <= n)
      BY <1>1, <2>1
    <3> QED
      BY <1>3, <3>1
  <2> QED
    BY <2>1, <2>2
<1>5. KeyBlock(t, k) = CHOOSE b \in pairs : fits(b)
  BY DEF KeyBlock
<1>6. KeyBlock(t, k) \in pairs /\ fits(KeyBlock(t, k))
  <2> HIDE DEF pairs, fits
  <2> QED
    BY <1>4, <1>5
<1> QED
  BY <1>1, <1>6

(* The slots have not changed.                                             *)
SameIndex(t, u) == u \in Tables(t.slots) /\ u.hash = t.hash /\ u.index = t.index

(* An index with the same slots is as good.                                *)
LEMMA SameIndexTable ==
  ASSUME NEW t, NEW u, NEW n, NEW its, NEW E, Table(t, n, its, E), SameIndex(t, u)
  PROVE  Table(u, n, its, E) /\ Graves(u) = Graves(t)
  BY TableIs, CountersTable DEF SameIndex

(* The arena and temp_key are no part of what is looked up. *)
Touched(t, arena) == [t EXCEPT !.arena = arena, !.temp = Garbage]

(* It is no part of what is looked up.                                     *)
LEMMA Retouched ==
  ASSUME NEW t, NEW its, Sound(t, its), NEW arena \in Arenas
  PROVE  LET u == Touched(t, arena)
         IN  Sound(u, its) /\ u.mode = t.mode /\ u.arena = arena /\ u.slots = t.slots
<1> DEFINE u == Touched(t, arena)
<1> HIDE DEF u
<1>1. PICK n \in Sizes : n = t.slots /\ t \in Tables(n) /\ Table(t, n, its, 0 .. Len(its) - 1)
  BY SoundIs DEF Sound
<1>2. /\ u \in Tables(n) /\ u.hash = t.hash /\ u.index = t.index /\ u.slots = n
      /\ u.used = t.used /\ u.tombs = t.tombs /\ u.mode = t.mode /\ u.arena = arena
  BY <1>1 DEF Tables, u, Touched
<1>3. SameIndex(t, u)
  BY <1>1, <1>2 DEF SameIndex
<1>4. Table(u, n, its, 0 .. Len(its) - 1) /\ Graves(u) = Graves(t)
  BY ONLY <1>1, <1>3, SameIndexTable
<1> QED
  BY <1>1, <1>2, <1>4 DEF Sound, u

-----------------------------------------------------------------------------
(* The calls. *)

(* What the invariant says of an index.                                    *)
LEMMA IndexedIs ==
  ASSUME MapInv, table.slots # 0
  PROVE  /\ Sound(table, items) /\ ArenaFine(table.arena) /\ Len(items) + 1 <= cap
         /\ Distinct(items)
  BY DEF MapInv, Indexed, Mapped

(* Putting a new key keeps the invariant.                                  *)
LEMMA PutNewStep ==
  ASSUME KeysKept, MapInv, NEW k \in Keys, NEW v \in Vals[k], PutNew(k, v), M!Put(k, v)
  PROVE  MapInv'
<1>1. PICK t : t = Roomy(table)
  OBVIOUS
<1>2. Ready(t, items) /\ ArenaFine(t.arena) /\ (~string => t.mode = "none")
      /\ (t.mode = "strdup" <=> table.mode = "strdup")
  BY <1>1, PutIndex
<1>3. PICK l \in Nat : l = Len(items) /\ items \in Seq(Entries) /\ cap \in Nat /\ string \in BOOLEAN
  BY ConstantsAssumption DEF MapInv
<1>4. Sound(t, items) /\ Distinct(items)
  BY <1>2 DEF Ready, MapInv, Mapped
<1>5. \A i \in DOMAIN items : items[i].key # k
  BY <1>1, <1>4, Search DEF PutNew
<1>6. PICK block \in {Caller} \union (Keys \X Nat) :
        /\ block = KeyBlock(t, k)
        /\ t.mode = "strdup" => block \notin live
        /\ t.mode # "strdup" => block = Caller
  <2>1. CASE t.mode = "strdup"
    BY <1>2, <2>1, NewBlockOfKey
  <2>2. CASE t.mode # "strdup"
    BY <2>2 DEF KeyBlock
  <2> QED
    BY <2>1, <2>2
<1>7. PICK e \in Entries : e = [key |-> k, val |-> v, block |-> block] /\ e.key = k /\ e.val = v
                           /\ e.block = block
  <2>1. v \in UNION {Vals[j] : j \in Keys}
    OBVIOUS
  <2>2. [key |-> k, val |-> v, block |-> block] \in Entries
    BY <2>1 DEF Entries
  <2> QED
    BY <2>2
<1>8. PICK t1 : t1 = Taking(t, k)
  OBVIOUS
<1>9. PICK its2 : its2 = Append(items, e)
  OBVIOUS
<1>10. Sound(t1, its2) /\ t1.mode = t.mode /\ t1.arena = t.arena
  BY <1>2, <1>5, <1>7, <1>8, <1>9, TakingSound DEF Kept
<1>11. /\ its2 \in Seq(Entries) /\ Len(its2) = l + 1 /\ its2[l + 1] = e
       /\ \A i \in 1 .. l : its2[i] = items[i]
  BY <1>3, <1>9, Appended
<1>12. /\ items' = its2 /\ cap' = Grown(Grown(cap, 1), l + 2) /\ null' = FALSE
       /\ live' = (IF t.mode = "strdup" THEN live \union {block} ELSE live)
       /\ string' = string /\ default' = default
  BY <1>1, <1>3, <1>6, <1>7, <1>9 DEF PutNew, AddKey
<1>13. table' = [t1 EXCEPT !.arena = IF t.mode = "arena" THEN Stralloc(@, Size[k]) ELSE @,
                           !.temp = IF t.mode = "none" THEN @ ELSE Remember(@, k, block)]
  BY <1>1, <1>6, <1>8 DEF PutNew, AddKey
<1>14. PICK arena : arena = (IF t.mode = "arena" THEN Stralloc(t.arena, Size[k]) ELSE t.arena)
  OBVIOUS
<1>15. ArenaFine(arena)
  BY <1>2, <1>14, StrallocFine, ConstantsAssumption
<1>16. table' = [t1 EXCEPT !.arena = arena, !.temp = Garbage]
  <2>1. t1 \in Tables(t1.slots)
    BY <1>10, SoundIs
  <2>2. t1.temp = Garbage
    BY <2>1 DEF Tables
  <2>3. (IF t.mode = "none" THEN t1.temp ELSE Remember(t1.temp, k, block)) = Garbage
    <3>1. CASE t.mode = "none"
      BY <2>2, <3>1
    <3>2. CASE t.mode # "none"
      <4>1. string = TRUE /\ TRUE \in Strings
        BY <1>2, <1>3, <3>2 DEF MapInv
      <4>2. ~StalePuts
        BY <4>1 DEF KeysKept
      <4> QED
        BY <2>2, <3>2, <4>2 DEF Remember
    <3> QED
      BY <3>1, <3>2
  <2> QED
    BY <1>10, <1>13, <1>14, <2>3
<1>17. /\ Sound(table', its2) /\ table'.mode = t.mode /\ table'.arena = arena
       /\ table'.slots # 0
  <2>1. arena \in Arenas
    BY <1>15 DEF ArenaFine
  <2>2. /\ Sound(table', its2) /\ table'.mode = t1.mode /\ table'.arena = arena
        /\ table'.slots = t1.slots
    <3>1. table' = Touched(t1, arena)
      BY <1>16 DEF Touched
    <3> QED
      BY <1>10, <2>1, <3>1, Retouched
  <2>3. table'.slots \in Nat \ {0}
    BY <2>2, SoundIs
  <2> QED
    BY <1>10, <2>2, <2>3
<1>18. cap' \in Nat /\ Len(its2) + 1 <= cap'
  <2>1. PICK c \in Nat : c = Grown(cap, 1)
    BY <1>3, GrownIs
  <2>2. Grown(c, l + 2) \in Nat /\ Grown(c, l + 2) >= l + 2
    BY GrownIs
  <2> QED
    BY <1>11, <1>12, <2>1, <2>2
<1>19. Indexed'
  BY <1>12, <1>15, <1>17, <1>18 DEF Indexed
<1>20. KeysOwned'
  <2>1. DOMAIN its2 = (1 .. l) \union {l + 1} /\ DOMAIN items = 1 .. l
    BY <1>3, <1>11
  <2>2. CASE t.mode = "strdup"
    <3>1. live = Blocked(items) /\ Apart(items) /\ block \notin live /\ live' = live \union {block}
      BY <1>2, <1>6, <1>12, <2>2 DEF MapInv, KeysOwned
    <3>2. Blocked(its2) = Blocked(items) \union {block}
      BY <1>7, <1>11, <2>1 DEF Blocked
    <3>3. Apart(its2)
      BY <1>7, <1>11, <2>1, <3>1 DEF Blocked, Apart
    <3> QED
      BY <1>12, <1>17, <2>2, <3>1, <3>2, <3>3 DEF KeysOwned
  <2>3. CASE t.mode # "strdup"
    <3>1. live = {} /\ live' = {}
      BY <1>2, <1>12, <2>3 DEF MapInv, KeysOwned
    <3> QED
      BY <1>12, <1>17, <2>3, <3>1 DEF KeysOwned
  <2> QED
    BY <2>2, <2>3
<1>21. Mapped'
  <2>1. DOMAIN its2 = (1 .. l) \union {l + 1} /\ DOMAIN items = 1 .. l
    BY <1>3, <1>11
  <2>2. /\ DOMAIN dict = {items[i].key : i \in DOMAIN items}
        /\ \A i \in DOMAIN items : dict[items[i].key] = items[i].val
    BY DEF MapInv, Mapped
  <2>3. dict' = [j \in DOMAIN dict \union {k} |-> IF j = k THEN v ELSE dict[j]]
    BY DEF M!Put
  <2>4. Distinct(its2)
    BY <1>4, <1>5, <1>7, <1>11, <2>1 DEF Distinct
  <2>5. DOMAIN dict' = {its2[i].key : i \in DOMAIN its2}
    BY <1>7, <1>11, <2>1, <2>2, <2>3
  <2>6. ASSUME NEW i \in DOMAIN its2 PROVE dict'[its2[i].key] = its2[i].val
    <3>1. CASE i = l + 1
      BY <1>7, <1>11, <2>3, <3>1
    <3>2. CASE i \in 1 .. l
      <4>1. its2[i] = items[i] /\ items[i].key \in DOMAIN dict /\ items[i].key # k
        BY <1>5, <1>11, <2>1, <2>2, <3>2
      <4> QED
        BY <2>1, <2>2, <2>3, <3>2, <4>1
    <3> QED
      BY <2>1, <3>1, <3>2
  <2> QED
    BY <1>12, <2>4, <2>5, <2>6 DEF Mapped
<1>22. string' \in Strings /\ null' \in BOOLEAN /\ items' \in Seq(Entries)
       /\ (null' => table'.slots = 0) /\ (~string' => table'.mode = "none")
  BY <1>2, <1>11, <1>12, <1>17 DEF MapInv
<1> QED
  BY <1>18, <1>19, <1>20, <1>21, <1>22 DEF MapInv

(* Entry i has got another value, and nothing else has changed. *)
Revalued(its, i, v, its2) ==
  /\ its2 \in Seq(Entries) /\ Len(its2) = Len(its)
  /\ \A j \in 1 .. Len(its) : /\ its2[j].key = its[j].key /\ its2[j].block = its[j].block
                              /\ its2[j].val = IF j = i THEN v ELSE its[j].val

(* An index is as good in front of entries with other values.              *)
LEMMA RevaluedSound ==
  ASSUME NEW t, NEW its, Sound(t, its), NEW i, NEW v, NEW its2, Revalued(its, i, v, its2)
  PROVE  Sound(t, its2)
<1>1. PICK n, l \in Nat, E \in SUBSET Int :
        n = t.slots /\ l = Len(its) /\ E = 0 .. l - 1 /\ Table(t, n, its, E) /\ Len(its2) = l
        /\ its2 \in Seq(Entries)
  BY SoundIs DEF Sound, Revalued
<1>2. \A e \in E : its2[e + 1].key = its[e + 1].key
  BY <1>1 DEF Revalued
<1>3. Table(t, n, its2, E)
  <2>1. E \subseteq 0 .. Len(its2) - 1
    BY <1>1
  <2> QED
    BY <1>1, <1>2, <2>1, AgreeTable
<1> QED
  BY <1>1, <1>3 DEF Sound

(* Putting a key that is there keeps the invariant.                        *)
LEMMA RevaluedStep ==
  ASSUME MapInv, NEW k \in Keys, NEW v \in Vals[k], NEW t, t = Roomy(table),
         NEW i \in DOMAIN items, items[i].key = k, Revalued(items, i, v, items'), table' = t,
         UNCHANGED <<string, null, default, cap, live>>, table.slots # 0, M!Put(k, v)
  PROVE  MapInv'
<1>1. Ready(t, items) /\ ArenaFine(t.arena) /\ (~string => t.mode = "none")
      /\ (t.mode = "strdup" <=> table.mode = "strdup")
  BY PutIndex
<1>2. Sound(table', items') /\ table'.slots \in Nat \ {0}
  BY <1>1, RevaluedSound, SoundIs DEF Ready
<1>3. PICK l \in Nat : /\ l = Len(items) /\ items \in Seq(Entries) /\ DOMAIN items = 1 .. l
                       /\ items' \in Seq(Entries) /\ DOMAIN items' = 1 .. l /\ Len(items') = l
  BY DEF Revalued, MapInv
<1>4. \A j \in 1 .. l : /\ items'[j].key = items[j].key /\ items'[j].block = items[j].block
                        /\ items'[j].val = IF j = i THEN v ELSE items[j].val
  BY <1>3 DEF Revalued
<1>5. Indexed'
  BY <1>1, <1>2, <1>3, IndexedIs DEF Indexed
<1>6. KeysOwned'
  <2>1. Blocked(items') = Blocked(items)
    BY <1>3, <1>4 DEF Blocked
  <2>2. Apart(items) => Apart(items')
    BY <1>3, <1>4 DEF Apart
  <2> QED
    BY <1>1, <2>1, <2>2 DEF MapInv, KeysOwned
<1>7. Mapped'
  <2>1. /\ DOMAIN dict = {items[j].key : j \in DOMAIN items} /\ Distinct(items)
        /\ \A j \in DOMAIN items : dict[items[j].key] = items[j].val
    BY DEF MapInv, Mapped
  <2>2. dict' = [j \in DOMAIN dict \union {k} |-> IF j = k THEN v ELSE dict[j]]
    BY DEF M!Put
  <2>3. Distinct(items')
    BY <1>3, <1>4, <2>1 DEF Distinct
  <2>4. DOMAIN dict' = {items'[j].key : j \in DOMAIN items'}
    BY <1>3, <1>4, <2>1, <2>2
  <2>5. ASSUME NEW j \in DOMAIN items' PROVE dict'[items'[j].key] = items'[j].val
    <3>1. items[j].key \in DOMAIN dict /\ dict[items[j].key] = items[j].val
      BY <1>3, <2>1
    <3>2. items[j].key = k <=> j = i
      BY <1>3, <2>1 DEF Distinct
    <3> QED
      BY <1>3, <1>4, <2>2, <3>1, <3>2
  <2> QED
    BY <2>3, <2>4, <2>5 DEF Mapped
<1>8. /\ string' \in Strings /\ null' \in BOOLEAN /\ cap' \in Nat
      /\ (null' => table'.slots = 0) /\ (~string' => table'.mode = "none")
  BY <1>1, <1>2 DEF MapInv
<1> QED
  BY <1>3, <1>5, <1>6, <1>7, <1>8 DEF MapInv

(* The entry that a put finds. *)
LEMMA PutFound ==
  ASSUME MapInv, NEW k \in Keys, NEW t, t = Roomy(table), Find(t, k) # -1,
         NEW i, i = t.index[Find(t, k)] + 1
  PROVE  i \in DOMAIN items /\ items[i].key = k /\ table.slots # 0
<1>1. Sound(t, items) /\ Distinct(items) /\ items \in Seq(Entries)
  BY PutIndex DEF Ready, MapInv, Mapped
<1>2. PICK s : s = Find(t, k) /\ t.index[s] \in 0 .. Len(items) - 1 /\ items[t.index[s] + 1].key = k
  BY <1>1, Search
<1>3. i \in DOMAIN items /\ items[i].key = k
  BY <1>1, <1>2
<1>4. items # <<>>
  BY <1>3
<1> QED
  BY <1>3, <1>4 DEF MapInv, Indexed

(* temp_key stays as it is, unless stale keys may be put.                  *)
LEMMA UpdatingSame ==
  ASSUME KeysKept, MapInv, NEW k, NEW t, t = Roomy(table), NEW i
  PROVE  Updating(t, k, i) = t
<1>1. CASE string /\ ~SecondLoop(t, k)
  <2>1. ~StalePuts
    BY <1>1, ConstantsAssumption DEF KeysKept, MapInv
  <2>2. t \in Tables(t.slots)
    BY PutIndex, SoundIs DEF Ready
  <2>3. [t EXCEPT !.temp = Remember(@, items[i].key, items[i].block)] = t
    BY <2>1, <2>2 DEF Remember, Tables
  <2> QED
    BY <1>1, <2>3 DEF Updating
<1>2. CASE ~ (string /\ ~SecondLoop(t, k))
  BY <1>2 DEF Updating
<1> QED
  BY <1>1, <1>2

(* hmput of a key that is there keeps the invariant.                       *)
LEMMA PutAgainStep ==
  ASSUME KeysKept, MapInv, NEW k \in Keys, NEW v \in Vals[k], PutAgain(k, v), M!Put(k, v)
  PROVE  MapInv'
<1>1. PICK t, i : t = Roomy(table) /\ i = t.index[Find(t, k)] + 1
  OBVIOUS
<1>2. /\ Find(t, k) # -1 /\ items' = [items EXCEPT ![i].val = v] /\ table' = Updating(t, k, i)
      /\ UNCHANGED <<string, null, default, cap, live>>
  BY <1>1 DEF PutAgain
<1>3. i \in DOMAIN items /\ items[i].key = k /\ table.slots # 0
  BY <1>1, <1>2, PutFound
<1>4. table' = t
  BY <1>1, <1>2, UpdatingSame
<1>5. Revalued(items, i, v, items')
  <2>1. items \in Seq(Entries) /\ items[i] \in Entries
    BY <1>3 DEF MapInv
  <2>2. PICK e : e = [items[i] EXCEPT !.val = v]
    OBVIOUS
  <2>3. e \in Entries /\ e.key = items[i].key /\ e.block = items[i].block /\ e.val = v
    BY <2>1, <2>2 DEF Entries
  <2>4. items' = [items EXCEPT ![i] = e]
    BY <1>2, <2>2
  <2> QED
    BY <1>3, <2>1, <2>3, <2>4 DEF Revalued
<1> QED
  BY <1>1, <1>2, <1>3, <1>4, <1>5, RevaluedStep

(* So does shputs, which writes the whole entry.                           *)
LEMMA PutsExistingStep ==
  ASSUME KeysKept, MapInv, NEW k \in Keys, NEW v \in Vals[k], PutsExisting(k, v), M!Put(k, v)
  PROVE  MapInv'
<1>1. PICK t, i : t = Roomy(table) /\ i = t.index[Find(t, k)] + 1
  OBVIOUS
<1>2. ~StalePuts /\ ~SecondLoop(t, k)
  BY <1>1, ConstantsAssumption DEF PutsExisting, KeysKept, MapInv
<1>3. /\ Find(t, k) # -1 /\ table' = Updating(t, k, i)
      /\ items' = [items EXCEPT ![i] = [key |-> items[i].key, val |-> v,
                                        block |-> items[i].block]]
      /\ UNCHANGED <<string, null, default, cap, live>>
  BY <1>1, <1>2 DEF PutsExisting
<1>4. i \in DOMAIN items /\ items[i].key = k /\ table.slots # 0
  BY <1>1, <1>3, PutFound
<1>5. table' = t
  BY <1>1, <1>3, UpdatingSame
<1>6. Revalued(items, i, v, items')
  <2>1. items \in Seq(Entries) /\ items[i] \in Entries
    BY <1>4 DEF MapInv
  <2>2. PICK e : e = [key |-> items[i].key, val |-> v, block |-> items[i].block]
    OBVIOUS
  <2>3. e \in Entries /\ e.key = items[i].key /\ e.block = items[i].block /\ e.val = v
    BY <2>1, <2>2 DEF Entries
  <2>4. items' = [items EXCEPT ![i] = e]
    BY <1>3, <2>2
  <2> QED
    BY <1>4, <2>1, <2>3, <2>4 DEF Revalued
<1> QED
  BY <1>1, <1>3, <1>4, <1>5, <1>6, RevaluedStep

-----------------------------------------------------------------------------
(* Making the array of the default entry keeps the invariant.              *)
LEMMA CapOnly ==
  ASSUME MapInv, UNCHANGED <<string, items, table, live, dict>>, null' \in BOOLEAN,
         null' => null, cap' = IF null THEN Grown(0, 1) ELSE cap
  PROVE  MapInv'
<1>1. cap' \in Nat
  BY GrownIs DEF MapInv
<1>2. Indexed'
  <2>1. CASE table.slots = 0
    BY <2>1 DEF MapInv, Indexed
  <2>2. CASE table.slots # 0
    <3>1. ~null
      BY <2>2 DEF MapInv
    <3> QED
      BY <2>2, <3>1, IndexedIs DEF Indexed
  <2> QED
    BY <2>1, <2>2
<1>3. KeysOwned'
  BY DEF MapInv, KeysOwned
<1>4. Mapped'
  BY DEF MapInv, Mapped
<1> QED
  BY <1>1, <1>2, <1>3, <1>4 DEF MapInv

(* sh_new_arena and sh_new_strdup keep the invariant.                      *)
LEMMA NewStringsStep ==
  ASSUME MapInv, NEW mode \in {"strdup", "arena"}, NewStrings(mode), UNCHANGED dict
  PROVE  MapInv'
<1>1. /\ string /\ null /\ null' = FALSE /\ cap' = Grown(0, 1) /\ table' = Empty(B, mode, NoArena)
      /\ UNCHANGED <<string, items, default, live>>
  BY DEF NewStrings
<1>2. table = NoTable /\ items = <<>> /\ live = {}
  <2>1. table = NoTable /\ items = <<>>
    BY <1>1 DEF MapInv, Indexed
  <2>2. table.mode = "none"
    BY <2>1 DEF NoTable
  <2> QED
    BY <2>1, <2>2 DEF MapInv, KeysOwned
<1>3. mode \in Modes /\ NoArena \in Arenas /\ ArenaFine(NoArena)
  BY NoArenaFine DEF Modes, ArenaFine
<1>4. Ready(table', <<>>) /\ table'.slots = B /\ table'.mode = mode /\ table'.arena = NoArena
  BY <1>1, <1>3, EmptySound, FirstSize DEF Empty
<1>5. cap' \in Nat /\ 1 <= cap' /\ B # 0
  BY <1>1, ConstantsAssumption DEF Grown
<1>6. Indexed'
  BY <1>1, <1>2, <1>3, <1>4, <1>5 DEF Ready, Indexed
<1>7. KeysOwned'
  BY <1>1, <1>2 DEF KeysOwned, Blocked, Apart
<1>8. Mapped'
  BY <1>1, <1>2 DEF MapInv, Mapped
<1> QED
  BY <1>1, <1>4, <1>5, <1>6, <1>7, <1>8 DEF MapInv

(* stbds_hmfree_func keeps the invariant, and frees every block.           *)
LEMMA FreeStep ==
  ASSUME MapInv, Free, M!Free
  PROVE  MapInv'
<1>1. /\ null' = TRUE /\ items' = <<>> /\ cap' = 0 /\ table' = NoTable /\ string' = string
      /\ dict' = <<>>
      /\ live' = IF table.mode = "strdup" THEN live \ Blocked(items) ELSE live
  BY DEF Free, M!Free, Blocked
<1>2. table'.slots = 0 /\ table'.mode = "none"
  BY <1>1 DEF NoTable
<1>3. live' = {}
  BY <1>1 DEF MapInv, KeysOwned
<1>4. Mapped'
  BY <1>1 DEF Mapped, Distinct
<1> QED
  BY <1>1, <1>2, <1>3, <1>4 DEF MapInv, Indexed, KeysOwned

(* What a deletion finds: there is no key while there is no index. *)
LEMMA SlotFound ==
  ASSUME MapInv, NEW k \in Keys
  PROVE  /\ SlotOf(k) = -1 => \A i \in DOMAIN items : items[i].key # k
         /\ SlotOf(k) # -1 => /\ table.slots # 0 /\ SlotOf(k) \in 0 .. table.slots - 1
                              /\ table.index[SlotOf(k)] \in 0 .. Len(items) - 1
                              /\ items[table.index[SlotOf(k)] + 1].key = k
<1>1. CASE table.slots = 0
  <2>1. items = <<>> /\ SlotOf(k) = -1
    BY <1>1 DEF MapInv, Indexed, SlotOf
  <2> QED
    BY <2>1
<1>2. CASE table.slots # 0
  <2>1. SlotOf(k) = Find(table, k)
    BY <1>2 DEF SlotOf
  <2>2. Sound(table, items) /\ Distinct(items)
    BY <1>2, IndexedIs
  <2> QED
    BY <1>2, <2>1, <2>2, Search
<1> QED
  BY <1>1, <1>2

(* Deleting a key that is not there keeps the invariant.                   *)
LEMMA DelMissingStep ==
  ASSUME MapInv, NEW k \in Keys, DelMissing(k), M!Del(k)
  PROVE  MapInv'
<1>1. \A i \in DOMAIN items : items[i].key # k
  BY SlotFound DEF DelMissing
<1>2. UNCHANGED <<string, null, items, cap, table, live>>
  BY DEF DelMissing
<1>3. dict' = [j \in DOMAIN dict \ {k} |-> dict[j]]
  BY DEF M!Del
<1>4. Mapped'
  <2>1. /\ DOMAIN dict = {items[j].key : j \in DOMAIN items} /\ Distinct(items)
        /\ \A j \in DOMAIN items : dict[items[j].key] = items[j].val
    BY DEF MapInv, Mapped
  <2>2. k \notin DOMAIN dict
    BY <1>1, <2>1
  <2> QED
    BY <1>2, <1>3, <2>1, <2>2 DEF Mapped
<1>5. Indexed' /\ KeysOwned'
  BY <1>2 DEF MapInv, Indexed, KeysOwned
<1> QED
  BY <1>2, <1>4, <1>5 DEF MapInv

(* Deleting a key keeps the invariant: the index follows the entry that    *)
(* moves, and the block of the key, and no other, is freed.                *)
LEMMA DelFoundStep ==
  ASSUME MapInv, NEW k \in Keys, DelFound(k), M!Del(k)
  PROVE  MapInv'
<1>1. PICK slot, old : slot = SlotOf(k) /\ old = table.index[slot]
  OBVIOUS
<1>2. /\ slot # -1 /\ live' = live \ {items[old + 1].block}
      /\ items' = SubSeq([items EXCEPT ![old + 1] = items[Len(items)]], 1, Len(items) - 1)
      /\ table' = Tidy(Unlinked(table, slot)) /\ UNCHANGED <<string, null, default, cap>>
  BY <1>1 DEF DelFound
<1>3. /\ table.slots # 0 /\ slot \in 0 .. table.slots - 1 /\ old \in 0 .. Len(items) - 1
      /\ items[old + 1].key = k
  BY <1>1, <1>2, SlotFound
<1>4. Sound(table, items) /\ ArenaFine(table.arena) /\ Len(items) + 1 <= cap /\ Distinct(items)
  BY <1>3, IndexedIs
<1>5. PICK l \in Nat : l = Len(items) /\ items \in Seq(Entries) /\ cap \in Nat
                       /\ DOMAIN items = 1 .. l
  BY DEF MapInv
<1>6. MovedInto(items, old, items')
  BY <1>2, <1>3, <1>5, Shortened
<1>7. Sound(table', items') /\ table'.mode = table.mode /\ table'.arena = table.arena
  <2>1. MovedInto(items, table.index[slot], items') /\ table.index[slot] >= 0
    BY <1>1, <1>3, <1>6
  <2>2. Untidy(Unlinked(table, slot), table.slots, items') /\ Kept(Unlinked(table, slot), table)
    BY <1>3, <1>4, <2>1, UnlinkedUntidy
  <2>3. Sound(Tidy(Unlinked(table, slot)), items')
        /\ Kept(Tidy(Unlinked(table, slot)), Unlinked(table, slot))
    BY <2>2, TidySound
  <2> QED
    BY <1>2, <2>2, <2>3 DEF Kept
<1>8. table'.slots \in Nat \ {0}
  BY <1>7, SoundIs
<1>9. /\ items' \in Seq(Entries) /\ Len(items') = l - 1 /\ DOMAIN items' = 1 .. l - 1
      /\ \A i \in 1 .. l - 1 : items'[i] = IF i = old + 1 THEN items[l] ELSE items[i]
  BY <1>5, <1>6 DEF MovedInto
<1>10. PICK d \in 1 .. l : d = old + 1 /\ items[d].key = k /\ l \in 1 .. l
  BY <1>3, <1>5
<1>11. Indexed'
  <2>1. Len(items') + 1 <= cap'
    BY <1>2, <1>4, <1>5, <1>9
  <2> QED
    BY <1>4, <1>7, <1>8, <2>1 DEF Indexed
<1>12. ASSUME NEW x \in 1 .. l, x # d
       PROVE  \E i \in 1 .. l - 1 : items'[i] = items[x]
  <2>1. CASE x = l
    <3>1. d \in 1 .. l - 1 /\ items'[d] = items[l]
      BY <1>9, <1>10, <1>12, <2>1
    <3> QED
      BY <2>1, <3>1
  <2>2. CASE x # l
    <3>1. x \in 1 .. l - 1 /\ items'[x] = items[x]
      BY <1>9, <1>10, <1>12, <2>2
    <3> QED
      BY <3>1
  <2> QED
    BY <2>1, <2>2
<1>13. \A i \in 1 .. l - 1 : \E x \in 1 .. l : x # d /\ items'[i] = items[x]
                             /\ x = IF i = d THEN l ELSE i
  BY <1>9, <1>10
<1>14. KeysOwned'
  <2>1. CASE table.mode = "strdup"
    <3>1. live = Blocked(items) /\ Apart(items) /\ live' = live \ {items[d].block}
      BY <1>2, <1>10, <2>1 DEF MapInv, KeysOwned
    <3>2. Blocked(items') = live'
      <4>1. ASSUME NEW b \in Blocked(items') PROVE b \in live'
        <5>1. PICK i \in 1 .. l - 1 : b = items'[i].block
          BY <1>9 DEF Blocked
        <5>2. PICK x \in 1 .. l : x # d /\ b = items[x].block
          BY <1>13, <5>1
        <5> QED
          BY <1>5, <3>1, <5>2 DEF Blocked, Apart
      <4>2. ASSUME NEW b \in live' PROVE b \in Blocked(items')
        <5>1. PICK x \in 1 .. l : b = items[x].block /\ x # d
          BY <1>5, <3>1 DEF Blocked
        <5>2. PICK i \in 1 .. l - 1 : items'[i] = items[x]
          BY <1>12, <5>1
        <5> QED
          BY <1>9, <5>1, <5>2 DEF Blocked
      <4> QED
        BY <4>1, <4>2
    <3>3. Apart(items')
      <4> SUFFICES ASSUME NEW i \in 1 .. l - 1, NEW j \in 1 .. l - 1,
                          items'[i].block = items'[j].block
                   PROVE  i = j
        BY <1>9 DEF Apart
      <4>1. PICK x \in 1 .. l, y \in 1 .. l :
              /\ x # d /\ items'[i] = items[x] /\ x = (IF i = d THEN l ELSE i)
              /\ y # d /\ items'[j] = items[y] /\ y = (IF j = d THEN l ELSE j)
        BY <1>13
      <4>2. x = y
        BY <1>5, <3>1, <4>1 DEF Apart
      <4> QED
        BY <4>1, <4>2
    <3> QED
      BY <1>7, <2>1, <3>2, <3>3 DEF KeysOwned
  <2>2. CASE table.mode # "strdup"
    BY <1>2, <1>7, <2>2 DEF MapInv, KeysOwned
  <2> QED
    BY <2>1, <2>2
<1>15. Mapped'
  <2>1. /\ DOMAIN dict = {items[j].key : j \in DOMAIN items} /\ Distinct(items)
        /\ \A j \in DOMAIN items : dict[items[j].key] = items[j].val
    BY DEF MapInv, Mapped
  <2>2. dict' = [j \in DOMAIN dict \ {k} |-> dict[j]]
    BY DEF M!Del
  <2>3. Distinct(items')
    <3> SUFFICES ASSUME NEW i \in 1 .. l - 1, NEW j \in 1 .. l - 1, items'[i].key = items'[j].key
                 PROVE  i = j
      BY <1>9 DEF Distinct
    <3>1. PICK x \in 1 .. l, y \in 1 .. l :
            /\ x # d /\ items'[i] = items[x] /\ x = (IF i = d THEN l ELSE i)
            /\ y # d /\ items'[j] = items[y] /\ y = (IF j = d THEN l ELSE j)
      BY <1>13
    <3>2. x = y
      BY <1>5, <2>1, <3>1 DEF Distinct
    <3> QED
      BY <3>1, <3>2
  <2>4. \A x \in 1 .. l : items[x].key = k <=> x = d
    BY <1>5, <1>10, <2>1 DEF Distinct
  <2>5. DOMAIN dict' = {items'[j].key : j \in DOMAIN items'}
    <3>1. DOMAIN dict' = DOMAIN dict \ {k}
      BY <2>2
    <3>2. ASSUME NEW j \in DOMAIN items' PROVE items'[j].key \in DOMAIN dict'
      <4>1. PICK x \in 1 .. l : x # d /\ items'[j] = items[x]
        BY <1>9, <1>13
      <4> QED
        BY <1>5, <2>1, <2>4, <3>1, <4>1
    <3>3. ASSUME NEW key \in DOMAIN dict' PROVE \E j \in DOMAIN items' : items'[j].key = key
      <4>1. PICK x \in 1 .. l : key = items[x].key /\ x # d
        BY <1>5, <2>1, <2>4, <3>1
      <4> QED
        BY <1>9, <1>12, <4>1
    <3> QED
      BY <3>2, <3>3
  <2>6. ASSUME NEW i \in DOMAIN items' PROVE dict'[items'[i].key] = items'[i].val
    <3>1. PICK x \in 1 .. l : x # d /\ items'[i] = items[x]
      BY <1>9, <1>13
    <3>2. items[x].key # k /\ items[x].key \in DOMAIN dict
      BY <1>5, <2>1, <2>4, <3>1
    <3> QED
      BY <1>5, <2>1, <2>2, <3>1, <3>2
  <2> QED
    BY <2>3, <2>5, <2>6 DEF Mapped
<1>16. /\ string' \in Strings /\ null' \in BOOLEAN /\ cap' \in Nat
       /\ (null' => table'.slots = 0) /\ (~string' => table'.mode = "none")
  BY <1>2, <1>3, <1>7 DEF MapInv
<1> QED
  BY <1>9, <1>11, <1>14, <1>15, <1>16 DEF MapInv

-----------------------------------------------------------------------------
(* The theorems. *)

(* Every call keeps the invariant.                                         *)
LEMMA NextMap ==
  ASSUME KeysKept, MapInv, [Next]_vars
  PROVE  MapInv'
<1>1. CASE UNCHANGED vars
  BY <1>1 DEF vars, MapInv, Indexed, KeysOwned, Mapped
<1>2. ASSUME NEW k \in Keys, Get(k), UNCHANGED dict PROVE MapInv'
  BY <1>2, CapOnly DEF Get
<1>3. ASSUME NEW k \in Keys, DelMissing(k), M!Del(k) PROVE MapInv'
  BY <1>3, DelMissingStep
<1>4. ASSUME NEW k \in Keys, DelFound(k), M!Del(k) PROVE MapInv'
  BY <1>4, DelFoundStep
<1>5. ASSUME NEW k \in Keys, NEW v \in Vals[k], PutNew(k, v), M!Put(k, v) PROVE MapInv'
  BY <1>5, PutNewStep
<1>6. ASSUME NEW k \in Keys, NEW v \in Vals[k], PutAgain(k, v), M!Put(k, v) PROVE MapInv'
  BY <1>6, PutAgainStep
<1>7. ASSUME NEW k \in Keys, NEW v \in Vals[k], PutsExisting(k, v), M!Put(k, v) PROVE MapInv'
  BY <1>7, PutsExistingStep
<1>8. ASSUME NEW v \in Defaults[table.mode], SetDefault(v), M!Default(v) PROVE MapInv'
  BY <1>8, CapOnly DEF SetDefault, M!Default
<1>9. ASSUME NEW mode \in {"strdup", "arena"}, NewStrings(mode), UNCHANGED dict PROVE MapInv'
  BY <1>9, NewStringsStep
<1>10. CASE Free /\ M!Free
  BY <1>10, FreeStep
<1> QED
  BY <1>1, <1>2, <1>3, <1>4, <1>5, <1>6, <1>7, <1>8, <1>9, <1>10 DEF Next

(* After any calls, the index, the entries, the owners of the keys and the *)
(* map that the calls should make agree: of stbds_hmput_key,               *)
(* stbds_hmdel_key, stbds_hmget_key, shmode_func and stbds_hmfree_func,    *)
(* for every set of keys, every hash and both lengths of a bucket.         *)
THEOREM MapInvariant ==
  ASSUME KeysKept
  PROVE  Spec => []MapInv
<1>1. Init => MapInv
  BY InitMap
<1>2. MapInv /\ [Next]_vars => MapInv'
  BY NextMap
<1> QED
  BY <1>1, <1>2, PTL DEF Spec

(* There is always an empty slot, so that the loops of stbds_hm_find_slot  *)
(* and stbds_hmput_key end (stb_ds.h:934), and used_count and              *)
(* tombstone_count count the slots in use and the tombstones.              *)
THEOREM ProbesAlwaysEnd ==
  ASSUME KeysKept
  PROVE  Spec => []ProbesEnd
<1>1. ASSUME MapInv PROVE ProbesEnd
  <2> SUFFICES ASSUME table.slots > 0
               PROVE  /\ \E i \in SlotsOf(table) : table.hash[i] = 0
                      /\ table.used = Cardinality(InUse(table))
                      /\ table.tombs = Cardinality(Graves(table))
    BY DEF ProbesEnd, InUse, Graves
  <2>1. Sound(table, items)
    BY <1>1, IndexedIs
  <2>2. \E i \in SlotsOf(table) : table.hash[i] = 0
    BY <2>1, SoundEmpty DEF SlotsOf
  <2>3. Cardinality(InUse(table)) = Cardinality(0 .. Len(items) - 1)
    BY <2>1, InUseCounted DEF Sound
  <2>4. Cardinality(0 .. Len(items) - 1) = Len(items)
    BY <2>1, SoundIs
  <2> QED
    BY <2>1, <2>2, <2>3, <2>4 DEF Sound
<1> QED
  BY <1>1, MapInvariant, PTL

(* Every slot in use points to the entry whose key it hashes, the search   *)
(* for the key ends there, and every entry has exactly one slot.           *)
THEOREM IndexMatches ==
  ASSUME KeysKept
  PROVE  Spec => []IndexMatchesEntries
<1>1. ASSUME MapInv, table.slots > 0
      PROVE  /\ Len(items) + 1 <= cap
             /\ \A i \in SlotsOf(table) :
                  table.index[i] >= 0 =>
                    /\ table.index[i] < Len(items)
                    /\ table.hash[i] = HashOf(KeyAt(table, i))
                    /\ Find(table, KeyAt(table, i)) = i
             /\ \A e \in DOMAIN items :
                  Cardinality({i \in SlotsOf(table) : table.index[i] = e - 1}) = 1
  <2>1. /\ Sound(table, items) /\ Len(items) + 1 <= cap /\ Distinct(items)
    BY <1>1, IndexedIs
  <2>2. PICK n, l \in Nat, E \in SUBSET Int :
          /\ n = table.slots /\ l = Len(items) /\ E = 0 .. l - 1 /\ Table(table, n, items, E)
          /\ DOMAIN items = 1 .. l
    BY <2>1, SoundIs DEF Sound
  <2>3. ASSUME NEW i \in SlotsOf(table), table.index[i] >= 0
        PROVE  /\ table.index[i] < Len(items)
               /\ table.hash[i] = HashOf(KeyAt(table, i))
               /\ Find(table, KeyAt(table, i)) = i
    <3>1. i \in 0 .. n - 1
      BY <2>2 DEF SlotsOf
    <3>2. table.index[i] \in E /\ table.hash[i] = HashOf(items[table.index[i] + 1].key)
      BY <2>2, <2>3, <3>1, SlotIs
    <3>3. Find(table, KeyAt(table, i)) = i
      BY <2>1, <2>2, <2>3, <3>1, FindPresent
    <3> QED
      BY <2>2, <3>2, <3>3 DEF KeyAt
  <2>4. ASSUME NEW e \in DOMAIN items
        PROVE  Cardinality({i \in SlotsOf(table) : table.index[i] = e - 1}) = 1
    <3>1. PICK x \in E : x = e - 1
      BY <2>2
    <3>2. PICK s \in 0 .. n - 1 : table.index[s] = x
      <4>1. Table(table, n, items, E)
        BY <2>2
      <4>2. \A y \in E : \E s \in 0 .. n - 1 : table.index[s] = y
        BY ONLY <4>1, SlotIs
      <4> QED
        BY <4>2
    <3>3. \A r \in 0 .. n - 1 : table.index[r] = x => r = s
      BY <2>2, <3>2, SlotIs
    <3>4. {i \in SlotsOf(table) : table.index[i] = e - 1} = {s}
      BY <2>2, <3>1, <3>2, <3>3 DEF SlotsOf
    <3> QED
      BY <3>4, FS_Singleton
  <2> QED
    BY <2>1, <2>3, <2>4
<1>2. ASSUME MapInv PROVE IndexMatchesEntries
  BY <1>1, <1>2 DEF IndexMatchesEntries
<1> QED
  BY <1>2, MapInvariant, PTL

(* Every block that strdup made is owned by exactly one entry, and freed   *)
(* with it; strings of an arena neither overlap nor leave their blocks.    *)
THEOREM KeysHaveOneOwner ==
  ASSUME KeysKept
  PROVE  Spec => []KeysOwnedOnce
<1>1. ASSUME MapInv PROVE KeysOwnedOnce
  <2>1. ArenaSound(table.arena)
    <3>1. CASE table.slots = 0
      <4>1. table = NoTable
        BY <1>1, <3>1 DEF MapInv, Indexed
      <4> QED
        BY <4>1, NoArenaFine DEF NoTable, ArenaFine
    <3>2. CASE table.slots # 0
      BY <1>1, <3>2, IndexedIs DEF ArenaFine
    <3> QED
      BY <3>1, <3>2
  <2> QED
    BY <1>1, <2>1 DEF MapInv, KeysOwned, KeysOwnedOnce, Blocked, Apart
<1> QED
  BY <1>1, MapInvariant, PTL

(* Every lookup, after any calls, gives what a map would give.             *)
THEOREM MapImplemented ==
  ASSUME KeysKept
  PROVE  Spec => []IsMap
<1>1. ASSUME MapInv, NEW k \in Keys PROVE Lookup(k) = M!Lookup(k)
  <2>1. /\ DOMAIN dict = {items[j].key : j \in DOMAIN items}
        /\ \A j \in DOMAIN items : dict[items[j].key] = items[j].val
        /\ items \in Seq(Entries)
    BY <1>1 DEF MapInv, Mapped
  <2>2. CASE SlotOf(k) = -1
    <3>1. k \notin DOMAIN dict
      BY <1>1, <2>1, <2>2, SlotFound
    <3> QED
      BY <2>2, <3>1 DEF Lookup, M!Lookup
  <2>3. CASE SlotOf(k) # -1
    <3>1. PICK i : i = table.index[SlotOf(k)] + 1
      OBVIOUS
    <3>2. i \in DOMAIN items /\ items[i].key = k
      BY <1>1, <2>1, <2>3, <3>1, SlotFound
    <3>3. k \in DOMAIN dict /\ dict[k] = items[i].val
      BY <2>1, <3>2
    <3> QED
      BY <2>3, <3>1, <3>3 DEF Lookup, M!Lookup
  <2> QED
    BY <2>2, <2>3
<1>2. MapInv => IsMap
  BY <1>1 DEF IsMap
<1> QED
  BY <1>2, MapInvariant, PTL
=============================================================================
