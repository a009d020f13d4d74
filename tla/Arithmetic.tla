----------------------------- MODULE Arithmetic -----------------------------
(***************************************************************************)
(* Arithmetic of first byte numbers: multiples of the package size, the    *)
(* position of a package in a run of packages, and the remainders that the *)
(* alignment test of the buffer and the slots of the cache are made of.    *)
(* And the order of the numbers, with induction in a form that names a set *)
(* in place of a predicate.                                                *)
(***************************************************************************)
EXTENDS Integers, WellFoundedInduction, TLAPS

\* Division with remainder, as the position and alignment tests use it.
LEMMA DivMod ==
  ASSUME NEW a \in Nat, NEW d \in Nat \ {0}
  PROVE  /\ a \div d \in Nat
         /\ a % d \in 0..(d - 1)
         /\ a = (d * (a \div d)) + (a % d)
  BY SMT

\* The quotient is the only one.
LEMMA DivUnique ==
  ASSUME NEW q \in Nat, NEW r \in Nat, NEW d \in Nat \ {0}, r < d
  PROVE  ((q * d) + r) \div d = q
  BY SMT

\* The length of a run of packages is a number of bytes.
LEMMA ProductIsNat ==
  ASSUME NEW a \in Nat, NEW b \in Nat
  PROVE  a * b \in Nat
  BY SMT

\* So many packages after an id is an id, and the counts of packages add up.
LEMMA PackagesAfter ==
  ASSUME NEW a \in Nat, NEW j \in Nat, NEW k \in Nat, NEW step \in Nat
  PROVE  /\ a + (k * step) \in Nat
         /\ (a + (j * step)) + (k * step) = a + ((j + k) * step)
<1>1. k * step \in Nat
  BY ProductIsNat
<1>2. QED
  BY <1>1

\* A sum of multiples of the package size is a multiple of it.
LEMMA MultipleSum ==
  ASSUME NEW a \in Nat, NEW b \in Nat, NEW d \in Nat \ {0}, a % d = 0, b % d = 0
  PROVE  (a + b) % d = 0
<1> DEFINE p == a \div d
           q == b \div d
<1>1. p \in Nat /\ q \in Nat /\ a = d * p /\ b = d * q
  BY DivMod
<1> HIDE DEF p, q
<1>2. a + b = (p + q) * d
  BY <1>1
<1>3. (a + b) \div d = p + q
  <2>1. p + q \in Nat
    BY <1>1
  <2>2. (((p + q) * d) + 0) \div d = p + q
    BY <2>1, DivUnique
  <2>3. ((p + q) * d) + 0 = a + b
    BY <1>1, <1>2
  <2>4. QED
    BY <2>2, <2>3
<1>4. a + b \in Nat
  OBVIOUS
<1>5. a + b = (d * (p + q)) + ((a + b) % d) /\ (a + b) % d \in 0..(d - 1)
  BY <1>3, <1>4, DivMod
<1>6. d * (p + q) = (p + q) * d
  BY <1>1
<1>7. QED
  BY <1>2, <1>5, <1>6

\* The package size is a multiple of itself.
LEMMA MultipleOne ==
  ASSUME NEW d \in Nat \ {0}
  PROVE  d % d = 0
  BY SMT

\* Two aligned ids differ by a whole number of packages.
LEMMA AlignedDifference ==
  ASSUME NEW a \in Nat, NEW b \in Nat, NEW d \in Nat \ {0},
         a % d = 0, b % d = 0, a <= b
  PROVE  /\ (b - a) \div d \in Nat
         /\ b = a + (((b - a) \div d) * d)
<1> DEFINE p == a \div d
           q == b \div d
<1>1. p \in Nat /\ q \in Nat /\ a = d * p /\ b = d * q
  BY DivMod
<1> HIDE DEF p, q
<1>2. q >= p
  <2>1. CASE q < p
    <3>1. d * (p - q) > 0
      BY <1>1, <2>1
    <3>2. d * (p - q) = a - b
      BY <1>1
    <3> QED
      BY <3>1, <3>2
  <2> QED
    BY <2>1, <1>1
<1>3. b - a = ((q - p) * d) + 0
  BY <1>1
<1>4. q - p \in Nat
  BY <1>1, <1>2
<1>5. (b - a) \div d = q - p
  <2>1. (((q - p) * d) + 0) \div d = q - p
    BY <1>4, DivUnique
  <2> QED
    BY <2>1, <1>3
<1>6. QED
  BY <1>3, <1>4, <1>5

\* The number of reserved slots between the newest id and a newer message, and
\* that the message follows the last of them.
LEMMA GapLength ==
  ASSUME NEW last \in Nat, NEW id \in Nat, NEW step \in Nat \ {0},
         last % step = 0, id % step = 0, id > last
  PROVE  /\ (id - last - 1) \div step \in Nat
         /\ id = last + ((((id - last - 1) \div step) + 1) * step)
<1> DEFINE k == (id - last) \div step
<1>1. k \in Nat /\ id = last + (k * step)
  <2>1. last <= id
    OBVIOUS
  <2> QED
    BY <2>1, AlignedDifference
<1> HIDE DEF k
<1>2. k > 0
  BY <1>1
<1>3. id - last - 1 = ((k - 1) * step) + (step - 1)
  BY <1>1
<1>4. (id - last - 1) \div step = k - 1
  <2>1. k - 1 \in Nat /\ step - 1 \in Nat /\ step - 1 < step
    BY <1>1, <1>2
  <2>2. (((k - 1) * step) + (step - 1)) \div step = k - 1
    BY <2>1, DivUnique
  <2> QED
    BY <2>2, <1>3
<1>5. QED
  BY <1>1, <1>2, <1>4

\* A remainder is no larger than what is divided.
LEMMA RemainderBound ==
  ASSUME NEW a \in Nat, NEW d \in Nat \ {0}
  PROVE  a % d \in 0..(d - 1) /\ a % d <= a
<1>1. /\ a \div d \in Nat /\ a % d \in 0..(d - 1)
      /\ a = (d * (a \div d)) + (a % d)
  BY DivMod
<1> DEFINE q == a \div d
           r == a % d
<1> HIDE DEF q, r
<1>2. q \in Nat /\ r \in 0..(d - 1) /\ a = (d * q) + r
  BY <1>1 DEF q, r
<1>3. d * q \in Nat
  BY <1>2, ProductIsNat
<1>4. r <= a
  BY <1>2, <1>3
<1>5. QED
  BY <1>2, <1>4 DEF r


-----------------------------------------------------------------------------
(* The order of the numbers *)

\* A set of numbers that is not empty has a least member.
LEMMA LeastNumber ==
  ASSUME NEW S, S \subseteq Nat, S # {}
  PROVE  \E x \in S : \A y \in S : x <= y
<1> DEFINE R == OpToRel(<, Nat)
<1>1. IsWellFoundedOn(R, Nat)
  BY NatLessThanWellFounded
<1>2. \A x, y \in Nat : <<y, x>> \in R <=> y < x
  BY DEF OpToRel
<1> HIDE DEF R
<1>3. PICK x \in S : \A y \in S : ~ (<<y, x>> \in R)
  BY <1>1, WFMin
<1>4. ASSUME NEW y \in S
      PROVE  x <= y
  <2>1. x \in Nat /\ y \in Nat
    OBVIOUS
  <2>2. ~ (y < x)
    BY <1>2, <1>3, <2>1
  <2>3. QED
    BY <2>1, <2>2
<1>5. QED
  BY <1>4

\* A set with 0 and with the successor of each number in it has every number.
LEMMA SetInduction ==
  ASSUME NEW S, 0 \in S, \A n \in Nat : n \in S => n + 1 \in S
  PROVE  Nat \subseteq S
<1> DEFINE T == Nat \ S
<1>1. SUFFICES ASSUME T # {} PROVE FALSE
  OBVIOUS
<1>2. T \subseteq Nat
  OBVIOUS
<1> HIDE DEF T
<1>3. PICK x \in T : \A y \in T : x <= y
  BY <1>1, <1>2, LeastNumber
<1>4. x \in Nat /\ x \notin S /\ x # 0
  BY DEF T
<1>5. x - 1 \in Nat /\ ~ (x <= x - 1) /\ (x - 1) + 1 = x
  BY <1>4
<1>6. x - 1 \in T
  BY <1>4, <1>5 DEF T
<1>7. QED
  BY <1>3, <1>5, <1>6

\* A step from the value at i - 1 to that at i, and a function made of such steps.
StepFunctions(N, S) == [(1..N) \X S -> S]
Follows(f, first, step, N, S) ==
  /\ f \in [0..N -> S] /\ f[0] = first
  /\ \A i \in 1..N : f[i] = step[<<i, f[i - 1]>>]

\* A function may be defined by its first value and the step from one to the next.
LEMMA RecursionExists ==
  ASSUME NEW S, NEW first \in S, NEW N \in Nat, NEW step \in StepFunctions(N, S)
  PROVE  \E f : Follows(f, first, step, N, S)
<1> USE DEF StepFunctions, Follows
<1> DEFINE Upto(n, f) == Follows(f, first, step, n, S)
           K == {n \in Nat : n <= N => \E f : Upto(n, f)}
<1>1. 0 \in K
  <2>1. Upto(0, [i \in 0..0 |-> first])
    OBVIOUS
  <2>2. QED
    BY <2>1
<1>2. ASSUME NEW n \in Nat, n \in K
      PROVE  n + 1 \in K
  <2>1. SUFFICES ASSUME n + 1 <= N
                 PROVE  \E f : Upto(n + 1, f)
    OBVIOUS
  <2>2. PICK f : Upto(n, f)
    BY <1>2, <2>1
  <2> DEFINE g == [i \in 0..(n + 1) |-> IF i = n + 1 THEN step[<<n + 1, f[n]>>] ELSE f[i]]
  <2>3. f[n] \in S /\ n + 1 \in 1..N
    BY <2>1, <2>2
  <2>4. step[<<n + 1, f[n]>>] \in S
    BY <2>3
  <2>5. /\ g[n + 1] = step[<<n + 1, f[n]>>]
        /\ \A i \in 0..n : g[i] = f[i]
    OBVIOUS
  <2>6. g \in [0..(n + 1) -> S]
    BY <2>2, <2>4
  <2> HIDE DEF g
  <2>7. ASSUME NEW i \in 1..(n + 1)
        PROVE  g[i] = step[<<i, g[i - 1]>>]
    <3>1. CASE i = n + 1
      <4>1. g[i - 1] = f[n]
        BY <2>5, <3>1
      <4>2. QED
        BY <2>5, <3>1, <4>1
    <3>2. CASE i \in 1..n
      <4>1. i \in 0..n /\ i - 1 \in 0..n
        BY <3>2
      <4>2. QED
        BY <2>2, <2>5, <3>2, <4>1
    <3>3. QED
      BY <3>1, <3>2
  <2>8. Upto(n + 1, g)
    BY <2>2, <2>5, <2>6, <2>7
  <2>9. QED
    BY <2>8
<1>3. Nat \subseteq K
  <2> HIDE DEF K
  <2>1. QED
    BY <1>1, <1>2, SetInduction
<1>4. QED
  BY <1>3

\* What the first value is and every step keeps, all values are.
LEMMA StepsStayIn ==
  ASSUME NEW S, NEW N \in Nat, NEW f, f[0] \in S,
         \A i \in 1..N : f[i - 1] \in S => f[i] \in S
  PROVE  \A i \in 0..N : f[i] \in S
<1> DEFINE K == {n \in Nat : n <= N => f[n] \in S}
<1>1. 0 \in K
  OBVIOUS
<1>2. ASSUME NEW n \in Nat, n \in K
      PROVE  n + 1 \in K
  <2>1. SUFFICES ASSUME n + 1 <= N
                 PROVE  f[n + 1] \in S
    OBVIOUS
  <2>2. n + 1 \in 1..N /\ (n + 1) - 1 = n /\ f[n] \in S
    BY <1>2, <2>1
  <2>3. QED
    BY <2>2
<1>3. Nat \subseteq K
  <2> HIDE DEF K
  <2>1. QED
    BY <1>1, <1>2, SetInduction
<1>4. QED
  BY <1>3
=============================================================================
