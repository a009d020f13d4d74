--------------------------- MODULE DataLinkProofs ---------------------------
(***************************************************************************)
(* What the datagrams and the descriptors of a sender guarantee for every  *)
(* size of a byte and of a number, every set of packages and every limit   *)
(* on descriptors.                                                         *)
(***************************************************************************)
EXTENDS DataLink, Arithmetic, SequenceTheorems, TLAPS

-----------------------------------------------------------------------------
(* Numbers and their bytes *)

\* What the constants are, without the packages.
LEMMA Sizes ==
  Base \in Nat \ {0} /\ Base \in Nat /\ Base > 0 /\ Width \in Nat
  BY DataLinkAssumption

\* Power counts the values of so many bytes.
LEMMA PowerValue ==
  /\ \A n \in 0..Width : Power[n] \in Nat
  /\ Power[0] = 1
  /\ \A n \in 1..Width : Power[n] = Base * Power[n - 1]
<1> DEFINE step == [x \in (1..Width) \X Nat |-> Base * x[2]]
<1>1. step \in StepFunctions(Width, Nat)
  BY Sizes, ProductIsNat DEF StepFunctions
<1>2. \A i \in 1..Width, k \in Nat : step[<<i, k>>] = Base * k
  OBVIOUS
<1> HIDE DEF step
<1>3. PICK f : Follows(f, 1, step, Width, Nat)
  <2>1. 1 \in Nat /\ Width \in Nat
    BY Sizes
  <2>2. QED
    BY <1>1, <2>1, RecursionExists
<1>4. \A i \in 1..Width : f[i] = Base * f[i - 1]
  <2>1. \A i \in 1..Width : i - 1 \in 0..Width
    BY Sizes
  <2>2. QED
    BY <1>2, <1>3, <2>1 DEF Follows
<1>5. f = [n \in 0..Width |-> IF n = 0 THEN 1 ELSE Base * f[n - 1]]
  <2>1. \A n \in 0..Width : f[n] = IF n = 0 THEN 1 ELSE Base * f[n - 1]
    BY <1>3, <1>4, Sizes DEF Follows
  <2>2. QED
    BY <1>3, <2>1 DEF Follows
<1>6. Power = [n \in 0..Width |-> IF n = 0 THEN 1 ELSE Base * Power[n - 1]]
  BY <1>5 DEF Power
<1>7. Power[0] = 1 /\ \A n \in 1..Width : Power[n] = Base * Power[n - 1]
  <2>1. 0 \in 0..Width /\ \A n \in 1..Width : n \in 0..Width /\ n # 0
    BY Sizes
  <2>2. QED
    BY <1>6, <2>1
<1>8. \A n \in 0..Width : Power[n] \in Nat
  <2>1. Power[0] \in Nat /\ \A n \in 1..Width : Power[n - 1] \in Nat => Power[n] \in Nat
    BY <1>7, Sizes, ProductIsNat
  <2>2. QED
    BY <2>1, Sizes, StepsStayIn
<1>9. QED
  BY <1>7, <1>8

\* Shifted divides by Base again and again.
LEMMA ShiftedValue ==
  ASSUME NEW v \in Nat
  PROVE  /\ \A n \in 0..Width : Shifted(v)[n] \in Nat
         /\ Shifted(v)[0] = v
         /\ \A n \in 1..Width : Shifted(v)[n] = Shifted(v)[n - 1] \div Base
<1> DEFINE step == [x \in (1..Width) \X Nat |-> x[2] \div Base]
           rest == Shifted(v)
<1>1. step \in StepFunctions(Width, Nat)
  BY Sizes, DivMod DEF StepFunctions
<1>2. \A i \in 1..Width, k \in Nat : step[<<i, k>>] = k \div Base
  OBVIOUS
<1> HIDE DEF step
<1>3. PICK f : Follows(f, v, step, Width, Nat)
  BY <1>1, Sizes, RecursionExists
<1>4. \A i \in 1..Width : f[i] = f[i - 1] \div Base
  <2>1. \A i \in 1..Width : i - 1 \in 0..Width
    BY Sizes
  <2>2. QED
    BY <1>2, <1>3, <2>1 DEF Follows
<1>5. f = [n \in 0..Width |-> IF n = 0 THEN v ELSE f[n - 1] \div Base]
  <2>1. \A n \in 0..Width : f[n] = IF n = 0 THEN v ELSE f[n - 1] \div Base
    BY <1>3, <1>4, Sizes DEF Follows
  <2>2. QED
    BY <1>3, <2>1 DEF Follows
<1>6. rest = [n \in 0..Width |-> IF n = 0 THEN v ELSE rest[n - 1] \div Base]
  BY <1>5 DEF Shifted
<1> HIDE DEF rest
<1>7. rest[0] = v /\ \A n \in 1..Width : rest[n] = rest[n - 1] \div Base
  <2>1. 0 \in 0..Width /\ \A n \in 1..Width : n \in 0..Width /\ n # 0
    BY Sizes
  <2>2. QED
    BY <1>6, <2>1
<1>8. \A n \in 0..Width : rest[n] \in Nat
  <2>1. rest[0] \in Nat /\ \A n \in 1..Width : rest[n - 1] \in Nat => rest[n] \in Nat
    BY <1>7, Sizes, DivMod
  <2>2. QED
    BY <2>1, Sizes, StepsStayIn
<1>9. QED
  BY <1>7, <1>8 DEF rest

\* ValueOf multiplies by Base again and again.
LEMMA ValueOfValue ==
  ASSUME NEW big \in [1..Width -> Nat]
  PROVE  /\ \A n \in 0..Width : ValueOf(big)[n] \in Nat
         /\ ValueOf(big)[0] = 0
         /\ \A n \in 1..Width : ValueOf(big)[n] = (Base * ValueOf(big)[n - 1]) + big[n]
<1> DEFINE step == [x \in (1..Width) \X Nat |-> (Base * x[2]) + big[x[1]]]
           value == ValueOf(big)
<1>1. \A k \in Nat : Base * k \in Nat
  BY Sizes, ProductIsNat DEF StepFunctions
<1>2. step \in StepFunctions(Width, Nat)
  <2>1. ASSUME NEW k \in Nat, NEW i \in 1..Width
        PROVE  (Base * k) + big[i] \in Nat
    <3>1. Base * k \in Nat /\ big[i] \in Nat
      BY <1>1
    <3>2. QED
      BY <3>1
  <2>2. QED
    BY <2>1 DEF StepFunctions
<1>3. \A i \in 1..Width, k \in Nat : step[<<i, k>>] = (Base * k) + big[i]
  OBVIOUS
<1> HIDE DEF step
<1>4. PICK f : Follows(f, 0, step, Width, Nat)
  <2>1. 0 \in Nat /\ Width \in Nat
    BY Sizes
  <2>2. QED
    BY <1>2, <2>1, RecursionExists
<1>5. \A i \in 1..Width : f[i] = (Base * f[i - 1]) + big[i]
  <2>1. \A i \in 1..Width : i - 1 \in 0..Width
    BY Sizes
  <2>2. QED
    BY <1>3, <1>4, <2>1 DEF Follows
<1>6. f = [n \in 0..Width |-> IF n = 0 THEN 0 ELSE (Base * f[n - 1]) + big[n]]
  <2>1. \A n \in 0..Width : f[n] = IF n = 0 THEN 0 ELSE (Base * f[n - 1]) + big[n]
    BY <1>4, <1>5, Sizes DEF Follows
  <2>2. QED
    BY <1>4, <2>1 DEF Follows
<1>7. value = [n \in 0..Width |-> IF n = 0 THEN 0 ELSE (Base * value[n - 1]) + big[n]]
  BY <1>6 DEF ValueOf
<1> HIDE DEF value
<1>8. value[0] = 0 /\ \A n \in 1..Width : value[n] = (Base * value[n - 1]) + big[n]
  <2>1. 0 \in 0..Width /\ \A n \in 1..Width : n \in 0..Width /\ n # 0
    BY Sizes
  <2>2. QED
    BY <1>7, <2>1
<1>9. \A n \in 0..Width : value[n] \in Nat
  <2>1. \A n \in 1..Width : value[n - 1] \in Nat => value[n] \in Nat
    <3>1. ASSUME NEW n \in 1..Width, value[n - 1] \in Nat
          PROVE  value[n] \in Nat
      <4>1. Base * value[n - 1] \in Nat /\ big[n] \in Nat
        BY <1>1, <3>1
      <4>2. value[n] = (Base * value[n - 1]) + big[n]
        BY <1>8
      <4>3. QED
        BY <4>1, <4>2
    <3>2. QED
      BY <3>1
  <2>2. QED
    <3>1. value[0] \in Nat
      BY <1>8
    <3>2. QED
      BY <2>1, <3>1, Sizes, StepsStayIn
<1>10. QED
  BY <1>8, <1>9 DEF value

\* A number loses its last byte to a shift.
LEMMA ShiftLosesByte ==
  ASSUME NEW a \in Nat, NEW p \in Nat, a < Base * p
  PROVE  a \div Base < p
<1> DEFINE q == a \div Base
           rem == a % Base
<1>1. q \in Nat /\ rem \in Nat /\ a = (Base * q) + rem
  BY Sizes, DivMod
<1> HIDE DEF q, rem
<1>2. SUFFICES ASSUME q >= p PROVE FALSE
  BY <1>1 DEF q
<1>3. PICK d \in Nat : q = p + d
  <2>1. q - p \in Nat /\ q = p + (q - p)
    BY <1>1, <1>2
  <2>2. QED
    BY <2>1
<1>4. Base * q = (Base * p) + (Base * d) /\ Base * p \in Nat /\ Base * d \in Nat
  BY <1>3, Sizes, ProductIsNat
<1> DEFINE bp == Base * p
           bd == Base * d
           bq == Base * q
<1>5. bp \in Nat /\ bd \in Nat /\ bq = bp + bd /\ a < bp /\ a = bq + rem
  BY <1>1, <1>4
<1> HIDE DEF bp, bd, bq
<1>6. QED
  BY <1>1, <1>5

\* A number has Width bytes: nothing is left behind them.
LEMMA NothingIsLeft ==
  ASSUME NEW v \in Numbers
  PROVE  v \in Nat /\ Shifted(v)[Width] = 0
<1> DEFINE rest == Shifted(v)
           K == {n \in Nat : n <= Width => rest[n] < Power[Width - n]}
<1>1. /\ v \in Nat /\ v < Power[Width]
      /\ \A n \in 0..Width : Power[n] \in Nat
      /\ Power[0] = 1
      /\ \A n \in 1..Width : Power[n] = Base * Power[n - 1]
  <2>1. Power[Width] \in Nat
    BY PowerValue, Sizes
  <2>2. QED
    BY <2>1, PowerValue DEF Numbers
<1>2. /\ \A n \in 0..Width : rest[n] \in Nat
      /\ rest[0] = v
      /\ \A n \in 1..Width : rest[n] = rest[n - 1] \div Base
  BY <1>1, ShiftedValue
<1> HIDE DEF rest
<1>3. 0 \in K
  BY <1>1, <1>2, Sizes
<1>4. ASSUME NEW n \in Nat, n \in K
      PROVE  n + 1 \in K
  <2>1. SUFFICES ASSUME n + 1 <= Width
                 PROVE  rest[n + 1] < Power[Width - (n + 1)]
    OBVIOUS
  <2> DEFINE m == Width - n
  <2>2. /\ m \in 1..Width /\ m - 1 \in 0..Width /\ m - 1 = Width - (n + 1)
        /\ n \in 0..Width /\ n + 1 \in 1..Width /\ (n + 1) - 1 = n
    BY <2>1, Sizes
  <2>3. rest[n] < Power[m]
    BY <1>4, <2>1, Sizes
  <2> HIDE DEF m
  <2>4. rest[n] < Base * Power[m - 1] /\ rest[n] \in Nat /\ Power[m - 1] \in Nat
    BY <1>1, <1>2, <2>2, <2>3
  <2>5. rest[n] \div Base < Power[m - 1]
    BY <2>4, ShiftLosesByte
  <2>6. rest[n + 1] = rest[n] \div Base
    BY <1>2, <2>2
  <2>7. QED
    BY <2>2, <2>5, <2>6
<1>5. Nat \subseteq K
  <2> HIDE DEF K
  <2>1. QED
    BY <1>3, <1>4, SetInduction
<1>6. rest[Width] < Power[0]
  <2>1. Width \in Nat /\ Width - Width = 0 /\ Width <= Width
    BY Sizes
  <2>2. Width \in K
    BY <1>5, <2>1
  <2>3. QED
    BY <2>1, <2>2
<1>7. rest[Width] \in Nat
  BY <1>2, Sizes
<1>8. QED
  BY <1>1, <1>6, <1>7 DEF rest

\* Read from the highest byte down, the bytes of a number give it back.
LEMMA BytesGiveNumber ==
  ASSUME NEW v \in Numbers, NEW big \in [1..Width -> Nat],
         \A i \in 1..Width : big[i] = Shifted(v)[Width - i] % Base
  PROVE  ValueOf(big)[Width] = v
<1> DEFINE rest  == Shifted(v)
           value == ValueOf(big)
           K == {n \in Nat : n <= Width => value[n] = rest[Width - n]}
<1>1. /\ \A n \in 0..Width : rest[n] \in Nat
      /\ rest[0] = v /\ rest[Width] = 0
      /\ \A n \in 1..Width : rest[n] = rest[n - 1] \div Base
  BY NothingIsLeft, ShiftedValue
<1>2. /\ value[0] = 0
      /\ \A n \in 1..Width : value[n] = (Base * value[n - 1]) + big[n]
  BY ValueOfValue
<1>3. \A i \in 1..Width : big[i] = rest[Width - i] % Base
  OBVIOUS
<1> HIDE DEF rest, value
<1>4. 0 \in K
  BY <1>1, <1>2, Sizes
<1>5. ASSUME NEW n \in Nat, n \in K
      PROVE  n + 1 \in K
  <2>1. SUFFICES ASSUME n + 1 <= Width
                 PROVE  value[n + 1] = rest[Width - (n + 1)]
    OBVIOUS
  <2> DEFINE m == Width - (n + 1)
  <2>2. /\ m \in 0..Width /\ m + 1 \in 1..Width /\ m + 1 = Width - n /\ (m + 1) - 1 = m
        /\ n + 1 \in 1..Width /\ (n + 1) - 1 = n
    BY <2>1, Sizes
  <2>3. value[n] = rest[m + 1]
    BY <1>5, <2>1, <2>2, Sizes
  <2>4. big[n + 1] = rest[m] % Base
    BY <1>3, <2>2
  <2> HIDE DEF m
  <2>5. rest[m + 1] = rest[m] \div Base /\ rest[m] \in Nat
    BY <1>1, <2>2
  <2>6. value[n + 1] = (Base * (rest[m] \div Base)) + (rest[m] % Base)
    BY <1>2, <2>2, <2>3, <2>4, <2>5
  <2>7. rest[m] = (Base * (rest[m] \div Base)) + (rest[m] % Base)
    BY <2>5, Sizes, DivMod
  <2>8. QED
    BY <2>6, <2>7 DEF m
<1>6. Nat \subseteq K
  <2> HIDE DEF K
  <2>1. QED
    BY <1>4, <1>5, SetInduction
<1>7. value[Width] = rest[0]
  <2>1. Width \in Nat /\ Width - Width = 0 /\ Width <= Width
    BY Sizes
  <2>2. Width \in K
    BY <1>6, <2>1
  <2>3. QED
    BY <2>1, <2>2
<1>8. QED
  BY <1>1, <1>7 DEF value

\* The bytes of a number, in either order, are Width bytes.
LEMMA InMemoryBytes ==
  ASSUME NEW v \in Numbers, NEW order
  PROVE  InMemory(v, order) \in Seq(Bytes) /\ Len(InMemory(v, order)) = Width
<1> DEFINE little == [i \in 1..Width |-> Shifted(v)[i - 1] % Base]
<1>1. \A i \in 1..Width : Shifted(v)[i - 1] % Base \in Bytes
  <2>1. \A i \in 1..Width : Shifted(v)[i - 1] \in Nat
    <3>1. \A i \in 1..Width : i - 1 \in 0..Width
      BY Sizes
    <3>2. QED
      BY <3>1, NothingIsLeft, ShiftedValue
  <2>2. QED
    BY <2>1, Sizes, DivMod DEF Bytes
<1>2. little \in [1..Width -> Bytes]
  BY <1>1
<1> HIDE DEF little
<1>3. little \in Seq(Bytes) /\ Len(little) = Width
  BY <1>2, Sizes
<1>4. Reverse(little) \in [1..Width -> Bytes]
  <2>1. \A i \in 1..Width : (Width - i) + 1 \in 1..Width
    BY Sizes
  <2>2. QED
    BY <1>2, <1>3, <2>1 DEF Reverse
<1>5. Reverse(little) \in Seq(Bytes) /\ Len(Reverse(little)) = Width
  BY <1>4, Sizes
<1>6. InMemory(v, order) = IF order = "little" THEN little ELSE Reverse(little)
  BY DEF InMemory, little
<1>7. QED
  BY <1>3, <1>5, <1>6

\* A number put into memory and read back by a host of the same order is itself.
LEMMA MemoryRoundTrip ==
  ASSUME NEW v \in Numbers, NEW order \in {"little", "big"}
  PROVE  FromMemory(InMemory(v, order), order) = v
<1> DEFINE little == [i \in 1..Width |-> Shifted(v)[i - 1] % Base]
<1>1. little \in Seq(Bytes) /\ Len(little) = Width
  <2>1. little = InMemory(v, "little")
    BY DEF InMemory
  <2>2. QED
    BY <2>1, InMemoryBytes
<1>2. \A i \in 1..Width : little[i] = Shifted(v)[i - 1] % Base
  OBVIOUS
<1>3. FromMemory(InMemory(v, order), order) = ValueOf(Reverse(little))[Width]
  BY DEF FromMemory, InMemory
<1> HIDE DEF little
<1>4. /\ Reverse(little) \in [1..Width -> Nat]
      /\ \A i \in 1..Width : Reverse(little)[i] = Shifted(v)[Width - i] % Base
  <2>1. \A i \in 1..Width : (Width - i) + 1 \in 1..Width /\ ((Width - i) + 1) - 1 = Width - i
    BY Sizes
  <2>2. \A i \in 1..Width : little[i] \in Nat
    <3>1. \A i \in 1..Width : little[i] \in Bytes
      BY <1>1
    <3>2. Bytes \subseteq Nat
      BY Sizes DEF Bytes
    <3>3. QED
      BY <3>1, <3>2
  <2>3. Reverse(little) = [i \in 1..Width |-> little[(Width - i) + 1]]
    BY <1>1 DEF Reverse
  <2>4. QED
    BY <1>2, <2>1, <2>2, <2>3
<1>5. QED
  BY <1>3, <1>4, BytesGiveNumber

-----------------------------------------------------------------------------
(* Datagrams *)

\* The test of the byte order never succeeds, so nothing is converted.
LEMMA NothingIsConverted ==
  ASSUME NEW v, NEW order
  PROVE  htonll(v, order) = v /\ ntohll(v, order) = v
<1>1. FirstByteOf(num, order) # num
  BY DEF FirstByteOf, num
<1>2. QED
  BY <1>1 DEF htonll, ntohll

\* The parts of a datagram: two numbers, and data.
LEMMA PartsOfThree ==
  ASSUME NEW a \in Seq(Bytes), NEW b \in Seq(Bytes), NEW c \in Seq(Bytes),
         Len(a) = Width, Len(b) = Width
  PROVE  /\ SubSeq((a \o b) \o c, 1, Width) = a
         /\ SubSeq((a \o b) \o c, Width + 1, Width + Width) = b
         /\ SubSeq((a \o b) \o c, (2 * Width) + 1, Len((a \o b) \o c)) = c
<1> DEFINE raw == (a \o b) \o c
           S == Bytes
           w == Width
<1>w. w \in Nat /\ Len(a) = w /\ Len(b) = w
  BY Sizes
<1>s. a \in Seq(S) /\ b \in Seq(S) /\ c \in Seq(S)
  OBVIOUS
<1> HIDE DEF S, w
<1>1. /\ raw \in Seq(S) /\ Len(raw) = (w + w) + Len(c) /\ Len(c) \in Nat
      /\ \A i \in 1..w : raw[i] = a[i] /\ raw[w + i] = b[i]
      /\ \A i \in 1..Len(c) : raw[(w + w) + i] = c[i]
  <2>1. /\ a \o b \in Seq(S) /\ Len(a \o b) = w + w
        /\ \A i \in 1..w : (a \o b)[i] = a[i] /\ (a \o b)[w + i] = b[i]
    BY <1>w, <1>s
  <2> DEFINE ab == a \o b
  <2> HIDE DEF ab
  <2>2. ab \in Seq(S) /\ Len(ab) = w + w
    BY <2>1 DEF ab
  <2>3. /\ ab \o c \in Seq(S) /\ Len(ab \o c) = (w + w) + Len(c) /\ Len(c) \in Nat
        /\ \A i \in 1..(w + w) : (ab \o c)[i] = ab[i]
        /\ \A i \in 1..Len(c) : (ab \o c)[(w + w) + i] = c[i]
    <3>1. Len(c) \in Nat /\ w + w \in Nat
      BY <1>w, <1>s
    <3>2. /\ ab \o c \in Seq(S) /\ Len(ab \o c) = Len(ab) + Len(c)
          /\ \A i \in 1..(Len(ab) + Len(c)) :
               (ab \o c)[i] = IF i <= Len(ab) THEN ab[i] ELSE c[i - Len(ab)]
      BY <1>s, <2>2, ConcatProperties
    <3>3. \A i \in 1..(w + w) : i \in 1..((w + w) + Len(c)) /\ i <= w + w
      BY <3>1
    <3>4. \A i \in 1..Len(c) : /\ (w + w) + i \in 1..((w + w) + Len(c))
                               /\ ~ ((w + w) + i <= w + w) /\ ((w + w) + i) - (w + w) = i
      BY <3>1
    <3>5. QED
      BY <2>2, <3>1, <3>2, <3>3, <3>4
  <2>4. \A i \in 1..w : i \in 1..(w + w) /\ w + i \in 1..(w + w)
    BY <1>w
  <2>5. QED
    BY <2>1, <2>3, <2>4 DEF ab
<1> HIDE DEF raw
<1>2. \A i \in 1..Len(raw) : raw[i] \in S
  BY <1>1
<1>3. SubSeq(raw, 1, w) = a
  <2> DEFINE sub == SubSeq(raw, 1, w)
  <2>1. sub \in Seq(S) /\ Len(sub) = w /\ \A i \in 1..w : sub[i] = raw[i]
    BY <1>w, <1>1, <1>2
  <2> HIDE DEF sub
  <2>2. sub = a
    BY <1>w, <1>s, <1>1, <2>1, SeqEqual
  <2>3. QED
    BY <2>2 DEF sub
<1>4. SubSeq(raw, w + 1, w + w) = b
  <2> DEFINE m == w + 1
             n == w + w
             sub == SubSeq(raw, m, n)
  <2>1. sub \in Seq(S) /\ Len(sub) = w /\ \A i \in 1..w : sub[i] = raw[w + i]
    <3>1. /\ m \in Int /\ n \in Int /\ (n - m) + 1 = w
          /\ \A i \in 1..w : (m + i) - 1 = w + i
          /\ m <= n \/ w = 0
      BY <1>w
    <3>2. \A i \in m..n : raw[i] \in S
      BY <1>w, <1>1, <1>2
    <3> HIDE DEF m, n
    <3>3. /\ sub \in Seq(S)
          /\ Len(sub) = IF m <= n THEN (n - m) + 1 ELSE 0
          /\ \A i \in 1..((n - m) + 1) : sub[i] = raw[(m + i) - 1]
      BY <3>1, <3>2, SubSeqProperties
    <3>4. QED
      BY <1>w, <3>1, <3>3
  <2> HIDE DEF sub
  <2>2. sub = b
    BY <1>w, <1>s, <1>1, <2>1, SeqEqual
  <2>3. QED
    BY <2>2 DEF sub
<1>5. SubSeq(raw, (2 * w) + 1, Len(raw)) = c
  <2> DEFINE sub == SubSeq(raw, (2 * w) + 1, Len(raw))
  <2>1. /\ sub \in Seq(S) /\ Len(sub) = Len(c)
        /\ \A i \in 1..Len(c) : sub[i] = raw[(w + w) + i]
    BY <1>w, <1>1, <1>2
  <2> HIDE DEF sub
  <2>2. sub = c
    BY <1>w, <1>s, <1>1, <2>1, SeqEqual
  <2>3. QED
    BY <2>2 DEF sub
<1>6. QED
  BY <1>3, <1>4, <1>5 DEF raw, w

\* The bytes of a datagram.
LEMMA SendableBytes ==
  ASSUME NEW p \in Packages, NEW order
  PROVE  /\ sendable(p, order) =
              (InMemory(p.session_id, order) \o InMemory(p.id, order)) \o p.data
         /\ sendable(p, order) \in Seq(Bytes)
         /\ p.session_id \in Numbers /\ p.id \in Numbers /\ p.data \in Seq(Bytes)
<1>1. p.session_id \in Numbers /\ p.id \in Numbers /\ p.data \in Seq(Bytes)
  BY DataLinkAssumption
<1>2. sendable(p, order) =
        (InMemory(p.session_id, order) \o InMemory(p.id, order)) \o p.data
  BY NothingIsConverted DEF sendable
<1>3. InMemory(p.session_id, order) \in Seq(Bytes) /\ InMemory(p.id, order) \in Seq(Bytes)
  BY <1>1, InMemoryBytes
<1>4. QED
  BY <1>1, <1>2, <1>3

\* What one host sends, another one of the same byte order parses.
LEMMA DatagramRoundTrip ==
  ASSUME NEW p \in Packages, NEW order \in {"little", "big"}
  PROVE  data_msg(sendable(p, order), order) = p
<1> DEFINE a == InMemory(p.session_id, order)
           b == InMemory(p.id, order)
           raw == sendable(p, order)
<1>1. /\ raw = (a \o b) \o p.data
      /\ p.session_id \in Numbers /\ p.id \in Numbers /\ p.data \in Seq(Bytes)
  BY SendableBytes
<1>2. a \in Seq(Bytes) /\ b \in Seq(Bytes) /\ Len(a) = Width /\ Len(b) = Width
  BY <1>1, InMemoryBytes
<1>3. FromMemory(a, order) = p.session_id /\ FromMemory(b, order) = p.id
  BY <1>1, MemoryRoundTrip
<1> HIDE DEF a, b, raw
<1>4. /\ SubSeq(raw, 1, Width) = a
      /\ SubSeq(raw, Width + 1, Width + Width) = b
      /\ SubSeq(raw, (2 * Width) + 1, Len(raw)) = p.data
  <2> DEFINE c == p.data
  <2>1. c \in Seq(Bytes) /\ Width \in Nat
    BY <1>1, Sizes
  <2> HIDE DEF c
  <2>2. /\ SubSeq((a \o b) \o c, 1, Width) = a
        /\ SubSeq((a \o b) \o c, Width + 1, Width + Width) = b
        /\ SubSeq((a \o b) \o c, (2 * Width) + 1, Len((a \o b) \o c)) = c
    BY <1>2, <2>1, PartsOfThree
  <2>3. QED
    BY <1>1, <2>2 DEF c
<1>5. 0 + 1 = 1 /\ 0 + Width = Width
  BY Sizes
<1>6. data_msg(raw, order) = [session_id |-> p.session_id, id |-> p.id, data |-> p.data]
  BY <1>3, <1>4, <1>5, NothingIsConverted DEF data_msg
<1>7. p = [session_id |-> p.session_id, id |-> p.id, data |-> p.data]
  BY DataLinkAssumption
<1>8. QED
  BY <1>6, <1>7 DEF raw

-----------------------------------------------------------------------------
(* The parts of the invariant *)

Places == {"idle", "take", "open", "connect", "write", "listen", "reply", "done",
           "ended"}

\* Who is where, with which descriptor.
LinkOK ==
  /\ pc \in [Threads -> Places]
  /\ DOMAIN descriptors \subseteq Fds
  /\ sock \in [Threads -> Fds \cup {-1}]
  /\ connected \in [Transmitters -> BOOLEAN]
  /\ \A t \in Transmitters : connected[t] => descriptors[sock[t]] = "linked"
  /\ DescriptorsHeld

\* What is on its way.
DataOK ==
  /\ hand \in [Transmitters -> Seq(Bytes)]
  /\ wire \subseteq Seq(Bytes)
  /\ taken \subseteq Packages
  /\ DatagramsAreTaken

\* The network and the input.
WorldOK == network \in {"up", "down"} /\ complete \in BOOLEAN

\* Transmitters are threads, and the listener is none of them.
LEMMA ThreadNames ==
  /\ \A t \in Transmitters : t \in Threads /\ t # "listener"
  /\ "listener" \in Threads /\ "listener" \notin Transmitters
  /\ \A t \in Threads : t \in Transmitters \/ t = "listener"
  BY DEF Threads, Transmitters

\* The invariant is the three of them: who is connected holds its descriptor.
LEMMA InvParts ==
  /\ DataLinkInv <=> LinkOK /\ DataOK /\ WorldOK
  /\ DataLinkInv' <=> LinkOK' /\ DataOK' /\ WorldOK'
<1>1. DescriptorsHeld =>
        \A t, u \in Transmitters : connected[t] /\ connected[u] /\ sock[t] = sock[u] => t = u
  BY ThreadNames DEF DescriptorsHeld, Holds
<1>2. DescriptorsHeld' =>
        \A t, u \in Transmitters : connected'[t] /\ connected'[u] /\ sock'[t] = sock'[u] => t = u
  BY ThreadNames DEF DescriptorsHeld, Holds
<1>3. DataLinkInv <=> LinkOK /\ DataOK /\ WorldOK
  BY <1>1 DEF DataLinkInv, TypeOK, LinkOK, DataOK, WorldOK, Places
<1>4. DataLinkInv' <=> LinkOK' /\ DataOK' /\ WorldOK'
  BY <1>2 DEF DataLinkInv, TypeOK, LinkOK, DataOK, WorldOK, Places
<1>5. QED
  BY <1>3, <1>4

\* A thread goes on, the others stay where they are.
LEMMA GotoMoves ==
  ASSUME pc \in [Threads -> Places], NEW t \in Threads, NEW step \in Places, Goto(t, step)
  PROVE  /\ pc' \in [Threads -> Places]
         /\ pc'[t] = step
         /\ \A u \in Threads : u # t => pc'[u] = pc[u]
  BY DEF Goto

\* The least free descriptor is free.
LEMMA LeastFree ==
  ASSUME Free # {}
  PROVE  Min(Free) \in Fds /\ Min(Free) \notin DOMAIN descriptors
<1>1. Free \subseteq Nat
  BY DataLinkAssumption DEF Free, Fds
<1>2. \E x \in Free : \A y \in Free : x <= y
  BY <1>1, LeastNumber
<1>3. Min(Free) \in Free
  BY <1>2 DEF Min
<1>4. QED
  BY <1>3 DEF Free

-----------------------------------------------------------------------------
(* Descriptors *)

\* Threads that come to hold nothing new leave the descriptors in order.
LEMMA NoNewHolder ==
  ASSUME LinkOK, NEW t \in Threads, NEW step \in Places, Goto(t, step),
         UNCHANGED <<descriptors, sock, connected>>,
         step \in {"connect", "write", "listen", "reply"} => Holds(t),
         t \in Transmitters =>
           /\ step \in {"idle", "take", "open", "write"}
           /\ step \in {"idle", "take"} => connected[t] \/ sock[t] = -1
           /\ step = "open" => ~ connected[t]
           /\ step = "write" => connected[t],
         t = "listener" => step \in {"listen", "reply", "ended"}
  PROVE  LinkOK'
<1>1. /\ pc' \in [Threads -> Places] /\ pc'[t] = step
      /\ \A u \in Threads : u # t => pc'[u] = pc[u]
  BY GotoMoves DEF LinkOK
<1>2. \A u \in Threads : Holds(u)' => Holds(u)
  BY <1>1 DEF Holds
<1>3. DescriptorsHeld'
  BY <1>1, <1>2, ThreadNames DEF LinkOK, DescriptorsHeld
<1>4. QED
  BY <1>1, <1>3 DEF LinkOK

\* A thread gets a descriptor that nobody holds.
LEMMA NewHolder ==
  ASSUME LinkOK, NEW t \in Threads, pc[t] = "open", Free # {},
         descriptors' = [d \in DOMAIN descriptors \cup {Min(Free)} |->
                           IF d = Min(Free) THEN "new" ELSE descriptors[d]],
         sock' = [sock EXCEPT ![t] = Min(Free)],
         connected' = connected,
         Goto(t, IF t = "listener" THEN "listen" ELSE "connect")
  PROVE  LinkOK'
<1> DEFINE fd   == Min(Free)
           step == IF t = "listener" THEN "listen" ELSE "connect"
<1>1. fd \in Fds /\ fd \notin DOMAIN descriptors
  BY LeastFree
<1>2. step \in Places
  BY DEF Places
<1>3. /\ pc' \in [Threads -> Places] /\ pc'[t] = step
      /\ \A u \in Threads : u # t => pc'[u] = pc[u]
  BY <1>2, GotoMoves DEF LinkOK
<1>4. /\ sock' \in [Threads -> Fds \cup {-1}] /\ sock'[t] = fd
      /\ \A u \in Threads : u # t => sock'[u] = sock[u]
  BY <1>1 DEF LinkOK
<1>5. /\ DOMAIN descriptors' = DOMAIN descriptors \cup {fd}
      /\ \A d \in DOMAIN descriptors : descriptors'[d] = descriptors[d]
  BY <1>1
<1>6. t \in Transmitters => ~ connected[t]
  BY DEF LinkOK, DescriptorsHeld
<1> HIDE DEF fd
<1>7. \A u \in Threads : u # t /\ Holds(u)' => Holds(u) /\ sock[u] \in DOMAIN descriptors
  BY <1>3 DEF Holds, LinkOK, DescriptorsHeld
<1>8. \A u \in Threads : Holds(u)' => sock'[u] \in DOMAIN descriptors'
  BY <1>4, <1>5, <1>7
<1>9. \A u, w \in Threads : Holds(u)' /\ Holds(w)' /\ sock'[u] = sock'[w] => u = w
  BY <1>1, <1>4, <1>7 DEF LinkOK, DescriptorsHeld
<1>10. \A u \in Transmitters : connected'[u] => descriptors'[sock'[u]] = "linked"
  <2>1. ASSUME NEW u \in Transmitters, connected[u]
        PROVE  descriptors'[sock'[u]] = "linked"
    <3>1. u # t /\ u \in Threads /\ Holds(u)
      BY <1>6, <2>1, ThreadNames DEF Holds
    <3>2. sock'[u] = sock[u] /\ sock[u] \in DOMAIN descriptors
      BY <1>4, <3>1 DEF LinkOK, DescriptorsHeld
    <3>3. QED
      BY <1>5, <2>1, <3>2 DEF LinkOK
  <2>2. QED
    BY <2>1
<1>11. DescriptorsHeld'
  <2>1. pc'["listener"] \in {"open", "listen", "reply", "done", "ended"}
    BY <1>3, ThreadNames DEF LinkOK, DescriptorsHeld
  <2>2. ASSUME NEW u \in Transmitters
        PROVE  /\ pc'[u] \in {"idle", "take", "open", "connect", "write", "done"}
               /\ pc'[u] \in {"idle", "take"} => connected'[u] \/ sock'[u] = -1
               /\ pc'[u] \in {"open", "connect", "done"} => ~ connected'[u]
               /\ pc'[u] = "write" => connected'[u]
    <3>1. CASE u = t
      BY <1>3, <1>6, <3>1, ThreadNames
    <3>2. CASE u # t
      BY <1>3, <1>4, <3>2, ThreadNames DEF LinkOK, DescriptorsHeld
    <3>3. QED
      BY <3>1, <3>2
  <2>3. QED
    BY <1>8, <1>9, <2>1, <2>2 DEF DescriptorsHeld
<1>12. DOMAIN descriptors' \subseteq Fds
  BY <1>1, <1>5 DEF LinkOK
<1>13. QED
  BY <1>3, <1>4, <1>10, <1>11, <1>12 DEF LinkOK

\* A connection is made on the thread's own descriptor.
LEMMA ConnectKeepsLink ==
  ASSUME LinkOK, NEW t \in Transmitters, Connect(t)
  PROVE  LinkOK'
<1>1. /\ pc[t] = "connect" /\ Goto(t, "write") /\ sock' = sock
      /\ descriptors' = [descriptors EXCEPT ![sock[t]] = "linked"]
      /\ connected' = [connected EXCEPT ![t] = TRUE]
  BY DEF Connect, At
<1>2. t \in Threads /\ "write" \in Places
  BY ThreadNames DEF Places
<1>3. /\ pc' \in [Threads -> Places] /\ pc'[t] = "write"
      /\ \A u \in Threads : u # t => pc'[u] = pc[u]
  BY <1>1, <1>2, GotoMoves DEF LinkOK
<1>4. /\ connected' \in [Transmitters -> BOOLEAN] /\ connected'[t]
      /\ \A u \in Transmitters : u # t => connected'[u] = connected[u]
  BY <1>1 DEF LinkOK
<1>5. Holds(t) /\ sock[t] \in DOMAIN descriptors
  BY <1>1, <1>2 DEF Holds, LinkOK, DescriptorsHeld
<1>6. /\ DOMAIN descriptors' = DOMAIN descriptors
      /\ descriptors'[sock[t]] = "linked"
      /\ \A d \in DOMAIN descriptors : d # sock[t] => descriptors'[d] = descriptors[d]
  BY <1>1, <1>5
<1>7. \A u \in Threads : Holds(u)' => Holds(u)
  BY <1>3, <1>4, <1>5 DEF Holds
<1>8. ASSUME NEW u \in Transmitters, connected'[u]
      PROVE  descriptors'[sock'[u]] = "linked"
  <2>1. CASE u = t
    BY <1>1, <1>6, <2>1
  <2>2. CASE u # t
    <3>1. connected[u] /\ Holds(u) /\ u \in Threads
      BY <1>4, <1>8, <2>2, ThreadNames DEF Holds
    <3>2. sock[u] # sock[t] /\ sock[u] \in DOMAIN descriptors
      BY <1>2, <1>5, <2>2, <3>1 DEF LinkOK, DescriptorsHeld
    <3>3. QED
      BY <1>1, <1>6, <3>1, <3>2 DEF LinkOK
  <2>3. QED
    BY <2>1, <2>2
<1>9. DescriptorsHeld'
  <2>1. pc'["listener"] \in {"open", "listen", "reply", "done", "ended"}
    BY <1>3, ThreadNames DEF LinkOK, DescriptorsHeld
  <2>2. ASSUME NEW u \in Transmitters
        PROVE  /\ pc'[u] \in {"idle", "take", "open", "connect", "write", "done"}
               /\ pc'[u] \in {"idle", "take"} => connected'[u] \/ sock'[u] = -1
               /\ pc'[u] \in {"open", "connect", "done"} => ~ connected'[u]
               /\ pc'[u] = "write" => connected'[u]
    <3>1. CASE u = t
      BY <1>3, <1>4, <3>1
    <3>2. CASE u # t
      BY <1>1, <1>3, <1>4, <3>2, ThreadNames DEF LinkOK, DescriptorsHeld
    <3>3. QED
      BY <3>1, <3>2
  <2>3. QED
    BY <1>1, <1>6, <1>7, <2>1, <2>2 DEF LinkOK, DescriptorsHeld
<1>10. QED
  BY <1>1, <1>3, <1>4, <1>6, <1>8, <1>9 DEF LinkOK

\* A thread that ends closes its descriptor, and no other.
LEMMA FinishKeepsLink ==
  ASSUME LinkOK, NEW t \in Threads, Finish(t)
  PROVE  LinkOK'
<1>1. /\ pc[t] \in {"idle", "listen"} /\ Goto(t, "done") /\ sock' = sock
      /\ descriptors' = Restrict(descriptors, DOMAIN descriptors \ {sock[t]})
      /\ connected' = [u \in Transmitters |-> u # t /\ connected[u]]
  BY DEF Finish, At
<1>2. /\ pc' \in [Threads -> Places] /\ pc'[t] = "done"
      /\ \A u \in Threads : u # t => pc'[u] = pc[u]
  <2>1. "done" \in Places
    BY DEF Places
  <2>2. QED
    BY <1>1, <2>1, GotoMoves DEF LinkOK
<1>3. /\ connected' \in [Transmitters -> BOOLEAN]
      /\ t \in Transmitters => ~ connected'[t]
      /\ \A u \in Transmitters : connected'[u] => u # t /\ connected[u]
      /\ \A u \in Transmitters : u # t /\ connected[u] => connected'[u]
  BY <1>1
<1>4. /\ DOMAIN descriptors' = DOMAIN descriptors \ {sock[t]}
      /\ \A d \in DOMAIN descriptors \ {sock[t]} : descriptors'[d] = descriptors[d]
  BY <1>1 DEF Restrict
<1>5. \A u \in Threads : Holds(u)' => Holds(u) /\ u # t
  BY <1>2, <1>3 DEF Holds
<1>6. ASSUME NEW u \in Threads, Holds(u), u # t
      PROVE  sock[u] \in DOMAIN descriptors \ {sock[t]}
  <2>1. sock[u] \in DOMAIN descriptors /\ sock[u] # -1
    <3>1. -1 \notin Fds
      BY DataLinkAssumption DEF Fds
    <3>2. QED
      BY <1>6, <3>1 DEF LinkOK, DescriptorsHeld
  <2>2. Holds(t) \/ sock[t] = -1
    <3>1. CASE t \in Transmitters
      BY <1>1, <3>1 DEF LinkOK, DescriptorsHeld, Holds
    <3>2. CASE t = "listener"
      BY <1>1, <3>2 DEF LinkOK, DescriptorsHeld, Holds
    <3>3. QED
      BY <3>1, <3>2, ThreadNames
  <2>3. QED
    BY <1>6, <2>1, <2>2 DEF LinkOK, DescriptorsHeld
<1>7. ASSUME NEW u \in Transmitters, connected'[u]
      PROVE  descriptors'[sock'[u]] = "linked"
  <2>1. connected[u] /\ Holds(u) /\ u \in Threads /\ u # t
    BY <1>3, <1>7, ThreadNames DEF Holds
  <2>2. QED
    BY <1>1, <1>4, <1>6, <2>1 DEF LinkOK
<1>8. DescriptorsHeld'
  <2>1. pc'["listener"] \in {"open", "listen", "reply", "done", "ended"}
    BY <1>2, ThreadNames DEF LinkOK, DescriptorsHeld
  <2>2. ASSUME NEW u \in Transmitters
        PROVE  /\ pc'[u] \in {"idle", "take", "open", "connect", "write", "done"}
               /\ pc'[u] \in {"idle", "take"} => connected'[u] \/ sock'[u] = -1
               /\ pc'[u] \in {"open", "connect", "done"} => ~ connected'[u]
               /\ pc'[u] = "write" => connected'[u]
    <3>1. CASE u = t
      BY <1>2, <1>3, <3>1
    <3>2. CASE u # t
      BY <1>1, <1>2, <1>3, <3>2, ThreadNames DEF LinkOK, DescriptorsHeld
    <3>3. QED
      BY <3>1, <3>2
  <2>3. \A u \in Threads : Holds(u)' => sock'[u] \in DOMAIN descriptors'
    BY <1>1, <1>4, <1>5, <1>6
  <2>4. \A u, w \in Threads : Holds(u)' /\ Holds(w)' /\ sock'[u] = sock'[w] => u = w
    BY <1>1, <1>5 DEF LinkOK, DescriptorsHeld
  <2>5. QED
    BY <2>1, <2>2, <2>3, <2>4 DEF DescriptorsHeld
<1>9. QED
  BY <1>1, <1>2, <1>3, <1>4, <1>7, <1>8 DEF LinkOK

\* Every step leaves the descriptors in order.
LEMMA NextLink ==
  ASSUME LinkOK, [Next]_vars
  PROVE  LinkOK'
<1> USE ThreadNames
<1>1. ASSUME NEW t \in Transmitters, TransmitStep(t)
      PROVE  LinkOK'
  <2>1. CASE Take(t)
    <3>1. /\ pc[t] = "take" /\ Goto(t, IF connected[t] THEN "write" ELSE "open")
          /\ UNCHANGED <<descriptors, sock, connected>>
      BY <2>1 DEF Take, At, Transmit
    <3>2. connected[t] => Holds(t)
      BY DEF Holds
    <3>3. CASE connected[t]
      BY <3>1, <3>2, <3>3, NoNewHolder DEF Places
    <3>4. CASE ~ connected[t]
      BY <3>1, <3>4, NoNewHolder DEF Places
    <3>5. QED
      BY <3>3, <3>4
  <2>2. CASE OpenSocket(t)
    BY <2>2, NewHolder DEF OpenSocket, At
  <2>3. CASE Connect(t)
    BY <2>3, ConnectKeepsLink
  <2>4. CASE ConnectFails(t)
    <3>1. pc[t] = "connect" /\ UNCHANGED <<descriptors, sock, connected>>
      BY <2>4 DEF ConnectFails, At
    <3>2. ~ connected[t]
      BY <3>1 DEF LinkOK, DescriptorsHeld
    <3>3. Goto(t, "open")
      BY <2>4, <3>2 DEF ConnectFails, Transmit
    <3>4. QED
      BY <3>1, <3>2, <3>3, NoNewHolder DEF Places
  <2>5. CASE Write(t)
    <3>1. pc[t] = "write" /\ Goto(t, "idle") /\ UNCHANGED <<descriptors, sock, connected>>
      BY <2>5 DEF Write, At
    <3>2. connected[t]
      BY <3>1 DEF LinkOK, DescriptorsHeld
    <3>3. QED
      BY <3>1, <3>2, NoNewHolder DEF Places
  <2>6. CASE Finish(t)
    BY <2>6, FinishKeepsLink
  <2>7. CASE Check(t) \/ TakeNothing(t)
    <3>1. pc[t] \in {"idle", "take"} /\ UNCHANGED <<descriptors, sock, connected>>
      BY <2>7 DEF Check, TakeNothing, At
    <3>2. connected[t] \/ sock[t] = -1
      BY <3>1 DEF LinkOK, DescriptorsHeld
    <3>3. Goto(t, "idle") \/ Goto(t, "take")
      BY <2>7 DEF Check, TakeNothing
    <3>4. QED
      BY <3>1, <3>2, <3>3, NoNewHolder DEF Places
  <2>8. QED
    BY <1>1, <2>1, <2>2, <2>3, <2>4, <2>5, <2>6, <2>7 DEF TransmitStep
<1>2. CASE OpenListener
  BY <1>2, NewHolder DEF OpenListener, At
<1>3. CASE OpenListenerFails
  BY <1>3, NoNewHolder DEF OpenListenerFails, Places
<1>4. CASE ReceiveLookup \/ SendReply
  <2>1. pc["listener"] \in {"listen", "reply"} /\ UNCHANGED <<descriptors, sock, connected>>
    BY <1>4 DEF ReceiveLookup, SendReply, At
  <2>2. Holds("listener")
    BY <2>1 DEF Holds
  <2>3. Goto("listener", "reply") \/ Goto("listener", "listen")
    BY <1>4 DEF ReceiveLookup, SendReply
  <2>4. QED
    BY <2>1, <2>2, <2>3, NoNewHolder DEF Places
<1>5. CASE Finish("listener")
  BY <1>5, FinishKeepsLink
<1>6. CASE NetworkChanges \/ EndInput \/ UNCHANGED vars
  <2>1. UNCHANGED <<pc, descriptors, sock, connected>>
    BY <1>6 DEF NetworkChanges, EndInput, vars
  <2>2. QED
    BY <2>1 DEF LinkOK, DescriptorsHeld, Holds
<1>7. QED
  BY <1>1, <1>2, <1>3, <1>4, <1>5, <1>6 DEF Next, ListenerStep

-----------------------------------------------------------------------------
(* Datagrams on their way *)

\* A datagram stays one when more packages are taken.
LEMMA StaysDatagram ==
  ASSUME NEW raw, IsDatagram(raw), taken \subseteq taken'
  PROVE  IsDatagram(raw)'
  BY DEF IsDatagram

\* A thread moves on with the datagram that it has.
LEMMA SameHand ==
  ASSUME DataOK, pc \in [Threads -> Places], NEW t \in Threads, NEW step \in Places,
         Goto(t, step), UNCHANGED <<hand, wire, taken>>,
         t \in Transmitters /\ step \in {"open", "connect", "write"} =>
           pc[t] \in {"open", "connect", "write"}
  PROVE  DataOK'
<1>1. /\ pc'[t] = step
      /\ \A u \in Threads : u # t => pc'[u] = pc[u]
  BY GotoMoves
<1>2. \A u \in Transmitters :
        pc'[u] \in {"open", "connect", "write"} => pc[u] \in {"open", "connect", "write"}
  BY <1>1, ThreadNames
<1>3. \A raw : IsDatagram(raw) => IsDatagram(raw)'
  BY DEF IsDatagram
<1>4. DatagramsAreTaken'
  BY <1>2, <1>3 DEF DataOK, DatagramsAreTaken
<1>5. QED
  BY <1>4 DEF DataOK

\* A package that is taken makes the datagram in hand.
LEMMA TakeKeepsData ==
  ASSUME DataOK, LinkOK, NEW t \in Transmitters, Take(t)
  PROVE  DataOK'
<1>1. PICK p \in Packages : /\ taken' = taken \cup {p}
                            /\ hand' = [hand EXCEPT ![t] = sendable(p, SenderOrder)]
  BY DEF Take
<1>2. sendable(p, SenderOrder) \in Seq(Bytes)
  BY SendableBytes
<1>3. /\ hand' \in [Transmitters -> Seq(Bytes)] /\ hand'[t] = sendable(p, SenderOrder)
      /\ \A u \in Transmitters : u # t => hand'[u] = hand[u]
  BY <1>1, <1>2 DEF DataOK
<1>4. IsDatagram(hand[t])'
  BY <1>1, <1>3 DEF IsDatagram
<1>5. \A raw : IsDatagram(raw) => IsDatagram(raw)'
  BY <1>1, StaysDatagram
<1>6. \A u \in Threads : u # t => pc'[u] = pc[u]
  BY DEF Take, Goto, LinkOK
<1>7. wire' = wire
  BY DEF Take
<1>8. \A u \in Transmitters :
        pc'[u] \in {"open", "connect", "write"} => IsDatagram(hand[u])'
  BY <1>1, <1>3, <1>4, <1>6, ThreadNames DEF DataOK, DatagramsAreTaken, IsDatagram
<1>9. DatagramsAreTaken'
  BY <1>5, <1>7, <1>8 DEF DataOK, DatagramsAreTaken
<1>10. QED
  BY <1>1, <1>3, <1>7, <1>9 DEF DataOK

\* A write puts the datagram in hand on the wire.
LEMMA WriteKeepsData ==
  ASSUME DataOK, LinkOK, NEW t \in Transmitters, Write(t)
  PROVE  DataOK'
<1>1. /\ pc[t] = "write" /\ Goto(t, "idle") /\ taken' = taken
      /\ wire' = wire \cup {hand[t]} /\ hand' = [hand EXCEPT ![t] = << >>]
  BY DEF Write, At
<1>2. IsDatagram(hand[t]) /\ hand[t] \in Seq(Bytes)
  BY <1>1 DEF DataOK, DatagramsAreTaken
<1>3. /\ hand' \in [Transmitters -> Seq(Bytes)]
      /\ \A u \in Transmitters : u # t => hand'[u] = hand[u]
  <2>1. << >> \in Seq(Bytes)
    BY EmptySeq
  <2>2. QED
    BY <1>1, <2>1 DEF DataOK
<1>4. /\ pc'[t] = "idle"
      /\ \A u \in Threads : u # t => pc'[u] = pc[u]
  <2>1. "idle" \in Places /\ t \in Threads
    BY ThreadNames DEF Places
  <2>2. QED
    BY <1>1, <2>1, GotoMoves DEF LinkOK
<1>5. \A raw : IsDatagram(raw) => IsDatagram(raw)'
  BY <1>1 DEF IsDatagram
<1>6. \A u \in Transmitters :
        pc'[u] \in {"open", "connect", "write"} => IsDatagram(hand[u])'
  BY <1>1, <1>3, <1>4, ThreadNames DEF DataOK, DatagramsAreTaken, IsDatagram
<1>7. \A raw \in wire' : IsDatagram(raw)'
  BY <1>1, <1>2, <1>5 DEF DataOK, DatagramsAreTaken
<1>8. DatagramsAreTaken'
  BY <1>6, <1>7 DEF DatagramsAreTaken
<1>9. QED
  BY <1>1, <1>2, <1>3, <1>8 DEF DataOK

\* Every step leaves the datagrams in order.
LEMMA NextData ==
  ASSUME DataOK, LinkOK, [Next]_vars
  PROVE  DataOK'
<1> USE ThreadNames
<1>1. pc \in [Threads -> Places]
  BY DEF LinkOK
<1>2. ASSUME NEW t \in Transmitters, TransmitStep(t)
      PROVE  DataOK'
  <2>1. CASE OpenSocket(t) \/ Connect(t) \/ ConnectFails(t)
    <3>1. pc[t] \in {"open", "connect"} /\ UNCHANGED <<hand, wire, taken>>
      BY <2>1 DEF OpenSocket, Connect, ConnectFails, At
    <3>2. \E step \in Places : Goto(t, step)
      BY <2>1 DEF OpenSocket, Connect, ConnectFails, Transmit, Places
    <3>3. QED
      BY <1>1, <3>1, <3>2, SameHand
  <2>2. CASE Finish(t)
    BY <1>1, <2>2, SameHand DEF Finish, Places
  <2>3. CASE Check(t) \/ TakeNothing(t)
    <3>1. UNCHANGED <<hand, wire, taken>>
      BY <2>3 DEF Check, TakeNothing
    <3>2. Goto(t, "idle") \/ Goto(t, "take")
      BY <2>3 DEF Check, TakeNothing
    <3>3. QED
      BY <1>1, <3>1, <3>2, SameHand DEF Places
  <2>4. QED
    BY <1>2, <2>1, <2>2, <2>3, TakeKeepsData, WriteKeepsData DEF TransmitStep
<1>3. CASE ListenerStep \/ ReceiveLookup
  <2>1. UNCHANGED <<hand, wire, taken>>
    BY <1>3 DEF ListenerStep, OpenListener, OpenListenerFails, SendReply, Finish, ReceiveLookup
  <2>2. \E step \in Places : Goto("listener", step)
    BY <1>3 DEF ListenerStep, OpenListener, OpenListenerFails, SendReply, Finish,
       ReceiveLookup, Places
  <2>3. QED
    BY <1>1, <2>1, <2>2, SameHand
<1>4. CASE NetworkChanges \/ EndInput \/ UNCHANGED vars
  <2>1. UNCHANGED <<pc, hand, wire, taken>>
    BY <1>4 DEF NetworkChanges, EndInput, vars
  <2>2. QED
    BY <2>1 DEF DataOK, DatagramsAreTaken, IsDatagram
<1>5. QED
  BY <1>2, <1>3, <1>4 DEF Next

\* The network comes and goes; the input ends once.
LEMMA NextWorld ==
  ASSUME WorldOK, [Next]_vars
  PROVE  WorldOK'
<1>1. CASE NetworkChanges
  BY <1>1 DEF NetworkChanges, WorldOK
<1>2. CASE EndInput
  BY <1>2 DEF EndInput, WorldOK
<1>3. CASE UNCHANGED <<network, complete>>
  BY <1>3 DEF WorldOK
<1>4. QED
  BY <1>1, <1>2, <1>3 DEF Next, TransmitStep, ListenerStep, Check, Take, TakeNothing,
     OpenSocket, Connect, ConnectFails, Write, Finish, OpenListener, OpenListenerFails, SendReply,
     ReceiveLookup, vars

-----------------------------------------------------------------------------
(* The theorems *)

\* The sender's threads keep their descriptors apart, and what they transmit
\* was taken.
THEOREM DataLinkInvariant == Spec => []DataLinkInv
<1>1. Init => DataLinkInv
  <2> SUFFICES ASSUME Init PROVE DataLinkInv
    OBVIOUS
  <2>1. \A t \in Threads : ~ Holds(t)
    BY ThreadNames DEF Init, Holds
  <2>2. DescriptorsHeld
    BY <2>1, ThreadNames DEF Init, DescriptorsHeld
  <2>3. LinkOK
    BY <2>2 DEF Init, LinkOK, Places
  <2>4. hand \in [Transmitters -> Seq(Bytes)]
    <3>1. << >> \in Seq(Bytes)
      BY EmptySeq
    <3>2. QED
      BY <3>1 DEF Init
  <2>5. DataOK
    BY <2>4, ThreadNames DEF Init, DataOK, DatagramsAreTaken
  <2>6. WorldOK
    BY DEF Init, WorldOK
  <2>7. QED
    BY <2>3, <2>5, <2>6, InvParts
<1>2. DataLinkInv /\ [Next]_vars => DataLinkInv'
  BY InvParts, NextLink, NextData, NextWorld
<1>3. QED
  BY <1>1, <1>2, PTL DEF Spec

\* A socket that says it is connected has a connected descriptor of its own,
\* after every failed attempt, and when another thread has closed its own.
THEOREM DataLinkTypeCorrect == Spec => []TypeOK
<1>1. DataLinkInv => TypeOK
  BY DEF DataLinkInv
<1>2. QED
  BY <1>1, DataLinkInvariant, PTL

\* Every datagram is parsed into a package that was sent, whatever the size of
\* a number, by a host of the sender's byte order.
THEOREM HeardAlwaysWasSent == Spec => []HeardWasSent
<1>1. DataLinkInv => HeardWasSent
  <2> SUFFICES ASSUME DataLinkInv, SenderOrder = ReceiverOrder, NEW raw_msg \in wire
               PROVE  data_msg(raw_msg, ReceiverOrder) \in taken
    BY DEF HeardWasSent
  <2>1. PICK p \in taken : raw_msg = sendable(p, SenderOrder)
    BY DEF DataLinkInv, DatagramsAreTaken, IsDatagram
  <2>2. p \in Packages /\ SenderOrder \in {"little", "big"}
    BY DataLinkAssumption DEF DataLinkInv, TypeOK
  <2>3. data_msg(raw_msg, SenderOrder) = p
    BY <2>1, <2>2, DatagramRoundTrip
  <2>4. QED
    BY <2>3
<1>2. QED
  BY <1>1, DataLinkInvariant, PTL
=============================================================================
