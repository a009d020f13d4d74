---------------------------- MODULE BufferProofs ----------------------------
(***************************************************************************)
(* What Buffer guarantees for every capacity, every set of messages and    *)
(* every package length.  The closed form ids[i] = ids[1] + (i-1) * step    *)
(* that IsWindow carries stands in for an induction over the deque: each    *)
(* lemma below says what one operation on the two deques does to it.        *)
(***************************************************************************)
EXTENDS Buffer, Arithmetic, SequenceTheorems, TLAPS

-----------------------------------------------------------------------------
(* What the operations on the two deques do to a window *)

Value == Nat \cup {None}

\* Popping n elements off the front of a deque.
LEMMA WithoutShape ==
  ASSUME NEW S, NEW seq \in Seq(S), NEW n \in Nat, n <= Len(seq)
  PROVE  /\ Without(seq, n) \in Seq(S)
         /\ Len(Without(seq, n)) = Len(seq) - n
         /\ \A i \in 1..(Len(seq) - n) : Without(seq, n)[i] = seq[i + n]
<1>1. Len(seq) \in Nat /\ n + 1 \in Int
  OBVIOUS
<1>2. \A i \in (n + 1)..Len(seq) : seq[i] \in S
  OBVIOUS
<1>3. /\ SubSeq(seq, n + 1, Len(seq)) \in Seq(S)
      /\ Len(SubSeq(seq, n + 1, Len(seq))) =
           IF n + 1 <= Len(seq) THEN Len(seq) - (n + 1) + 1 ELSE 0
      /\ \A i \in 1..(Len(seq) - (n + 1) + 1) :
           SubSeq(seq, n + 1, Len(seq))[i] = seq[(n + 1) + i - 1]
  BY <1>1, <1>2, SubSeqProperties
<1>4. QED
  BY <1>1, <1>3 DEF Without

\* Evicting or reading packages off the front leaves a window.
LEMMA EvictedWindow ==
  ASSUME NEW ids \in Seq(Nat), NEW vals \in Seq(Value), NEW step \in Nat \ {0},
         IsWindow(ids, vals, step),
         NEW n \in Nat, n <= Len(ids)
  PROVE  /\ Without(ids, n) \in Seq(Nat) /\ Without(vals, n) \in Seq(Value)
         /\ Len(Without(ids, n)) = Len(ids) - n
         /\ IsWindow(Without(ids, n), Without(vals, n), step)
<1> DEFINE newIds  == Without(ids, n)
           newVals == Without(vals, n)
<1>1. Len(ids) \in Nat /\ Len(vals) = Len(ids)
  BY DEF IsWindow
<1>2. /\ newIds \in Seq(Nat) /\ Len(newIds) = Len(ids) - n
      /\ \A i \in 1..(Len(ids) - n) : newIds[i] = ids[i + n]
  BY WithoutShape
<1>3. /\ newVals \in Seq(Value) /\ Len(newVals) = Len(ids) - n
      /\ \A i \in 1..(Len(ids) - n) : newVals[i] = vals[i + n]
  BY <1>1, WithoutShape
<1> HIDE DEF newIds, newVals
<1>4. ASSUME NEW i \in 1..Len(newIds)
      PROVE  /\ newIds[i] % step = 0
             /\ newIds[i] = newIds[1] + ((i - 1) * step)
             /\ newVals[i] \in {None, newIds[i]}
  <2>1. i + n \in 1..Len(ids) /\ 1 + n \in 1..Len(ids) /\ i \in 1..(Len(ids) - n)
        /\ 1 \in 1..(Len(ids) - n)
    BY <1>1, <1>2
  <2>2. /\ ids[i + n] % step = 0
        /\ ids[i + n] = ids[1] + ((i + n) - 1) * step
        /\ vals[i + n] \in {None, ids[i + n]}
        /\ ids[1 + n] = ids[1] + ((1 + n) - 1) * step
    BY <2>1 DEF IsWindow
  <2>3. newIds[i] = ids[i + n] /\ newIds[1] = ids[1 + n] /\ newVals[i] = vals[i + n]
    BY <2>1, <1>2, <1>3
  <2>4. ids[1] \in Nat
    BY <2>1
  <2>5. ids[1] + ((i + n) - 1) * step
          = (ids[1] + ((1 + n) - 1) * step) + ((i - 1) * step)
    BY <2>4
  <2>6. QED
    BY <2>2, <2>3, <2>5
<1>5. newIds # <<>> => newVals[Len(newVals)] # None
  <2>1. SUFFICES ASSUME newIds # <<>> PROVE newVals[Len(newVals)] # None
    OBVIOUS
  <2>2. Len(newIds) > 0
    BY <2>1, <1>2
  <2>3. Len(newVals) \in 1..(Len(ids) - n) /\ Len(newVals) + n = Len(ids)
    BY <2>2, <1>1, <1>2, <1>3
  <2>4. newVals[Len(newVals)] = vals[Len(ids)]
    BY <2>3, <1>3
  <2>5. vals[Len(vals)] # None
    BY <2>2, <1>2 DEF IsWindow
  <2>6. QED
    BY <2>4, <2>5, <1>1
<1>6. QED
  BY <1>2, <1>3, <1>4, <1>5 DEF IsWindow, newIds, newVals

\* Popping packages off the front moves the oldest id forward and leaves the
\* newest.
LEMMA EvictedEnds ==
  ASSUME NEW ids \in Seq(Nat), NEW vals \in Seq(Value), NEW step \in Nat \ {0},
         IsWindow(ids, vals, step),
         NEW n \in Nat, n < Len(ids)
  PROVE  /\ Without(ids, n)[1] >= ids[1]
         /\ Without(ids, n)[Len(Without(ids, n))] = ids[Len(ids)]
<1>1. /\ Len(ids) \in Nat \ {0} /\ 1 \in 1..Len(ids) /\ 1 + n \in 1..Len(ids)
      /\ n <= Len(ids) /\ 1 \in 1..(Len(ids) - n)
      /\ Len(ids) - n \in 1..(Len(ids) - n) /\ (Len(ids) - n) + n = Len(ids)
  OBVIOUS
<1>2. /\ Len(Without(ids, n)) = Len(ids) - n
      /\ \A i \in 1..(Len(ids) - n) : Without(ids, n)[i] = ids[i + n]
  BY <1>1, WithoutShape
<1>3. ids[1] \in Nat /\ ids[1 + n] \in Nat
  BY <1>1
<1>4. ids[1 + n] = ids[1] + ((1 + n) - 1) * step
  BY <1>1 DEF IsWindow
<1>5. ids[1 + n] >= ids[1]
  <2>1. n * step \in Nat
    BY ProductIsNat
  <2>2. (1 + n) - 1 = n
    OBVIOUS
  <2>3. QED
    BY <1>3, <1>4, <2>1, <2>2
<1>6. QED
  BY <1>1, <1>2, <1>5

\* The packages of a window that are still in another one, none of them emptied.
KeepsPresent(ids, vals, newIds, newVals) ==
  \A i \in 1..Len(ids) :
    vals[i] # None /\ newIds # <<>> /\ ids[i] >= newIds[1]
      => \E j \in 1..Len(newIds) : newIds[j] = ids[i] /\ newVals[j] # None

\* Popping packages off the front takes those older than the new front and
\* moves the others with their values.
LEMMA EvictedKeepsPresent ==
  ASSUME NEW ids \in Seq(Nat), NEW vals \in Seq(Value), NEW step \in Nat \ {0},
         IsWindow(ids, vals, step),
         NEW n \in Nat, n < Len(ids)
  PROVE  KeepsPresent(ids, vals, Without(ids, n), Without(vals, n))
<1> DEFINE newIds  == Without(ids, n)
           newVals == Without(vals, n)
<1>1. Len(ids) \in Nat /\ Len(vals) = Len(ids) /\ n <= Len(ids)
  BY DEF IsWindow
<1>2. Len(newIds) = Len(ids) - n /\ \A j \in 1..(Len(ids) - n) : newIds[j] = ids[j + n]
  BY <1>1, WithoutShape
<1>3. \A j \in 1..(Len(ids) - n) : newVals[j] = vals[j + n]
  BY <1>1, WithoutShape
<1> HIDE DEF newIds, newVals
<1>4. ASSUME NEW i \in 1..Len(ids), vals[i] # None, ids[i] >= newIds[1]
      PROVE  \E j \in 1..Len(newIds) : newIds[j] = ids[i] /\ newVals[j] # None
  <2>1. 1 + n \in 1..Len(ids) /\ 1 \in 1..(Len(ids) - n) /\ 1 \in 1..Len(ids)
    BY <1>1
  <2>2. newIds[1] = ids[1 + n] /\ ids[1] \in Nat
    BY <1>2, <2>1
  <2> DEFINE d == n * step
             e == (i - 1) * step
  <2>3. ids[1 + n] = ids[1] + d /\ ids[i] = ids[1] + e
    <3>1. ids[1 + n] = ids[1] + ((1 + n) - 1) * step /\ ids[i] = ids[1] + (i - 1) * step
      BY <2>1 DEF IsWindow
    <3>2. (1 + n) - 1 = n
      OBVIOUS
    <3>3. QED
      BY <3>1, <3>2
  <2>4. i > n
    <3>1. SUFFICES ASSUME i - 1 < n PROVE FALSE
      BY <1>1
    <3> DEFINE f == (n - (i - 1)) * step
    <3>2. f > 0 /\ f \in Int
      BY <3>1
    <3>3. f = d - e /\ d \in Int /\ e \in Int
      OBVIOUS
    <3> HIDE DEF d, e, f
    <3>4. d > e
      BY <3>2, <3>3
    <3>5. QED
      BY <1>4, <2>2, <2>3, <3>3, <3>4
  <2>5. i - n \in 1..(Len(ids) - n) /\ (i - n) + n = i
    BY <1>1, <2>4
  <2>6. QED
    BY <1>2, <1>3, <1>4, <2>5
<1>5. QED
  BY <1>4 DEF KeepsPresent, newIds, newVals

\* The slot that save_missed_message computes, and try_read and the scan rely
\* on, is the slot of the message: every aligned id between the oldest and the
\* newest has one.
LEMMA SlotHolds ==
  ASSUME NEW ids \in Seq(Nat), NEW vals \in Seq(Value), NEW step \in Nat \ {0},
         IsWindow(ids, vals, step), ids # <<>>,
         NEW id \in Nat, id % step = 0, ids[1] <= id, id <= ids[Len(ids)]
  PROVE  /\ ((id - ids[1]) \div step) + 1 \in 1..Len(ids)
         /\ ids[((id - ids[1]) \div step) + 1] = id
<1> DEFINE k == (id - ids[1]) \div step
<1>1. Len(ids) \in Nat \ {0} /\ 1 \in 1..Len(ids) /\ Len(ids) \in 1..Len(ids)
  OBVIOUS
<1>2. ids[1] \in Nat /\ ids[1] % step = 0
  <2>1. ids[1] \in Nat
    BY <1>1
  <2>2. ids[1] % step = 0
    BY <1>1 DEF IsWindow
  <2> QED
    BY <2>1, <2>2
<1>3. k \in Nat /\ id = ids[1] + (k * step)
  BY <1>2, AlignedDifference
<1> HIDE DEF k
<1>4. ids[Len(ids)] = ids[1] + ((Len(ids) - 1) * step)
  BY <1>1 DEF IsWindow
<1>5. k <= Len(ids) - 1
  <2>1. CASE k > Len(ids) - 1
    <3>1. (k - (Len(ids) - 1)) * step > 0
      BY <1>1, <1>3, <2>1
    <3>2. (k - (Len(ids) - 1)) * step = (k * step) - ((Len(ids) - 1) * step)
      BY <1>1, <1>3
    <3>3. k * step \in Int /\ (Len(ids) - 1) * step \in Int
      BY <1>1, <1>3
    <3> QED
      BY <1>2, <1>3, <1>4, <3>1, <3>2, <3>3
  <2> QED
    BY <2>1, <1>1, <1>3
<1>6. k + 1 \in 1..Len(ids)
  BY <1>1, <1>3, <1>5
<1>7. ids[k + 1] = ids[1] + (((k + 1) - 1) * step)
  BY <1>6 DEF IsWindow
<1>8. ids[k + 1] = id
  BY <1>2, <1>3, <1>7
<1>9. QED
  BY <1>6, <1>8 DEF k

\* A deque after the elements of mid and then one more were appended, and what
\* is in its places.
Appended(front, mid, last) == front \o mid \o <<last>>
IsAppended(deque, front, mid, last) ==
  /\ Len(deque) = Len(front) + Len(mid) + 1
  /\ \A i \in 1..Len(front) : deque[i] = front[i]
  /\ \A i \in 1..Len(mid) : deque[Len(front) + i] = mid[i]
  /\ deque[Len(front) + Len(mid) + 1] = last

\* Appending keeps the elements in their places.
LEMMA AppendShape ==
  ASSUME NEW S, NEW front \in Seq(S), NEW mid \in Seq(S), NEW last \in S
  PROVE  /\ Appended(front, mid, last) \in Seq(S)
         /\ IsAppended(Appended(front, mid, last), front, mid, last)
<1>1. front \o mid \in Seq(S) /\ Len(front \o mid) = Len(front) + Len(mid)
  OBVIOUS
<1>2. /\ \A i \in 1..Len(front) : (front \o mid)[i] = front[i]
      /\ \A i \in 1..Len(mid) : (front \o mid)[Len(front) + i] = mid[i]
  OBVIOUS
<1>3. QED
  BY <1>1, <1>2 DEF Appended, IsAppended

\* Appending one element to an empty deque.
LEMMA AppendedToNone ==
  ASSUME NEW x \in Nat
  PROVE  Appended(<<>>, <<>>, x) = <<x>>
<1>1. <<>> \o <<>> = <<>>
  BY EmptySeq, ConcatEmptySeq
<1>2. <<>> \o <<x>> = <<x>>
  OBVIOUS
<1>3. QED
  BY <1>1, <1>2 DEF Appended

\* Popping nothing off a deque of one element.
LEMMA WithoutNone ==
  ASSUME NEW x \in Nat
  PROVE  Without(<<x>>, 0) = <<x>>
<1> DEFINE t == SubSeq(<<x>>, 1, 1)
<1>1. t \in Seq(Nat) /\ Len(t) = 1 /\ t[1] = x
  OBVIOUS
<1> HIDE DEF t
<1>2. t = <<x>>
  BY <1>1
<1>3. QED
  BY <1>2 DEF t, Without

\* A newer message, with reserved slots for the gap before it, extends the
\* window.
LEMMA ExtendedWindow ==
  ASSUME NEW ids \in Seq(Nat), NEW vals \in Seq(Value), NEW step \in Nat \ {0},
         IsWindow(ids, vals, step), ids # <<>>,
         NEW id \in Nat, id % step = 0, id > ids[Len(ids)],
         NEW gap, gap = GapIds(ids[Len(ids)], id, step)
  PROVE  /\ Appended(ids, gap, id) \in Seq(Nat)
         /\ Appended(vals, NoValues(gap), id) \in Seq(Value)
         /\ gap \in Seq(Nat)
         /\ IsWindow(Appended(ids, gap, id), Appended(vals, NoValues(gap), id), step)
<1> DEFINE n == Len(ids)
           g == (id - ids[n] - 1) \div step
           newIds  == Appended(ids, gap, id)
           newVals == Appended(vals, NoValues(gap), id)
<1>1. n \in Nat \ {0} /\ 1 \in 1..n /\ n \in 1..n
  OBVIOUS
<1>2. /\ ids[1] \in Nat /\ ids[n] \in Nat
      /\ ids[n] % step = 0
      /\ ids[n] = ids[1] + ((n - 1) * step)
      /\ Len(vals) = n
  <2>1. ids[1] \in Nat /\ ids[n] \in Nat
    BY <1>1
  <2>2. ids[n] % step = 0 /\ ids[n] = ids[1] + ((n - 1) * step) /\ Len(vals) = n
    BY <1>1 DEF IsWindow
  <2> QED
    BY <2>1, <2>2
<1>3. g \in Nat /\ id = ids[n] + ((g + 1) * step)
  BY <1>2, GapLength
<1>4. /\ gap = [k \in 1..g |-> ids[n] + k * step]
  BY DEF GapIds
<1> HIDE DEF n, g
<1>5. \A k \in 1..g : ids[n] + k * step \in Nat
  <2>1. SUFFICES ASSUME NEW k \in 1..g PROVE ids[n] + k * step \in Nat
    OBVIOUS
  <2>2. ids[n] \in Nat /\ k \in Nat /\ step \in Nat
    BY <1>2, <1>3
  <2> QED
    BY <2>2, PackagesAfter
<1>6. gap \in Seq(Nat) /\ Len(gap) = g /\ \A k \in 1..g : gap[k] = ids[n] + k * step
  <2> DEFINE e(k) == ids[n] + k * step
  <2>1. \A k \in 1..g : e(k) \in Nat
    BY <1>5
  <2> HIDE DEF e
  <2>2. /\ [k \in 1..g |-> e(k)] \in Seq(Nat) /\ Len([k \in 1..g |-> e(k)]) = g
        /\ \A k \in 1..g : [j \in 1..g |-> e(j)][k] = e(k)
    BY <1>3, <2>1
  <2> QED
    BY <1>4, <2>2 DEF e
<1>7. /\ NoValues(gap) \in Seq(Value) /\ Len(NoValues(gap)) = g
      /\ \A k \in 1..g : NoValues(gap)[k] = None
  <2>1. NoValues(gap) = [k \in 1..g |-> None] /\ None \in Value
    BY <1>6 DEF NoValues, Value
  <2> QED
    BY <2>1, <1>3
<1>8. /\ newIds \in Seq(Nat) /\ Len(newIds) = n + g + 1
      /\ \A i \in 1..n : newIds[i] = ids[i]
      /\ \A k \in 1..g : newIds[n + k] = gap[k]
      /\ newIds[n + g + 1] = id
  <2>1. ids \in Seq(Nat) /\ gap \in Seq(Nat) /\ id \in Nat
    BY <1>6
  <2>2. newIds \in Seq(Nat) /\ IsAppended(newIds, ids, gap, id)
    BY <2>1, AppendShape
  <2> HIDE DEF newIds
  <2>3. QED
    BY <1>6, <2>2 DEF IsAppended, n
<1>9. /\ newVals \in Seq(Value) /\ Len(newVals) = n + g + 1
      /\ \A i \in 1..n : newVals[i] = vals[i]
      /\ \A k \in 1..g : newVals[n + k] = None
      /\ newVals[n + g + 1] = id
  <2>1. id \in Value
    BY DEF Value
  <2>2. vals \in Seq(Value) /\ NoValues(gap) \in Seq(Value) /\ id \in Value
    BY <1>7, <2>1
  <2>3. newVals \in Seq(Value) /\ IsAppended(newVals, vals, NoValues(gap), id)
    BY <2>2, AppendShape
  <2> DEFINE empty == NoValues(gap)
  <2>4. /\ IsAppended(newVals, vals, empty, id) /\ Len(empty) = g /\ Len(vals) = n
        /\ \A k \in 1..g : empty[k] = None
    BY <1>2, <1>7, <2>3
  <2> HIDE DEF newVals, empty, n, g
  <2>5. /\ Len(newVals) = n + g + 1 /\ newVals[n + g + 1] = id
        /\ \A i \in 1..n : newVals[i] = vals[i]
        /\ \A k \in 1..g : newVals[n + k] = empty[k]
    BY <2>4 DEF IsAppended
  <2>6. QED
    BY <2>3, <2>4, <2>5
<1> HIDE DEF newIds, newVals
<1>10. newIds[1] = ids[1]
  BY <1>1, <1>8
<1>11. ASSUME NEW i \in 1..Len(newIds)
       PROVE  /\ newIds[i] % step = 0
              /\ newIds[i] = newIds[1] + ((i - 1) * step)
              /\ newVals[i] \in {None, newIds[i]}
  <2>1. CASE i \in 1..n
    <3>1. ids[i] % step = 0 /\ ids[i] = ids[1] + ((i - 1) * step)
          /\ vals[i] \in {None, ids[i]}
      BY <2>1 DEF IsWindow, n
    <3> QED
      BY <3>1, <2>1, <1>8, <1>9, <1>10
  <2>2. CASE i \in (n + 1)..(n + g)
    <3> DEFINE k == i - n
    <3>1. k \in 1..g /\ i = n + k
      BY <2>2, <1>1, <1>3
    <3>2. newIds[i] = ids[n] + (k * step) /\ newVals[i] = None
      BY <3>1, <1>6, <1>8, <1>9
    <3> HIDE DEF k
    <3>3. ids[n] + (k * step) = ids[1] + ((i - 1) * step)
      BY <3>1, <1>1, <1>2
    <3>4. (ids[n] + (k * step)) % step = 0
      <4>1. k * step \in Nat /\ (k * step) % step = 0
        <5>1. k \in Nat
          BY <3>1
        <5>2. ((k * step) + 0) \div step = k
          BY <5>1, DivUnique
        <5>3. k * step \in Nat /\ (k * step) + 0 = k * step
          BY <5>1
        <5>4. k * step = (step * ((k * step) \div step)) + ((k * step) % step)
          BY <5>3, DivMod
        <5>5. (k * step) \div step = k
          BY <5>2, <5>3
        <5>6. k * step = (step * k) + ((k * step) % step)
          BY <5>4, <5>5
        <5>7. (k * step) % step \in Int
          BY <5>3, DivMod
        <5>8. step * k = k * step
          BY <5>1
        <5> QED
          BY <5>3, <5>6, <5>7, <5>8
      <4> QED
        BY <4>1, <1>2, MultipleSum
    <3> QED
      BY <3>2, <3>3, <3>4, <1>10
  <2>3. CASE i = n + g + 1
    <3>1. newIds[i] = id /\ newVals[i] = id
      BY <2>3, <1>8, <1>9
    <3>2. id = ids[1] + ((i - 1) * step)
      <4>1. id = (ids[1] + ((n - 1) * step)) + ((g + 1) * step)
        BY <1>2, <1>3
      <4>2. n - 1 \in Nat /\ g + 1 \in Nat /\ ids[1] \in Nat /\ step \in Nat
        BY <1>1, <1>2, <1>3
      <4>3. id = ids[1] + (((n - 1) + (g + 1)) * step)
        BY <4>1, <4>2, PackagesAfter
      <4>4. i - 1 = (n - 1) + (g + 1)
        BY <2>3, <1>1, <1>3
      <4> QED
        BY <4>3, <4>4
    <3> QED
      BY <3>1, <3>2, <1>10
  <2>4. QED
    BY <2>1, <2>2, <2>3, <1>1, <1>3, <1>8
<1>12. newVals[Len(newVals)] # None
  <2>1. id # None
    BY BufferAssumption
  <2> QED
    BY <2>1, <1>9
<1>13. QED
  BY <1>6, <1>8, <1>9, <1>11, <1>12 DEF IsWindow, newIds, newVals

\* The first message of an empty buffer is a window by itself.
LEMMA SingleWindow ==
  ASSUME NEW step \in Nat \ {0}, NEW id \in Nat, id % step = 0
  PROVE  IsWindow(<<id>>, <<id>>, step)
<1>1. id # None
  BY BufferAssumption
<1>2. id = id + ((1 - 1) * step)
  OBVIOUS
<1>3. QED
  BY <1>1, <1>2 DEF IsWindow

-----------------------------------------------------------------------------
(* What the branches of write_get_missed do to the window *)

SessionRecord == [byte_zero : Nat, max_msg_id : Nat,
                  package_size : Nat, max_elements : Nat]

\* The evicted packages are among those there are, at least one stays, and the
\* rest fits the capacity.
LEMMA ExcessBounds ==
  ASSUME NEW n \in Nat \ {0}, NEW max \in Nat
  PROVE  /\ Excess(n, max) \in Nat
         /\ Excess(n, max) < n
         /\ max > 0 => n - Excess(n, max) <= max
  BY DEF Excess

\* save_new_message leaves a window within the capacity.
LEMMA SavedNewWindow ==
  ASSUME msg_ids \in Seq(Nat), msg_vals \in Seq(Value),
         NEW s \in SessionRecord, s.package_size > 0,
         IsWindow(msg_ids, msg_vals, s.package_size),
         NEW m \in Messages, m.id % s.package_size = 0,
         SaveNewMessage(m, s)
  PROVE  /\ msg_ids' \in Seq(Nat) /\ msg_vals' \in Seq(Value)
         /\ msg_ids' # <<>>
         /\ msg_ids = <<>> => msg_ids' = <<m.id>>
         /\ IsWindow(msg_ids', msg_vals', s.package_size)
         /\ s.max_elements > 0 => Len(msg_ids') <= s.max_elements
         /\ msg_ids # <<>> => msg_ids'[1] >= msg_ids[1]
         /\ msg_ids'[Len(msg_ids')] = m.id
         /\ KeepsPresent(msg_ids, msg_vals, msg_ids', msg_vals')
<1> DEFINE step == s.package_size
           missed == IF msg_ids = <<>> THEN <<>> ELSE GapIds(Newest, m.id, step)
           allIds  == Appended(msg_ids, missed, m.id)
           allVals == Appended(msg_vals, NoValues(missed), m.id)
           evicted == Excess(Len(msg_ids) + Len(missed) + 1, s.max_elements)
<1>1. /\ step \in Nat \ {0} /\ m.id \in Nat /\ s.max_elements \in Nat
      /\ m.id % step = 0
  BY BufferAssumption DEF SessionRecord
<1>2. /\ msg_ids' = Without(allIds, evicted)
      /\ msg_vals' = Without(allVals, evicted)
      /\ msg_ids # <<>> => m.id > Newest
  BY DEF SaveNewMessage, IsNewest, Appended
<1>3. /\ allIds \in Seq(Nat) /\ allVals \in Seq(Value) /\ missed \in Seq(Nat)
      /\ IsWindow(allIds, allVals, step)
  <2>1. CASE msg_ids = <<>>
    <3>1. missed = <<>> /\ NoValues(missed) = <<>>
      BY <2>1 DEF NoValues
    <3>2. msg_vals = <<>>
      BY <2>1 DEF IsWindow
    <3>3. allIds = <<m.id>> /\ allVals = <<m.id>>
      BY <1>1, <2>1, <3>1, <3>2, AppendedToNone
    <3>4. IsWindow(<<m.id>>, <<m.id>>, step)
      BY <1>1, SingleWindow
    <3>5. <<m.id>> \in Seq(Nat) /\ <<m.id>> \in Seq(Value) /\ <<>> \in Seq(Nat)
      BY <1>1 DEF Value
    <3>6. QED
      BY <3>1, <3>3, <3>4, <3>5
  <2>2. CASE msg_ids # <<>>
    <3>1. missed = GapIds(msg_ids[Len(msg_ids)], m.id, step)
      BY <2>2 DEF Newest
    <3>2. m.id > msg_ids[Len(msg_ids)]
      BY <1>2, <2>2 DEF Newest
    <3> HIDE DEF missed
    <3>3. QED
      BY <1>1, <2>2, <3>1, <3>2, ExtendedWindow
  <2>3. QED
    BY <2>1, <2>2
<1>4. /\ Len(allIds) = Len(msg_ids) + Len(missed) + 1
      /\ msg_ids = <<>> => allIds = <<m.id>>
      /\ msg_ids # <<>> => allIds[1] = msg_ids[1]
      /\ allIds[Len(allIds)] = m.id
      /\ \A i \in 1..Len(msg_ids) : allIds[i] = msg_ids[i]
  <2>1. IsAppended(allIds, msg_ids, missed, m.id)
    BY <1>1, <1>3, AppendShape
  <2>2. msg_ids = <<>> => allIds = <<m.id>>
    BY <1>1, AppendedToNone
  <2>3. msg_ids # <<>> => 1 \in 1..Len(msg_ids)
    OBVIOUS
  <2> HIDE DEF allIds, missed
  <2>4. QED
    BY <2>1, <2>2, <2>3 DEF IsAppended
<1> HIDE DEF missed, allIds, allVals, step
<1>5. /\ evicted \in Nat /\ evicted < Len(allIds)
      /\ s.max_elements > 0 => Len(allIds) - evicted <= s.max_elements
  <2>1. Len(allIds) \in Nat \ {0}
    BY <1>3, <1>4
  <2>2. evicted = Excess(Len(allIds), s.max_elements)
    BY <1>4
  <2>3. QED
    BY <1>1, <2>1, <2>2, ExcessBounds
<1>6. /\ Without(allIds, evicted) \in Seq(Nat) /\ Without(allVals, evicted) \in Seq(Value)
      /\ Len(Without(allIds, evicted)) = Len(allIds) - evicted
      /\ IsWindow(Without(allIds, evicted), Without(allVals, evicted), step)
  <2> HIDE DEF evicted
  <2>1. evicted <= Len(allIds)
    BY <1>3, <1>5
  <2>2. QED
    BY <1>1, <1>3, <1>5, <2>1, EvictedWindow
<1>7. msg_ids = <<>> => msg_ids' = <<m.id>>
  <2>1. SUFFICES ASSUME msg_ids = <<>> PROVE msg_ids' = <<m.id>>
    OBVIOUS
  <2>2. allIds = <<m.id>> /\ Len(allIds) = 1
    BY <2>1, <1>4
  <2>3. evicted = 0
    <3> HIDE DEF evicted
    <3> QED
      BY <2>2, <1>5
  <2>4. Without(<<m.id>>, 0) = <<m.id>>
    BY <1>1, WithoutNone
  <2>5. QED
    BY <1>2, <2>2, <2>3, <2>4
<1> HIDE DEF evicted
<1>8. msg_ids' # <<>>
  <2>1. Len(msg_ids') > 0
    BY <1>2, <1>3, <1>5, <1>6
  <2>2. QED
    BY <2>1
<1>9. msg_ids'[1] >= allIds[1] /\ msg_ids'[Len(msg_ids')] = m.id
  <2>1. Without(allIds, evicted)[1] >= allIds[1]
        /\ Without(allIds, evicted)[Len(Without(allIds, evicted))] = allIds[Len(allIds)]
    BY <1>1, <1>3, <1>5, EvictedEnds
  <2>2. QED
    BY <1>2, <1>4, <2>1
<1>10. KeepsPresent(msg_ids, msg_vals, msg_ids', msg_vals')
  <2>1. KeepsPresent(allIds, allVals, msg_ids', msg_vals')
    BY <1>1, <1>2, <1>3, <1>5, EvictedKeepsPresent
  <2>2. \A i \in 1..Len(msg_ids) : i \in 1..Len(allIds) /\ allIds[i] = msg_ids[i]
    BY <1>3, <1>4
  <2>3. \A i \in 1..Len(msg_ids) : allVals[i] = msg_vals[i]
    <3>1. m.id \in Value /\ NoValues(missed) \in Seq(Value)
      <4>1. None \in Value /\ Len(missed) \in Nat
        BY <1>3 DEF Value
      <4>2. QED
        BY <1>1, <4>1 DEF NoValues, Value
    <3>2. IsAppended(allVals, msg_vals, NoValues(missed), m.id)
      BY <3>1, AppendShape DEF allVals
    <3>3. Len(msg_vals) = Len(msg_ids)
      BY DEF IsWindow
    <3>4. QED
      BY <3>2, <3>3 DEF IsAppended
  <2>4. QED
    BY <2>1, <2>2, <2>3 DEF KeepsPresent
<1>11. QED
  BY <1>2, <1>4, <1>5, <1>6, <1>7, <1>8, <1>9, <1>10 DEF step

\* save_missed_message fills a slot of the window with its own package.
LEMMA SavedMissedWindow ==
  ASSUME msg_ids \in Seq(Nat), msg_vals \in Seq(Value),
         NEW s \in SessionRecord, s.package_size > 0,
         IsWindow(msg_ids, msg_vals, s.package_size),
         NEW m \in Messages, m.id % s.package_size = 0,
         SaveMissedMessage(m, s)
  PROVE  /\ msg_vals' \in Seq(Value) /\ msg_ids' = msg_ids
         /\ msg_ids # <<>>
         /\ IsWindow(msg_ids', msg_vals', s.package_size)
         /\ KeepsPresent(msg_ids, msg_vals, msg_ids', msg_vals')
<1> DEFINE step == s.package_size
           k == SlotOf(m, s)
<1>1. step \in Nat \ {0} /\ m.id \in Nat /\ m.id % step = 0
  BY BufferAssumption DEF SessionRecord
<1>2. /\ msg_vals' = [msg_vals EXCEPT ![k] = m.id]
      /\ msg_ids' = msg_ids
      /\ msg_ids # <<>>
      /\ msg_ids[1] <= m.id
      /\ ~ (m.id > msg_ids[Len(msg_ids)])
  BY DEF SaveMissedMessage, IsNewest, Oldest, Newest
<1>3. msg_ids[Len(msg_ids)] \in Nat
  BY <1>2
<1>4. m.id <= msg_ids[Len(msg_ids)]
  BY <1>1, <1>2, <1>3
<1>5. k \in 1..Len(msg_ids) /\ msg_ids[k] = m.id
  <2>1. k = ((m.id - msg_ids[1]) \div step) + 1
    BY DEF SlotOf, Oldest
  <2> HIDE DEF k, step
  <2>2. QED
    BY <1>1, <1>2, <1>4, <2>1, SlotHolds DEF step
<1>6. m.id # None /\ m.id \in Value
  BY <1>1, BufferAssumption DEF Value
<1> HIDE DEF k
<1>7. Len(msg_vals) = Len(msg_ids)
  BY DEF IsWindow
<1>8. /\ msg_vals' \in Seq(Value) /\ Len(msg_vals') = Len(msg_vals)
      /\ \A i \in 1..Len(msg_ids) :
           msg_vals'[i] = IF i = k THEN m.id ELSE msg_vals[i]
  BY <1>2, <1>5, <1>6, <1>7
<1>9. ASSUME NEW i \in 1..Len(msg_ids)
      PROVE  /\ msg_ids[i] % step = 0
             /\ msg_ids[i] = msg_ids[1] + (i - 1) * step
             /\ msg_vals'[i] \in {None, msg_ids[i]}
  <2>1. /\ msg_ids[i] % step = 0
        /\ msg_ids[i] = msg_ids[1] + (i - 1) * step
        /\ msg_vals[i] \in {None, msg_ids[i]}
    BY DEF IsWindow
  <2>2. QED
    BY <2>1, <1>5, <1>8
<1>10. msg_vals'[Len(msg_vals')] # None
  <2>1. msg_vals[Len(msg_vals)] # None
    BY <1>2 DEF IsWindow
  <2>2. Len(msg_ids) \in 1..Len(msg_ids)
    BY <1>2
  <2>3. QED
    BY <2>1, <2>2, <1>6, <1>7, <1>8
<1>11. KeepsPresent(msg_ids, msg_vals, msg_ids', msg_vals')
  BY <1>2, <1>6, <1>8 DEF KeepsPresent
<1>12. QED
  BY <1>2, <1>7, <1>8, <1>9, <1>10, <1>11 DEF IsWindow

\* Every id the loop at the end of the call walks over has a slot in the window.
LEMMA ScannedInWindow ==
  ASSUME NEW ids \in Seq(Nat), NEW vals \in Seq(Value),
         NEW s \in SessionRecord, s.package_size > 0,
         IsWindow(ids, vals, s.package_size), ids # <<>>,
         NEW m \in Messages,
         s.max_msg_id % s.package_size = 0 \/ ids = <<m.id>>,
         NEW id \in Scanned(m, s, ids)
  PROVE  id \in Nat /\ \E i \in 1..Len(ids) : ids[i] = id
<1> DEFINE step == s.package_size
           from == ScanFrom(s, ids[1])
           until == ScanUntil(m, ids[Len(ids)])
<1>1. /\ step \in Nat \ {0} /\ m.id \in Nat /\ s.max_msg_id \in Nat
      /\ 1 \in 1..Len(ids) /\ Len(ids) \in 1..Len(ids)
  BY BufferAssumption DEF SessionRecord
<1>2. ids[1] \in Nat /\ ids[Len(ids)] \in Nat
  BY <1>1
<1>3. ids[1] % step = 0
  BY <1>1 DEF IsWindow
<1>4. /\ from \in Nat /\ ids[1] <= from /\ until <= ids[Len(ids)] /\ until \in Nat
      /\ from \in {s.max_msg_id + step, ids[1]}
  BY <1>1, <1>2 DEF ScanFrom, ScanUntil, Larger, Smaller
<1>5. id \in from..(until - 1) /\ (id - from) % step = 0
  BY DEF Scanned
<1> HIDE DEF from, until, step
<1>6. id \in Nat /\ ids[1] <= id /\ id <= ids[Len(ids)] /\ id - from \in Nat
  BY <1>1, <1>2, <1>4, <1>5
<1>7. CASE ids = <<m.id>>
  <2>1. ids[1] = m.id /\ ids[Len(ids)] = m.id
    BY <1>7, <1>1
  <2>2. QED
    BY <2>1, <1>1, <1>4, <1>5, <1>6
<1>8. CASE s.max_msg_id % s.package_size = 0
  <2>1. from % step = 0
    <3>1. (s.max_msg_id + step) % step = 0
      BY <1>1, <1>8, MultipleSum, MultipleOne DEF step
    <3>2. QED
      BY <3>1, <1>3, <1>4
  <2>2. id % step = 0
    <3>1. ((id - from) + from) % step = 0
      BY <1>1, <1>4, <1>5, <1>6, <2>1, MultipleSum
    <3>2. (id - from) + from = id
      BY <1>4, <1>6
    <3>3. QED
      BY <3>1, <3>2
  <2>3. /\ ((id - ids[1]) \div step) + 1 \in 1..Len(ids)
        /\ ids[((id - ids[1]) \div step) + 1] = id
    <3>1. IsWindow(ids, vals, step)
      BY DEF step
    <3>2. QED
      BY <3>1, <1>1, <1>6, <2>2, SlotHolds
  <2>4. QED
    BY <1>6, <2>3
<1>9. QED
  BY <1>7, <1>8

-----------------------------------------------------------------------------
(* The inductive invariant *)

\* What BufferInv says of the session parameters, the window and the id scanned
\* last, for the parameters s a write works with.
InSession(s) ==
  /\ s \in SessionRecord
  /\ s.package_size > 0
  /\ s.max_elements = MaxSize \div s.package_size
  /\ msg_ids \in Seq(Nat) /\ msg_vals \in Seq(Value)
  /\ IsWindow(msg_ids, msg_vals, s.package_size)
  /\ s.max_elements > 0 => Len(msg_ids) <= s.max_elements
  /\ msg_ids # <<>> => s.max_msg_id % s.package_size = 0

\* A session opened by a message is one, and a running session is one.
LEMMA WriteInSession ==
  ASSUME BufferInv, Alive, NEW m \in Messages
  PROVE  InSession(SessionOf(m))
<1>1. m.id \in Nat /\ m.size \in Nat \ {0} /\ MaxSize \in Nat
  BY BufferAssumption
<1>2. msg_ids \in Seq(Nat) /\ msg_vals \in Seq(Value) /\ session \in SessionRecord
  BY DEF BufferInv, TypeOK, Value, SessionRecord
<1>3. CASE state = "NO_SESSION"
  <2>1. msg_ids = <<>> /\ msg_vals = <<>>
    BY <1>3 DEF BufferInv
  <2>2. SessionOf(m) = [byte_zero |-> m.id, max_msg_id |-> m.id,
          package_size |-> m.size, max_elements |-> MaxSize \div m.size]
    BY <1>3 DEF SessionOf
  <2>3. MaxSize \div m.size \in Nat
    BY <1>1, DivMod
  <2>4. IsWindow(<<>>, <<>>, m.size)
    BY DEF IsWindow
  <2>5. Len(<<>>) = 0
    OBVIOUS
  <2>6. QED
    BY <1>1, <1>2, <2>1, <2>2, <2>3, <2>4, <2>5 DEF InSession, SessionRecord
<1>4. CASE state # "NO_SESSION"
  <2>1. SessionOf(m) = session
    BY <1>4 DEF SessionOf
  <2>2. QED
    BY <1>2, <1>4, <2>1 DEF BufferInv, InSession
<1>5. QED
  BY <1>3, <1>4

\* A write that is not refused keeps the window.
LEMMA SaveKeepsWindow ==
  ASSUME NEW m \in Messages, NEW s, InSession(s), m.id % s.package_size = 0,
         SaveNewMessage(m, s) \/ SaveMissedMessage(m, s) \/ IgnoreOldMessage(m)
  PROVE  /\ msg_ids' \in Seq(Nat) /\ msg_vals' \in Seq(Value)
         /\ IsWindow(msg_ids', msg_vals', s.package_size)
         /\ s.max_elements > 0 => Len(msg_ids') <= s.max_elements
         /\ msg_ids' # <<>>
         /\ s.max_msg_id % s.package_size = 0 \/ msg_ids' = <<m.id>>
<1>1. CASE SaveNewMessage(m, s)
  BY <1>1, SavedNewWindow DEF InSession
<1>2. CASE SaveMissedMessage(m, s)
  BY <1>2, SavedMissedWindow DEF InSession
<1>3. CASE IgnoreOldMessage(m)
  <2>1. msg_ids' = msg_ids /\ msg_vals' = msg_vals /\ msg_ids # <<>>
    BY <1>3 DEF IgnoreOldMessage, IsNewest
  <2>2. QED
    BY <2>1 DEF InSession
<1>4. QED
  BY <1>1, <1>2, <1>3

\* The outcome of the scan: ids with a slot in the window, or a crash.
LEMMA ReportIsMissed ==
  ASSUME NEW m \in Messages, NEW s, s \in SessionRecord, s.package_size > 0,
         msg_ids' \in Seq(Nat), msg_vals' \in Seq(Value), msg_ids' # <<>>,
         IsWindow(msg_ids', msg_vals', s.package_size),
         s.max_msg_id % s.package_size = 0 \/ msg_ids' = <<m.id>>,
         ReportMissed(m, s)
  PROVE  /\ result' \in [call : Calls, ids : SUBSET Nat]
         /\ MissedHaveRoom'
         /\ session' \in SessionRecord
         /\ session'.package_size = s.package_size
         /\ session'.max_elements = s.max_elements
         /\ Alive' => session'.max_msg_id = m.id
<1> DEFINE scanned == Scanned(m, s, msg_ids')
<1>1. m.id \in Nat
  BY BufferAssumption
<1>2. \A id \in scanned : id \in Nat /\ \E i \in 1..Len(msg_ids') : msg_ids'[i] = id
  BY ScannedInWindow
<1> HIDE DEF scanned
<1>3. CASE \E guessed \in SUBSET OutOfRange(scanned, msg_vals') :
           /\ result' = Result("write", ReportedFor(scanned, msg_vals') \cup guessed)
           /\ session' = [s EXCEPT !.max_msg_id = m.id]
  <2>1. PICK guessed \in SUBSET OutOfRange(scanned, msg_vals') :
           /\ result' = Result("write", ReportedFor(scanned, msg_vals') \cup guessed)
           /\ session' = [s EXCEPT !.max_msg_id = m.id]
    BY <1>3
  <2>2. result'.ids \subseteq scanned /\ result'.call = "write"
    BY <2>1 DEF Result, ReportedFor, OutOfRange
  <2>3. result' \in [call : Calls, ids : SUBSET Nat]
    <3>1. result'.ids \subseteq Nat
      BY <1>2, <2>2
    <3>2. QED
      BY <2>1, <3>1 DEF Result, Calls
  <2>4. MissedHaveRoom'
    BY <1>2, <2>2 DEF MissedHaveRoom
  <2>5. session' \in SessionRecord /\ session'.max_msg_id = m.id
        /\ session'.package_size = s.package_size
        /\ session'.max_elements = s.max_elements
    BY <1>1, <2>1 DEF SessionRecord
  <2>6. QED
    BY <2>3, <2>4, <2>5
<1>4. CASE result' = Result("crashed", {}) /\ session' = s
  BY <1>4 DEF Result, Calls, MissedHaveRoom, Alive
<1>5. QED
  BY <1>3, <1>4 DEF ReportMissed, scanned

\* The new state and session of a write satisfy BufferInv.
LEMMA WriteKeepsInv ==
  ASSUME BufferInv, NEW m \in Messages, WriteGetMissed(m)
  PROVE  BufferInv'
<1> DEFINE s == SessionOf(m)
<1>1. InSession(s)
  BY WriteInSession DEF WriteGetMissed
<1>2. state' \in {"WAITING", "READABLE"}
  <2>1. state \in {"NO_SESSION", "WAITING", "READABLE"}
    BY DEF BufferInv, TypeOK
  <2>2. state' = StateAfter(m, s)
    BY DEF WriteGetMissed
  <2> HIDE DEF s
  <2>3. QED
    BY <2>1, <2>2 DEF StateAfter
<1>3. \/ RefuseMessage(m, s)
      \/ /\ m.id % s.package_size = 0
         /\ SaveNewMessage(m, s) \/ SaveMissedMessage(m, s) \/ IgnoreOldMessage(m)
         /\ ReportMissed(m, s)
  BY DEF WriteGetMissed
<1> HIDE DEF s
<1>4. CASE RefuseMessage(m, s)
  <2>1. /\ session' = s /\ msg_ids' = msg_ids /\ msg_vals' = msg_vals
        /\ result' = [call |-> "thrown", ids |-> {}]
    BY <1>4 DEF RefuseMessage, Result
  <2>2. result' \in [call : Calls, ids : SUBSET Nat] /\ MissedHaveRoom'
    BY <2>1 DEF Calls, MissedHaveRoom
  <2>3. TypeOK'
    BY <1>1, <1>2, <2>1, <2>2 DEF TypeOK, InSession, SessionRecord, Value
  <2>4. QED
    BY <1>1, <1>2, <2>1, <2>2, <2>3 DEF BufferInv, InSession
<1>5. CASE /\ m.id % s.package_size = 0
           /\ SaveNewMessage(m, s) \/ SaveMissedMessage(m, s) \/ IgnoreOldMessage(m)
           /\ ReportMissed(m, s)
  <2>1. /\ msg_ids' \in Seq(Nat) /\ msg_vals' \in Seq(Value)
        /\ IsWindow(msg_ids', msg_vals', s.package_size)
        /\ s.max_elements > 0 => Len(msg_ids') <= s.max_elements
        /\ msg_ids' # <<>>
        /\ s.max_msg_id % s.package_size = 0 \/ msg_ids' = <<m.id>>
    BY <1>1, <1>5, SaveKeepsWindow
  <2>2. s \in SessionRecord /\ s.package_size > 0
        /\ s.max_elements = MaxSize \div s.package_size
    BY <1>1 DEF InSession
  <2>3. /\ result' \in [call : Calls, ids : SUBSET Nat]
        /\ MissedHaveRoom'
        /\ session' \in SessionRecord
        /\ session'.package_size = s.package_size
        /\ session'.max_elements = s.max_elements
        /\ Alive' => session'.max_msg_id = m.id
    BY <1>5, <2>1, <2>2, ReportIsMissed
  <2>4. TypeOK'
    BY <1>2, <2>1, <2>3 DEF TypeOK, SessionRecord, Value
  <2>5. QED
    BY <1>2, <1>5, <2>1, <2>2, <2>3, <2>4 DEF BufferInv
<1>6. QED
  BY <1>3, <1>4, <1>5

\* Reading the front package leaves the rest of the window.
LEMMA ReadKeepsInv ==
  ASSUME BufferInv, TryReadPackage
  PROVE  BufferInv'
<1>1. /\ state = "READABLE" /\ state' = state /\ session' = session
      /\ msg_vals # <<>> /\ Head(msg_vals) # None
      /\ msg_ids' = Tail(msg_ids) /\ msg_vals' = Tail(msg_vals)
      /\ result' = [call |-> "read", ids |-> {Head(msg_vals)}]
  BY DEF TryReadPackage, FrontIsPresent, Popped, Result
<1>2. /\ msg_ids \in Seq(Nat) /\ msg_vals \in Seq(Value)
      /\ session \in SessionRecord /\ session.package_size > 0
      /\ IsWindow(msg_ids, msg_vals, session.package_size)
  BY <1>1 DEF BufferInv, TypeOK, SessionRecord, Value
<1>3. session.package_size \in Nat \ {0}
  BY <1>2 DEF SessionRecord
<1>4. Len(msg_vals) = Len(msg_ids) /\ Len(msg_ids) \in Nat \ {0}
  <2>1. Len(msg_vals) = Len(msg_ids)
    BY <1>2 DEF IsWindow
  <2>2. QED
    BY <1>1, <1>2, <2>1
<1>5. msg_ids' = Without(msg_ids, 1) /\ msg_vals' = Without(msg_vals, 1)
  BY <1>1, <1>2, <1>4 DEF Without
<1>6. /\ Without(msg_ids, 1) \in Seq(Nat) /\ Without(msg_vals, 1) \in Seq(Value)
      /\ Len(Without(msg_ids, 1)) = Len(msg_ids) - 1
      /\ IsWindow(Without(msg_ids, 1), Without(msg_vals, 1), session.package_size)
  BY <1>2, <1>3, <1>4, EvictedWindow
<1>7. Head(msg_vals) \in Nat
  BY <1>1, <1>2 DEF Value
<1>8. result' \in [call : Calls, ids : SUBSET Nat] /\ MissedHaveRoom'
  BY <1>1, <1>7 DEF Calls, MissedHaveRoom
<1>9. TypeOK'
  BY <1>1, <1>2, <1>5, <1>6, <1>7, <1>8 DEF TypeOK, SessionRecord, Value
<1>10. session.max_elements > 0 => Len(msg_ids') <= session.max_elements
  <2>1. session.max_elements > 0 => Len(msg_ids) <= session.max_elements
    BY <1>1 DEF BufferInv
  <2>2. session.max_elements \in Nat
    BY <1>2 DEF SessionRecord
  <2>3. QED
    BY <2>1, <2>2, <1>4, <1>5, <1>6
<1>11. msg_ids # <<>> /\ Alive
  BY <1>4 DEF TryReadPackage
<1>12. QED
  BY <1>1, <1>5, <1>6, <1>8, <1>9, <1>10, <1>11 DEF BufferInv

\* Every call keeps BufferInv.
LEMMA NextBufferInv ==
  ASSUME BufferInv, [Next]_vars
  PROVE  BufferInv'
<1>1. ASSUME NEW m \in Messages, WriteGetMissed(m) PROVE BufferInv'
  BY <1>1, WriteKeepsInv
<1>2. CASE TryReadNotReadable
  BY <1>2 DEF TryReadNotReadable, BufferInv, TypeOK, MissedHaveRoom,
                    Result, Calls, Alive
<1>3. CASE TryReadThrows
  BY <1>3 DEF TryReadThrows, BufferInv, TypeOK, MissedHaveRoom,
                    Result, Calls, Alive
<1>4. CASE TryReadPackage
  BY <1>4, ReadKeepsInv
<1>5. ASSUME NEW id \in Ids, HasSpaceFor(id) PROVE BufferInv'
  <2>1. id \in Nat
    BY BufferAssumption DEF Ids
  <2>2. /\ result' \in [call : Calls, ids : SUBSET Nat]
        /\ result'.call # "write"
        /\ msg_ids # <<>> => Alive'
    BY <1>5, <2>1 DEF HasSpaceFor, Result, Calls, Alive
  <2>3. UNCHANGED <<state, session, msg_ids, msg_vals>> /\ Alive
    BY <1>5 DEF HasSpaceFor
  <2>4. QED
    BY <2>2, <2>3 DEF BufferInv, TypeOK, MissedHaveRoom, Alive
<1>6. CASE Reset
  BY <1>6 DEF Reset, BufferInv, TypeOK, MissedHaveRoom, Result, Calls
<1>7. CASE UNCHANGED vars
  BY <1>7 DEF vars, BufferInv, TypeOK, MissedHaveRoom, Alive
<1>8. QED
  BY <1>1, <1>2, <1>3, <1>4, <1>5, <1>6, <1>7 DEF Next

\* BufferInv holds in every reachable state: the window stays an aligned
\* arithmetic progression of package ids within the capacity, and what a write
\* reports as missed has room, whatever sequence of calls is made.
THEOREM BufferInvariant == Spec => []BufferInv
<1>1. Init => BufferInv
  BY DEF Init, BufferInv, TypeOK, MissedHaveRoom, Result, Calls
<1>2. BufferInv /\ [Next]_vars => BufferInv'
  BY NextBufferInv
<1>3. QED
  BY <1>1, <1>2, PTL DEF Spec

-----------------------------------------------------------------------------
(* The properties that the invariant implies *)

\* The variables keep their types whatever calls are made.
THEOREM BufferTypeCorrect == Spec => []TypeOK
<1>1. BufferInv => TypeOK
  BY DEF BufferInv
<1>2. QED
  BY <1>1, BufferInvariant, PTL

\* What write_get_missed reports can be saved when it is retransmitted at once.
THEOREM MissedAlwaysHaveRoom == Spec => []MissedHaveRoom
<1>1. BufferInv => MissedHaveRoom
  BY DEF BufferInv
<1>2. QED
  BY <1>1, BufferInvariant, PTL

\* The two deques name consecutive packages after any sequence of writes,
\* reads and resets.
THEOREM WindowAlwaysConsecutive == Spec => []WindowConsecutive
<1>1. ASSUME BufferInv PROVE WindowConsecutive
  <2>1. CASE state = "NO_SESSION"
    <3>1. msg_ids = <<>> /\ msg_vals = <<>>
      BY <1>1, <2>1 DEF BufferInv
    <3>2. QED
      BY <3>1 DEF WindowConsecutive
  <2>2. CASE state # "NO_SESSION"
    <3>1. /\ session.package_size \in Nat \ {0} /\ msg_ids \in Seq(Nat)
          /\ IsWindow(msg_ids, msg_vals, session.package_size)
      BY <1>1, <2>2 DEF BufferInv, TypeOK
    <3>2. ASSUME NEW i \in 1..(Len(msg_ids) - 1)
          PROVE  msg_ids[i + 1] = msg_ids[i] + session.package_size
      <4>1. i \in 1..Len(msg_ids) /\ i + 1 \in 1..Len(msg_ids) /\ 1 \in 1..Len(msg_ids)
        BY <3>1
      <4>2. msg_ids[1] \in Nat
        BY <3>1, <4>1
      <4>3. /\ msg_ids[i] = msg_ids[1] + (i - 1) * session.package_size
            /\ msg_ids[i + 1] = msg_ids[1] + ((i + 1) - 1) * session.package_size
        BY <3>1, <4>1 DEF IsWindow
      <4>4. QED
        BY <3>1, <4>2, <4>3
    <3>3. QED
      BY <3>1, <3>2 DEF WindowConsecutive, IsWindow
  <2>3. QED
    BY <2>1, <2>2
<1>2. QED
  BY <1>1, BufferInvariant, PTL

\* No write puts a package into a slot that is not its own.
THEOREM SlotsAlwaysHoldTheirOwn == Spec => []SlotsHoldTheirOwn
<1>1. ASSUME BufferInv PROVE SlotsHoldTheirOwn
  <2>1. CASE state = "NO_SESSION"
    <3>1. msg_vals = <<>>
      BY <1>1, <2>1 DEF BufferInv
    <3>2. QED
      BY <3>1 DEF SlotsHoldTheirOwn
  <2>2. CASE state # "NO_SESSION"
    <3>1. IsWindow(msg_ids, msg_vals, session.package_size)
      BY <1>1, <2>2 DEF BufferInv
    <3>2. QED
      BY <3>1 DEF IsWindow, SlotsHoldTheirOwn
  <2>3. QED
    BY <2>1, <2>2
<1>2. QED
  BY <1>1, BufferInvariant, PTL

\* A capacity of at least one package is never exceeded, in bytes.
THEOREM BufferAlwaysFits == Spec => []FitsBuffer
<1>1. ASSUME BufferInv PROVE FitsBuffer
  <2>1. SUFFICES ASSUME session.max_elements > 0
                 PROVE  Len(msg_ids) * session.package_size <= MaxSize
    BY DEF FitsBuffer
  <2>2. /\ session.package_size \in Nat /\ session.max_elements \in Nat
        /\ msg_ids \in Seq(Nat) /\ MaxSize \in Nat /\ Len(msg_ids) \in Nat
    BY <1>1, BufferAssumption DEF BufferInv, TypeOK
  <2>3. CASE state = "NO_SESSION"
    <3>1. Len(msg_ids) = 0
      BY <1>1, <2>3 DEF BufferInv
    <3>2. QED
      BY <2>2, <3>1
  <2>4. CASE state # "NO_SESSION"
    <3> DEFINE step == session.package_size
               max  == session.max_elements
               n    == Len(msg_ids)
    <3>1. step \in Nat \ {0} /\ max = MaxSize \div step /\ n <= max
      BY <1>1, <2>1, <2>2, <2>4 DEF BufferInv
    <3>2. n \in Nat /\ max \in Nat
      BY <2>2
    <3> HIDE DEF step, max, n
    <3>3. MaxSize \in Nat /\ MaxSize % step \in 0..(step - 1)
      BY <2>2, <3>1, DivMod
    <3>4. MaxSize = (step * max) + (MaxSize % step) /\ MaxSize % step >= 0
      BY <3>1, <3>3, DivMod
    <3>5. n * step <= step * max
      <4>1. (max - n) * step >= 0
        BY <3>1, <3>2
      <4>2. (max - n) * step = (step * max) - (n * step)
        BY <3>1, <3>2
      <4>3. step * max \in Int /\ n * step \in Int
        BY <3>1, <3>2
      <4>4. QED
        BY <4>1, <4>2, <4>3
    <3>6. n * step <= MaxSize
      <4>1. step * max \in Int /\ n * step \in Int
        BY <3>1, <3>2
      <4>2. QED
        BY <3>1, <3>4, <3>3, <3>5, <4>1
    <3>7. QED
      BY <3>6 DEF n, step
  <2>5. QED
    BY <2>3, <2>4
<1>2. QED
  BY <1>1, BufferInvariant, PTL

\* The ends of a window with packages never move back; only a reset or the read
\* of the last package empties it; an empty one opens with one message.
THEOREM WindowAlwaysMoves == Spec => WindowMoves
<1> DEFINE Forward == msg_ids # <<>> /\ msg_ids' # <<>>
                        => Oldest' >= Oldest /\ Newest' >= Newest
           Emptied == msg_ids # <<>> /\ msg_ids' = <<>> =>
                        result'.call = "reset" \/ (result'.call = "read" /\ Len(msg_ids) = 1)
           Opened  == msg_ids = <<>> /\ msg_ids' # <<>> => Len(msg_ids') = 1
<1>1. ASSUME BufferInv, [Next]_vars PROVE Forward
  <2>1. SUFFICES ASSUME msg_ids # <<>>, msg_ids' # <<>>
                 PROVE  Oldest' >= Oldest /\ Newest' >= Newest
    OBVIOUS
  <2>2. /\ msg_ids \in Seq(Nat) /\ msg_vals \in Seq(Value)
        /\ Oldest \in Nat /\ Newest \in Nat
    BY <1>1, <2>1 DEF BufferInv, TypeOK, Value, Oldest, Newest
  <2>3. CASE msg_ids' = msg_ids
    BY <2>2, <2>3 DEF Oldest, Newest
  <2>4. ASSUME NEW m \in Messages, WriteGetMissed(m), ~ UNCHANGED msg_ids
        PROVE  Oldest' >= Oldest /\ Newest' >= Newest
    <3> DEFINE s == SessionOf(m)
    <3>1. InSession(s)
      BY <1>1, <2>4, WriteInSession DEF WriteGetMissed
    <3>2. m.id % s.package_size = 0 /\ SaveNewMessage(m, s)
      BY <2>4 DEF WriteGetMissed, RefuseMessage, SaveMissedMessage, IgnoreOldMessage
    <3> HIDE DEF s
    <3>3. /\ msg_ids # <<>> => msg_ids'[1] >= msg_ids[1]
          /\ msg_ids'[Len(msg_ids')] = m.id
      BY <3>1, <3>2, SavedNewWindow DEF InSession
    <3>4. m.id > Newest /\ m.id \in Nat
      BY <2>1, <3>2, BufferAssumption DEF SaveNewMessage, IsNewest
    <3>5. QED
      BY <2>1, <2>2, <3>3, <3>4 DEF Oldest, Newest
  <2>5. CASE TryReadPackage
    <3>1. /\ session.package_size \in Nat \ {0}
          /\ IsWindow(msg_ids, msg_vals, session.package_size)
      BY <1>1, <2>5 DEF TryReadPackage, BufferInv, TypeOK
    <3>2. msg_ids' = Without(msg_ids, 1) /\ Len(msg_ids) \in Nat
      BY <2>1, <2>2, <2>5 DEF TryReadPackage, Popped, Without
    <3>3. 1 < Len(msg_ids)
      <4>1. Len(msg_ids') = Len(msg_ids) - 1 /\ msg_ids' \in Seq(Nat)
        BY <2>1, <2>2, <2>5 DEF TryReadPackage, Popped
      <4>2. Len(msg_ids') > 0
        BY <2>1, <4>1
      <4>3. QED
        BY <3>2, <4>1, <4>2
    <3>4. /\ Without(msg_ids, 1)[1] >= msg_ids[1]
          /\ Without(msg_ids, 1)[Len(Without(msg_ids, 1))] = msg_ids[Len(msg_ids)]
      BY <2>2, <3>1, <3>3, EvictedEnds
    <3>5. QED
      BY <2>2, <3>2, <3>4 DEF Oldest, Newest
  <2>6. CASE Reset
    BY <2>1, <2>6 DEF Reset
  <2>7. QED
    BY <1>1, <2>3, <2>4, <2>5, <2>6
       DEF Next, vars, TryReadNotReadable, TryReadThrows, HasSpaceFor
<1>2. ASSUME BufferInv, [Next]_vars PROVE Emptied /\ Opened
  <2>1. /\ msg_ids \in Seq(Nat) /\ msg_vals \in Seq(Value)
    BY <1>2 DEF BufferInv, TypeOK, Value
  <2>2. CASE msg_ids' = msg_ids
    BY <2>2
  <2>3. ASSUME NEW m \in Messages, WriteGetMissed(m), ~ UNCHANGED msg_ids
        PROVE  Emptied /\ Opened
    <3> DEFINE s == SessionOf(m)
    <3>1. InSession(s)
      BY <1>2, <2>3, WriteInSession DEF WriteGetMissed
    <3>2. m.id % s.package_size = 0 /\ SaveNewMessage(m, s)
      BY <2>3 DEF WriteGetMissed, RefuseMessage, SaveMissedMessage, IgnoreOldMessage
    <3> HIDE DEF s
    <3>3. msg_ids' # <<>> /\ (msg_ids = <<>> => msg_ids' = <<m.id>>)
      BY <3>1, <3>2, SavedNewWindow DEF InSession
    <3>4. Len(<<m.id>>) = 1
      OBVIOUS
    <3>5. QED
      BY <3>3, <3>4
  <2>4. CASE TryReadPackage
    <3>1. result'.call = "read" /\ msg_ids' = Tail(msg_ids)
      BY <2>4 DEF TryReadPackage, Result, Popped
    <3>2. Len(msg_vals) = Len(msg_ids) /\ msg_vals # <<>>
      BY <1>2, <2>4 DEF TryReadPackage, FrontIsPresent, BufferInv, IsWindow
    <3>3. msg_ids # <<>>
      BY <2>1, <3>2
    <3>4. msg_ids' = <<>> => Len(msg_ids) = 1
      <4>1. Len(msg_ids') = Len(msg_ids) - 1 /\ Len(msg_ids) \in Nat
        BY <2>1, <3>1, <3>3
      <4>2. SUFFICES ASSUME msg_ids' = <<>> PROVE Len(msg_ids) = 1
        OBVIOUS
      <4>3. Len(msg_ids') = 0
        BY <4>2
      <4>4. QED
        BY <4>1, <4>3
    <3>5. QED
      BY <3>1, <3>3, <3>4
  <2>5. CASE Reset
    BY <2>5 DEF Reset, Result
  <2>6. QED
    BY <1>2, <2>2, <2>3, <2>4, <2>5
       DEF Next, vars, TryReadNotReadable, TryReadThrows, HasSpaceFor
<1>3. BufferInv /\ [Next]_vars => [Forward /\ Emptied /\ Opened]_vars
  BY <1>1, <1>2
<1>4. QED
  BY <1>3, BufferInvariant, PTL DEF Spec, WindowMoves

\* The newest slot always holds a package, whatever was evicted, read or filled
\* late.
THEOREM NewestAlwaysPresent == Spec => []NewestPresent
<1>1. ASSUME BufferInv PROVE NewestPresent
  <2>1. CASE state = "NO_SESSION"
    BY <1>1, <2>1 DEF BufferInv, NewestPresent
  <2>2. CASE state # "NO_SESSION"
    <3>1. /\ IsWindow(msg_ids, msg_vals, session.package_size)
          /\ msg_ids \in Seq(Nat) /\ msg_vals \in Seq(Value)
      BY <1>1, <2>2 DEF BufferInv, TypeOK, Value
    <3>2. msg_vals # <<>> => msg_ids # <<>>
      BY <3>1 DEF IsWindow
    <3>3. QED
      BY <3>1, <3>2 DEF IsWindow, NewestPresent
  <2>3. QED
    BY <2>1, <2>2
<1>2. QED
  BY <1>1, BufferInvariant, PTL

\* A package that has come is not lost while its slot is in the window: neither
\* the slots reserved for a gap, nor a late message, nor an eviction takes it.
THEOREM PresentAlwaysStays == Spec => PresentStays
<1> DEFINE Stays ==
      \A i \in 1..Len(msg_vals) :
        msg_vals[i] # None /\ msg_ids' # <<>> /\ msg_ids[i] >= Oldest'
          => \E j \in 1..Len(msg_ids') :
               msg_ids'[j] = msg_ids[i] /\ msg_vals'[j] # None
<1>1. ASSUME BufferInv, [Next]_vars PROVE Stays
  <2>1. /\ msg_ids \in Seq(Nat) /\ msg_vals \in Seq(Value)
        /\ Len(msg_vals) = Len(msg_ids)
    BY <1>1 DEF BufferInv, TypeOK, Value, IsWindow
  <2>2. SUFFICES KeepsPresent(msg_ids, msg_vals, msg_ids', msg_vals')
    BY <2>1 DEF KeepsPresent, Oldest
  <2>3. CASE UNCHANGED <<msg_ids, msg_vals>>
    BY <2>1, <2>3 DEF KeepsPresent
  <2>4. ASSUME NEW m \in Messages, WriteGetMissed(m), ~ UNCHANGED <<msg_ids, msg_vals>>
        PROVE  KeepsPresent(msg_ids, msg_vals, msg_ids', msg_vals')
    <3> DEFINE s == SessionOf(m)
    <3>1. InSession(s)
      BY <1>1, <2>4, WriteInSession DEF WriteGetMissed
    <3>2. /\ m.id % s.package_size = 0
          /\ SaveNewMessage(m, s) \/ SaveMissedMessage(m, s)
      BY <2>4 DEF WriteGetMissed, RefuseMessage, IgnoreOldMessage
    <3> HIDE DEF s
    <3>3. CASE SaveNewMessage(m, s)
      BY <3>1, <3>2, <3>3, SavedNewWindow DEF InSession
    <3>4. CASE SaveMissedMessage(m, s)
      BY <3>1, <3>2, <3>4, SavedMissedWindow DEF InSession
    <3>5. QED
      BY <3>2, <3>3, <3>4
  <2>5. CASE TryReadPackage
    <3>1. /\ session.package_size \in Nat \ {0}
          /\ IsWindow(msg_ids, msg_vals, session.package_size)
      BY <1>1, <2>5 DEF TryReadPackage, BufferInv, TypeOK
    <3>2. Len(msg_ids) \in Nat \ {0}
      BY <2>1, <2>5 DEF TryReadPackage, FrontIsPresent
    <3>3. msg_ids' = Without(msg_ids, 1) /\ msg_vals' = Without(msg_vals, 1)
      BY <2>1, <2>5, <3>2 DEF TryReadPackage, Popped, Without
    <3>4. CASE 1 < Len(msg_ids)
      BY <2>1, <3>1, <3>3, <3>4, EvictedKeepsPresent
    <3>5. CASE Len(msg_ids) = 1
      <4>1. msg_ids' = <<>>
        BY <2>1, <2>5, <3>5 DEF TryReadPackage, Popped
      <4>2. QED
        BY <4>1 DEF KeepsPresent
    <3>6. 1 < Len(msg_ids) \/ Len(msg_ids) = 1
      BY <3>2
    <3>7. QED
      BY <3>4, <3>5, <3>6
  <2>6. CASE Reset
    BY <2>6 DEF Reset, KeepsPresent
  <2>7. QED
    BY <1>1, <2>3, <2>4, <2>5, <2>6
       DEF Next, vars, TryReadNotReadable, TryReadThrows, HasSpaceFor
<1>2. BufferInv /\ [Next]_vars => [Stays]_vars
  BY <1>1
<1>3. QED
  BY <1>2, BufferInvariant, PTL DEF Spec, PresentStays

-----------------------------------------------------------------------------
(* What a caller may conclude from an answer *)

\* The ids of a window lie between its first and its last.
LEMMA WindowBetween ==
  ASSUME NEW ids \in Seq(Nat), NEW vals, NEW step \in Nat \ {0},
         IsWindow(ids, vals, step), NEW i \in 1..Len(ids)
  PROVE  ids[1] <= ids[i] /\ ids[i] <= ids[Len(ids)]
<1> DEFINE n == Len(ids)
           d == (i - 1) * step
           e == (n - i) * step
           f == (n - 1) * step
<1>1. n \in Nat \ {0} /\ 1 \in 1..n /\ n \in 1..n /\ i \in 1..n
  OBVIOUS
<1>2. ids[1] \in Nat /\ ids[i] = ids[1] + d /\ ids[n] = ids[1] + f
  <2>1. ids[1] \in Nat
    BY <1>1
  <2>2. ids[i] = ids[1] + d
    BY <1>1 DEF IsWindow
  <2>3. ids[n] = ids[1] + f
    BY <1>1 DEF IsWindow
  <2>4. QED
    BY <2>1, <2>2, <2>3
<1>3. d \in Nat /\ e \in Nat
  <2>1. i - 1 \in Nat /\ n - i \in Nat
    BY <1>1
  <2>2. QED
    BY <2>1, ProductIsNat
<1>4. f = d + e
  BY <1>1
<1> HIDE DEF d, e, f
<1>5. QED
  BY <1>2, <1>3, <1>4

\* What a write reports lies below the message it was called with.
LEMMA ReportedAreIds ==
  ASSUME BufferInv, BufferInv', NEW m \in Messages, WriteGetMissed(m),
         result'.call = "write"
  PROVE  result'.ids \subseteq Ids /\ result'.ids \subseteq 0..m.id
<1> DEFINE s == SessionOf(m)
           from == ScanFrom(s, msg_ids'[1])
           until == ScanUntil(m, msg_ids'[Len(msg_ids')])
<1>1. s \in SessionRecord /\ m.id \in Nat
  BY WriteInSession, BufferAssumption DEF WriteGetMissed, InSession
<1>2. ReportMissed(m, s)
  BY DEF WriteGetMissed, RefuseMessage, Result
<1>3. result'.ids \subseteq Scanned(m, s, msg_ids')
  <2> HIDE DEF s
  <2>1. QED
    BY <1>2 DEF ReportMissed, ReportedFor, OutOfRange, Result
<1> HIDE DEF s
<1>4. ASSUME NEW id \in result'.ids PROVE id \in 0..m.id
  <2>1. id \in from..(until - 1)
    BY <1>3 DEF Scanned
  <2>2. id \in Nat /\ msg_ids' \in Seq(Nat) /\ \E i \in 1..Len(msg_ids') : msg_ids'[i] = id
    BY DEF BufferInv, TypeOK, MissedHaveRoom
  <2>3. 1 \in 1..Len(msg_ids') /\ Len(msg_ids') \in 1..Len(msg_ids')
    BY <2>2
  <2>4. msg_ids'[1] \in Nat /\ msg_ids'[Len(msg_ids')] \in Nat
    BY <2>2, <2>3
  <2>5. from \in Nat /\ until \in Nat /\ until <= m.id
    BY <1>1, <2>4 DEF SessionRecord, ScanFrom, ScanUntil, Larger, Smaller
  <2> HIDE DEF from, until
  <2>6. QED
    BY <1>1, <2>1, <2>2, <2>5
<1>5. QED
  BY <1>4 DEF Ids

\* An id for which has_space_for answers no has no slot.
LEMMA NoSpaceNoSlot ==
  ASSUME BufferInv, NEW id \in Nat, HasSpaceFor(id), result'.ids = {}
  PROVE  \A i \in 1..Len(msg_ids) : msg_ids[i] # id
<1>1. SUFFICES ASSUME NEW i \in 1..Len(msg_ids) PROVE msg_ids[i] # id
  OBVIOUS
<1>2. msg_ids # <<>> /\ msg_ids \in Seq(Nat)
  BY <1>1 DEF BufferInv, TypeOK
<1>3. state # "NO_SESSION"
  BY <1>2 DEF BufferInv
<1>4. /\ session.package_size \in Nat \ {0}
      /\ IsWindow(msg_ids, msg_vals, session.package_size)
  BY <1>3 DEF BufferInv, TypeOK
<1>5. Oldest <= msg_ids[i] /\ msg_ids[i] <= Newest
  BY <1>1, <1>2, <1>4, WindowBetween DEF Oldest, Newest
<1>6. ~ (Oldest <= id /\ id <= Newest)
  <2> DEFINE Inside == state # "NO_SESSION" /\ Oldest <= id /\ id <= Newest
  <2>1. PICK answer \in BOOLEAN :
          /\ answer = Inside
          /\ result' = Result("space", IF answer THEN {id} ELSE {})
    BY <1>2 DEF HasSpaceFor
  <2>2. result'.ids = IF answer THEN {id} ELSE {}
    BY <2>1 DEF Result
  <2>3. ~ answer
    BY <2>2
  <2>4. ~ Inside
    <3> HIDE DEF Inside
    <3>1. QED
      BY <2>1, <2>3
  <2>5. QED
    BY <1>3, <2>4
<1>7. msg_ids[i] = id => Oldest <= id /\ id <= Newest
  BY <1>5
<1>8. QED
  BY <1>6, <1>7

=============================================================================
