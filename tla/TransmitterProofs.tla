------------------------- MODULE TransmitterProofs --------------------------
(***************************************************************************)
(* What the sender guarantees for every package size, cache size, input    *)
(* and sequence of requests, in every interleaving of its four threads.    *)
(***************************************************************************)
EXTENDS Transmitter, Arithmetic, SequenceTheorems, TLAPS

-----------------------------------------------------------------------------
(* The pipeline as a sequence *)

\* A package that moves from the queue into the sender thread's hand stays in
\* its place of the pipeline.
LEMMA TakeKeepsSequence ==
  ASSUME NEW S, NEW a \in Seq(S), NEW q \in Seq(S), q # <<>>
  PROVE  a \o <<Head(q)>> \o Tail(q) = a \o <<>> \o q
<1>1. Head(q) \in S /\ Tail(q) \in Seq(S) /\ q = <<Head(q)>> \o Tail(q)
  OBVIOUS
<1>2. a \o <<>> = a /\ <<Head(q)>> \in Seq(S)
  BY <1>1, ConcatEmptySeq
<1>3. (a \o <<Head(q)>>) \o Tail(q) = a \o (<<Head(q)>> \o Tail(q))
  BY <1>1, <1>2, ConcatAssociative
<1>4. QED
  BY <1>1, <1>2, <1>3

\* A package that goes from the hand on the air stays in its place.
LEMMA TransmitKeepsSequence ==
  ASSUME NEW S, NEW a \in Seq(S), NEW h \in Seq(S), NEW q \in Seq(S)
  PROVE  (a \o h) \o <<>> \o q = a \o h \o q
<1>1. a \o h \in Seq(S)
  OBVIOUS
<1>2. (a \o h) \o <<>> = a \o h
  BY <1>1, ConcatEmptySeq
<1>3. QED
  BY <1>2

\* A package that enters the queue is the new last of the pipeline.
LEMMA QueueAppendsSequence ==
  ASSUME NEW S, NEW a \in Seq(S), NEW q \in Seq(S), NEW m \in S
  PROVE  a \o Append(q, m) = Append(a \o q, m)
  OBVIOUS

\* A sequence of two or more has a rest behind its head.
LEMMA RestOfLonger ==
  ASSUME NEW S, NEW q \in Seq(S), Len(q) > 1
  PROVE  Tail(q) # <<>>
<1>1. q # <<>> /\ Len(q) \in Nat
  OBVIOUS
<1>2. Len(Tail(q)) = Len(q) - 1
  BY <1>1, HeadTailProperties
<1>3. Len(<<>>) = 0
  OBVIOUS
<1> DEFINE n == Len(q)
<1>4. n \in Nat /\ n > 1
  BY <1>1
<1> HIDE DEF n
<1>5. n - 1 # 0
  BY <1>4
<1>6. Len(Tail(q)) # 0
  BY <1>2, <1>5 DEF n
<1>7. QED
  BY <1>3, <1>6

\* The one package in the sender thread's hand, when it goes on the air, is the
\* pipeline's oldest that was not aired.
LEMMA HandIsNext ==
  ASSUME NEW S, NEW a \in Seq(S), NEW h \in Seq(S), NEW q \in Seq(S), Len(h) = 1
  PROVE  /\ a \o h = Append(a, h[1])
         /\ Len((a \o h) \o q) = Len(a) + 1 + Len(q)
         /\ ((a \o h) \o q)[Len(a) + 1] = h[1]
<1>1. h[1] \in S /\ Len(a) \in Nat /\ Len(q) \in Nat
  BY ElementOfSeq, LenProperties
<1>2. h = <<h[1]>>
  OBVIOUS
<1>3. Append(a, h[1]) = a \o <<h[1]>>
  BY <1>1, AppendIsConcat
<1>4. a \o h = Append(a, h[1])
  BY <1>2, <1>3
<1>5. /\ Append(a, h[1]) \in Seq(S)
      /\ Len(Append(a, h[1])) = Len(a) + 1
      /\ Append(a, h[1])[Len(a) + 1] = h[1]
  BY <1>1
<1> DEFINE b == Append(a, h[1])
<1> HIDE DEF b
<1>6. b \in Seq(S) /\ Len(b) = Len(a) + 1 /\ b[Len(a) + 1] = h[1]
  BY <1>5 DEF b
<1>7. Len(b \o q) = Len(b) + Len(q)
  BY <1>6, ConcatProperties
<1>8. (b \o q)[Len(a) + 1] = b[Len(a) + 1]
  <2>1. Len(a) + 1 \in 1..(Len(b) + Len(q)) /\ Len(a) + 1 <= Len(b)
    BY <1>1, <1>6
  <2>2. QED
    BY <1>6, <2>1, ConcatProperties
<1>9. a \o h = b
  BY <1>4 DEF b
<1>10. QED
  BY <1>4, <1>6, <1>7, <1>8, <1>9

\* The pipeline is a sequence of packages.
LEMMA PipelineType ==
  ASSUME TypeOK
  PROVE  Pipeline \in Seq(Package) /\ Len(Pipeline) \in Nat
<1>1. air \in Seq(Package) /\ sending \in Seq(Package) /\ send_q \in Seq(Package)
  BY DEF TypeOK
<1>2. air \o sending \in Seq(Package)
  BY <1>1
<1>3. (air \o sending) \o send_q \in Seq(Package)
  BY <1>1, <1>2
<1>4. QED
  BY <1>3 DEF Pipeline

\* Taking a package off the queue leaves the pipeline as it is.
LEMMA TakeKeepsPipeline ==
  ASSUME TypeOK, RunSenderInv, TakeMessage
  PROVE  Pipeline' = Pipeline
<1>1. /\ pc["sender"] = "take" /\ air' = air
      /\ air \in Seq(Package) /\ sending \in Seq(Package) /\ send_q \in Seq(Package)
  BY DEF TakeMessage, At, TypeOK
<1>2. sending = <<>>
  <2>1. Len(sending) = 0
    BY <1>1 DEF RunSenderInv
  <2>2. QED
    BY <1>1, <2>1
<1>3. CASE send_q = <<>>
  BY <1>1, <1>3 DEF TakeMessage, Pipeline
<1>4. CASE send_q # <<>>
  <2>1. sending' = <<Head(send_q)>> /\ send_q' = Tail(send_q)
    BY <1>4 DEF TakeMessage
  <2>2. air \o <<Head(send_q)>> \o Tail(send_q) = air \o <<>> \o send_q
    BY <1>1, <1>4, TakeKeepsSequence
  <2>3. QED
    BY <1>1, <1>2, <2>1, <2>2 DEF Pipeline
<1>5. QED
  BY <1>3, <1>4

\* Broadcasting a package leaves the pipeline as it is.
LEMMA TransmitKeepsPipeline ==
  ASSUME TypeOK, TransmitMessage
  PROVE  Pipeline' = Pipeline
<1>1. air \in Seq(Package) /\ sending \in Seq(Package) /\ send_q \in Seq(Package)
  BY DEF TypeOK
<1>2. air' = air \o sending /\ sending' = <<>> /\ send_q' = send_q
  BY DEF TransmitMessage
<1>3. (air \o sending) \o <<>> \o send_q = air \o sending \o send_q
  BY <1>1, TransmitKeepsSequence
<1>4. QED
  BY <1>2, <1>3 DEF Pipeline

\* Queueing a package appends it to the pipeline.
LEMMA QueueAppends ==
  ASSUME TypeOK, QueueMessage
  PROVE  Pipeline' = Append(Pipeline, msg)
<1>1. /\ air \in Seq(Package) /\ sending \in Seq(Package) /\ send_q \in Seq(Package)
      /\ msg \in Package
  BY DEF TypeOK
<1>2. air' = air /\ sending' = sending /\ send_q' = Append(send_q, msg)
  BY DEF QueueMessage, senderVars
<1>3. air \o sending \in Seq(Package)
  BY <1>1
<1>4. (air \o sending) \o Append(send_q, msg) = Append((air \o sending) \o send_q, msg)
  BY <1>1, <1>3, QueueAppendsSequence
<1>5. QED
  BY <1>2, <1>4 DEF Pipeline

\* Every other step leaves the pipeline alone.
LEMMA OthersKeepPipeline ==
  ASSUME UNCHANGED <<send_q, senderVars>>
  PROVE  Pipeline' = Pipeline
  BY DEF senderVars, Pipeline

-----------------------------------------------------------------------------
(* Type correctness *)

\* A thread that goes to a known step leaves pc well typed.
LEMMA GotoType ==
  ASSUME TypeOK, NEW t \in Threads, NEW to \in Steps, Goto(t, to)
  PROVE  /\ pc' \in [Threads -> Steps]
         /\ pc'[t] = to
         /\ \A u \in Threads \ {t} : pc'[u] = pc[u]
  BY DEF TypeOK, Goto

\* The slot of an id lies in 0..CacheSize-1 and is no larger than the id.
LEMMA SlotBound ==
  ASSUME NEW id \in Nat
  PROVE  /\ CacheSize \in Nat \ {0}
         /\ internal_id(id) \in Nat /\ internal_id(id) <= id
         /\ internal_id(id) < CacheSize
<1>1. (FSIZE - 1) \div PSIZE \in Nat
  BY TransmitterAssumption, DivMod
<1>2. CacheSize \in Nat \ {0}
  BY <1>1 DEF CacheSize
<1>3. id % CacheSize \in 0..(CacheSize - 1) /\ id % CacheSize <= id
  BY <1>2, RemainderBound
<1>4. QED
  BY <1>2, <1>3 DEF internal_id

\* The slot atomic_get copies from is no further than the id it looks up.
LEMMA GetSlotBound ==
  ASSUME wanted \in Seq(Nat), wanted # <<>>
  PROVE  /\ Head(wanted) \in Nat
         /\ GetSlot \in Nat \ {0} /\ GetSlot <= Head(wanted) + 1
<1> DEFINE id == Head(wanted)
<1>1. id \in Nat
  OBVIOUS
<1> HIDE DEF id
<1>2. internal_id(id) \in Nat /\ internal_id(id) <= id
  BY <1>1, SlotBound
<1>3. GetSlot = internal_id(id) + 1
  BY DEF GetSlot, id
<1>4. GetSlot \in Nat \ {0} /\ GetSlot <= id + 1
  BY <1>1, <1>2, <1>3
<1>5. QED
  BY <1>1, <1>4 DEF id

\* A read leaves bytes of the input, or zeros, in buf.
LEMMA ReadType ==
  ASSUME TypeOK, Read
  PROVE  TypeOK'
<1> DEFINE left == InputSize - input.consumed
           n    == IF left < PSIZE THEN left ELSE PSIZE
           buf  == Filled(input.buf, input.consumed, n)
<1>1. /\ input.buf \in Bytes /\ input.consumed \in 0..InputSize
      /\ PSIZE \in Nat \ {0} /\ InputSize \in Nat /\ current_msg_id \in Nat
  BY TransmitterAssumption DEF TypeOK
<1>2. left \in Nat /\ n \in 0..PSIZE /\ n <= left /\ input.consumed + left = InputSize
  BY <1>1
<1>3. /\ input' = [buf |-> buf, consumed |-> input.consumed + n, eof |-> n < PSIZE]
      /\ msg' = [id |-> current_msg_id, data |-> buf]
      /\ current_msg_id' = current_msg_id + PSIZE
      /\ Goto("main", "queue")
  BY DEF Read
<1> HIDE DEF n, left
<1>4. buf \in Bytes
  <2>1. ASSUME NEW j \in 1..PSIZE
        PROVE  (IF j <= n THEN input.consumed + j ELSE input.buf[j]) \in 0..InputSize
    BY <1>1, <1>2 DEF Bytes
  <2>2. QED
    BY <2>1 DEF Filled, Bytes
<1> HIDE DEF buf
<1>5. input' \in [buf : Bytes, consumed : 0..InputSize, eof : BOOLEAN]
  BY <1>1, <1>2, <1>3, <1>4
<1>6. msg' \in Package /\ current_msg_id' \in Nat
  BY <1>1, <1>3, <1>4 DEF Package
<1>7. pc' \in [Threads -> Steps]
  BY <1>3, GotoType DEF Threads, Steps
<1>8. QED
  BY <1>5, <1>6, <1>7 DEF Read, TypeOK, senderVars, listenerVars, resendVars

\* The other steps of the main thread keep the types.
LEMMA MainType ==
  ASSUME TypeOK, ReadInputInv, MainStep
  PROVE  TypeOK'
<1>1. msg \in Package /\ msg.id \in Nat /\ msg.data \in Bytes
      /\ container \in Seq(Package) /\ Len(container) \in Nat
  BY DEF TypeOK, Package
<1>2. NextRead \in Steps /\ "main" \in Threads
  BY DEF NextRead, Steps, Threads
<1>3. internal_id(msg.id) \in Nat
  BY <1>1, SlotBound
<1>4. CASE QueueMessage
  <2>1. pc' \in [Threads -> Steps] /\ send_q' \in Seq(Package)
    BY <1>1, <1>2, <1>4, GotoType DEF QueueMessage, TypeOK, Steps
  <2>2. QED
    BY <1>4, <2>1 DEF QueueMessage, TypeOK, mainVars, senderVars, listenerVars, resendVars
<1>5. CASE CacheGrow
  <2>1. pc' \in [Threads -> Steps] /\ container' \in Seq(Package)
    BY <1>1, <1>2, <1>5, GotoType DEF CacheGrow
  <2>2. QED
    BY <1>5, <2>1 DEF CacheGrow, TypeOK, mainVars, senderVars, listenerVars, resendVars
<1>6. CASE CacheAssignId
  <2> DEFINE slot == internal_id(msg.id) + 1
  <2>1. pc' \in [Threads -> Steps]
    BY <1>2, <1>6, GotoType DEF CacheAssignId, Steps
  <2>2. slot \in 1..Len(container)
    BY <1>1, <1>3, <1>6 DEF CacheAssignId
  <2>3. container[slot] \in Package
    BY <1>1, <2>2
  <2>4. [container[slot] EXCEPT !.id = msg.id] \in Package
    BY <1>1, <2>3 DEF Package
  <2>5. container' = [container EXCEPT ![slot] = [container[slot] EXCEPT !.id = msg.id]]
    BY <1>6 DEF CacheAssignId
  <2> HIDE DEF slot
  <2>6. container' \in Seq(Package)
    BY <1>1, <2>2, <2>4, <2>5
  <2>7. QED
    BY <1>6, <2>1, <2>6 DEF CacheAssignId, TypeOK, mainVars, senderVars, listenerVars, resendVars
<1>7. CASE CacheAssignData
  <2> DEFINE slot == internal_id(msg.id) + 1
  <2>1. pc' \in [Threads -> Steps]
    BY <1>2, <1>7, GotoType DEF CacheAssignData
  <2>2. slot \in 1..Len(container)
    BY <1>1, <1>3, <1>7 DEF CacheAssignData, At, ReadInputInv
  <2>3. container[slot] \in Package
    BY <1>1, <2>2
  <2>4. [container[slot] EXCEPT !.data = msg.data] \in Package
    BY <1>1, <2>3 DEF Package
  <2>5. container' = [container EXCEPT ![slot] = [container[slot] EXCEPT !.data = msg.data]]
    BY <1>7 DEF CacheAssignData
  <2> HIDE DEF slot
  <2>6. container' \in Seq(Package)
    BY <1>1, <2>2, <2>4, <2>5
  <2>7. QED
    BY <1>7, <2>1, <2>6 DEF CacheAssignData, TypeOK, mainVars, senderVars, listenerVars, resendVars
<1>8. CASE CacheOutside
  <2>1. pc' \in [Threads -> Steps]
    BY <1>2, <1>8, GotoType DEF CacheOutside
  <2>2. QED
    BY <1>8, <2>1 DEF CacheOutside, TypeOK, mainVars, senderVars, listenerVars, resendVars
<1>9. CASE SetComplete
  <2>1. pc' \in [Threads -> Steps]
    BY <1>2, <1>9, GotoType DEF SetComplete, Steps
  <2>2. QED
    BY <1>9, <2>1 DEF SetComplete, TypeOK, mainVars, senderVars, listenerVars, resendVars
<1>10. CASE Join
  <2>1. pc' \in [Threads -> Steps]
    BY <1>2, <1>10, GotoType DEF Join, Steps
  <2>2. QED
    BY <1>10, <2>1 DEF Join, TypeOK, mainVars, senderVars, listenerVars, resendVars
<1>11. QED
  BY <1>4, <1>5, <1>6, <1>7, <1>8, <1>9, <1>10 DEF MainStep

\* The loop conditions keep the types.
LEMMA CheckType ==
  ASSUME TypeOK, NEW t \in Threads, NEW first \in Steps, Check(t, first)
  PROVE  TypeOK'
<1>1. pc' \in [Threads -> Steps]
  <2>1. (IF complete THEN "done" ELSE first) \in Steps
    BY DEF Steps
  <2>2. QED
    BY <2>1, GotoType DEF Check
<1>2. QED
  BY <1>1 DEF Check, TypeOK, mainVars, senderVars, listenerVars, resendVars

\* The steps of the sender thread keep the types.
LEMMA SenderType ==
  ASSUME TypeOK, RunSenderInv, SenderStep
  PROVE  TypeOK'
<1>1. "sender" \in Threads /\ "check" \in Steps /\ "take" \in Steps /\ "transmit" \in Steps
  BY DEF Threads, Steps
<1>2. CASE Check("sender", "take")
  BY <1>1, <1>2, CheckType
<1>3. CASE TakeMessage
  <2>1. pc' \in [Threads -> Steps]
    BY <1>1, <1>3, GotoType DEF TakeMessage
  <2>2. send_q' \in Seq(Package) /\ sending' \in Seq(Package) /\ Len(sending') <= 1
    <3>1. send_q \in Seq(Package) /\ sending \in Seq(Package) /\ Len(sending) <= 1
      BY DEF TypeOK
    <3>2. CASE send_q = <<>>
      BY <1>3, <3>1, <3>2 DEF TakeMessage
    <3>3. CASE send_q # <<>>
      <4>1. Head(send_q) \in Package /\ Tail(send_q) \in Seq(Package)
        BY <3>1, <3>3
      <4>2. sending' = <<Head(send_q)>> /\ send_q' = Tail(send_q)
        BY <1>3, <3>3 DEF TakeMessage
      <4>3. QED
        BY <4>1, <4>2
    <3>4. QED
      BY <3>2, <3>3
  <2>3. QED
    BY <1>3, <2>1, <2>2 DEF TakeMessage, TypeOK, mainVars, listenerVars, resendVars
<1>4. CASE TransmitMessage
  <2>1. pc' \in [Threads -> Steps]
    BY <1>1, <1>4, GotoType DEF TransmitMessage
  <2>2. air' \in Seq(Package) /\ sending' \in Seq(Package) /\ Len(sending') <= 1
    BY <1>4 DEF TransmitMessage, TypeOK
  <2>3. QED
    BY <1>4, <2>1, <2>2 DEF TransmitMessage, TypeOK, mainVars, listenerVars, resendVars
<1>5. QED
  BY <1>2, <1>3, <1>4 DEF SenderStep

\* A copy of bytes of the cache and of the package in hand is a package's bytes.
LEMMA CopiedType ==
  ASSUME TypeOK, GetSlot \in 1..Len(container), NEW fresh
  PROVE  CopiedBytes(fresh) \in Bytes
<1>1. container[GetSlot] \in Package /\ msg \in Package
  BY DEF TypeOK
<1>2. container[GetSlot].data \in Bytes /\ msg.data \in Bytes
  BY <1>1 DEF Package
<1>3. QED
  BY <1>2 DEF CopiedBytes, Bytes

\* The steps of the listener keep the types.
LEMMA ListenerType ==
  ASSUME TypeOK, RunListenerInv, ListenerStep
  PROVE  TypeOK'
<1>1. /\ "listener" \in Threads
      /\ {"check", "receive", "size", "copy", "push", "done"} \subseteq Steps
  BY DEF Threads, Steps
<1>2. /\ wanted \in Seq(Nat) /\ copied \in Package /\ container \in Seq(Package)
      /\ resend_q \in Seq(Package) /\ asked \in SUBSET Nat /\ requests \in 0..MaxRequests
  BY DEF TypeOK
<1>3. ASSUME NextWanted, wanted # <<>>
      PROVE  pc' \in [Threads -> Steps] /\ wanted' \in Seq(Nat)
  <2>1. wanted' \in Seq(Nat)
    BY <1>2, <1>3 DEF NextWanted
  <2>2. (IF Len(wanted) > 1 THEN "size" ELSE "check") \in Steps
    BY <1>1
  <2>3. QED
    BY <1>1, <1>3, <2>1, <2>2, GotoType DEF NextWanted
<1>4. CASE Check("listener", "receive")
  BY <1>1, <1>4, CheckType
<1>5. CASE ReceiveNothing \/ ReceiveFails
  <2>1. pc' \in [Threads -> Steps]
    BY <1>1, <1>5, GotoType DEF ReceiveNothing, ReceiveFails
  <2>2. QED
    BY <1>5, <2>1 DEF ReceiveNothing, ReceiveFails, TypeOK, mainVars, senderVars,
       listenerVars, resendVars
<1>6. ASSUME NEW ids \in Requests, ReceiveRexmit(ids) PROVE TypeOK'
  <2>1. pc' \in [Threads -> Steps]
    BY <1>1, <1>6, GotoType DEF ReceiveRexmit
  <2>2. ids \in Seq(Nat)
    BY TransmitterAssumption
  <2>3. asked' \in SUBSET Nat /\ wanted' \in Seq(Nat)
    <3>1. \A i \in 1..Len(ids) : ids[i] \in Nat
      BY <2>2
    <3>2. {ids[i] : i \in 1..Len(ids)} \subseteq Nat
      BY <3>1
    <3>3. wanted' = ids /\ asked' = asked \cup {ids[i] : i \in 1..Len(ids)}
      BY <1>6 DEF ReceiveRexmit
    <3>4. QED
      BY <1>2, <2>2, <3>2, <3>3
  <2>4. requests' \in 0..MaxRequests
    BY <1>2, <1>6, TransmitterAssumption DEF ReceiveRexmit
  <2>5. QED
    BY <1>6, <2>1, <2>3, <2>4 DEF ReceiveRexmit, TypeOK, mainVars, senderVars, resendVars
<1>7. CASE GetNothing
  <2>1. pc' \in [Threads -> Steps] /\ wanted' \in Seq(Nat)
    BY <1>3, <1>7 DEF GetNothing, At, RunListenerInv
  <2>2. QED
    BY <1>7, <2>1 DEF GetNothing, TypeOK, mainVars, senderVars, resendVars
<1>8. CASE CopyId
  <2>1. pc' \in [Threads -> Steps]
    BY <1>1, <1>8, GotoType DEF CopyId
  <2>2. GetSlot \in 1..Len(container)
    <3>1. wanted # <<>>
      BY <1>8 DEF CopyId, At, RunListenerInv
    <3>2. /\ Head(wanted) \in Nat
          /\ GetSlot \in Nat \ {0} /\ GetSlot <= Head(wanted) + 1
      BY <1>2, <3>1, GetSlotBound
    <3>3. Head(wanted) < Len(container) /\ Len(container) \in Nat
      BY <1>2, <1>8, <3>2 DEF CopyId, Uncached
    <3>4. QED
      BY <3>2, <3>3
  <2>3. container[GetSlot].id \in Nat
    <3>1. container[GetSlot] \in Package
      BY <1>2, <2>2
    <3>2. QED
      BY <3>1 DEF Package
  <2>4. copied' \in Package
    BY <1>2, <1>8, <2>3 DEF CopyId, Package
  <2>5. QED
    BY <1>8, <2>1, <2>4 DEF CopyId, TypeOK, mainVars, senderVars, resendVars
<1>9. CASE CopyData
  <2>1. pc' \in [Threads -> Steps]
    BY <1>1, <1>9, GotoType DEF CopyData
  <2>2. GetSlot \in 1..Len(container)
    <3>1. wanted # <<>> /\ GetSlot <= Len(container) /\ Len(container) \in Nat
      BY <1>2, <1>9 DEF CopyData, At, RunListenerInv
    <3>2. GetSlot \in Nat \ {0}
      BY <1>2, <3>1, GetSlotBound
    <3>3. QED
      BY <3>1, <3>2
  <2>3. PICK fresh \in SUBSET (1..PSIZE) :
          copied' = [copied EXCEPT !.data = CopiedBytes(fresh)]
    BY <1>9 DEF CopyData
  <2>4. copied' \in Package
    <3>1. CopiedBytes(fresh) \in Bytes
      BY <2>2, CopiedType
    <3>2. QED
      BY <1>2, <2>3, <3>1 DEF Package
  <2>5. QED
    BY <1>9, <2>1, <2>4 DEF CopyData, TypeOK, mainVars, senderVars, resendVars
<1>10. CASE PushResend
  <2>1. pc' \in [Threads -> Steps] /\ wanted' \in Seq(Nat)
    BY <1>3, <1>10 DEF PushResend, At, RunListenerInv
  <2>2. resend_q' \in Seq(Package)
    BY <1>2, <1>10 DEF PushResend
  <2>3. QED
    BY <1>10, <2>1, <2>2 DEF PushResend, TypeOK, mainVars, senderVars, resendVars
<1>11. QED
  BY <1>4, <1>5, <1>6, <1>7, <1>8, <1>9, <1>10 DEF ListenerStep

\* The steps of the retransmitter keep the types.
LEMMA RetransmitterType ==
  ASSUME TypeOK, RetransmitterStep
  PROVE  TypeOK'
<1>1. /\ "retransmitter" \in Threads
      /\ {"check", "take", "transmit"} \subseteq Steps
  BY DEF Threads, Steps
<1>2. CASE Check("retransmitter", "take")
  BY <1>1, <1>2, CheckType
<1>3. CASE TakeBatch
  <2>1. pc' \in [Threads -> Steps]
    <3>1. (IF resend_q = <<>> THEN "check" ELSE "transmit") \in Steps
      BY <1>1
    <3>2. QED
      BY <1>1, <1>3, <3>1, GotoType DEF TakeBatch
  <2>2. batch' \in SUBSET Package
    <3>1. resend_q \in Seq(Package)
      BY DEF TypeOK
    <3>2. Unique(resend_q) \subseteq Package
      BY <3>1 DEF Unique
    <3>3. QED
      BY <1>3, <3>2 DEF TakeBatch
  <2>3. QED
    BY <1>3, <2>1, <2>2 DEF TakeBatch, TypeOK, mainVars, senderVars, listenerVars
<1>4. CASE TransmitResend
  <2>1. PICK m \in batch :
          /\ batch' = batch \ {m}
          /\ resent' = resent \cup {m}
          /\ Goto("retransmitter", IF batch = {m} THEN "check" ELSE "transmit")
    BY <1>4 DEF TransmitResend
  <2>2. pc' \in [Threads -> Steps]
    <3>1. (IF batch = {m} THEN "check" ELSE "transmit") \in Steps
      BY <1>1
    <3>2. QED
      BY <1>1, <2>1, <3>1, GotoType
  <2>3. batch' \in SUBSET Package /\ resent' \in SUBSET Package
    BY <2>1 DEF TypeOK
  <2>4. QED
    BY <1>4, <2>2, <2>3 DEF TransmitResend, TypeOK, mainVars, senderVars, listenerVars
<1>5. QED
  BY <1>2, <1>3, <1>4 DEF RetransmitterStep

\* Every step keeps the types.
LEMMA NextType ==
  ASSUME TransmitterInv, [Next]_vars
  PROVE  TypeOK'
<1>1. TypeOK /\ ReadInputInv /\ RunSenderInv /\ RunListenerInv
  BY DEF TransmitterInv
<1>2. CASE QueueCollision
  BY <1>1, <1>2 DEF QueueCollision, TypeOK, mainVars, senderVars, listenerVars, resendVars
<1>3. CASE UNCHANGED vars
  BY <1>1, <1>3 DEF vars, TypeOK, mainVars, senderVars, listenerVars, resendVars
<1>4. QED
  BY <1>1, <1>2, <1>3, ReadType, MainType, SenderType, ListenerType,
     RetransmitterType DEF Next

-----------------------------------------------------------------------------
(* What the steps of one thread leave to the others *)

\* Going to a step changes the place of one thread.
LEMMA GotoFrame ==
  ASSUME TypeOK, NEW t \in Threads, NEW to, Goto(t, to)
  PROVE  pc'[t] = to /\ \A u \in Threads \ {t} : pc'[u] = pc[u]
  BY DEF TypeOK, Goto

\* The other threads leave the main thread and the cache alone.
LEMMA MainFrame ==
  ASSUME TypeOK, SenderStep \/ ListenerStep \/ RetransmitterStep
  PROVE  pc'["main"] = pc["main"] /\ UNCHANGED <<mainVars, container>>
<1>1. \A t \in {"sender", "listener", "retransmitter"} :
        t \in Threads /\ "main" \in Threads \ {t}
  BY DEF Threads
<1>2. CASE SenderStep
  BY <1>1, <1>2, GotoFrame DEF SenderStep, Check, TakeMessage, TransmitMessage
<1>3. CASE ListenerStep
  BY <1>1, <1>3, GotoFrame DEF ListenerStep, Check, ReceiveNothing, ReceiveFails,
     ReceiveRexmit, GetNothing, CopyId, CopyData, PushResend, NextWanted
<1>4. CASE RetransmitterStep
  BY <1>1, <1>4, GotoFrame DEF RetransmitterStep, Check, TakeBatch, TransmitResend
<1>5. QED
  BY <1>2, <1>3, <1>4

\* The other threads leave the sender thread alone.
LEMMA SenderFrame ==
  ASSUME TypeOK, Read \/ MainStep \/ ListenerStep \/ RetransmitterStep
  PROVE  pc'["sender"] = pc["sender"] /\ UNCHANGED senderVars
<1>1. \A t \in {"main", "listener", "retransmitter"} :
        t \in Threads /\ "sender" \in Threads \ {t}
  BY DEF Threads
<1>2. CASE Read
  BY <1>1, <1>2, GotoFrame DEF Read
<1>3. CASE MainStep
  BY <1>1, <1>3, GotoFrame DEF MainStep, QueueMessage, CacheGrow, CacheAssignId,
     CacheAssignData, CacheOutside, SetComplete, Join
<1>4. CASE ListenerStep
  BY <1>1, <1>4, GotoFrame DEF ListenerStep, Check, ReceiveNothing, ReceiveFails,
     ReceiveRexmit, GetNothing, CopyId, CopyData, PushResend, NextWanted
<1>5. CASE RetransmitterStep
  BY <1>1, <1>5, GotoFrame DEF RetransmitterStep, Check, TakeBatch, TransmitResend
<1>6. QED
  BY <1>2, <1>3, <1>4, <1>5

\* The other threads leave the listener alone.
LEMMA ListenerFrame ==
  ASSUME TypeOK, Read \/ MainStep \/ SenderStep \/ RetransmitterStep
  PROVE  pc'["listener"] = pc["listener"] /\ UNCHANGED listenerVars
<1>1. \A t \in {"main", "sender", "retransmitter"} :
        t \in Threads /\ "listener" \in Threads \ {t}
  BY DEF Threads
<1>2. CASE Read
  BY <1>1, <1>2, GotoFrame DEF Read, listenerVars
<1>3. CASE MainStep
  BY <1>1, <1>3, GotoFrame DEF MainStep, QueueMessage, CacheGrow, CacheAssignId,
     CacheAssignData, CacheOutside, SetComplete, Join, listenerVars
<1>4. CASE SenderStep
  BY <1>1, <1>4, GotoFrame DEF SenderStep, Check, TakeMessage, TransmitMessage,
     listenerVars
<1>5. CASE RetransmitterStep
  BY <1>1, <1>5, GotoFrame DEF RetransmitterStep, Check, TakeBatch, TransmitResend,
     listenerVars
<1>6. QED
  BY <1>2, <1>3, <1>4, <1>5

\* Only QueueMessage changes the pipeline, and it appends the package in hand.
LEMMA PipelineStep ==
  ASSUME TypeOK, RunSenderInv, [Next]_vars
  PROVE  \/ Pipeline' = Pipeline /\ ~ QueueMessage
         \/ QueueMessage /\ Pipeline' = Append(Pipeline, msg)
<1>1. CASE QueueMessage
  BY <1>1, QueueAppends
<1>2. CASE TakeMessage /\ ~ QueueMessage
  BY <1>2, TakeKeepsPipeline
<1>3. CASE TransmitMessage /\ ~ QueueMessage
  BY <1>3, TransmitKeepsPipeline
<1>4. CASE ~ (QueueMessage \/ TakeMessage \/ TransmitMessage)
  <2>1. UNCHANGED <<send_q, senderVars>>
    BY <1>4 DEF Next, MainStep, SenderStep, ListenerStep, RetransmitterStep, vars,
       Read, CacheGrow, CacheAssignId, CacheAssignData, CacheOutside, SetComplete,
       Join, Check, ReceiveNothing, ReceiveFails, ReceiveRexmit, GetNothing,
       CopyId, CopyData, PushResend, TakeBatch, TransmitResend, QueueCollision
  <2>2. QED
    BY <1>4, <2>1, OthersKeepPipeline
<1>5. QED
  BY <1>1, <1>2, <1>3, <1>4

-----------------------------------------------------------------------------
(* The conjuncts of TransmitterInv *)

\* The sender thread holds a package exactly while it transmits.
LEMMA NextRunSender ==
  ASSUME TypeOK, RunSenderInv, [Next]_vars
  PROVE  RunSenderInv'
<1>1. "sender" \in Threads
  BY DEF Threads
<1>2. CASE SenderStep
  <2>1. CASE Check("sender", "take")
    BY <1>1, <2>1, GotoFrame DEF Check, At, RunSenderInv, senderVars
  <2>2. CASE TakeMessage
    <3>1. pc["sender"] = "take" /\ Len(sending) = 0
      BY <2>2 DEF TakeMessage, At, RunSenderInv
    <3>2. CASE send_q = <<>>
      BY <1>1, <2>2, <3>1, <3>2, GotoFrame DEF TakeMessage, RunSenderInv
    <3>3. CASE send_q # <<>>
      <4>1. pc'["sender"] = "transmit" /\ sending' = <<Head(send_q)>>
        BY <1>1, <2>2, <3>3, GotoFrame DEF TakeMessage
      <4>2. Len(<<Head(send_q)>>) = 1
        OBVIOUS
      <4>3. QED
        BY <4>1, <4>2 DEF RunSenderInv
    <3>4. QED
      BY <3>2, <3>3
  <2>3. CASE TransmitMessage
    <3>1. pc'["sender"] = "check" /\ sending' = <<>>
      BY <1>1, <2>3, GotoFrame DEF TransmitMessage
    <3>2. QED
      BY <3>1 DEF RunSenderInv
  <2>4. QED
    BY <1>2, <2>1, <2>2, <2>3 DEF SenderStep
<1>3. CASE Read \/ MainStep \/ ListenerStep \/ RetransmitterStep
  BY <1>3, SenderFrame DEF RunSenderInv, senderVars
<1>4. CASE QueueCollision \/ UNCHANGED vars
  BY <1>4 DEF QueueCollision, vars, RunSenderInv, senderVars
<1>5. QED
  BY <1>2, <1>3, <1>4 DEF Next

\* A slot in use stays in use: the vector never shrinks.
LEMMA ContainerGrows ==
  ASSUME TypeOK, [Next]_vars
  PROVE  /\ Len(container') >= Len(container)
         /\ Len(container) \in Nat /\ Len(container') \in Nat
<1>1. container \in Seq(Package) /\ Len(container) \in Nat
  BY DEF TypeOK
<1>2. CASE CacheGrow
  BY <1>1, <1>2 DEF CacheGrow
<1>3. CASE CacheAssignId \/ CacheAssignData
  <2>1. PICK slot, value : container' = [container EXCEPT ![slot] = value]
    BY <1>3 DEF CacheAssignId, CacheAssignData
  <2>2. Len(container') = Len(container)
    BY <1>1, <2>1
  <2>3. QED
    BY <1>1, <2>2
<1>4. CASE ~ (CacheGrow \/ CacheAssignId \/ CacheAssignData)
  <2>1. container' = container
    BY <1>4 DEF Next, MainStep, SenderStep, ListenerStep, RetransmitterStep, vars,
       Read, QueueMessage, TakeMessage, TransmitMessage, CacheOutside, SetComplete,
       Join, Check, ReceiveNothing, ReceiveFails, ReceiveRexmit, GetNothing,
       CopyId, CopyData, PushResend, TakeBatch, TransmitResend, QueueCollision
  <2>2. QED
    BY <1>1, <2>1
<1>5. QED
  BY <1>2, <1>3, <1>4

\* The listener has an id to look up, and copies from inside the vector.
LEMMA NextRunListener ==
  ASSUME TypeOK, RunListenerInv, [Next]_vars
  PROVE  RunListenerInv'
<1>1. /\ "listener" \in Threads /\ wanted \in Seq(Nat)
      /\ Len(container') >= Len(container)
      /\ Len(container) \in Nat /\ Len(container') \in Nat
  BY ContainerGrows DEF TypeOK, Threads
<1>2. CASE ListenerStep
  <2>1. CASE Check("listener", "receive")
    BY <1>1, <2>1, GotoFrame DEF Check, RunListenerInv
  <2>2. CASE ReceiveNothing \/ ReceiveFails
    BY <1>1, <2>2, GotoFrame DEF ReceiveNothing, ReceiveFails, RunListenerInv
  <2>3. ASSUME NEW ids \in Requests, ReceiveRexmit(ids) PROVE RunListenerInv'
    <3>1. pc'["listener"] = "size" /\ wanted' = ids /\ ids # <<>>
      BY <1>1, <2>3, GotoFrame, TransmitterAssumption DEF ReceiveRexmit
    <3>2. QED
      BY <3>1 DEF RunListenerInv
  <2>4. ASSUME NextWanted, wanted # <<>> PROVE RunListenerInv'
    <3>1. wanted' = Tail(wanted)
          /\ pc'["listener"] = IF Len(wanted) > 1 THEN "size" ELSE "check"
      BY <1>1, <2>4, GotoFrame DEF NextWanted
    <3>2. Len(wanted) > 1 => Tail(wanted) # <<>>
      BY <1>1, <2>4, RestOfLonger
    <3>3. QED
      BY <3>1, <3>2 DEF RunListenerInv
  <2>5. CASE GetNothing
    BY <2>4, <2>5 DEF GetNothing, At, RunListenerInv
  <2>6. CASE CopyId
    <3>1. wanted # <<>> /\ pc'["listener"] = "copy"
          /\ UNCHANGED <<wanted, container>>
      BY <1>1, <2>6, GotoFrame DEF CopyId, At, RunListenerInv
    <3>2. Head(wanted) \in Nat /\ GetSlot \in Nat \ {0} /\ GetSlot <= Head(wanted) + 1
      BY <1>1, <3>1, GetSlotBound
    <3>3. Head(wanted) < Len(container)
      BY <1>1, <2>6, <3>2 DEF CopyId, Uncached
    <3>4. GetSlot' = GetSlot /\ GetSlot <= Len(container)
      BY <1>1, <3>1, <3>2, <3>3 DEF GetSlot
    <3>5. QED
      BY <3>1, <3>4 DEF RunListenerInv
  <2>7. CASE CopyData
    BY <1>1, <2>7, GotoFrame DEF CopyData, At, RunListenerInv
  <2>8. CASE PushResend
    BY <2>4, <2>8 DEF PushResend, At, RunListenerInv
  <2>9. QED
    BY <1>2, <2>1, <2>2, <2>3, <2>5, <2>6, <2>7, <2>8 DEF ListenerStep
<1>3. CASE Read \/ MainStep \/ SenderStep \/ RetransmitterStep
  <2>1. pc'["listener"] = pc["listener"] /\ wanted' = wanted
    BY <1>3, ListenerFrame DEF listenerVars
  <2>2. GetSlot' = GetSlot
    BY <2>1 DEF GetSlot
  <2>3. wanted # <<>> => GetSlot \in Nat
    BY <1>1, GetSlotBound
  <2>4. QED
    BY <1>1, <2>1, <2>2, <2>3 DEF RunListenerInv
<1>4. CASE QueueCollision \/ UNCHANGED vars
  BY <1>4 DEF QueueCollision, vars, RunListenerInv, listenerVars, GetSlot
<1>5. QED
  BY <1>2, <1>3, <1>4 DEF Next

\* A package in the cache is where it is looked up.
LEMMA NextCached ==
  ASSUME TypeOK, ReadInputInv, CachedWhereLooked, [Next]_vars
  PROVE  CachedWhereLooked'
<1>1. /\ container \in Seq(Package) /\ Len(container) \in Nat
      /\ msg \in Package /\ msg.id \in Nat
  BY DEF TypeOK, Package
<1>2. internal_id(msg.id) \in Nat /\ internal_id(msg.id) = msg.id % CacheSize
  BY <1>1, SlotBound DEF internal_id
<1>3. CASE CacheGrow
  <2>1. container' = Append(container, msg) /\ msg.id % CacheSize = Len(container)
    BY <1>2, <1>3 DEF CacheGrow
  <2>2. ASSUME NEW i \in 1..Len(container')
        PROVE  container'[i].id % CacheSize = i - 1
    <3>1. CASE i \in 1..Len(container)
      <4>1. container'[i] = container[i]
        BY <1>1, <2>1, <3>1
      <4>2. QED
        BY <3>1, <4>1 DEF CachedWhereLooked
    <3>2. CASE i = Len(container) + 1
      <4>1. container'[i] = msg
        BY <1>1, <2>1, <3>2
      <4>2. QED
        BY <1>1, <2>1, <3>2, <4>1
    <3>3. QED
      BY <1>1, <2>1, <3>1, <3>2
  <2>3. QED
    BY <2>2 DEF CachedWhereLooked
<1>4. CASE CacheAssignId
  <2> DEFINE slot == internal_id(msg.id) + 1
  <2>1. slot \in 1..Len(container)
    BY <1>1, <1>2, <1>4 DEF CacheAssignId
  <2>2. container' = [container EXCEPT ![slot] = [container[slot] EXCEPT !.id = msg.id]]
    BY <1>4 DEF CacheAssignId
  <2>3. [container[slot] EXCEPT !.id = msg.id].id = msg.id
    <3>1. container[slot] \in Package
      BY <1>1, <2>1
    <3>2. QED
      BY <3>1 DEF Package
  <2>4. msg.id % CacheSize = slot - 1
    BY <1>2
  <2> HIDE DEF slot
  <2>5. ASSUME NEW i \in 1..Len(container)
        PROVE  container'[i].id % CacheSize = i - 1
    <3>1. CASE i = slot
      <4>1. container'[i].id = msg.id
        BY <1>1, <2>1, <2>2, <2>3, <3>1
      <4>2. QED
        BY <2>4, <3>1, <4>1
    <3>2. CASE i # slot
      <4>1. container'[i] = container[i]
        BY <1>1, <2>1, <2>2, <3>2
      <4>2. QED
        BY <4>1 DEF CachedWhereLooked
    <3>3. QED
      BY <3>1, <3>2
  <2>6. Len(container') = Len(container)
    BY <1>1, <2>2
  <2>7. QED
    BY <2>5, <2>6 DEF CachedWhereLooked
<1>5. CASE CacheAssignData
  <2> DEFINE slot == internal_id(msg.id) + 1
  <2>1. slot \in 1..Len(container)
    BY <1>1, <1>2, <1>5 DEF CacheAssignData, At, ReadInputInv
  <2>2. container' = [container EXCEPT ![slot] = [container[slot] EXCEPT !.data = msg.data]]
    BY <1>5 DEF CacheAssignData
  <2>3. [container[slot] EXCEPT !.data = msg.data].id = container[slot].id
    <3>1. container[slot] \in Package
      BY <1>1, <2>1
    <3>2. QED
      BY <3>1 DEF Package
  <2> HIDE DEF slot
  <2>4. ASSUME NEW i \in 1..Len(container)
        PROVE  container'[i].id = container[i].id
    BY <1>1, <2>1, <2>2, <2>3
  <2>5. Len(container') = Len(container)
    BY <1>1, <2>2
  <2>6. QED
    BY <2>4, <2>5 DEF CachedWhereLooked
<1>6. CASE ~ (CacheGrow \/ CacheAssignId \/ CacheAssignData)
  <2>1. container' = container
    BY <1>6 DEF Next, MainStep, SenderStep, ListenerStep, RetransmitterStep, vars,
       Read, QueueMessage, TakeMessage, TransmitMessage, CacheOutside, SetComplete,
       Join, Check, ReceiveNothing, ReceiveFails, ReceiveRexmit, GetNothing,
       CopyId, CopyData, PushResend, TakeBatch, TransmitResend, QueueCollision
  <2>2. QED
    BY <2>1 DEF CachedWhereLooked
<1>7. QED
  BY <1>3, <1>4, <1>5, <1>6

\* Between Read and QueueMessage a package is in hand; no other step of the
\* program changes the package in hand, its number or that it is in hand.
LEMMA OthersKeepHand ==
  ASSUME TypeOK, [Next]_vars, ~ Read, ~ QueueMessage
  PROVE  /\ UNCHANGED mainVars
         /\ pc'["main"] = "queue" <=> pc["main"] = "queue"
<1>1. "main" \in Threads
  BY DEF Threads
<1>2. CASE MainStep
  <2>1. CASE CacheGrow \/ CacheOutside
    BY <1>1, <2>1, GotoFrame DEF CacheGrow, CacheOutside, At, NextRead
  <2>2. CASE CacheAssignId \/ CacheAssignData
    BY <1>1, <2>2, GotoFrame DEF CacheAssignId, CacheAssignData, At, NextRead
  <2>3. CASE SetComplete \/ Join
    BY <1>1, <2>3, GotoFrame DEF SetComplete, Join, At
  <2>4. QED
    BY <1>2, <2>1, <2>2, <2>3 DEF MainStep
<1>3. CASE SenderStep \/ ListenerStep \/ RetransmitterStep
  BY <1>3, MainFrame
<1>4. CASE QueueCollision \/ UNCHANGED vars
  BY <1>4 DEF QueueCollision, vars
<1>5. QED
  BY <1>2, <1>3, <1>4 DEF Next

\* What Read puts in hand, when the bytes consumed number the next package.
LEMMA ReadHolds ==
  ASSUME TypeOK, ReadInputInv, Read
  PROVE  /\ msg'.id = current_msg_id /\ Holds(msg')
         /\ current_msg_id' = current_msg_id + PSIZE
         /\ pc["main"] = "read" /\ pc'["main"] = "queue"
         /\ ~ input'.eof => input'.consumed = current_msg_id'
<1> DEFINE left == InputSize - input.consumed
           n    == IF left < PSIZE THEN left ELSE PSIZE
           buf  == Filled(input.buf, input.consumed, n)
<1>1. /\ input.consumed \in 0..InputSize /\ PSIZE \in Nat \ {0}
      /\ InputSize \in Nat /\ current_msg_id \in Nat
  BY TransmitterAssumption DEF TypeOK
<1>2. /\ input' = [buf |-> buf, consumed |-> input.consumed + n, eof |-> n < PSIZE]
      /\ msg' = [id |-> current_msg_id, data |-> buf]
      /\ current_msg_id' = current_msg_id + PSIZE
      /\ pc["main"] = "read"
  BY DEF Read, At
<1>3. pc'["main"] = "queue"
  <2>1. "main" \in Threads /\ Goto("main", "queue")
    BY DEF Threads, Read
  <2>2. QED
    BY <2>1, GotoFrame
<1>4. input.consumed = current_msg_id
  BY <1>2 DEF ReadInputInv
<1>5. /\ left \in Nat /\ n \in 0..PSIZE /\ input.consumed + left = InputSize
      /\ n = left \/ n = PSIZE
  BY <1>1
<1> HIDE DEF n, left
<1>6. ASSUME NEW j \in 1..PSIZE, current_msg_id + j <= InputSize
      PROVE  buf[j] = current_msg_id + j
  <2>1. j <= n
    BY <1>1, <1>4, <1>5, <1>6
  <2>2. buf[j] = IF j <= n THEN input.consumed + j ELSE input.buf[j]
    BY <1>6 DEF Filled
  <2>3. QED
    BY <1>4, <2>1, <2>2
<1> HIDE DEF buf
<1>7. msg'.id = current_msg_id /\ msg'.data = buf
  BY <1>2
<1>8. Holds(msg')
  BY <1>6, <1>7 DEF Holds
<1>9. ~ input'.eof => input'.consumed = current_msg_id'
  <2>1. input'.eof = (n < PSIZE) /\ input'.consumed = input.consumed + n
    BY <1>2
  <2>2. ~ (n < PSIZE) => n = PSIZE
    BY <1>1, <1>5
  <2>3. current_msg_id' = current_msg_id + PSIZE
    BY <1>2
  <2>4. QED
    BY <1>4, <2>1, <2>2, <2>3
<1>10. QED
  BY <1>2, <1>3, <1>7, <1>8, <1>9

\* The pipeline holds the packages in order, and the one in hand is the next.
LEMMA NextInOrder ==
  ASSUME TypeOK, ReadInputInv, RunSenderInv, InOrder, [Next]_vars
  PROVE  InOrder'
<1>1. /\ Pipeline \in Seq(Package) /\ Len(Pipeline) \in Nat
      /\ current_msg_id \in Nat /\ PSIZE \in Nat \ {0} /\ msg \in Package
  BY PipelineType, TransmitterAssumption DEF TypeOK
<1> DEFINE n == Len(Pipeline)
<1>2. n * PSIZE \in Nat /\ (n + 1) * PSIZE = n * PSIZE + PSIZE
  BY <1>1, ProductIsNat
<1>3. CASE Read
  <2>1. Pipeline' = Pipeline
    BY <1>3, OthersKeepPipeline DEF Read
  <2>2. /\ current_msg_id' = current_msg_id + PSIZE
        /\ pc["main"] = "read" /\ pc'["main"] = "queue"
    BY <1>3, ReadHolds
  <2>3. current_msg_id = (n + 0) * PSIZE
    BY <2>2 DEF InOrder
  <2>4. current_msg_id' = (n + 1) * PSIZE
    BY <1>1, <1>2, <2>2, <2>3
  <2>5. QED
    BY <2>1, <2>2, <2>4 DEF InOrder
<1>4. CASE QueueMessage
  <2>1. Pipeline' = Append(Pipeline, msg)
    BY <1>4, QueueAppends
  <2>2. /\ msg.id = n * PSIZE /\ pc["main"] = "queue" /\ pc'["main"] = "cache"
        /\ current_msg_id' = current_msg_id
    <3>1. "main" \in Threads /\ Goto("main", "cache")
      BY <1>4 DEF Threads, QueueMessage
    <3>2. QED
      BY <1>4, <3>1, GotoFrame DEF QueueMessage, At, ReadInputInv, mainVars
  <2>3. Len(Pipeline') = n + 1
    BY <1>1, <2>1
  <2>4. ASSUME NEW i \in 1..Len(Pipeline')
        PROVE  Pipeline'[i].id = (i - 1) * PSIZE
    <3>1. CASE i = n + 1
      <4>1. Pipeline'[i] = msg
        BY <1>1, <2>1, <3>1
      <4>2. i - 1 = n
        BY <1>1, <3>1
      <4>3. QED
        BY <2>2, <4>1, <4>2
    <3>2. CASE i \in 1..n
      <4>1. Pipeline'[i] = Pipeline[i]
        BY <1>1, <2>1, <3>2
      <4>2. QED
        BY <3>2, <4>1 DEF InOrder
    <3>3. QED
      BY <1>1, <2>3, <3>1, <3>2
  <2>5. current_msg_id = (n + 1) * PSIZE
    BY <2>2 DEF InOrder
  <2>6. current_msg_id' = (Len(Pipeline') + 0) * PSIZE
    <3>1. Len(Pipeline') + 0 = n + 1
      BY <1>1, <2>3
    <3>2. QED
      BY <2>2, <2>5, <3>1
  <2>7. QED
    BY <2>2, <2>4, <2>6 DEF InOrder
<1>5. CASE ~ Read /\ ~ QueueMessage
  <2>1. Pipeline' = Pipeline
    BY <1>5, PipelineStep
  <2>2. /\ current_msg_id' = current_msg_id
        /\ pc'["main"] = "queue" <=> pc["main"] = "queue"
    BY <1>5, OthersKeepHand DEF mainVars
  <2>3. QED
    BY <2>1, <2>2 DEF InOrder
<1>6. QED
  BY <1>3, <1>4, <1>5

\* What is queued and broadcast carries the input's bytes.
LEMMA NextBytesInPlace ==
  ASSUME TypeOK, ReadInputInv, RunSenderInv, BytesInPlace, [Next]_vars
  PROVE  BytesInPlace'
<1>1. Pipeline \in Seq(Package) /\ msg \in Package
  BY PipelineType DEF TypeOK
<1>2. CASE Pipeline' = Pipeline
  BY <1>2 DEF BytesInPlace
<1>3. CASE QueueMessage /\ Pipeline' = Append(Pipeline, msg)
  <2>1. Holds(msg)
    BY <1>3 DEF QueueMessage, At, ReadInputInv
  <2>2. ASSUME NEW i \in 1..Len(Pipeline') PROVE Holds(Pipeline'[i])
    <3>1. Pipeline'[i] = msg \/ (i \in 1..Len(Pipeline) /\ Pipeline'[i] = Pipeline[i])
      BY <1>1, <1>3
    <3>2. QED
      BY <2>1, <3>1 DEF BytesInPlace
  <2>3. QED
    BY <2>2 DEF BytesInPlace
<1>4. QED
  BY <1>2, <1>3, PipelineStep

\* The reading thread knows where it is.
LEMMA NextReadInput ==
  ASSUME TypeOK, ReadInputInv, RunSenderInv, InOrder, [Next]_vars
  PROVE  ReadInputInv'
<1>1. "main" \in Threads
  BY DEF Threads
<1>2. CASE Read
  <2>1. Pipeline' = Pipeline
    BY <1>2, OthersKeepPipeline DEF Read
  <2>2. /\ msg'.id = current_msg_id /\ Holds(msg')
        /\ pc["main"] = "read" /\ pc'["main"] = "queue"
        /\ ~ input'.eof => input'.consumed = current_msg_id'
    BY <1>2, ReadHolds
  <2>3. current_msg_id = Len(Pipeline) * PSIZE
    <3>1. current_msg_id = (Len(Pipeline) + 0) * PSIZE /\ Len(Pipeline) \in Nat
      BY <2>2, PipelineType DEF InOrder
    <3>2. QED
      BY <3>1
  <2>4. QED
    BY <2>1, <2>2, <2>3 DEF ReadInputInv
<1>3. CASE MainStep
  <2>1. CASE QueueMessage
    BY <1>1, <2>1, GotoFrame DEF QueueMessage, mainVars, ReadInputInv
  <2>2. CASE CacheGrow \/ CacheOutside \/ CacheAssignData
    <3>1. pc'["main"] = NextRead /\ UNCHANGED mainVars
      BY <1>1, <2>2, GotoFrame DEF CacheGrow, CacheOutside, CacheAssignData
    <3>2. QED
      BY <3>1 DEF NextRead, mainVars, ReadInputInv
  <2>3. CASE CacheAssignId
    <3>1. /\ pc'["main"] = "assign" /\ UNCHANGED mainVars
          /\ internal_id(msg.id) < Len(container)
      BY <1>1, <2>3, GotoFrame DEF CacheAssignId
    <3>2. Len(container') = Len(container)
      BY <2>3 DEF CacheAssignId, TypeOK
    <3>3. internal_id(msg'.id) = internal_id(msg.id)
      BY <3>1 DEF mainVars
    <3>4. QED
      BY <3>1, <3>2, <3>3 DEF mainVars, ReadInputInv
  <2>4. CASE SetComplete \/ Join
    BY <1>1, <2>4, GotoFrame DEF SetComplete, Join, mainVars, ReadInputInv
  <2>5. QED
    BY <1>3, <2>1, <2>2, <2>3, <2>4 DEF MainStep
<1>4. CASE ~ Read /\ ~ MainStep
  <2>1. pc'["main"] = pc["main"] /\ UNCHANGED <<mainVars, container>>
    BY <1>4, MainFrame DEF Next, QueueCollision, vars
  <2>2. Pipeline' = Pipeline
    BY <1>4, PipelineStep DEF MainStep
  <2>3. QED
    BY <2>1, <2>2 DEF mainVars, ReadInputInv
<1>5. QED
  BY <1>2, <1>3, <1>4

-----------------------------------------------------------------------------
(* The theorems *)

\* The invariant holds before the first step.
LEMMA InitTransmitterInv ==
  ASSUME Init
  PROVE  TransmitterInv
<1>1. PSIZE \in Nat \ {0} /\ InputSize \in Nat /\ MaxRequests \in Nat
  BY TransmitterAssumption
<1>2. [j \in 1..PSIZE |-> 0] \in Bytes
  BY <1>1 DEF Bytes
<1>3. /\ pc \in [Threads -> Steps] /\ pc["main"] = "read"
      /\ pc["sender"] = "check" /\ pc["listener"] = "check"
  BY DEF Init, Threads, Steps
<1>4. msg \in Package /\ copied \in Package
  BY <1>2 DEF Init, Package
<1>5. input \in [buf : Bytes, consumed : 0..InputSize, eof : BOOLEAN]
  BY <1>1, <1>2 DEF Init
<1>6. TypeOK
  <2>1. sending \in Seq(Package) /\ Len(sending) <= 1
    BY DEF Init
  <2>2. /\ send_q \in Seq(Package) /\ resend_q \in Seq(Package)
        /\ container \in Seq(Package) /\ air \in Seq(Package) /\ wanted \in Seq(Nat)
    BY DEF Init
  <2>3. /\ batch \in SUBSET Package /\ resent \in SUBSET Package
        /\ asked \in SUBSET Nat
    BY DEF Init
  <2>4. requests \in 0..MaxRequests /\ current_msg_id \in Nat
    <3>1. requests = 0 /\ current_msg_id = 0
      BY DEF Init
    <3>2. QED
      BY <1>1, <3>1
  <2>5. complete \in BOOLEAN /\ corrupt \in BOOLEAN
    BY DEF Init
  <2>6. QED
    BY <1>3, <1>4, <1>5, <2>1, <2>2, <2>3, <2>4, <2>5 DEF TypeOK
<1>7. Pipeline = <<>> /\ Len(Pipeline) = 0
  BY DEF Init, Pipeline
<1>8. ReadInputInv
  BY <1>3 DEF Init, ReadInputInv
<1>9. RunSenderInv /\ RunListenerInv
  BY <1>3 DEF Init, RunSenderInv, RunListenerInv
<1>10. InOrder /\ BytesInPlace
  <2>1. current_msg_id = 0 /\ (0 + 0) * PSIZE = 0
    BY <1>1 DEF Init
  <2>2. QED
    BY <1>3, <1>7, <2>1 DEF InOrder, BytesInPlace
<1>11. CachedWhereLooked
  BY DEF Init, CachedWhereLooked
<1>12. QED
  BY <1>6, <1>8, <1>9, <1>10, <1>11 DEF TransmitterInv

\* The inductive invariant: types, what each thread knows of its own place, and
\* the contents of the pipeline and the cache.
THEOREM TransmitterInvariant == Spec => []TransmitterInv
<1>1. Init => TransmitterInv
  BY InitTransmitterInv
<1>2. TransmitterInv /\ [Next]_vars => TransmitterInv'
  <2> SUFFICES ASSUME TransmitterInv, [Next]_vars PROVE TransmitterInv'
    OBVIOUS
  <2>1. /\ TypeOK /\ ReadInputInv /\ RunSenderInv /\ RunListenerInv
        /\ InOrder /\ BytesInPlace /\ CachedWhereLooked
    BY DEF TransmitterInv
  <2>2. TypeOK'
    BY NextType
  <2>3. ReadInputInv' /\ RunSenderInv' /\ RunListenerInv'
    BY <2>1, NextReadInput, NextRunSender, NextRunListener
  <2>4. InOrder' /\ BytesInPlace' /\ CachedWhereLooked'
    BY <2>1, NextInOrder, NextBytesInPlace, NextCached
  <2>5. QED
    BY <2>2, <2>3, <2>4 DEF TransmitterInv
<1>3. QED
  BY <1>1, <1>2, PTL DEF Spec

\* Every variable of the sender keeps its type, whatever the interleaving.
THEOREM TransmitterTypeCorrect == Spec => []TypeOK
<1>1. TransmitterInv => TypeOK
  BY DEF TransmitterInv
<1>2. QED
  BY <1>1, TransmitterInvariant, PTL

\* Between read_input and the socket no package is lost, repeated or reordered.
THEOREM AlwaysInOrder == Spec => []InOrder
<1>1. TransmitterInv => InOrder
  BY DEF TransmitterInv
<1>2. QED
  BY <1>1, TransmitterInvariant, PTL

\* A package on its way carries the input's bytes where the input has them.
THEOREM AlwaysBytesInPlace == Spec => []BytesInPlace
<1>1. TransmitterInv => BytesInPlace
  BY DEF TransmitterInv
<1>2. QED
  BY <1>1, TransmitterInvariant, PTL

\* A slot of the cache only holds ids that are looked up in it.
THEOREM AlwaysCachedWhereLooked == Spec => []CachedWhereLooked
<1>1. TransmitterInv => CachedWhereLooked
  BY DEF TransmitterInv
<1>2. QED
  BY <1>1, TransmitterInvariant, PTL

\* atomic_get never copies from outside the vector, although the test of the
\* size and the copy are not one step.
THEOREM CopyAlwaysInside == Spec => []CopyInside
<1>1. TransmitterInv => CopyInside
  <2> SUFFICES ASSUME TransmitterInv PROVE CopyInside
    OBVIOUS
  <2>1. /\ RunListenerInv /\ wanted \in Seq(Nat) /\ Len(container) \in Nat
    BY DEF TransmitterInv, TypeOK
  <2>2. CASE At("listener", "copy")
    BY <2>1, <2>2 DEF At, RunListenerInv, CopyInside
  <2>3. CASE At("listener", "size") /\ ~ Uncached(Head(wanted))
    <3>1. wanted # <<>>
      BY <2>1, <2>3 DEF At, RunListenerInv
    <3>2. Head(wanted) \in Nat /\ GetSlot \in Nat \ {0} /\ GetSlot <= Head(wanted) + 1
      BY <2>1, <3>1, GetSlotBound
    <3>3. Head(wanted) < Len(container)
      BY <2>1, <2>3, <3>2 DEF Uncached
    <3>4. GetSlot <= Len(container)
      BY <2>1, <3>2, <3>3
    <3>5. QED
      BY <3>4 DEF CopyInside
  <2>4. QED
    BY <2>2, <2>3 DEF CopyInside
<1>2. QED
  BY <1>1, TransmitterInvariant, PTL

-----------------------------------------------------------------------------
(* Retransmissions *)

\* What was queued stays queued or aired.
LEMMA QueuedGrows ==
  ASSUME TypeOK, RunSenderInv, [Next]_vars
  PROVE  QueuedIds \subseteq QueuedIds' /\ QueuedBytes \subseteq QueuedBytes'
<1>1. Pipeline \in Seq(Package) /\ msg \in Package /\ Len(Pipeline) \in Nat
  BY PipelineType DEF TypeOK
<1>2. CASE Pipeline' = Pipeline
  BY <1>2 DEF QueuedIds, QueuedBytes
<1>3. CASE Pipeline' = Append(Pipeline, msg)
  <2>1. Len(Pipeline') = Len(Pipeline) + 1
    BY <1>1, <1>3
  <2>2. \A i \in 1..Len(Pipeline) : i \in 1..Len(Pipeline') /\ Pipeline'[i] = Pipeline[i]
    BY <1>1, <1>3, <2>1
  <2>3. QED
    BY <2>2 DEF QueuedIds, QueuedBytes
<1>4. QED
  BY <1>2, <1>3, PipelineStep

\* QueueMessage queues the package in hand before it is cached.
LEMMA QueuedIsMsg ==
  ASSUME TypeOK, QueueMessage
  PROVE  msg'.id \in QueuedIds' /\ FromSlot(msg.data, internal_id(msg.id))'
<1>1. Pipeline \in Seq(Package) /\ msg \in Package /\ Len(Pipeline) \in Nat
  BY PipelineType DEF TypeOK
<1>2. Pipeline' = Append(Pipeline, msg) /\ msg' = msg
  BY QueueAppends DEF QueueMessage, mainVars
<1>3. Len(Pipeline) + 1 \in 1..Len(Pipeline') /\ Pipeline'[Len(Pipeline) + 1] = msg
  BY <1>1, <1>2
<1>4. QED
  BY <1>2, <1>3 DEF QueuedIds, QueuedBytes, FromSlot

\* The cache takes in no package that was not queued first.
LEMMA NextCachedWasQueued ==
  ASSUME TypeOK, ReadInputInv, RunSenderInv, CachedWasQueued, [Next]_vars
  PROVE  CachedWasQueued'
<1>1. /\ container \in Seq(Package) /\ Len(container) \in Nat
      /\ msg \in Package /\ msg.id \in Nat /\ "main" \in Threads
  BY DEF TypeOK, Package, Threads
<1>2. /\ internal_id(msg.id) \in Nat
      /\ QueuedIds \subseteq QueuedIds' /\ QueuedBytes \subseteq QueuedBytes'
  BY <1>1, SlotBound, QueuedGrows
<1>3. ASSUME NEW i \in 1..Len(container')
      PROVE  /\ \/ i \in 1..Len(container) /\ container'[i].id = container[i].id
                \/ pc["main"] = "cache" /\ container'[i].id = msg.id
             /\ \/ i \in 1..Len(container) /\ container'[i].data = container[i].data
                \/ /\ pc["main"] \in {"cache", "assign"} /\ i - 1 = internal_id(msg.id)
                   /\ container'[i].data = msg.data
  <2>1. CASE CacheGrow
    <3>1. /\ container' = Append(container, msg) /\ pc["main"] = "cache"
          /\ internal_id(msg.id) = Len(container)
      BY <2>1 DEF CacheGrow, At
    <3>2. Len(container') = Len(container) + 1
      BY <1>1, <3>1
    <3>3. i \in 1..Len(container) \/ i = Len(container) + 1
      BY <1>1, <1>3, <3>2
    <3>4. QED
      BY <1>1, <3>1, <3>3
  <2>2. CASE CacheAssignId
    <3> DEFINE slot == internal_id(msg.id) + 1
    <3>1. slot \in 1..Len(container)
      BY <1>1, <1>2, <2>2 DEF CacheAssignId
    <3>2. container' = [container EXCEPT ![slot] = [container[slot] EXCEPT !.id = msg.id]]
          /\ pc["main"] = "cache"
      BY <2>2 DEF CacheAssignId, At
    <3>3. LET m == [container[slot] EXCEPT !.id = msg.id]
          IN  m.id = msg.id /\ m.data = container[slot].data
      <4>1. container[slot] \in Package
        BY <1>1, <3>1
      <4>2. QED
        BY <4>1 DEF Package
    <3> HIDE DEF slot
    <3>4. Len(container') = Len(container)
      BY <1>1, <3>2
    <3>5. QED
      BY <1>1, <1>3, <3>1, <3>2, <3>3, <3>4
  <2>3. CASE CacheAssignData
    <3> DEFINE slot == internal_id(msg.id) + 1
    <3>1. slot \in 1..Len(container)
      BY <1>1, <1>2, <2>3 DEF CacheAssignData, At, ReadInputInv
    <3>2. container' = [container EXCEPT ![slot] = [container[slot] EXCEPT !.data = msg.data]]
          /\ pc["main"] = "assign"
      BY <2>3 DEF CacheAssignData, At
    <3>3. LET m == [container[slot] EXCEPT !.data = msg.data]
          IN  m.id = container[slot].id /\ m.data = msg.data
      <4>1. container[slot] \in Package
        BY <1>1, <3>1
      <4>2. QED
        BY <4>1 DEF Package
    <3>4. slot - 1 = internal_id(msg.id)
      BY <1>2
    <3> HIDE DEF slot
    <3>5. Len(container') = Len(container)
      BY <1>1, <3>2
    <3>6. QED
      BY <1>1, <1>3, <3>1, <3>2, <3>3, <3>4, <3>5
  <2>4. CASE ~ (CacheGrow \/ CacheAssignId \/ CacheAssignData)
    <3>1. container' = container
      BY <2>4 DEF Next, MainStep, SenderStep, ListenerStep, RetransmitterStep, vars,
         Read, QueueMessage, TakeMessage, TransmitMessage, CacheOutside, SetComplete,
         Join, Check, ReceiveNothing, ReceiveFails, ReceiveRexmit, GetNothing,
         CopyId, CopyData, PushResend, TakeBatch, TransmitResend, QueueCollision
    <3>2. QED
      BY <1>3, <3>1
  <2>5. QED
    BY <2>1, <2>2, <2>3, <2>4
<1>4. ASSUME NEW i \in 1..Len(container')
      PROVE  /\ container'[i].id \in QueuedIds'
             /\ \A j \in 1..PSIZE : <<i - 1, j, container'[i].data[j]>> \in QueuedBytes'
  <2>1. container'[i].id \in QueuedIds
    BY <1>3 DEF CachedWasQueued
  <2>2. \A j \in 1..PSIZE : <<i - 1, j, container'[i].data[j]>> \in QueuedBytes
    BY <1>3 DEF CachedWasQueued, FromSlot
  <2>3. QED
    BY <1>2, <2>1, <2>2
<1>5. pc'["main"] \in {"cache", "assign"} =>
        msg'.id \in QueuedIds' /\ FromSlot(msg.data, internal_id(msg.id))'
  <2>1. CASE QueueMessage
    BY <2>1, QueuedIsMsg
  <2>2. CASE Read
    BY <1>1, <2>2, GotoFrame DEF Read
  <2>3. CASE ~ QueueMessage /\ ~ Read
    <3>1. msg' = msg
      BY <2>3, OthersKeepHand DEF mainVars
    <3>2. pc'["main"] \in {"cache", "assign"} => pc["main"] \in {"cache", "assign"}
      <4>1. CASE MainStep
        <5>1. CASE CacheGrow \/ CacheOutside \/ SetComplete \/ Join
          BY <1>1, <5>1, GotoFrame DEF CacheGrow, CacheOutside, SetComplete, Join,
             At, NextRead
        <5>2. CASE CacheAssignId \/ CacheAssignData
          BY <1>1, <5>2, GotoFrame DEF CacheAssignId, CacheAssignData, At, NextRead
        <5>3. QED
          BY <2>3, <4>1, <5>1, <5>2 DEF MainStep
      <4>2. CASE SenderStep \/ ListenerStep \/ RetransmitterStep
        BY <4>2, MainFrame
      <4>3. CASE QueueCollision \/ UNCHANGED vars
        BY <4>3 DEF QueueCollision, vars
      <4>4. QED
        BY <2>3, <4>1, <4>2, <4>3 DEF Next
    <3>3. QED
      BY <1>2, <3>1, <3>2 DEF CachedWasQueued, FromSlot
  <2>4. QED
    BY <2>1, <2>2, <2>3
<1>6. QED
  BY <1>4, <1>5 DEF CachedWasQueued, FromSlot

\* The listener's ids are asked for, and its copy has the id of a cached package.
LEMMA NextLookup ==
  ASSUME TypeOK, RunSenderInv, RunListenerInv, CachedWasQueued, LookupInv, [Next]_vars
  PROVE  LookupInv'
<1>1. /\ "listener" \in Threads /\ wanted \in Seq(Nat) /\ copied \in Package
      /\ container \in Seq(Package)
      /\ QueuedIds \subseteq QueuedIds' /\ QueuedBytes \subseteq QueuedBytes'
  BY QueuedGrows DEF TypeOK, Threads
<1>2. CASE ListenerStep
  <2>1. CASE Check("listener", "receive")
    BY <1>1, <2>1, GotoFrame DEF Check, LookupInv, listenerVars
  <2>2. CASE ReceiveNothing \/ ReceiveFails
    BY <1>1, <2>2, GotoFrame DEF ReceiveNothing, ReceiveFails, LookupInv, listenerVars
  <2>3. ASSUME NEW ids \in Requests, ReceiveRexmit(ids) PROVE LookupInv'
    <3>1. /\ pc'["listener"] = "size" /\ wanted' = ids
          /\ asked' = asked \cup {ids[i] : i \in 1..Len(ids)}
      BY <1>1, <2>3, GotoFrame DEF ReceiveRexmit
    <3>2. QED
      BY <3>1 DEF LookupInv
  <2>4. ASSUME NextWanted, wanted # <<>>, UNCHANGED asked PROVE LookupInv'
    <3>1. wanted' = Tail(wanted) /\ pc'["listener"] \in {"size", "check"}
      BY <1>1, <2>4, GotoFrame DEF NextWanted
    <3>2. \A i \in 1..Len(wanted') : i + 1 \in 1..Len(wanted) /\ wanted'[i] = wanted[i + 1]
      BY <1>1, <2>4, <3>1
    <3>3. \A i \in 1..Len(wanted') : wanted'[i] \in asked'
      BY <2>4, <3>2 DEF LookupInv
    <3>4. QED
      BY <3>1, <3>3 DEF LookupInv
  <2>5. CASE GetNothing
    BY <2>4, <2>5 DEF GetNothing, At, RunListenerInv
  <2>6. CASE CopyId
    <3>1. /\ wanted # <<>> /\ UNCHANGED <<wanted, asked>>
          /\ copied' = [copied EXCEPT !.id = container[GetSlot].id]
          /\ pc'["listener"] = "copy"
      BY <1>1, <2>6, GotoFrame DEF CopyId, At, RunListenerInv
    <3>2. Head(wanted) \in Nat /\ GetSlot \in Nat \ {0} /\ GetSlot <= Head(wanted) + 1
      BY <1>1, <3>1, GetSlotBound
    <3>3. Head(wanted) < Len(container) /\ Len(container) \in Nat
      BY <1>1, <2>6, <3>2 DEF CopyId, Uncached
    <3>4. GetSlot \in 1..Len(container)
      BY <3>2, <3>3
    <3>5. copied'.id = container[GetSlot].id
      BY <1>1, <3>1 DEF Package
    <3>6. copied'.id \in QueuedIds'
      BY <1>1, <3>4, <3>5 DEF CachedWasQueued
    <3>7. QED
      BY <3>1, <3>6 DEF LookupInv
  <2>7. CASE CopyData
    <3>1. /\ UNCHANGED <<wanted, asked>> /\ pc["listener"] = "copy"
          /\ wanted # <<>> /\ GetSlot <= Len(container)
      BY <2>7 DEF CopyData, At, RunListenerInv
    <3>2. PICK fresh \in SUBSET (1..PSIZE) :
            /\ fresh # {} => pc["main"] = "assign" /\ internal_id(msg.id) + 1 = GetSlot
            /\ copied' = [copied EXCEPT !.data = CopiedBytes(fresh)]
      BY <2>7 DEF CopyData, At
    <3>3. copied'.id = copied.id /\ copied'.data = CopiedBytes(fresh)
      BY <1>1, <3>2 DEF Package
    <3>4. /\ GetSlot \in 1..Len(container)
          /\ GetSlot - 1 = internal_id(Head(wanted))
      <4>1. Head(wanted) \in Nat /\ GetSlot \in Nat \ {0}
        BY <1>1, <3>1, GetSlotBound
      <4>2. internal_id(Head(wanted)) \in Nat
        BY <4>1, SlotBound
      <4>3. QED
        BY <1>1, <3>1, <4>1, <4>2 DEF GetSlot
    <3>5. ASSUME NEW j \in 1..PSIZE
          PROVE  <<internal_id(Head(wanted)), j, CopiedBytes(fresh)[j]>> \in QueuedBytes
      <4>1. CASE j \in fresh
        <5>1. /\ CopiedBytes(fresh)[j] = msg.data[j] /\ pc["main"] = "assign"
              /\ internal_id(msg.id) + 1 = GetSlot
          BY <3>2, <4>1 DEF CopiedBytes
        <5>2. internal_id(msg.id) \in Nat /\ internal_id(Head(wanted)) \in Nat
          <6>1. msg.id \in Nat /\ Head(wanted) \in Nat
            BY <1>1, <3>1, GetSlotBound DEF TypeOK, Package
          <6>2. QED
            BY <6>1, SlotBound
        <5>3. internal_id(msg.id) = internal_id(Head(wanted))
          BY <3>4, <5>1, <5>2
        <5>4. QED
          BY <5>1, <5>3 DEF CachedWasQueued, FromSlot
      <4>2. CASE j \notin fresh
        <5>1. CopiedBytes(fresh)[j] = container[GetSlot].data[j]
          BY <4>2 DEF CopiedBytes
        <5>2. <<GetSlot - 1, j, container[GetSlot].data[j]>> \in QueuedBytes
          BY <3>4 DEF CachedWasQueued, FromSlot
        <5>3. QED
          BY <3>4, <5>1, <5>2
      <4>3. QED
        BY <4>1, <4>2
    <3>6. pc'["listener"] = "push" /\ Head(wanted') = Head(wanted)
      BY <1>1, <2>7, <3>1, GotoFrame DEF CopyData
    <3>7. QED
      BY <1>1, <3>1, <3>3, <3>5, <3>6 DEF LookupInv, FromSlot
  <2>8. CASE PushResend
    BY <2>4, <2>8 DEF PushResend, At, RunListenerInv
  <2>9. QED
    BY <1>2, <2>1, <2>2, <2>3, <2>5, <2>6, <2>7, <2>8 DEF ListenerStep
<1>3. CASE Read \/ MainStep \/ SenderStep \/ RetransmitterStep
  <2>1. pc'["listener"] = pc["listener"] /\ UNCHANGED listenerVars
    BY <1>3, ListenerFrame DEF listenerVars
  <2>2. QED
    BY <1>1, <2>1 DEF LookupInv, FromSlot, listenerVars
<1>4. CASE QueueCollision \/ UNCHANGED vars
  BY <1>1, <1>4 DEF QueueCollision, vars, LookupInv, FromSlot, listenerVars
<1>5. QED
  BY <1>2, <1>3, <1>4 DEF Next

\* Of several messages with one id Unique keeps one.
LEMMA UniqueIsUnique ==
  ASSUME NEW q \in Seq(Package)
  PROVE  /\ \A m, n \in Unique(q) : m.id = n.id => m = n
         /\ Unique(q) \subseteq {q[i] : i \in 1..Len(q)}
<1>1. Len(q) \in Nat
  OBVIOUS
<1>2. ASSUME NEW m \in Unique(q), NEW n \in Unique(q), m.id = n.id PROVE m = n
  <2>1. PICK i \in 1..Len(q) : q[i] = m /\ \A k \in 1..(i - 1) : q[k].id # q[i].id
    BY DEF Unique
  <2>2. PICK j \in 1..Len(q) : q[j] = n /\ \A k \in 1..(j - 1) : q[k].id # q[j].id
    BY DEF Unique
  <2>3. ~ (i < j) /\ ~ (j < i)
    <3>1. i < j => i \in 1..(j - 1)
      BY <1>1
    <3>2. j < i => j \in 1..(i - 1)
      BY <1>1
    <3>3. QED
      BY <1>2, <2>1, <2>2, <3>1, <3>2
  <2>4. i = j
    BY <1>1, <2>3
  <2>5. QED
    BY <2>1, <2>2, <2>4
<1>3. Unique(q) \subseteq {q[i] : i \in 1..Len(q)}
  BY DEF Unique
<1>4. QED
  BY <1>2, <1>3

\* A batch holds an id once.
LEMMA NextBatchUnique ==
  ASSUME TypeOK, BatchUnique, [Next]_vars
  PROVE  BatchUnique'
<1>1. CASE TakeBatch
  <2>1. batch' = Unique(resend_q) /\ resend_q \in Seq(Package)
    BY <1>1 DEF TakeBatch, TypeOK
  <2>2. QED
    BY <2>1, UniqueIsUnique DEF BatchUnique
<1>2. CASE TransmitResend
  BY <1>2 DEF TransmitResend, BatchUnique
<1>3. CASE ~ TakeBatch /\ ~ TransmitResend
  <2>1. batch' = batch
    BY <1>3 DEF Next, MainStep, SenderStep, ListenerStep, RetransmitterStep, vars,
       resendVars, Read, QueueMessage, CacheGrow, CacheAssignId, CacheAssignData,
       CacheOutside, SetComplete, Join, TakeMessage, TransmitMessage, Check,
       ReceiveNothing, ReceiveFails, ReceiveRexmit, GetNothing, CopyId, CopyData,
       PushResend, QueueCollision
  <2>2. QED
    BY <2>1 DEF BatchUnique
<1>4. QED
  BY <1>1, <1>2, <1>3

\* A step adds to that at most the copy, when it is what the listener looks up.
LEMMA ResendingStep ==
  ASSUME TypeOK, [Next]_vars, NEW m \in Resending'
  PROVE  \/ m \in Resending
         \/ PushResend /\ m = copied /\ copied.id = Head(wanted)
<1>1. resend_q \in Seq(Package) /\ copied \in Package /\ Len(resend_q) \in Nat
  BY DEF TypeOK
<1>2. CASE PushResend
  <2>1. resent' = resent /\ batch' = batch
    BY <1>2 DEF PushResend, resendVars
  <2>2. CASE ~ IsWanted(copied)
    <3>1. resend_q' = resend_q
      BY <1>2, <2>2 DEF PushResend
    <3>2. QED
      BY <2>1, <3>1 DEF Resending
  <2>3. CASE IsWanted(copied)
    <3>1. resend_q' = Append(resend_q, copied)
      BY <1>2, <2>3 DEF PushResend
    <3>2. Len(resend_q') = Len(resend_q) + 1
      BY <1>1, <3>1
    <3>3. \A i \in 1..Len(resend_q') :
            \/ i \in 1..Len(resend_q) /\ resend_q'[i] = resend_q[i]
            \/ resend_q'[i] = copied
      BY <1>1, <3>1, <3>2
    <3>4. QED
      BY <1>2, <2>1, <2>3, <3>3 DEF Resending, IsWanted
  <2>4. QED
    BY <2>2, <2>3
<1>3. CASE TakeBatch
  <2>1. batch' = Unique(resend_q) /\ resend_q' = <<>> /\ resent' = resent
    BY <1>3 DEF TakeBatch
  <2>2. Unique(resend_q) \subseteq {resend_q[i] : i \in 1..Len(resend_q)}
    BY <1>1, UniqueIsUnique
  <2>3. {resend_q'[i] : i \in 1..Len(resend_q')} = {}
    BY <2>1
  <2>4. QED
    BY <2>1, <2>2, <2>3 DEF Resending
<1>4. CASE TransmitResend
  <2>1. PICK n \in batch : batch' = batch \ {n} /\ resent' = resent \cup {n}
    BY <1>4 DEF TransmitResend
  <2>2. resend_q' = resend_q
    BY <1>4 DEF TransmitResend
  <2>3. QED
    BY <2>1, <2>2 DEF Resending
<1>5. CASE ~ PushResend /\ ~ TakeBatch /\ ~ TransmitResend
  <2>1. UNCHANGED <<resend_q, resendVars>>
    BY <1>5 DEF Next, MainStep, SenderStep, ListenerStep, RetransmitterStep, vars,
       Read, QueueMessage, CacheGrow, CacheAssignId, CacheAssignData,
       CacheOutside, SetComplete, Join, TakeMessage, TransmitMessage, Check,
       ReceiveNothing, ReceiveFails, ReceiveRexmit, GetNothing, CopyId, CopyData,
       QueueCollision
  <2>2. QED
    BY <2>1 DEF Resending, resendVars
<1>6. QED
  BY <1>2, <1>3, <1>4, <1>5

\* What is to be resent was asked for, and its bytes were queued for its slot.
LEMMA NextResentWasAsked ==
  ASSUME TypeOK, RunSenderInv, RunListenerInv, LookupInv, ResentWasAsked, [Next]_vars
  PROVE  ResentWasAsked'
<1>1. QueuedIds \subseteq QueuedIds' /\ QueuedBytes \subseteq QueuedBytes'
  BY QueuedGrows
<1>2. asked \subseteq asked'
  <2>1. CASE \E ids \in Requests : ReceiveRexmit(ids)
    BY <2>1 DEF ReceiveRexmit
  <2>2. CASE ~ \E ids \in Requests : ReceiveRexmit(ids)
    BY <2>2 DEF Next, MainStep, SenderStep, ListenerStep, RetransmitterStep, vars,
       listenerVars, Read, QueueMessage, CacheGrow, CacheAssignId, CacheAssignData,
       CacheOutside, SetComplete, Join, TakeMessage, TransmitMessage, Check,
       ReceiveNothing, ReceiveFails, GetNothing, CopyId, CopyData, PushResend, TakeBatch,
       TransmitResend, QueueCollision
  <2>3. QED
    BY <2>1, <2>2
<1>3. ASSUME NEW m \in Resending
      PROVE  /\ m.id \in asked /\ m.id \in QueuedIds
             /\ \A j \in 1..PSIZE : <<internal_id(m.id), j, m.data[j]>> \in QueuedBytes
  BY DEF ResentWasAsked, QueuedIds, FromSlot
<1>4. ASSUME NEW m \in Resending'
      PROVE  /\ m.id \in asked' /\ m.id \in QueuedIds'
             /\ \A j \in 1..PSIZE : <<internal_id(m.id), j, m.data[j]>> \in QueuedBytes'
  <2>1. CASE m \in Resending
    BY <1>1, <1>2, <1>3, <2>1
  <2>2. CASE PushResend /\ m = copied /\ copied.id = Head(wanted)
    <3>1. pc["listener"] = "push" /\ wanted # <<>> /\ wanted \in Seq(Nat)
      BY <2>2 DEF PushResend, At, RunListenerInv, TypeOK
    <3>2. Head(wanted) = wanted[1] /\ 1 \in 1..Len(wanted)
      BY <3>1
    <3>3. QED
      BY <1>1, <1>2, <2>2, <3>1, <3>2 DEF LookupInv, FromSlot
  <2>3. QED
    BY <2>1, <2>2, ResendingStep
<1>5. QED
  BY <1>4 DEF ResentWasAsked, QueuedIds, FromSlot

\* The invariant of the way from the queue through the cache to a repetition.
THEOREM ResendInvariant == Spec => []ResendInv
<1>1. Init => ResendInv
  <2>1. SUFFICES ASSUME Init PROVE ResendInv
    OBVIOUS
  <2>2. /\ pc["main"] = "read" /\ pc["listener"] = "check"
        /\ container = <<>> /\ wanted = <<>> /\ resend_q = <<>>
        /\ batch = {} /\ resent = {}
    BY <2>1 DEF Init, Threads
  <2>3. QED
    BY <2>2 DEF ResendInv, CachedWasQueued, LookupInv, ResentWasAsked, Resending,
       BatchUnique
<1>2. TransmitterInv /\ ResendInv /\ [Next]_vars => ResendInv'
  <2> SUFFICES ASSUME TransmitterInv, ResendInv, [Next]_vars PROVE ResendInv'
    OBVIOUS
  <2>1. /\ TypeOK /\ ReadInputInv /\ RunSenderInv /\ RunListenerInv
        /\ CachedWasQueued /\ LookupInv /\ ResentWasAsked /\ BatchUnique
    BY DEF TransmitterInv, ResendInv
  <2>2. CachedWasQueued' /\ LookupInv'
    BY <2>1, NextCachedWasQueued, NextLookup
  <2>3. ResentWasAsked' /\ BatchUnique'
    BY <2>1, NextResentWasAsked, NextBatchUnique
  <2>4. QED
    BY <2>2, <2>3 DEF ResendInv
<1>3. QED
  BY <1>1, <1>2, TransmitterInvariant, PTL DEF Spec

\* In every interleaving of the listener's copy with the cache's assignments, what
\* is repeated has an id that was asked for and queued before, and bytes of the
\* packages that share that id's slot.
THEOREM ResentAlwaysWasAsked == Spec => []ResentWasAsked
<1>1. ResendInv => ResentWasAsked
  BY DEF ResendInv
<1>2. QED
  BY <1>1, ResendInvariant, PTL

\* No id twice in one batch, however often it was asked for.
THEOREM BatchAlwaysUnique == Spec => []BatchUnique
<1>1. ResendInv => BatchUnique
  BY DEF ResendInv
<1>2. QED
  BY <1>1, ResendInvariant, PTL

-----------------------------------------------------------------------------
(* The sender implements AudioStream *)

\* A broadcast airs the oldest package of the pipeline that was not aired.
LEMMA TransmitAirs ==
  ASSUME TypeOK, RunSenderInv, TransmitMessage
  PROVE  Stream!Air
<1>1. /\ air \in Seq(Package) /\ sending \in Seq(Package) /\ send_q \in Seq(Package)
      /\ Len(sending) = 1
  BY DEF TypeOK, RunSenderInv, TransmitMessage, At
<1>2. air' = air \o sending
  BY DEF TransmitMessage
<1>3. /\ air \o sending = Append(air, sending[1])
      /\ Len((air \o sending) \o send_q) = Len(air) + 1 + Len(send_q)
      /\ ((air \o sending) \o send_q)[Len(air) + 1] = sending[1]
  BY <1>1, HandIsNext
<1>4. /\ Len(Pipeline) = Len(air) + 1 + Len(send_q)
      /\ Pipeline[Len(air) + 1] = sending[1]
  BY <1>3 DEF Pipeline
<1>5. Len(air) \in Nat /\ Len(send_q) \in Nat
  BY <1>1
<1>6. Len(air) < Len(Pipeline)
  BY <1>4, <1>5
<1>7. air' = Append(air, Pipeline[Len(air) + 1])
  BY <1>2, <1>3, <1>4
<1>8. Pipeline' = Pipeline
  BY TransmitKeepsPipeline
<1>9. QED
  BY <1>6, <1>7, <1>8 DEF Stream!Air

\* Queueing a package is the abstract Read.
LEMMA QueueReads ==
  ASSUME TypeOK, ReadInputInv, QueueMessage
  PROVE  Stream!Read
<1>1. Pipeline \in Seq(Package) /\ Len(Pipeline) \in Nat /\ msg \in Package
  BY PipelineType DEF TypeOK
<1>2. Pipeline' = Append(Pipeline, msg)
  BY QueueAppends
<1>3. msg.id = Len(Pipeline) * PSIZE /\ Holds(msg)
  BY DEF QueueMessage, At, ReadInputInv
<1>4. Stream!Holds(msg)
  BY <1>3 DEF Holds, Stream!Holds
<1>5. /\ Len(Pipeline') = Len(Pipeline) + 1
      /\ \A i \in 1..Len(Pipeline) : Pipeline'[i] = Pipeline[i]
      /\ Pipeline'[Len(Pipeline')] = msg
  BY <1>1, <1>2
<1>6. UNCHANGED air
  BY DEF QueueMessage, senderVars
<1>7. QED
  BY <1>3, <1>4, <1>5, <1>6 DEF Stream!Read

\* The four threads together implement the abstract broadcast: what has been
\* queued is what AudioStream has read, what run_sender sent is what it aired.
THEOREM SenderImplementsStream == Spec => BroadcastsStream
<1>1. Init => Stream!Init
  BY DEF Init, Pipeline, Stream!Init
<1>2. TransmitterInv /\ [Next]_vars => [Stream!Next]_<<Pipeline, air>>
  <2> SUFFICES ASSUME TransmitterInv, [Next]_vars
               PROVE  [Stream!Next]_<<Pipeline, air>>
    OBVIOUS
  <2>1. TypeOK /\ ReadInputInv /\ RunSenderInv
    BY DEF TransmitterInv
  <2>2. CASE QueueMessage
    BY <2>1, <2>2, QueueReads DEF Stream!Next
  <2>3. CASE TransmitMessage
    BY <2>1, <2>3, TransmitAirs DEF Stream!Next
  <2>4. CASE ~ QueueMessage /\ ~ TransmitMessage
    <3>1. Pipeline' = Pipeline
      BY <2>1, <2>4, PipelineStep
    <3>2. air' = air
      BY <2>4 DEF Next, MainStep, SenderStep, ListenerStep, RetransmitterStep, vars,
         Read, CacheGrow, CacheAssignId, CacheAssignData, CacheOutside, SetComplete,
         Join, Check, TakeMessage, ReceiveNothing, ReceiveFails, ReceiveRexmit,
         GetNothing, CopyId, CopyData, PushResend, TakeBatch, TransmitResend, QueueCollision, senderVars
    <3>3. QED
      BY <3>1, <3>2
  <2>5. QED
    BY <2>2, <2>3, <2>4
<1>3. QED
  BY <1>1, <1>2, TransmitterInvariant, PTL DEF Spec, BroadcastsStream, Stream!Spec

=============================================================================
