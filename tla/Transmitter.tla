---------------------------- MODULE Transmitter -----------------------------
(***************************************************************************)
(* The sender (src/sender/transmitter.hpp with lockable_queue.hpp and      *)
(* lockable_cache.hpp): the main thread reads the input, the sender thread *)
(* broadcasts, the listener answers control messages, the retransmitter    *)
(* repeats what was asked for.  An action is one access to what the        *)
(* threads share.                                                          *)
(*                                                                         *)
(* Nothing excludes the threads from each other: `std::scoped_lock{mut};`  *)
(* in the queue and the cache is a temporary, unlocked again at its own    *)
(* semicolon.  The cache is a vector of preallocated messages of one size, *)
(* so a copy out of it and an assignment into it interleave member by      *)
(* member.  A queue is a std::deque: two calls inside it at once either    *)
(* work as if one came first or spoil it, and after that nothing is said.  *)
(*                                                                         *)
(* The input is the bytes 1..InputSize; 0 is the initial value of a byte.  *)
(***************************************************************************)
EXTENDS Integers, Sequences

CONSTANTS
  PSIZE,       \* bytes in a package (option -p)
  FSIZE,       \* bytes the cache is sized for (option -f)
  InputSize,   \* bytes on the standard input before its end
  Requests,    \* id lists that rexmit messages may carry
  MaxRequests  \* bound: rexmit messages that arrive

ASSUME TransmitterAssumption ==
  /\ PSIZE \in Nat \ {0}
  /\ FSIZE \in Nat \ {0}
  /\ InputSize \in Nat
  /\ Requests \subseteq Seq(Nat) \ {<<>>}
  /\ MaxRequests \in Nat

VARIABLES
  pc,              \* the step each thread is at
  input,           \* read_input: buf, bytes consumed, std::cin.eof()
  current_msg_id,  \* id of the next package
  msg,             \* read_input: the package being queued and cached
  send_q,
  resend_q,
  container,       \* the cache; its length is container.size()
  complete,        \* reading_complete has its value
  sending,         \* run_sender: the package popped and not yet sent, as <<m>>
  wanted,          \* run_listener: ids of the request still to look up
  copied,          \* atomic_get: the copy, member by member
  batch,           \* run_retransmitter: unique_msgs not yet sent
  requests,        \* rexmit messages received, counted for MaxRequests
  asked,           \* history: ids asked for
  air,             \* history: packages broadcast by run_sender
  resent,          \* history: packages broadcast by run_retransmitter
  corrupt          \* a queue or the heap was spoiled, or the process ended

mainVars     == <<input, current_msg_id, msg>>
senderVars   == <<sending, air>>
listenerVars == <<wanted, copied, requests, asked>>
resendVars   == <<batch, resent>>
vars == <<pc, mainVars, send_q, resend_q, container, complete,
          senderVars, listenerVars, resendVars, corrupt>>

Threads == {"main", "sender", "listener", "retransmitter"}

Bytes   == [1..PSIZE -> 0..InputSize]
Package == [id : Nat, data : Bytes]

Steps == {"read", "queue", "cache", "assign", "promise", "join", "check", "take",
          "transmit", "receive", "size", "copy", "push", "done"}

TypeOK ==
  /\ pc \in [Threads -> Steps]
  /\ input \in [buf : Bytes, consumed : 0..InputSize, eof : BOOLEAN]
  /\ current_msg_id \in Nat
  /\ msg \in Package
  /\ send_q \in Seq(Package) /\ resend_q \in Seq(Package)
  /\ container \in Seq(Package)
  /\ complete \in BOOLEAN
  /\ sending \in Seq(Package) /\ Len(sending) <= 1
  /\ wanted \in Seq(Nat)
  /\ copied \in Package
  /\ batch \in SUBSET Package
  /\ requests \in 0..MaxRequests
  /\ asked \in SUBSET Nat
  /\ air \in Seq(Package)
  /\ resent \in SUBSET Package
  /\ corrupt \in BOOLEAN

\* Thread t is at step `at` of a process that still works.
At(t, at) == pc[t] = at /\ ~ corrupt
Goto(t, to) == pc' = [pc EXCEPT ![t] = to]

-----------------------------------------------------------------------------
(* read_input, in the main thread *)

\* sent_msgs_cache_size, and the slot of an id, counted from 0.
CacheSize == 1 + ((FSIZE - 1) \div PSIZE)
internal_id(id) == id % CacheSize

\* Mutants of Filled: the byte count of a short read is ignored, and a short
\* read fills the end of buf.
FilledWhole(buf, consumed, n) == [j \in 1..PSIZE |-> consumed + j]
FilledEnd(buf, consumed, n) ==
  [j \in 1..PSIZE |-> IF j > PSIZE - n THEN consumed + j - (PSIZE - n) ELSE buf[j]]

\* buf after std::cin.read: n new bytes, and behind them what was there before.
Filled(buf, consumed, n) ==
  [j \in 1..PSIZE |-> IF j <= n THEN consumed + j ELSE buf[j]]

Read ==
  LET left == InputSize - input.consumed
      n    == IF left < PSIZE THEN left ELSE PSIZE
      buf  == Filled(input.buf, input.consumed, n)
  IN  /\ At("main", "read")
      /\ input' = [buf |-> buf, consumed |-> input.consumed + n, eof |-> n < PSIZE]
      /\ msg' = [id |-> current_msg_id, data |-> buf]
      /\ current_msg_id' = current_msg_id + PSIZE
      /\ Goto("main", "queue")
      /\ UNCHANGED <<send_q, resend_q, container, complete,
                     senderVars, listenerVars, resendVars, corrupt>>

QueueMessage ==
  /\ At("main", "queue")
  /\ send_q' = Append(send_q, msg)
  /\ Goto("main", "cache")
  /\ UNCHANGED <<mainVars, resend_q, container, complete,
                 senderVars, listenerVars, resendVars, corrupt>>

\* The loop of read_input ends when the last read met the end of the input.
NextRead == IF input.eof THEN "promise" ELSE "read"

\* Mutant of CacheGrow: push_back without the test of the slot.
CacheGrowAlways ==
  /\ At("main", "cache")
  /\ container' = Append(container, msg)
  /\ Goto("main", NextRead)
  /\ UNCHANGED <<mainVars, send_q, resend_q, complete,
                 senderVars, listenerVars, resendVars, corrupt>>

\* push_back; the assignment that follows it writes the same value again.
CacheGrow ==
  /\ At("main", "cache")
  /\ internal_id(msg.id) = Len(container)
  /\ container' = Append(container, msg)
  /\ Goto("main", NextRead)
  /\ UNCHANGED <<mainVars, send_q, resend_q, complete,
                 senderVars, listenerVars, resendVars, corrupt>>

\* The assignment into a slot in use: first the id, then the bytes.
CacheAssignId ==
  /\ At("main", "cache")
  /\ internal_id(msg.id) < Len(container)
  /\ container' = [container EXCEPT ![internal_id(msg.id) + 1].id = msg.id]
  /\ Goto("main", "assign")
  /\ UNCHANGED <<mainVars, send_q, resend_q, complete,
                 senderVars, listenerVars, resendVars, corrupt>>

CacheAssignData ==
  /\ At("main", "assign")
  /\ container' = [container EXCEPT ![internal_id(msg.id) + 1].data = msg.data]
  /\ Goto("main", NextRead)
  /\ UNCHANGED <<mainVars, send_q, resend_q, complete,
                 senderVars, listenerVars, resendVars, corrupt>>

\* The assignment past the vector's end: into reserved memory that holds no
\* message, where nobody reads it and push_back will overwrite it.
CacheOutside ==
  /\ At("main", "cache")
  /\ internal_id(msg.id) > Len(container)
  /\ corrupt' \in BOOLEAN
  /\ Goto("main", NextRead)
  /\ UNCHANGED <<mainVars, send_q, resend_q, container, complete,
                 senderVars, listenerVars, resendVars>>

SetComplete ==
  /\ At("main", "promise")
  /\ complete' = TRUE
  /\ Goto("main", "join")
  /\ UNCHANGED <<mainVars, send_q, resend_q, container,
                 senderVars, listenerVars, resendVars, corrupt>>

Join ==
  /\ At("main", "join")
  /\ \A t \in Threads \ {"main"} : pc[t] = "done"
  /\ Goto("main", "done")
  /\ UNCHANGED <<mainVars, send_q, resend_q, container, complete,
                 senderVars, listenerVars, resendVars, corrupt>>

-----------------------------------------------------------------------------
(* The condition of the loop of every other thread *)

\* Mutant of Check: reading_complete is not looked at.
CheckNothing(t, first) ==
  /\ At(t, "check")
  /\ Goto(t, first)
  /\ UNCHANGED <<mainVars, send_q, resend_q, container, complete,
                 senderVars, listenerVars, resendVars, corrupt>>

Check(t, first) ==
  /\ At(t, "check")
  /\ Goto(t, IF complete THEN "done" ELSE first)
  /\ UNCHANGED <<mainVars, send_q, resend_q, container, complete,
                 senderVars, listenerVars, resendVars, corrupt>>

-----------------------------------------------------------------------------
(* run_sender *)

\* Mutants of TakeMessage: no pop, the newest first, and none before two wait.
TakeMessageKept ==
  /\ At("sender", "take") /\ send_q # <<>>
  /\ sending' = <<Head(send_q)>>
  /\ Goto("sender", "transmit")
  /\ UNCHANGED <<mainVars, send_q, resend_q, container, complete, air,
                 listenerVars, resendVars, corrupt>>
TakeMessageNewest ==
  /\ At("sender", "take") /\ send_q # <<>>
  /\ sending' = <<send_q[Len(send_q)]>>
  /\ send_q' = SubSeq(send_q, 1, Len(send_q) - 1)
  /\ Goto("sender", "transmit")
  /\ UNCHANGED <<mainVars, resend_q, container, complete, air,
                 listenerVars, resendVars, corrupt>>
TakeMessageOfTwo ==
  /\ At("sender", "take")
  /\ IF Len(send_q) <= 1
       THEN /\ Goto("sender", "check")
            /\ UNCHANGED <<send_q, sending>>
       ELSE /\ sending' = <<Head(send_q)>>
            /\ send_q' = Tail(send_q)
            /\ Goto("sender", "transmit")
  /\ UNCHANGED <<mainVars, resend_q, container, complete, air,
                 listenerVars, resendVars, corrupt>>

TakeMessage ==
  /\ At("sender", "take")
  /\ IF send_q = <<>>
       THEN /\ Goto("sender", "check")
            /\ UNCHANGED <<send_q, sending>>
       ELSE /\ sending' = <<Head(send_q)>>
            /\ send_q' = Tail(send_q)
            /\ Goto("sender", "transmit")
  /\ UNCHANGED <<mainVars, resend_q, container, complete, air,
                 listenerVars, resendVars, corrupt>>

\* transmit_force: a failed write is tried again and changes nothing here.
TransmitMessage ==
  /\ At("sender", "transmit")
  /\ air' = air \o sending
  /\ sending' = <<>>
  /\ Goto("sender", "check")
  /\ UNCHANGED <<mainVars, send_q, resend_q, container, complete,
                 listenerVars, resendVars, corrupt>>

-----------------------------------------------------------------------------
(* run_listener and retransmit_ids *)

\* try_read timed out, or brought a lookup, which is answered without touching
\* anything shared, or a message that is neither lookup nor rexmit.
ReceiveNothing ==
  /\ At("listener", "receive")
  /\ Goto("listener", "check")
  /\ UNCHANGED <<mainVars, send_q, resend_q, container, complete,
                 senderVars, listenerVars, resendVars, corrupt>>

\* recvfrom failed with something else than a timeout: try_read throws, nobody
\* catches it in the listener's thread, and the process ends.
ReceiveFails ==
  /\ At("listener", "receive")
  /\ corrupt' = TRUE
  /\ Goto("listener", "done")
  /\ UNCHANGED <<mainVars, send_q, resend_q, container, complete,
                 senderVars, listenerVars, resendVars>>

ReceiveRexmit(ids) ==
  /\ At("listener", "receive")
  /\ requests < MaxRequests
  /\ requests' = requests + 1
  /\ wanted' = ids
  /\ asked' = asked \cup {ids[i] : i \in 1..Len(ids)}
  /\ Goto("listener", "size")
  /\ UNCHANGED <<mainVars, send_q, resend_q, container, complete,
                 senderVars, copied, resendVars, corrupt>>

\* After an id comes the next of the request, or the loop of run_listener.
NextWanted ==
  /\ wanted' = Tail(wanted)
  /\ Goto("listener", IF Len(wanted) > 1 THEN "size" ELSE "check")

\* Mutant of Uncached: `>` where the code has `>=`.
UncachedOffByOne(id) == id > Len(container)

\* The test in front of the copy: the id itself, not its slot, is compared.
Uncached(id) == id >= Len(container)

GetNothing ==
  /\ At("listener", "size")
  /\ Uncached(Head(wanted))
  /\ NextWanted
  /\ UNCHANGED <<mainVars, send_q, resend_q, container, complete,
                 senderVars, copied, requests, asked, resendVars, corrupt>>

\* The slot atomic_get copies from, counted from 1 as the sequence is.
GetSlot == internal_id(Head(wanted)) + 1

CopyId ==
  /\ At("listener", "size")
  /\ ~ Uncached(Head(wanted))
  /\ copied' = [copied EXCEPT !.id = container[GetSlot].id]
  /\ Goto("listener", "copy")
  /\ UNCHANGED <<mainVars, send_q, resend_q, container, complete,
                 senderVars, wanted, requests, asked, resendVars, corrupt>>

\* The bytes of the copy; `fresh` are those the main thread has already
\* overwritten, which there are only while it assigns to the same slot.
CopiedBytes(fresh) ==
  [j \in 1..PSIZE |-> IF j \in fresh THEN msg.data[j] ELSE container[GetSlot].data[j]]

CopyData ==
  /\ At("listener", "copy")
  /\ \E fresh \in SUBSET (1..PSIZE) :
       /\ fresh # {} => At("main", "assign") /\ internal_id(msg.id) + 1 = GetSlot
       /\ copied' = [copied EXCEPT !.data = CopiedBytes(fresh)]
  /\ Goto("listener", "push")
  /\ UNCHANGED <<mainVars, send_q, resend_q, container, complete,
                 senderVars, wanted, requests, asked, resendVars, corrupt>>

\* Mutant of IsWanted: the id of the copy is not compared.
IsAnything(m) == m.id = m.id

\* The copy is the message that was asked for, going by its id.
IsWanted(m) == m.id = Head(wanted)

PushResend ==
  /\ At("listener", "push")
  /\ resend_q' = IF IsWanted(copied) THEN Append(resend_q, copied) ELSE resend_q
  /\ NextWanted
  /\ UNCHANGED <<mainVars, send_q, container, complete,
                 senderVars, copied, requests, asked, resendVars, corrupt>>

-----------------------------------------------------------------------------
(* run_retransmitter *)

\* Mutant of Unique: a set of different messages, whatever their ids.
AllDifferent(q) == {q[i] : i \in 1..Len(q)}

\* std::set orders messages by id: of several with one id the first stays.
Unique(q) ==
  {q[i] : i \in {j \in 1..Len(q) : \A k \in 1..(j - 1) : q[k].id # q[j].id}}

\* Mutant of TakeBatch: the batch is taken and the thread goes to sleep.
TakeBatchAndSleep ==
  /\ At("retransmitter", "take")
  /\ batch' = Unique(resend_q)
  /\ resend_q' = <<>>
  /\ Goto("retransmitter", "check")
  /\ UNCHANGED <<mainVars, send_q, container, complete,
                 senderVars, listenerVars, resent, corrupt>>

TakeBatch ==
  /\ At("retransmitter", "take")
  /\ batch' = Unique(resend_q)
  /\ resend_q' = <<>>
  /\ Goto("retransmitter", IF resend_q = <<>> THEN "check" ELSE "transmit")
  /\ UNCHANGED <<mainVars, send_q, container, complete,
                 senderVars, listenerVars, resent, corrupt>>

\* The batch goes out by ascending id; after the last one comes the sleep.
TransmitResend ==
  /\ At("retransmitter", "transmit")
  /\ \E m \in batch :
       /\ \A other \in batch : m.id <= other.id
       /\ batch' = batch \ {m}
       /\ resent' = resent \cup {m}
       /\ Goto("retransmitter", IF batch = {m} THEN "check" ELSE "transmit")
  /\ UNCHANGED <<mainVars, send_q, resend_q, container, complete,
                 senderVars, listenerVars, corrupt>>

-----------------------------------------------------------------------------
\* Two threads inside one std::deque: a push that moves the deque's map while a
\* pop leaves its first node may leave the queue unusable.
QueueCollision ==
  /\ \/ At("main", "queue") /\ At("sender", "take")
     \/ At("listener", "push") /\ IsWanted(copied) /\ At("retransmitter", "take")
  /\ corrupt' = TRUE
  /\ UNCHANGED <<pc, mainVars, send_q, resend_q, container, complete,
                 senderVars, listenerVars, resendVars>>

Init ==
  /\ pc = [t \in Threads |-> IF t = "main" THEN "read" ELSE "check"]
  /\ input = [buf |-> [j \in 1..PSIZE |-> 0], consumed |-> 0, eof |-> FALSE]
  /\ current_msg_id = 0
  /\ msg = [id |-> 0, data |-> [j \in 1..PSIZE |-> 0]]
  /\ send_q = <<>> /\ resend_q = <<>>
  /\ container = <<>>
  /\ complete = FALSE
  /\ sending = <<>>
  /\ wanted = <<>>
  /\ copied = [id |-> 0, data |-> [j \in 1..PSIZE |-> 0]]
  /\ batch = {}
  /\ requests = 0
  /\ asked = {}
  /\ air = <<>>
  /\ resent = {}
  /\ corrupt = FALSE

MainStep == QueueMessage \/ CacheGrow \/ CacheAssignId \/ CacheAssignData
              \/ CacheOutside \/ SetComplete \/ Join
SenderStep == Check("sender", "take") \/ TakeMessage \/ TransmitMessage
ListenerStep ==
  \/ Check("listener", "receive") \/ ReceiveNothing \/ ReceiveFails
  \/ \E ids \in Requests : ReceiveRexmit(ids)
  \/ GetNothing \/ CopyId \/ CopyData \/ PushResend
RetransmitterStep == Check("retransmitter", "take") \/ TakeBatch \/ TransmitResend

Next == Read \/ MainStep \/ SenderStep \/ ListenerStep \/ RetransmitterStep
          \/ QueueCollision

Spec == Init /\ [][Next]_vars

\* Every thread keeps running and the network takes a datagram in the end.
\* Nothing is assumed of Read: the program that feeds the input may pause.
Fairness ==
  /\ WF_vars(MainStep) /\ WF_vars(SenderStep)
  /\ WF_vars(ListenerStep) /\ WF_vars(RetransmitterStep)

FairSpec == Spec /\ Fairness

-----------------------------------------------------------------------------
(* Properties *)

\* Every package between the input and the air, oldest first.
Pipeline == air \o sending \o send_q

\* Packages the input is read into, the one that meets its end included.
Packages == 1 + (InputSize \div PSIZE)

Holds(m) == \A j \in 1..PSIZE : m.id + j <= InputSize => m.data[j] = m.id + j

\* Nothing is lost, repeated or reordered on the way from the input through
\* send_q to the socket, wherever the two threads stand: the pipeline holds the
\* packages in order, and the next one to enter it is the one just read.
InOrder ==
  /\ \A i \in 1..Len(Pipeline) : Pipeline[i].id = (i - 1) * PSIZE
  /\ current_msg_id = (Len(Pipeline) + (IF pc["main"] = "queue" THEN 1 ELSE 0)) * PSIZE

\* What is broadcast carries the input's bytes at the numbers they have there,
\* although buf keeps old bytes behind a short last read.
BytesInPlace == \A i \in 1..Len(Pipeline) : Holds(Pipeline[i])

\* A slot of the cache only ever holds ids that are looked up in it, so that
\* the comparison of ids in retransmit_ids decides about the right message.
CachedWhereLooked ==
  \A i \in 1..Len(container) : container[i].id % CacheSize = i - 1

\* Slot, place and value of every byte that was queued for the broadcast.
QueuedBytes ==
  {<<internal_id(Pipeline[i].id), j, Pipeline[i].data[j]>> :
     i \in 1..Len(Pipeline), j \in 1..PSIZE}

\* Every byte of data was queued, at its own place, in a package of this slot.
FromSlot(data, slot) == \A j \in 1..PSIZE : <<slot, j, data[j]>> \in QueuedBytes

\* What retransmit_ids and run_retransmitter have accepted, hold or have sent.
Resending == resent \cup batch \cup {resend_q[i] : i \in 1..Len(resend_q)}

\* A retransmission has the id of a package that was asked for and was queued
\* before, and its bytes come from packages that share that id's slot, at their
\* places: from the package itself, or, when the slot changed during the copy
\* (ResentIsOriginal is about that), from a later one, and never from elsewhere.
ResentWasAsked ==
  \A m \in Resending :
    /\ m.id \in asked
    /\ \E i \in 1..Len(Pipeline) : Pipeline[i].id = m.id
    /\ FromSlot(m.data, internal_id(m.id))

\* No id twice in one batch (transmitter.hpp:82), though the listener pushes it
\* as often as it is asked for.
BatchUnique == \A m, n \in batch : m.id = n.id => m = n

\* The copy out of the cache stays inside the vector: the size was tested
\* before the copy, and nothing shrinks the vector in between.
CopyInside ==
  (At("listener", "copy") \/ (At("listener", "size") /\ ~ Uncached(Head(wanted))))
    => GetSlot <= Len(container)

\* The threads stop once the input has ended: no join waits for ever.
Finishes == input.eof ~> (pc["main"] = "done" \/ corrupt)

\* While the input goes on, what entered the queue is broadcast in the end.
QueuedIsAired ==
  \A k \in 1..Packages :
    Len(Pipeline) >= k ~> (Len(air) >= k \/ complete \/ corrupt)

\* While the input goes on, what was accepted for retransmission is repeated.
AcceptedIsResent ==
  \A ids \in Requests :
    (\E i \in 1..Len(resend_q) : resend_q[i].id = ids[1])
      ~> ((\E m \in resent : m.id = ids[1]) \/ complete \/ corrupt)

\* The broadcast as AudioStream promises it.
Stream == INSTANCE AudioStream WITH read <- Pipeline, aired <- air
BroadcastsStream == Stream!Spec

-----------------------------------------------------------------------------
(* The inductive invariant behind the safety properties *)

\* Until the end of the input the number of the next package is the number of
\* bytes consumed; a package about to be queued is the pipeline's next; a slot
\* being assigned is in use.
ReadInputInv ==
  /\ pc["main"] = "read" => ~ input.eof
  /\ ~ input.eof => input.consumed = current_msg_id
  /\ pc["main"] = "queue" => msg.id = Len(Pipeline) * PSIZE /\ Holds(msg)
  /\ pc["main"] = "assign" => internal_id(msg.id) < Len(container)

\* The sender thread holds a package exactly while it transmits.
RunSenderInv == Len(sending) = IF pc["sender"] = "transmit" THEN 1 ELSE 0

\* The listener has an id to look up, and copies from inside the vector.
RunListenerInv ==
  /\ pc["listener"] \in {"size", "copy", "push"} => wanted # <<>>
  /\ pc["listener"] = "copy" => GetSlot <= Len(container)

\* Ids of the packages that were queued for the broadcast.
QueuedIds == {Pipeline[i].id : i \in 1..Len(Pipeline)}

\* What the cache holds, or is about to, was queued in a package of that slot.
CachedWasQueued ==
  /\ \A i \in 1..Len(container) :
       container[i].id \in QueuedIds /\ FromSlot(container[i].data, i - 1)
  /\ pc["main"] \in {"cache", "assign"} =>
       msg.id \in QueuedIds /\ FromSlot(msg.data, internal_id(msg.id))

\* What the listener looks up was asked for, what it has copied was queued.
LookupInv ==
  /\ \A i \in 1..Len(wanted) : wanted[i] \in asked
  /\ pc["listener"] \in {"copy", "push"} => copied.id \in QueuedIds
  /\ pc["listener"] = "push" => FromSlot(copied.data, internal_id(Head(wanted)))

ResendInv == CachedWasQueued /\ LookupInv /\ ResentWasAsked /\ BatchUnique

TransmitterInv ==
  /\ TypeOK /\ ReadInputInv /\ RunSenderInv /\ RunListenerInv
  /\ InOrder /\ BytesInPlace /\ CachedWhereLooked

-----------------------------------------------------------------------------
(* What the documentation and the comments say and the code does not do *)

\* README.md:7, "Sender reads data from standard input and broadcasts it".
EverythingReadIsBroadcast ==
  \A k \in 1..Packages :
    Len(Pipeline) >= k ~> (Len(air) >= k \/ corrupt)

\* README.md:7, the queue "allows for retransmission of recent messages": the
\* packages that make up the last FSIZE bytes queued can be looked up.
RecentIsRetransmittable ==
  At("main", "read") =>
    \A i \in 1..Len(Pipeline) :
      Pipeline[i].id + FSIZE >= current_msg_id =>
        /\ ~ Uncached(Pipeline[i].id)
        /\ container[internal_id(Pipeline[i].id) + 1].id = Pipeline[i].id

\* transmitter.hpp:39, "message with desired id was still stored in cache": what
\* is accepted for retransmission is the package that was queued with its id.
ResentIsOriginal ==
  \A m \in Resending : \E i \in 1..Len(Pipeline) : Pipeline[i] = m

\* lockable_cache.hpp:38, the push_back is there "just to prevent segfault when
\* copying to uninitialized memory": the assignment after it finds a message.
AssignsInside == At("main", "cache") => internal_id(msg.id) <= Len(container)

\* README.md:7, "Sender reads data from standard input and broadcasts it": a
\* byte that is broadcast is the byte of the input with that number.
OnlyInputIsBroadcast ==
  \A i \in 1..Len(air) : \A j \in 1..PSIZE : air[i].data[j] = air[i].id + j
=============================================================================
