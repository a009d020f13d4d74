------------------------------ MODULE DataLink ------------------------------
(***************************************************************************)
(* How packages get from a sender's threads to a receiver: the layout of a *)
(* datagram (src/common/data_msg.hpp), the sockets of run_sender,          *)
(* run_retransmitter and run_listener (src/sender/data_socket.hpp and the  *)
(* constructor of src/common/ctrl_socket.hpp), which share the descriptors *)
(* of the process, their retries, and a network that comes and goes.       *)
(*                                                                         *)
(* Which packages the threads take, and when, is the subject of module     *)
(* Transmitter; here they take any.  The network may lose, repeat and      *)
(* reorder datagrams: `wire` is the set of those ever sent.                *)
(***************************************************************************)
EXTENDS Integers, FiniteSetsExt, SequencesExt

CONSTANTS
  Base, Width,   \* values of a byte, and bytes of msg_id_t
  Packages,      \* session_id, id and data of the packages to send
  SenderOrder, ReceiverOrder,  \* byte orders of the hosts: "little" or "big"
  MaxFds         \* descriptors the process may have open besides its input

\* Values of that many bytes, and of all the bytes of a number.
Power[n \in 0..Width] == IF n = 0 THEN 1 ELSE Base * Power[n - 1]
Numbers == 0..(Power[Width] - 1)
Bytes   == 0..(Base - 1)

ASSUME DataLinkAssumption ==
  /\ Base \in Nat \ {0, 1} /\ Width \in Nat \ {0}
  /\ Packages \subseteq [session_id : Numbers, id : Numbers, data : Seq(Bytes)]
  /\ {SenderOrder, ReceiverOrder} \subseteq {"little", "big"}
  /\ MaxFds \in Nat

VARIABLES
  network,      \* is there a route to the multicast address?
  complete,     \* reading_complete has its value
  pc,           \* the step each thread is at
  descriptors,  \* open descriptors, with what the kernel knows of them
  sock,         \* the members sock and connected of each thread's data_socket;
  connected,    \* sock of the listener's ctrl_socket
  hand,         \* the datagram that a thread transmits
  wire,
  taken         \* history: packages that threads have taken

vars == <<network, complete, pc, descriptors, sock, connected, hand, wire, taken>>

Transmitters == {"sender", "retransmitter"}
Threads == Transmitters \cup {"listener"}
Fds == 1..MaxFds
Free == Fds \ DOMAIN descriptors

\* A socket that says it is connected has a descriptor that is, of its own.
TypeOK ==
  /\ network \in {"up", "down"} /\ complete \in BOOLEAN
  /\ pc \in [Threads -> {"idle", "take", "open", "connect", "write", "listen",
                         "reply", "done", "ended"}]
  /\ DOMAIN descriptors \subseteq Fds
  /\ sock \in [Threads -> Fds \cup {-1}]
  /\ connected \in [Transmitters -> BOOLEAN]
  /\ \A t \in Transmitters : connected[t] => descriptors[sock[t]] = "linked"
  /\ \A t, u \in Transmitters : connected[t] /\ connected[u] /\ sock[t] = sock[u] => t = u
  /\ hand \in [Transmitters -> Seq(Bytes)]
  /\ wire \subseteq Seq(Bytes)
  /\ taken \subseteq Packages

Running == pc["listener"] # "ended"
At(t, step) == pc[t] = step /\ Running
Goto(t, step) == pc' = [pc EXCEPT ![t] = step]

-----------------------------------------------------------------------------
(* data_msg *)

\* A number without its lowest bytes, and the number that bytes stand for, the
\* highest one first.
Shifted(v) ==
  LET rest[i \in 0..Width] == IF i = 0 THEN v ELSE rest[i - 1] \div Base
  IN  rest

ValueOf(big) ==
  LET value[i \in 0..Width] == IF i = 0 THEN 0 ELSE (Base * value[i - 1]) + big[i]
  IN  value

\* The bytes of a number in memory, from the lowest address, and back.
InMemory(v, order) ==
  LET little == [i \in 1..Width |-> Shifted(v)[i - 1] % Base]
  IN  IF order = "little" THEN little ELSE Reverse(little)

FromMemory(bytes, order) ==
  ValueOf(IF order = "big" THEN bytes ELSE Reverse(bytes))[Width]

num == 2137
FirstByteOf(n, order) == IF order = "little" THEN n % 256 ELSE 0

\* The test compares one byte of num with all of it and is never true.
htonll(v, order) ==
  IF FirstByteOf(num, order) = num
    THEN FromMemory(Reverse(InMemory(v, order)), order)
    ELSE v
ntohll(v, order) == htonll(v, order)

\* Mutant of sendable: the two numbers change places.
sendable_id_first(p, order) ==
  InMemory(htonll(p.id, order), order) \o InMemory(htonll(p.session_id, order), order) \o p.data

sendable(p, order) ==
  InMemory(htonll(p.session_id, order), order) \o InMemory(htonll(p.id, order), order) \o p.data

\* The constructor from a datagram.
data_msg(raw_msg, order) ==
  LET number(from) == ntohll(FromMemory(SubSeq(raw_msg, from + 1, from + Width), order), order)
  IN  [session_id |-> number(0),
       id |-> number(Width),
       data |-> SubSeq(raw_msg, 2 * Width + 1, Len(raw_msg))]

-----------------------------------------------------------------------------
(* run_sender and run_retransmitter *)

\* transmit opens the connection when there is none.
Transmit(t) == IF connected[t] THEN "write" ELSE "open"

\* Mutant of Check: the end of the input is not looked for.
CheckNothing(t) ==
  /\ At(t, "idle")
  /\ Goto(t, "take")
  /\ UNCHANGED <<network, complete, descriptors, sock, connected, hand, wire, taken>>

\* The condition of the thread's loop; what follows does not look at it again.
Check(t) ==
  /\ At(t, "idle") /\ ~ complete
  /\ Goto(t, "take")
  /\ UNCHANGED <<network, complete, descriptors, sock, connected, hand, wire, taken>>

\* A package is taken and transmit_force called with its datagram.
Take(t) ==
  /\ At(t, "take")
  /\ \E p \in Packages : /\ taken' = taken \cup {p}
                         /\ hand' = [hand EXCEPT ![t] = sendable(p, SenderOrder)]
  /\ Goto(t, Transmit(t))
  /\ UNCHANGED <<network, complete, descriptors, sock, connected, wire>>

TakeNothing(t) ==
  /\ At(t, "take")
  /\ Goto(t, "idle")
  /\ UNCHANGED <<network, complete, descriptors, sock, connected, hand, wire, taken>>

\* Mutant of OpenSocket: connected is set as soon as there is a socket.
OpenSocketConnected(t) ==
  /\ At(t, "open") /\ Free # {}
  /\ descriptors' = [d \in DOMAIN descriptors \cup {Min(Free)} |->
                       IF d = Min(Free) THEN "new" ELSE descriptors[d]]
  /\ sock' = [sock EXCEPT ![t] = Min(Free)]
  /\ connected' = [connected EXCEPT ![t] = TRUE]
  /\ Goto(t, "connect")
  /\ UNCHANGED <<network, complete, hand, wire, taken>>

\* open_connection gets a socket.  When no descriptor is left, it throws, and
\* transmit_force tries again.
OpenSocket(t) ==
  /\ At(t, "open") /\ Free # {}
  /\ descriptors' = [d \in DOMAIN descriptors \cup {Min(Free)} |->
                       IF d = Min(Free) THEN "new" ELSE descriptors[d]]
  /\ sock' = [sock EXCEPT ![t] = Min(Free)]
  /\ Goto(t, "connect")
  /\ UNCHANGED <<network, complete, connected, hand, wire, taken>>

Connect(t) ==
  /\ At(t, "connect") /\ network = "up"
  /\ descriptors' = [descriptors EXCEPT ![sock[t]] = "linked"]
  /\ connected' = [connected EXCEPT ![t] = TRUE]
  /\ Goto(t, "write")
  /\ UNCHANGED <<network, complete, sock, hand, wire, taken>>

\* Without a route connect() fails; with one setsockopt(), inet_aton() or connect()
\* may still do so.  open_connection throws and leaves the descriptor open, and
\* transmit_force begins again.
ConnectFails(t) ==
  /\ At(t, "connect")
  /\ Goto(t, Transmit(t))
  /\ UNCHANGED <<network, complete, descriptors, sock, connected, hand, wire, taken>>

\* The write that succeeds; the others are tried again on the same socket.
Write(t) ==
  /\ At(t, "write") /\ network = "up" /\ descriptors[sock[t]] = "linked"
  /\ wire' = wire \cup {hand[t]}
  /\ hand' = [hand EXCEPT ![t] = << >>]
  /\ Goto(t, "idle")
  /\ UNCHANGED <<network, complete, descriptors, sock, connected, taken>>

\* The thread's loop ends and the destructor of its socket closes the
\* descriptor; so does the listener's.
Finish(t) ==
  /\ At(t, "idle") \/ At(t, "listen")
  /\ complete
  /\ descriptors' = Restrict(descriptors, DOMAIN descriptors \ {sock[t]})
  /\ connected' = [u \in Transmitters |-> u # t /\ connected[u]]
  /\ Goto(t, "done")
  /\ UNCHANGED <<network, complete, sock, hand, wire, taken>>

-----------------------------------------------------------------------------
(* run_listener, as far as its socket goes *)

OpenListener ==
  /\ At("listener", "open") /\ Free # {}
  /\ descriptors' = [d \in DOMAIN descriptors \cup {Min(Free)} |->
                       IF d = Min(Free) THEN "new" ELSE descriptors[d]]
  /\ sock' = [sock EXCEPT !["listener"] = Min(Free)]
  /\ Goto("listener", "listen")
  /\ UNCHANGED <<network, complete, connected, hand, wire, taken>>

\* The constructor throws, without a descriptor or when the port is taken, and
\* nobody catches it.
OpenListenerFails ==
  /\ At("listener", "open")
  /\ Goto("listener", "ended")
  /\ UNCHANGED <<network, complete, descriptors, sock, connected, hand, wire, taken>>

\* A lookup comes, to be answered with force_send_to: like transmit_force it
\* tries again until the network takes the reply, but never opens a socket.
ReceiveLookup ==
  /\ At("listener", "listen") /\ ~ complete
  /\ Goto("listener", "reply")
  /\ UNCHANGED <<network, complete, descriptors, sock, connected, hand, wire, taken>>

SendReply ==
  /\ At("listener", "reply") /\ network = "up"
  /\ Goto("listener", "listen")
  /\ UNCHANGED <<network, complete, descriptors, sock, connected, hand, wire, taken>>

-----------------------------------------------------------------------------
NetworkChanges ==
  /\ Running
  /\ network' = IF network = "up" THEN "down" ELSE "up"
  /\ UNCHANGED <<complete, pc, descriptors, sock, connected, hand, wire, taken>>

EndInput ==
  /\ Running /\ ~ complete
  /\ complete' = TRUE
  /\ UNCHANGED <<network, pc, descriptors, sock, connected, hand, wire, taken>>

Init ==
  /\ network \in {"up", "down"} /\ complete = FALSE
  /\ pc = [t \in Threads |-> IF t = "listener" THEN "open" ELSE "idle"]
  /\ descriptors = << >>
  /\ sock = [t \in Threads |-> -1]
  /\ connected = [t \in Transmitters |-> FALSE]
  /\ hand = [t \in Transmitters |-> << >>]
  /\ wire = {} /\ taken = {}

TransmitStep(t) ==
  \/ Check(t) \/ Take(t) \/ TakeNothing(t)
  \/ OpenSocket(t) \/ Connect(t) \/ ConnectFails(t) \/ Write(t) \/ Finish(t)
ListenerStep ==
  OpenListener \/ OpenListenerFails \/ SendReply \/ Finish("listener")

Next ==
  \/ \E t \in Transmitters : TransmitStep(t)
  \/ ListenerStep \/ ReceiveLookup \/ NetworkChanges \/ EndInput

Spec == Init /\ [][Next]_vars

\* Every thread is scheduled; nothing is assumed of the input and the network.
FairSpec ==
  Spec /\ WF_vars(ListenerStep) /\ \A t \in Transmitters : WF_vars(TransmitStep(t))

-----------------------------------------------------------------------------
(* Properties *)

\* A receiver whose host has the sender's byte order parses from every datagram
\* a package that was sent, both numbers and the data, although the conversion
\* to network order does not happen (data_msg.hpp:18).
HeardWasSent ==
  SenderOrder = ReceiverOrder =>
    \A raw_msg \in wire : data_msg(raw_msg, ReceiverOrder) \in taken

\* Threads that use a descriptor.
Holds(t) ==
  \/ pc[t] \in {"connect", "write", "listen", "reply"}
  \/ t \in Transmitters /\ connected[t]

\* What TypeOK needs to be kept: a descriptor in use is open and has one user,
\* and a thread between two packages has none or is connected.
DescriptorsHeld ==
  /\ pc["listener"] \in {"open", "listen", "reply", "done", "ended"}
  /\ \A t \in Transmitters :
       /\ pc[t] \in {"idle", "take", "open", "connect", "write", "done"}
       /\ pc[t] \in {"idle", "take"} => connected[t] \/ sock[t] = -1
       /\ pc[t] \in {"open", "connect", "done"} => ~ connected[t]
       /\ pc[t] = "write" => connected[t]
  /\ \A t \in Threads : Holds(t) => sock[t] \in DOMAIN descriptors
  /\ \A t, u \in Threads : Holds(t) /\ Holds(u) /\ sock[t] = sock[u] => t = u

IsDatagram(raw_msg) == \E p \in taken : raw_msg = sendable(p, SenderOrder)

\* What HeardWasSent rests on: datagrams are made of packages taken.
DatagramsAreTaken ==
  /\ \A raw_msg \in wire : IsDatagram(raw_msg)
  /\ \A t \in Transmitters :
       pc[t] \in {"open", "connect", "write"} => IsDatagram(hand[t])

DataLinkInv == TypeOK /\ DescriptorsHeld /\ DatagramsAreTaken

\* The attempts that failed have left no descriptor for a thread to connect with.
Exhausted(t) == pc[t] = "open" /\ Free = {}

\* When the network is there for good in the end, a package that was taken goes
\* out: transmit_force outlasts every failure, until failed attempts to connect,
\* its own and the other thread's, have used up the descriptors.
SentUnlessExhausted ==
  <>[](network = "up") =>
    \A t \in Transmitters :
      pc[t] \in {"open", "connect", "write"} ~> pc[t] = "idle" \/ Exhausted(t) \/ ~ Running

\* Then also transmit()'s joins return after the end of the input: no thread is
\* held in transmit_force or force_send_to, unless it has no descriptor.
Joins ==
  <>[](network = "up") =>
    (complete ~> \/ \A t \in Threads : pc[t] = "done"
                 \/ \E t \in Transmitters : Exhausted(t)
                 \/ ~ Running)

-----------------------------------------------------------------------------
\* README.md:46, 47: both numbers of a datagram are in "big-endian byte order".
\* Violated on a little-endian host: the test in htonll is never true.
TravelsBigEndian ==
  \A raw_msg \in wire : \E p \in taken :
    raw_msg = InMemory(p.session_id, "big") \o InMemory(p.id, "big") \o p.data
=============================================================================
