------------------------------- MODULE Buffer -------------------------------
(***************************************************************************)
(* The receiver's playback buffer (src/receiver/buffer.hpp) as its four    *)
(* public calls act on it one at a time: write_get_missed, try_read,       *)
(* has_space_for and reset.  This is the contract of the class, what every *)
(* caller may count on when no two calls overlap.  The statement           *)
(* `std::scoped_lock{mut};` with which each call opens locks a temporary   *)
(* and unlocks it at the semicolon, so the program does not enforce that   *)
(* calls do not overlap; the module says nothing of overlapping calls.     *)
(*                                                                         *)
(* Two deques run in parallel: msg_ids, the first-byte numbers of a window *)
(* of packages, and msg_vals, the packages or std::nullopt for a package   *)
(* that has not come.  A package is represented by the id of the message   *)
(* it came with, so that a package in the wrong slot is visible.           *)
(***************************************************************************)
EXTENDS Integers, Sequences

CONSTANTS
  MaxSize,   \* max_size, the capacity in bytes (option -b)
  Messages,  \* the data messages that may arrive: first byte number and length
  None       \* std::nullopt in a slot of msg_vals

ASSUME BufferAssumption ==
  /\ MaxSize \in Nat
  /\ Messages \subseteq [id : Nat, size : Nat \ {0}]
  /\ None \notin Nat

VARIABLES
  state,     \* buffer_state
  session,   \* byte_zero, max_msg_id, package_size and max_elements
  msg_ids,   \* ids of the window
  msg_vals,  \* packages of the window, None where nothing has come yet
  result     \* what the last call returned or threw, or that it crashed

vars == <<state, session, msg_ids, msg_vals, result>>

Calls == {"none", "write", "thrown", "read", "null", "space", "reset", "crashed"}
Result(call, ids) == [call |-> call, ids |-> ids]

\* An index past the end of a deque may end the process.
Alive == result.call # "crashed"

TypeOK ==
  /\ state \in {"NO_SESSION", "WAITING", "READABLE"}
  /\ session \in [byte_zero : Nat, max_msg_id : Nat,
                  package_size : Nat, max_elements : Nat]
  /\ msg_ids \in Seq(Nat)
  /\ msg_vals \in Seq(Nat \cup {None})
  /\ result \in [call : Calls, ids : SUBSET Nat]

\* The byte numbers a window can span: up to the newest message's.
Ids == UNION {0..m.id : m \in Messages}

Oldest == msg_ids[1]
Newest == msg_ids[Len(msg_ids)]
Larger(a, b)  == IF a > b THEN a ELSE b
Smaller(a, b) == IF a < b THEN a ELSE b

-----------------------------------------------------------------------------
(* write_get_missed *)

\* The session parameters a write works with: those of the running session,
\* or the ones its message opens a session with.
SessionOf(m) ==
  IF state = "NO_SESSION"
    THEN [byte_zero |-> m.id, max_msg_id |-> m.id,
          package_size |-> m.size, max_elements |-> MaxSize \div m.size]
    ELSE session

\* The session is readable from three quarters of the capacity on.
StateAfter(m, s) ==
  IF m.id >= s.byte_zero + (s.max_elements * s.package_size * 3) \div 4
    THEN "READABLE"
    ELSE IF state = "NO_SESSION" THEN "WAITING" ELSE state

\* Mutant of GapIds: `<=` in the loop that reserves slots.
GapIdsInclusive(last, id, step) ==
  [k \in 1..((id - last) \div step) |-> last + k * step]

\* Reserved slots: every package strictly between the newest and the message.
GapIds(last, id, step) ==
  [k \in 1..((id - last - 1) \div step) |-> last + k * step]

\* Mutant of Excess: a slot more than max_elements.
ExcessOneMore(n, max) == IF max > 0 /\ n > max + 1 THEN n - (max + 1) ELSE 0

\* How many of n packages are popped off the front to make room.  The pop is
\* guarded by size == max_elements, which a window of one or more packages
\* never meets when max_elements is 0.
Excess(n, max) == IF max > 0 /\ n > max THEN n - max ELSE 0

\* Mutant of IsNewest: `!=` where the code has `>`.
IsNewestWhenDifferent(m) == msg_ids # <<>> => m.id # Newest

\* The message is newer than the whole window, or the window is empty.
IsNewest(m) == msg_ids # <<>> => m.id > Newest

\* A sequence without its first n elements.
Without(seq, n) == SubSeq(seq, n + 1, Len(seq))

\* The values of reserved slots: nothing has come for them yet.
NoValues(ids) == [i \in 1..Len(ids) |-> None]

\* Mutant of SaveNewMessage: reserving a slot pops the front id but not the value.
SaveNewMessageValueKept(m, s) ==
  LET missed == IF msg_ids = <<>> THEN <<>>
                                  ELSE GapIds(Newest, m.id, s.package_size)
      evicted == Excess(Len(msg_ids) + Len(missed) + 1, s.max_elements)
  IN  /\ IsNewest(m)
      /\ msg_ids'  = Without(msg_ids \o missed \o <<m.id>>, evicted)
      /\ msg_vals' = msg_vals \o NoValues(missed) \o <<m.id>>

SaveNewMessage(m, s) ==
  LET missed == IF msg_ids = <<>> THEN <<>>
                                  ELSE GapIds(Newest, m.id, s.package_size)
      evicted == Excess(Len(msg_ids) + Len(missed) + 1, s.max_elements)
  IN  /\ IsNewest(m)
      /\ msg_ids'  = Without(msg_ids  \o missed           \o <<m.id>>, evicted)
      /\ msg_vals' = Without(msg_vals \o NoValues(missed) \o <<m.id>>, evicted)

\* Mutant of SlotOf: the position is counted from the start of the session.
SlotSinceSessionStart(m, s) == ((m.id - s.byte_zero) \div s.package_size) + 1

\* msg_pos of save_missed_message, counted from 1.
SlotOf(m, s) == ((m.id - Oldest) \div s.package_size) + 1

SaveMissedMessage(m, s) ==
  /\ ~ IsNewest(m)
  /\ Oldest <= m.id
  /\ msg_vals' = [msg_vals EXCEPT ![SlotOf(m, s)] = m.id]
  /\ UNCHANGED msg_ids

IgnoreOldMessage(m) ==
  /\ ~ IsNewest(m)
  /\ m.id < Oldest
  /\ UNCHANGED <<msg_ids, msg_vals>>

\* Mutant of ScanFrom: the scan is not cut to the window.
ScanFromLastScanned(s, oldest) == s.max_msg_id + s.package_size

\* The ids the loop at the end of the call walks over.
ScanFrom(s, oldest)   == Larger(s.max_msg_id + s.package_size, oldest)
ScanUntil(m, newest)  == Smaller(m.id, newest)
Scanned(m, s, ids) ==
  LET from == ScanFrom(s, ids[1])
  IN  {id \in from..(ScanUntil(m, ids[Len(ids)]) - 1) :
         (id - from) % s.package_size = 0}

\* The loop tests msg_vals[id]: the deque at position id, not the slot of id.
\* Inside the deque the test reads that position; past its end it reads
\* whatever lies there (either answer) or ends the process.
IsIndex(id, vals)      == id < Len(vals)
ReportedFor(ids, vals) == {id \in ids : IsIndex(id, vals) /\ vals[id + 1] = None}
OutOfRange(ids, vals)  == {id \in ids : ~ IsIndex(id, vals)}

ReportMissed(m, s) ==
  LET scanned == Scanned(m, s, msg_ids')
      wild    == OutOfRange(scanned, msg_vals')
  IN  \/ \E guessed \in SUBSET wild :
           /\ result' = Result("write", ReportedFor(scanned, msg_vals') \cup guessed)
           /\ session' = [s EXCEPT !.max_msg_id = m.id]
      \/ /\ wild # {}
         /\ result' = Result("crashed", {})
         /\ session' = s

\* buffer_access_exception: the id is no multiple of the package size.
RefuseMessage(m, s) ==
  /\ m.id % s.package_size # 0
  /\ result' = Result("thrown", {})
  /\ session' = s
  /\ UNCHANGED <<msg_ids, msg_vals>>

WriteGetMissed(m) ==
  LET s == SessionOf(m)
  IN  /\ Alive
      /\ state' = StateAfter(m, s)
      /\ \/ RefuseMessage(m, s)
         \/ /\ m.id % s.package_size = 0
            /\ SaveNewMessage(m, s) \/ SaveMissedMessage(m, s) \/ IgnoreOldMessage(m)
            /\ ReportMissed(m, s)

-----------------------------------------------------------------------------
(* try_read, has_space_for, reset *)

\* Mutant of FrontIsPresent: no test of has_value().
FrontIsThere == msg_vals # <<>>

FrontIsPresent == msg_vals # <<>> /\ Head(msg_vals) # None

TryReadNotReadable ==
  /\ Alive /\ state # "READABLE"
  /\ result' = Result("null", {})
  /\ UNCHANGED <<state, session, msg_ids, msg_vals>>

TryReadThrows ==
  /\ Alive /\ state = "READABLE" /\ ~ FrontIsPresent
  /\ result' = Result("thrown", {})
  /\ UNCHANGED <<state, session, msg_ids, msg_vals>>

\* Mutant of Popped: pop_back instead of pop_front.
PoppedBack(deque) == SubSeq(deque, 1, Len(deque) - 1)

\* A deque without the element try_read pops off its front.
Popped(deque) == Tail(deque)

TryReadPackage ==
  /\ Alive /\ state = "READABLE" /\ FrontIsPresent
  /\ result' = Result("read", {Head(msg_vals)})
  /\ msg_vals' = Popped(msg_vals)
  /\ msg_ids' = Popped(msg_ids)
  /\ UNCHANGED <<state, session>>

\* has_space_for compares with front() and back() before it knows that the
\* deque has any: on an empty deque the answer of a running session is open,
\* and the access may end the process.
HasSpaceFor(id) ==
  /\ Alive
  /\ \/ \E answer \in BOOLEAN :
          /\ IF msg_ids = <<>>
               THEN answer => state # "NO_SESSION"
               ELSE answer = (state # "NO_SESSION" /\ Oldest <= id /\ id <= Newest)
          /\ result' = Result("space", IF answer THEN {id} ELSE {})
     \/ /\ msg_ids = <<>>
        /\ result' = Result("crashed", {})
  /\ UNCHANGED <<state, session, msg_ids, msg_vals>>

Reset ==
  /\ Alive
  /\ state' = "NO_SESSION"
  /\ msg_ids' = <<>>
  /\ msg_vals' = <<>>
  /\ result' = Result("reset", {})
  /\ UNCHANGED session

-----------------------------------------------------------------------------
\* package_size and max_elements are uninitialised until the first write sets
\* them, and nothing reads them before; 0 stands for the unset value.
Init ==
  /\ state = "NO_SESSION"
  /\ session = [byte_zero |-> 0, max_msg_id |-> 0,
                package_size |-> 0, max_elements |-> 0]
  /\ msg_ids = <<>>
  /\ msg_vals = <<>>
  /\ result = Result("none", {})

Next ==
  \/ \E m \in Messages : WriteGetMissed(m)
  \/ TryReadNotReadable
  \/ TryReadThrows
  \/ TryReadPackage
  \/ \E id \in Ids : HasSpaceFor(id)
  \/ Reset

Spec == Init /\ [][Next]_vars

-----------------------------------------------------------------------------
(* Properties of non-overlapping calls *)

\* The two deques stay in step and name consecutive packages: wherever a
\* message lands, however large the gap before it and however many packages
\* were evicted or read, slot i + 1 holds the package after slot i.
WindowConsecutive ==
  /\ Len(msg_vals) = Len(msg_ids)
  /\ \A i \in 1..(Len(msg_ids) - 1) :
       msg_ids[i + 1] = msg_ids[i] + session.package_size

\* A slot never holds a package other than its own: the position computed by
\* save_missed_message agrees with the ids of the window.
SlotsHoldTheirOwn ==
  \A i \in 1..Len(msg_vals) : msg_vals[i] \in {None, msg_ids[i]}

\* The newest slot was opened by a message that came: reserved slots are only
\* ever followed by a present package.
NewestPresent == msg_vals # <<>> => msg_vals[Len(msg_vals)] # None

\* A buffer that has room for at least one package never holds more than
\* max_size bytes of slots.
FitsBuffer ==
  session.max_elements > 0 => Len(msg_ids) * session.package_size <= MaxSize

\* Every id a write reports as missed has a slot in the window, so a
\* retransmission that arrives at once can be saved.
MissedHaveRoom ==
  result.call = "write" =>
    \A id \in result.ids : \E i \in 1..Len(msg_ids) : msg_ids[i] = id

\* How the window moves, whatever is written late, refused or read: while it has
\* packages neither end moves back; it is emptied only by a reset or by the read
\* of its last package, never by evictions; and an empty one opens again with
\* exactly the message that came.  How old that message may be is another
\* question: see LateIsIgnored.
WindowMoves ==
  [][/\ msg_ids # <<>> /\ msg_ids' # <<>> => Oldest' >= Oldest /\ Newest' >= Newest
     /\ msg_ids # <<>> /\ msg_ids' = <<>> =>
          result'.call = "reset" \/ (result'.call = "read" /\ Len(msg_ids) = 1)
     /\ msg_ids = <<>> /\ msg_ids' # <<>> => Len(msg_ids') = 1]_vars

\* A package that has come stays until it leaves through the front: no write
\* empties a slot that is still in the window.
PresentStays ==
  [][\A i \in 1..Len(msg_vals) :
       msg_vals[i] # None /\ msg_ids' # <<>> /\ msg_ids[i] >= Oldest'
         => \E j \in 1..Len(msg_ids') :
              msg_ids'[j] = msg_ids[i] /\ msg_vals'[j] # None]_vars

-----------------------------------------------------------------------------
(* The inductive invariant behind the properties above *)

\* Two parallel deques that hold a window of packages of `step` bytes: ids in
\* arithmetic progression, aligned, each slot empty or with its own package,
\* and the newest slot filled.
IsWindow(ids, vals, step) ==
  /\ Len(vals) = Len(ids)
  /\ \A i \in 1..Len(ids) :
       /\ ids[i] % step = 0
       /\ ids[i] = ids[1] + (i - 1) * step
       /\ vals[i] \in {None, ids[i]}
  /\ ids # <<>> => vals[Len(vals)] # None

\* A running session has the parameters its first message gave it, keeps its
\* window within them, and the newest id that was scanned for gaps is aligned
\* unless the window has been empty since the session opened.
BufferInv ==
  /\ TypeOK
  /\ MissedHaveRoom
  /\ IF state = "NO_SESSION"
       THEN msg_ids = <<>> /\ msg_vals = <<>>
       ELSE /\ session.package_size > 0
            /\ session.max_elements = MaxSize \div session.package_size
            /\ IsWindow(msg_ids, msg_vals, session.package_size)
            /\ session.max_elements > 0 => Len(msg_ids) <= session.max_elements
            /\ msg_ids # <<>> /\ Alive => session.max_msg_id % session.package_size = 0

-----------------------------------------------------------------------------
(* What the comments and the documentation say and the code does not do *)

\* buffer.hpp:106: a write returns the "ids that were missed between last saved
\* message and this one": the slots between the two that hold nothing.
ReportsMissedIds ==
  [][result'.call = "write" =>
       /\ Alive'
       /\ result'.ids =
            {msg_ids'[i] : i \in {j \in 1..Len(msg_ids') :
               /\ state # "NO_SESSION"
               /\ session.max_msg_id < msg_ids'[j]
               /\ msg_ids'[j] < session'.max_msg_id
               /\ msg_vals'[j] = None}}]_vars

\* buffer.hpp:104, a "message is so old that it will be ignored" when newer ones
\* were saved before it: README.md:50, the "receiver ignores bytes that are too
\* old to be inserted into its buffer".  In a running session a message that is
\* no newer than the last one written does not open the window again.
LateIsIgnored ==
  [][state # "NO_SESSION" /\ msg_ids = <<>> /\ msg_ids' # <<>>
       => Newest' > session.max_msg_id]_vars

\* README.md:22, -b is the "size of buffer": whatever the packages of a station,
\* the window holds no more than max_size bytes, or one package.
BoundedBySize ==
  Len(msg_ids) > 1 => Len(msg_ids) * session.package_size <= MaxSize

=============================================================================
