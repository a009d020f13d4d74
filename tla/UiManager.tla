----------------------------- MODULE UiManager ------------------------------
(***************************************************************************)
(* The telnet clients of the receiver (src/receiver/ui_manager.hpp): the   *)
(* poll table, the menu the clients were sent, and the keys they press.    *)
(* Only the thread ui_handler (receiver.hpp) calls the class: send_menu    *)
(* with a new or the old menu, then get_update, for ever.  Each is a poll  *)
(* (check_new_clients) and what comes after it, between which clients act. *)
(* Where menus come from is the subject of module StationMenu.             *)
(*                                                                         *)
(* A client is one connection, and conn what the receiver's kernel knows   *)
(* of it: "open", "left" when the client has closed it, "broken" when a    *)
(* write after that was answered with a reset, "reset" when it was reset   *)
(* while open, "deaf" when the client has stopped reading, "lost" when the *)
(* receiver has accepted it and forgotten the socket, "closed" when the    *)
(* receiver has closed it, "killing" when a write to it has ended the      *)
(* receiver and "blocking" when one never returns.                         *)
(***************************************************************************)
EXTENDS Integers, Sequences, FiniteSetsExt

CONSTANTS
  Clients,   \* connections that will be made
  MaxSlot,   \* clients the poll table has room for
  MaxInput,  \* bound: bytes that clients have sent and nobody has read
  KeyCodes,  \* third bytes of the keys that clients press
  Menus,     \* texts that parse_stations returns
  EmptyMenu, \* the one of no stations
  Nobody,    \* -1 in a slot
  None       \* no menu yet

ASSUME UiManagerAssumption ==
  /\ MaxSlot \in Nat \ {0} /\ MaxInput \in Nat
  /\ Nobody \notin Clients
  /\ EmptyMenu \in Menus /\ None \notin Menus

VARIABLES
  pc,           \* where ui_handler is, "ended" when it goes on no more
  conn,         \* state of each client's connection
  waiting,      \* clients that wait to be accepted
  table,        \* client_sockets from the second on: the client in each slot
  ready,        \* slots in which the last poll found POLLIN
  input,        \* bytes each client has sent that nobody has read
  shown,        \* the menu each client was sent last, or is being sent
  active_menu,
  enqueued_msu  \* what get_update returned, until the handler has used it

vars == <<pc, conn, waiting, table, ready, input, shown, active_menu, enqueued_msu>>

Slots == 1..MaxSlot
Stored == {table[i] : i \in Slots} \ {Nobody}

ConnStates == {"away", "open", "left", "broken", "reset", "deaf",
               "lost", "closed", "killing", "blocking"}

Bytes == {"ESC", "["} \cup KeyCodes

\* A client is in one slot at most, and poll finds nothing where nobody is.
TypeOK ==
  /\ pc \in {"poll for menu", "menu", "poll for update", "update", "ended"}
  /\ conn \in [Clients -> ConnStates]
  /\ waiting \subseteq Clients
  /\ table \in [Slots -> Clients \cup {Nobody}]
  /\ \A i, j \in Slots : table[i] = table[j] /\ table[i] # Nobody => i = j
  /\ ready \subseteq {i \in Slots : table[i] # Nobody}
  /\ input \in [Clients -> Seq(Bytes)]
  /\ shown \in [Clients -> Menus \cup {None}]
  /\ active_menu \in Menus
  /\ enqueued_msu \in {"UP", "DOWN", "none"}

-----------------------------------------------------------------------------
(* The clients *)

ConnectClient(c) ==
  /\ conn[c] = "away"
  /\ conn' = [conn EXCEPT ![c] = "open"]
  /\ waiting' = waiting \cup {c}
  /\ UNCHANGED <<pc, table, ready, input, shown, active_menu, enqueued_msu>>

\* Bytes that nobody has read.
Unread == MapThenSumSet(LAMBDA c : Len(input[c]), Clients)

\* An arrow key is three bytes that arrive together.
PressKey(c, code) ==
  /\ conn[c] \in {"open", "deaf"}
  /\ Unread + 3 <= MaxInput
  /\ input' = [input EXCEPT ![c] = @ \o <<"ESC", "[", code>>]
  /\ UNCHANGED <<pc, conn, waiting, table, ready, shown, active_menu, enqueued_msu>>

\* The client closes the connection, it is reset, or the client reads no more.
LeaveClient(c, how) ==
  /\ conn[c] = "open"
  /\ conn' = [conn EXCEPT ![c] = how]
  /\ UNCHANGED <<pc, waiting, table, ready, input, shown, active_menu, enqueued_msu>>

ClientStep(c) ==
  \/ ConnectClient(c)
  \/ \E code \in KeyCodes : PressKey(c, code)
  \/ \E how \in {"left", "reset", "deaf"} : LeaveClient(c, how)

-----------------------------------------------------------------------------
(* Reading and writing *)

\* What the writes of send_string make of a connection.  A client that has left
\* answers the first one with a reset, which comes before the next write or
\* after it.  A write to a broken connection raises SIGPIPE, which the receiver
\* leaves to its default; any other error is the exception after which the
\* connection is closed and its slot given up.  A write to a client that does
\* not read waits, once the buffers on the way are full.
Written(state) ==
  CASE state = "left"   -> {"broken", "killing"}
    [] state = "broken" -> {"killing"}
    [] state = "reset"  -> {"closed"}
    [] state = "deaf"   -> {"deaf", "blocking"}
    [] OTHER            -> {state}

HasBytes(c) == input[c] # << >>

\* Slots in which poll finds something to read: bytes, an end or an error.
Readable == {i \in Slots : /\ table[i] # Nobody
                           /\ HasBytes(table[i]) \/ conn[table[i]] \notin {"open", "deaf"}}

FreeSlots == {i \in Slots : table[i] = Nobody}

\* The table without the clients whose connections were closed.
WithoutClosed(t, connections) ==
  [i \in Slots |-> IF t[i] # Nobody /\ connections[t[i]] = "closed" THEN Nobody ELSE t[i]]

\* A write that ends the process, or never returns.
Stopping == {"killing", "blocking"}

\* ui_handler goes on to a step unless a write has stopped it.
GotoAfterWrites(step) ==
  pc' = IF \E c \in Clients : conn'[c] \in Stopping THEN "ended" ELSE step

-----------------------------------------------------------------------------
(* check_new_clients *)

\* Where the code goes on after a poll.
AfterPoll == IF pc = "poll for menu" THEN "menu" ELSE "update"

NoNewClient ==
  /\ waiting = {}
  /\ pc' = AfterPoll
  /\ ready' = Readable
  /\ UNCHANGED <<conn, waiting, table, input, shown, active_menu>>

\* Mutant of SlotsFor: without the break every free slot is taken.
SlotsForAll(c) == FreeSlots

\* The new client gets the first free slot.
SlotsFor(c) == {Min(FreeSlots)}

StoreNewClient(c) ==
  /\ c \in waiting /\ FreeSlots # {}
  /\ waiting' = waiting \ {c}
  /\ ready' = Readable
  /\ \E state \in Written(conn[c]) : conn' = [conn EXCEPT ![c] = state]
  /\ table' = WithoutClosed([i \in Slots |-> IF i \in SlotsFor(c) THEN c ELSE table[i]], conn')
  /\ shown' = [shown EXCEPT ![c] = active_menu]
  /\ GotoAfterWrites(AfterPoll)
  /\ UNCHANGED <<input, active_menu>>

\* Without a free slot nobody keeps the accepted socket, or reads from it.
LoseNewClient(c) ==
  /\ c \in waiting /\ FreeSlots = {}
  /\ waiting' = waiting \ {c}
  /\ conn' = [conn EXCEPT ![c] = "lost"]
  /\ input' = [input EXCEPT ![c] = << >>]
  /\ pc' = AfterPoll
  /\ ready' = Readable
  /\ UNCHANGED <<table, shown, active_menu>>

\* accept() may fail, for want of descriptors or because the client has gone;
\* nobody catches the exception.
AcceptFails ==
  /\ waiting # {}
  /\ pc' = "ended"
  /\ UNCHANGED <<conn, waiting, table, ready, input, shown, active_menu>>

CheckNewClients ==
  /\ pc \in {"poll for menu", "poll for update"}
  /\ enqueued_msu' = "none"
  /\ \/ NoNewClient \/ AcceptFails
     \/ \E c \in Clients : StoreNewClient(c) \/ LoseNewClient(c)

-----------------------------------------------------------------------------
(* send_menu and get_update after their polls *)

\* Mutant of Audience: only clients that have sent something get the new menu.
AudienceThatTyped == {table[i] : i \in ready}

\* The clients that get a new menu.
Audience == Stored

SameMenu ==
  /\ pc = "menu"
  /\ pc' = "poll for update"
  /\ ready' = {}
  /\ UNCHANGED <<conn, waiting, table, input, shown, active_menu, enqueued_msu>>

\* The clients written to when the loop gets as far as slot `last`.
WrittenUpTo(last) == {table[i] : i \in 1..last} \cap Audience

\* The writes go from slot to slot, up to the first that stops the handler; the
\* menu becomes the active one only when all of them have returned.
SendMenu(new_menu) ==
  /\ pc = "menu" /\ new_menu # active_menu
  /\ conn' \in [Clients -> UNION {Written(conn[c]) : c \in Clients}]
  /\ \E last \in Slots :
       /\ \A c \in Clients :
            conn'[c] \in IF c \in WrittenUpTo(last) THEN Written(conn[c]) ELSE {conn[c]}
       /\ \A c \in WrittenUpTo(last - 1) : conn'[c] \notin Stopping
       /\ last = MaxSlot \/ \E c \in WrittenUpTo(last) : conn'[c] \in Stopping
       /\ shown' = [c \in Clients |-> IF c \in WrittenUpTo(last) THEN new_menu ELSE shown[c]]
  /\ table' = WithoutClosed(table, conn')
  /\ ready' = {}
  /\ GotoAfterWrites("poll for update")
  /\ active_menu' = IF pc' = "ended" THEN active_menu ELSE new_menu
  /\ UNCHANGED <<waiting, input, enqueued_msu>>

\* parse_selection_update: three bytes of which the last one tells the key.
parse_selection_update(bytes) ==
  CASE bytes = <<"ESC", "[", "B">> -> "UP"
    [] bytes = <<"ESC", "[", "A">> -> "DOWN"
    [] OTHER                       -> "none"

\* Bytes of one read: the buffer has five.
ReadLength(c) == Min({5, Len(input[c])})

\* Mutant of FirstReadable: the end of a stream ends the search.
FirstReadableOrEnd ==
  IF ready = {} \/ ~ HasBytes(table[Min(ready)]) THEN {} ELSE {Min(ready)}

\* The slot with bytes that get_update reads.
FirstReadable ==
  LET withBytes == {i \in ready : HasBytes(table[i])}
  IN  IF withBytes = {} THEN {} ELSE {Min(withBytes)}

\* Slots before it whose read fails are given up, and those whose clients have
\* left are passed over: the end of a stream frees no slot.
GetUpdate ==
  LET found  == FirstReadable
      failed == {i \in ready : /\ conn[table[i]] = "reset" /\ ~ HasBytes(table[i])
                               /\ \A j \in found : i < j}
      gone   == {table[i] : i \in failed}
      heard  == {table[i] : i \in found}
  IN  /\ pc = "update"
      /\ pc' = "poll for menu"
      /\ conn' = [c \in Clients |-> IF c \in gone THEN "closed" ELSE conn[c]]
      /\ table' = WithoutClosed(table, conn')
      /\ input' = [c \in Clients |->
                     IF c \in heard THEN SubSeq(input[c], ReadLength(c) + 1, Len(input[c]))
                                    ELSE input[c]]
      /\ enqueued_msu' \in
           IF heard = {} THEN {"none"}
           ELSE {parse_selection_update(SubSeq(input[c], 1, ReadLength(c))) : c \in heard}
      /\ ready' = {}
      /\ UNCHANGED <<waiting, shown, active_menu>>

UiHandlerStep ==
  CheckNewClients \/ SameMenu \/ (\E menu \in Menus : SendMenu(menu)) \/ GetUpdate

-----------------------------------------------------------------------------
\* The constructor makes a menu without stations; the first call is send_menu.
Init ==
  /\ pc = "poll for menu"
  /\ conn = [c \in Clients |-> "away"]
  /\ waiting = {}
  /\ table = [i \in Slots |-> Nobody]
  /\ ready = {}
  /\ input = [c \in Clients |-> << >>]
  /\ shown = [c \in Clients |-> None]
  /\ active_menu = EmptyMenu
  /\ enqueued_msu = "none"

\* Once the handler has stopped, nothing that clients do matters.
Next == (pc # "ended" /\ \E c \in Clients : ClientStep(c)) \/ UiHandlerStep

Spec == Init /\ [][Next]_vars

\* Polls time out, and writes return unless the client does not read.  A failed
\* accept is one of the handler's steps, so nothing is promised against it.
FairSpec == Spec /\ WF_vars(UiHandlerStep)

-----------------------------------------------------------------------------
(* Properties *)

\* Everyone in the table sees the menu that the next one is compared with: a
\* menu that is not sent, because it is the active one, was sent to all of them,
\* to those as well that came while it was being made.
StoredSeeMenu ==
  pc # "ended" => \A c \in Stored : conn[c] = "open" => shown[c] = active_menu

\* What TypeOK and StoredSeeMenu need to be kept by every step: nobody is stored
\* twice or before it came, and a slot is given up when its connection is closed.
UiManagerInv ==
  /\ TypeOK
  /\ waiting \cap Stored = {}
  /\ \A c \in waiting \cup Stored : conn[c] # "away"
  /\ \A c \in Stored : conn[c] # "closed"
  /\ StoredSeeMenu

Typed(i) == table[i] # Nobody /\ HasBytes(table[i])

\* What the client of a slot has typed is read in the end, unless clients in
\* lower slots type as well, whose bytes are always read first, or the handler
\* was stopped by a write or an accept.  Clients that have left keep their slots and are
\* polled as readable for ever, but hold up nobody.
KeyIsTaken ==
  \A i \in Slots :
    Typed(i) ~> \/ ~ Typed(i)
                \/ \E j \in 1..(i - 1) : Typed(j)
                \/ pc = "ended"

-----------------------------------------------------------------------------
(* What the documentation says and the code does not do *)

\* README.md:53, a telnet client "receives list of station (with updates)", and
\* README.md:56, each thread has one blocking operation "and others are timed
\* out": a client that reads no more keeps a menu from nobody else.
ReadersGetUpdates ==
  \A c, d \in Stored : conn[c] = "blocking" /\ conn[d] = "open" => shown[d] = shown[c]

\* README.md:53, "After connecting to receivers' ui port, telnet client receives
\* list of station": a client is turned away without one only when every slot
\* has a client that is still connected.
TurnedAwayOnlyWhenFull ==
  [][\A c \in Clients : conn'[c] = "lost" /\ conn[c] # "lost" =>
       \A d \in Stored : conn[d] \in {"open", "deaf"}]_vars
=============================================================================
