-------------------------- MODULE UiManagerProofs ---------------------------
(***************************************************************************)
(* What the poll table of the telnet clients guarantees for every number   *)
(* of slots, every set of clients and every set of menus.                  *)
(*                                                                         *)
(* TypeOK is not inductive: a client that waits must not be stored already *)
(* or it would get a second slot, and a slot whose connection is closed    *)
(* must be empty before the next poll.  UiManagerInv says both.            *)
(***************************************************************************)
EXTENDS UiManager, Arithmetic, SequenceTheorems, TLAPS

-----------------------------------------------------------------------------
(* The operators of the model *)

\* A set of numbers that is not empty has its minimum among its members.
LEMMA MinIsLeast ==
  ASSUME NEW S, S \subseteq Nat, S # {}
  PROVE  Min(S) \in S /\ \A x \in S : Min(S) <= x
<1>1. \E x \in S : \A y \in S : x <= y
  BY LeastNumber
<1>2. QED
  BY <1>1 DEF Min

\* A write leaves a connection in some state; it opens none, and it brings
\* nobody back from where they have not come yet.
LEMMA WrittenStates ==
  ASSUME NEW state \in ConnStates
  PROVE  /\ Written(state) \subseteq ConnStates
         /\ "open" \in Written(state) => state = "open"
         /\ "away" \in Written(state) => state = "away"
         /\ \E after : after \in Written(state)
<1>1. Written(state) \subseteq ConnStates
  BY Zenon DEF Written, ConnStates
<1>2. "open" \in Written(state) => state = "open"
  BY Zenon DEF Written, ConnStates
<1>3. "away" \in Written(state) => state = "away"
  BY Zenon DEF Written, ConnStates
<1>4. \E after : after \in Written(state)
  BY Zenon DEF Written, ConnStates
<1>5. QED
  BY <1>1, <1>2, <1>3, <1>4

\* Three bytes or others make a key or none.
LEMMA ParsedUpdate ==
  ASSUME NEW bytes
  PROVE  parse_selection_update(bytes) \in {"UP", "DOWN", "none"}
  BY Zenon DEF parse_selection_update

\* Slots are numbered.
LEMMA SlotsAreNumbers == Slots \subseteq Nat
<1>1. MaxSlot \in Nat
  BY UiManagerAssumption
<1>2. QED
  BY <1>1 DEF Slots

\* Who is stored has a slot.
LEMMA StoredSlots ==
  /\ \A d : d \in Stored <=> d # Nobody /\ \E i \in Slots : table[i] = d
  /\ \A d : d \in Stored' <=> d # Nobody /\ \E i \in Slots : table'[i] = d
  BY DEF Stored

\* Only clients are stored, or wait.
LEMMA StoredAreClients ==
  ASSUME TypeOK
  PROVE  Stored \subseteq Clients /\ waiting \subseteq Clients
<1>1. table \in [Slots -> Clients \cup {Nobody}] /\ waiting \subseteq Clients
  BY DEF TypeOK
<1>2. ASSUME NEW d \in Stored
      PROVE  d \in Clients
  <2>1. PICK i \in Slots : table[i] = d
    BY StoredSlots
  <2>2. QED
    BY <1>1, <2>1, StoredSlots
<1>3. QED
  BY <1>1, <1>2

\* Only closed connections are taken from a table.
LEMMA WithoutClosedTable ==
  ASSUME NEW t \in [Slots -> Clients \cup {Nobody}], NEW connections \in [Clients -> ConnStates]
  PROVE  /\ WithoutClosed(t, connections) \in [Slots -> Clients \cup {Nobody}]
         /\ \A i \in Slots : WithoutClosed(t, connections)[i] # Nobody =>
              /\ WithoutClosed(t, connections)[i] = t[i]
              /\ connections[t[i]] # "closed"
         /\ \A i \in Slots : t[i] # Nobody /\ connections[t[i]] # "closed" =>
              WithoutClosed(t, connections)[i] = t[i]
  BY DEF WithoutClosed

-----------------------------------------------------------------------------
(* The steps *)

\* What clients do touches no slot, and who connects was not there.
LEMMA ClientKeeps ==
  ASSUME UiManagerInv, NEW c \in Clients, ClientStep(c)
  PROVE  UiManagerInv'
<1> USE DEF UiManagerInv
<1>1. CASE ConnectClient(c)
  <2>1. /\ conn[c] = "away" /\ waiting' = waiting \cup {c}
        /\ conn' = [conn EXCEPT ![c] = "open"]
        /\ UNCHANGED <<pc, table, ready, input, shown, active_menu, enqueued_msu>>
    BY <1>1 DEF ConnectClient
  <2>2. TypeOK'
    BY <2>1 DEF TypeOK, ConnStates
  <2>3. Stored' = Stored /\ c \notin Stored
    BY <2>1 DEF Stored
  <2>4. \A d \in Clients : conn'[d] = IF d = c THEN "open" ELSE conn[d]
    BY <2>1 DEF TypeOK
  <2>5. Stored \subseteq Clients /\ waiting \subseteq Clients
    BY StoredAreClients
  <2>6. QED
    BY <2>1, <2>2, <2>3, <2>4, <2>5 DEF StoredSeeMenu
<1>2. ASSUME NEW code \in KeyCodes, PressKey(c, code)
      PROVE  UiManagerInv'
  <2>1. /\ input' = [input EXCEPT ![c] = @ \o <<"ESC", "[", code>>]
        /\ UNCHANGED <<pc, conn, waiting, table, ready, shown, active_menu, enqueued_msu>>
    BY <1>2 DEF PressKey
  <2>2. "ESC" \in Bytes /\ "[" \in Bytes /\ code \in Bytes
    BY DEF Bytes
  <2>3. <<"ESC", "[", code>> \in Seq(Bytes)
    BY <2>2
  <2>4. TypeOK'
    <3>1. input[c] \in Seq(Bytes) /\ input \in [Clients -> Seq(Bytes)]
      BY DEF TypeOK
    <3>2. input[c] \o <<"ESC", "[", code>> \in Seq(Bytes)
      BY <2>3, <3>1
    <3>3. input' \in [Clients -> Seq(Bytes)]
      BY <2>1, <3>1, <3>2
    <3>4. QED
      BY <2>1, <3>3 DEF TypeOK
  <2>5. QED
    BY <2>1, <2>4 DEF StoredSeeMenu, Stored
<1>3. ASSUME NEW how \in {"left", "reset", "deaf"}, LeaveClient(c, how)
      PROVE  UiManagerInv'
  <2>1. /\ conn' = [conn EXCEPT ![c] = how]
        /\ UNCHANGED <<pc, waiting, table, ready, input, shown, active_menu, enqueued_msu>>
    BY <1>3 DEF LeaveClient
  <2>2. TypeOK'
    BY <2>1 DEF TypeOK, ConnStates
  <2>3. \A d \in Clients : conn'[d] = IF d = c THEN how ELSE conn[d]
    BY <2>1 DEF TypeOK
  <2>4. Stored \subseteq Clients /\ waiting \subseteq Clients /\ Stored' = Stored
    BY <2>1, StoredAreClients DEF Stored
  <2>5. QED
    BY <2>1, <2>2, <2>3, <2>4 DEF StoredSeeMenu
<1>4. QED
  BY <1>1, <1>2, <1>3 DEF ClientStep

\* A poll finds something only where somebody is.
LEMMA ReadableIsStored ==
  Readable \subseteq {i \in Slots : table[i] # Nobody}
  BY DEF Readable

\* A poll that finds nobody new, or an accept that fails.
LEMMA NoNewClientKeeps ==
  ASSUME UiManagerInv, pc \in {"poll for menu", "poll for update"},
         enqueued_msu' = "none", NoNewClient \/ AcceptFails
  PROVE  UiManagerInv'
<1>1. UNCHANGED <<conn, waiting, table, input, shown, active_menu>>
  BY DEF NoNewClient, AcceptFails
<1>2. TypeOK'
  BY <1>1, ReadableIsStored DEF UiManagerInv, TypeOK, NoNewClient, AcceptFails, AfterPoll
<1>3. QED
  BY <1>1, <1>2 DEF UiManagerInv, StoredSeeMenu, Stored

\* A client that is accepted and forgotten was not in a slot.
LEMMA LoseNewClientKeeps ==
  ASSUME UiManagerInv, pc \in {"poll for menu", "poll for update"},
         enqueued_msu' = "none", NEW c \in Clients, LoseNewClient(c)
  PROVE  UiManagerInv'
<1>1. /\ c \in waiting /\ waiting' = waiting \ {c}
      /\ conn' = [conn EXCEPT ![c] = "lost"] /\ input' = [input EXCEPT ![c] = << >>]
      /\ pc' = AfterPoll /\ ready' = Readable
      /\ UNCHANGED <<table, shown, active_menu>>
  BY DEF LoseNewClient
<1>2. /\ conn' \in [Clients -> ConnStates]
      /\ \A d \in Clients : conn'[d] = IF d = c THEN "lost" ELSE conn[d]
  BY <1>1 DEF UiManagerInv, TypeOK, ConnStates
<1>3. input' \in [Clients -> Seq(Bytes)]
  <2>1. input \in [Clients -> Seq(Bytes)]
    BY DEF UiManagerInv, TypeOK
  <2>2. << >> \in Seq(Bytes)
    BY EmptySeq
  <2>3. QED
    BY <1>1, <2>1, <2>2
<1>4. c \notin Stored /\ Stored' = Stored /\ Stored \subseteq Clients
  <2>1. Stored' = Stored
    BY <1>1 DEF Stored
  <2>2. QED
    BY <1>1, <2>1, StoredAreClients DEF UiManagerInv
<1>5. TypeOK'
  BY <1>1, <1>2, <1>3, ReadableIsStored DEF UiManagerInv, TypeOK, AfterPoll
<1>6. waiting \subseteq Clients
  BY DEF UiManagerInv, TypeOK
<1>7. QED
  BY <1>1, <1>2, <1>4, <1>5, <1>6 DEF UiManagerInv, StoredSeeMenu

\* A client that waits gets the one slot, the first free one, and the menu.
LEMMA StoreNewClientKeeps ==
  ASSUME UiManagerInv, pc \in {"poll for menu", "poll for update"},
         enqueued_msu' = "none", NEW c \in Clients, StoreNewClient(c)
  PROVE  UiManagerInv'
<1> DEFINE slot  == Min(FreeSlots)
           given == [i \in Slots |-> IF i \in SlotsFor(c) THEN c ELSE table[i]]
<1>1. slot \in Slots /\ table[slot] = Nobody
  <2>1. FreeSlots # {}
    BY DEF StoreNewClient
  <2>2. Slots \subseteq Nat
    BY SlotsAreNumbers
  <2>3. FreeSlots \subseteq Nat
    BY <2>2 DEF FreeSlots
  <2>4. QED
    BY <2>1, <2>3, MinIsLeast DEF FreeSlots
<1>2. /\ given \in [Slots -> Clients \cup {Nobody}]
      /\ given[slot] = c
      /\ \A i \in Slots : i # slot => given[i] = table[i]
  BY <1>1 DEF SlotsFor, UiManagerInv, TypeOK
<1>3. /\ conn' \in [Clients -> ConnStates]
      /\ \A d \in Clients : d # c => conn'[d] = conn[d]
      /\ conn'[c] = "open" => conn[c] = "open"
      /\ conn'[c] = "away" => conn[c] = "away"
  <2>1. PICK state \in Written(conn[c]) : conn' = [conn EXCEPT ![c] = state]
    BY DEF StoreNewClient
  <2>2. conn \in [Clients -> ConnStates] /\ conn[c] \in ConnStates
    BY DEF UiManagerInv, TypeOK
  <2>3. state \in ConnStates
    BY <2>1, <2>2, WrittenStates
  <2>4. conn'[c] = state
    BY <2>1, <2>2
  <2>5. QED
    BY <2>1, <2>2, <2>3, <2>4, WrittenStates
<1>4. table' = WithoutClosed(given, conn')
  BY DEF StoreNewClient
<1> HIDE DEF slot, given
<1>5. /\ table' \in [Slots -> Clients \cup {Nobody}]
      /\ \A i \in Slots : table'[i] # Nobody =>
           table'[i] = given[i] /\ conn'[given[i]] # "closed"
      /\ \A i \in Slots : given[i] # Nobody /\ conn'[given[i]] # "closed" =>
           table'[i] = given[i]
  BY <1>2, <1>3, <1>4, WithoutClosedTable
<1>6. c \in waiting /\ c \notin Stored /\ conn[c] # "away" /\ c # Nobody
  BY UiManagerAssumption DEF StoreNewClient, UiManagerInv
<1>7. \A i \in Slots : table[i] # Nobody =>
        /\ i # slot /\ table[i] # c /\ table[i] \in Clients
        /\ conn[table[i]] # "closed" /\ conn[table[i]] # "away"
        /\ conn'[table[i]] = conn[table[i]]
        /\ table'[i] = table[i]
  <2> SUFFICES ASSUME NEW i \in Slots, table[i] # Nobody
               PROVE  /\ i # slot /\ table[i] # c /\ table[i] \in Clients
                      /\ conn[table[i]] # "closed" /\ conn[table[i]] # "away"
                      /\ conn'[table[i]] = conn[table[i]]
                      /\ table'[i] = table[i]
    OBVIOUS
  <2>1. i # slot
    BY <1>1
  <2>2. table[i] \in Stored
    BY DEF Stored
  <2>3. table[i] \in Clients /\ table[i] # c
    BY <1>6, <2>2 DEF UiManagerInv, TypeOK
  <2>4. conn[table[i]] # "closed" /\ conn[table[i]] # "away"
    BY <2>2 DEF UiManagerInv
  <2>5. QED
    BY <1>2, <1>3, <1>5, <2>1, <2>3, <2>4
<1>8. Stored' \subseteq Stored \cup {c}
  <2>1. SUFFICES ASSUME NEW d \in Stored', d # c
                 PROVE  d \in Stored
    OBVIOUS
  <2>2. PICK i \in Slots : table'[i] = d /\ d # Nobody
    BY StoredSlots
  <2>3. given[i] = d
    BY <1>5, <2>2
  <2>4. table[i] = d
    BY <1>2, <2>1, <2>3
  <2>5. QED
    BY <2>2, <2>4, StoredSlots
<1>9. \A i, j \in Slots : table'[i] = table'[j] /\ table'[i] # Nobody => i = j
  <2>1. \A i \in Slots : table'[i] = c => i = slot
    BY <1>1, <1>2, <1>5, <1>6, <1>7
  <2>2. QED
    <3> SUFFICES ASSUME NEW i \in Slots, NEW j \in Slots,
                        table'[i] = table'[j], table'[i] # Nobody
                 PROVE  i = j
      OBVIOUS
    <3>1. CASE table'[i] = c
      BY <2>1, <3>1
    <3>2. CASE table'[i] # c
      <4>1. i # slot /\ j # slot
        BY <1>2, <1>5, <3>2
      <4>2. table[i] = table[j] /\ table[i] # Nobody
        BY <1>2, <1>5, <4>1
      <4>3. QED
        BY <4>2 DEF UiManagerInv, TypeOK
    <3>3. QED
      BY <3>1, <3>2
<1>10. ready' \subseteq {i \in Slots : table'[i] # Nobody}
  BY <1>7, ReadableIsStored DEF StoreNewClient
<1>11. shown' = [shown EXCEPT ![c] = active_menu] /\ active_menu' = active_menu
  BY DEF StoreNewClient
<1>12. TypeOK'
  <2>1. shown' \in [Clients -> Menus \cup {None}]
    BY <1>11 DEF UiManagerInv, TypeOK
  <2>2. pc' \in {"menu", "update", "ended"}
    BY DEF StoreNewClient, GotoAfterWrites, AfterPoll
  <2>3. QED
    BY <1>3, <1>5, <1>9, <1>10, <2>1, <2>2 DEF UiManagerInv, TypeOK, StoreNewClient
<1>13. StoredSeeMenu'
  <2>1. SUFFICES ASSUME NEW d \in Stored', conn'[d] = "open"
                 PROVE  shown'[d] = active_menu
    BY <1>11 DEF StoredSeeMenu
  <2>2. d \in Clients
    BY <1>5 DEF Stored
  <2>3. QED
    BY <1>3, <1>8, <1>11, <2>1, <2>2 DEF UiManagerInv, TypeOK, StoredSeeMenu
<1>14. waiting' = waiting \ {c}
  BY DEF StoreNewClient
<1>15. \A d \in Stored' : conn'[d] # "closed"
  <2>1. ASSUME NEW d \in Stored'
        PROVE  conn'[d] # "closed"
    <3>1. PICK i \in Slots : table'[i] = d /\ d # Nobody
      BY StoredSlots
    <3>2. QED
      BY <1>5, <3>1
  <2>2. QED
    BY <2>1
<1>16. waiting' \cap Stored' = {}
  BY <1>8, <1>14 DEF UiManagerInv
<1>17. \A d \in waiting' \cup Stored' : conn'[d] # "away"
  <2>1. \A d \in waiting' \cup Stored' : d \in waiting \cup Stored /\ d \in Clients
    BY <1>6, <1>8, <1>14, StoredAreClients DEF UiManagerInv
  <2>2. QED
    BY <1>3, <1>6, <2>1 DEF UiManagerInv
<1>18. QED
  BY <1>12, <1>13, <1>15, <1>16, <1>17 DEF UiManagerInv

\* The steps that write to clients or read from them and take the closed ones
\* from the table: who is left was there, and is not closed.
LEMMA ClosedLeaveTable ==
  ASSUME UiManagerInv, conn' \in [Clients -> ConnStates],
         table' = WithoutClosed(table, conn')
  PROVE  /\ table' \in [Slots -> Clients \cup {Nobody}]
         /\ \A i, j \in Slots : table'[i] = table'[j] /\ table'[i] # Nobody => i = j
         /\ Stored' \subseteq Stored
         /\ \A c \in Stored' : conn'[c] # "closed"
<1>1. table \in [Slots -> Clients \cup {Nobody}]
  BY DEF UiManagerInv, TypeOK
<1>2. /\ table' \in [Slots -> Clients \cup {Nobody}]
      /\ \A i \in Slots : table'[i] # Nobody =>
           table'[i] = table[i] /\ conn'[table[i]] # "closed"
  BY <1>1, WithoutClosedTable
<1>3. \A i, j \in Slots : table'[i] = table'[j] /\ table'[i] # Nobody => i = j
  BY <1>2 DEF UiManagerInv, TypeOK
<1>4. ASSUME NEW c \in Stored'
      PROVE  c \in Stored /\ conn'[c] # "closed"
  <2>1. PICK i \in Slots : table'[i] = c /\ c # Nobody
    BY StoredSlots
  <2>2. QED
    BY <1>2, <2>1, StoredSlots
<1>5. QED
  BY <1>2, <1>3, <1>4

\* The menu is not sent when it is the active one: nothing changes.
LEMMA SameMenuKeeps ==
  ASSUME UiManagerInv, SameMenu
  PROVE  UiManagerInv'
<1>1. /\ pc = "menu" /\ pc' = "poll for update" /\ ready' = {}
      /\ UNCHANGED <<conn, waiting, table, input, shown, active_menu, enqueued_msu>>
  BY DEF SameMenu
<1>2. TypeOK'
  BY <1>1 DEF UiManagerInv, TypeOK
<1>3. QED
  BY <1>1, <1>2 DEF UiManagerInv, StoredSeeMenu, Stored

\* The writes of send_menu go to clients in the table; when the last slot is
\* reached, to all of them.
LEMMA WrittenAreStored ==
  ASSUME NEW last \in Slots
  PROVE  WrittenUpTo(last) \subseteq Stored /\ WrittenUpTo(MaxSlot) = Stored
<1>1. WrittenUpTo(last) \subseteq Stored
  BY DEF WrittenUpTo, Audience
<1>2. WrittenUpTo(MaxSlot) = Stored
  BY StoredSlots DEF WrittenUpTo, Audience, Slots
<1>3. QED
  BY <1>1, <1>2

\* A new menu is sent to everyone in the table, or the handler has stopped.
LEMMA SendMenuKeeps ==
  ASSUME UiManagerInv, NEW menu \in Menus, SendMenu(menu)
  PROVE  UiManagerInv'
<1>1. PICK last \in Slots :
        /\ \A c \in Clients :
             conn'[c] \in IF c \in WrittenUpTo(last) THEN Written(conn[c]) ELSE {conn[c]}
        /\ last = MaxSlot \/ \E c \in WrittenUpTo(last) : conn'[c] \in Stopping
        /\ shown' = [c \in Clients |-> IF c \in WrittenUpTo(last) THEN menu ELSE shown[c]]
  BY DEF SendMenu
<1>2. /\ table' = WithoutClosed(table, conn') /\ ready' = {}
      /\ active_menu' = IF pc' = "ended" THEN active_menu ELSE menu
      /\ pc' = IF \E c \in Clients : conn'[c] \in Stopping THEN "ended" ELSE "poll for update"
      /\ UNCHANGED <<waiting, input, enqueued_msu>>
  BY DEF SendMenu, GotoAfterWrites
<1>3. \A c \in Clients : /\ conn'[c] \in ConnStates
                         /\ conn'[c] = "away" => conn[c] = "away"
  <2>1. \A c \in Clients : conn[c] \in ConnStates
    BY DEF UiManagerInv, TypeOK
  <2>2. QED
    BY <1>1, <2>1, WrittenStates
<1>4. conn' \in [Clients -> ConnStates]
  <2>1. \E S : conn' \in [Clients -> S]
    BY DEF SendMenu
  <2>2. QED
    BY <1>3, <2>1
<1>5. /\ table' \in [Slots -> Clients \cup {Nobody}]
      /\ \A i, j \in Slots : table'[i] = table'[j] /\ table'[i] # Nobody => i = j
      /\ Stored' \subseteq Stored
      /\ \A c \in Stored' : conn'[c] # "closed"
  BY <1>2, <1>4, ClosedLeaveTable
<1>6. TypeOK'
  <2>1. shown' \in [Clients -> Menus \cup {None}]
    BY <1>1 DEF UiManagerInv, TypeOK
  <2>2. pc' \in {"poll for update", "ended"} /\ active_menu' \in Menus
    BY <1>2 DEF UiManagerInv, TypeOK
  <2>3. QED
    BY <1>2, <1>4, <1>5, <2>1, <2>2 DEF UiManagerInv, TypeOK
<1>7. Stored \subseteq Clients /\ waiting \subseteq Clients
  BY StoredAreClients DEF UiManagerInv
<1>8. StoredSeeMenu'
  <2>1. SUFFICES ASSUME pc' # "ended", NEW c \in Stored'
                 PROVE  shown'[c] = active_menu'
    BY DEF StoredSeeMenu
  <2>2. last = MaxSlot
    BY <1>1, <1>2, <1>7, <2>1, WrittenAreStored
  <2>3. c \in WrittenUpTo(last) /\ c \in Clients
    BY <1>5, <1>7, <2>2, WrittenAreStored
  <2>4. QED
    BY <1>1, <1>2, <2>1, <2>3
<1>9. QED
  BY <1>2, <1>3, <1>5, <1>6, <1>7, <1>8 DEF UiManagerInv

\* What a read of five bytes leaves of a client's input.
LEMMA RestOfInput ==
  ASSUME TypeOK, NEW c \in Clients
  PROVE  SubSeq(input[c], ReadLength(c) + 1, Len(input[c])) \in Seq(Bytes)
<1>1. input[c] \in Seq(Bytes) /\ Len(input[c]) \in Nat
  <2>1. input[c] \in Seq(Bytes)
    BY DEF TypeOK
  <2>2. QED
    BY <2>1, LenProperties
<1>2. {5, Len(input[c])} \subseteq Nat /\ {5, Len(input[c])} # {}
  BY <1>1
<1>3. ReadLength(c) \in Nat
  BY <1>2, MinIsLeast DEF ReadLength
<1>4. QED
  BY <1>1, <1>3, SubSeqProperties

\* get_update reads from one client and gives up the slots of those before it
\* whose connections were reset.
LEMMA GetUpdateKeeps ==
  ASSUME UiManagerInv, GetUpdate
  PROVE  UiManagerInv'
<1> DEFINE heard == {table[i] : i \in FirstReadable}
<1>1. PICK gone :
        /\ conn' = [c \in Clients |-> IF c \in gone THEN "closed" ELSE conn[c]]
        /\ gone \subseteq Clients
        /\ gone \cap waiting = {}
  <2> DEFINE failed == {i \in ready : /\ conn[table[i]] = "reset" /\ ~ HasBytes(table[i])
                                      /\ \A j \in FirstReadable : i < j}
             closed == {table[i] : i \in failed}
  <2>1. conn' = [c \in Clients |-> IF c \in closed THEN "closed" ELSE conn[c]]
    BY DEF GetUpdate
  <2>2. \A i \in failed : i \in Slots /\ table[i] # Nobody
    BY DEF UiManagerInv, TypeOK
  <2> HIDE DEF failed
  <2>3. \A c \in closed : \E i \in Slots : table[i] = c /\ c # Nobody
    BY <2>2
  <2>4. closed \subseteq Stored
    BY <2>3, StoredSlots
  <2>5. closed \subseteq Clients /\ closed \cap waiting = {}
    BY <2>4, StoredAreClients DEF UiManagerInv
  <2>6. QED
    BY <2>1, <2>5
<1>2. /\ table' = WithoutClosed(table, conn')
      /\ input' = [c \in Clients |->
                     IF c \in heard THEN SubSeq(input[c], ReadLength(c) + 1, Len(input[c]))
                                    ELSE input[c]]
      /\ pc' = "poll for menu" /\ ready' = {}
      /\ UNCHANGED <<waiting, shown, active_menu>>
  BY DEF GetUpdate
<1>3. enqueued_msu' \in {"UP", "DOWN", "none"}
  <2>1. enqueued_msu' \in
          IF heard = {} THEN {"none"}
          ELSE {parse_selection_update(SubSeq(input[c], 1, ReadLength(c))) : c \in heard}
    BY DEF GetUpdate
  <2>2. QED
    BY <2>1, ParsedUpdate
<1> HIDE DEF heard
<1>4. conn' \in [Clients -> ConnStates]
  BY <1>1 DEF UiManagerInv, TypeOK, ConnStates
<1>5. input' \in [Clients -> Seq(Bytes)]
  <2>1. \A c \in Clients : input[c] \in Seq(Bytes)
    BY DEF UiManagerInv, TypeOK
  <2>2. \A c \in Clients : SubSeq(input[c], ReadLength(c) + 1, Len(input[c])) \in Seq(Bytes)
    BY RestOfInput DEF UiManagerInv
  <2>3. QED
    BY <1>2, <2>1, <2>2
<1>6. /\ table' \in [Slots -> Clients \cup {Nobody}]
      /\ \A i, j \in Slots : table'[i] = table'[j] /\ table'[i] # Nobody => i = j
      /\ Stored' \subseteq Stored
      /\ \A c \in Stored' : conn'[c] # "closed"
  BY <1>2, <1>4, ClosedLeaveTable
<1>7. TypeOK'
  BY <1>2, <1>3, <1>4, <1>5, <1>6 DEF UiManagerInv, TypeOK
<1>8. \A c \in Clients : conn'[c] # "closed" => conn'[c] = conn[c]
  BY <1>1
<1>9. Stored \subseteq Clients /\ waiting \subseteq Clients
  BY StoredAreClients DEF UiManagerInv
<1>10. StoredSeeMenu'
  <2>1. pc # "ended"
    BY DEF GetUpdate
  <2>2. QED
    BY <1>2, <1>6, <1>8, <1>9, <2>1 DEF UiManagerInv, StoredSeeMenu
<1>11. \A c \in waiting' \cup Stored' : conn'[c] # "away"
  BY <1>1, <1>2, <1>6, <1>9 DEF UiManagerInv
<1>12. QED
  BY <1>2, <1>6, <1>7, <1>10, <1>11 DEF UiManagerInv

-----------------------------------------------------------------------------
(* The theorems *)

\* The clients' and the handler's steps keep the table in order.
THEOREM UiManagerInvariant == Spec => []UiManagerInv
<1>1. Init => UiManagerInv
  <2> SUFFICES ASSUME Init PROVE UiManagerInv
    OBVIOUS
  <2>1. Stored = {}
    BY StoredSlots DEF Init
  <2>2. input \in [Clients -> Seq(Bytes)]
    <3>1. << >> \in Seq(Bytes)
      BY EmptySeq
    <3>2. QED
      BY <3>1 DEF Init
  <2>3. TypeOK
    BY <2>2, UiManagerAssumption DEF Init, TypeOK, ConnStates
  <2>4. QED
    BY <2>1, <2>3 DEF Init, UiManagerInv, StoredSeeMenu
<1>2. UiManagerInv /\ [Next]_vars => UiManagerInv'
  <2> SUFFICES ASSUME UiManagerInv, [Next]_vars PROVE UiManagerInv'
    OBVIOUS
  <2>1. CASE \E c \in Clients : ClientStep(c)
    BY <2>1, ClientKeeps
  <2>2. CASE CheckNewClients
    BY <2>2, NoNewClientKeeps, StoreNewClientKeeps, LoseNewClientKeeps DEF CheckNewClients
  <2>3. CASE SameMenu \/ GetUpdate \/ \E menu \in Menus : SendMenu(menu)
    BY <2>3, SameMenuKeeps, GetUpdateKeeps, SendMenuKeeps
  <2>4. CASE UNCHANGED vars
    <3>1. TypeOK'
      BY <2>4 DEF vars, UiManagerInv, TypeOK
    <3>2. Stored' = Stored
      BY <2>4 DEF vars, Stored
    <3>3. QED
      BY <2>4, <3>1, <3>2 DEF vars, UiManagerInv, StoredSeeMenu
  <2>5. QED
    BY <2>1, <2>2, <2>3, <2>4 DEF Next, UiHandlerStep
<1>3. QED
  BY <1>1, <1>2, PTL DEF Spec

\* No client has two slots, and poll's answers are about slots in use.
THEOREM UiManagerTypeCorrect == Spec => []TypeOK
<1>1. UiManagerInv => TypeOK
  BY DEF UiManagerInv
<1>2. QED
  BY <1>1, UiManagerInvariant, PTL

\* Everyone in the table who is connected was sent the menu that the next one
\* is compared with.
THEOREM StoredAlwaysSeeMenu == Spec => []StoredSeeMenu
<1>1. UiManagerInv => StoredSeeMenu
  BY DEF UiManagerInv
<1>2. QED
  BY <1>1, UiManagerInvariant, PTL
=============================================================================
