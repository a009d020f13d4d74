------------------------- MODULE StationMenuProofs --------------------------
(***************************************************************************)
(* What the station set guarantees for every number of names, every order  *)
(* of them and every time out, in every interleaving of the replies with   *)
(* the calls of ui_handler and rexmit_sender.                              *)
(***************************************************************************)
EXTENDS StationMenu, Arithmetic, SequenceTheorems, FiniteSetTheorems, TLAPS

-----------------------------------------------------------------------------
(* The order of the names *)

\* A name has one place in the order.
LEMMA RankOfName ==
  ASSUME NEW name \in StationNames
  PROVE  /\ Rank(name) \in 1..Len(NameOrder) /\ Rank(name) \in Nat
         /\ NameOrder[Rank(name)] = name
<1>1. /\ DOMAIN NameOrder = 1..Len(NameOrder) /\ Len(NameOrder) \in Nat
  BY StationSetAssumption, LenProperties
<1>2. \E i \in DOMAIN NameOrder : NameOrder[i] = name
  BY DEF StationNames
<1>3. Rank(name) \in DOMAIN NameOrder /\ NameOrder[Rank(name)] = name
  BY <1>2 DEF Rank
<1>4. QED
  BY <1>1, <1>3

\* begin() is one of the stations, when there are any.
LEMMA FirstIsMember ==
  ASSUME NEW names, names \subseteq StationNames, names # {}
  PROVE  FirstOf(names) \in names
<1> DEFINE ranks == {Rank(n) : n \in names}
<1>1. ranks \subseteq Nat /\ ranks # {}
  BY RankOfName
<1>2. \A n \in names : Rank(n) \in ranks
  OBVIOUS
<1>3. \A r \in ranks : \E n \in names : r = Rank(n)
  OBVIOUS
<1> HIDE DEF ranks
<1>4. PICK r \in ranks : \A s \in ranks : r <= s
  BY <1>1, LeastNumber
<1>5. \E n \in names : \A m \in names : Rank(n) <= Rank(m)
  BY <1>2, <1>3, <1>4
<1>6. QED
  BY <1>5 DEF FirstOf

\* So is the one before end().
LEMMA LastIsMember ==
  ASSUME NEW names, names \subseteq StationNames, names # {}
  PROVE  LastOf(names) \in names
<1> DEFINE from(n) == Len(NameOrder) - Rank(n)
           places  == {from(n) : n \in names}
<1>1. \A n \in names : Rank(n) \in Nat /\ from(n) \in Nat
  <2>1. Len(NameOrder) \in Nat
    BY StationSetAssumption, LenProperties
  <2>2. QED
    BY <2>1, RankOfName
<1>2. places \subseteq Nat /\ places # {}
  BY <1>1
<1>3. \A n \in names : from(n) \in places
  OBVIOUS
<1>4. \A p \in places : \E n \in names : p = from(n)
  OBVIOUS
<1> HIDE DEF places
<1>5. PICK p \in places : \A q \in places : p <= q
  BY <1>2, LeastNumber
<1>6. PICK n \in names : p = from(n)
  BY <1>4
<1>7. ASSUME NEW m \in names
      PROVE  Rank(n) >= Rank(m)
  <2>1. from(n) <= from(m)
    BY <1>3, <1>5, <1>6
  <2>2. Len(NameOrder) \in Nat
    BY StationSetAssumption, LenProperties
  <2>3. QED
    BY <1>1, <2>1, <2>2
<1>8. QED
  BY <1>7 DEF LastOf

\* The selection moves from station to station.
LEMMA NextIsMember ==
  ASSUME NEW names, names \subseteq StationNames, names # {}, NEW n
  PROVE  NextOf(names, n) \in names /\ PrevOf(names, n) \in names
<1>1. After(names, n) \subseteq names /\ Before(names, n) \subseteq names
  BY DEF After, Before
<1>2. /\ After(names, n) # {} => FirstOf(After(names, n)) \in names
      /\ Before(names, n) # {} => LastOf(Before(names, n)) \in names
  BY <1>1, FirstIsMember, LastIsMember
<1>3. QED
  BY <1>2, FirstIsMember, LastIsMember DEF NextOf, PrevOf

\* A sequence of n names that lists each of the names once, in order.
Lists(names, seq, n) ==
  /\ seq \in [1..n -> names]
  /\ \A name \in names : \E i \in 1..n : seq[i] = name
  /\ \A i, j \in 1..n : i < j => Rank(seq[i]) < Rank(seq[j])

\* The name that comes last can be put behind the others.
LEMMA ListsWithLast ==
  ASSUME NEW names \in SUBSET StationNames, NEW last \in names, NEW n \in Nat, NEW seq,
         Lists(names \ {last}, seq, n),
         \A name \in names \ {last} : Rank(name) < Rank(last)
  PROVE  \E longer : Lists(names, longer, n + 1)
<1> DEFINE longer == [i \in 1..(n + 1) |-> IF i = n + 1 THEN last ELSE seq[i]]
<1>1. /\ longer[n + 1] = last
      /\ \A i \in 1..n : longer[i] = seq[i] /\ i \in 1..(n + 1)
      /\ \A i \in 1..(n + 1) : i = n + 1 \/ i \in 1..n
  OBVIOUS
<1>2. \A i \in 1..n : seq[i] \in names \ {last}
  BY DEF Lists
<1>3. longer \in [1..(n + 1) -> names]
  BY <1>1, <1>2
<1> HIDE DEF longer
<1>4. \A name \in names : \E i \in 1..(n + 1) : longer[i] = name
  <2>1. n + 1 \in 1..(n + 1)
    OBVIOUS
  <2>2. \A name \in names \ {last} : \E i \in 1..n : seq[i] = name
    BY DEF Lists
  <2>3. QED
    BY <1>1, <2>1, <2>2
<1>5. ASSUME NEW i \in 1..(n + 1), NEW j \in 1..(n + 1), i < j
      PROVE  Rank(longer[i]) < Rank(longer[j])
  <2>1. i \in 1..n
    BY <1>5
  <2>2. CASE j = n + 1
    BY <1>1, <1>2, <2>1, <2>2
  <2>3. CASE j \in 1..n
    BY <1>1, <1>5, <2>1, <2>3 DEF Lists
  <2>4. QED
    BY <1>1, <2>2, <2>3
<1>6. QED
  BY <1>3, <1>4, <1>5 DEF Lists

\* Every set of names can be listed: by induction over the rank of the last.
LEMMA NamesCanBeListed ==
  ASSUME NEW names \in SUBSET StationNames
  PROVE  \E n \in Nat : \E seq : Lists(names, seq, n)
<1> DEFINE Upto(k) == {S \in SUBSET StationNames : \A name \in S : Rank(name) <= k}
           K == {k \in Nat : \A S \in Upto(k) : \E n \in Nat : \E seq : Lists(S, seq, n)}
<1>1. 0 \in K
  <2>1. ASSUME NEW S \in Upto(0)
        PROVE  \E n \in Nat : \E seq : Lists(S, seq, n)
    <3>1. S = {}
      BY RankOfName
    <3>2. Lists({}, [i \in 1..0 |-> i], 0)
      BY DEF Lists
    <3>3. QED
      BY <3>1, <3>2
  <2>2. QED
    BY <2>1
<1>2. ASSUME NEW k \in Nat, k \in K
      PROVE  k + 1 \in K
  <2>1. ASSUME NEW S \in Upto(k + 1)
        PROVE  \E n \in Nat : \E seq : Lists(S, seq, n)
    <3>1. \A name \in S : name \in StationNames /\ Rank(name) \in Nat /\ Rank(name) <= k + 1
      BY RankOfName
    <3>2. CASE \A name \in S : Rank(name) # k + 1
      <4>1. S \in Upto(k)
        BY <3>1, <3>2
      <4>2. QED
        BY <1>2, <4>1
    <3>3. ASSUME NEW last \in S, Rank(last) = k + 1
          PROVE  \E n \in Nat : \E seq : Lists(S, seq, n)
      <4>1. \A name \in S \ {last} : Rank(name) # k + 1
        BY <3>1, <3>3, RankOfName
      <4>2. \A name \in S \ {last} : Rank(name) <= k /\ Rank(name) < Rank(last)
        BY <3>1, <3>3, <4>1
      <4>3. S \ {last} \in Upto(k)
        BY <4>2
      <4>4. PICK n \in Nat : \E seq : Lists(S \ {last}, seq, n)
        BY <1>2, <4>3
      <4>5. \E longer : Lists(S, longer, n + 1)
        BY <4>2, <4>4, ListsWithLast
      <4>6. n + 1 \in Nat
        OBVIOUS
      <4>7. QED
        BY <4>5, <4>6
    <3>4. QED
      BY <3>2, <3>3
  <2>2. QED
    BY <2>1
<1>3. Nat \subseteq K
  <2> HIDE DEF K
  <2>1. QED
    BY <1>1, <1>2, SetInduction
<1>4. Len(NameOrder) \in K
  BY <1>3, StationSetAssumption, LenProperties
<1>5. names \in Upto(Len(NameOrder))
  BY RankOfName
<1>6. QED
  BY <1>4, <1>5

\* get_station_names returns each name once, in order.
LEMMA InOrderLists ==
  ASSUME NEW names \in SUBSET StationNames
  PROVE  /\ Cardinality(names) \in Nat
         /\ InOrder(names) \in [1..Cardinality(names) -> names]
         /\ \A i, j \in 1..Cardinality(names) :
              i < j => Rank(InOrder(names)[i]) < Rank(InOrder(names)[j])
<1>1. PICK n \in Nat : \E seq : Lists(names, seq, n)
  BY NamesCanBeListed
<1>2. PICK seq : Lists(names, seq, n)
  BY <1>1
<1>3. ASSUME NEW i \in 1..n, NEW j \in 1..n, seq[i] = seq[j]
      PROVE  i = j
  <2>1. seq[i] \in StationNames /\ Rank(seq[i]) \in Nat
    BY <1>2, RankOfName DEF Lists
  <2>2. ~ (i < j) /\ ~ (j < i)
    BY <1>2, <1>3, <2>1 DEF Lists
  <2>3. QED
    BY <2>2
<1>4. seq \in Bijection(1..n, names)
  BY <1>2, <1>3 DEF Lists, Bijection, Injection, Surjection, IsInjective
<1>5. Cardinality(names) = n
  <2>1. ExistsBijection(1..n, names)
    BY <1>4 DEF ExistsBijection
  <2>2. QED
    BY <2>1, FS_CountingElements
<1>6. /\ seq \in [1..Cardinality(names) -> names]
      /\ \A i, j \in DOMAIN seq : i < j => Rank(seq[i]) < Rank(seq[j])
  BY <1>2, <1>5 DEF Lists
<1>7. /\ InOrder(names) \in [1..Cardinality(names) -> names]
      /\ \A i, j \in DOMAIN InOrder(names) :
           i < j => Rank(InOrder(names)[i]) < Rank(InOrder(names)[j])
  BY <1>6 DEF InOrder
<1>8. QED
  BY <1>5, <1>7

-----------------------------------------------------------------------------
(* The calls of the station set *)

\* What the set may be after a call.
SetOK == StationSetTypeOK /\ SelectedIsListed

\* The loop of remove_old_stations: which case of it applies.
LEMMA SelectedCases ==
  ASSUME NEW names
  PROVE  /\ selected_station = Wild => SelectedAmong(names) \subseteq names \cup {Wild}
         /\ selected_station # Wild /\ selected_station \in {End} \cup names =>
              SelectedAmong(names) = {selected_station}
         /\ selected_station \notin {End, Wild} \cup names /\ names # {} =>
              SelectedAmong(names) = {NextOf(names, selected_station)}
         /\ selected_station \notin {End, Wild} \cup names /\ names = {} =>
              SelectedAmong(names) = {Wild}
<1>1. ASSUME selected_station = Wild
      PROVE  SelectedAmong(names) \subseteq names \cup {Wild}
  BY <1>1 DEF SelectedAmong, MovedWild
<1>2. QED
  BY <1>1 DEF SelectedAmong

\* After the loop the selection is one of the active stations, if there are any
\* and it was not wild before.
LEMMA SelectedAfterLoop ==
  ASSUME SetOK
  PROVE  /\ Active \subseteq StationNames
         /\ \A sel \in SelectedAmong(Active) :
              /\ sel \in Active \cup {End, Wild}
              /\ Active # {} => sel \in Active \cup {Wild}
<1>1. /\ Active \subseteq StationNames /\ Active \subseteq DOMAIN stations
      /\ selected_station \in StationNames \cup {End, Wild}
  BY DEF SetOK, StationSetTypeOK, Active
<1>2. End \notin StationNames
  BY StationSetAssumption
<1>3. Active # {} => selected_station \in StationNames \cup {Wild}
  BY <1>1, <1>2 DEF SetOK, SelectedIsListed, StationSetTypeOK
<1>4. Active # {} => NextOf(Active, selected_station) \in Active
  BY <1>1, NextIsMember
<1>5. CASE selected_station = Wild
  BY <1>1, <1>5, SelectedCases
<1>6. CASE selected_station # Wild /\ selected_station \in {End} \cup Active
  BY <1>1, <1>2, <1>3, <1>6, SelectedCases
<1>7. CASE selected_station \notin {End, Wild} \cup Active
  BY <1>1, <1>4, <1>7, SelectedCases
<1>8. QED
  BY <1>5, <1>6, <1>7

\* A call that only removes what is old.
LEMMA RemoveOldKeeps ==
  ASSUME SetOK, RemoveOld
  PROVE  SetOK'
<1>1. stations' = Remaining /\ selected_station' \in SelectedAmong(Active)
  BY DEF RemoveOld
<1>2. /\ DOMAIN stations' = Active
      /\ \A n \in Active : stations'[n] = stations[n] /\ n \in DOMAIN stations
  BY <1>1 DEF Remaining, Active
<1>3. StationSetTypeOK'
  BY <1>1, <1>2, SelectedAfterLoop DEF SetOK, StationSetTypeOK
<1>4. SelectedIsListed'
  BY <1>1, <1>2, SelectedAfterLoop DEF SelectedIsListed
<1>5. QED
  BY <1>3, <1>4 DEF SetOK

\* Time makes stations older, to the bound at which they are all too old.
LEMMA TickKeeps ==
  ASSUME SetOK, Tick
  PROVE  SetOK'
<1>1. stations' = Aged /\ selected_station' = selected_station
  BY DEF Tick
<1>2. DOMAIN stations' = DOMAIN stations
  BY <1>1 DEF Aged
<1>3. ASSUME NEW n \in DOMAIN stations
      PROVE  /\ DOMAIN stations'[n] = {"address", "idle"}
             /\ stations'[n].idle \in 0..(MaxInactive + 1)
  <2> DEFINE old == stations[n].idle
  <2>1. DOMAIN stations[n] = {"address", "idle"} /\ old \in 0..(MaxInactive + 1)
    BY DEF SetOK, StationSetTypeOK
  <2>2. stations'[n] = [stations[n] EXCEPT !.idle = IF @ > MaxInactive THEN @ ELSE @ + 1]
    BY <1>1 DEF Aged
  <2>3. /\ DOMAIN stations'[n] = {"address", "idle"}
        /\ stations'[n].idle = IF old > MaxInactive THEN old ELSE old + 1
    BY <2>1, <2>2
  <2> HIDE DEF old
  <2>4. MaxInactive \in Nat
    BY StationSetAssumption
  <2>5. QED
    BY <2>1, <2>3, <2>4
<1>4. QED
  BY <1>1, <1>2, <1>3 DEF SetOK, StationSetTypeOK, SelectedIsListed

\* Where an iterator may point after an insertion.
LEMMA InsertionCases ==
  ASSUME NEW selected, NEW name \in StationNames
  PROVE  /\ AfterInsertion(selected, name) \subseteq {name, Wild, selected}
         /\ selected = End => AfterInsertion(selected, name) \subseteq {name}
<1>1. End # Wild /\ End # name /\ Wild # name
  BY StationSetAssumption
<1>2. CASE selected = End
  <2>1. AfterInsertion(selected, name) = {name}
    BY <1>1, <1>2, Zenon DEF AfterInsertion
  <2>2. QED
    BY <2>1
<1>3. CASE selected = name
  <2>1. AfterInsertion(selected, name) = {IF reused THEN name ELSE Wild : reused \in Reused}
    BY <1>1, <1>3, Zenon DEF AfterInsertion
  <2>2. QED
    BY <1>1, <1>3, <2>1
<1>4. CASE selected = Wild
  <2>1. AfterInsertion(selected, name) = {name, Wild}
    BY <1>1, <1>4, Zenon DEF AfterInsertion
  <2>2. QED
    BY <1>1, <1>4, <2>1
<1>5. CASE selected \notin {End, Wild, name}
  <2>1. selected # End /\ selected # Wild /\ selected # name
    BY <1>5
  <2>2. AfterInsertion(selected, name) = {selected}
    BY <2>1, Zenon DEF AfterInsertion
  <2>3. QED
    BY <2>1, <2>2
<1>6. QED
  BY <1>2, <1>3, <1>4, <1>5

\* The reply of a station puts it into the set.
LEMMA UpdateKeeps ==
  ASSUME SetOK, NEW station, station.name \in StationNames, UpdateGetSelected(station)
  PROVE  SetOK'
<1> DEFINE name == station.name
<1>0. SelectedAmong(Active) # {}
  BY DEF SelectedAmong, MovedWild
<1>1. PICK sel \in SelectedAmong(Active) :
      /\ stations' = [n \in Active \cup {name} |->
                        IF n = name THEN [address |-> station.address, idle |-> 0]
                                    ELSE stations[n]]
      /\ selected_station' = name \/ selected_station' \in AfterInsertion(sel, name)
  BY <1>0 DEF UpdateGetSelected
<1>2. name \in StationNames
  OBVIOUS
<1> HIDE DEF name
<1>3. /\ Active \subseteq StationNames /\ Active \subseteq DOMAIN stations
      /\ Active # {} => sel \in Active \cup {Wild}
      /\ Active = {} => sel \in {End, Wild}
  BY SelectedAfterLoop DEF Active
<1>4. selected_station' \in Active \cup {name, Wild}
  BY <1>1, <1>2, <1>3, InsertionCases
<1>5. ASSUME NEW n \in Active \cup {name}
      PROVE  /\ DOMAIN stations'[n] = {"address", "idle"}
             /\ stations'[n].idle \in 0..(MaxInactive + 1)
  <2>1. CASE n = name
    <3>1. stations'[n] = [address |-> station.address, idle |-> 0]
      BY <1>1, <2>1
    <3>2. 0 \in 0..(MaxInactive + 1)
      BY StationSetAssumption
    <3>3. QED
      BY <3>1, <3>2
  <2>2. CASE n # name
    <3>1. stations'[n] = stations[n] /\ n \in DOMAIN stations
      BY <1>1, <1>3, <1>5, <2>2
    <3>2. QED
      BY <3>1 DEF SetOK, StationSetTypeOK
  <2>3. QED
    BY <2>1, <2>2
<1>6. DOMAIN stations' = Active \cup {name}
  BY <1>1
<1>7. QED
  BY <1>2, <1>3, <1>4, <1>5, <1>6 DEF SetOK, StationSetTypeOK, SelectedIsListed

\* An arrow key leads from one active station to another.
LEMMA SelectKeeps ==
  ASSUME SetOK, NEW msu \in {"UP", "DOWN"}, SelectGetSelected(msu)
  PROVE  SetOK'
<1>1. stations' = Remaining
  BY DEF SelectGetSelected
<1>2. PICK sel \in SelectedAmong(Active) : selected_station' \in Moved(Active, sel, msu)
  BY DEF SelectGetSelected
<1>3. /\ DOMAIN stations' = Active
      /\ \A n \in Active : stations'[n] = stations[n] /\ n \in DOMAIN stations
  BY <1>1 DEF Remaining, Active
<1>4. /\ Active \subseteq StationNames
      /\ sel \in Active \cup {End, Wild}
      /\ Active # {} => sel \in Active \cup {Wild}
  BY SelectedAfterLoop
<1>5. Active # {} => NextOf(Active, sel) \in Active /\ PrevOf(Active, sel) \in Active
  BY <1>4, NextIsMember
<1>6. Active = {} => selected_station' = sel
  BY <1>2 DEF Moved
<1>7. Active # {} => selected_station' \in Active \cup {Wild}
  <2>1. SUFFICES ASSUME Active # {} PROVE selected_station' \in Active \cup {Wild}
    OBVIOUS
  <2>2. sel # End
    BY <1>4, <2>1, StationSetAssumption
  <2>3. CASE sel = Wild
    BY <1>2, <2>1, <2>2, <2>3 DEF Moved, MovedWild
  <2>4. CASE sel # Wild
    BY <1>2, <1>5, <2>1, <2>2, <2>4 DEF Moved
  <2>5. QED
    BY <2>3, <2>4
<1>8. QED
  BY <1>3, <1>4, <1>6, <1>7 DEF SetOK, StationSetTypeOK, SelectedIsListed

-----------------------------------------------------------------------------
(* The threads *)

\* What ui_handler has in hand.
HandlerOK ==
  /\ pc \in {"select", "names", "menu", "update", "blocked", "ended"}
  /\ enqueued_msu \in Updates
  /\ new_selected \in StationNames \cup {None, Wild}
  /\ station_names \in Seq(StationNames)
  /\ active_menu \in Seq([name : StationNames, active : BOOLEAN])

\* The invariant is about the set and the handler's variables.
LEMMA InvParts ==
  /\ StationMenuInv <=> SetOK /\ HandlerOK
  /\ StationMenuInv' <=> SetOK' /\ HandlerOK'
  BY DEF StationMenuInv, TypeOK, SetOK, HandlerOK

\* A menu has a line for each name.
LEMMA ParsedStations ==
  ASSUME NEW names \in Seq(StationNames), NEW selected
  PROVE  parse_stations(names, selected) \in Seq([name : StationNames, active : BOOLEAN])
<1> DEFINE Line == [name : StationNames, active : BOOLEAN]
           menu == parse_stations(names, selected)
<1>1. DOMAIN names = 1..Len(names) /\ Len(names) \in Nat
  BY LenProperties
<1>2. \A i \in 1..Len(names) : names[i] \in StationNames
  BY <1>1
<1>3. \A i \in 1..Len(names) :
        [name |-> names[i], active |-> names[i] = selected] \in Line
  BY <1>2
<1>4. menu = [i \in 1..Len(names) |-> [name |-> names[i], active |-> names[i] = selected]]
  BY <1>1 DEF parse_stations
<1> HIDE DEF menu, Line
<1>5. menu \in [1..Len(names) -> Line]
  BY <1>3, <1>4
<1>6. menu \in Seq(Line)
  BY <1>1, <1>5
<1>7. QED
  BY <1>6 DEF menu, Line

\* What the other threads and time do leaves the handler alone.
LEMMA OthersKeep ==
  ASSUME StationMenuInv,
         (\E s \in Senders : ReceiveReply(s)) \/ GetStationOfRequest \/ PassTime
           \/ ReadWild \/ Collision \/ WriteStops \/ UNCHANGED vars
  PROVE  StationMenuInv'
<1>1. SetOK /\ HandlerOK
  BY InvParts
<1>2. SetOK'
  <2>1. ASSUME NEW s \in Senders, ReceiveReply(s)
        PROVE  SetOK'
    <3> DEFINE station == as_station(make_reply(s.name, s.mcast_addr, s.data_port), s.address)
    <3>1. station.name \in StationNames
      BY StationMenuAssumption
    <3>2. UpdateGetSelected(station)
      BY <2>1 DEF ReceiveReply
    <3> HIDE DEF station
    <3>3. QED
      BY <1>1, <3>1, <3>2, UpdateKeeps
  <2>2. CASE GetStationOfRequest
    BY <1>1, <2>2, RemoveOldKeeps DEF GetStationOfRequest
  <2>3. CASE PassTime
    BY <1>1, <2>3, TickKeeps DEF PassTime
  <2>4. CASE ReadWild \/ Collision \/ WriteStops \/ UNCHANGED vars
    <3>1. stations' = stations /\ selected_station' = selected_station
      BY <2>4 DEF ReadWild, Collision, WriteStops, vars, stationVars
    <3>2. QED
      BY <1>1, <3>1 DEF SetOK, StationSetTypeOK, SelectedIsListed
  <2>5. QED
    BY <2>1, <2>2, <2>3, <2>4
<1>3. HandlerOK'
  <2>1. pc' \in {pc, "blocked", "ended"} /\ UNCHANGED handlerVars
    BY DEF ReceiveReply, GetStationOfRequest, PassTime, ReadWild, Collision,
           WriteStops, vars
  <2>2. QED
    BY <1>1, <2>1 DEF HandlerOK, handlerVars
<1>4. QED
  BY <1>2, <1>3, InvParts

\* The handler gets the selection, moved by a key or not.
LEMMA GetSelectedKeeps ==
  ASSUME StationMenuInv, GetSelected
  PROVE  StationMenuInv'
<1>1. SetOK /\ HandlerOK
  BY InvParts
<1>2. SetOK'
  <2>1. CASE enqueued_msu = "none"
    BY <1>1, <2>1, RemoveOldKeeps DEF GetSelected
  <2>2. CASE enqueued_msu # "none"
    <3>1. enqueued_msu \in {"UP", "DOWN"} /\ SelectGetSelected(enqueued_msu)
      BY <1>1, <2>2 DEF GetSelected, HandlerOK, Updates
    <3>2. QED
      BY <1>1, <3>1, SelectKeeps
  <2>3. QED
    BY <2>1, <2>2
<1>3. new_selected' \in StationNames \cup {None, Wild}
  <2>1. new_selected' = IF DOMAIN stations' = {} THEN None ELSE selected_station'
    BY DEF GetSelected, ReturnedName
  <2>2. DOMAIN stations' # {} => selected_station' \in StationNames \cup {Wild}
    BY <1>2 DEF SetOK, StationSetTypeOK, SelectedIsListed
  <2>3. QED
    BY <2>1, <2>2
<1>4. station_names' \in Seq(StationNames)
  BY EmptySeq DEF GetSelected
<1>5. pc' \in {"menu", "names"} /\ enqueued_msu' \in Updates /\ active_menu' = active_menu
  BY DEF GetSelected, Updates
<1>6. HandlerOK'
  BY <1>1, <1>3, <1>4, <1>5 DEF HandlerOK
<1>7. QED
  BY <1>2, <1>6, InvParts

\* The handler gets the names.
LEMMA GetStationNamesKeeps ==
  ASSUME StationMenuInv, GetStationNames
  PROVE  StationMenuInv'
<1>1. SetOK /\ HandlerOK
  BY InvParts
<1>2. SetOK'
  BY <1>1, RemoveOldKeeps DEF GetStationNames
<1>3. station_names' \in Seq(StationNames)
  <2>1. Active \in SUBSET StationNames
    BY <1>1, SelectedAfterLoop
  <2>2. station_names' = InOrder(Active)
    BY DEF GetStationNames
  <2>3. Cardinality(Active) \in Nat /\ InOrder(Active) \in [1..Cardinality(Active) -> Active]
    BY <2>1, InOrderLists
  <2>4. station_names' \in [1..Cardinality(Active) -> StationNames]
    BY <2>1, <2>2, <2>3
  <2>5. QED
    BY <2>3, <2>4
<1>4. pc' = "menu" /\ UNCHANGED <<enqueued_msu, new_selected, active_menu>>
  BY DEF GetStationNames
<1>5. HandlerOK'
  BY <1>1, <1>3, <1>4 DEF HandlerOK
<1>6. QED
  BY <1>2, <1>5, InvParts

\* The handler makes the menu, and waits for a key.
LEMMA MenuKeeps ==
  ASSUME StationMenuInv, SendMenu \/ GetUpdate
  PROVE  StationMenuInv'
<1>1. SetOK /\ HandlerOK
  BY InvParts
<1>2. SetOK'
  <2>1. stations' = stations /\ selected_station' = selected_station
    BY DEF SendMenu, GetUpdate, stationVars
  <2>2. QED
    BY <1>1, <2>1 DEF SetOK, StationSetTypeOK, SelectedIsListed
<1>3. CASE SendMenu
  <2>1. active_menu' \in Seq([name : StationNames, active : BOOLEAN])
    BY <1>1, <1>3, ParsedStations DEF SendMenu, HandlerOK
  <2>2. station_names' \in Seq(StationNames)
    BY <1>3, EmptySeq DEF SendMenu
  <2>3. HandlerOK'
    BY <1>1, <1>3, <2>1, <2>2 DEF SendMenu, HandlerOK
  <2>4. QED
    BY <1>2, <2>3, InvParts
<1>4. CASE GetUpdate
  <2>1. HandlerOK'
    BY <1>1, <1>4 DEF GetUpdate, HandlerOK
  <2>2. QED
    BY <1>2, <2>1, InvParts
<1>5. QED
  BY <1>3, <1>4

-----------------------------------------------------------------------------
(* The theorems *)

\* Replies, keys, silence and time keep the set and the menu in order.
THEOREM StationMenuInvariant == Spec => []StationMenuInv
<1>1. Init => StationMenuInv
  <2> SUFFICES ASSUME Init PROVE StationMenuInv
    OBVIOUS
  <2>1. DOMAIN stations = {} /\ selected_station = End
    BY DEF Init, StationSetInit
  <2>2. SetOK
    BY <2>1 DEF SetOK, StationSetTypeOK, SelectedIsListed
  <2>3. << >> \in Seq(StationNames)
    BY EmptySeq
  <2>4. active_menu \in Seq([name : StationNames, active : BOOLEAN])
    BY <2>3, ParsedStations DEF Init
  <2>5. HandlerOK
    BY <2>3, <2>4 DEF Init, HandlerOK, Updates
  <2>6. QED
    BY <2>2, <2>5, InvParts
<1>2. StationMenuInv /\ [Next]_vars => StationMenuInv'
  BY OthersKeep, GetSelectedKeeps, GetStationNamesKeeps, MenuKeeps DEF Next, UiHandlerStep
<1>3. QED
  BY <1>1, <1>2, PTL DEF Spec

\* Every variable keeps its type; the handler never gets end() for a station.
THEOREM StationMenuTypeCorrect == Spec => []TypeOK
<1>1. StationMenuInv => TypeOK
  BY DEF StationMenuInv
<1>2. QED
  BY <1>1, StationMenuInvariant, PTL

\* While stations are listed, the selection is one of them or its iterator was
\* left to an erased one.
THEOREM SelectedAlwaysListed == Spec => []SelectedIsListed
<1>1. StationMenuInv => SelectedIsListed
  BY DEF StationMenuInv
<1>2. QED
  BY <1>1, StationMenuInvariant, PTL

\* No reply undoes a choice.
THEOREM SelectionAlwaysSticky == Spec => SelectionIsSticky
<1> DEFINE Sticky ==
      selected_station' # selected_station /\ selected_station \in StationNames =>
        \/ pc = "select" /\ enqueued_msu # "none"
        \/ selected_station \notin Active
        \/ selected_station' = Preferred /\ Preferred \notin Active
        \/ selected_station' = Wild
<1>1. [Next]_vars => [Sticky]_vars
  <2> SUFFICES ASSUME [Next]_vars, selected_station' # selected_station,
                      selected_station \in StationNames, selected_station \in Active,
                      selected_station' # Wild
               PROVE  \/ pc = "select" /\ enqueued_msu # "none"
                      \/ selected_station' = Preferred /\ Preferred \notin Active
    OBVIOUS
  <2>1. SelectedAmong(Active) = {selected_station}
    BY SelectedCases, StationSetAssumption
  <2>2. ~ RemoveOld
    BY <2>1 DEF RemoveOld
  <2>3. ASSUME NEW s \in Senders, ReceiveReply(s)
        PROVE  selected_station' = Preferred /\ Preferred \notin Active
    <3> DEFINE station == as_station(make_reply(s.name, s.mcast_addr, s.data_port), s.address)
    <3>1. station.name \in StationNames
      BY StationMenuAssumption
    <3>2. UpdateGetSelected(station)
      BY <2>3 DEF ReceiveReply
    <3> HIDE DEF station
    <3>3. CASE IsPreferred(station.name, Active)
      BY <3>2, <3>3 DEF UpdateGetSelected, IsPreferred
    <3>4. CASE selected_station' \in AfterInsertion(selected_station, station.name)
      <4>1. selected_station' = station.name
        BY <3>1, <3>4, InsertionCases
      <4>2. selected_station # station.name
        BY <4>1
      <4>3. selected_station # End /\ selected_station # Wild
        BY StationSetAssumption
      <4>4. AfterInsertion(selected_station, station.name) = {selected_station}
        BY <4>2, <4>3, Zenon DEF AfterInsertion
      <4>5. QED
        BY <3>4, <4>4
    <3>5. QED
      BY <2>1, <3>2, <3>3, <3>4 DEF UpdateGetSelected
  <2>4. CASE GetSelected
    BY <2>2, <2>4 DEF GetSelected
  <2>5. ~ GetStationOfRequest /\ ~ GetStationNames
    BY <2>2 DEF GetStationOfRequest, GetStationNames
  <2>6. ~ (\/ PassTime \/ ReadWild \/ Collision \/ SendMenu \/ GetUpdate \/ WriteStops
           \/ UNCHANGED vars)
    BY DEF PassTime, Tick, ReadWild, Collision, SendMenu, GetUpdate, WriteStops,
           vars, stationVars
  <2>7. QED
    BY <2>3, <2>4, <2>5, <2>6 DEF Next, UiHandlerStep
<1>2. QED
  BY <1>1, PTL DEF Spec, SelectionIsSticky
=============================================================================
