----------------------------- MODULE StationSet -----------------------------
(***************************************************************************)
(* The stations the receiver has heard of and the one that is selected     *)
(* (src/receiver/station_set.hpp), as the calls of the class act on them   *)
(* one at a time.                                                          *)
(*                                                                         *)
(* `stations` is an std::set ordered by name, here a function from names   *)
(* to the rest of a station.  `selected_station` is an iterator into the   *)
(* set: a name stands for an iterator to the station of that name, Wild    *)
(* for one whose station was erased.                                       *)
(***************************************************************************)
EXTENDS CtrlMsg

CONSTANTS
  NameOrder,    \* the names a reply may bring, in the order of std::string
  MaxInactive,  \* MAX_INACTIVE_SECONDS, in ticks
  Preferred,    \* preferred_station_name, or None
  None,         \* std::nullopt
  End, Wild,    \* iterators to no station
  Reused        \* does a station erased and inserted by one call keep its memory?

StationNames == {NameOrder[i] : i \in DOMAIN NameOrder}

ASSUME StationSetAssumption ==
  /\ MaxInactive \in Nat
  /\ NameOrder \in Seq(StationNames)
  /\ \A i, j \in DOMAIN NameOrder : NameOrder[i] = NameOrder[j] => i = j
  /\ \A name \in {None, End, Wild} : name \notin StationNames
  /\ End # Wild
  /\ Reused \subseteq BOOLEAN /\ Reused # {}

VARIABLES stations, selected_station

stationVars == <<stations, selected_station>>

StationSetTypeOK ==
  /\ DOMAIN stations \subseteq StationNames
  /\ \A name \in DOMAIN stations :
       /\ DOMAIN stations[name] = {"address", "idle"}
       /\ stations[name].idle \in 0..(MaxInactive + 1)
  /\ selected_station \in StationNames \cup {End, Wild}

StationSetInit == stations = << >> /\ selected_station = End

Rank(name)         == CHOOSE i \in DOMAIN NameOrder : NameOrder[i] = name
FirstOf(names)     == CHOOSE n \in names : \A m \in names : Rank(n) <= Rank(m)
LastOf(names)      == CHOOSE n \in names : \A m \in names : Rank(n) >= Rank(m)
After(names, n)    == {m \in names : Rank(m) > Rank(n)}
Before(names, n)   == {m \in names : Rank(m) < Rank(n)}

\* Names in the order in which iterators run through them.
InOrder(names) ==
  CHOOSE seq \in [1..Cardinality(names) -> names] :
    \A i, j \in DOMAIN seq : i < j => Rank(seq[i]) < Rank(seq[j])

\* The iterator after n, which wraps around at end(); the one before it.
NextOf(names, n) == IF After(names, n) # {} THEN FirstOf(After(names, n)) ELSE FirstOf(names)
PrevOf(names, n) == IF Before(names, n) # {} THEN LastOf(Before(names, n)) ELSE LastOf(names)

-----------------------------------------------------------------------------
(* remove_old_stations, with which every call begins *)

\* A clock tick, as the loop will see it.
Aged ==
  [n \in DOMAIN stations |->
     [stations[n] EXCEPT !.idle = IF @ > MaxInactive THEN @ ELSE @ + 1]]

Active == {n \in DOMAIN stations : stations[n].idle <= MaxInactive}
Remaining == [n \in Active |-> stations[n]]

\* Where ++ or -- leads from an erased station: its memory may still link it to
\* any station, or to none.
MovedWild(names) == names \cup {Wild}

\* Mutant of SelectedAmong: the selection stays where it is.
SelectedAmongAll(names) == {selected_station}

\* The loop moves a selection that is too old to the next station, and on from
\* there; at end() to begin(), which may be the station that is being erased.
\* An erased selection is read, too, to compare it with a station that is too
\* old, and moved if it looks the same.
SelectedAmong(names) ==
  IF selected_station = Wild /\ names # DOMAIN stations THEN MovedWild(names)
  ELSE IF selected_station \in {End, Wild} \cup names THEN {selected_station}
  ELSE IF names # {} THEN {NextOf(names, selected_station)} ELSE {Wild}

RemoveOld == stations' = Remaining /\ selected_station' \in SelectedAmong(Active)

-----------------------------------------------------------------------------
(* The calls; what they return is get_selected_station *)

\* as_station: what the text of a reply and the address it came from say.
as_station(msg, sender_address) ==
  LET data == get_reply_data(msg)
  IN  [name |-> data.name,
       address |-> <<sender_address, data.data_address, data.data_port>>]

\* Where an iterator points after a station was erased and inserted anew: one
\* to the erased station may find the new one in its place.  A station erased
\* in an earlier call may have been erased by another thread, whose memory is
\* kept apart, or not.
AfterInsertion(selected, name) ==
  CASE selected = End  -> {name}
    [] selected = name -> {IF reused THEN name ELSE Wild : reused \in Reused}
    [] selected = Wild -> {name, Wild}
    [] OTHER           -> {selected}

\* Mutant of IsPreferred: the preferred station is selected with every reply.
IsPreferredAlways(name, known) == name = Preferred

IsPreferred(name, known) == name = Preferred /\ name \notin known

UpdateGetSelected(station) ==
  /\ stations' = [n \in Active \cup {station.name} |->
                    IF n = station.name THEN [address |-> station.address, idle |-> 0]
                                        ELSE stations[n]]
  /\ IF IsPreferred(station.name, Active)
       THEN selected_station' = station.name
       ELSE \E sel \in SelectedAmong(Active) :
              selected_station' \in AfterInsertion(sel, station.name)

\* An arrow key moves the selection, when there are stations; it is end() only
\* when there are none.
Moved(names, n, msu) ==
  IF n = End \/ names = {} THEN {n}
  ELSE IF n = Wild THEN MovedWild(names)
  ELSE IF msu = "UP" THEN {NextOf(names, n)} ELSE {PrevOf(names, n)}

SelectGetSelected(msu) ==
  /\ stations' = Remaining
  /\ \E sel \in SelectedAmong(Active) : selected_station' \in Moved(Active, sel, msu)

\* Mutant of ReturnedName: no test whether there are any stations.
ReturnedNameOfIterator == selected_station'

\* The name get_selected_station returns after a call.
ReturnedName == IF DOMAIN stations' = {} THEN None ELSE selected_station'

Tick == stations' = Aged /\ UNCHANGED selected_station

-----------------------------------------------------------------------------
(* Properties of the selection *)

\* The selection is one of the stations listed, through replies, keys and
\* stations that fall silent, unless its iterator went wild.
SelectedIsListed ==
  DOMAIN stations # {} => selected_station \in DOMAIN stations \cup {Wild}

\* station_set.hpp:41, "try to change selected station to an active one": while
\* stations are listed, the selected one is among them.
SelectedIsActive ==
  DOMAIN stations # {} => selected_station \in DOMAIN stations
=============================================================================
