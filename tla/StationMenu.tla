---------------------------- MODULE StationMenu -----------------------------
(***************************************************************************)
(* The station set at work (src/receiver/receiver.hpp): ctrl_receiver puts *)
(* the stations that reply into it, ui_handler moves the selection with    *)
(* the keys it was given and makes the menu from it.  Between the calls of *)
(* one thread the other goes on.  How keys and menus pass between the      *)
(* handler and its clients is the subject of module UiManager, what the    *)
(* threads register with the state manager that of module Playback.        *)
(***************************************************************************)
EXTENDS StationSet

CONSTANT Senders  \* stations on the air: name, addresses and port they send

VARIABLES
  pc,            \* where ui_handler is, "blocked" when a write of its does not
                 \* return, "ended" when the process has ended
  enqueued_msu,  \* the key it was given, or "none"
  new_selected,  \* the name of the station it got
  station_names,
  active_menu

handlerVars == <<enqueued_msu, new_selected, station_names, active_menu>>
vars == <<stationVars, pc, handlerVars>>

Updates == {"UP", "DOWN", "none"}

TypeOK ==
  /\ StationSetTypeOK
  /\ pc \in {"select", "names", "menu", "update", "blocked", "ended"}
  /\ enqueued_msu \in Updates
  /\ new_selected \in StationNames \cup {None, Wild}
  /\ station_names \in Seq(StationNames)
  /\ active_menu \in Seq([name : StationNames, active : BOOLEAN])

Running == pc # "ended"

\* NameOrder has every name that the text of a reply leaves to a station.
ASSUME StationMenuAssumption ==
  \A s \in Senders :
    as_station(make_reply(s.name, s.mcast_addr, s.data_port), s.address).name \in StationNames

\* parse_stations: a line for each station, and whether it is the active one.
parse_stations(names, selected) ==
  [i \in DOMAIN names |-> [name |-> names[i], active |-> names[i] = selected]]

-----------------------------------------------------------------------------
(* run_ctrl_receiver, run_rexmit_sender, and time *)

\* The reply of a station to a lookup; nothing is assumed of when it comes.
ReceiveReply(s) ==
  /\ Running
  /\ UpdateGetSelected(as_station(make_reply(s.name, s.mcast_addr, s.data_port), s.address))
  /\ UNCHANGED <<pc, handlerVars>>

\* rexmit_sender asks for the selected station, for which it needs a miss.
GetStationOfRequest ==
  /\ Running
  /\ RemoveOld
  /\ UNCHANGED <<pc, handlerVars>>

PassTime ==
  /\ Running
  /\ Tick
  /\ UNCHANGED <<pc, handlerVars>>

\* Every call of the station set reads the selected station when there is any;
\* through an iterator to an erased one that may end the process.
ReadWild ==
  /\ Running
  /\ selected_station = Wild /\ DOMAIN stations # {}
  /\ pc' = "ended"
  /\ UNCHANGED <<stationVars, handlerVars>>

\* `std::scoped_lock{mut};` keeps nobody out: a call of ui_handler that meets one
\* of another thread in the set may end the process.
Collision ==
  /\ pc \in {"select", "names"}
  /\ pc' = "ended"
  /\ UNCHANGED <<stationVars, handlerVars>>

-----------------------------------------------------------------------------
(* run_ui_handler *)

GetSelected ==
  /\ pc = "select"
  /\ IF enqueued_msu = "none" THEN RemoveOld ELSE SelectGetSelected(enqueued_msu)
  /\ new_selected' = ReturnedName
  /\ station_names' = << >>
  /\ enqueued_msu' = "none"
  /\ pc' = IF new_selected' = None THEN "menu" ELSE "names"
  /\ UNCHANGED active_menu

\* The names come sorted out of the set already.
GetStationNames ==
  /\ pc = "names"
  /\ RemoveOld
  /\ station_names' = InOrder(Active)
  /\ pc' = "menu"
  /\ UNCHANGED <<enqueued_msu, new_selected, active_menu>>

\* Mutant of SendMenu: a menu of as many lines is taken for the same.
SendMenuWhenLonger ==
  /\ pc = "menu"
  /\ active_menu' = IF Len(station_names) = Len(active_menu) THEN active_menu
                    ELSE parse_stations(station_names, new_selected)
  /\ new_selected' = None /\ station_names' = << >>
  /\ pc' = "update"
  /\ UNCHANGED <<stationVars, enqueued_msu>>

SendMenu ==
  /\ pc = "menu"
  /\ active_menu' = parse_stations(station_names, new_selected)
  /\ new_selected' = None /\ station_names' = << >>
  /\ pc' = "update"
  /\ UNCHANGED <<stationVars, enqueued_msu>>

GetUpdate ==
  /\ pc = "update"
  /\ enqueued_msu' \in Updates
  /\ pc' = "select"
  /\ UNCHANGED <<stationVars, new_selected, station_names, active_menu>>

\* send_menu writes a changed menu to every client before it becomes the active
\* one, and both calls write to a client that is new: a write to a client that
\* reads no more does not return, one to a client that has gone may end the
\* process.  Which clients there are is left open here; UiManager has them.
WriteStops ==
  /\ pc \in {"menu", "update"}
  /\ pc' \in {"blocked", "ended"}
  /\ UNCHANGED <<stationVars, handlerVars>>

UiHandlerStep == GetSelected \/ GetStationNames \/ SendMenu \/ GetUpdate

-----------------------------------------------------------------------------
Init ==
  /\ StationSetInit
  /\ pc = "select"
  /\ enqueued_msu = "none" /\ new_selected = None /\ station_names = << >>
  /\ active_menu = parse_stations(<< >>, None)

Next ==
  \/ \E s \in Senders : ReceiveReply(s)
  \/ GetStationOfRequest \/ PassTime \/ ReadWild \/ Collision
  \/ UiHandlerStep \/ WriteStops

Spec == Init /\ [][Next]_vars

\* ui_handler waits in polls of half a second, which time out, and in writes,
\* which need not return: WriteStops is always possible where it writes, and a
\* handler that is blocked has no step that fairness could promise.
FairSpec == Spec /\ WF_vars(UiHandlerStep)

-----------------------------------------------------------------------------
(* Properties *)

\* The selection changes only by a key, when its station falls silent, when the
\* preferred station appears, or when its iterator is left to an erased
\* station: no reply of a station undoes a choice.
SelectionIsSticky ==
  [][selected_station' # selected_station /\ selected_station \in StationNames =>
       \/ pc = "select" /\ enqueued_msu # "none"
       \/ selected_station \notin Active
       \/ selected_station' = Preferred /\ Preferred \notin Active
       \/ selected_station' = Wild]_vars

\* TypeOK needs SelectedIsListed to be kept: the name that a call returns is
\* that of the selection, and must not be end()'s when stations are listed.
StationMenuInv == TypeOK /\ SelectedIsListed

Marked(menu) == {menu[i].name : i \in {j \in DOMAIN menu : menu[j].active}}

\* A station that stays selected is in the end the one that the menu marks, for
\* as long as it is, although selection and names are fetched by two calls: the
\* menu cannot stay behind the selection unless a client blocks the handler or
\* the process ends.
SelectionIsShown ==
  \A n \in StationNames :
    <>[](selected_station = n /\ n \in Active)
      => <>[](pc \in {"blocked", "ended"} \/ Marked(active_menu) = {n})
=============================================================================
