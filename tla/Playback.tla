------------------------------ MODULE Playback ------------------------------
(***************************************************************************)
(* How the receiver's threads (src/receiver/receiver.hpp) ask for a reset  *)
(* of playback and how the resetter serves it, over state_manager.hpp, the *)
(* data socket and the buffer.  ctrl_receiver and ui_handler register the  *)
(* station of the station set, data_receiver registers the session of each *)
(* message, data_receiver and data_streamer ask for a reset when the       *)
(* buffer throws; the flag `dirty` carries the request to the resetter.    *)
(*                                                                         *)
(* `std::scoped_lock{mut};` and `std::scoped_lock{data_mut};` are          *)
(* temporaries that exclude nobody, so an action is one access to what the *)
(* threads share.  Of the buffer the module keeps whose messages it holds. *)
(***************************************************************************)
EXTENDS Integers, Sequences

CONSTANTS
  Stations,   \* stations on the air
  StationOf,  \* the station of each sender process, in the order of their
              \* starts: session n is the session of process n
  None,       \* std::nullopt, and the station of a socket that is not bound
  Selectors   \* of ctrl_receiver and ui_handler, those that run: both do

Sessions == 1..Len(StationOf)

ASSUME PlaybackAssumption ==
  /\ StationOf \in Seq(Stations)
  /\ None \notin Stations
  /\ Selectors \subseteq {"ctrl_receiver", "ui_handler"}

VARIABLES
  pc,                 \* the step each thread is at, "ended" when an uncaught
                      \* exception or a data race has ended the process
  selected,           \* the station set's selection
  chosen,             \* new_station of the threads that are registering one
  active_station, dirty, session_id,   \* the state manager
  was_dirty, station, \* the resetter's copies
  connected_station,  \* the data socket's last connect, None before the first
  sock,               \* the data socket; when bound, to connected_station
  reading,            \* the station of the socket a read in progress began with,
                      \* None when its number was a telnet client's by then
  msg,                \* session of the message that is being written, or 0
  contents,           \* the buffer: sessions of the messages in it
  first,              \* the buffer: session that set package_size, or 0
  lost                \* history: a request was cleared that nobody had seen

registerVars == <<selected, chosen>>
stateVars    == <<active_station, dirty>>
resetVars    == <<was_dirty, station, lost>>
socketVars   == <<connected_station, sock>>
receiveVars  == <<session_id, reading, msg>>
bufferVars   == <<contents, first>>
vars == <<pc, registerVars, stateVars, resetVars, socketVars, receiveVars,
          bufferVars>>

Threads == Selectors \cup {"resetter", "data_receiver", "data_streamer"}

MaybeStation == Stations \cup {None}

Steps == {"check", "clear", "copy", "reset", "connect", "open", "bind",
          "get", "test", "compare", "assign", "forget", "raise",
          "call", "wait", "register", "write", "read", "ended"}

TypeOK ==
  /\ pc \in [Threads -> Steps]
  /\ selected \in MaybeStation
  /\ chosen \in [Selectors -> MaybeStation]
  /\ active_station \in MaybeStation
  /\ dirty \in BOOLEAN
  /\ session_id \in Sessions \cup {0}
  /\ was_dirty \in BOOLEAN
  /\ station \in MaybeStation
  /\ connected_station \in MaybeStation
  /\ sock \in {"none", "closed", "unbound", "bound"}
  /\ reading \in MaybeStation
  /\ msg \in Sessions \cup {0}
  /\ contents \in SUBSET Sessions
  /\ first \in Sessions \cup {0}
  /\ lost \in BOOLEAN

At(t, step) == pc[t] = step
Goto(t, step) == pc' = [pc EXCEPT ![t] = step]
EndProcess == pc' = [t \in Threads |-> "ended"]
Ended == \A t \in Threads : pc[t] = "ended"

\* Where the loop of a thread begins.
Start(t) ==
  CASE t = "resetter"      -> "check"
    [] t \in Selectors     -> "get"
    [] t = "data_receiver" -> "call"
    [] t = "data_streamer" -> "read"

-----------------------------------------------------------------------------
(* state_manager: mark_dirty, and the last statement of the other requests *)

\* mark_dirty, first statement.
Forget(t) ==
  /\ At(t, "forget")
  /\ active_station' = None
  /\ Goto(t, "raise")
  /\ UNCHANGED <<registerVars, dirty, resetVars, socketVars, receiveVars,
                 bufferVars>>

\* Mutant of Raise: the request is not made.
RaiseNothing(t) ==
  /\ At(t, "raise")
  /\ Goto(t, Start(t))
  /\ UNCHANGED <<registerVars, stateVars, resetVars, socketVars, receiveVars,
                 bufferVars>>

Raise(t) ==
  /\ At(t, "raise")
  /\ dirty' = TRUE
  /\ Goto(t, Start(t))
  /\ UNCHANGED <<registerVars, active_station, resetVars, socketVars, receiveVars,
                 bufferVars>>

-----------------------------------------------------------------------------
(* run_ctrl_receiver and run_ui_handler *)

\* The station set's selection changes: a reply, a key or a time limit.
SelectStation ==
  /\ ~ Ended
  /\ selected' \in MaybeStation \ {selected}
  /\ UNCHANGED <<pc, chosen, stateVars, resetVars, socketVars, receiveVars,
                 bufferVars>>

\* The thread gets the selection.  Only ui_handler can find none, and asks for
\* a reset then; ctrl_receiver has just put a station into the set.
GetSelected(t) ==
  /\ At(t, "get")
  /\ selected = None => t = "ui_handler"
  /\ chosen' = [chosen EXCEPT ![t] = selected]
  /\ Goto(t, IF selected = None THEN "forget" ELSE "test")
  /\ UNCHANGED <<selected, stateVars, resetVars, socketVars, receiveVars,
                 bufferVars>>

\* active_station.has_value()
RegisterTest(t) ==
  /\ At(t, "test")
  /\ Goto(t, IF active_station = None THEN "assign" ELSE "compare")
  /\ UNCHANGED <<registerVars, stateVars, resetVars, socketVars, receiveVars,
                 bufferVars>>

\* active_station.value() != new_station; value() throws if the station was
\* forgotten after the test, and nobody catches that.
RegisterCompare(t) ==
  /\ At(t, "compare")
  /\ CASE active_station = None      -> EndProcess /\ UNCHANGED chosen
       [] active_station = chosen[t] -> /\ Goto(t, "get")
                                        /\ chosen' = [chosen EXCEPT ![t] = None]
       [] OTHER                      -> Goto(t, "assign") /\ UNCHANGED chosen
  /\ UNCHANGED <<selected, stateVars, resetVars, socketVars, receiveVars,
                 bufferVars>>

RegisterAssign(t) ==
  /\ At(t, "assign")
  /\ active_station' = chosen[t]
  /\ chosen' = [chosen EXCEPT ![t] = None]
  /\ Goto(t, "raise")
  /\ UNCHANGED <<selected, dirty, resetVars, socketVars, receiveVars,
                 bufferVars>>

-----------------------------------------------------------------------------
(* run_playback_resetter, with check_state and data_socket::connect *)

\* check_state: was_dirty = dirty.
CheckDirty ==
  /\ At("resetter", "check")
  /\ was_dirty' = dirty
  /\ lost' = (lost /\ ~ dirty)
  /\ Goto("resetter", "clear")
  /\ UNCHANGED <<registerVars, stateVars, station, socketVars, receiveVars,
                 bufferVars>>

\* check_state: dirty = false.  A request made since CheckDirty is lost, unless
\* an earlier one has the resetter on its way to a reset.
ClearDirty ==
  /\ At("resetter", "clear")
  /\ lost' = (lost \/ (dirty /\ ~ was_dirty))
  /\ dirty' = FALSE
  /\ Goto("resetter", "copy")
  /\ UNCHANGED <<registerVars, active_station, was_dirty, station, socketVars,
                 receiveVars, bufferVars>>

\* check_state: the copy of active_station, which nobody uses unless was_dirty.
CopyStation ==
  /\ At("resetter", "copy")
  /\ station' = IF was_dirty THEN active_station ELSE None
  /\ was_dirty' = FALSE
  /\ Goto("resetter", IF was_dirty THEN "reset" ELSE "check")
  /\ UNCHANGED <<registerVars, stateVars, lost, socketVars,
                 receiveVars, bufferVars>>

\* Mutant of ResetBuffer: package_size and messages stay.
ResetNothing ==
  /\ At("resetter", "reset")
  /\ Goto("resetter", IF station = None THEN "check" ELSE "connect")
  /\ UNCHANGED <<registerVars, stateVars, resetVars, socketVars, receiveVars,
                 bufferVars>>

ResetBuffer ==
  /\ At("resetter", "reset")
  /\ contents' = {} /\ first' = 0
  /\ Goto("resetter", IF station = None THEN "check" ELSE "connect")
  /\ UNCHANGED <<registerVars, stateVars, resetVars, socketVars, receiveVars>>

\* Mutant of Connect: only the first connect does anything.
ConnectOnce ==
  /\ At("resetter", "connect")
  /\ IF connected_station # None
       THEN Goto("resetter", "check") /\ station' = None
       ELSE Goto("resetter", "open")  /\ UNCHANGED station
  /\ UNCHANGED <<registerVars, stateVars, was_dirty, lost, socketVars, receiveVars,
                 bufferVars>>

\* connect up to close(); the first time there is no socket to close.
Connect ==
  /\ At("resetter", "connect")
  /\ IF station = connected_station
       THEN Goto("resetter", "check") /\ station' = None /\ UNCHANGED sock
       ELSE /\ Goto("resetter", "open")
            /\ sock' = IF sock = "none" THEN "none" ELSE "closed"
            /\ UNCHANGED station
  /\ UNCHANGED <<registerVars, stateVars, was_dirty, lost, connected_station,
                 receiveVars, bufferVars>>

\* socket() and setsockopt(); a failure is an exception that nobody catches.
Open ==
  /\ At("resetter", "open")
  /\ sock' = "unbound"
  /\ Goto("resetter", "bind") \/ EndProcess
  /\ UNCHANGED <<registerVars, stateVars, resetVars, connected_station, receiveVars,
                 bufferVars>>

\* bind() and the new connected_station; close_and_throw when bind() fails.
Bind ==
  /\ At("resetter", "bind")
  /\ \/ /\ sock' = "bound"
        /\ connected_station' = station
        /\ station' = None
        /\ Goto("resetter", "check")
     \/ /\ sock' = "closed"
        /\ UNCHANGED <<connected_station, station>>
        /\ EndProcess
  /\ UNCHANGED <<registerVars, stateVars, was_dirty, lost, receiveVars, bufferVars>>

-----------------------------------------------------------------------------
(* run_data_receiver *)

\* try_read up to the system call.  Without a socket it returns at once; on a
\* closed one the call fails, with an exception that nobody catches, or accept()
\* in ui_handler has given the descriptor's number to a telnet client by now, and
\* the call reads from that connection: reading is None then, or the process ends
\* at fewer bytes than data_msg takes for granted.
CallRead ==
  /\ At("data_receiver", "call")
  /\ reading' = CASE sock = "bound"   -> connected_station
                   [] sock = "unbound" -> station
                   [] OTHER            -> None
  /\ CASE sock = "none"   -> Goto("data_receiver", "call")
       [] sock = "closed" -> EndProcess \/ Goto("data_receiver", "wait")
       [] OTHER           -> Goto("data_receiver", "wait")
  /\ UNCHANGED <<registerVars, stateVars, resetVars, socketVars, session_id, msg,
                 bufferVars>>

\* Mutant of ReadTimeout: nobody tests whether there is a message.
ReadTimeoutAsMessage ==
  /\ At("data_receiver", "wait")
  /\ reading' = None
  /\ Goto("data_receiver", "register")
  /\ UNCHANGED <<registerVars, stateVars, resetVars, socketVars, session_id, msg,
                 bufferVars>>

ReadTimeout ==
  /\ At("data_receiver", "wait")
  /\ reading' = None
  /\ Goto("data_receiver", "call")
  /\ UNCHANGED <<registerVars, stateVars, resetVars, socketVars, session_id, msg,
                 bufferVars>>

\* A message of the station of the socket the read began with, once it is bound:
\* the system keeps a socket that is being read although it has been closed.  The
\* message may come from any process of the station, also from one that has ended.
\* The bytes of a telnet client may make any session.
ReadMessage ==
  /\ At("data_receiver", "wait")
  /\ sock = "unbound" => reading # station
  /\ \E n \in Sessions : reading \in {StationOf[n], None} /\ msg' = n
  /\ reading' = None
  /\ Goto("data_receiver", "register")
  /\ UNCHANGED <<registerVars, stateVars, resetVars, socketVars, session_id,
                 bufferVars>>

\* Mutant of RegisterSession: a lower session is not ignored.
RegisterAnySession ==
  /\ At("data_receiver", "register")
  /\ IF msg <= session_id
       THEN Goto("data_receiver", "write") /\ UNCHANGED <<msg, session_id>>
       ELSE Goto("data_receiver", "raise") /\ msg' = 0 /\ session_id' = msg
  /\ UNCHANGED <<registerVars, stateVars, resetVars, socketVars, reading,
                 bufferVars>>

\* register_session_check_ignore, which no other thread calls: an older session
\* is ignored, a newer one too, after a request for a reset.
RegisterSession ==
  /\ At("data_receiver", "register")
  /\ session_id' = IF msg > session_id THEN msg ELSE session_id
  /\ msg' = IF msg = session_id THEN msg ELSE 0
  /\ Goto("data_receiver", CASE msg < session_id -> "call"
                             [] msg = session_id -> "write"
                             [] msg > session_id -> "raise")
  /\ UNCHANGED <<registerVars, stateVars, resetVars, socketVars, reading,
                 bufferVars>>

\* The message gets into the buffer or is too old for it; older ones may drop out.
WriteMessage ==
  /\ At("data_receiver", "write")
  /\ contents' \in SUBSET (contents \cup {msg})
  /\ first' = IF first = 0 THEN msg ELSE first
  /\ msg' = 0
  /\ Goto("data_receiver", "call")
  /\ UNCHANGED <<registerVars, stateVars, resetVars, socketVars, session_id, reading>>

\* The buffer refuses an id that is no multiple of a package size that another
\* session set.
WriteThrows ==
  /\ At("data_receiver", "write")
  /\ first \notin {0, msg}
  /\ msg' = 0
  /\ Goto("data_receiver", "forget")
  /\ UNCHANGED <<registerVars, stateVars, resetVars, socketVars, session_id, reading,
                 bufferVars>>

-----------------------------------------------------------------------------
(* run_data_streamer *)

\* try_read takes a message; it was the last of its session or it was not.
StreamMessage ==
  /\ At("data_streamer", "read")
  /\ \E n \in contents : contents' = contents \ {n}
  /\ UNCHANGED <<pc, registerVars, stateVars, resetVars, socketVars, receiveVars,
                 first>>

\* try_read throws when the session is readable and the front slot is empty.
StreamThrows ==
  /\ At("data_streamer", "read")
  /\ first # 0
  /\ Goto("data_streamer", "forget")
  /\ UNCHANGED <<registerVars, stateVars, resetVars, socketVars, receiveVars,
                 bufferVars>>

-----------------------------------------------------------------------------
\* Two threads in the same object, one of them writing: it may go well, as the
\* other actions have it, or spoil the strings of the station or the deques of the
\* buffer, which ends the process.
StationAccess(t) == pc[t] \in {"compare", "copy", "assign", "forget"}
BufferAccess(t)  == pc[t] \in {"write", "read", "reset"}

Collision ==
  /\ \E t, u \in Threads :
       /\ t # u
       /\ \/ StationAccess(t) /\ StationAccess(u) /\ pc[t] \in {"assign", "forget"}
          \/ BufferAccess(t) /\ BufferAccess(u)
  /\ EndProcess
  /\ UNCHANGED <<registerVars, stateVars, resetVars, socketVars, receiveVars,
                 bufferVars>>

Init ==
  /\ pc = [t \in Threads |-> Start(t)]
  /\ selected = None
  /\ chosen = [t \in Selectors |-> None]
  /\ active_station = None /\ dirty = FALSE /\ session_id = 0
  /\ was_dirty = FALSE /\ station = None /\ lost = FALSE
  /\ connected_station = None
  /\ sock = "none"
  /\ reading = None /\ msg = 0
  /\ contents = {} /\ first = 0

SelectorStep(t) ==
  \/ GetSelected(t) \/ RegisterTest(t) \/ RegisterCompare(t) \/ RegisterAssign(t)
  \/ Forget(t) \/ Raise(t)
ResetterStep ==
  \/ CheckDirty \/ ClearDirty \/ CopyStation \/ ResetBuffer
  \/ Connect \/ Open \/ Bind
ReceiverStep ==
  \/ CallRead \/ ReadTimeout \/ ReadMessage \/ RegisterSession
  \/ WriteMessage \/ WriteThrows
  \/ Forget("data_receiver") \/ Raise("data_receiver")
StreamerStep ==
  \/ StreamMessage \/ StreamThrows
  \/ Forget("data_streamer") \/ Raise("data_streamer")

Next ==
  \/ SelectStation
  \/ \E t \in Selectors : SelectorStep(t)
  \/ ResetterStep \/ ReceiverStep \/ StreamerStep
  \/ Collision

Spec == Init /\ [][Next]_vars

\* The threads that register a station and the resetter keep their loops turning;
\* of the other threads, the selection, exceptions and races nothing is assumed.
Fairness ==
  /\ \A t \in Selectors : WF_vars(SelectorStep(t))
  /\ WF_vars(ResetterStep)

FairSpec == Spec /\ Fairness

-----------------------------------------------------------------------------
(* Properties *)

Raising   == \E t \in Threads : pc[t] = "raise"
Noticed   == was_dirty /\ pc["resetter"] \in {"clear", "copy"}
Requested == dirty \/ Raising \/ Noticed

\* Messages of a session that is over stay in the buffer only while a reset is
\* asked for or on its way, or when check_state cleared the request unseen.
StaleIsFlushed ==
  (\E n \in contents : n # session_id)
    => Requested \/ pc["resetter"] = "reset" \/ lost \/ Ended

\* The socket is connected to another station than the registered one only while
\* the resetter is about to learn of it or connects to that very station, or when
\* check_state cleared the request unseen: between one thread's copy of the
\* station and its connect no registration of another thread is overlooked.
SwitchIsPending ==
  active_station \notin {None, connected_station}
    => \/ Requested \/ lost \/ Ended
       \/ station = active_station
            /\ pc["resetter"] \in {"reset", "connect", "open", "bind"}

\* "Receiver should remember last received session id and ignore messages with
\* lower session ids": what is written is of the last session registered, and no
\* earlier one comes back, whatever sockets the reads began with.
WritesLastSessionOnly ==
  [][contents' \ contents \subseteq {session_id} /\ session_id' >= session_id]_vars

\* A station once registered is connected to, unless another one takes its place
\* or the request for it is lost in check_state.
SwitchesUnlessLost ==
  \A s \in Stations :
    active_station = s ~> connected_station = s \/ active_station # s \/ lost \/ Ended

\* README: the user "can change audio source to other sender".  Violated:
\* check_state reads the flag and clears it in two steps, a request made between
\* them is cleared unseen, and the station that is registered by then is never
\* found to have changed again.
SwitchTakesEffect ==
  \A s \in Stations :
    active_station = s ~> connected_station = s \/ active_station # s \/ Ended

\* README: the user "can change audio source to other sender".  Violated: the
\* largest session of all stations is remembered, so that after a switch to a
\* sender that was started earlier everything it sends is ignored, even though
\* the socket is connected to it and no process of the station is newer.
SwitchIsHeard ==
  ( /\ At("data_receiver", "register")
    /\ active_station = connected_station /\ StationOf[msg] = connected_station
    /\ \A n \in Sessions : StationOf[n] = connected_station => n <= msg )
      => msg >= session_id
=============================================================================
