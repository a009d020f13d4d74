--------------------------- MODULE PlaybackProofs ---------------------------
(***************************************************************************)
(* Theorems about Playback, for every set of stations, every list of       *)
(* sender processes and any of the threads that register stations.         *)
(***************************************************************************)
EXTENDS Playback, TLAPS

Resetting == pc["resetter"] \in {"reset", "connect", "open", "bind"}

\* A message in hand is of some session, one that is to be written of the last.
WriteInv ==
  /\ pc["data_receiver"] \in {"register", "write"} => msg # 0
  /\ pc["data_receiver"] = "write" => msg = session_id

\* While the resetter serves a request its copy of the station is up to date, or
\* the next request is on its way.
CopyInv ==
  Resetting /\ active_station \notin {None, station} => Requested \/ lost \/ Ended

PlaybackInv ==
  TypeOK /\ WriteInv /\ CopyInv /\ StaleIsFlushed /\ SwitchIsPending

-----------------------------------------------------------------------------
(* Threads and their steps *)

LEMMA ThreadNames ==
  /\ Threads = Selectors \cup {"resetter", "data_receiver", "data_streamer"}
  /\ \A t \in Selectors :
       t \in Threads /\ t \notin {"resetter", "data_receiver", "data_streamer"}
  /\ \A t \in Threads : Start(t) \in Steps
  /\ \A t \in Threads : Start(t) \notin {"raise", "ended", "write"}
BY PlaybackAssumption DEF Threads, Start, Steps

\* What a step of another thread than the resetter leaves of the invariant when it
\* touches neither the flag nor the stations.
LEMMA BystanderStep ==
  ASSUME TypeOK, CopyInv, SwitchIsPending,
         NEW t \in Threads \ {"resetter"}, NEW s \in Steps,
         pc[t] \notin {"raise", "ended"}, Goto(t, s),
         UNCHANGED <<stateVars, resetVars, connected_station>>
  PROVE  CopyInv' /\ SwitchIsPending' /\ (Requested => Requested')
         /\ pc'["resetter"] = pc["resetter"] /\ ~ Ended
<1>1. pc \in [Threads -> Steps] /\ t \in Threads /\ "resetter" \in Threads
  BY DEF TypeOK, Threads
<1>2. pc' = [pc EXCEPT ![t] = s]  BY DEF Goto
<1>3. \A u \in Threads \ {t} : pc'[u] = pc[u]  BY <1>1, <1>2
<1>4. pc'["resetter"] = pc["resetter"]  BY <1>1, <1>3
<1>5. ~ Ended  BY <1>1 DEF Ended
<1>6. UNCHANGED <<active_station, dirty, was_dirty, station, lost, connected_station>>
  BY DEF stateVars, resetVars
<1>7. Raising => Raising'  BY <1>1, <1>3 DEF Raising
<1>8. Requested => Requested'  BY <1>4, <1>6, <1>7 DEF Requested, Noticed
<1>9. CopyInv'  BY <1>4, <1>5, <1>6, <1>8 DEF CopyInv, Resetting
<1>10. SwitchIsPending'  BY <1>4, <1>5, <1>6, <1>8 DEF SwitchIsPending
<1> QED  BY <1>4, <1>5, <1>8, <1>9, <1>10

\* The same of a step that makes the thread's next step the request.
LEMMA RaisingStep ==
  ASSUME TypeOK, NEW t \in Threads, Goto(t, "raise")
  PROVE  Raising' /\ CopyInv' /\ StaleIsFlushed' /\ SwitchIsPending'
<1>1. pc'[t] = "raise"  BY DEF TypeOK, Goto
<1>2. Raising'  BY <1>1 DEF Raising
<1> QED  BY <1>2 DEF CopyInv, StaleIsFlushed, SwitchIsPending, Requested

\* The end of the process settles everything.
LEMMA EndStep ==
  ASSUME EndProcess
  PROVE  Ended' /\ pc' \in [Threads -> Steps] /\ WriteInv' /\ CopyInv'
         /\ StaleIsFlushed' /\ SwitchIsPending'
<1>1. pc' = [t \in Threads |-> "ended"]  BY DEF EndProcess
<1>2. Ended'  BY <1>1 DEF Ended
<1>3. pc' \in [Threads -> Steps]  BY <1>1 DEF Steps
<1>4. pc'["data_receiver"] = "ended"  BY <1>1 DEF Threads
<1> QED  BY <1>2, <1>3, <1>4
         DEF WriteInv, CopyInv, StaleIsFlushed, SwitchIsPending

-----------------------------------------------------------------------------
(* Types *)

LEMMA InitType == Init => TypeOK
<1> SUFFICES ASSUME Init PROVE TypeOK  OBVIOUS
<1>1. pc \in [Threads -> Steps]  BY ThreadNames DEF Init
<1>2. chosen \in [Selectors -> MaybeStation]  BY DEF Init, MaybeStation
<1> QED  BY <1>1, <1>2 DEF Init, TypeOK, MaybeStation

\* The thread's next step is a step whatever the thread does.
LEMMA GotoType ==
  ASSUME pc \in [Threads -> Steps], NEW t, NEW s \in Steps, Goto(t, s)
  PROVE  pc' \in [Threads -> Steps]
BY DEF Goto

LEMMA SelectorType ==
  ASSUME TypeOK, NEW t \in Selectors, SelectorStep(t)
  PROVE  TypeOK'
<1> USE DEF TypeOK, MaybeStation, registerVars, stateVars, resetVars, socketVars,
            receiveVars, bufferVars, At
<1>1. t \in Threads /\ Start(t) \in Steps  BY ThreadNames
<1>2. CASE GetSelected(t)
  BY <1>1, <1>2, GotoType DEF GetSelected, Steps
<1>3. CASE RegisterTest(t)
  BY <1>1, <1>3, GotoType DEF RegisterTest, Steps
<1>4. CASE RegisterCompare(t)
  <2>1. pc' \in [Threads -> Steps]
    BY <1>1, <1>4, GotoType, EndStep DEF RegisterCompare, Steps
  <2>2. chosen' \in [Selectors -> MaybeStation]
    BY <1>1, <1>4 DEF RegisterCompare
  <2> QED  BY <1>4, <2>1, <2>2 DEF RegisterCompare
<1>5. CASE RegisterAssign(t)
  BY <1>1, <1>5, GotoType DEF RegisterAssign, Steps
<1>6. CASE Forget(t)
  BY <1>1, <1>6, GotoType DEF Forget, Steps
<1>7. CASE Raise(t)
  BY <1>1, <1>7, GotoType DEF Raise, Steps
<1> QED  BY <1>2, <1>3, <1>4, <1>5, <1>6, <1>7 DEF SelectorStep

LEMMA ResetterType ==
  ASSUME TypeOK, ResetterStep
  PROVE  TypeOK'
<1> USE DEF TypeOK, MaybeStation, registerVars, stateVars, resetVars, socketVars,
            receiveVars, bufferVars, At
<1>1. CASE CheckDirty   BY <1>1, GotoType DEF CheckDirty, Steps
<1>2. CASE ClearDirty
  <2>1. lost' \in BOOLEAN  BY <1>2, Zenon DEF ClearDirty
  <2>2. pc' \in [Threads -> Steps]  BY <1>2, GotoType DEF ClearDirty, Steps
  <2> QED  BY <1>2, <2>1, <2>2 DEF ClearDirty
<1>3. CASE CopyStation
  <2>1. PICK s \in Steps : Goto("resetter", s)  BY <1>3 DEF CopyStation, Steps
  <2>2. pc' \in [Threads -> Steps]  BY <2>1, GotoType
  <2>3. station' \in MaybeStation  BY <1>3 DEF CopyStation
  <2> QED  BY <1>3, <2>2, <2>3 DEF CopyStation
<1>4. CASE ResetBuffer  BY <1>4, GotoType DEF ResetBuffer, Steps
<1>5. CASE Connect      BY <1>5, GotoType DEF Connect, Steps
<1>6. CASE Open
  <2>1. pc' \in [Threads -> Steps]  BY <1>6, GotoType, EndStep DEF Open, Steps
  <2> QED  BY <1>6, <2>1 DEF Open
<1>7. CASE Bind
  <2>1. pc' \in [Threads -> Steps]  BY <1>7, GotoType, EndStep DEF Bind, Steps
  <2> QED  BY <1>7, <2>1 DEF Bind
<1> QED  BY <1>1, <1>2, <1>3, <1>4, <1>5, <1>6, <1>7 DEF ResetterStep

LEMMA ReceiverType ==
  ASSUME TypeOK, WriteInv, ReceiverStep
  PROVE  TypeOK'
<1> USE DEF TypeOK, MaybeStation, registerVars, stateVars, resetVars, socketVars,
            receiveVars, bufferVars, At
<1>1. "data_receiver" \in Threads /\ Start("data_receiver") \in Steps
  BY ThreadNames
<1>2. CASE CallRead
  <2>1. pc' \in [Threads -> Steps]  BY <1>2, GotoType, EndStep DEF CallRead, Steps
  <2>2. reading' \in MaybeStation   BY <1>2 DEF CallRead
  <2> QED  BY <1>2, <2>1, <2>2 DEF CallRead
<1>3. CASE ReadTimeout  BY <1>3, GotoType DEF ReadTimeout, Steps
<1>4. CASE ReadMessage  BY <1>4, GotoType DEF ReadMessage, Steps
<1>5. CASE RegisterSession
  <2>1. PICK s \in Steps : Goto("data_receiver", s)
    <3>1. msg \in Int /\ session_id \in Int  BY DEF Sessions
    <3>2. msg < session_id \/ msg = session_id \/ msg > session_id  BY <3>1
    <3>3. "call" \in Steps /\ "write" \in Steps /\ "raise" \in Steps  BY DEF Steps
    <3> QED  BY <1>5, <3>1, <3>2, <3>3 DEF RegisterSession
  <2>2. pc' \in [Threads -> Steps]  BY <2>1, GotoType
  <2> QED  BY <1>5, <2>2 DEF RegisterSession
<1>6. CASE WriteMessage
  <2>1. pc' \in [Threads -> Steps]  BY <1>6, GotoType DEF WriteMessage, Steps
  <2>2. msg \in Sessions  BY <1>6 DEF WriteMessage, WriteInv
  <2> QED  BY <1>6, <2>1, <2>2 DEF WriteMessage
<1>7. CASE WriteThrows  BY <1>7, GotoType DEF WriteThrows, Steps
<1>8. CASE Forget("data_receiver")  BY <1>8, GotoType DEF Forget, Steps
<1>9. CASE Raise("data_receiver")   BY <1>1, <1>9, GotoType DEF Raise
<1> QED  BY <1>2, <1>3, <1>4, <1>5, <1>6, <1>7, <1>8, <1>9 DEF ReceiverStep

LEMMA StreamerType ==
  ASSUME TypeOK, StreamerStep
  PROVE  TypeOK'
<1> USE DEF TypeOK, MaybeStation, registerVars, stateVars, resetVars, socketVars,
            receiveVars, bufferVars, At
<1>1. Start("data_streamer") \in Steps  BY ThreadNames DEF Threads
<1>2. CASE StreamMessage  BY <1>2 DEF StreamMessage
<1>3. CASE StreamThrows   BY <1>3, GotoType DEF StreamThrows, Steps
<1>4. CASE Forget("data_streamer")  BY <1>4, GotoType DEF Forget, Steps
<1>5. CASE Raise("data_streamer")   BY <1>1, <1>5, GotoType DEF Raise
<1> QED  BY <1>2, <1>3, <1>4, <1>5 DEF StreamerStep

-----------------------------------------------------------------------------
(* Steps of the threads that register stations *)

\* What a step of a thread keeps if only the request can depend on it.
LEMMA BystanderKeeps ==
  ASSUME PlaybackInv,
         NEW t \in Threads \ {"resetter"}, NEW s \in Steps,
         pc[t] \notin {"raise", "ended"}, Goto(t, s),
         UNCHANGED <<stateVars, resetVars, connected_station, session_id>>,
         contents' \subseteq contents \cup {session_id}
  PROVE  CopyInv' /\ StaleIsFlushed' /\ SwitchIsPending'
<1>1. /\ CopyInv' /\ SwitchIsPending' /\ (Requested => Requested')
      /\ pc'["resetter"] = pc["resetter"] /\ ~ Ended
  BY BystanderStep DEF PlaybackInv
<1>2. StaleIsFlushed'
  BY <1>1 DEF PlaybackInv, StaleIsFlushed, resetVars
<1> QED  BY <1>1, <1>2

\* A request made: the flag is up.
LEMMA RaiseStep ==
  ASSUME NEW t, Raise(t)
  PROVE  CopyInv' /\ StaleIsFlushed' /\ SwitchIsPending'
<1>1. Requested'  BY DEF Raise, Requested
<1> QED  BY <1>1 DEF CopyInv, StaleIsFlushed, SwitchIsPending

LEMMA SelectorKeeps ==
  ASSUME PlaybackInv, NEW t \in Selectors, SelectorStep(t)
  PROVE  WriteInv' /\ CopyInv' /\ StaleIsFlushed' /\ SwitchIsPending'
<1>1. t \in Threads \ {"resetter", "data_receiver"}  BY ThreadNames
<1>2. TypeOK /\ WriteInv  BY DEF PlaybackInv
<1>3. ASSUME NEW s, Goto(t, s), UNCHANGED receiveVars  PROVE  WriteInv'
  BY <1>1, <1>2, <1>3 DEF WriteInv, Goto, TypeOK, receiveVars
<1>4. CASE GetSelected(t)
  <2>1. PICK s \in Steps : Goto(t, s)  BY <1>4 DEF GetSelected, Steps
  <2>2. CopyInv' /\ StaleIsFlushed' /\ SwitchIsPending'
    BY <1>1, <1>4, <2>1, BystanderKeeps
       DEF GetSelected, At, socketVars, receiveVars, bufferVars
  <2> QED  BY <1>3, <1>4, <2>1, <2>2 DEF GetSelected
<1>5. CASE RegisterTest(t)
  <2>1. PICK s \in Steps : Goto(t, s)  BY <1>5 DEF RegisterTest, Steps
  <2>2. CopyInv' /\ StaleIsFlushed' /\ SwitchIsPending'
    BY <1>1, <1>5, <2>1, BystanderKeeps
       DEF RegisterTest, At, socketVars, receiveVars, bufferVars
  <2> QED  BY <1>3, <1>5, <2>1, <2>2 DEF RegisterTest
<1>6. CASE RegisterCompare(t)
  <2>1. CASE EndProcess  BY <2>1, EndStep
  <2>2. ASSUME NEW s \in Steps, Goto(t, s)
        PROVE  WriteInv' /\ CopyInv' /\ StaleIsFlushed' /\ SwitchIsPending'
    <3>1. CopyInv' /\ StaleIsFlushed' /\ SwitchIsPending'
      BY <1>1, <1>6, <2>2, BystanderKeeps
         DEF RegisterCompare, At, socketVars, receiveVars, bufferVars
    <3> QED  BY <1>3, <1>6, <2>2, <3>1 DEF RegisterCompare
  <2>3. EndProcess \/ Goto(t, "get") \/ Goto(t, "assign")
    BY <1>6 DEF RegisterCompare
  <2>4. "get" \in Steps /\ "assign" \in Steps  BY DEF Steps
  <2> QED  BY <2>1, <2>2, <2>3, <2>4
<1>7. CASE RegisterAssign(t)
  BY <1>1, <1>2, <1>3, <1>7, RaisingStep DEF RegisterAssign
<1>8. CASE Forget(t)
  BY <1>1, <1>2, <1>3, <1>8, RaisingStep DEF Forget
<1>9. CASE Raise(t)
  BY <1>3, <1>9, RaiseStep DEF Raise
<1> QED  BY <1>4, <1>5, <1>6, <1>7, <1>8, <1>9 DEF SelectorStep

-----------------------------------------------------------------------------
(* Steps of the resetter *)

\* The resetter is no thread that raises the flag.
LEMMA ResetterGoes ==
  ASSUME TypeOK, pc["resetter"] \notin {"raise", "ended"}, NEW s, Goto("resetter", s)
  PROVE  /\ pc'["resetter"] = s /\ ~ Ended
         /\ pc'["data_receiver"] = pc["data_receiver"]
         /\ Raising => Raising'
<1>1. "resetter" \in Threads /\ "data_receiver" \in Threads  BY ThreadNames
<1>2. pc' = [pc EXCEPT !["resetter"] = s] /\ pc \in [Threads -> Steps]
  BY DEF Goto, TypeOK
<1>3. \A u \in Threads \ {"resetter"} : pc'[u] = pc[u]  BY <1>2
<1>4. Raising => Raising'  BY <1>3 DEF Raising
<1> QED  BY <1>1, <1>2, <1>3, <1>4 DEF Ended

LEMMA ResetterKeeps ==
  ASSUME PlaybackInv, ResetterStep
  PROVE  WriteInv' /\ CopyInv' /\ StaleIsFlushed' /\ SwitchIsPending'
<1> USE DEF registerVars, stateVars, resetVars, socketVars, receiveVars, bufferVars, At
<1>1. TypeOK /\ WriteInv /\ CopyInv /\ StaleIsFlushed /\ SwitchIsPending
  BY DEF PlaybackInv
<1>2. CASE CheckDirty
  <2>1. /\ pc["resetter"] = "check" /\ pc'["resetter"] = "clear" /\ ~ Ended
        /\ pc'["data_receiver"] = pc["data_receiver"]
        /\ Raising => Raising'
    BY <1>1, <1>2, ResetterGoes DEF CheckDirty
  <2>2. Requested \/ lost => Requested' \/ lost'
    <3>1. CASE dirty  BY <1>2, <2>1, <3>1 DEF CheckDirty, Requested, Noticed
    <3>2. CASE ~ dirty
      <4>1. lost' <=> lost  BY <1>2, <3>2, Zenon DEF CheckDirty
      <4>2. Requested => Raising  BY <1>1, <2>1, <3>2 DEF Requested, Noticed
      <4> QED  BY <2>1, <4>1, <4>2 DEF Requested
    <3> QED  BY <3>1, <3>2
  <2>3. WriteInv'  BY <1>1, <1>2, <2>1 DEF CheckDirty, WriteInv
  <2>4. CopyInv'  BY <2>1 DEF CopyInv, Resetting
  <2>5. StaleIsFlushed'  BY <1>1, <1>2, <2>1, <2>2 DEF CheckDirty, StaleIsFlushed
  <2>6. SwitchIsPending'  BY <1>1, <1>2, <2>1, <2>2 DEF CheckDirty, SwitchIsPending
  <2> QED  BY <2>3, <2>4, <2>5, <2>6
<1>3. CASE ClearDirty
  <2>1. /\ pc["resetter"] = "clear" /\ pc'["resetter"] = "copy" /\ ~ Ended
        /\ pc'["data_receiver"] = pc["data_receiver"]
        /\ Raising => Raising'
    BY <1>1, <1>3, ResetterGoes DEF ClearDirty
  <2>2. Requested \/ lost => Requested' \/ lost'
    <3>1. CASE was_dirty  BY <1>3, <2>1, <3>1 DEF ClearDirty, Requested, Noticed
    <3>2. CASE ~ was_dirty
      <4>1. lost' <=> lost \/ dirty  BY <1>3, <3>2, Zenon DEF ClearDirty
      <4>2. Requested => Raising \/ dirty  BY <3>2 DEF Requested, Noticed
      <4> QED  BY <2>1, <4>1, <4>2 DEF Requested
    <3> QED  BY <3>1, <3>2
  <2>3. WriteInv'  BY <1>1, <1>3, <2>1 DEF ClearDirty, WriteInv
  <2>4. CopyInv'  BY <2>1 DEF CopyInv, Resetting
  <2>5. StaleIsFlushed'  BY <1>1, <1>3, <2>1, <2>2 DEF ClearDirty, StaleIsFlushed
  <2>6. SwitchIsPending'  BY <1>1, <1>3, <2>1, <2>2 DEF ClearDirty, SwitchIsPending
  <2> QED  BY <2>3, <2>4, <2>5, <2>6
<1>4. CASE CopyStation
  <2>1. /\ pc["resetter"] = "copy" /\ ~ Ended
        /\ pc'["resetter"] = (IF was_dirty THEN "reset" ELSE "check")
        /\ pc'["data_receiver"] = pc["data_receiver"]
        /\ Raising => Raising'
    BY <1>1, <1>4, ResetterGoes DEF CopyStation
  <2>2. WriteInv'  BY <1>1, <1>4, <2>1 DEF CopyStation, WriteInv
  <2>3. CASE was_dirty
    <3>1. pc'["resetter"] = "reset" /\ station' = active_station'
      BY <1>4, <2>1, <2>3 DEF CopyStation
    <3> QED  BY <2>2, <3>1 DEF CopyInv, StaleIsFlushed, SwitchIsPending
  <2>4. CASE ~ was_dirty
    <3>1. Requested => Requested'
      BY <1>4, <2>1, <2>4 DEF CopyStation, Requested, Noticed
    <3>2. pc'["resetter"] = "check"  BY <2>1, <2>4
    <3>3. CopyInv'  BY <3>2 DEF CopyInv, Resetting
    <3>4. StaleIsFlushed'  BY <1>1, <1>4, <2>1, <3>1 DEF CopyStation, StaleIsFlushed
    <3>5. SwitchIsPending'  BY <1>1, <1>4, <2>1, <3>1 DEF CopyStation, SwitchIsPending
    <3> QED  BY <2>2, <3>3, <3>4, <3>5
  <2> QED  BY <2>3, <2>4
<1>5. CASE ResetBuffer
  <2>1. /\ pc["resetter"] = "reset" /\ ~ Ended
        /\ pc'["resetter"] = (IF station = None THEN "check" ELSE "connect")
        /\ pc'["data_receiver"] = pc["data_receiver"]
        /\ Raising => Raising'
    BY <1>1, <1>5, ResetterGoes DEF ResetBuffer
  <2>2. Requested => Requested'
    BY <1>5, <2>1 DEF ResetBuffer, Requested, Noticed
  <2>3. WriteInv'  BY <1>1, <1>5, <2>1 DEF ResetBuffer, WriteInv
  <2>4. CopyInv'
    BY <1>1, <1>5, <2>1, <2>2 DEF ResetBuffer, CopyInv, Resetting
  <2>5. StaleIsFlushed'  BY <1>5 DEF ResetBuffer, StaleIsFlushed
  <2>6. SwitchIsPending'
    BY <1>1, <1>5, <2>1, <2>2 DEF ResetBuffer, CopyInv, Resetting, SwitchIsPending
  <2> QED  BY <2>3, <2>4, <2>5, <2>6
<1>6. CASE Connect
  <2>1. /\ pc["resetter"] = "connect" /\ ~ Ended
        /\ pc'["resetter"] = (IF station = connected_station THEN "check" ELSE "open")
        /\ pc'["data_receiver"] = pc["data_receiver"]
        /\ Raising => Raising'
    BY <1>1, <1>6, ResetterGoes DEF Connect
  <2>2. Requested => Requested'  BY <1>6, <2>1 DEF Connect, Requested, Noticed
  <2>3. WriteInv'  BY <1>1, <1>6, <2>1 DEF Connect, WriteInv
  <2>4. CopyInv'  BY <1>1, <1>6, <2>1, <2>2 DEF Connect, CopyInv, Resetting
  <2>5. StaleIsFlushed'  BY <1>1, <1>6, <2>1, <2>2 DEF Connect, StaleIsFlushed
  <2>6. SwitchIsPending'
    BY <1>1, <1>6, <2>1, <2>2 DEF Connect, CopyInv, Resetting, SwitchIsPending
  <2> QED  BY <2>3, <2>4, <2>5, <2>6
<1>7. CASE Open
  <2>1. CASE EndProcess  BY <2>1, EndStep
  <2>2. CASE Goto("resetter", "bind")
    <3>1. /\ pc["resetter"] = "open" /\ pc'["resetter"] = "bind" /\ ~ Ended
          /\ pc'["data_receiver"] = pc["data_receiver"]
          /\ Raising => Raising'
      BY <1>1, <1>7, <2>2, ResetterGoes DEF Open
    <3>2. Requested => Requested'  BY <1>7, <3>1 DEF Open, Requested, Noticed
    <3>3. WriteInv'  BY <1>1, <1>7, <3>1 DEF Open, WriteInv
    <3>4. CopyInv'  BY <1>1, <1>7, <3>1, <3>2 DEF Open, CopyInv, Resetting
    <3>5. StaleIsFlushed'  BY <1>1, <1>7, <3>1, <3>2 DEF Open, StaleIsFlushed
    <3>6. SwitchIsPending'  BY <1>1, <1>7, <3>1, <3>2 DEF Open, SwitchIsPending
    <3> QED  BY <3>3, <3>4, <3>5, <3>6
  <2> QED  BY <1>7, <2>1, <2>2 DEF Open
<1>8. CASE Bind
  <2>1. CASE EndProcess  BY <2>1, EndStep
  <2>2. CASE Goto("resetter", "check") /\ connected_station' = station
    <3>1. /\ pc["resetter"] = "bind" /\ pc'["resetter"] = "check" /\ ~ Ended
          /\ pc'["data_receiver"] = pc["data_receiver"]
          /\ Raising => Raising'
      BY <1>1, <1>8, <2>2, ResetterGoes DEF Bind
    <3>2. Requested => Requested'  BY <1>8, <3>1 DEF Bind, Requested, Noticed
    <3>3. WriteInv'  BY <1>1, <1>8, <3>1 DEF Bind, WriteInv
    <3>4. CopyInv'  BY <3>1 DEF CopyInv, Resetting
    <3>5. StaleIsFlushed'  BY <1>1, <1>8, <3>1, <3>2 DEF Bind, StaleIsFlushed
    <3>6. SwitchIsPending'
      BY <1>1, <1>8, <2>2, <3>1, <3>2 DEF Bind, CopyInv, Resetting, SwitchIsPending
    <3> QED  BY <3>3, <3>4, <3>5, <3>6
  <2> QED  BY <1>8, <2>1, <2>2 DEF Bind
<1> QED  BY <1>2, <1>3, <1>4, <1>5, <1>6, <1>7, <1>8 DEF ResetterStep

-----------------------------------------------------------------------------
(* Steps of data_receiver and data_streamer *)

LEMMA ReceiverKeeps ==
  ASSUME PlaybackInv, ReceiverStep
  PROVE  WriteInv' /\ CopyInv' /\ StaleIsFlushed' /\ SwitchIsPending'
<1> DEFINE r == "data_receiver"
<1>1. r \in Threads \ {"resetter"}  BY ThreadNames
<1>2. TypeOK /\ WriteInv /\ CopyInv /\ StaleIsFlushed /\ SwitchIsPending
  BY DEF PlaybackInv
<1>3. ASSUME NEW s, Goto(r, s)  PROVE pc'[r] = s
  BY <1>1, <1>2, <1>3 DEF Goto, TypeOK
<1>4. ASSUME NEW s, Goto(r, s), s \notin {"register", "write"}  PROVE WriteInv'
  BY <1>3, <1>4 DEF WriteInv
<1>5. CASE CallRead
  <2>1. CASE EndProcess  BY <2>1, EndStep
  <2>2. ASSUME NEW s \in {"call", "wait"}, Goto(r, s)
        PROVE  WriteInv' /\ CopyInv' /\ StaleIsFlushed' /\ SwitchIsPending'
    <3>1. s \in Steps /\ WriteInv'  BY <1>4, <2>2 DEF Steps
    <3>2. CopyInv' /\ StaleIsFlushed' /\ SwitchIsPending'
      BY <1>1, <1>5, <2>2, <3>1, BystanderKeeps DEF CallRead, At, socketVars, bufferVars
    <3> QED  BY <3>1, <3>2
  <2>3. EndProcess \/ Goto(r, "call") \/ Goto(r, "wait")  BY <1>5 DEF CallRead
  <2> QED  BY <2>1, <2>2, <2>3
<1>6. CASE ReadTimeout
  <2>1. "call" \in Steps /\ Goto(r, "call")  BY <1>6 DEF ReadTimeout, Steps
  <2>2. CopyInv' /\ StaleIsFlushed' /\ SwitchIsPending'
    BY <1>1, <1>6, <2>1, BystanderKeeps DEF ReadTimeout, At, socketVars, bufferVars
  <2> QED  BY <1>4, <2>1, <2>2
<1>7. CASE ReadMessage
  <2>1. "register" \in Steps /\ Goto(r, "register")  BY <1>7 DEF ReadMessage, Steps
  <2>2. CopyInv' /\ StaleIsFlushed' /\ SwitchIsPending'
    BY <1>1, <1>7, <2>1, BystanderKeeps DEF ReadMessage, At, socketVars, bufferVars
  <2>3. msg' # 0  BY <1>7 DEF ReadMessage, Sessions
  <2> QED  BY <1>3, <2>1, <2>2, <2>3 DEF WriteInv
<1>8. CASE RegisterSession
  <2>1. msg \in Int /\ session_id \in Int  BY <1>2 DEF TypeOK, Sessions
  <2>2. msg # 0  BY <1>2, <1>8 DEF RegisterSession, At, WriteInv
  <2>3. CASE msg > session_id
    <3>1. Goto(r, "raise")  BY <1>8, <2>1, <2>3 DEF RegisterSession
    <3> QED  BY <1>1, <1>2, <1>4, <3>1, RaisingStep
  <2>4. CASE ~ msg > session_id
    <3>1. PICK s \in {"call", "write"} : Goto(r, s) /\ (s = "write" => msg = session_id)
      BY <1>8, <2>1, <2>4 DEF RegisterSession
    <3>2. UNCHANGED session_id  BY <1>8, <2>4 DEF RegisterSession
    <3>3. s \in Steps  BY DEF Steps
    <3>4. CopyInv' /\ StaleIsFlushed' /\ SwitchIsPending'
      BY <1>1, <1>8, <3>1, <3>2, <3>3, BystanderKeeps
         DEF RegisterSession, At, socketVars, bufferVars
    <3>5. WriteInv'
      BY <1>3, <1>8, <2>2, <3>1, <3>2 DEF RegisterSession, WriteInv
    <3> QED  BY <3>4, <3>5
  <2> QED  BY <2>3, <2>4
<1>9. CASE WriteMessage
  <2>1. "call" \in Steps /\ Goto(r, "call")  BY <1>9 DEF WriteMessage, Steps
  <2>2. msg = session_id  BY <1>2, <1>9 DEF WriteMessage, At, WriteInv
  <2>3. CopyInv' /\ StaleIsFlushed' /\ SwitchIsPending'
    BY <1>1, <1>9, <2>1, <2>2, BystanderKeeps DEF WriteMessage, At, socketVars
  <2> QED  BY <1>4, <2>1, <2>3
<1>10. CASE WriteThrows
  <2>1. "forget" \in Steps /\ Goto(r, "forget")  BY <1>10 DEF WriteThrows, Steps
  <2>2. CopyInv' /\ StaleIsFlushed' /\ SwitchIsPending'
    BY <1>1, <1>10, <2>1, BystanderKeeps DEF WriteThrows, At, socketVars, bufferVars
  <2> QED  BY <1>4, <2>1, <2>2
<1>11. CASE Forget(r)
  BY <1>1, <1>2, <1>4, <1>11, RaisingStep DEF Forget
<1>12. CASE Raise(r)
  <2>1. Start(r) \notin {"register", "write"}
    BY PlaybackAssumption DEF Start
  <2> QED  BY <1>4, <1>12, <2>1, RaiseStep DEF Raise
<1> QED
  BY <1>5, <1>6, <1>7, <1>8, <1>9, <1>10, <1>11, <1>12 DEF ReceiverStep

LEMMA StreamerKeeps ==
  ASSUME PlaybackInv, StreamerStep
  PROVE  WriteInv' /\ CopyInv' /\ StaleIsFlushed' /\ SwitchIsPending'
<1> DEFINE d == "data_streamer"
<1>1. d \in Threads \ {"resetter", "data_receiver"}  BY ThreadNames
<1>2. TypeOK /\ WriteInv /\ CopyInv /\ StaleIsFlushed /\ SwitchIsPending
  BY DEF PlaybackInv
<1>3. ASSUME NEW s, Goto(d, s), UNCHANGED receiveVars  PROVE  WriteInv'
  BY <1>1, <1>2, <1>3 DEF WriteInv, Goto, TypeOK, receiveVars
<1>4. CASE StreamMessage
  <2>1. contents' \subseteq contents  BY <1>4 DEF StreamMessage
  <2>2. UNCHANGED <<pc, stateVars, resetVars, socketVars, receiveVars>>
    BY <1>4 DEF StreamMessage
  <2>3. WriteInv'  BY <1>2, <2>2 DEF WriteInv, receiveVars
  <2>4. (Requested <=> Requested') /\ (Ended <=> Ended')
    BY <2>2 DEF Requested, Raising, Noticed, Ended, stateVars, resetVars
  <2>5. CopyInv'
    BY <1>2, <2>2, <2>4 DEF CopyInv, Resetting, stateVars, resetVars
  <2>6. StaleIsFlushed'
    BY <1>2, <2>1, <2>2, <2>4 DEF StaleIsFlushed, resetVars, receiveVars
  <2>7. SwitchIsPending'
    BY <1>2, <2>2, <2>4 DEF SwitchIsPending, stateVars, resetVars, socketVars
  <2> QED  BY <2>3, <2>5, <2>6, <2>7
<1>5. CASE StreamThrows
  <2>1. "forget" \in Steps /\ Goto(d, "forget")  BY <1>5 DEF StreamThrows, Steps
  <2>2. CopyInv' /\ StaleIsFlushed' /\ SwitchIsPending'
    BY <1>1, <1>5, <2>1, BystanderKeeps
       DEF StreamThrows, At, socketVars, receiveVars, bufferVars
  <2> QED  BY <1>3, <1>5, <2>1, <2>2 DEF StreamThrows
<1>6. CASE Forget(d)
  BY <1>1, <1>2, <1>3, <1>6, RaisingStep DEF Forget
<1>7. CASE Raise(d)
  BY <1>3, <1>7, RaiseStep DEF Raise
<1> QED  BY <1>4, <1>5, <1>6, <1>7 DEF StreamerStep

\* The station set's selection matters to nobody who has not asked for it.
LEMMA SelectKeeps ==
  ASSUME PlaybackInv, SelectStation
  PROVE  PlaybackInv'
<1>1. TypeOK'
  BY DEF PlaybackInv, TypeOK, MaybeStation, SelectStation, stateVars, resetVars,
         socketVars, receiveVars, bufferVars
<1>2. UNCHANGED <<pc, stateVars, resetVars, socketVars, receiveVars, bufferVars>>
  BY DEF SelectStation
<1>3. (Requested <=> Requested') /\ (Ended <=> Ended')
  BY <1>2 DEF Requested, Raising, Noticed, Ended, stateVars, resetVars
<1>4. WriteInv'  BY <1>2 DEF PlaybackInv, WriteInv, receiveVars
<1>5. CopyInv'
  BY <1>2, <1>3 DEF PlaybackInv, CopyInv, Resetting, stateVars, resetVars
<1>6. StaleIsFlushed'
  BY <1>2, <1>3 DEF PlaybackInv, StaleIsFlushed, resetVars, receiveVars, bufferVars
<1>7. SwitchIsPending'
  BY <1>2, <1>3 DEF PlaybackInv, SwitchIsPending, stateVars, resetVars, socketVars
<1> QED  BY <1>1, <1>4, <1>5, <1>6, <1>7 DEF PlaybackInv

-----------------------------------------------------------------------------
(* The invariant and what follows from it *)

\* Requests for a reset of playback reach the resetter as check_state, connect and
\* the threads that ask for one pass them on.
THEOREM PlaybackInvariant == Spec => []PlaybackInv
<1>1. Init => PlaybackInv
  <2> SUFFICES ASSUME Init PROVE PlaybackInv  OBVIOUS
  <2>1. TypeOK  BY InitType
  <2>2. pc["resetter"] = "check" /\ pc["data_receiver"] = "call"
    BY PlaybackAssumption DEF Init, Threads, Start
  <2>3. contents = {} /\ active_station = None  BY DEF Init
  <2> QED
    BY <2>1, <2>2, <2>3
       DEF PlaybackInv, WriteInv, CopyInv, Resetting, StaleIsFlushed, SwitchIsPending
<1>2. PlaybackInv /\ [Next]_vars => PlaybackInv'
  <2> SUFFICES ASSUME PlaybackInv, [Next]_vars PROVE PlaybackInv'  OBVIOUS
  <2>1. TypeOK /\ WriteInv  BY DEF PlaybackInv
  <2>2. CASE SelectStation  BY <2>2, SelectKeeps
  <2>3. CASE \E t \in Selectors : SelectorStep(t)
    BY <2>1, <2>3, SelectorType, SelectorKeeps DEF PlaybackInv
  <2>4. CASE ResetterStep
    BY <2>1, <2>4, ResetterType, ResetterKeeps DEF PlaybackInv
  <2>5. CASE ReceiverStep
    BY <2>1, <2>5, ReceiverType, ReceiverKeeps DEF PlaybackInv
  <2>6. CASE StreamerStep
    BY <2>1, <2>6, StreamerType, StreamerKeeps DEF PlaybackInv
  <2>7. CASE Collision
    <3>1. EndProcess  BY <2>7 DEF Collision
    <3>2. TypeOK'
      BY <2>1, <2>7, <3>1, EndStep
         DEF TypeOK, Collision, registerVars, stateVars, resetVars, socketVars,
             receiveVars, bufferVars
    <3> QED  BY <3>1, <3>2, EndStep DEF PlaybackInv
  <2>8. CASE UNCHANGED vars
    BY <2>8 DEF PlaybackInv, TypeOK, WriteInv, CopyInv, Resetting, StaleIsFlushed,
                SwitchIsPending, Requested, Raising, Noticed, Ended, vars,
                registerVars, stateVars, resetVars, socketVars, receiveVars, bufferVars
  <2> QED  BY <2>2, <2>3, <2>4, <2>5, <2>6, <2>7, <2>8 DEF Next
<1> QED  BY <1>1, <1>2, PTL DEF Spec

\* Every variable keeps its type, whatever the threads interleave.
THEOREM PlaybackTypeCorrect == Spec => []TypeOK
<1>1. PlaybackInv => TypeOK  BY DEF PlaybackInv
<1> QED  BY <1>1, PlaybackInvariant, PTL

\* A buffer with messages of a session that is over (register_session_check_ignore
\* found a later one) is about to be reset, unless check_state lost the request.
THEOREM StaleAlwaysFlushed == Spec => []StaleIsFlushed
<1>1. PlaybackInv => StaleIsFlushed  BY DEF PlaybackInv
<1> QED  BY <1>1, PlaybackInvariant, PTL

\* A registered station is connected to or about to be, unless check_state lost the
\* request.
THEOREM SwitchAlwaysPending == Spec => []SwitchIsPending
<1>1. PlaybackInv => SwitchIsPending  BY DEF PlaybackInv
<1> QED  BY <1>1, PlaybackInvariant, PTL

\* What data_receiver writes is of the last session registered, and that session
\* only grows.
THEOREM AlwaysWritesLastSession == Spec => WritesLastSessionOnly
<1> DEFINE Writes == contents' \ contents \subseteq {session_id} /\ session_id' >= session_id
<1>1. PlaybackInv /\ [Next]_vars => [Writes]_vars
  <2> SUFFICES ASSUME PlaybackInv, Next PROVE Writes  OBVIOUS
  <2>1. session_id \in Int /\ msg \in Int
    BY DEF PlaybackInv, TypeOK, Sessions
  <2>2. CASE WriteMessage
    <3>1. msg = session_id  BY <2>2 DEF PlaybackInv, WriteInv, WriteMessage, At
    <3> QED  BY <2>1, <2>2, <3>1 DEF WriteMessage
  <2>3. CASE RegisterSession
    <3>1. session_id' >= session_id  BY <2>1, <2>3 DEF RegisterSession
    <3> QED  BY <2>3, <3>1 DEF RegisterSession, bufferVars
  <2>4. CASE contents' \subseteq contents /\ UNCHANGED session_id
    BY <2>1, <2>4
  <2>5. WriteMessage \/ RegisterSession
          \/ (contents' \subseteq contents /\ UNCHANGED session_id)
    <3>1. CASE SelectStation  BY <3>1 DEF SelectStation, receiveVars, bufferVars
    <3>2. CASE \E t \in Selectors : SelectorStep(t)
      BY <3>2 DEF SelectorStep, GetSelected, RegisterTest, RegisterCompare,
                  RegisterAssign, Forget, Raise, receiveVars, bufferVars
    <3>3. CASE ResetterStep
      BY <3>3 DEF ResetterStep, CheckDirty, ClearDirty, CopyStation, ResetBuffer,
                  Connect, Open, Bind, receiveVars, bufferVars
    <3>4. CASE ReceiverStep
      BY <3>4 DEF ReceiverStep, CallRead, ReadTimeout, ReadMessage, WriteThrows,
                  Forget, Raise, receiveVars, bufferVars
    <3>5. CASE StreamerStep
      BY <3>5 DEF StreamerStep, StreamMessage, StreamThrows, Forget, Raise,
                  receiveVars, bufferVars
    <3>6. CASE Collision  BY <3>6 DEF Collision, receiveVars, bufferVars
    <3> QED  BY <3>1, <3>2, <3>3, <3>4, <3>5, <3>6 DEF Next
  <2> QED  BY <2>2, <2>3, <2>4, <2>5
<1> QED  BY <1>1, PlaybackInvariant, PTL DEF Spec, WritesLastSessionOnly
=============================================================================
