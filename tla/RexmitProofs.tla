---------------------------- MODULE RexmitProofs ----------------------------
(***************************************************************************)
(* What the receiver's requests for retransmission guarantee for every     *)
(* capacity, every set of messages and every RTIME, in every interleaving  *)
(* of data_receiver, data_streamer, resetter and rexmit_sender.            *)
(*                                                                         *)
(* The threads use the buffer through its calls alone, so that what        *)
(* BufferProofs shows of the buffer holds here: BP is its instance.        *)
(***************************************************************************)
EXTENDS Rexmit, Arithmetic, SequenceTheorems, FiniteSetTheorems, TLAPS

BP == INSTANCE BufferProofs

-----------------------------------------------------------------------------
(* The buffer inside *)

\* A request for room is the only call whose argument no message brings.
LEMMA RexmitStepsBuffer ==
  ASSUME TypeOK, [Next]_vars
  PROVE  [Buf!Next]_(Buf!vars)
<1>1. CASE \E m \in Messages : Write(m)
  BY <1>1 DEF Write, Buf!Next
<1>2. CASE Stream
  BY <1>2 DEF Stream, Buf!Next
<1>3. CASE ResetBuffer
  BY <1>3 DEF ResetBuffer, Buf!Next
<1>4. CASE CheckSpace
  <2>1. PICK id \in unchecked : Buf!HasSpaceFor(id)
    BY <1>4 DEF CheckSpace
  <2>2. id \in Buf!Ids
    BY DEF TypeOK, Ids
  <2>3. QED
    BY <2>1, <2>2 DEF Buf!Next
<1>5. CASE AppendIds \/ ResetManager \/ Filter \/ Send \/ Collision \/ Tick \/ UNCHANGED vars
  BY <1>5 DEF AppendIds, ResetManager, Filter, Send, Collision, Tick, vars,
     bufferVars, Buf!vars
<1>6. QED
  BY <1>1, <1>2, <1>3, <1>4, <1>5 DEF Next, RexmitSenderStep

\* The buffer of Rexmit and that of the proofs are the same.
LEMMA SameInv ==
  (BP!BufferInv <=> Buf!BufferInv) /\ (BP!BufferInv' <=> Buf!BufferInv')
<1> USE DEF Buf!BufferInv, BP!BufferInv, Buf!TypeOK, BP!TypeOK, Buf!Calls, BP!Calls,
            Buf!MissedHaveRoom, BP!MissedHaveRoom, Buf!IsWindow, BP!IsWindow,
            Buf!Alive, BP!Alive
<1>1. BP!BufferInv <=> Buf!BufferInv
  OBVIOUS
<1>2. BP!BufferInv' <=> Buf!BufferInv'
  OBVIOUS
<1>3. QED
  BY <1>1, <1>2

\* A write into the one is a write into the other.
LEMMA SameWrite ==
  ASSUME NEW m \in Messages, Buf!WriteGetMissed(m)
  PROVE  BP!WriteGetMissed(m)
  BY DEF Buf!WriteGetMissed, BP!WriteGetMissed, Buf!SessionOf, BP!SessionOf,
     Buf!StateAfter, BP!StateAfter, Buf!RefuseMessage, BP!RefuseMessage,
     Buf!SaveNewMessage, BP!SaveNewMessage, Buf!SaveMissedMessage,
     BP!SaveMissedMessage, Buf!IgnoreOldMessage, BP!IgnoreOldMessage,
     Buf!ReportMissed, BP!ReportMissed, Buf!Alive, BP!Alive, Buf!IsNewest,
     BP!IsNewest, Buf!GapIds, BP!GapIds, Buf!Excess, BP!Excess, Buf!Without,
     BP!Without, Buf!NoValues, BP!NoValues, Buf!SlotOf, BP!SlotOf, Buf!Oldest,
     BP!Oldest, Buf!Newest, BP!Newest, Buf!Scanned, BP!Scanned, Buf!ScanFrom,
     BP!ScanFrom, Buf!ScanUntil, BP!ScanUntil, Buf!Larger, BP!Larger,
     Buf!Smaller, BP!Smaller, Buf!OutOfRange, BP!OutOfRange, Buf!ReportedFor,
     BP!ReportedFor, Buf!IsIndex, BP!IsIndex, Buf!Result, BP!Result

\* A call of the one is a call of the other.
LEMMA SameNext ==
  ASSUME [Buf!Next]_(Buf!vars)
  PROVE  [BP!Next]_(BP!vars)
<1>1. CASE \E m \in Messages : Buf!WriteGetMissed(m)
  BY <1>1, SameWrite DEF BP!Next
<1>2. CASE Buf!TryReadNotReadable \/ Buf!TryReadThrows \/ Buf!TryReadPackage
  BY <1>2 DEF BP!Next, Buf!TryReadNotReadable, BP!TryReadNotReadable,
     Buf!TryReadThrows, BP!TryReadThrows, Buf!TryReadPackage, BP!TryReadPackage,
     Buf!FrontIsPresent, BP!FrontIsPresent, Buf!Popped, BP!Popped,
     Buf!Result, BP!Result, Buf!Alive, BP!Alive
<1>3. CASE \E id \in Buf!Ids : Buf!HasSpaceFor(id)
  BY <1>3 DEF BP!Next, Buf!Ids, BP!Ids, Buf!HasSpaceFor, BP!HasSpaceFor,
     Buf!Oldest, BP!Oldest, Buf!Newest, BP!Newest, Buf!Result, BP!Result,
     Buf!Alive, BP!Alive
<1>4. CASE Buf!Reset
  BY <1>4 DEF BP!Next, Buf!Reset, BP!Reset, Buf!Result, BP!Result,
     Buf!Alive, BP!Alive
<1>5. CASE UNCHANGED Buf!vars
  BY <1>5 DEF Buf!vars, BP!vars
<1>6. QED
  BY <1>1, <1>2, <1>3, <1>4, <1>5 DEF Buf!Next

\* Every step of the threads keeps what the buffer promises.
LEMMA NextBuffer ==
  ASSUME TypeOK, Buf!BufferInv, [Next]_vars
  PROVE  Buf!BufferInv'
<1>1. [BP!Next]_(BP!vars) /\ BP!BufferInv /\ BP!BufferAssumption
  BY RexmitStepsBuffer, SameNext, SameInv, RexmitAssumption DEF BP!BufferAssumption
<1>2. BP!BufferInv'
  BY <1>1, BP!NextBufferInv
<1>3. QED
  BY <1>2, SameInv

\* What a write reports are finitely many of the ids the manager knows.
LEMMA WriteReportsIds ==
  ASSUME Buf!BufferInv, Buf!BufferInv', NEW m \in Messages, Buf!WriteGetMissed(m),
         result'.call = "write"
  PROVE  result'.ids \subseteq Ids /\ IsFiniteSet(result'.ids)
<1>1. /\ BP!WriteGetMissed(m) /\ BP!BufferInv /\ BP!BufferInv' /\ BP!BufferAssumption
  BY SameWrite, SameInv, RexmitAssumption DEF BP!BufferAssumption
<1>2. result'.ids \subseteq BP!Ids /\ result'.ids \subseteq 0..m.id
  BY <1>1, BP!ReportedAreIds
<1>3. IsFiniteSet(0..m.id)
  BY FS_Interval, RexmitAssumption
<1>4. IsFiniteSet(result'.ids)
  BY <1>2, <1>3, FS_Subset
<1>5. QED
  BY <1>2, <1>4 DEF Ids, Buf!Ids, BP!Ids

\* An id without room has no slot, so no empty one.
LEMMA NoRoomNotEmpty ==
  ASSUME Buf!BufferInv, NEW id \in Nat, Buf!HasSpaceFor(id), HasNoRoom(id)
  PROVE  id \notin Empty
<1>1. BP!HasSpaceFor(id) /\ BP!BufferInv /\ BP!BufferAssumption
  <2>1. BP!HasSpaceFor(id)
    BY DEF Buf!HasSpaceFor, BP!HasSpaceFor, Buf!Oldest, BP!Oldest,
       Buf!Newest, BP!Newest, Buf!Result, BP!Result, Buf!Alive, BP!Alive
  <2>2. QED
    BY <2>1, SameInv, RexmitAssumption DEF BP!BufferAssumption
<1>2. \A i \in 1..Len(msg_ids) : msg_ids[i] # id
  BY <1>1, BP!NoSpaceNoSlot DEF HasNoRoom
<1>3. DOMAIN msg_ids = 1..Len(msg_ids)
  BY DEF Buf!BufferInv, Buf!TypeOK
<1>4. QED
  BY <1>2, <1>3 DEF Empty

-----------------------------------------------------------------------------
(* Type correctness *)

Places == [rexmit_sender : {"filter", "space", "send", "ended"},
           resetter : {"buffer", "manager"}]

\* A thread that moves on leaves the other where it is.
LEMMA GotoSender ==
  ASSUME pc \in Places, NEW step \in {"filter", "space", "send", "ended"},
         Goto("rexmit_sender", step)
  PROVE  pc' \in Places /\ pc'.rexmit_sender = step /\ pc'.resetter = pc.resetter
  BY DEF Places, Goto

\* The same of the resetter.
LEMMA GotoResetter ==
  ASSUME pc \in Places, NEW step \in {"buffer", "manager"}, Goto("resetter", step)
  PROVE  pc' \in Places /\ pc'.resetter = step /\ pc'.rexmit_sender = pc.rexmit_sender
  BY DEF Places, Goto

\* The ids a step reports or moves are ids of the buffer's range, and no time
\* exceeds RTIME.
LEMMA NextRexmitType ==
  ASSUME RexmitInv, Buf!BufferInv, Buf!BufferInv', [Next]_vars
  PROVE  TypeOK'
<1>1. /\ TypeOK /\ pc \in Places /\ RTIME \in Nat /\ Ids \subseteq Nat
      /\ Buf!TypeOK' /\ Ids' = Ids
  BY RexmitAssumption DEF RexmitInv, TypeOK, Places, Buf!BufferInv, Ids, Buf!Ids
<1>2. ASSUME NEW m \in Messages, Write(m) PROVE TypeOK'
  <2>1. missed_ids' \subseteq Ids
    BY <1>2, WriteReportsIds DEF Write
  <2>2. overtaken' \subseteq outstanding'
    BY <1>2 DEF Write, Note
  <2>3. UNCHANGED <<rexmit_ids, pc, senderVars, since>>
    BY <1>2 DEF Write
  <2>4. QED
    BY <1>1, <2>1, <2>2, <2>3 DEF TypeOK, senderVars
<1>3. CASE AppendIds
  <2>1. /\ rexmit_ids' = AppendedIds(missed_ids) /\ missed_ids' = {}
        /\ UNCHANGED <<pc, senderVars, since, missVars>>
    BY <1>3 DEF AppendIds
  <2>2. DOMAIN rexmit_ids' \subseteq Ids
    BY <1>1, <2>1 DEF AppendedIds, TypeOK
  <2>3. rexmit_ids' \in [DOMAIN rexmit_ids' -> 0..RTIME]
    BY <1>1, <2>1 DEF AppendedIds, TypeOK
  <2>4. QED
    BY <1>1, <2>1, <2>2, <2>3 DEF TypeOK, senderVars, missVars
<1>4. CASE Stream
  <2>1. overtaken' \subseteq outstanding'
    BY <1>4 DEF Stream, Note
  <2>2. UNCHANGED <<rexmit_ids, missed_ids, pc, senderVars, since>>
    BY <1>4 DEF Stream
  <2>3. QED
    BY <1>1, <2>1, <2>2 DEF TypeOK, senderVars
<1>5. CASE ResetBuffer
  <2>1. overtaken' \subseteq outstanding'
    BY <1>5 DEF ResetBuffer, Note
  <2>2. pc' \in Places /\ UNCHANGED <<rexmit_ids, missed_ids, senderVars, since>>
    BY <1>1, <1>5, GotoResetter DEF ResetBuffer
  <2>3. QED
    BY <1>1, <2>1, <2>2 DEF TypeOK, Places, senderVars
<1>6. CASE ResetManager
  <2>1. /\ pc' \in Places /\ rexmit_ids' = << >>
        /\ UNCHANGED <<missed_ids, senderVars, since, missVars>>
    BY <1>1, <1>6, GotoResetter DEF ResetManager
  <2>2. DOMAIN rexmit_ids' = {} /\ rexmit_ids' \in [{} -> 0..RTIME]
    BY <2>1
  <2>3. QED
    BY <1>1, <2>1, <2>2 DEF TypeOK, Places, senderVars, missVars
<1>7. CASE Filter
  <2>1. /\ pc' \in Places
        /\ UNCHANGED <<missed_ids, missVars>> /\ ids_to_forget' = {}
    BY <1>1, <1>7, GotoSender DEF Filter
  <2>2. /\ rexmit_ids' = FilteredIds(ids_to_forget)
        /\ ids_to_rexmit' = DueIds(ids_to_forget) /\ unchecked' = ids_to_rexmit'
        /\ since' = [id \in Ids |-> IF id \in ids_to_rexmit' THEN 0 ELSE since[id]]
    BY <1>7 DEF Filter
  <2>3. DOMAIN rexmit_ids' \subseteq Ids /\ rexmit_ids' \in [DOMAIN rexmit_ids' -> 0..RTIME]
    BY <1>1, <2>2 DEF FilteredIds, KeptIds, TypeOK
  <2>4. ids_to_rexmit' \subseteq Ids /\ unchecked' \subseteq ids_to_rexmit'
    BY <1>1, <2>2 DEF DueIds, KeptIds, TypeOK
  <2>5. since' \in [Ids -> 0..RTIME]
    BY <1>1, <2>2 DEF TypeOK
  <2>6. QED
    BY <1>1, <2>1, <2>3, <2>4, <2>5 DEF TypeOK, Places, missVars
<1>8. CASE CheckSpace
  <2>1. PICK id \in unchecked :
          /\ unchecked' = unchecked \ {id}
          /\ IF HasNoRoom(id)
               THEN /\ ids_to_forget' = ids_to_forget \cup {id}
                    /\ ids_to_rexmit' = ids_to_rexmit \ {id}
               ELSE UNCHANGED <<ids_to_forget, ids_to_rexmit>>
    BY <1>8 DEF CheckSpace
  <2>2. pc' \in Places /\ UNCHANGED <<rexmit_ids, missed_ids, since, missVars>>
    BY <1>1, <1>8, GotoSender DEF CheckSpace
  <2>3. /\ ids_to_forget' \subseteq Ids /\ ids_to_rexmit' \subseteq Ids
        /\ unchecked' \subseteq ids_to_rexmit'
    BY <1>1, <2>1 DEF TypeOK
  <2>4. QED
    BY <1>1, <2>2, <2>3 DEF TypeOK, Places, missVars
<1>9. CASE Send
  <2>1. /\ pc' \in Places /\ ids_to_rexmit' = {}
        /\ UNCHANGED <<rexmit_ids, missed_ids, ids_to_forget, unchecked, since, missVars>>
    BY <1>1, <1>9, GotoSender DEF Send
  <2>2. unchecked = {}
    BY <1>9 DEF Send, At, RexmitInv
  <2>3. QED
    BY <1>1, <2>1, <2>2 DEF TypeOK, Places, missVars
<1>10. CASE Collision
  <2>1. pc' \in Places
        /\ UNCHANGED <<rexmit_ids, missed_ids, senderVars, since, missVars>>
    BY <1>1, <1>10, GotoSender DEF Collision
  <2>2. QED
    BY <1>1, <2>1 DEF TypeOK, Places, senderVars, missVars
<1>11. CASE Tick
  <2>1. /\ rexmit_ids' = [id \in DOMAIN rexmit_ids |->
                            IF rexmit_ids[id] = 0 THEN 0 ELSE rexmit_ids[id] - 1]
        /\ since' = [id \in Ids |-> IF since[id] = RTIME THEN RTIME ELSE since[id] + 1]
        /\ UNCHANGED <<missed_ids, pc, senderVars, missVars>>
    BY <1>11 DEF Tick
  <2>2. DOMAIN rexmit_ids' \subseteq Ids /\ rexmit_ids' \in [DOMAIN rexmit_ids' -> 0..RTIME]
    BY <1>1, <2>1 DEF TypeOK
  <2>3. since' \in [Ids -> 0..RTIME]
    BY <1>1, <2>1 DEF TypeOK
  <2>4. QED
    BY <1>1, <2>1, <2>2, <2>3 DEF TypeOK, senderVars, missVars
<1>12. CASE UNCHANGED vars
  BY <1>1, <1>12 DEF vars, bufferVars, senderVars, missVars, TypeOK
<1>13. QED
  BY <1>2, <1>3, <1>4, <1>5, <1>6, <1>7, <1>8, <1>9, <1>10, <1>11, <1>12
     DEF Next, RexmitSenderStep

-----------------------------------------------------------------------------
(* The other conjuncts of RexmitInv *)

\* Steps that leave the deques and the reported misses alone.
ManagerStep == AppendIds \/ ResetManager \/ Filter \/ CheckSpace \/ Send \/ Collision \/ Tick

\* They do not change what is outstanding, nor which slots are empty.
LEMMA ManagerFrame ==
  ASSUME ManagerStep \/ UNCHANGED vars
  PROVE  outstanding' = outstanding /\ overtaken' = overtaken /\ Empty' = Empty
<1>1. CASE CheckSpace
  <2>1. PICK id \in unchecked : Buf!HasSpaceFor(id)
    BY <1>1 DEF CheckSpace
  <2>2. UNCHANGED <<msg_ids, msg_vals>>
    BY <2>1 DEF Buf!HasSpaceFor
  <2>3. UNCHANGED missVars
    BY <1>1 DEF CheckSpace
  <2>4. QED
    BY <2>2, <2>3 DEF missVars, Empty
<1>2. CASE AppendIds \/ ResetManager \/ Filter \/ Send \/ Collision \/ Tick \/ UNCHANGED vars
  <2>1. UNCHANGED <<bufferVars, missVars>>
    BY <1>2 DEF AppendIds, ResetManager, Filter, Send, Collision, Tick, vars
  <2>2. QED
    BY <2>1 DEF bufferVars, missVars, Empty
<1>3. QED
  BY <1>1, <1>2 DEF ManagerStep

\* What a report adds is in missed_ids, and overtaken when it races.
LEMMA NoteEffect ==
  ASSUME NEW reported, Note(reported), outstanding \subseteq Empty
  PROVE  /\ outstanding' \subseteq Empty'
         /\ outstanding' \subseteq outstanding \cup reported
         /\ overtaken' \subseteq outstanding'
         /\ overtaken \cap outstanding' \subseteq overtaken'
         /\ pc.resetter = "manager" => reported \cap outstanding' \subseteq overtaken'
         /\ reported \cap ids_to_forget \cap outstanding' \subseteq overtaken'
  BY DEF Note

\* A step of the buffer notes what it reports and leaves the manager as it is.
LEMMA BufferStepEffect ==
  ASSUME TypeOK, (\E m \in Messages : Write(m)) \/ Stream \/ ResetBuffer
  PROVE  \E reported :
           /\ Note(reported) /\ reported \subseteq missed_ids'
           /\ missed_ids \subseteq missed_ids'
           /\ UNCHANGED <<rexmit_ids, senderVars, since>>
           /\ pc'.rexmit_sender = pc.rexmit_sender
           /\ pc' = pc \/ (Empty' = {} /\ pc.resetter = "buffer")
<1>1. ASSUME NEW m \in Messages, Write(m)
      PROVE  /\ Note(missed_ids') /\ missed_ids \subseteq missed_ids'
             /\ UNCHANGED <<rexmit_ids, pc, senderVars, since>>
  BY <1>1 DEF Write
<1>2. CASE Stream
  BY <1>2 DEF Stream
<1>3. CASE ResetBuffer
  <2>1. /\ Note({}) /\ UNCHANGED <<rexmit_ids, missed_ids, senderVars, since>>
        /\ pc.resetter = "buffer"
    BY <1>3 DEF ResetBuffer, At
  <2>2. msg_ids' = <<>>
    BY <1>3 DEF ResetBuffer, Buf!Reset
  <2>3. Empty' = {}
    BY <2>2 DEF Empty
  <2>4. pc'.rexmit_sender = pc.rexmit_sender
    BY <1>3, GotoResetter DEF ResetBuffer, TypeOK, Places
  <2>5. QED
    BY <2>1, <2>3, <2>4
<1>4. QED
  BY <1>1, <1>2, <1>3

\* A miss that is outstanding has an empty slot.
LEMMA NextOutstanding ==
  ASSUME RexmitInv, [Next]_vars
  PROVE  outstanding' \subseteq Empty'
<1>1. CASE (\E m \in Messages : Write(m)) \/ Stream \/ ResetBuffer
  BY <1>1, BufferStepEffect, NoteEffect DEF RexmitInv
<1>2. CASE ManagerStep \/ UNCHANGED vars
  BY <1>2, ManagerFrame DEF RexmitInv
<1>3. QED
  BY <1>1, <1>2 DEF Next, RexmitSenderStep, ManagerStep

\* rexmit_sender has ids to check in its loop only.
LEMMA NextUnchecked ==
  ASSUME RexmitInv, [Next]_vars
  PROVE  pc'.rexmit_sender \in {"filter", "send"} => unchecked' = {}
<1>1. /\ TypeOK /\ pc \in Places
      /\ pc.rexmit_sender \in {"filter", "send"} => unchecked = {}
  BY DEF RexmitInv, TypeOK, Places
<1>2. CASE (\E m \in Messages : Write(m)) \/ Stream \/ ResetBuffer
  BY <1>1, <1>2, BufferStepEffect DEF senderVars
<1>3. CASE AppendIds \/ Tick \/ UNCHANGED vars
  BY <1>1, <1>3 DEF AppendIds, Tick, vars, senderVars
<1>4. CASE ResetManager
  BY <1>1, <1>4, GotoResetter DEF ResetManager, senderVars
<1>5. CASE Filter
  <2>1. /\ unchecked' = ids_to_rexmit'
        /\ Goto("rexmit_sender", IF ids_to_rexmit' = {} THEN "filter" ELSE "space")
    BY <1>5 DEF Filter
  <2>2. ids_to_rexmit' # {} => pc'.rexmit_sender = "space"
    BY <1>1, <2>1, GotoSender
  <2>3. QED
    BY <2>1, <2>2
<1>6. CASE CheckSpace
  <2>1. unchecked' # {} => Goto("rexmit_sender", "space")
    BY <1>6 DEF CheckSpace
  <2>2. QED
    BY <1>1, <2>1, GotoSender
<1>7. CASE Send
  BY <1>1, <1>7 DEF Send, At
<1>8. CASE Collision
  BY <1>1, <1>8, GotoSender DEF Collision
<1>9. QED
  BY <1>2, <1>3, <1>4, <1>5, <1>6, <1>7, <1>8 DEF Next, RexmitSenderStep

\* Between the two halves of a reset no report survives it.
LEMMA NextResetRace ==
  ASSUME RexmitInv, [Next]_vars
  PROVE  pc'.resetter = "manager" => outstanding' \subseteq overtaken'
<1>1. /\ TypeOK /\ pc \in Places /\ outstanding \subseteq Empty
      /\ pc.resetter = "manager" => outstanding \subseteq overtaken
  BY DEF RexmitInv, TypeOK, Places
<1>2. CASE (\E m \in Messages : Write(m)) \/ Stream \/ ResetBuffer
  <2>1. PICK reported :
          Note(reported) /\ (pc' = pc \/ (Empty' = {} /\ pc.resetter = "buffer"))
    BY <1>1, <1>2, BufferStepEffect
  <2>2. QED
    BY <1>1, <2>1, NoteEffect
<1>3. CASE ResetManager
  BY <1>1, <1>3, GotoResetter DEF ResetManager
<1>4. CASE (ManagerStep /\ ~ ResetManager) \/ UNCHANGED vars
  <2>1. pc'.resetter = pc.resetter
    <3>1. CASE Filter \/ CheckSpace \/ Send \/ Collision
      BY <1>1, <3>1, GotoSender DEF Filter, CheckSpace, Send, Collision
    <3>2. CASE AppendIds \/ Tick \/ UNCHANGED vars
      BY <3>2 DEF AppendIds, Tick, vars
    <3>3. QED
      BY <1>4, <3>1, <3>2 DEF ManagerStep
  <2>2. QED
    BY <1>1, <1>4, <2>1, ManagerFrame
<1>5. QED
  BY <1>2, <1>3, <1>4 DEF Next, RexmitSenderStep, ManagerStep

\* An id about to be forgotten is not outstanding, unless it was reported since
\* rexmit_sender looked.
LEMMA NextForgetRace ==
  ASSUME RexmitInv, Buf!BufferInv, [Next]_vars
  PROVE  outstanding' \cap ids_to_forget' \subseteq overtaken'
<1>1. /\ TypeOK /\ outstanding \subseteq Empty /\ Ids \subseteq Nat
      /\ outstanding \cap ids_to_forget \subseteq overtaken
  BY RexmitAssumption DEF RexmitInv, Ids, Buf!Ids
<1>2. CASE (\E m \in Messages : Write(m)) \/ Stream \/ ResetBuffer
  <2>1. PICK reported : Note(reported) /\ UNCHANGED senderVars
    BY <1>1, <1>2, BufferStepEffect
  <2>2. QED
    BY <1>1, <2>1, NoteEffect DEF senderVars
<1>3. CASE CheckSpace
  <2>1. PICK id \in unchecked :
          /\ Buf!HasSpaceFor(id)
          /\ IF HasNoRoom(id)
               THEN /\ ids_to_forget' = ids_to_forget \cup {id}
                    /\ ids_to_rexmit' = ids_to_rexmit \ {id}
               ELSE UNCHANGED <<ids_to_forget, ids_to_rexmit>>
    BY <1>3 DEF CheckSpace
  <2>2. id \in Nat
    BY <1>1 DEF TypeOK
  <2>3. HasNoRoom(id) => id \notin outstanding
    BY <1>1, <2>1, <2>2, NoRoomNotEmpty
  <2>4. outstanding' = outstanding /\ overtaken' = overtaken
    BY <1>3, ManagerFrame DEF ManagerStep
  <2>5. QED
    BY <1>1, <2>1, <2>3, <2>4
<1>4. CASE Filter
  BY <1>4 DEF Filter
<1>5. CASE AppendIds \/ ResetManager \/ Send \/ Collision \/ Tick \/ UNCHANGED vars
  <2>1. ids_to_forget' = ids_to_forget
    BY <1>5 DEF AppendIds, ResetManager, Send, Collision, Tick, vars, senderVars
  <2>2. QED
    BY <1>1, <1>5, <2>1, ManagerFrame DEF ManagerStep
<1>6. QED
  BY <1>2, <1>3, <1>4, <1>5 DEF Next, RexmitSenderStep

\* What is outstanding and not overtaken stays with the manager, or with
\* data_receiver on its way there.
LEMMA NextMissesAreKept ==
  ASSUME RexmitInv, [Next]_vars
  PROVE  MissesAreKept'
<1>1. /\ TypeOK /\ outstanding \subseteq Empty
      /\ pc.resetter = "manager" => outstanding \subseteq overtaken
      /\ outstanding \cap ids_to_forget \subseteq overtaken
      /\ outstanding \ overtaken \subseteq DOMAIN rexmit_ids \cup missed_ids
  BY DEF RexmitInv, MissesAreKept
<1>2. CASE (\E m \in Messages : Write(m)) \/ Stream \/ ResetBuffer
  <2>1. PICK reported :
          /\ Note(reported) /\ reported \subseteq missed_ids'
          /\ missed_ids \subseteq missed_ids' /\ rexmit_ids' = rexmit_ids
    BY <1>1, <1>2, BufferStepEffect
  <2>2. QED
    BY <1>1, <2>1, NoteEffect DEF MissesAreKept
<1>3. CASE ManagerStep \/ UNCHANGED vars
  <2>1. outstanding' = outstanding /\ overtaken' = overtaken
    BY <1>3, ManagerFrame
  <2>2. CASE AppendIds
    <3>1. DOMAIN rexmit_ids' = DOMAIN rexmit_ids \cup missed_ids
      BY <2>2 DEF AppendIds, AppendedIds
    <3>2. QED
      BY <1>1, <2>1, <3>1 DEF MissesAreKept
  <2>3. CASE ResetManager
    BY <1>1, <2>1, <2>3 DEF ResetManager, At, MissesAreKept
  <2>4. CASE Filter
    <3>1. DOMAIN rexmit_ids' = DOMAIN rexmit_ids \ ids_to_forget /\ missed_ids' = missed_ids
      BY <2>4 DEF Filter, FilteredIds, KeptIds
    <3>2. QED
      BY <1>1, <2>1, <3>1 DEF MissesAreKept
  <2>5. CASE Tick
    <3>1. DOMAIN rexmit_ids' = DOMAIN rexmit_ids /\ missed_ids' = missed_ids
      BY <2>5 DEF Tick
    <3>2. QED
      BY <1>1, <2>1, <3>1 DEF MissesAreKept
  <2>6. CASE CheckSpace \/ Send \/ Collision \/ UNCHANGED vars
    <3>1. UNCHANGED <<rexmit_ids, missed_ids>>
      BY <2>6 DEF CheckSpace, Send, Collision, vars
    <3>2. QED
      BY <1>1, <2>1, <3>1 DEF MissesAreKept
  <2>7. QED
    BY <1>3, <2>2, <2>3, <2>4, <2>5, <2>6 DEF ManagerStep
<1>4. QED
  BY <1>2, <1>3 DEF Next, RexmitSenderStep, ManagerStep

\* The two clocks of an id add up to RTIME or more.
LEMMA NextPaced ==
  ASSUME RexmitInv, [Next]_vars
  PROVE  Paced'
<1>1. /\ TypeOK /\ Paced /\ RTIME \in Nat
  BY RexmitAssumption DEF RexmitInv
<1>2. /\ \A id \in DOMAIN rexmit_ids : id \in Ids /\ rexmit_ids[id] \in 0..RTIME
      /\ \A id \in Ids : since[id] \in 0..RTIME
  BY <1>1 DEF TypeOK
<1>3. CASE (\E m \in Messages : Write(m)) \/ Stream \/ ResetBuffer
  BY <1>1, <1>3, BufferStepEffect DEF Paced
<1>4. CASE AppendIds
  <2>1. rexmit_ids' = AppendedIds(missed_ids) /\ since' = since /\ missed_ids \subseteq Ids
    BY <1>1, <1>4 DEF AppendIds, TypeOK
  <2>2. QED
    BY <1>1, <1>2, <2>1 DEF AppendedIds, Paced
<1>5. CASE ResetManager
  <2>1. DOMAIN rexmit_ids' = {}
    BY <1>5 DEF ResetManager
  <2>2. QED
    BY <2>1 DEF Paced
<1>6. CASE Filter
  <2>1. /\ rexmit_ids' = FilteredIds(ids_to_forget)
        /\ ids_to_rexmit' = DueIds(ids_to_forget)
        /\ since' = [id \in Ids |-> IF id \in ids_to_rexmit' THEN 0 ELSE since[id]]
    BY <1>6 DEF Filter
  <2>2. ASSUME NEW id \in DOMAIN rexmit_ids' PROVE rexmit_ids'[id] + since'[id] >= RTIME
    <3>1. /\ id \in KeptIds(ids_to_forget) /\ id \in DOMAIN rexmit_ids /\ id \in Ids
          /\ rexmit_ids'[id] = IF rexmit_ids[id] = 0 THEN RTIME ELSE rexmit_ids[id]
      BY <1>2, <2>1, <2>2 DEF FilteredIds, KeptIds
    <3>2. id \in ids_to_rexmit' <=> rexmit_ids[id] = 0
      BY <2>1, <3>1 DEF DueIds
    <3>3. since'[id] = IF rexmit_ids[id] = 0 THEN 0 ELSE since[id]
      BY <2>1, <3>1, <3>2
    <3>4. rexmit_ids[id] + since[id] >= RTIME
      BY <1>1, <3>1 DEF Paced
    <3>5. QED
      BY <1>1, <1>2, <3>1, <3>3, <3>4
  <2>3. QED
    BY <2>2 DEF Paced
<1>7. CASE Tick
  <2>1. /\ rexmit_ids' = [id \in DOMAIN rexmit_ids |->
                            IF rexmit_ids[id] = 0 THEN 0 ELSE rexmit_ids[id] - 1]
        /\ since' = [id \in Ids |-> IF since[id] = RTIME THEN RTIME ELSE since[id] + 1]
    BY <1>7 DEF Tick
  <2>2. QED
    BY <1>1, <1>2, <2>1 DEF Paced
<1>8. CASE CheckSpace \/ Send \/ Collision \/ UNCHANGED vars
  <2>1. UNCHANGED <<rexmit_ids, since>>
    BY <1>8 DEF CheckSpace, Send, Collision, vars
  <2>2. QED
    BY <1>1, <2>1 DEF Paced
<1>9. QED
  BY <1>3, <1>4, <1>5, <1>6, <1>7, <1>8 DEF Next, RexmitSenderStep

-----------------------------------------------------------------------------
(* What a request says *)

\* The manager and a request have finitely many ids, whatever is reported.
LEMMA NextFinite ==
  ASSUME RexmitInv, Buf!BufferInv, Buf!BufferInv', [Next]_vars
  PROVE  /\ IsFiniteSet(DOMAIN rexmit_ids)'
         /\ IsFiniteSet(missed_ids)'
         /\ IsFiniteSet(ids_to_rexmit)'
<1>1. /\ IsFiniteSet(DOMAIN rexmit_ids) /\ IsFiniteSet(missed_ids)
      /\ IsFiniteSet(ids_to_rexmit) /\ IsFiniteSet({})
  BY FS_EmptySet DEF RexmitInv
<1>2. ASSUME NEW m \in Messages, Write(m)
      PROVE  IsFiniteSet(missed_ids')
  <2>1. CASE result'.call = "write"
    BY <1>2, <2>1, WriteReportsIds DEF Write
  <2>2. CASE result'.call # "write"
    BY <1>1, <1>2, <2>2 DEF Write
  <2>3. QED
    BY <2>1, <2>2
<1>3. CASE (\E m \in Messages : Write(m)) \/ Stream \/ ResetBuffer
  BY <1>1, <1>2, <1>3 DEF Write, Stream, ResetBuffer, senderVars
<1>4. CASE AppendIds
  <2>1. IsFiniteSet(DOMAIN rexmit_ids \cup missed_ids)
    BY <1>1, FS_Union
  <2>2. QED
    BY <1>1, <1>4, <2>1 DEF AppendIds, AppendedIds, senderVars
<1>5. CASE ResetManager
  BY <1>1, <1>5 DEF ResetManager, senderVars
<1>6. CASE Filter
  <2>1. /\ DOMAIN rexmit_ids' = KeptIds(ids_to_forget)
        /\ ids_to_rexmit' = DueIds(ids_to_forget) /\ missed_ids' = missed_ids
    BY <1>6 DEF Filter, FilteredIds
  <2>2. /\ DOMAIN rexmit_ids' \in SUBSET DOMAIN rexmit_ids
        /\ ids_to_rexmit' \in SUBSET DOMAIN rexmit_ids
    BY <2>1 DEF KeptIds, DueIds
  <2>3. IsFiniteSet(DOMAIN rexmit_ids') /\ IsFiniteSet(ids_to_rexmit')
    BY <1>1, <2>2, FS_Subset
  <2>4. QED
    BY <1>1, <2>1, <2>3
<1>7. CASE CheckSpace
  <2>1. ids_to_rexmit' \in SUBSET ids_to_rexmit /\ UNCHANGED <<rexmit_ids, missed_ids>>
    BY <1>7 DEF CheckSpace
  <2>2. IsFiniteSet(ids_to_rexmit')
    BY <1>1, <2>1, FS_Subset
  <2>3. QED
    BY <1>1, <2>1, <2>2
<1>8. CASE Send \/ Collision \/ Tick \/ UNCHANGED vars
  BY <1>1, <1>8 DEF Send, Collision, Tick, vars, senderVars
<1>9. QED
  BY <1>3, <1>4, <1>5, <1>6, <1>7, <1>8 DEF Next, RexmitSenderStep

\* A finite set of numbers in ascending order: the least, then the others.
Sorts(seq, S, n) ==
  /\ seq \in [1..n -> S]
  /\ \A i, j \in 1..n : i < j => seq[i] < seq[j]

\* Every finite set of numbers can be sorted.
LEMMA SortingExists ==
  ASSUME NEW ids \in SUBSET Nat, IsFiniteSet(ids)
  PROVE  \E seq : Sorts(seq, ids, Cardinality(ids))
<1> DEFINE Finite(n) == {S \in SUBSET Nat : IsFiniteSet(S) /\ Cardinality(S) = n}
           K == {n \in Nat : \A S \in Finite(n) : \E seq : Sorts(seq, S, n)}
<1>1. 0 \in K
  <2>1. ASSUME NEW S \in Finite(0)
        PROVE  \E seq : Sorts(seq, S, 0)
    <3>1. Sorts([i \in 1..0 |-> 0], S, 0)
      BY DEF Sorts
    <3>2. QED
      BY <3>1
  <2>2. QED
    BY <2>1
<1>2. ASSUME NEW n \in Nat, n \in K
      PROVE  n + 1 \in K
  <2>1. SUFFICES ASSUME NEW S \in Finite(n + 1)
                 PROVE  \E seq : Sorts(seq, S, n + 1)
    OBVIOUS
  <2>2. /\ S \in SUBSET Nat /\ IsFiniteSet(S) /\ Cardinality(S) = n + 1
    OBVIOUS
  <2>3. S # {}
    BY <2>2, FS_EmptySet
  <2>4. PICK x \in S : \A y \in S : x <= y
    BY <2>2, <2>3, LeastNumber
  <2> DEFINE T == S \ {x}
  <2>5. IsFiniteSet(T) /\ Cardinality(T) = n
    <3>1. IsFiniteSet(T) /\ Cardinality(T) = Cardinality(S) - 1
      BY <2>2, FS_RemoveElement
    <3>2. QED
      BY <2>2, <3>1
  <2>6. T \in Finite(n)
    BY <2>2, <2>5
  <2>7. PICK seq : Sorts(seq, T, n)
    BY <1>2, <2>6
  <2> DEFINE more == [i \in 1..(n + 1) |-> IF i = 1 THEN x ELSE seq[i - 1]]
  <2>8. /\ more[1] = x
        /\ \A i \in 2..(n + 1) : i - 1 \in 1..n /\ more[i] = seq[i - 1]
    OBVIOUS
  <2>9. \A i \in 1..n : seq[i] \in S /\ seq[i] \in Nat /\ x < seq[i]
    <3>1. SUFFICES ASSUME NEW i \in 1..n
                   PROVE  seq[i] \in S /\ seq[i] \in Nat /\ x < seq[i]
      OBVIOUS
    <3>2. seq[i] \in S /\ seq[i] # x
      BY <2>7 DEF Sorts
    <3>3. seq[i] \in Nat /\ x \in Nat /\ x <= seq[i]
      BY <2>2, <2>4, <3>2
    <3>4. QED
      BY <3>2, <3>3
  <2>10. more \in [1..(n + 1) -> S]
    BY <2>4, <2>9
  <2> HIDE DEF more
  <2>11. ASSUME NEW i \in 1..(n + 1), NEW j \in 1..(n + 1), i < j
         PROVE  more[i] < more[j]
    <3>1. j \in 2..(n + 1)
      BY <2>11
    <3>2. CASE i = 1
      BY <2>8, <2>9, <3>1, <3>2
    <3>3. CASE i # 1
      <4>1. i \in 2..(n + 1) /\ i - 1 < j - 1
        BY <2>11, <3>3
      <4>2. QED
        BY <2>7, <2>8, <3>1, <4>1 DEF Sorts
    <3>4. QED
      BY <3>2, <3>3
  <2>12. QED
    BY <2>10, <2>11 DEF Sorts
<1>3. Nat \subseteq K
  <2> HIDE DEF K
  <2>1. QED
    BY <1>1, <1>2, SetInduction
<1>4. Cardinality(ids) \in Nat
  BY FS_CardinalityType
<1>5. ids \in Finite(Cardinality(ids))
  OBVIOUS
<1>6. QED
  BY <1>3, <1>4, <1>5

\* Ascending has each number of the set at one place, the smaller ones first.
LEMMA AscendingSorts ==
  ASSUME NEW ids \in SUBSET Nat, IsFiniteSet(ids)
  PROVE  /\ Cardinality(ids) \in Nat
         /\ Sorts(Ascending(ids), ids, Cardinality(ids))
         /\ \A id \in ids : \E i \in 1..Cardinality(ids) : Ascending(ids)[i] = id
<1> DEFINE n == Cardinality(ids)
           seq == Ascending(ids)
<1>1. n \in Nat
  BY FS_CardinalityType
<1>2. PICK some : Sorts(some, ids, n)
  BY SortingExists
<1>3. /\ some \in [1..n -> ids]
      /\ \A i, j \in DOMAIN some : i < j => some[i] < some[j]
  BY <1>2 DEF Sorts
<1>4. /\ seq \in [1..n -> ids]
      /\ \A i, j \in DOMAIN seq : i < j => seq[i] < seq[j]
  BY <1>3 DEF Ascending
<1>5. Sorts(seq, ids, n)
  BY <1>4 DEF Sorts
<1> HIDE DEF seq
<1>6. ASSUME NEW i \in 1..n, NEW j \in 1..n, seq[i] = seq[j]
      PROVE  i = j
  <2>1. seq[i] \in Nat /\ seq[j] \in Nat
    BY <1>4
  <2>2. ~ (i < j) /\ ~ (j < i)
    BY <1>5, <1>6, <2>1 DEF Sorts
  <2>3. QED
    BY <1>1, <2>2
<1>7. seq \in Injection(1..n, ids)
  BY <1>4, <1>6 DEF Injection, IsInjective
<1>8. Cardinality(1..n) = n
  BY <1>1, FS_Interval
<1>9. seq \in Surjection(1..n, ids)
  BY <1>7, <1>8, FS_Injection
<1>10. \A id \in ids : \E i \in 1..n : seq[i] = id
  BY <1>9 DEF Surjection
<1>11. QED
  BY <1>1, <1>5, <1>10 DEF seq

\* What get_rexmit_ids reads is what make_rexmit was given, in ascending order.
LEMMA RequestReadsBack ==
  ASSUME NEW ids \in SUBSET Nat, IsFiniteSet(ids)
  PROVE  LET read == get_rexmit_ids(make_rexmit(ids)) IN
         /\ {read[i] : i \in DOMAIN read} = ids
         /\ \A i, j \in DOMAIN read : i < j => read[i] < read[j]
<1> DEFINE n == Cardinality(ids)
           sorted == Ascending(ids)
           msg == make_rexmit(ids)
           searchable == [i \in DOMAIN msg |->
                            IF i = 1 THEN [msg[i] EXCEPT !.before = ","] ELSE msg[i]]
           commas == {i \in DOMAIN searchable : searchable[i].before = ","}
           found == Ascending(commas)
           read == get_rexmit_ids(msg)
<1>1. /\ n \in Nat /\ Sorts(sorted, ids, n)
      /\ \A id \in ids : \E i \in 1..n : sorted[i] = id
  BY AscendingSorts
<1>2. msg = [i \in 1..n |-> [before |-> IF i = 1 THEN " " ELSE ",", id |-> sorted[i]]]
  BY <1>1 DEF make_rexmit, Sorts
<1>3. read = [i \in DOMAIN found |-> searchable[found[i]].id]
  BY DEF get_rexmit_ids, FoundIds
<1> HIDE DEF sorted, msg
<1>4. /\ DOMAIN searchable = 1..n
      /\ \A i \in 1..n : searchable[i].before = "," /\ searchable[i].id = sorted[i]
  BY <1>2
<1> HIDE DEF searchable
<1>5. commas = 1..n
  BY <1>4
<1>6. IsFiniteSet(1..n) /\ Cardinality(1..n) = n /\ 1..n \in SUBSET Nat
  BY <1>1, FS_Interval
<1>7. /\ Sorts(found, 1..n, n)
      /\ \A k \in 1..n : \E i \in 1..n : found[i] = k
  <2> HIDE DEF n
  <2>1. found = Ascending(1..n)
    BY <1>5
  <2> DEFINE places == 1..n
  <2> HIDE DEF found, commas, places
  <2>2. places \in SUBSET Nat /\ IsFiniteSet(places) /\ Cardinality(places) = n
    BY <1>6 DEF places
  <2>3. /\ Sorts(Ascending(places), places, n)
        /\ \A k \in places : \E i \in 1..n : Ascending(places)[i] = k
    BY <2>2, AscendingSorts
  <2>4. QED
    BY <2>1, <2>3 DEF places
<1> HIDE DEF commas, found, n, read
<1>8. /\ DOMAIN read = 1..n
      /\ \A i \in 1..n : found[i] \in 1..n /\ read[i] = sorted[found[i]]
  BY <1>3, <1>4, <1>7 DEF Sorts
<1>9. \A i \in 1..n : read[i] \in ids
  BY <1>1, <1>8 DEF Sorts
<1>10. \A id \in ids : \E i \in 1..n : read[i] = id
  <2>1. SUFFICES ASSUME NEW id \in ids
                 PROVE  \E i \in 1..n : read[i] = id
    OBVIOUS
  <2>2. PICK k \in 1..n : sorted[k] = id
    BY <1>1
  <2>3. PICK i \in 1..n : found[i] = k
    BY <1>7
  <2>4. QED
    BY <1>8, <2>2, <2>3
<1>11. {read[i] : i \in DOMAIN read} = ids
  BY <1>8, <1>9, <1>10
<1>12. \A i, j \in 1..n : i < j => read[i] < read[j]
  BY <1>1, <1>7, <1>8 DEF Sorts
<1>13. QED
  BY <1>8, <1>11, <1>12 DEF read, msg

-----------------------------------------------------------------------------
(* The theorems *)

\* The invariant holds of the idle receiver.
LEMMA InitRexmit ==
  ASSUME Init
  PROVE  RexmitInv /\ Buf!BufferInv
<1>1. Buf!BufferInv
  BY DEF Init, Buf!Init, Buf!BufferInv, Buf!TypeOK, Buf!MissedHaveRoom,
     Buf!Result, Buf!Calls
<1>2. DOMAIN rexmit_ids = {} /\ rexmit_ids \in [{} -> 0..RTIME]
  BY DEF Init
<1>3. since \in [Ids -> 0..RTIME]
  BY RexmitAssumption DEF Init
<1>4. TypeOK
  BY <1>1, <1>2, <1>3 DEF Init, TypeOK, Buf!BufferInv
<1>5. QED
  BY <1>1, <1>2, <1>4, FS_EmptySet DEF Init, RexmitInv, MissesAreKept, Paced

\* The invariants of the manager and of the buffer, by one induction: the misses
\* need the buffer's window, and the buffer's calls the ids of the manager.
THEOREM RexmitInvariant == Spec => [](RexmitInv /\ Buf!BufferInv)
<1>1. Init => RexmitInv /\ Buf!BufferInv
  BY InitRexmit
<1>2. RexmitInv /\ Buf!BufferInv /\ [Next]_vars => (RexmitInv /\ Buf!BufferInv)'
  <2>1. SUFFICES ASSUME RexmitInv, Buf!BufferInv, [Next]_vars
                 PROVE  RexmitInv' /\ Buf!BufferInv'
    OBVIOUS
  <2>2. Buf!BufferInv'
    BY <2>1, NextBuffer DEF RexmitInv
  <2>3. TypeOK'
    BY <2>1, <2>2, NextRexmitType
  <2>4. /\ outstanding' \subseteq Empty'
        /\ pc'.rexmit_sender \in {"filter", "send"} => unchecked' = {}
        /\ pc'.resetter = "manager" => outstanding' \subseteq overtaken'
        /\ outstanding' \cap ids_to_forget' \subseteq overtaken'
        /\ IsFiniteSet(DOMAIN rexmit_ids)' /\ IsFiniteSet(missed_ids)'
        /\ IsFiniteSet(ids_to_rexmit)'
    BY <2>1, <2>2, NextOutstanding, NextUnchecked, NextResetRace, NextForgetRace, NextFinite
  <2>5. MissesAreKept' /\ Paced'
    BY <2>1, NextMissesAreKept, NextPaced
  <2>6. QED
    BY <2>2, <2>3, <2>4, <2>5 DEF RexmitInv
<1>3. QED
  BY <1>1, <1>2, PTL DEF Spec

\* The receiver's threads use the buffer as its contract says: what they do to
\* it is a behaviour of module Buffer, so every theorem about it holds of it.
THEOREM RexmitImplementsBuffer == Spec => Buf!Spec
<1>1. Init => Buf!Init
  BY DEF Init
<1>2. RexmitInv /\ [Next]_vars => [Buf!Next]_(Buf!vars)
  BY RexmitStepsBuffer DEF RexmitInv
<1>3. QED
  BY <1>1, <1>2, RexmitInvariant, PTL DEF Spec, Buf!Spec

\* Every variable keeps its type; no id leaves the range of the messages.
THEOREM RexmitTypeCorrect == Spec => []TypeOK
<1>1. RexmitInv => TypeOK
  BY DEF RexmitInv
<1>2. QED
  BY <1>1, RexmitInvariant, PTL

\* A reported miss stays with the manager until its slot is filled, played or
\* evicted, except in the two races.
THEOREM MissesAlwaysKept == Spec => []MissesAreKept
<1>1. RexmitInv => MissesAreKept
  BY DEF RexmitInv
<1>2. QED
  BY <1>1, RexmitInvariant, PTL

\* No id is asked for twice within RTIME, through resets and new reports.
THEOREM RequestsAlwaysPaced == Spec => PacedRequests
<1> DEFINE Late == At("rexmit_sender", "filter") => \A id \in unchecked' : since[id] >= RTIME
<1>1. ASSUME RexmitInv, [Next]_vars PROVE Late
  <2>1. SUFFICES ASSUME pc.rexmit_sender = "filter", NEW id \in unchecked'
                 PROVE  since[id] >= RTIME
    BY DEF At
  <2>2. /\ TypeOK /\ Paced /\ unchecked = {} /\ RTIME \in Nat /\ pc \in Places
    BY <1>1, <2>1, RexmitAssumption DEF RexmitInv, TypeOK, Places
  <2>3. CASE Filter
    <3>1. id \in DueIds(ids_to_forget)
      BY <2>1, <2>3 DEF Filter
    <3>2. id \in DOMAIN rexmit_ids /\ rexmit_ids[id] = 0 /\ id \in Ids
      BY <2>2, <3>1 DEF DueIds, KeptIds, TypeOK
    <3>3. 0 + since[id] >= RTIME /\ since[id] \in Nat
      BY <2>2, <3>2 DEF Paced, TypeOK
    <3>4. QED
      BY <2>2, <3>3
  <2>4. CASE ~ Filter
    <3>1. unchecked' \subseteq unchecked
      <4>1. CASE (\E m \in Messages : Write(m)) \/ Stream \/ ResetBuffer
        BY <2>2, <4>1, BufferStepEffect DEF senderVars
      <4>2. CASE AppendIds \/ ResetManager \/ Send \/ Collision \/ Tick \/ UNCHANGED vars
        BY <4>2 DEF AppendIds, ResetManager, Send, Collision, Tick, vars, senderVars
      <4>3. CASE CheckSpace
        BY <4>3 DEF CheckSpace
      <4>4. QED
        BY <1>1, <2>4, <4>1, <4>2, <4>3 DEF Next, RexmitSenderStep
    <3>2. QED
      BY <2>1, <2>2, <3>1
  <2>5. QED
    BY <2>3, <2>4
<1>2. RexmitInv /\ [Next]_vars => [Late]_vars
  BY <1>1
<1>3. QED
  BY <1>2, RexmitInvariant, PTL DEF Spec, PacedRequests

\* A sender reads from a request exactly the ids that were asked for.
THEOREM RequestAlwaysExact == Spec => []RequestIsExact
<1>1. RexmitInv => RequestIsExact
  <2>1. SUFFICES ASSUME RexmitInv PROVE RequestIsExact
    OBVIOUS
  <2>2. IsFiniteSet(ids_to_rexmit) /\ ids_to_rexmit \in SUBSET Ids
    BY <2>1 DEF RexmitInv, TypeOK
  <2>3. Ids \subseteq Nat
    BY RexmitAssumption DEF Ids, Buf!Ids
  <2>4. ids_to_rexmit \in SUBSET Nat
    BY <2>2, <2>3
  <2>5. QED
    BY <2>2, <2>4, RequestReadsBack DEF RequestIsExact, Request
<1>2. QED
  BY <1>1, RexmitInvariant, PTL
=============================================================================
