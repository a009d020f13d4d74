------------------------------- MODULE Rexmit -------------------------------
(***************************************************************************)
(* How the receiver asks for packages it missed: rexmit_manager.hpp, the   *)
(* thread rexmit_sender, and the parts of data_receiver, data_streamer and *)
(* resetter (receiver.hpp) that fill and empty the playback buffer and the *)
(* manager.  The buffer is the one of module Buffer.                       *)
(*                                                                         *)
(* One call of the buffer or of the manager is one step; between the calls *)
(* of a thread the others run, since no lock of receiver.hpp outlives the  *)
(* statement that makes it.  Time passes in ticks: the manager keeps with  *)
(* every id the number of ticks until it is due.                           *)
(***************************************************************************)
EXTENDS CtrlMsg

CONSTANTS
  MaxSize, Messages, None,  \* the buffer's
  RTIME                     \* ticks between two requests for an id

ASSUME RexmitAssumption ==
  /\ MaxSize \in Nat
  /\ Messages \subseteq [id : Nat, size : Nat \ {0}]
  /\ None \notin Nat
  /\ RTIME \in Nat

VARIABLES
  state, session, msg_ids, msg_vals, result,  \* the buffer
  rexmit_ids,     \* the manager: ticks until each id it keeps is due
  missed_ids,     \* data_receiver: ids of the last write, not yet appended
  pc,             \* where rexmit_sender and resetter are
  ids_to_rexmit, ids_to_forget,  \* rexmit_sender
  unchecked,      \* rexmit_sender: ids its loop has not come to
  since,          \* history: ticks since an id was last returned, RTIME at most
  outstanding,    \* history: reported ids whose slots have been empty since
  overtaken       \* history: of these, the ones reported into one of two races

bufferVars == <<state, session, msg_ids, msg_vals, result>>
senderVars == <<ids_to_rexmit, ids_to_forget, unchecked>>
missVars   == <<outstanding, overtaken>>
vars == <<bufferVars, rexmit_ids, missed_ids, pc, senderVars, since, missVars>>

Buf == INSTANCE Buffer

Ids == Buf!Ids

TypeOK ==
  /\ Buf!TypeOK
  /\ DOMAIN rexmit_ids \subseteq Ids
  /\ rexmit_ids \in [DOMAIN rexmit_ids -> 0..RTIME]
  /\ missed_ids \subseteq Ids
  /\ pc \in [rexmit_sender : {"filter", "space", "send", "ended"},
             resetter : {"buffer", "manager"}]
  /\ ids_to_forget \subseteq Ids
  /\ ids_to_rexmit \subseteq Ids
  /\ unchecked \subseteq ids_to_rexmit
  /\ since \in [Ids -> 0..RTIME]
  /\ overtaken \subseteq outstanding

Running == Buf!Alive /\ pc.rexmit_sender # "ended"
At(thread, step)   == Running /\ pc[thread] = step
Goto(thread, step) == pc' = [pc EXCEPT ![thread] = step]

\* Ids of the window that nothing has come for.
Empty == {msg_ids[i] : i \in {j \in DOMAIN msg_ids : msg_vals[j] = None}}

-----------------------------------------------------------------------------
(* rexmit_manager *)

\* Mutant of AppendedIds: the time of an id that is kept already is set anew.
AppendedIdsAnew(new_ids) ==
  [id \in DOMAIN rexmit_ids \cup new_ids |->
     IF id \in new_ids THEN RTIME ELSE rexmit_ids[id]]

\* Mutant of AppendedIds: RTIME is taken for milliseconds.
AppendedIdsMilliseconds(new_ids) ==
  [id \in DOMAIN rexmit_ids \cup new_ids |->
     IF id \in DOMAIN rexmit_ids THEN rexmit_ids[id] ELSE 1000 * RTIME]

\* append_ids: emplace() leaves an id alone that is in the set.
AppendedIds(new_ids) ==
  [id \in DOMAIN rexmit_ids \cup new_ids |->
     IF id \in DOMAIN rexmit_ids THEN rexmit_ids[id] ELSE RTIME]

KeptIds(forget) == DOMAIN rexmit_ids \ forget
DueIds(forget)  == {id \in KeptIds(forget) : rexmit_ids[id] = 0}

\* Mutant of FilteredIds: the ids that are returned stay due.
FilteredIdsStillDue(forget) == [id \in KeptIds(forget) |-> rexmit_ids[id]]

\* filter_get_ids: the ids that are returned are due again RTIME later.
FilteredIds(forget) ==
  [id \in KeptIds(forget) |-> IF rexmit_ids[id] = 0 THEN RTIME ELSE rexmit_ids[id]]

-----------------------------------------------------------------------------
(* run_data_receiver, run_data_streamer, run_playback_resetter *)

\* What a step does to the reported misses: reported ids join, an id leaves
\* when its slot is filled, played or evicted.  A report races with a reset
\* that has still to clear the manager, or with ids_to_forget of an id that
\* had no room when rexmit_sender last looked.
Note(reported) ==
  LET racing == IF pc.resetter = "manager" THEN reported ELSE reported \cap ids_to_forget
  IN  /\ outstanding' = (outstanding \cup reported) \cap Empty'
      /\ overtaken' = (overtaken \cup racing) \cap outstanding'

\* A write that throws asks for a reset, which may happen at any time.
Write(m) ==
  /\ Running /\ missed_ids = {}
  /\ Buf!WriteGetMissed(m)
  /\ missed_ids' = IF result'.call = "write" THEN result'.ids ELSE {}
  /\ Note(missed_ids')
  /\ UNCHANGED <<rexmit_ids, pc, senderVars, since>>

AppendIds ==
  /\ Running /\ missed_ids # {}
  /\ rexmit_ids' = AppendedIds(missed_ids)
  /\ missed_ids' = {}
  /\ UNCHANGED <<bufferVars, pc, senderVars, since, missVars>>

Stream ==
  /\ Running
  /\ Buf!TryReadNotReadable \/ Buf!TryReadThrows \/ Buf!TryReadPackage
  /\ Note({})
  /\ UNCHANGED <<rexmit_ids, missed_ids, pc, senderVars, since>>

ResetBuffer ==
  /\ At("resetter", "buffer")
  /\ Buf!Reset
  /\ Note({})
  /\ Goto("resetter", "manager")
  /\ UNCHANGED <<rexmit_ids, missed_ids, senderVars, since>>

ResetManager ==
  /\ At("resetter", "manager")
  /\ rexmit_ids' = << >>
  /\ Goto("resetter", "buffer")
  /\ UNCHANGED <<bufferVars, missed_ids, senderVars, since, missVars>>

-----------------------------------------------------------------------------
(* run_rexmit_sender *)

Filter ==
  /\ At("rexmit_sender", "filter")
  /\ rexmit_ids' = FilteredIds(ids_to_forget)
  /\ ids_to_rexmit' = DueIds(ids_to_forget)
  /\ unchecked' = ids_to_rexmit'
  /\ since' = [id \in Ids |-> IF id \in ids_to_rexmit' THEN 0 ELSE since[id]]
  /\ ids_to_forget' = {}
  /\ Goto("rexmit_sender", IF ids_to_rexmit' = {} THEN "filter" ELSE "space")
  /\ UNCHANGED <<bufferVars, missed_ids, missVars>>

\* Mutant of HasNoRoom: an id is given up when its package has not come.
HasNoRoomOrNothing(id) == result'.ids = {} \/ id \in Empty

\* What rexmit_sender makes of has_space_for's answer.
HasNoRoom(id) == result'.ids = {}

CheckSpace ==
  /\ At("rexmit_sender", "space")
  /\ \E id \in unchecked :
       /\ \A other \in unchecked : id <= other
       /\ Buf!HasSpaceFor(id)
       /\ unchecked' = unchecked \ {id}
       /\ IF HasNoRoom(id)
            THEN /\ ids_to_forget' = ids_to_forget \cup {id}
                 /\ ids_to_rexmit' = ids_to_rexmit \ {id}
            ELSE UNCHANGED <<ids_to_forget, ids_to_rexmit>>
  /\ Goto("rexmit_sender", IF unchecked' # {} THEN "space"
                            ELSE IF ids_to_rexmit' # {} THEN "send" ELSE "filter")
  /\ UNCHANGED <<rexmit_ids, missed_ids, since, missVars>>

\* What a sender reads from the request.
Request == get_rexmit_ids(make_rexmit(ids_to_rexmit))

\* The request goes out, or, without a selected station, it does not; an error
\* of send_to is an exception that nobody catches.  ids_to_rexmit is not read
\* again before it is assigned.
Send ==
  /\ At("rexmit_sender", "send")
  /\ Goto("rexmit_sender", "filter") \/ Goto("rexmit_sender", "ended")
  /\ ids_to_rexmit' = {}
  /\ UNCHANGED <<bufferVars, rexmit_ids, missed_ids, ids_to_forget, unchecked,
                 since, missVars>>

\* Two of filter_get_ids, append_ids and reset in the manager's set at once may
\* end the process: its `std::scoped_lock{mut};` is a temporary.  Module Playback
\* has the collisions in the buffer.
Collision ==
  /\ Running
  /\ \/ pc.rexmit_sender = "filter" /\ missed_ids # {}
     \/ pc.rexmit_sender = "filter" /\ pc.resetter = "manager"
     \/ missed_ids # {} /\ pc.resetter = "manager"
  /\ Goto("rexmit_sender", "ended")
  /\ UNCHANGED <<bufferVars, rexmit_ids, missed_ids, senderVars, since, missVars>>

-----------------------------------------------------------------------------
Tick ==
  /\ Running
  /\ rexmit_ids' = [id \in DOMAIN rexmit_ids |->
                      IF rexmit_ids[id] = 0 THEN 0 ELSE rexmit_ids[id] - 1]
  /\ since' = [id \in Ids |-> IF since[id] = RTIME THEN RTIME ELSE since[id] + 1]
  /\ UNCHANGED <<bufferVars, missed_ids, pc, senderVars, missVars>>

Init ==
  /\ Buf!Init
  /\ rexmit_ids = << >>
  /\ missed_ids = {}
  /\ pc = [rexmit_sender |-> "filter", resetter |-> "buffer"]
  /\ ids_to_rexmit = {} /\ ids_to_forget = {} /\ unchecked = {}
  /\ since = [id \in Ids |-> RTIME]
  /\ outstanding = {} /\ overtaken = {}

RexmitSenderStep == Filter \/ CheckSpace \/ Send

Next ==
  \/ \E m \in Messages : Write(m)
  \/ AppendIds \/ Stream \/ ResetBuffer \/ ResetManager
  \/ RexmitSenderStep \/ Collision \/ Tick

Spec == Init /\ [][Next]_vars

\* Time passes, rexmit_sender wakes up every 10 ms and data_receiver finishes
\* what it has begun.  Nothing is assumed of messages, reads and resets.
Fairness == WF_vars(Tick) /\ WF_vars(RexmitSenderStep) /\ WF_vars(AppendIds)

FairSpec == Spec /\ Fairness

-----------------------------------------------------------------------------
(* Properties *)

\* A miss that was reported stays with the manager until its slot is filled,
\* played or evicted, though rexmit_sender looks for room in one round and
\* forgets in the next (receiver.hpp:97-102).  Only a report that races with
\* the second half of a reset, or with an id about to be forgotten, is lost.
MissesAreKept ==
  outstanding \ overtaken \subseteq DOMAIN rexmit_ids \cup missed_ids

\* The time of the next request and the time since the last one make up RTIME
\* at least, through resets, forgotten ids and new reports of the same id.
Paced == \A id \in DOMAIN rexmit_ids : rexmit_ids[id] + since[id] >= RTIME

\* No id is returned by filter_get_ids twice within RTIME, even when it was
\* dropped and reported anew in between.
PacedRequests ==
  [][At("rexmit_sender", "filter") =>
       \A id \in unchecked' : since[id] >= RTIME]_vars

\* The sender that gets a request reads from its text the ids that were asked
\* for: all of them, the first included, each once, in ascending order.
RequestIsExact ==
  pc.rexmit_sender = "send" =>
    /\ {Request[i] : i \in DOMAIN Request} = ids_to_rexmit
    /\ \A i, j \in DOMAIN Request : i < j => Request[i] < Request[j]

\* An outstanding miss is asked for in the end, unless its slot goes first, one
\* of the two races drops it, or the process ends.  Reports of the same id over
\* and over (buffer.hpp:107 scans anew after a late message) do not put it off.
MissIsAskedFor ==
  \A id \in Ids :
    id \in outstanding \ overtaken
      ~> \/ id \notin outstanding \ overtaken
         \/ pc.rexmit_sender = "send" /\ id \in ids_to_rexmit
         \/ ~ Running

-----------------------------------------------------------------------------
(* The inductive invariant behind the safety properties *)

\* A miss is outstanding while its slot is empty; rexmit_sender has ids to check
\* in its loop only; between the two halves of a reset every report is overtaken,
\* and so is the report of an id that is about to be forgotten.  However many
\* messages there are, only finitely many ids are kept or asked for at a time.
RexmitInv ==
  /\ TypeOK
  /\ outstanding \subseteq Empty
  /\ pc.rexmit_sender \in {"filter", "send"} => unchecked = {}
  /\ pc.resetter = "manager" => outstanding \subseteq overtaken
  /\ outstanding \cap ids_to_forget \subseteq overtaken
  /\ IsFiniteSet(DOMAIN rexmit_ids)
  /\ IsFiniteSet(missed_ids)
  /\ IsFiniteSet(ids_to_rexmit)
  /\ MissesAreKept
  /\ Paced

-----------------------------------------------------------------------------
(* What the documentation says and the code does not do *)

\* Ids of the window whose packages have come.
Received == {msg_ids[i] : i \in {j \in DOMAIN msg_ids : msg_vals[j] # None}}

\* README.md:41, a request is a list of "packets that were not received": what
\* filter_get_ids returns has not come by then.
AsksForMissing == [][At("rexmit_sender", "filter") => unchecked' \cap Received = {}]_vars

\* README.md:50, "If receiver does not receive consecutive messages, it asks for
\* retransmission": a miss reported by a write after the buffer was reset is not
\* wiped out by the reset of the manager that follows.
ReportsSurviveReset ==
  [][pc.resetter = "manager" /\ pc'.resetter = "buffer"
       => outstanding \cap DOMAIN rexmit_ids \subseteq DOMAIN rexmit_ids']_vars

\* README.md:50 again: what rexmit_sender tells the manager to forget is no longer
\* missing from the window.
ForgetsOnlyGone == ids_to_forget \cap outstanding = {}

=============================================================================
