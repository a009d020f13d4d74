# sikradio in TLA+

A verification project for *sikradio*, an internet radio over UDP multicast
(`src/`): a sender that broadcasts its standard input and a receiver that plays
it. The modules are translated from the C++ headers under `src/src/`; where the
code and what `src/README.md` or a comment says of it differ, the modules follow
the code and a property with a counterexample states the difference.

Paths below are relative to `src/src/` unless they start with `src/`.

## The system

### Sender

| part | state | operations | interacts with |
|---|---|---|---|
| `sender.cpp` | none | options, `transmit()` | transmitter |
| `sender/transmitter.hpp` | `send_q`, `resend_q`, `sent_msgs`, `session_id`, per thread `buf`, `current_msg_id`, sockets | `read_input` (main thread), `run_sender`, `run_listener`, `run_retransmitter`, `retransmit_ids`, `transmit` | all parts of the sender; a promise tells the other threads that the input has ended |
| `sender/lockable_queue.hpp` | a `std::queue` of messages | `atomic_push`, `atomic_get_and_pop`, `atomic_get_unique` | one pushing and one popping thread per queue |
| `sender/lockable_cache.hpp` | a preallocated vector of messages | `atomic_push`, `atomic_get` | written by the main thread, read by the listener |
| `sender/data_socket.hpp` | `connected`, `sock` | `open_connection`, `transmit`, `transmit_force` | run_sender, run_retransmitter (one each) |

### Receiver

| part | state | operations | interacts with |
|---|---|---|---|
| `receiver.cpp` | none | options, `run()` | receiver |
| `receiver/receiver.hpp` | `data_mut`, locals of the loops | `run_playback_resetter` (20 ms), `run_ctrl_receiver`, `run_lookup_sender` (5 s), `run_rexmit_sender` (10 ms), `run_data_receiver`, `run_data_streamer` (main thread), `run_ui_handler` | every part of the receiver |
| `receiver/buffer.hpp` | `state`, `byte_zero`, `max_msg_id`, `package_size`, `max_elements`, `msg_ids`, `msg_vals` | `write_get_missed`, `try_read`, `has_space_for`, `reset` | data_receiver, data_streamer, rexmit_sender, resetter |
| `receiver/state_manager.hpp` | `active_station`, `dirty`, `session_id` | `check_state`, `register_address_check_change`, `register_session_check_ignore`, `mark_dirty` | resetter, ctrl_receiver, data_receiver, data_streamer, ui_handler |
| `receiver/rexmit_manager.hpp` | ids with the time of their next request | `append_ids`, `filter_get_ids`, `reset` | data_receiver, rexmit_sender, resetter |
| `receiver/station_set.hpp`, `structures.hpp` | `stations`, `selected_station` | `update_get_selected`, `select_get_selected`, `get_selected`, `get_station_names` | ctrl_receiver, rexmit_sender, ui_handler |
| `receiver/data_socket.hpp` | `sock`, `connected_station`, `buffer` | `connect`, `try_read` | resetter, data_receiver |
| `receiver/ui_manager.hpp` | poll table, `active_menu` | `send_menu`, `get_update` | ui_handler; telnet clients |

### Common

`common/ctrl_socket.hpp` (UDP control socket, `try_read`, `send_to`,
`force_send_to`), `common/ctrl_msg.hpp` (text of lookup, reply and rexmit
messages), `common/data_msg.hpp` (data datagrams), `common/address_helpers.hpp`,
`types.hpp`, `exceptions.hpp`.

### What is hard about it

* **No mutual exclusion.** Every critical section opens with
  `std::scoped_lock{mut};`. That is a temporary: it locks and unlocks at its own
  semicolon. Nothing in the program excludes one thread from another, although
  every shared object was written as if something did.
* **Numbers of bytes used as numbers of packages.** Ids are first byte numbers.
  The sender's cache compares them with a count of packages
  (`lockable_cache.hpp:30`), the receiver's buffer indexes a deque by them
  (`buffer.hpp:111`).
* **Windows over gaps.** The buffer reserves a slot for every package that has
  not come, and evicts from the front while it does.
* **Flags that carry requests.** The receiver's threads ask for a reset of
  playback with a flag that another thread polls and clears.
* **Ends.** A short last read, the end of the input with a full queue, an empty
  buffer in a running session, an empty set of stations.

### What makes each part correct

* transmitter, queues: packages go on the air in the order and with the bytes of
  the input, each once; what was accepted for retransmission is repeated; every
  thread stops in the end.
* cache: what is looked up under an id is the package with that id, and no index
  leaves the vector.
* buffer: the window is a run of consecutive packages, a slot holds only its own
  package, nothing that has come is lost before it leaves through the front, the
  capacity holds, and what is reported as missed is what is missing.
* state manager: no request for a reset is lost; a message of an older session
  is ignored.
* rexmit manager: an id that is missing is kept and asked for as long as there is
  room for it, at most once per RTIME.
* station set: the selection is a member of the set, or the set is empty; it
  changes only by a key, by silence or for the preferred station.
* receiver data socket: the socket read is the one connected to the station.
* UI: a client in the table sees the menu last sent, and what it types is read.
* sender data socket: what was taken is sent, whatever failed before.
* messages: what one side formats, the other parses to the same value.

## Modules

| module | what it is |
|---|---|
| `Buffer` | `receiver/buffer.hpp`, one action per way through a public call |
| `MCBuffer` | message sets for TLC |
| `BufferProofs` | theorems about `Buffer` |
| `AudioStream` | abstract: what a broadcast promises its listeners |
| `Transmitter` | the sender's four threads with their queues and cache, one action per access to shared state; refines `AudioStream` |
| `MCTransmitter` | requests for TLC |
| `TransmitterProofs` | theorems about `Transmitter`, with the refinement |
| `Playback` | the receiver's threads over the state manager, the data socket and the buffer: how a reset of playback is asked for and served, one action per access to shared state |
| `MCPlayback` | stations and senders for TLC |
| `PlaybackProofs` | theorems about `Playback` |
| `CtrlMsg` | `common/ctrl_msg.hpp`: the texts of replies and requests, and what is read from them |
| `Rexmit`, `MCRexmit` | `receiver/rexmit_manager.hpp` with the threads that use it, over an instance of `Buffer` |
| `RexmitProofs` | theorems about `Rexmit`, over an instance of `BufferProofs` |
| `StationSet` | `receiver/station_set.hpp` and `structures.hpp`, call by call |
| `StationMenu`, `MCStationMenu` | the threads that use the station set: replies, keys, menus; extends `StationSet` and, through it, `CtrlMsg` |
| `StationMenuProofs` | theorems about `StationMenu` |
| `UiManager`, `MCUiManager` | `receiver/ui_manager.hpp` with its telnet clients |
| `UiManagerProofs` | theorems about `UiManager` |
| `DataLink`, `MCDataLink` | `common/data_msg.hpp`, `sender/data_socket.hpp` and the sockets of `common/ctrl_socket.hpp`: datagrams, descriptors, retries |
| `DataLinkProofs` | theorems about `DataLink` |
| `Arithmetic` | lemmas about multiples of a package size and remainders, induction over numbers, recursive functions |

### Buffer

The variables are the members of the class, with the four session parameters in
one record. A package is represented by the id of the message it came with, so a
package in a slot of another id is a visible error. `WriteGetMissed(m)` is the
whole call: session and state update, the alignment test that throws *after*
them, one of `SaveNewMessage`, `SaveMissedMessage`, `IgnoreOldMessage`, and the
loop that reports missed ids (`ReportMissed`). The loop that reserves slots and
pops one element per slot is written as its result: append the reserved ids and
the message, then drop the excess from the front. The two deques are popped by
the same statements, so they lose the same number of elements.

`buffer.hpp:111` reads `msg_vals[id]`. Inside the deque `ReportedFor` reads that
position, as the code does. Past the end the answer is undefined: `ReportMissed`
either reports any of those ids or ends the process (`crashed`).
`has_space_for` on an empty deque reads `front()` of nothing: any answer, or the
end of the process.
`package_size` and `max_elements` are uninitialised until the first write sets
them and are not read before; 0 stands for that.

The module describes calls that do not overlap. The code does not enforce that
(see above): `Playback` has the threads that make the calls and lets two of them
that meet in the buffer end the process.

A late message that finds the deques empty is saved whatever its id, so that what
was played before comes back (`LateIsIgnored`); with a capacity below one package
`max_elements` is 0, which no filled deque's size equals, so nothing is evicted any
more (`BoundedBySize`; `FitsBuffer` asks for room for a package). Therefore
`WindowMoves` says when the window moves back: only for a message that finds it
empty. A call that throws leaves the session it opened behind, without a property of
its own.

### Transmitter

`pc` has the step of each thread. One action is one access to shared state: a
push, a pop, the test of a size, the copy of one member of a message. The locals
of a thread (`buf`, the package in hand, the ids of a request still to look up,
the batch) are variables of their own.

* *Queues.* A push and a pop are atomic actions; when two threads stand inside
  calls of one deque at once, `QueueCollision` may set `corrupt`, after which
  nothing happens any more: what the program does then is undefined. All
  properties of executions up to that point are kept, and what the model calls
  atomic is the collision that goes well.
* *Cache.* `push_back` never reallocates (the constructor reserves), so the
  vector's elements stay where they are. An assignment into a slot in use and a
  copy out of one are two steps each, id and bytes, and interleave freely. The
  bytes are copied one by one, so a copy under way while the main thread assigns
  may have old and new ones (`CopiedBytes`).
  `CacheOutside` is the assignment past the vector's end; it writes memory in
  the reserved part that nobody reads until `push_back` constructs there, or
  spoils the heap.
* *Listener.* A lookup is answered without touching shared state and is the
  same step as a timeout. An error of `recvfrom` is thrown as an exception that
  nobody catches and ends the process (`ReceiveFails`; it is `corrupt` then, like
  a spoiled queue).
* *Sending.* `transmit_force` retries until the datagram is written;
  `TransmitMessage` is the attempt that succeeds. Fairness says one does.
* `set_session_id` gives every package the one session id of the process; the
  model has one session and leaves the id out.

Five differences from the documentation have a property each, with a counterexample:
packages read and never broadcast (`transmitter_eof`), recent packages that cannot be
looked up (`transmitter_recent`), a repeated message with the id of one package and
bytes of another (`ResentIsOriginal`), an assignment past the vector's end
(`AssignsInside`) and a short last read filled up with bytes of the package before
(`OnlyInputIsBroadcast`). One has none: broadcasting starts with the first package
queued, where `src/README.md:7` promises to wait for a "full
enough" queue, which is no number to compare with.

`air`, `resent` and `asked` are histories. `Pipeline`, all packages from the
oldest on the air to the newest in the queue, is the refinement mapping for
`AudioStream!read`.

### Playback

`pc` has the step of each of `resetter`, `data_receiver`, `data_streamer` and of the
threads in `Selectors`, which register the selected station: `ctrl_receiver` and
`ui_handler`. `check_state` is three actions (`CheckDirty`, `ClearDirty`,
`CopyStation`), `register_address_check_change` is `RegisterTest`,
`RegisterCompare`, `RegisterAssign` and `Raise`, `mark_dirty` is `Forget` and
`Raise`, and `data_socket::connect` is `Connect`, `Open` and `Bind`, because other
threads can see what is in between. `lost` is a history: it is set when
`ClearDirty` clears a request that `CheckDirty` did not see, and until the next one
is seen.

* *Stations.* The selection changes at any time (`SelectStation`); the set it is
  taken from is that of `StationMenu`.
* *Sessions.* A session id is the time its sender was started, so sessions are
  numbered in the order of the starts and `StationOf` gives each its station.
  `ReadMessage` takes any session of the station of the socket, so a late message
  of a process that has ended is included.
* *Buffer.* Of the buffer the module keeps which sessions' messages it holds and
  which session set the package size. `WriteThrows` needs a package size that
  another session set; `StreamThrows` needs a session. `Buffer` has the rest.
* *Values nobody reads again* (`chosen`, `station`, `was_dirty`, `msg`, `reading`)
  go back to their initial value.
* *Undefined and uncaught.* Two threads in the optional station or in the deques at
  once, one of them writing, may end the process (`Collision`), as does
  an exception outside a handler: `value()` of a station just forgotten
  (`RegisterCompare`), a read of a closed descriptor (`CallRead`), a failed
  `socket()`, `setsockopt()` or `bind()` (`Open`, `Bind`).
* *A number used again.* After the `close()` of `connect`, `accept()` of a telnet
  client may get the old descriptor's number: a `CallRead` that still has it then
  reads that client's bytes, which `ReadMessage` takes for a message of any session,
  or ends the process when they are too few for one.
* *No lock.* The comment in `receiver.hpp:53` says that the lock of `data_mut`
  "stops data_receiver". It does not: in the model, as in the code, the receiver
  thread reads and writes while the resetter empties the buffer and replaces the
  socket.
* The rexmit manager's reset, which shares no state with these, is in `Rexmit`.

### Rexmit

`rexmit_ids` maps each id the manager keeps to the ticks until it is due.
`append_ids`, `filter_get_ids` and `reset` are what their one lock was meant to
make of them, single steps; any two of them at once may end the process
(`Collision`).
The buffer is not abstracted: `Buf == INSTANCE Buffer` on the same variables, so a
miss is what `write_get_missed` reports, wrong index included, and room for an id
is what `has_space_for` answers, which is anything when the deque is empty.
`data_receiver` is `Write` and then `AppendIds`, with everybody else between them;
`rexmit_sender` is `Filter`, one `CheckSpace` per id and `Send`; `resetter` is
`ResetBuffer` and `ResetManager`. A reset may come at any time, as `Playback` shows
that several threads ask for one.

Three histories carry the properties: `since` (ticks since `filter_get_ids` last
returned an id), `outstanding` (reported ids whose slot has been empty since), and
`overtaken` (those of them reported into a race). There are two such races: a
report between the two halves of a reset, whose second half clears the manager,
and a report of an id that the requesting thread has put on its list to forget and
has not forgotten yet. Without the exception `MissesAreKept` is false, and each
race has a counterexample that shows it (`ReportsSurviveReset`, `ForgetsOnlyGone`).

An id leaves the manager when the window has passed it and not when its package
has come, so it is asked for once per RTIME until then, present or not
(`AsksForMissing`). RTIME is taken as seconds (`rexmit_manager.hpp:44`); the model has
ticks.

A request is a sequence of ids with the separator before each, made from a
`std::set` and so in ascending order (`CtrlMsg!Ascending`). The sender finds the
numbers by the comma before them, after the key's own space was replaced by one.

### StationSet and StationMenu

`stations` is a function from names to address and ticks since the last reply;
`selected_station` an iterator: a name, `End`, or `Wild` when the station it
pointed to was erased. `RemoveOld` is the loop with which every call begins.
`UpdateGetSelected` erases and inserts the station that replied; an iterator to
the erased element finds the new one in its place when the allocator gives out the
same memory, and does not otherwise. `Reused` says which of the two may happen.
Reading through a `Wild` iterator may end the process (`ReadWild`) or not.
`NameOrder` lists the names there are in the order of `std::string`; `InOrder` is
the sequence in which an iterator runs through some of them.

`StationMenu` has the threads: `ReceiveReply` (`run_ctrl_receiver`; the reply is
formatted and parsed by `CtrlMsg`), `GetSelected`, `GetStationNames`, `SendMenu` and
`GetUpdate` (`run_ui_handler`), `GetStationOfRequest` (`run_rexmit_sender`), time,
and the collision of two of them in the set. Where `ui_handler` writes to clients,
`WriteStops` may leave it in a write that does not return or end the process; which
clients do that is `UiManager`'s matter. A key at a `Wild` selection, `++` or `--` of
an erased element, may lead to any station or to none (`MovedWild`).

`get_reply_data` joins the words of a name by single spaces. A name with a run of
spaces therefore arrives as another name, and two senders with the same words
replace each other in the set, address and all; a sender in the run does this.
`StationMenuAssumption` says that `NameOrder` has every name that comes out of a
reply this way.

### UiManager

`conn` is the receiver's kernel's view of each connection, `table` the poll table
without the listening socket, `ready` the slots a poll found readable. A call is a
poll (`CheckNewClients`) and the rest (`SendMenu`, `SameMenu`, `GetUpdate`), and
clients act in between. `Written` says what a write makes of a connection: to a
client that has closed, the first is answered by a reset and the next raises
SIGPIPE, which ends the receiver; to one that was reset it fails and its slot is
given up; to one that does not read it may never return. A changed menu is written
slot by slot, up to the first write that stops (`Stopping`, `WrittenUpTo`): the
clients in the slots above get nothing, and `active_menu` is assigned only after the
last write.

Two of the consequences have a counterexample: a client that reads no more keeps the
menu from those in higher slots (`ReadersGetUpdates`), and a client that closes keeps
its slot, so that one that finds the table full is accepted and forgotten
(`TurnedAwayOnlyWhenFull`). Two more are only in the model: a client that has closed makes every poll return at
once, and two keys between two polls are read as five bytes and one, and lost.

### DataLink

Threads `sender`, `retransmitter` (a `data_socket` each) and `listener` (a
`ctrl_socket`) share `MaxFds` descriptors. A failed `connect()` leaves its
descriptor open and `transmit_force` starts over (`ConnectFails`); so does a failed
`setsockopt()` or an address that does not parse, with the network there as well.
Looking at the future and taking a package are two steps (`Check`; `Take` or
`TakeNothing`), so a package may be taken after the input has ended. With no
descriptor left `socket()` fails for ever, and a listener that starts late ends the
process. `sendable` and the parsing constructor `data_msg` work on the bytes of
numbers in memory, for hosts of either byte order. The test for a little-endian
host compares a byte with 2137 (`data_msg.hpp:18`) and is never true, so numbers go
out in the sender's own order (`InMemory`, `FromMemory`: base, width and order are
parameters), where `src/README.md:46` says "big-endian byte order":
a receiver of the other order reads other numbers (`TravelsBigEndian`). The network is
a set of datagrams ever sent, so loss, repetition and reordering are all included.

## Runs

Each counterexample run checks one property, which states what the quoted line of
documentation says.

| run | shows |
|---|---|
| `buffer` | the window properties, for packages of one and of two bytes; capacity 4 bytes and ids up to 6 reach overflow by one package, by a gap and by a jump past the whole window, and a session whose window was read empty |
| `buffer_missed` | violation: reported ids are not the missing ones (`buffer.hpp:106`) |
| `transmitter` | safety of all four threads and refinement of `AudioStream`; packages of two bytes and seven bytes of input, so that the last read is short; three slots and four packages, so that a slot is overwritten while requests are looked up and an assignment may fall past the vector's end; two requests, so that a batch can hold an id twice; under fairness, termination, and progress of broadcast and retransmission while the input goes on |
| `transmitter_eof` | violation: packages read but never broadcast (`src/README.md:7`) |
| `transmitter_recent` | violation: a recent package cannot be looked up (`src/README.md:7`) |
| `playback` | how requests for a reset reach the resetter: what is stale is flushed, a switch is pending or done, and a registered station is connected to in the end, unless the request was lost; two stations with one sender each, started one after the other, so that a switch finds a higher or a lower session |
| `playback_lost` | violation: a switch asked for between the read and the clearing of the flag never takes effect (`src/README.md:17`) |
| `rexmit` | misses are kept until their slot goes, asked for in the end, once per RTIME at most, and the sender reads the ids that were meant; a window of three packages and ids up to 3, so that it overflows, runs empty and is reset while misses are under way |
| `stations` | the selection stays on a listed station, changes only for a reason, and is what the menu marks in the end; three names and four senders, so that selections wrap around, expire one by one and all together |
| `stations_dangling` | violation: with the last station gone the selection is left to it (`station_set.hpp:41`) |
| `clients` | every client in the table sees the active menu and is heard; three clients and two slots, six unread bytes, so that the table is full, slots are given up and used again, and two keys come at once |
| `datalink` | what is parsed was sent; packages go out and threads end when the network stays, unless descriptors ran out; four descriptors for three sockets, so that one failed attempt is harmless and two are not |

**More counterexamples.** Beside the runs, each of these configurations checks one
sentence of the documentation or of a comment and ends with a counterexample; try
`tlc -config MCBufferLate.cfg MCBuffer`. The properties of the passing runs are stated
so that they hold with these exceptions, and name them.

| configuration | property | what the counterexample shows |
|---|---|---|
| `MCBufferLate.cfg` | `LateIsIgnored` | a message older than what was played is saved and played once the window is empty (`buffer.hpp:104`, `src/README.md:50`) |
| `MCBufferSmall.cfg` | `BoundedBySize` | a buffer smaller than a package grows without bound (`src/README.md:22`) |
| `MCTransmitterTorn.cfg` | `ResentIsOriginal` | a repeated message has the id of one package and bytes of another (`transmitter.hpp:39`) |
| `MCTransmitterOutside.cfg` | `AssignsInside` | the second message is assigned past the vector's end (`lockable_cache.hpp:38`) |
| `MCTransmitterShort.cfg` | `OnlyInputIsBroadcast` | bytes are broadcast that are not the input's (`src/README.md:7`) |
| `MCPlaybackEarlier.cfg` | `SwitchIsHeard` | after a switch to a sender started earlier, its messages are ignored (`src/README.md:17`) |
| `MCRexmitReceived.cfg` | `AsksForMissing` | a request lists a package that was received (`src/README.md:41`) |
| `MCRexmitReset.cfg` | `ReportsSurviveReset` | a miss reported between the halves of a reset is wiped out (`src/README.md:50`) |
| `MCRexmitForget.cfg` | `ForgetsOnlyGone` | an id is forgotten whose slot is in the window and empty (`src/README.md:50`) |
| `MCUiBlocked.cfg` | `ReadersGetUpdates` | a client that reads gets no new menu, because one below it does not read (`src/README.md:53`, `:56`) |
| `MCUiFull.cfg` | `TurnedAwayOnlyWhenFull` | a client is turned away though a slot is held by one that has left (`src/README.md:53`) |
| `MCDataLinkOrder.cfg` | `TravelsBigEndian` | numbers travel in the order of the sender's host (`src/README.md:46`) |

Deadlock is not checked: the sender ends when its input ends, and a model with a
spoiled queue, a crashed buffer, an ended process or a blocked handler stops.

**Bounds.** `LastId` (largest id), `Sizes` (package lengths), `InputSize` (bytes
of input), `RequestIds` (ids asked for) and `MaxRequests` (rexmit messages).
The first four are what makes the instances finite; only `MaxRequests` is a
guard of the model (`ReceiveRexmit`). It bounds how many requests arrive, not
how they are handled, and two are enough to ask for an id again while its first
request is between lookup and batch. `MaxInput`, unread bytes of all clients together, is a guard of
`PressKey`. `RTIME` and `MaxInactive` are 1 tick: two successive ticks are what the
properties tell apart. Numbers in `DataLink` have two bytes instead of eight: every
operator treats the bytes alike. `Playback` has no bound in its guards: its
instances are finite with their stations and sessions. `Selectors` is
`{"ui_handler"}` in the runs, the thread that has every step of the other one and
`Forget` besides; the theorems hold for both together.

**Fairness.** `Transmitter!FairSpec` gives each of the four threads weak
fairness: the operating system schedules every runnable thread, the future's
`wait_for` and the sockets' reads time out, and `transmit_force` succeeds in the
end. There is none for `Read`: the program that feeds the input may pause or
never end it, so `Finishes` starts from the end of the input, and the two
progress properties hold without further input. `QueuedIsAired` and
`AcceptedIsResent` end with `complete`: after the end of the input the threads
stop whatever is waiting, which is what `transmitter_eof` shows.

`Playback!FairSpec` gives weak fairness to the resetter, which only sleeps between
rounds, and to the threads that register stations, whose reads time out. None is
needed of the data threads, and none is given to `SelectStation`, `Collision` and
the failures: `SwitchesUnlessLost` speaks of the state manager's station, which may
change again, and ends when the process does.

`Rexmit!FairSpec` gives it to time, to `rexmit_sender`, which sleeps 10 ms per round,
and to the second half of what `data_receiver` has begun; to messages, reads and
resets none. `StationMenu!FairSpec` and `UiManager!FairSpec` give it to `ui_handler`,
whose polls time out after half a second. Writes to clients need not return, so
both modules have a step that leaves the handler in one (`WriteStops`; `"blocking"` in
`UiManager`), possible wherever it writes; a blocked handler has no step that
fairness could promise, and `SelectionIsShown` ends when that happens, as it does
when a `Wild` selection ends the process. `DataLink!FairSpec`
gives it to the three threads; that the network is there in the end is a premise
of its two liveness properties. `KeyIsTaken` and `SentUnlessExhausted` name what can
still come in between: clients in lower slots, and exhausted descriptors. In
`Transmitter` the assumption that a datagram is taken in the end is what
`SentUnlessExhausted` says of `transmit_force`, with its exception.

## Proofs

Checked by the TLA+ proof system, for every value of the constants that
satisfies the assumptions named in the modules (`BufferAssumption`,
`TransmitterAssumption`, `PlaybackAssumption`, `RexmitAssumption`,
`StationSetAssumption`, `StationMenuAssumption`, `UiManagerAssumption`,
`DataLinkAssumption`). Every safety property of a passing run, invariant or action
property, is stated by a theorem.

*Buffer.* `BufferInv` is inductive. The properties alone are not: that a late
message lands in its own slot needs the ids to be an arithmetic progression
aligned to the package size (`IsWindow`), that the next gap closes without a
remainder needs the message and the newest id both aligned, that the window
fits needs `max_elements = MaxSize \div package_size` with it, and that a
reported id has a slot needs `max_msg_id` aligned, which holds only while the
window is not empty. From it follow `TypeOK`, `MissedHaveRoom`,
`WindowConsecutive`, `SlotsHoldTheirOwn`, `FitsBuffer`, `NewestPresent` and, as
action properties, `WindowMoves` and `PresentStays`. For the last, each way a
write can end is a sequence that keeps every old slot at a place known from the
number of slots dropped, so that the package is found at its old place minus that
number.

*Transmitter.* `TransmitterInv` joins `InOrder`, `BytesInPlace` and
`CachedWhereLooked` with what each thread knows at its place: a package about
to be queued is the pipeline's next (`ReadInputInv`), the sender thread holds a
package exactly while it transmits (`RunSenderInv`), the listener copies inside
the vector (`RunListenerInv`). The argument is that only `QueueMessage` changes
the pipeline (`PipelineStep`): taking and broadcasting move a package within it.
That gives the refinement too: `SenderImplementsStream` maps `QueueMessage` to
`AudioStream!Read`, `TransmitMessage` to `AudioStream!Air` and everything else
to a stutter. `ResendInv` follows a repeated package backwards: what is on the air
again was in a batch, in `resend_q`, copied by the listener under an id that was
asked for, and cached after it was queued. Of its bytes the theorem says what is true
of a copy that met an assignment: each comes from a queued package that shares the
id's slot (`FromSlot`); that all come from the package of the id is what
`ResentIsOriginal` refutes.

*Playback.* `PlaybackInv` adds two facts to `StaleIsFlushed` and `SwitchIsPending`:
a message about to be written is of the last session (`WriteInv`), and while the
resetter serves a request, its copy of the station is up to date or another request
is on its way (`CopyInv`); without the latter, `Connect` to the station of the copy
and `Bind` could leave a newer registration behind. The argument is that a step of
another thread never takes a request back (`BystanderStep`), and the resetter's
steps hand it on from flag to `was_dirty` to its place in the loop or record it as
lost. `WritesLastSessionOnly` follows as an action property. That a request can be
lost is the counterexample of `playback_lost`; that this is the only way to lose
one is what the theorems say.

*Rexmit.* Two invariants by one induction (`RexmitInvariant`): `RexmitInv` needs the
buffer's window, since an id for which `has_space_for` answers no must have no
empty slot, and `BufferInv` needs the ids asked about to be numbers the buffer
knows. The buffer's half is not proved again: every step of the threads is a step
of `Buffer` or leaves it alone, which is also a refinement theorem
(`RexmitImplementsBuffer`), and the lemmas of `BufferProofs` are used through an
instance. `MissesAreKept` needs what the two races have in common: between the
halves of a reset every outstanding miss is overtaken, and so is every one on the
list of ids to forget. `PacedRequests` needs `Paced`, the sum of the time until the
next request and the time since the last one, which survives the removal and the
return of an id. `RequestIsExact` needs the ids of a request to be finitely many,
which holds although there may be infinitely many messages, because one write
reports ids below its own. That a finite set of numbers can be sorted is proved by
induction on its size (`SortingExists`); that the sorted sequence has every number
of the set, by counting (`AscendingSorts`); formatting and parsing then compose two
ascending sequences (`RequestReadsBack`).

*StationMenu.* `StationMenuInv` is `TypeOK` with `SelectedIsListed`, neither of which
is kept without the other: the name a call returns is the selection's. The lemmas
follow the calls: what `remove_old_stations` leaves selected, what an insertion
does to the iterator with and without the same memory, where a key moves it.
`SelectionIsSticky` follows as an action property. The proof showed two CASE
expressions of the model with overlapping arms, which leave the value open in TLA+
though TLC takes the first; they are nested IFs now, in the order of the code.

*UiManager.* `UiManagerInv` adds to `TypeOK` and `StoredSeeMenu` that a client is
stored after it came and once, and that a slot is given up with its connection.
The lemma that carries most is that a write changes the state of stored
connections alone (`Written`), and a menu that equals the active one needs no write.

*DataLink.* `DataLinkInv` adds to `TypeOK` that a descriptor in use is open and has
one user (`DescriptorsHeld`), so that the `close()` of one thread is not that of
another's socket, and that every datagram in hand or on the wire is made of a
package taken (`DatagramsAreTaken`). `HeardWasSent` is then the round trip of a
number through its bytes, for every base, width and order: the digits that
`Shifted` splits off are put together again by `ValueOf`.

*Induction.* The library's induction theorems take an operator as a parameter, which
the provers cannot instantiate. `Arithmetic` states induction with a set in place of
the predicate (`SetInduction`, from the well-foundedness of the natural numbers) and
proves that a function may be defined by its first value and a step
(`RecursionExists`); the sums and digits above rest on these.

*Only model-checked.* Liveness, since the prover does not handle fairness:
`Finishes`, `QueuedIsAired`, `AcceptedIsResent`, `SwitchesUnlessLost`,
`MissIsAskedFor`, `SelectionIsShown`, `KeyIsTaken`, `SentUnlessExhausted` and `Joins`.
What the library's `SelectSeq` computes is not known to the prover either: the
proofs about `StationMenu` take the name read from a reply from
`StationMenuAssumption`, which TLC evaluates, and do not look into `Words`. All
counterexamples are TLC's.

## Plan

1. An abstract request-and-serve specification of the state manager that
   `Playback` refines, and the proof that it does.
2. The same for the station set as its callers see it (a list and a selection).
3. What a name is after a reply was formatted and parsed, as a lemma about
   `CtrlMsg` in place of `StationMenuAssumption`.

## Not modelled

`sender.cpp`, `receiver.cpp` (options), `address_helpers.hpp`, `types.hpp` and
`exceptions.hpp` have no state. Options the program cannot work with (`-p 0`,
`-f 0`) are excluded by `TransmitterAssumption`, data messages without data by
`Messages`. `run_lookup_sender` broadcasts a constant every five seconds and shares
nothing; that replies come at any time stands for it. Malformed control messages
(a reply without a name, a number that does not fit) end the process by an
uncaught exception or an iterator past the end and are left out of `CtrlMsg`. The
unbounded growth of `send_q` has no limit to be compared with.
