# Verification of esp32-a2dp-player

`esp32-a2dp-player` is firmware for an ESP32, written in Rust: it joins a Wi-Fi
network, looks for a Bluetooth loudspeaker, connects to it with A2DP and plays
an Ogg file from an SD card. This directory holds TLA+ modules of its control
logic, TLC configurations that check them on small instances, and theorems that
TLAPS proves for every value of the constants. Paths are relative to the
repository; the Rust sources are in `src/src/`.

## 1. Inventory

Four threads run in the firmware: the **main task** (`main.rs`, an executor
that blocks on one future), the **Bluetooth task** of ESP-IDF, which calls
`bt_app_gap_cb` and `bt_app_a2d_cb` one event after the other, the **data
task** of the A2DP source, which calls `bt_app_a2d_data_cb`, and the **decoding
thread** of `audio.rs`. A panic aborts the firmware (`panic_abort` in
`.cargo/config.toml`).

| Component | State | Operations | Shares it with | What makes it correct |
|---|---|---|---|---|
| Audio stream (`audio.rs`) | `buffer`, one condition variable, `end_of_file` | `start`, `decoding_thread`, `buffer_packet`, `read` | decoding thread and data task | samples arrive complete and in order; the buffer is bounded; nobody sleeps for ever while there is work |
| A2DP connection (`bluetooth_esp32_a2dp.rs`) | `CONNECTION_STATE`, `CONNECTION_STATE_EVENT` | `connect`, `process_connection_state_evt` | main and Bluetooth task | `connect` answers, and for its own attempt (it does not always: findings 2 and 3) |
| Discovery (`bluetooth_esp32.rs`, `bluetooth_gap_esp32.rs`, `playback_state.rs`) | `ESP32_BLUETOOTH_GLOBALS.discovery`, a broadcast channel of capacity 2 | `gap_start_discovery`, `gap_cancel_discovery`, two arms of `bt_app_gap_cb`, the receiving loop | main and Bluetooth task | every result reaches the search, in order; the search ends; no channel is left behind |
| State machine (`state_machine.rs`, `boot_state.rs`, `wifi_connect_state.rs`, `playback_state.rs`, `main.rs`) | `StateMachine` behind a futures mutex: `state`, `modem`, `eventloop` | `execute` of the machine and of the three states | main task only | there is one state at a time; every state hands over to the next |
| NVS count (`esp32.rs`) | `nvs_initialized_count` | `nvs_init`, `nvs_deinit` | main task only; the flash itself also with the partition that `main` holds | the flash stays open for Bluetooth, though two owners open it |
| Bring-up (`bluetooth_esp32.rs`, `bluetooth_esp32_a2dp.rs`, `sd_card.rs`) | none of its own | `init` | main task only | the order of the calls |
| A2DP playback (`bluetooth_esp32_a2dp.rs`, `bluetooth_hal.rs`, `audio.rs`) | `PLAY_STATE`, `SRC_READY_CALL` | `playback_task`, `play`, `bt_app_a2d_data_cb`, `AsyncCall` | main, Bluetooth and data task, decoding thread | the stream is there before the stack reads it; the acknowledgement is not missed; what is decoded is played |
| EIR and class of device (`bluetooth_gap_hal.rs`, `bluetooth_gap_esp32.rs`) | the `ScannedDevice` being put together | `DeviceProperty::from`, `add_property`, `parse_eir`, `Debug` and `Display`, the accessors of `ClassOfDevice` | Bluetooth task, then main task | the device is the one announced; data made of whole records are read without a panic |
| File stream, other GAP events, UUIDs, build files | — | — | — | not modelled, see section 8 |

The hard behaviours are waits: a condition variable two threads share for
opposite reasons, an event that forgets what was notified before `listen()`, a
mutex held across a call into the stack, and a mutex asked for by its holder.

## 2. Modules

Every module translates the code the comments name; `PROJECT.json` lists the
lines of each definition. External parts (the Bluetooth stack, ESP-IDF's flash,
the broadcast channel, the mutexes) are modelled from how the code uses them.

* **`SampleQueue`** is the abstract audio buffer: a first-in first-out queue in
  which testing for room and adding a whole packet are one step.
* **`AudioStream`** is `OggBluetoothStream`. One action is one critical section
  of the buffer mutex or a step between two: `CheckRoom` and `BufferPacket` are
  the decoder's two, `FindEmpty` and `Drain` those of `read()`. A thread that
  waits on the condition variable is `"parked"`; `notify_all` (in `BufferPacket`
  under the lock, in `NotifyDrained` after it) sends it back to its test.
  Spurious wakeups are actions of their own. Samples are named by their place
  in the file. `MCAudioStream` gives small slice lengths;
  `AudioStreamProofs` holds the proofs.
* **`A2dpConnect`** is `connect` and its callback. `listener` is the state of
  the main task's `EventListener`: none, registered, notified. The link and the
  queue of events not yet handed to the callback are the stack's; peers may
  open the link too, because `init` makes the device connectable. The rest is
  history, on which nothing else depends: every report and the
  link know whether they are of an attempt made before `connect` asked the stack
  (`"earlier"`), of the one it asked for (`"own"`) or of one made after
  (`"later"`). `told` is whose report was stored last, `clean` says that when
  `connect` asked no CONNECTING was stored or queued, `heard` that a report was
  stored since the call, and `raced` that one was while `connect` had no listener
  registered. `A2dpConnectProofs` holds the proofs.
* **`A2dpPlay`** extends `AudioStream` with everything around it. The main task
  is `playback_task` and `play` with `AsyncCall::do_and_wait`: register the
  listener, send CHECK_SRC_RDY, sleep, take the result, send START. The Bluetooth
  task is the MEDIA_CTRL_ACK arm, whose `complete` is two steps
  (`MediaCtrlAck` stores the result, `Notify` notifies). The data task is
  `DataNoStream` or `DataRead` followed by the steps of `read()`, during all of
  which `PLAY_STATE` is locked. The stack accepts or refuses a command,
  acknowledges what it accepted, and calls for samples at any time. Where `play`
  panics or returns an error, everything ends, because its caller expects `Ok`.
  `Call` maps the state to `OneCall`. `MCA2dpPlay` gives small sizes,
  `A2dpPlayProofs` holds the proofs.
* **`OneCall`** is what `do_and_wait` promises of the call that `play` makes with
  it: asked once, answered once, and returned with that answer.
* **`ScannedDevice`** is how a result becomes a device. One action is one
  property, or one round of `parse_eir`'s loop: `Uuids16`, `Uuids32`,
  `CompleteLocalName`, `OtherRecord`, and `NoType` for a record that has no byte
  for its type. Bytes are numbers, indices count as in the code, and an index
  out of bounds is the state `"panic"`; a class that `Display` cannot print is
  `"unprintable"`. The last part of the module states the format independently
  of the parser. `Cut` says when a set of positions cuts data into records by their
  lengths, `Misfits` which of these records do not fit (they reach beyond the data,
  or are lists whose last UUID is not whole), `Chain` that all fit. An announcement is the number of a property, and
  the position of a record in it or 0; `RecordsOf` and `PropertiesOf` are the
  announcements of a result, `Past` those before some place in it. `Describes` is
  what a device must hold of them: each list of UUIDs, the class, the signal
  strength and the name as the last announcement of its kind has them, byte by
  byte, or nothing. `AsAnnounced` demands that of the device that is reported,
  `AsRead` of every device on the way, for what was read so far. `MCScannedDevice`
  gives the results. `ScannedDeviceLemmas` holds what is proved of announcements
  and conversions whatever the state, `ScannedDeviceProofs` the invariance.
* **`Search`** is what a search promises, with neither tasks nor channel: devices
  are reported, and the search settles once on the first loudspeaker among them,
  or gives up, or fails.
* **`Discovery`** is the search. The mutex around `discovery` is held from
  `LockDiscovery` to `ReplaceChannel`, with the call into the stack between; the
  callback's arms are the actions `DiscoveryResult` and `DiscoveryStopped`. The
  channel is its unread messages `queue` plus the number `kept` of messages that
  it keeps for the receiver stored beside the sender, which nobody reads. A
  panic ends the behaviour and is recorded in `panic`. A device is one of four
  kinds here; how it came to be that is `ScannedDevice`. `Abstract` maps the
  state to `Search`. `DiscoveryProofs` holds the proofs.
* **`Esp32`** is the NVS count and the flash, with every way in which opening it
  succeeds (also after an erasure, which loses what was stored) or fails.
  **`StateMachine`** extends it with what `main` takes before the machine is there
  (peripherals, event loop, and the default NVS partition, which opens the flash
  itself and is never dropped), main's loop, the machine's mutex, the three states,
  and the calls of the Wi-Fi start and of the bring-up, any of which may fail. The
  search, the connection and the playback, which have modules of their own, end
  here one way or the other. `StateMachineProofs` holds the proofs.

Operators that are introduced as mutants in their comment (`NeverWoken`,
`AlwaysFree`, ...) are wrong on purpose: no specification uses them. Each
property was checked to fail when one of them takes the place of the
definition that follows it.

## 3. Runs

| Run | Module | Shows |
|---|---|---|
| `audio_threads` | `MCAudioStream` | `InOrder`, `BufferBounded`, `NoLostWakeup`, `ReadsAreFull`, the refinement of `SampleQueue`, that every buffered sample is copied out and that a waiting decoder gets on |
| `audio_end` | `MCAudioStream` | `ReadReturnsAtEnd` is **violated**: `end_of_file` is never set |
| `connect_safety` | `A2dpConnect` | `FirstLoopHears`, `OutcomeStillComes` (the second loop sleeps on no outcome that found a listener), `AnswersThisAttempt` (if no CONNECTING of an earlier link was stored or queued when `connect` asked the stack, the answer is not an earlier link's, and unless a state was stored while it had no listener it is that of its own attempt), and `ReturnsUnlessRaced`: `connect` returns unless a state is stored while it has no listener |
| `connect_race` | `A2dpConnect` | `ConnectReturns` is **violated**: the outcome is reported between the two loops |
| `connect_other` | `A2dpConnect` | `ConnectedIsOwn` is **violated**: `connect` returns `Ok` for a link of a peer that was opened and closed before |
| `play_run` | `MCA2dpPlay` | `AckNotMissed`, `ResultThere`, `AnsweredInFull`, `StartWhenReady`, that `play` returns, that what is decoded is played but for a last slice that cannot be filled, and the refinements of `AudioStream` and of `OneCall` |
| `device_report` | `MCScannedDevice` | `PanicsOnlyOnMisfit` (a panic only at or behind a record that does not fit, for any data), `AsAnnounced`, and in `IInv` that the parser is at the beginning of a record until it has come past one that does not fit, and the device the one announced so far while all fit |
| `discovery_search` | `Discovery` | `InOrder`, `FirstA2dpFound`, `ChannelWhileInquiring`, `SearchEnds` (by a result, by giving up or by a panic), `ChannelDropped`, the refinement of `Search` |
| `discovery_full` | `Discovery` | `BroadcastFits` is **violated**: the third result panics |
| `discovery_missed` | `Discovery` | `TimedOutWithout` is **violated**: a loudspeaker waits in the closed channel |
| `machine_run` | `StateMachine` | `OneState`, `UnwrapsHold`, `PartitionStaysOpen`, `SearchReached` |
| `machine_end` | `StateMachine` | `PlaybackCompletes` is **violated**: the main task waits for itself |

Bounds, and why they are enough:

* *Audio*: `HighWater` 3, `MaxPacket` 2 (88200 and 2048 in the code), slices of
  0, 1 and 3 samples, a file of 8. The mark is no multiple of a packet, so the
  buffer overshoots; slices are shorter and longer than a packet, so a read may
  run dry in the middle; 8 samples fill the buffer more than twice.
* *Connect*: peers open the link up to twice (`MaxIncoming`), so one link may
  precede the call and another interfere with it. `connect_other` needs one,
  `connect_race` none.
* *Playback*: `HighWater` 2, `MaxPacket` 2, a file of 4 samples, calls of 2 and
  7 bytes (1 and 3 samples, and an odd byte that cannot be filled). One packet
  reaches the mark, so the decoder waits and is woken; a call may need several
  packets; the file is longer than any call. Calls before, during and after
  every step of `play` happen.
* *Devices*: every EIR of up to 5 bytes over 0, 2, 3, 5 and 9 (padding, the types
  that are read, one that is passed over, and all as lengths), which has every
  way to end beyond the data; longer ones that begin with a list of one or two
  UUIDs or a name that is not UTF-8; results in which a name property comes
  before or after an EIR or two EIRs follow each other; a mixed result with five
  classes of device, one of which no `MajorClass` stands for. Lists with an odd
  number of bytes and records that reach beyond the data are among them.
  `OneCut`, which TLC evaluates, says that each of the EIRs has exactly one cut.
* *Discovery*: capacity 2 as in the code and three results of four kinds
  (a loudspeaker with or without a name, a phone, a device whose class cannot
  be printed), one more than fit.
* *State machine*: finite by itself; the flash is found in any of four conditions.

`CHECK_DEADLOCK FALSE` is set where the program really stops: a read that waits
at the end of the file, a link that stays as it is, a result that has been
logged, a panic, a self-wait.

## 4. Fairness

* Both audio threads are scheduled (weak fairness), and a stack that plays asks
  for samples again and again (strong fairness of a call with a slice that is
  not empty, since calls with an empty one may come between). Nothing is
  assumed of spurious wakeups, the success of `Open`, or the absence of errors.
* In `A2dpConnect` the main and the Bluetooth task are scheduled, and an attempt
  to connect has an outcome, by the page timeout if need be.
* In `A2dpPlay` all four threads are scheduled (weak fairness of each), the stack
  acknowledges every command it accepted, and asks for samples again and again
  once it plays (strong fairness, because the callback's mutex comes and goes).
  Nothing is assumed of what the stack acknowledges, of whether it accepts a
  command, or of the success of `Open`: `PlayedUnlessStarved` speaks of what was
  decoded, and leaves out the part of a last slice that a read which has run dry
  for good keeps (`Starved`; finding 1).
* In `Discovery` both tasks are scheduled, and the stack ends an inquiry after
  its duration, which `gap_start_discovery` sets to 10 units of 1.28 s.
* In `StateMachine` the main task runs; the network may never be reached.

## 5. Findings

1. **The end of the file is never signalled** (`audio_end`). `buffer_packet`
   returns `Ok(false)` always and does not touch `_eos_mutex`, so `read()` waits
   for ever, with `PLAY_STATE` locked, and what it had copied is not played.
2. **`connect` may never return** (`connect_race`). Between its loops no
   listener is registered, and the second loop sleeps before it looks at the
   state.
3. **`connect` may answer for another link** (`connect_other`). A peer opened the
   link and closed it; its three reports are still queued when `connect` asks the
   stack for its own. The first loop leaves on the old CONNECTING, the second on
   the old CONNECTED, and `connect` returns `Ok` while its own attempt is under
   way: nothing compares the address. What it can rely on is `AnswersThisAttempt`.
4. **A third result aborts the firmware** (`discovery_full`). The receiver kept
   in the globals is never read, so the channel of capacity 2 keeps its first two
   messages however fast the search is, and `try_broadcast(..).unwrap()` panics.
   The search then ends in `Search`'s state `"failed"`.
5. **The last results may be lost** (`discovery_missed`). The loop tests
   `is_closed()` before it has emptied the channel.
6. **Playback waits for itself** (`machine_end`). It locks the machine's mutex
   that `run_state_machine` holds. If it did not, `nvs_deinit` would close the
   flash under the partition that the machine holds, and `WifiConnect` would panic
   on its second visit, because the modem is never put back: a mutex that lets its
   holder in violates `PartitionStaysOpen` and `UnwrapsHold`.

Beside these, `ScannedDevice` has the states in which the firmware aborts by design
of its unwraps: an EIR with a record that does not fit, and a class of device that
no `MajorClass` stands for. No property says that either does not happen, and
`SearchEnds` and `Search` count a panic as an end. A list of UUIDs with an odd
number of bytes need not panic: the parser then goes on one byte into the next
record, and what it takes from there is what `AtBoundary` and `AsAnnounced` leave
open. The minor device class is logged without bit 3 (`MinorLacksBit3`), because
the mask is `0xf6` where the assigned numbers have bits 7 to 2 (`0xfc`): a
smartphone (3) is logged as "Cellular" (1).

## 6. Proofs

All proofs are for arbitrary constants, under the named assumptions of the
modules (`HighWaterAssumption`, `CapacityAssumption`, `ReportsAssumption`, ...).
Each component has an inductive invariant (`IInv`, `PlayIInv`), checked by TLC as
well, with one lemma for the initial states and one for a step, from which the
theorem `Invariance` (or `PlayInvariance`) follows. Every
invariant, action property and refinement of a passing run is the statement of a
theorem.

* **`AudioStreamProofs`**: `DeliveredInOrder`, `BoundKept`,
  `WakeupsNotLost`, `NoMutualWait`, `FullReads`, `QueueRefinement`. `InOrder` is
  stated with `Follows(s, k)`: the samples of `s` are those after the first `k`,
  and the lemmas `FollowsConcat` and `FollowsSplit` say what pushing and draining
  do to it. The bound is not inductive alone: it needs that a decoder past its
  test still has the room it tested for (`RoomStillThere`, because only the
  decoder adds) and holds at most one packet (`PacketInHand`). The refinement
  uses the same facts to show that `BufferPacket` is a `Put`.
* **`A2dpConnectProofs`**: `FirstLoopHearsStart`, `SecondLoopHearsOutcome`,
  `OwnAttempt`. `ReportsFollow` says that what the callback stored last, the queue
  and the link follow each other as the stack reports the states of a link, none
  left out. So an outcome that was not stored is still in the queue or to come, and
  the second loop, unless raced, never goes to sleep on one already stored
  (`SleepsOnNoOutcome`). `OwnAttempt` needs where a report of an earlier attempt may
  still be: when none of them began one (`CleanStart`), a CONNECTING that the first
  loop finds is `connect`'s own (`SecondLoopAfterStart`), and unless raced the second
  loop is told the very next report (`InStep`).
* **`DiscoveryProofs`**: `ResultsInOrder`, `FirstDevice`, `ChannelLifetime`,
  `SearchRefinement`. The heart is that an event can only be handled while the
  channel is there: `LockFree` keeps the callback out while main starts the
  inquiry, and `StoppedIsLast` says that `STOPPED`, which removes the channel, is
  the stack's last word. `SearchRefinement` maps every step to a step of `Search`
  or a stutter; it needs that a search that was given up has a closed channel
  (`ClosedWhenDropped`) and that nothing received before had A2DP
  (`NothingFoundYet`).
* **`A2dpPlayProofs`**: `AckHeard`, `ResultFound`, `NoSilence`, `StartsWhenReady`,
  `AudioRefinement`, `PlayedInOrder`, `CallRefinement`. `CallInOnePlace` says where
  the call of CHECK_SRC_RDY is: with the stack, between the two halves of
  `complete`, or with `main`; `StreamBeforeCommand` that the stream was in place
  before any command; `HalfLength` that a `read()` under way has half the length
  of the call; and the proof that a read returns a full slice is the lemma about
  `AudioStream`. `AudioRefinement` carries over to the playback what
  `AudioStreamProofs` proves, and `PlayedInOrder` is such a consequence.
  `CallRefinement` follows the stack's answer from the acknowledgement through the
  result behind its mutex to what `play` does next; it needs that a stored success
  or failure agrees with the state of the source (`SuccessIsReady`,
  `FailureIsStopped`).
* **`ScannedDeviceProofs`** with **`ScannedDeviceLemmas`**: `Invariance`,
  `NoPanicOnRecords`, `AnnouncedIsReported`, `MinorShown`, for any set of results of
  any length and whatever bytes they are made of. The cuts of the data are
  quantified over (`AtBoundary` is true of every one), so that no induction over
  the data is needed: at a record that fits, a round of the parser goes from one
  position of a cut to the next (`FittingRecord`), and one that does not is in the
  way from then on (`NextRecord`). That there is a cut at all is induction over the
  data, and only evaluated (`OneCut`). For data whose records all fit, the device is
  described step by step (`AsRead`): a round passes the announcements of its record
  and no others
  (`PastRecord`), what it passes becomes the last of its kind (`LastOfPast`), and
  what it stores reads back as the bytes announced (`UuidsReadBack`,
  `HexReadsBack`, `MajorFromBits`, `ServicesFromBits`).
* **`StateMachineProofs`**: `OneStateAlways`, `UnwrapsAlwaysHold`,
  `FlashStaysOpen`. `Holding` says who has the mutex and the state at each
  point of the main task; `ModemUntilTaken` that `WifiConnect` is still to come
  as long as the modem is there. `FlashStaysOpen` rests on them: the call that would
  close the flash is behind a mutex that is never free there.

Four more theorems say how far the findings of section 5 go, for every value of
the constants (findings 2 and 3 are bounded by `SecondLoopHearsOutcome` and
`OwnAttempt`):

| Finding | Theorem | What it says |
|---|---|---|
| 1 | `StarvedForGood` | once the decoding thread is done and the buffer drained, a `read()` with room left in its slice never returns |
| 4 | `NoOverflow` | a search of at most `Capacity` results never overflows the channel, however late main receives them: only the number of results counts |
| 5 | `OnlyWaitingMissed` | a search that was given up missed only what still waits in the closed channel, at most `Capacity` results |
| 6 | `NeverBackToBoot` | no run comes to a second Boot: whoever asks for the machine's mutex at the end of Playback waits for good |

Only model-checked, because the provers have neither fairness nor `ENABLED`:
everything about liveness (`BufferedIsCopied`, `DecoderGetsRoom`,
`ReturnsUnlessRaced`, `PlayReturns`, `PlayedUnlessStarved`, `SearchEnds`, `ChannelDropped`,
`SearchReached`), and the violations.

## 7. Plan

What could still be added: an abstract specification of `connect` (called,
answered) that `A2dpConnect` implements up to `raced`; the composition of
`ScannedDevice` with `Discovery`, in place of the four kinds of devices.

## 8. Not modelled

* `FileStream` of `audio.rs`: nothing constructs it.
* The disconnect reason, device addresses' bytes, log lines and the wording of
  errors: no decision depends on them.
* The other arms of `bt_app_gap_cb` and `bt_app_a2d_cb`: they log, answer a PIN
  request with a constant, complete an `AsyncCall` that nobody waits for, or are
  `todo!()`; and the `panic!()` of `DeviceProperty::from` on a type of property
  that does not exist.
* A negative length in the data callback, which is answered before any state is
  read, and `AsyncCall::wait` and a second caller of `do_and_wait`, which the
  firmware does not have.
* A second search in one life of the firmware, for which `gap_start_discovery` has
  its "Already scanning" (`LockDiscovery` has it, but no run comes to it), and a
  panic of `parse_eir` in `Discovery`, whose devices are kinds.
* Wi-Fi and SD-card drivers beyond the success or failure of their calls.
* `uuids.rs`, `build.rs`, manifests, scripts, documents.
