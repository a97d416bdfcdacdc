------------------------------ MODULE Discovery ------------------------------
(***************************************************************************)
(* The search for a loudspeaker: gap_start_discovery, the receiving loop   *)
(* of the Playback state and gap_cancel_discovery on the main task, and    *)
(* the DISC_RES and DISC_STATE_CHANGED arms of bt_app_gap_cb on the        *)
(* Bluetooth task.  They share ESP32_BLUETOOTH_GLOBALS.discovery, a mutex  *)
(* around the sender of a broadcast channel and one receiver that nobody   *)
(* reads; main reads from a second receiver.                               *)
(*                                                                         *)
(* The mutex is held from before the stack is asked to start until the     *)
(* channel is in place, which is three actions; every other critical       *)
(* section is one.  A panic aborts the firmware.                           *)
(*                                                                         *)
(* The inquiry and its queue of events belong to the stack and are         *)
(* external, as is the broadcast channel: a message leaves it when every   *)
(* receiver has read it, and a closed one still gives out what it holds.   *)
(***************************************************************************)
EXTENDS Integers, Sequences

CONSTANTS Kinds,       \* the kinds of devices around, of AllKinds
          Capacity,    \* how many messages the channel holds (2)
          MaxResults   \* how many results an inquiry yields (bounds the model)

\* A loudspeaker announces the A2DP service, and has a name or not; a phone
\* does not announce it.  A "misfit" has a class of device that no MajorClass
\* stands for, and Debug cannot print it.
AllKinds == {"speaker", "nameless_speaker", "phone", "misfit"}

ASSUME KindsAssumption == Kinds \subseteq AllKinds
ASSUME CapacityAssumption == Capacity \in Nat \ {0}
ASSUME MaxResultsAssumption == MaxResults \in Nat

VARIABLES inquiring,  \* is the stack's inquiry on
          results,    \* how many results it yielded
          events,     \* events not handed to bt_app_gap_cb yet
          discovery,  \* is discovery Some(channel)
          closed,     \* is the channel closed
          queue,      \* the messages main has not received
          kept,       \* how many the channel keeps for the receiver nobody reads
          main,       \* where the main task is
          panic,      \* what aborted the firmware
          handled,    \* history: the devices bt_app_gap_cb was called with
          received    \* history: the devices main received

vars == <<inquiring, results, events, discovery, closed, queue, kept, main,
          panic, handled, received>>

stack == <<inquiring, results>>
channel == <<discovery, closed, queue, kept>>

Devices == [address : Nat, kind : AllKinds]
Stopped == [address |-> 0, kind |-> "stopped"]

\* "idle": before gap_start_discovery.  "starting", "started": it holds the
\* mutex, before and after the stack was asked.  "looping", "receiving": the
\* search.  "found", "naming": a device was found, its name is taken.
MainStates == {"idle", "starting", "started", "looping", "receiving", "found",
               "cancelling", "connecting", "timed_out"}
Panics == {"none", "start", "full", "class", "name"}

\* No panic has aborted the firmware.
Running == panic = "none"

\* May bt_app_gap_cb take the mutex, and a mutant: the mutex is not held
\* while the stack starts.
AlwaysFree == TRUE
LockFree == main \notin {"starting", "started"}

\* Does the channel take a message?
HasSlot == kept + Len(queue) < Capacity

\* has_16bit_uuid(AdvancedAudioDistribution).
IsA2dp(device) == device.kind \in {"speaker", "nameless_speaker"}

-----------------------------------------------------------------------------
Init == /\ inquiring = FALSE
        /\ results = 0
        /\ events = <<>>
        /\ discovery = FALSE
        /\ closed = FALSE
        /\ queue = <<>>
        /\ kept = 0
        /\ main = "idle"
        /\ panic = "none"
        /\ handled = <<>>
        /\ received = <<>>

-----------------------------------------------------------------------------
(* The stack.                                                              *)

InquiryResult(kind) ==
    /\ Running
    /\ inquiring
    /\ results < MaxResults
    /\ results' = results + 1
    /\ events' = Append(events, [address |-> results + 1, kind |-> kind])
    /\ UNCHANGED <<inquiring, channel, main, panic, handled, received>>

\* After 13 seconds, if nobody cancelled it.
InquiryEnds == /\ Running
               /\ inquiring
               /\ inquiring' = FALSE
               /\ events' = Append(events, Stopped)
               /\ UNCHANGED <<results, channel, main, panic, handled, received>>

-----------------------------------------------------------------------------
(* bt_app_gap_cb.                                                          *)

\* DISC_RES: broadcast the device if there is a channel; the unwrap of
\* try_broadcast panics when the channel is full.
DiscoveryResult ==
    /\ Running
    /\ events # <<>> /\ Head(events) # Stopped
    /\ LockFree
    /\ events' = Tail(events)
    /\ handled' = Append(handled, Head(events))
    /\ queue' = IF discovery /\ HasSlot THEN Append(queue, Head(events)) ELSE queue
    /\ panic' = IF discovery /\ ~HasSlot THEN "full" ELSE panic
    /\ UNCHANGED <<stack, discovery, closed, kept, main, received>>

\* DISC_STATE_CHANGED to STOPPED: close the channel and drop the sender and
\* the receiver nobody read.
DiscoveryStopped ==
    /\ Running
    /\ events # <<>> /\ Head(events) = Stopped
    /\ LockFree
    /\ events' = Tail(events)
    /\ IF discovery
       THEN closed' = TRUE /\ discovery' = FALSE /\ kept' = 0
       ELSE UNCHANGED <<closed, discovery, kept>>
    /\ UNCHANGED <<stack, queue, main, panic, handled, received>>

-----------------------------------------------------------------------------
(* The main task.                                                          *)

\* gap_start_discovery: take the mutex.  A channel that is there already is the
\* error "Already scanning", which the Playback state does not survive; it asks
\* once in the life of the firmware.
LockDiscovery == /\ Running
                 /\ main = "idle"
                 /\ IF discovery
                    THEN panic' = "start" /\ UNCHANGED main
                    ELSE main' = "starting" /\ UNCHANGED panic
                 /\ UNCHANGED <<stack, events, channel, handled, received>>

\* esp_bt_gap_start_discovery, whose failure is a panic of the Playback state.
StartInquiry ==
    /\ Running
    /\ main = "starting"
    /\ \/ inquiring' = TRUE /\ main' = "started" /\ UNCHANGED panic
       \/ panic' = "start" /\ UNCHANGED <<inquiring, main>>
    /\ UNCHANGED <<results, events, channel, handled, received>>

\* discovery_lock.replace(new_channel), and the mutex is released.
ReplaceChannel ==
    /\ Running
    /\ main = "started"
    /\ discovery' = TRUE
    /\ main' = "looping"
    /\ UNCHANGED <<stack, events, closed, queue, kept, panic, handled, received>>

\* while found.is_none() && !discovery.is_closed(), and a mutant that gives up
\* when no device waits.
TestClosedOrEmpty ==
    /\ Running
    /\ main = "looping"
    /\ main' = IF closed \/ queue = <<>> THEN "timed_out" ELSE "receiving"
    /\ UNCHANGED <<stack, events, channel, panic, handled, received>>
TestClosed == /\ Running
              /\ main = "looping"
              /\ main' = IF closed THEN "timed_out" ELSE "receiving"
              /\ UNCHANGED <<stack, events, channel, panic, handled, received>>

\* recv() yields a device, which is logged and then kept or ignored.  Its
\* message stays in the channel as long as the receiver nobody reads is there.
Receive ==
    /\ Running
    /\ main = "receiving"
    /\ queue # <<>>
    /\ LET device == Head(queue) IN
       /\ received' = Append(received, device)
       /\ panic' = IF device.kind = "misfit" THEN "class" ELSE panic
       /\ main' = IF IsA2dp(device) THEN "found" ELSE "looping"
    /\ queue' = Tail(queue)
    /\ kept' = IF discovery THEN kept + 1 ELSE kept
    /\ UNCHANGED <<stack, events, discovery, closed, handled>>

\* recv() yields the error a closed and drained channel gives.
ReceiveError == /\ Running
                /\ main = "receiving"
                /\ queue = <<>>
                /\ closed
                /\ main' = "looping"
                /\ UNCHANGED <<stack, events, channel, panic, handled, received>>

\* dev.name.unwrap(), for the log.
TakeName == /\ Running
            /\ main = "found"
            /\ IF received[Len(received)].kind = "nameless_speaker"
               THEN panic' = "name" /\ UNCHANGED main
               ELSE main' = "cancelling" /\ UNCHANGED panic
            /\ UNCHANGED <<stack, events, channel, handled, received>>

\* gap_cancel_discovery: an error is ignored, be it that there is no search
\* under way or that the stack refuses to cancel it.
CancelDiscovery ==
    /\ Running
    /\ main = "cancelling"
    /\ \/ /\ discovery /\ inquiring
          /\ inquiring' = FALSE
          /\ events' = Append(events, Stopped)
       \/ UNCHANGED <<inquiring, events>>
    /\ main' = "connecting"
    /\ UNCHANGED <<results, channel, panic, handled, received>>

-----------------------------------------------------------------------------
GapCallback == DiscoveryResult \/ DiscoveryStopped

MainStep == \/ LockDiscovery
            \/ StartInquiry
            \/ ReplaceChannel
            \/ TestClosed
            \/ Receive
            \/ ReceiveError
            \/ TakeName
            \/ CancelDiscovery

Next == \/ \E kind \in Kinds : InquiryResult(kind)
        \/ InquiryEnds
        \/ GapCallback
        \/ MainStep

Spec == Init /\ [][Next]_vars

\* Both tasks are scheduled, and the stack ends an inquiry in time.
Fairness == /\ WF_vars(MainStep)
            /\ WF_vars(GapCallback)
            /\ WF_vars(InquiryEnds)

FairSpec == Spec /\ Fairness
-----------------------------------------------------------------------------
TypeOK == /\ inquiring \in BOOLEAN
          /\ results \in Nat
          /\ events \in Seq(Devices \cup {Stopped})
          /\ discovery \in BOOLEAN
          /\ closed \in BOOLEAN
          /\ queue \in Seq(Devices)
          /\ kept \in Nat
          /\ main \in MainStates
          /\ panic \in Panics
          /\ handled \in Seq(Devices)
          /\ received \in Seq(Devices)

\* No result is lost, repeated or overtaken between the callback and the
\* search: what main received, then what waits for it, is what the callback
\* was handed, but for the result that overflowed the channel.
InOrder ==
    /\ Len(handled) = Len(received) + Len(queue) + (IF panic = "full" THEN 1 ELSE 0)
    /\ \A i \in 1..Len(received) : received[i] = handled[i]
    /\ \A i \in 1..Len(queue) : queue[i] = handled[Len(received) + i]

\* The device that is connected to is the first with A2DP that was reported.
FirstA2dpFound ==
    main \in {"found", "cancelling", "connecting"} =>
        /\ received # <<>>
        /\ IsA2dp(handled[Len(received)])
        /\ \A i \in 1..(Len(received) - 1) : ~IsA2dp(handled[i])

\* There is a channel as long as the inquiry is on or its STOPPED is still to
\* come, and no longer.
StopComing == \E i \in 1..Len(events) : events[i] = Stopped
ChannelWhileInquiring == discovery \/ main = "started" <=> inquiring \/ StopComing

\* The strengthening that makes the three inductive.

\* What the channel keeps for the receiver nobody reads is all that main
\* received, and counts with what waits for main.
ChannelFits == /\ kept + Len(queue) <= Capacity
               /\ kept = IF discovery THEN Len(received) ELSE 0

\* Nothing happens to the channel before it is in place; the stack has
\* nothing to say before it is asked to start.
NothingBeforeStart ==
    /\ main \in {"idle", "starting", "started"} =>
          /\ ~closed /\ kept = 0
          /\ queue = <<>> /\ handled = <<>> /\ received = <<>>
          /\ panic \in {"none", "start"}
    /\ main \in {"idle", "starting"} => ~inquiring /\ events = <<>>

\* Afterwards the channel is closed exactly when discovery is None, as it is
\* when the search is given up.
ClosedWhenDropped ==
    /\ main \in {"idle", "starting", "started"} \/ closed = ~discovery
    /\ main = "timed_out" => closed

\* The stack's last word is STOPPED.
StoppedIsLast ==
    /\ \A i \in 1..Len(events) : events[i] = Stopped => i = Len(events) /\ ~inquiring
    /\ events # <<>> /\ ~inquiring => events[Len(events)] = Stopped

\* Nothing main has received while it searches has A2DP.
NothingFoundYet ==
    main \in {"looping", "receiving", "timed_out"} =>
        \A i \in 1..Len(received) : ~IsA2dp(received[i])

\* These hold together, however the two tasks interleave.
IInv == /\ TypeOK
        /\ InOrder
        /\ FirstA2dpFound
        /\ ChannelWhileInquiring
        /\ ChannelFits
        /\ NothingBeforeStart
        /\ ClosedWhenDropped
        /\ StoppedIsLast
        /\ NothingFoundYet

\* The search ends, whatever is found and whenever the inquiry does.
SearchEnds == (main = "starting") ~> (main \in {"connecting", "timed_out"} \/ ~Running)

\* The channel is dropped after every search, cancelled in time or not.
ChannelDropped == discovery ~> (~discovery \/ ~Running)

\* A device was chosen.
Settled == main \in {"found", "cancelling", "connecting"}

Abstract == INSTANCE Search WITH
    IsSpeaker <- IsA2dp,
    reported <- handled,
    chosen <- IF Settled THEN <<received[Len(received)]>> ELSE <<>>,
    state <- CASE ~Running -> "failed"
               [] Running /\ Settled -> "chosen"
               [] Running /\ main = "timed_out" -> "given_up"
               [] OTHER -> "searching"

\* The two tasks, the mutex and the channel between them implement the search
\* that Search describes: one choice, of the first loudspeaker reported, or
\* none; nothing is reported to a search that was given up.
ImplementsSearch == Abstract!Spec

\* The search is given up only when no device with A2DP was reported, as the
\* message "Bluetooth search timed out" has it.
TimedOutWithout ==
    main = "timed_out" => \A i \in 1..Len(handled) : ~IsA2dp(handled[i])

\* The unwrap of try_broadcast: the channel always has room for the result.
BroadcastFits == panic # "full"
=============================================================================
