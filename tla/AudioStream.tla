----------------------------- MODULE AudioStream -----------------------------
(***************************************************************************)
(* OggBluetoothStream of audio.rs: a decoding thread turns the file into   *)
(* packets of samples and pushes them into `buffer`; the Bluetooth stack's *)
(* data callback calls read(), which drains `buffer` into the slice the    *)
(* stack asked to have filled.  The two threads share the mutex around     *)
(* `buffer` and one condition variable that both of them wait on.          *)
(*                                                                         *)
(* One action is one critical section of the buffer mutex, or one step     *)
(* between two of them: no thread blocks while it holds that mutex, so the *)
(* mutex itself needs no variable.  Waiting on the condition variable      *)
(* releases the mutex: a thread that waits is "parked", and a notification *)
(* (or a spurious wakeup, which std::sync::Condvar allows) sends it back   *)
(* to the state in which it competes for the mutex and tests again.        *)
(*                                                                         *)
(* Samples are named by their position in the file, 1, 2, 3, ...           *)
(***************************************************************************)
EXTENDS Integers, Sequences

CONSTANTS HighWater,  \* the decoder waits at or above this many (88200)
          MaxPacket,  \* the most samples one packet holds (2048)
          ReadLens,   \* the slice lengths the stack asks for, 0 included
          FileLen     \* how many samples the file decodes to (bounds the model)

ASSUME HighWaterAssumption == HighWater \in Nat \ {0}
ASSUME MaxPacketAssumption == MaxPacket \in Nat \ {0}
ASSUME ReadLensAssumption == ReadLens \subseteq Nat
ASSUME FileLenAssumption == FileLen \in Nat

VARIABLES decoder,    \* where the decoding thread is
          packet,     \* the packet it holds, <<>> between packets
          decoded,    \* how many samples it got from the Vorbis decoder
          buffer,     \* the VecDeque the two threads share
          reader,     \* where the data callback's read() is
          buf_len,    \* buf.len() of the current call
          buf,        \* the part of buf filled so far: Len(buf) is copy_count
          played      \* history: everything read() returned to the stack

vars == <<decoder, packet, decoded, buffer, reader, buf_len, buf, played>>

\* "unborn": not spawned yet.  "opening": File::open and Decoder::new.
\* "fetching": about to take the next packet.  "checking": before the test
\* for room.  "pushing": between that critical section and buffer_packet's.
\* "ended": left the loop, Ok.  "failed": never spawned or returned an Err.
DecoderStates == {"unborn", "opening", "fetching", "checking", "parked",
                  "pushing", "ended", "failed"}

\* "absent": the stream was never handed to the Bluetooth stack.  "idle": no
\* call.  "looping": at the head of the outer loop.  "locking": before the
\* buffer mutex.  "notifying": after the drain, before notify_all.
ReaderStates == {"absent", "idle", "looping", "locking", "parked", "notifying"}

\* The value of *self.end_of_file.  Allocated as false; no statement of the
\* crate writes to it, buffer_packet's _eos_mutex included.
end_of_file == FALSE

MinOf(a, b) == IF a <= b THEN a ELSE b

\* Mutants of Woken: a notification that is never sent; one sent to a thread
\* that does not test its condition again.
NeverWoken(pc, again) == pc
WokenUntested(pc, again) ==
    IF pc # "parked" THEN pc ELSE IF again = "checking" THEN "pushing" ELSE again

\* Where notify_all leaves a thread that is at pc: a parked one goes back to
\* the state `again`, in which it takes the mutex and tests its condition.
Woken(pc, again) == IF pc = "parked" THEN again ELSE pc

\* The negated condition of the decoder's wait loop, and a mutant of it.
HasRoomAtMark == Len(buffer) <= HighWater
HasRoom == Len(buffer) < HighWater

\* The negated condition of read()'s outer loop, and a mutant: one round only.
SliceTouched == buf # <<>> \/ buf_len = 0
SliceFull == Len(buf) >= buf_len

\* How many samples one round of read() moves, and what it leaves in the
\* buffer, with a mutant that leaves the last moved sample there as well.
copy_len == MinOf(buf_len - Len(buf), Len(buffer))
RestKeepsOne == SubSeq(buffer, copy_len, Len(buffer))
Rest == SubSeq(buffer, copy_len + 1, Len(buffer))
-----------------------------------------------------------------------------
Init == /\ decoder = "unborn"
        /\ packet = <<>>
        /\ decoded = 0
        /\ buffer = <<>>
        /\ reader = "absent"
        /\ buf_len = 0
        /\ buf = <<>>
        /\ played = <<>>

\* start(): the thread is spawned and playback_task hands the stream on to
\* a2dp_play, or spawning fails and playback_task returns the error.
Start == /\ decoder = "unborn"
         /\ \/ decoder' = "opening" /\ reader' = "idle"
            \/ decoder' = "failed" /\ UNCHANGED reader
         /\ UNCHANGED <<packet, decoded, buffer, buf_len, buf, played>>

-----------------------------------------------------------------------------
(* The decoding thread.                                                    *)

\* File::open and Decoder::new, either of which ends the thread with an Err.
Open == /\ decoder = "opening"
        /\ decoder' \in {"fetching", "failed"}
        /\ UNCHANGED <<packet, decoded, buffer, reader, buf_len, buf, played>>

\* The packet iterator yields the file's next n samples.
FetchPacket(n) == /\ decoder = "fetching"
                  /\ decoded + n <= FileLen
                  /\ packet' = [i \in 1..n |-> decoded + i]
                  /\ decoded' = decoded + n
                  /\ decoder' = "checking"
                  /\ UNCHANGED <<buffer, reader, buf_len, buf, played>>

\* The iterator is exhausted: the thread returns Ok and tells nobody.
FetchEnd == /\ decoder = "fetching"
            /\ decoded = FileLen
            /\ decoder' = "ended"
            /\ UNCHANGED <<packet, decoded, buffer, reader, buf_len, buf, played>>

\* The iterator yields an error: the thread returns it; nobody joins it.
FetchError == /\ decoder = "fetching"
              /\ decoder' = "failed"
              /\ UNCHANGED <<packet, decoded, buffer, reader, buf_len, buf, played>>

\* First critical section: wait until there is room, then release the mutex.
CheckRoom == /\ decoder = "checking"
             /\ decoder' = IF HasRoom THEN "pushing" ELSE "parked"
             /\ UNCHANGED <<packet, decoded, buffer, reader, buf_len, buf, played>>

\* Second critical section, buffer_packet: push every sample, notify_all.
BufferPacket == /\ decoder = "pushing"
                /\ buffer' = buffer \o packet
                /\ packet' = <<>>
                /\ reader' = Woken(reader, "locking")
                /\ decoder' = "fetching"
                /\ UNCHANGED <<decoded, buf_len, buf, played>>

DecoderWakesSpuriously ==
    /\ decoder = "parked"
    /\ decoder' = "checking"
    /\ UNCHANGED <<packet, decoded, buffer, reader, buf_len, buf, played>>

-----------------------------------------------------------------------------
(* The data callback's read().                                             *)

\* The stack calls with a slice of n samples.
CallRead(n) == /\ reader = "idle"
               /\ buf_len' = n
               /\ buf' = <<>>
               /\ reader' = "looping"
               /\ UNCHANGED <<decoder, packet, decoded, buffer, played>>

\* while copy_count < buf.len(): go on to the buffer mutex.
LoopAgain == /\ reader = "looping"
             /\ ~SliceFull
             /\ reader' = "locking"
             /\ UNCHANGED <<decoder, packet, decoded, buffer, buf_len, buf, played>>

\* The slice is full: Ok(copy_count), the stack plays it.
ReturnFull == /\ reader = "looping"
              /\ SliceFull
              /\ played' = played \o buf
              /\ buf' = <<>>
              /\ reader' = "idle"
              /\ UNCHANGED <<decoder, packet, decoded, buffer, buf_len>>

\* Nothing to drain: wait, or return Ok(0) with what was copied dropped if
\* the end of the stream was signalled.
FindEmpty == /\ reader = "locking"
             /\ buffer = <<>>
             /\ IF end_of_file
                THEN reader' = "idle" /\ buf' = <<>>
                ELSE reader' = "parked" /\ UNCHANGED buf
             /\ UNCHANGED <<decoder, packet, decoded, buffer, buf_len, played>>

\* copy_len samples move from the front of the buffer into the slice.
Drain == /\ reader = "locking"
         /\ buffer # <<>>
         /\ buf' = buf \o SubSeq(buffer, 1, copy_len)
         /\ buffer' = Rest
         /\ reader' = "notifying"
         /\ UNCHANGED <<decoder, packet, decoded, buf_len, played>>

\* notify_all, after the mutex was released.
NotifyDrained == /\ reader = "notifying"
                 /\ decoder' = Woken(decoder, "checking")
                 /\ reader' = "looping"
                 /\ UNCHANGED <<packet, decoded, buffer, buf_len, buf, played>>

ReaderWakesSpuriously ==
    /\ reader = "parked"
    /\ reader' = "locking"
    /\ UNCHANGED <<decoder, packet, decoded, buffer, buf_len, buf, played>>

-----------------------------------------------------------------------------
DecoderStep == \/ Open
               \/ \E n \in 1..MaxPacket : FetchPacket(n)
               \/ FetchEnd
               \/ FetchError
               \/ CheckRoom
               \/ BufferPacket

ReadStep == LoopAgain \/ ReturnFull \/ FindEmpty \/ Drain \/ NotifyDrained

Next == \/ Start
        \/ DecoderStep
        \/ DecoderWakesSpuriously
        \/ \E n \in ReadLens : CallRead(n)
        \/ ReadStep
        \/ ReaderWakesSpuriously

Spec == Init /\ [][Next]_vars

\* Both threads are scheduled, and a stack that is playing asks again and
\* again for samples, if now and then for none.  Nothing is assumed of
\* spurious wakeups.
Fairness == /\ WF_vars(DecoderStep)
            /\ WF_vars(ReadStep)
            /\ SF_vars(\E n \in ReadLens \ {0} : CallRead(n))

FairSpec == Spec /\ Fairness
-----------------------------------------------------------------------------
\* s holds the samples of the file that follow the first k, in order.
Follows(s, k) == \A i \in 1..Len(s) : s[i] = k + i

TypeOK == /\ decoder \in DecoderStates
          /\ packet \in Seq(Nat)
          /\ decoded \in Nat
          /\ buffer \in Seq(Nat)
          /\ reader \in ReaderStates
          /\ buf_len \in Nat
          /\ buf \in Seq(Nat)
          /\ played \in Seq(Nat)

\* What was played, then what the current call copied, then the shared
\* buffer, then the packet in the decoder's hands are the decoded samples:
\* read() and the decoding thread together lose, repeat and reorder none.
InOrder == /\ Follows(played, 0)
           /\ Follows(buf, Len(played))
           /\ Follows(buffer, Len(played) + Len(buf))
           /\ Follows(packet, Len(played) + Len(buf) + Len(buffer))
           /\ decoded = Len(played) + Len(buf) + Len(buffer) + Len(packet)

\* The buffer stays below the mark it is tested against plus one packet,
\* although the test and the push are separate critical sections.
BufferBounded == Len(buffer) < HighWater + MaxPacket

\* No lost wakeup.  The decoder sleeps only while there is no room or the
\* reader that made room is about to notify; the reader only while empty.
NoLostWakeup ==
    /\ decoder = "parked" => Len(buffer) >= HighWater \/ reader = "notifying"
    /\ reader = "parked" => buffer = <<>>

\* The two threads never both sleep on the condition variable they share.
NeverBothParked == ~(decoder = "parked" /\ reader = "parked")

\* read() gives back a full slice or nothing: an underrun in mid-call makes
\* it wait, and never shortens what the data callback reports.
FullRead == reader \notin {"absent", "idle"} /\ reader' = "idle"
               => Len(played') = Len(played) + buf_len

ReadsAreFull == [][FullRead]_vars

\* The strengthening that makes the invariants above inductive.

\* The decoder holds a packet from the moment it fetched it until the push.
PacketInHand ==
    /\ decoder \in {"checking", "parked", "pushing"} => Len(packet) \in 1..MaxPacket
    /\ decoder \notin {"checking", "parked", "pushing"} => packet = <<>>

\* The room the decoder tested for is still there when it pushes: nobody but
\* the decoder adds to the buffer.
RoomStillThere == decoder = "pushing" => Len(buffer) < HighWater

\* read() is never past its slice, and drains only while some of it is open
\* (the assertion copy_len > 0 of the code).
SliceInBounds == /\ Len(buf) <= buf_len
                 /\ reader \in {"absent", "idle"} => buf = <<>>
                 /\ reader \in {"locking", "parked"} => Len(buf) < buf_len

\* The stack has no stream to read from before the thread was spawned.
ReaderAfterStart == decoder = "unborn" => reader = "absent"

\* These hold together, between any two critical sections of the threads.
IInv == /\ TypeOK
        /\ InOrder
        /\ BufferBounded
        /\ NoLostWakeup
        /\ PacketInHand
        /\ RoomStillThere
        /\ SliceInBounds
        /\ ReaderAfterStart

\* Every sample the decoding thread pushed is copied out in the end, as long
\* as the stack keeps reading, whatever happens to the decoder afterwards.
BufferedIsCopied ==
    \A k \in 1..FileLen :
        (decoded - Len(packet) >= k) ~> (Len(played) + Len(buf) >= k)

\* A decoder that waits for room gets on.
DecoderGetsRoom == (decoder = "parked") ~> (decoder = "pushing")

\* The decoding thread is done, in whatever way, what it pushed was drained, and
\* read() has a part of its slice left to fill.
Starved == /\ decoder \in {"ended", "failed"}
           /\ buffer = <<>>
           /\ reader \in {"locking", "parked"}

\* A call of read() that is under way when the decoding thread has finished
\* the file returns, as the comment at audio.rs:138 has it.
ReadReturnsAtEnd == (decoder = "ended" /\ reader # "idle") ~> (reader = "idle")

-----------------------------------------------------------------------------
\* The buffer is a first-in first-out queue that is filled packet by packet.
Queue == INSTANCE SampleQueue
            WITH queue <- buffer,
                 sent <- decoded - Len(packet),
                 taken <- Len(played) + Len(buf)

ImplementsQueue == Queue!Spec
=============================================================================
