------------------------------- MODULE A2dpPlay -------------------------------
(***************************************************************************)
(* playback_task, ESP32A2DP::play and AsyncCall on the main task, the      *)
(* MEDIA_CTRL_ACK arm of bt_app_a2d_cb on the Bluetooth task, and          *)
(* bt_app_a2d_data_cb on the data task, composed with the decoding thread  *)
(* and the read() of AudioStream.                                          *)
(*                                                                         *)
(* The data callback holds PLAY_STATE from the moment it found the stream  *)
(* until read() returned, so that mutex is free when `reader` is absent or *)
(* idle; its other critical sections are one action.  AsyncCall::complete  *)
(* is two steps, the result first and the notification then.               *)
(*                                                                         *)
(* The stack is external: it acknowledges the media commands it accepted,  *)
(* and may call the data callback at any time.  Whatever makes play return *)
(* an error, or panic, ends the firmware: its caller expects Ok.           *)
(***************************************************************************)
EXTENDS AudioStream

CONSTANT DataLens     \* the lengths in bytes the data callback is called with;
                      \* a negative one is answered before any state is read

ASSUME DataLensAssumption ==
    /\ DataLens \subseteq Nat
    /\ \A len \in DataLens : len \div 2 \in ReadLens

VARIABLES main,       \* where the main task is
          stream,     \* PLAY_STATE.stream, an Option
          listener,   \* the listener of SRC_READY_CALL.event main holds
          result,     \* SRC_READY_CALL.result
          bluetooth,  \* where AsyncCall::complete is
          command,    \* the media command the stack has accepted
          ack,        \* its acknowledgement, on its way to the callback
          media,      \* does the stack play
          call        \* the last call of the data callback: its length, what
                      \* it returned, and whether play had sent a command

stackvars == <<command, ack, media>>
callvars == <<listener, result, bluetooth>>
playvars == <<vars, main, stream, callvars, stackvars, call>>

\* "idle": before playback_task.  "locking": before PLAY_STATE.  "listening",
\* "checking", "waiting", "taking": in do_and_wait.  "starting": before the
\* START command.  "err": Err was returned.  "panic": a panic of play itself.
PlayStates == {"idle", "locking", "listening", "checking", "waiting", "taking",
               "starting", "ok", "err", "panic"}

Replies == {"none", "ok", "failed"}

\* Neither a panic of play, nor one of its caller on its error, has ended it.
Running == main \notin {"err", "panic"}

\* May a task take the PLAY_STATE mutex, and a mutant: the data callback
\* drops the guard before it calls read().
GuardDropped == reader # "absent"
PlayStateFree == reader \in {"absent", "idle"}

\* What notify does to main's listener, and a mutant that does nothing.
NotNotified == listener
Notified == IF listener = "registered" THEN "notified" ELSE listener

\* What complete stores, and a mutant that stores success only.
StoredSuccess == IF ack = "ok" THEN ack ELSE result
Stored == ack

\* What the value of the call leads to, and a mutant: the ? is missing.
AfterAnyReply == "starting"
AfterReply == CASE result = "ok"     -> "starting"
                [] result = "failed" -> "err"
                [] result = "none"   -> "panic"
-----------------------------------------------------------------------------
PlayInit == /\ Init
            /\ main = "idle"
            /\ stream = "none"
            /\ listener = "none"
            /\ result = "none"
            /\ bluetooth = "idle"
            /\ command = "none"
            /\ ack = "none"
            /\ media = "stopped"
            /\ call = [len |-> 0, bytes |-> 0, commanded |-> FALSE]

-----------------------------------------------------------------------------
(* playback_task and play.                                                 *)

\* OggBluetoothStream::new and start, whose error is playback_task's.
StartStream ==
    /\ main = "idle"
    /\ Start
    /\ main' = IF decoder' = "failed" THEN "err" ELSE "locking"
    /\ UNCHANGED <<stream, callvars, stackvars, call>>

\* A mutant of PlaceStream: it is left out.
KeepStream == /\ main = "locking"
              /\ main' = "listening"
              /\ UNCHANGED <<vars, stream, callvars, stackvars, call>>

\* play_state.stream = Some(stream), with the mutex held no longer than that.
PlaceStream == /\ main = "locking"
               /\ PlayStateFree
               /\ stream' = "some"
               /\ main' = "listening"
               /\ UNCHANGED <<vars, callvars, stackvars, call>>

\* A mutant of Listen: the listener is made after the command was sent, when
\* its await begins.
ListenNever == /\ main = "listening"
               /\ main' = "checking"
               /\ UNCHANGED <<vars, stream, callvars, stackvars, call>>

\* do_and_wait: register the listener before f is called.
Listen == /\ main = "listening"
          /\ listener' = "registered"
          /\ main' = "checking"
          /\ UNCHANGED <<vars, stream, result, bluetooth, stackvars, call>>

\* f: CHECK_SRC_RDY, which is accepted, or panics on the expect.
CheckSrcRdy ==
    /\ main = "checking"
    /\ \/ command' = "check" /\ ack' = "none" /\ main' = "waiting"
       \/ main' = "panic" /\ UNCHANGED <<command, ack>>
    /\ UNCHANGED <<vars, stream, callvars, media, call>>

\* listener.await completes.
Wake == /\ main = "waiting"
        /\ listener = "notified"
        /\ listener' = "none"
        /\ main' = "taking"
        /\ UNCHANGED <<vars, stream, result, bluetooth, stackvars, call>>

\* take().unwrap(), and the ? on the value.
TakeResult == /\ main = "taking"
              /\ main' = AfterReply
              /\ result' = "none"
              /\ UNCHANGED <<vars, stream, listener, bluetooth, stackvars, call>>

\* START, whose refusal is returned; its acknowledgement is not waited for.
StartMedia ==
    /\ main = "starting"
    /\ \/ command' = "start" /\ ack' = "none" /\ main' = "ok"
       \/ main' = "err" /\ UNCHANGED <<command, ack>>
    /\ UNCHANGED <<vars, stream, callvars, media, call>>

-----------------------------------------------------------------------------
(* The stack, and bt_app_a2d_cb.                                           *)

\* The stack has carried out the command, or failed to.
Acknowledge(reply) ==
    /\ command # "none" /\ ack = "none"
    /\ ack' = reply
    /\ media' = IF reply = "failed" THEN media
                ELSE IF command = "check" THEN "ready" ELSE "playing"
    /\ UNCHANGED <<vars, main, stream, callvars, command, call>>

\* MEDIA_CTRL_ACK: complete the call of a CHECK_SRC_RDY with its result, and
\* log the acknowledgement of a START.
MediaCtrlAck ==
    /\ ack # "none"
    /\ bluetooth = "idle"
    /\ IF command = "check"
       THEN result' = Stored /\ bluetooth' = "completing"
       ELSE UNCHANGED <<result, bluetooth>>
    /\ command' = "none" /\ ack' = "none"
    /\ UNCHANGED <<vars, main, stream, listener, media, call>>

\* The second half of complete, when the result's mutex has been released.
Notify == /\ bluetooth = "completing"
          /\ listener' = Notified
          /\ bluetooth' = "idle"
          /\ UNCHANGED <<vars, main, stream, result, stackvars, call>>

-----------------------------------------------------------------------------
(* bt_app_a2d_data_cb.                                                     *)

\* Has play sent a command to the stack?
Commanded == main \in {"waiting", "taking", "starting", "ok"}

\* There is no stream to read from: 0 is returned.
DataNoStream(len) ==
    /\ PlayStateFree
    /\ stream = "none"
    /\ call' = [len |-> len, bytes |-> 0, commanded |-> Commanded]
    /\ UNCHANGED <<vars, main, stream, callvars, stackvars>>

\* PLAY_STATE is taken, and read() called for half as many samples.
DataRead(len) ==
    /\ PlayStateFree
    /\ stream = "some"
    /\ call' = [len |-> len, bytes |-> 0, commanded |-> Commanded]
    /\ reader' = "looping" /\ buf_len' = len \div 2 /\ buf' = <<>>
    /\ UNCHANGED <<decoder, packet, decoded, buffer, played>>
    /\ UNCHANGED <<main, stream, callvars, stackvars>>

\* read() goes on; when it returns Ok(count), count * 2 is returned.
ReadRuns ==
    /\ ReadStep
    /\ call' = IF reader' = "idle"
               THEN [call EXCEPT !.bytes = 2 * (Len(played') - Len(played))]
               ELSE call
    /\ UNCHANGED <<main, stream, callvars, stackvars>>

\* The decoding thread, and spurious wakeups of either thread.
AudioRuns == /\ DecoderStep \/ DecoderWakesSpuriously \/ ReaderWakesSpuriously
             /\ UNCHANGED <<main, stream, callvars, stackvars, call>>
-----------------------------------------------------------------------------
PlayStep == \/ PlaceStream
            \/ Listen
            \/ CheckSrcRdy
            \/ Wake
            \/ TakeResult
            \/ StartMedia

DataCallback(len) == DataNoStream(len) \/ DataRead(len)

PlayNext == /\ Running
            /\ \/ StartStream
               \/ PlayStep
               \/ \E reply \in {"ok", "failed"} : Acknowledge(reply)
               \/ MediaCtrlAck
               \/ Notify
               \/ \E len \in DataLens : DataCallback(len)
               \/ ReadRuns
               \/ AudioRuns

PlaySpec == PlayInit /\ [][PlayNext]_playvars

\* All four threads are scheduled; the stack acknowledges every command it
\* accepted, and asks for samples again and again once it plays.
PlayFairness ==
    /\ WF_playvars(Running /\ PlayStep)
    /\ WF_playvars(Running /\ \E reply \in {"ok", "failed"} : Acknowledge(reply))
    /\ WF_playvars(Running /\ (MediaCtrlAck \/ Notify))
    /\ WF_playvars(Running /\ ReadRuns)
    /\ WF_playvars(Running /\ DecoderStep /\ AudioRuns)
    /\ SF_playvars(Running /\ media = "playing"
                           /\ \E len \in DataLens : len >= 2 /\ DataCallback(len))

PlayFairSpec == PlaySpec /\ PlayFairness
-----------------------------------------------------------------------------
PlayTypeOK ==
    /\ main \in PlayStates
    /\ stream \in {"none", "some"}
    /\ listener \in {"none", "registered", "notified"}
    /\ result \in Replies
    /\ bluetooth \in {"idle", "completing"}
    /\ command \in {"none", "check", "start"}
    /\ ack \in Replies
    /\ media \in {"stopped", "ready", "playing"}
    /\ call \in [len : Nat, bytes : Nat, commanded : BOOLEAN]

\* The acknowledgement is not missed: while main sleeps unnotified, it is
\* still to come, or its notification is.
AckNotMissed ==
    main = "waiting" /\ listener # "notified" =>
        /\ listener = "registered"
        /\ command = "check" \/ bluetooth = "completing"

\* A woken main finds the result: the unwrap of do_and_wait does not fail.
ResultThere == main = "taking" => result # "none"

\* Between commands nothing is outstanding, and no result is left over that
\* a later call could take for its own.
NothingLeftOver ==
    /\ main \in {"idle", "locking", "listening", "checking", "starting"} =>
          command = "none" /\ bluetooth = "idle" /\ result = "none"
    /\ main \in {"ok", "err"} => bluetooth = "idle" /\ result = "none" /\ command # "check"

\* The stack gets no silence from play: what it asks for after the first
\* command is answered in full, an odd byte aside, though the stream is put
\* in place behind a mutex of which the commands know nothing.
AnsweredInFull ==
    reader \in {"absent", "idle"} /\ call.commanded =>
        call.bytes = 2 * (call.len \div 2)

\* START is sent only after the stack confirmed that the source is ready.
StartWhenReady ==
    [][command' = "start" /\ command # "start" => media = "ready"]_playvars

\* The strengthening that makes these inductive.

\* There is a stream, and a thread that fills it, from the first command on;
\* read() runs only on a stream that is in place.
StreamBeforeCommand ==
    /\ main \notin {"idle", "locking", "err"} => stream = "some"
    /\ reader \notin {"absent", "idle"} => stream = "some"
    /\ main = "locking" \/ stream = "some" => reader # "absent"

\* The call passes from the stack to the callback to main, and is nowhere twice.
CallInOnePlace ==
    /\ main = "checking" => listener = "registered"
    /\ main = "waiting" =>
          \/ /\ command = "check" /\ bluetooth = "idle"
             /\ result = "none" /\ listener = "registered"
          \/ /\ command = "none" /\ bluetooth = "completing"
             /\ result # "none" /\ listener = "registered"
          \/ /\ command = "none" /\ bluetooth = "idle"
             /\ result # "none" /\ listener = "notified"
    /\ main = "taking" => command = "none" /\ bluetooth = "idle"

\* A read() under way was called with half the callback's length.
HalfLength == reader \notin {"absent", "idle"} => buf_len = call.len \div 2

\* A success that is stored, or on its way, is the stack's word.
SuccessIsReady ==
    /\ command = "check" /\ ack = "ok" => media = "ready"
    /\ result = "ok" => media = "ready"
    /\ main = "starting" => media = "ready"
    /\ main = "ok" => media # "stopped"

\* So is a failure: the stack is where it was before the command.
FailureIsStopped ==
    /\ main \in {"idle", "locking", "listening", "checking"} => media = "stopped"
    /\ command = "check" /\ ack # "ok" => media = "stopped"
    /\ result = "failed" => media = "stopped"

\* All of it: the hand-over of the call, the stream, and what they rest on.
PlayIInv == /\ PlayTypeOK
            /\ AckNotMissed
            /\ ResultThere
            /\ NothingLeftOver
            /\ AnsweredInFull
            /\ StreamBeforeCommand
            /\ CallInOnePlace
            /\ HalfLength
            /\ SuccessIsReady
            /\ FailureIsStopped

\* play returns, whenever the acknowledgement arrives.
PlayReturns == (main = "locking") ~> (main \in {"ok", "err", "panic"})

\* Once the stack plays, every sample the decoding thread pushed before or
\* pushes then is returned to it to be played: the four threads together get the
\* file out.  The only samples left are those in the last slice, if the decoding
\* thread is done and did not push enough to fill it.
PlayedUnlessStarved ==
    \A k \in 1..FileLen :
        (media = "playing" /\ decoded - Len(packet) >= k)
            ~> (Len(played) >= k \/ (Starved /\ Len(played) + Len(buf) >= k))

\* Under the data callback's use of it, with play_state locked for the whole
\* of read(), the audio stream behaves as AudioStream has it.
ImplementsAudio == Spec

\* What do_and_wait returned.  An error of play is the call's if the source did
\* not become ready, and otherwise that of START, which comes later.
Returned == CASE main \in {"starting", "ok"}      -> "ok"
              [] main = "err" /\ stream = "some" -> IF media = "stopped" THEN "failed" ELSE "ok"
              [] OTHER                           -> "none"

\* The answer of the stack, wherever it is: with the stack, in the result of
\* the call, or returned.
AnswerOnItsWay == IF command = "check" THEN ack
                  ELSE IF result # "none" THEN result ELSE Returned

Call == INSTANCE OneCall WITH
    Answers <- {"ok", "failed"},
    asked <- Commanded \/ (main = "err" /\ stream = "some"),
    answer <- AnswerOnItsWay,
    returned <- Returned

\* The listener, the result behind its mutex and the two halves of complete
\* implement the call that OneCall describes: what play acts upon is the
\* stack's one answer to its one command.
ImplementsCall == Call!Spec
=============================================================================
