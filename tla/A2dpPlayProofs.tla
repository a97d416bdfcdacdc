---------------------------- MODULE A2dpPlayProofs ----------------------------
(***************************************************************************)
(* The safety properties of A2dpPlay, for every buffer and packet size and *)
(* every set of lengths the data callback is called with.  The invariants  *)
(* of the audio stream and of playback are proved together: a step of the  *)
(* composition is a step of the stream, or none, only because playback     *)
(* puts a started stream in place, and the answers of the data callback    *)
(* are full only because read() fills its slice exactly.                   *)
(***************************************************************************)
EXTENDS A2dpPlay, AudioStreamProofs

\* Every step of the composition is one of the audio stream, or leaves it as
\* it is.
LEMMA StepRefines == PlayIInv /\ [PlayNext]_playvars => [Next]_vars
<1> SUFFICES ASSUME PlayIInv, [PlayNext]_playvars PROVE [Next]_vars
    OBVIOUS
<1>1. CASE StartStream
    BY <1>1 DEF StartStream, Next
<1>2. CASE PlayStep
    BY <1>2 DEF PlayStep, PlaceStream, Listen, CheckSrcRdy, Wake, TakeResult, StartMedia
<1>3. ASSUME NEW reply \in {"ok", "failed"}, Acknowledge(reply) PROVE UNCHANGED vars
    BY <1>3 DEF Acknowledge
<1>4. CASE MediaCtrlAck \/ Notify
    BY <1>4 DEF MediaCtrlAck, Notify
<1>5. ASSUME NEW len \in DataLens, DataNoStream(len) PROVE UNCHANGED vars
    BY <1>5 DEF DataNoStream
<1>6. ASSUME NEW len \in DataLens, DataRead(len) PROVE Next
    <2>1. reader = "idle"
        BY <1>6 DEF DataRead, PlayStateFree, PlayIInv, StreamBeforeCommand
    <2>2. len \div 2 \in ReadLens
        BY DataLensAssumption
    <2>3. CallRead(len \div 2)
        BY <1>6, <2>1 DEF DataRead, CallRead
    <2> QED
        BY <2>2, <2>3 DEF Next
<1>7. CASE ReadRuns
    BY <1>7 DEF ReadRuns, Next
<1>8. CASE AudioRuns
    BY <1>8 DEF AudioRuns, Next
<1>9. CASE UNCHANGED playvars
    BY <1>9 DEF playvars
<1> QED
    BY <1>1, <1>2, <1>3, <1>4, <1>5, <1>6, <1>7, <1>8, <1>9 DEF PlayNext, DataCallback

\* A call of the data callback that returns from read() is answered in full.
LEMMA AnswerFull ==
    ASSUME IInv, IInv', PlayIInv, ReadRuns, reader' = "idle"
    PROVE  call'.bytes = 2 * buf_len
<1>1. ReturnFull
    BY DEF ReadRuns, ReadStep, LoopAgain, FindEmpty, end_of_file, Drain, NotifyDrained
<1>2. played \in Seq(Nat) /\ buf \in Seq(Nat) /\ buf_len \in Nat /\ Len(buf) <= buf_len
    BY DEF IInv, TypeOK, SliceInBounds
<1>3. Len(buf) = buf_len
    BY <1>1, <1>2 DEF ReturnFull, SliceFull
<1>4. Len(played') = Len(played) + Len(buf)
    BY <1>1, <1>2 DEF ReturnFull
<1>5. call'.bytes = 2 * (Len(played') - Len(played))
    BY DEF ReadRuns, PlayIInv, PlayTypeOK
<1> QED
    BY <1>2, <1>3, <1>4, <1>5

\* Both invariants hold at first.
LEMMA PlayInitIInv == PlayInit => IInv /\ PlayIInv
<1> SUFFICES ASSUME PlayInit PROVE IInv /\ PlayIInv
    OBVIOUS
<1>1. IInv
    BY InitIInv DEF PlayInit
<1>2. call = [len |-> 0, bytes |-> 0, commanded |-> FALSE]
    BY DEF PlayInit
<1>3. call \in [len : Nat, bytes : Nat, commanded : BOOLEAN] /\ ~call.commanded
    BY <1>2
<1> QED
    BY <1>1, <1>3
    DEF PlayInit, Init, PlayIInv, PlayTypeOK, PlayStates, Replies, AckNotMissed,
        ResultThere, NothingLeftOver, AnsweredInFull, StreamBeforeCommand,
        HalfLength, SuccessIsReady, FailureIsStopped, CallInOnePlace

\* Every step keeps the invariant of playback.
LEMMA PlayNextIInv ==
    IInv /\ IInv' /\ PlayIInv /\ [PlayNext]_playvars => PlayIInv'
<1> SUFFICES ASSUME IInv, IInv', PlayIInv, [PlayNext]_playvars PROVE PlayIInv'
    OBVIOUS
<1> USE DEF PlayIInv, PlayTypeOK, PlayStates, Replies, AckNotMissed, ResultThere,
            NothingLeftOver, AnsweredInFull, StreamBeforeCommand, HalfLength,
            SuccessIsReady, FailureIsStopped, CallInOnePlace, vars, callvars, stackvars
<1>0. CASE ~Running
    <2>1. UNCHANGED playvars
        BY <1>0 DEF PlayNext
    <2> QED
        BY <2>1 DEF playvars
<1> SUFFICES ASSUME Running PROVE PlayIInv'
    BY <1>0
<1> USE DEF Running
<1>1. CASE StartStream
    BY <1>1 DEF StartStream, Start, IInv, ReaderAfterStart
<1>2. CASE PlaceStream
    BY <1>2 DEF PlaceStream
<1>3. CASE Listen
    BY <1>3 DEF Listen
<1>4. CASE CheckSrcRdy
    BY <1>4 DEF CheckSrcRdy
<1>5. CASE Wake
    BY <1>5 DEF Wake
<1>6. CASE TakeResult
    BY <1>6 DEF TakeResult, AfterReply
<1>7. CASE StartMedia
    BY <1>7 DEF StartMedia
<1>8. ASSUME NEW reply \in {"ok", "failed"}, Acknowledge(reply) PROVE PlayIInv'
    BY <1>8 DEF Acknowledge
<1>9. CASE MediaCtrlAck
    BY <1>9 DEF MediaCtrlAck, Stored
<1>10. CASE Notify
    BY <1>10 DEF Notify, Notified
<1>11. ASSUME NEW len \in DataLens, DataCallback(len) PROVE PlayIInv'
    <2>1. len \in Nat
        BY DataLensAssumption
    <2>2. call' = [len |-> len, bytes |-> 0, commanded |-> Commanded]
        BY <1>11 DEF DataCallback, DataNoStream, DataRead
    <2>3. /\ call' \in [len : Nat, bytes : Nat, commanded : BOOLEAN]
          /\ call'.len = len
          /\ call'.commanded = Commanded
        BY <2>1, <2>2 DEF Commanded
    <2>4. CASE DataNoStream(len)
        BY <2>3, <2>4 DEF DataNoStream, Commanded
    <2>5. CASE DataRead(len)
        BY <2>3, <2>5 DEF DataRead
    <2> QED
        BY <1>11, <2>4, <2>5 DEF DataCallback
<1>12. CASE ReadRuns
    <2>1. /\ reader \notin {"absent", "idle"}
          /\ buf_len' = buf_len
          /\ reader' # "absent"
        BY <1>12 DEF ReadRuns, ReadStep, LoopAgain, ReturnFull, FindEmpty, Drain, NotifyDrained
    <2>2. CASE reader' = "idle"
        <3>1. call'.bytes = 2 * buf_len
            BY <1>12, <2>2, AnswerFull
        <3>2. call' = [call EXCEPT !.bytes = 2 * (Len(played') - Len(played))]
            BY <1>12, <2>2 DEF ReadRuns
        <3>3. call'.len = call.len /\ call'.commanded = call.commanded
            BY <3>2
        <3>4. call' \in [len : Nat, bytes : Nat, commanded : BOOLEAN]
            <4> DEFINE bytes == 2 * (Len(played') - Len(played))
            <4>1. call' = [call EXCEPT !.bytes = bytes] /\ call'.bytes = bytes
                BY <3>2
            <4>2. bytes \in Nat
                BY <3>1, <4>1 DEF IInv, TypeOK
            <4> HIDE DEF bytes
            <4> QED
                BY <4>1, <4>2
        <3>5. buf_len = call.len \div 2
            BY <2>1 DEF HalfLength
        <3>6. AnsweredInFull'
            BY <3>1, <3>3, <3>5
        <3> HIDE DEF AnsweredInFull
        <3> QED
            BY <1>12, <2>1, <2>2, <3>4, <3>6 DEF ReadRuns
    <2>3. CASE reader' # "idle"
        BY <1>12, <2>1, <2>3 DEF ReadRuns
    <2> QED
        BY <2>2, <2>3
<1>13. CASE AudioRuns
    <2>1. /\ buf_len' = buf_len
          /\ (reader' \in {"absent", "idle"}) = (reader \in {"absent", "idle"})
          /\ (reader' = "absent") = (reader = "absent")
        BY <1>13 DEF AudioRuns, DecoderStep, Open, FetchPacket, FetchEnd, FetchError,
                     CheckRoom, BufferPacket, Woken, DecoderWakesSpuriously,
                     ReaderWakesSpuriously
    <2> QED
        BY <1>13, <2>1 DEF AudioRuns
<1>14. CASE UNCHANGED playvars
    BY <1>14 DEF playvars
<1> QED
    BY <1>1, <1>2, <1>3, <1>4, <1>5, <1>6, <1>7, <1>8, <1>9, <1>10, <1>11, <1>12,
       <1>13, <1>14 DEF PlayNext, PlayStep

\* The two invariants hold together throughout.
THEOREM PlayInvariance == PlaySpec => [](IInv /\ PlayIInv)
<1>1. IInv /\ PlayIInv /\ [PlayNext]_playvars => IInv' /\ PlayIInv'
    BY StepRefines, NextIInv, PlayNextIInv
<1> QED
    BY PlayInitIInv, <1>1, PTL DEF PlaySpec

\* play does not sleep through the acknowledgement, although the callback may
\* complete the call before main has begun to wait.
THEOREM AckHeard == PlaySpec => []AckNotMissed
<1>1. PlayIInv => AckNotMissed
    BY DEF PlayIInv
<1> QED
    BY PlayInvariance, <1>1, PTL

\* The unwrap of do_and_wait never finds None.
THEOREM ResultFound == PlaySpec => []ResultThere
<1>1. PlayIInv => ResultThere
    BY DEF PlayIInv
<1> QED
    BY PlayInvariance, <1>1, PTL

\* Every call of the data callback that comes after play's first command is
\* answered in full.
THEOREM NoSilence == PlaySpec => []AnsweredInFull
<1>1. PlayIInv => AnsweredInFull
    BY DEF PlayIInv
<1> QED
    BY PlayInvariance, <1>1, PTL

\* START is sent only to a stack that reported the source ready.
THEOREM StartsWhenReady == PlaySpec => StartWhenReady
<1>1. PlayIInv /\ [PlayNext]_playvars
        => [command' = "start" /\ command # "start" => media = "ready"]_playvars
    <2> SUFFICES ASSUME PlayIInv, PlayNext, command' = "start", command # "start"
                 PROVE  media = "ready"
        OBVIOUS
    <2>1. StartMedia
        BY DEF PlayNext, PlayStep, StartStream, PlaceStream, Listen, CheckSrcRdy, Wake,
               TakeResult, Acknowledge, MediaCtrlAck, Notify, DataCallback,
               DataNoStream, DataRead, ReadRuns, AudioRuns, stackvars
    <2> QED
        BY <2>1 DEF StartMedia, PlayIInv, SuccessIsReady
<1> QED
    BY PlayInvariance, <1>1, PTL DEF PlaySpec, StartWhenReady

\* A step that touches neither the call nor what becomes of play.
LEMMA CallStutter ==
    ASSUME UNCHANGED <<main, stream, result, command, ack, media>>
    PROVE  UNCHANGED Call!cvars
BY DEF Call!cvars, Commanded, AnswerOnItsWay, Returned

\* Every step of playback is one of the call, or none.
LEMMA CallStepRefines ==
    IInv /\ PlayIInv /\ [PlayNext]_playvars => [Call!Next]_(Call!cvars)
<1> SUFFICES ASSUME IInv, PlayIInv, [PlayNext]_playvars
             PROVE  Call!Next \/ UNCHANGED Call!cvars
    OBVIOUS
<1>0. CASE UNCHANGED playvars
    BY <1>0, CallStutter DEF playvars, callvars, stackvars
<1> SUFFICES ASSUME PlayNext, Running PROVE Call!Next \/ UNCHANGED Call!cvars
    BY <1>0 DEF PlayNext
<1> USE DEF PlayIInv, PlayTypeOK, Replies, NothingLeftOver, StreamBeforeCommand,
            CallInOnePlace, ResultThere, SuccessIsReady, FailureIsStopped, Running,
            Commanded, AnswerOnItsWay, Returned, Call!cvars, callvars, stackvars
<1>1. CASE StartStream
    <2>1. main = "idle" /\ stream = "none" /\ main' \in {"err", "locking"}
        BY <1>1 DEF StartStream, Start, IInv, ReaderAfterStart
    <2> QED
        BY <1>1, <2>1 DEF StartStream
<1>2. CASE PlaceStream \/ Listen
    BY <1>2 DEF PlaceStream, Listen
<1>3. CASE CheckSrcRdy
    BY <1>3 DEF CheckSrcRdy, Call!Next, Call!Ask
<1>4. CASE Wake
    BY <1>4 DEF Wake
<1>5. CASE TakeResult
    <2>1. Call!Return
        BY <1>5 DEF TakeResult, AfterReply, Call!Return
    <2> QED
        BY <2>1 DEF Call!Next
<1>6. CASE StartMedia
    BY <1>6 DEF StartMedia
<1>7. ASSUME NEW reply \in {"ok", "failed"}, Acknowledge(reply)
      PROVE  Call!Next \/ UNCHANGED Call!cvars
    <2>1. CASE command = "check"
        <3>1. main = "waiting"
            BY <2>1 DEF PlayStates
        <3>2. Call!Answer(reply)
            BY <1>7, <2>1, <3>1 DEF Acknowledge, Call!Answer
        <3> QED
            BY <3>2 DEF Call!Next
    <2>2. CASE command # "check"
        BY <1>7, <2>2 DEF Acknowledge
    <2> QED
        BY <2>1, <2>2
<1>8. CASE MediaCtrlAck
    BY <1>8 DEF MediaCtrlAck, Stored
<1>9. CASE Notify
    BY <1>9, CallStutter DEF Notify
<1>10. ASSUME NEW len \in DataLens, DataCallback(len) PROVE UNCHANGED Call!cvars
    BY <1>10, CallStutter DEF DataCallback, DataNoStream, DataRead
<1>11. CASE ReadRuns \/ AudioRuns
    BY <1>11, CallStutter DEF ReadRuns, AudioRuns
<1> QED
    BY <1>1, <1>2, <1>3, <1>4, <1>5, <1>6, <1>7, <1>8, <1>9, <1>10,
       <1>11 DEF PlayNext, PlayStep

\* do_and_wait, the acknowledgement and complete implement the one call of
\* OneCall, whenever the stack answers and however the tasks interleave.
THEOREM CallRefinement == PlaySpec => ImplementsCall
<1>1. PlayInit => Call!Init
    BY DEF PlayInit, Call!Init, Commanded, AnswerOnItsWay, Returned
<1> QED
    BY PlayInvariance, CallStepRefines, <1>1, PTL DEF PlaySpec, ImplementsCall, Call!Spec

\* The composition implements the audio stream: playback calls read() the way
\* AudioStream has it called, and disturbs nothing else of it.
THEOREM AudioRefinement == PlaySpec => ImplementsAudio
<1>1. PlayInit => Init
    BY DEF PlayInit
<1> QED
    BY PlayInvariance, StepRefines, <1>1, PTL DEF PlaySpec, Spec, ImplementsAudio

\* Hence what is proved of the audio stream holds of playback: the stack gets
\* the samples of the file in order, from a buffer that stays bounded.
THEOREM PlayedInOrder == PlaySpec => []InOrder /\ []BufferBounded
<1>1. PlaySpec => Spec
    BY AudioRefinement DEF ImplementsAudio
<1> QED
    BY <1>1, DeliveredInOrder, BoundKept
=============================================================================
