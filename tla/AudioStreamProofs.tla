-------------------------- MODULE AudioStreamProofs --------------------------
(***************************************************************************)
(* AudioStream is type correct, delivers the samples in order, keeps its   *)
(* buffer bounded, loses no wakeup and implements SampleQueue, for every   *)
(* value of the constants.  The argument is one inductive invariant, IInv. *)
(***************************************************************************)
EXTENDS AudioStream, SequenceTheorems, TLAPS

-----------------------------------------------------------------------------
(* What the model's operators on runs of samples do.                       *)

\* A run of samples goes on across a concatenation.
LEMMA FollowsConcat ==
    ASSUME NEW s \in Seq(Nat), NEW t \in Seq(Nat), NEW k \in Nat,
           Follows(s, k), Follows(t, k + Len(s))
    PROVE  /\ s \o t \in Seq(Nat)
           /\ Len(s \o t) = Len(s) + Len(t)
           /\ Follows(s \o t, k)
<1>1. /\ s \o t \in Seq(Nat)
      /\ Len(s \o t) = Len(s) + Len(t)
      /\ \A i \in 1..(Len(s) + Len(t)) :
            (s \o t)[i] = IF i <= Len(s) THEN s[i] ELSE t[i - Len(s)]
  BY ConcatProperties
<1>2. Len(s) \in Nat /\ Len(t) \in Nat
  BY LenProperties
<1>3. ASSUME NEW i \in 1..Len(s \o t)
      PROVE  (s \o t)[i] = k + i
  <2>1. CASE i <= Len(s)
    BY <1>1, <1>2, <2>1 DEF Follows
  <2>2. CASE i > Len(s)
    <3>1. i - Len(s) \in 1..Len(t)
      BY <1>1, <1>2, <2>2
    <3>2. t[i - Len(s)] = k + Len(s) + (i - Len(s))
      BY <3>1 DEF Follows
    <3>3. QED
      BY <1>1, <1>2, <2>2, <3>2
  <2>3. QED
    BY <1>1, <1>2, <2>1, <2>2
<1>4. QED
  BY <1>1, <1>3 DEF Follows

\* Cutting a run of samples in two gives two runs, the second of which goes
\* on where the first stops.
LEMMA FollowsSplit ==
    ASSUME NEW s \in Seq(Nat), NEW k \in Nat, NEW n \in 0..Len(s), Follows(s, k)
    PROVE  /\ SubSeq(s, 1, n) \in Seq(Nat)
           /\ SubSeq(s, n + 1, Len(s)) \in Seq(Nat)
           /\ Len(SubSeq(s, 1, n)) = n
           /\ Len(SubSeq(s, n + 1, Len(s))) = Len(s) - n
           /\ Follows(SubSeq(s, 1, n), k)
           /\ Follows(SubSeq(s, n + 1, Len(s)), k + n)
<1>1. Len(s) \in Nat /\ \A i \in 1..Len(s) : s[i] \in Nat
  BY LenProperties, ElementOfSeq
<1>2. /\ SubSeq(s, 1, n) \in Seq(Nat)
      /\ Len(SubSeq(s, 1, n)) = IF 1 <= n THEN n - 1 + 1 ELSE 0
      /\ \A i \in 1..(n - 1 + 1) : SubSeq(s, 1, n)[i] = s[1 + i - 1]
  <2>1. \A i \in 1..n : s[i] \in Nat
    BY <1>1
  <2>2. QED
    BY <1>1, <2>1, SubSeqProperties
<1>3. /\ SubSeq(s, n + 1, Len(s)) \in Seq(Nat)
      /\ Len(SubSeq(s, n + 1, Len(s)))
            = IF n + 1 <= Len(s) THEN Len(s) - (n + 1) + 1 ELSE 0
      /\ \A i \in 1..(Len(s) - (n + 1) + 1) :
            SubSeq(s, n + 1, Len(s))[i] = s[n + 1 + i - 1]
  <2>1. \A i \in (n + 1)..Len(s) : s[i] \in Nat
    BY <1>1
  <2>2. n + 1 \in Int /\ Len(s) \in Int
    BY <1>1
  <2>3. QED
    BY <2>1, <2>2, SubSeqProperties
<1>4. Follows(SubSeq(s, 1, n), k)
  BY <1>1, <1>2 DEF Follows
<1>5. Follows(SubSeq(s, n + 1, Len(s)), k + n)
  <2>1. ASSUME NEW i \in 1..(Len(s) - n)
        PROVE  SubSeq(s, n + 1, Len(s))[i] = k + n + i
    <3>1. SubSeq(s, n + 1, Len(s))[i] = s[n + i] /\ n + i \in 1..Len(s)
      BY <1>1, <1>3
    <3>2. QED
      BY <1>1, <3>1 DEF Follows
  <2>2. QED
    BY <1>1, <1>3, <2>1 DEF Follows
<1>6. QED
  BY <1>1, <1>2, <1>3, <1>4, <1>5

\* The empty sequence is a run of samples after any number of them.
LEMMA FollowsEmpty ==
    /\ <<>> \in Seq(Nat)
    /\ Len(<<>>) = 0
    /\ \A k \in Nat : Follows(<<>>, k)
BY EmptySeq DEF Follows

\* The packet that the decoder yields after k samples.
LEMMA FollowsPacket ==
    ASSUME NEW n \in Nat, NEW k \in Nat
    PROVE  /\ [i \in 1..n |-> k + i] \in Seq(Nat)
           /\ Len([i \in 1..n |-> k + i]) = n
           /\ Follows([i \in 1..n |-> k + i], k)
<1>1. [i \in 1..n |-> k + i] \in [1..n -> Nat]
  OBVIOUS
<1>2. [i \in 1..n |-> k + i] \in Seq(Nat)
  BY <1>1, SeqDef
<1>3. Len([i \in 1..n |-> k + i]) = n
  BY <1>2
<1>4. QED
  BY <1>2, <1>3 DEF Follows

-----------------------------------------------------------------------------
(* The inductive invariant.                                                *)

\* Every initial state satisfies the inductive invariant.
LEMMA InitIInv == Init => IInv
BY FollowsEmpty, HighWaterAssumption, MaxPacketAssumption
   DEF Init, IInv, TypeOK, DecoderStates, ReaderStates, InOrder, BufferBounded,
       NoLostWakeup, PacketInHand, RoomStillThere, SliceInBounds, ReaderAfterStart

\* Every step keeps it, one action at a time.
LEMMA NextIInv == IInv /\ [Next]_vars => IInv'
<1> SUFFICES ASSUME IInv, [Next]_vars
             PROVE  IInv'
  OBVIOUS
<1> USE HighWaterAssumption, MaxPacketAssumption, ReadLensAssumption, FileLenAssumption
<1> USE DEF IInv
<1>len. /\ Len(packet) \in Nat /\ Len(buffer) \in Nat
        /\ Len(buf) \in Nat /\ Len(played) \in Nat
  BY LenProperties DEF TypeOK
\* Steps that move no sample and keep the call's slice.
<1>1. CASE Start \/ Open \/ FetchEnd \/ FetchError \/ DecoderWakesSpuriously
           \/ ReaderWakesSpuriously \/ UNCHANGED vars
  <2>1. UNCHANGED <<packet, decoded, buffer, buf_len, buf, played>>
    BY <1>1 DEF Start, Open, FetchEnd, FetchError, DecoderWakesSpuriously,
                ReaderWakesSpuriously, vars
  <2>2. TypeOK' /\ PacketInHand' /\ NoLostWakeup' /\ RoomStillThere' /\ SliceInBounds'
        /\ ReaderAfterStart'
    BY <1>1, <2>1 DEF Start, Open, FetchEnd, FetchError, DecoderWakesSpuriously,
                ReaderWakesSpuriously, vars, TypeOK, PacketInHand, NoLostWakeup,
                RoomStillThere, SliceInBounds, ReaderAfterStart, DecoderStates,
                ReaderStates
  <2>3. QED
    BY <2>1, <2>2 DEF InOrder, BufferBounded, Follows
<1>2. ASSUME NEW n \in 1..MaxPacket, FetchPacket(n)
      PROVE  IInv'
  <2>1. /\ packet' \in Seq(Nat) /\ Len(packet') = n /\ Follows(packet', decoded)
        /\ packet = <<>>
    BY <1>2, FollowsPacket DEF FetchPacket, TypeOK, PacketInHand
  <2>2. UNCHANGED <<buffer, reader, buf_len, buf, played>>
    BY <1>2 DEF FetchPacket
  <2>3. InOrder'
    BY <1>2, <1>len, <2>1, <2>2, FollowsEmpty DEF FetchPacket, InOrder, Follows, TypeOK
  <2>4. TypeOK' /\ PacketInHand' /\ NoLostWakeup' /\ RoomStillThere'
        /\ ReaderAfterStart'
    BY <1>2, <2>1 DEF FetchPacket, TypeOK, PacketInHand, NoLostWakeup,
                RoomStillThere, ReaderAfterStart, DecoderStates
  <2>5. QED
    BY <2>2, <2>3, <2>4 DEF BufferBounded, SliceInBounds
<1>3. CASE CheckRoom
  <2>1. UNCHANGED <<packet, decoded, buffer, reader, buf_len, buf, played>>
    BY <1>3 DEF CheckRoom
  <2>2. TypeOK' /\ PacketInHand' /\ NoLostWakeup' /\ RoomStillThere'
        /\ ReaderAfterStart'
    BY <1>3, <1>len DEF CheckRoom, HasRoom, TypeOK, PacketInHand, NoLostWakeup,
                RoomStillThere, ReaderAfterStart, DecoderStates
  <2>3. QED
    BY <2>1, <2>2 DEF InOrder, BufferBounded, SliceInBounds, Follows
<1>4. CASE BufferPacket
  <2>1. /\ buffer' \in Seq(Nat)
        /\ Len(buffer') = Len(buffer) + Len(packet)
        /\ Follows(buffer', Len(played) + Len(buf))
    BY <1>4, <1>len, FollowsConcat DEF BufferPacket, TypeOK, InOrder
  <2>2. packet' = <<>> /\ UNCHANGED <<decoded, buf_len, buf, played>>
    BY <1>4 DEF BufferPacket
  <2>3. InOrder'
    BY <1>len, <2>1, <2>2, FollowsEmpty DEF InOrder, Follows, TypeOK
  <2>4. BufferBounded'
    BY <1>4, <1>len, <2>1 DEF BufferPacket, BufferBounded, RoomStillThere, PacketInHand
  <2>5. TypeOK' /\ PacketInHand' /\ NoLostWakeup' /\ RoomStillThere' /\ SliceInBounds'
        /\ ReaderAfterStart'
    BY <1>4, <2>1, <2>2, FollowsEmpty
       DEF BufferPacket, Woken, TypeOK, PacketInHand, NoLostWakeup, RoomStillThere,
           SliceInBounds, ReaderAfterStart, DecoderStates, ReaderStates
  <2>6. QED
    BY <2>3, <2>4, <2>5
<1>5. ASSUME NEW n \in ReadLens, CallRead(n)
      PROVE  IInv'
  <2>1. /\ buf = <<>> /\ buf' = <<>> /\ n \in Nat /\ buf_len' = n
        /\ UNCHANGED <<decoder, packet, decoded, buffer, played>>
    BY <1>5 DEF CallRead, SliceInBounds
  <2>2. InOrder'
    BY <2>1 DEF InOrder, Follows
  <2>3. QED
    BY <1>5, <2>1, <2>2, FollowsEmpty
       DEF CallRead, TypeOK, PacketInHand, NoLostWakeup, RoomStillThere,
           BufferBounded, SliceInBounds, ReaderAfterStart, ReaderStates
<1>6. CASE LoopAgain \/ FindEmpty
  <2>1. UNCHANGED <<decoder, packet, decoded, buffer, buf_len, buf, played>>
    BY <1>6 DEF LoopAgain, FindEmpty, SliceFull, end_of_file
  <2>2. InOrder'
    BY <2>1 DEF InOrder, Follows
  <2>3. QED
    BY <1>6, <2>1, <2>2
       DEF LoopAgain, FindEmpty, SliceFull, end_of_file, TypeOK, PacketInHand, NoLostWakeup,
           RoomStillThere, BufferBounded, SliceInBounds, ReaderAfterStart,
           ReaderStates
<1>7. CASE ReturnFull
  <2>1. /\ played' \in Seq(Nat)
        /\ Len(played') = Len(played) + Len(buf)
        /\ Follows(played', 0)
    BY <1>7, FollowsConcat, <1>len DEF ReturnFull, SliceFull, TypeOK, InOrder
  <2>2. buf' = <<>> /\ UNCHANGED <<decoder, packet, decoded, buffer, buf_len>>
    BY <1>7 DEF ReturnFull, SliceFull
  <2>3. InOrder'
    BY <1>len, <2>1, <2>2, FollowsEmpty DEF InOrder, Follows
  <2>4. QED
    BY <1>7, <2>1, <2>2, <2>3, FollowsEmpty
       DEF ReturnFull, SliceFull, TypeOK, PacketInHand, NoLostWakeup, RoomStillThere,
           BufferBounded, SliceInBounds, ReaderAfterStart, ReaderStates
<1>8. CASE Drain
  <2> DEFINE k == copy_len
  <2>1. k \in 1..Len(buffer) /\ k <= buf_len - Len(buf)
    <3>1. Len(buffer) > 0
      BY <1>8, EmptySeq DEF Drain, TypeOK
    <3>2. buf_len - Len(buf) > 0
      BY <1>8, <1>len DEF Drain, SliceInBounds, TypeOK
    <3>3. QED
      BY <3>1, <3>2, <1>len DEF copy_len, MinOf, TypeOK
  <2>2. /\ reader' = "notifying"
        /\ buf' = buf \o SubSeq(buffer, 1, k)
        /\ buffer' = SubSeq(buffer, k + 1, Len(buffer))
        /\ UNCHANGED <<decoder, packet, decoded, buf_len, played>>
    BY <1>8 DEF Drain, Rest
  <2> HIDE DEF k
  <2>3. /\ SubSeq(buffer, 1, k) \in Seq(Nat) /\ buffer' \in Seq(Nat)
        /\ Len(SubSeq(buffer, 1, k)) = k /\ Len(buffer') = Len(buffer) - k
        /\ Follows(SubSeq(buffer, 1, k), Len(played) + Len(buf))
        /\ Follows(buffer', Len(played) + Len(buf) + k)
    <3>1. Follows(buffer, Len(played) + Len(buf)) /\ buffer \in Seq(Nat)
      BY DEF TypeOK, InOrder
    <3>2. Len(played) + Len(buf) \in Nat /\ k \in 0..Len(buffer)
      BY <1>len, <2>1
    <3>3. QED
      BY <2>2, <3>1, <3>2, FollowsSplit
  <2>4. /\ buf' \in Seq(Nat) /\ Len(buf') = Len(buf) + k
        /\ Follows(buf', Len(played))
    BY <1>len, <2>2, <2>3, FollowsConcat DEF TypeOK, InOrder
  <2>5. InOrder'
    <3>1. k \in Nat
      BY <1>len, <2>1
    <3>u. played' = played /\ packet' = packet /\ decoded' = decoded
      BY <2>2
    <3>l. Len(buf') = Len(buf) + k /\ Len(buffer') = Len(buffer) - k
      BY <2>3, <2>4
    <3>2. /\ Len(played') + Len(buf') = Len(played) + Len(buf) + k
          /\ Len(played') + Len(buf') + Len(buffer')
                = Len(played) + Len(buf) + Len(buffer)
          /\ decoded' = Len(played') + Len(buf') + Len(buffer') + Len(packet')
      <4>1. decoded = Len(played) + Len(buf) + Len(buffer) + Len(packet)
        BY DEF InOrder
      <4>2. Len(played') = Len(played) /\ Len(packet') = Len(packet)
        BY <3>u
      <4>3. QED
        BY <1>len, <3>u, <3>l, <3>1, <4>1, <4>2
    <3>3. Follows(played', 0) /\ Follows(buf', Len(played'))
      BY <2>2, <2>4 DEF InOrder
    <3>4. Follows(buffer', Len(played') + Len(buf'))
      BY <2>3, <3>2
    <3>5. Follows(packet', Len(played') + Len(buf') + Len(buffer'))
      BY <2>2, <3>2 DEF InOrder
    <3>6. QED
      BY <3>2, <3>3, <3>4, <3>5 DEF InOrder
  <2>6. TypeOK' /\ PacketInHand' /\ NoLostWakeup' /\ ReaderAfterStart'
    BY <1>8, <2>2, <2>3, <2>4
       DEF Drain, TypeOK, PacketInHand, NoLostWakeup, ReaderAfterStart, ReaderStates
  <2>7. RoomStillThere' /\ BufferBounded' /\ SliceInBounds'
    <3>1. k \in Nat /\ k <= Len(buffer) /\ k <= buf_len - Len(buf)
      BY <1>len, <2>1
    <3>2. Len(buffer') <= Len(buffer) /\ Len(buf') <= buf_len'
      BY <1>len, <2>2, <2>3, <2>4, <3>1 DEF TypeOK
    <3>3. Len(buffer') \in Nat /\ decoder' = decoder /\ reader' = "notifying"
      BY <1>len, <2>2, <2>3, <3>1
    <3>4. RoomStillThere' /\ BufferBounded'
      BY <1>len, <3>2, <3>3 DEF RoomStillThere, BufferBounded
    <3>5. SliceInBounds'
      BY <3>2, <3>3 DEF SliceInBounds
    <3>6. QED
      BY <3>4, <3>5
  <2>8. QED
    BY <2>5, <2>6, <2>7
<1>9. CASE NotifyDrained
  <2>1. UNCHANGED <<packet, decoded, buffer, buf_len, buf, played>>
    BY <1>9 DEF NotifyDrained
  <2>2. InOrder'
    BY <2>1 DEF InOrder, Follows
  <2>3. QED
    BY <1>9, <2>1, <2>2
       DEF NotifyDrained, Woken, TypeOK, PacketInHand, NoLostWakeup, RoomStillThere,
           BufferBounded, SliceInBounds, ReaderAfterStart, DecoderStates, ReaderStates
<1>10. QED
  BY <1>1, <1>2, <1>3, <1>4, <1>5, <1>6, <1>7, <1>8, <1>9
     DEF Next, DecoderStep, ReadStep

\* IInv holds in every reachable state, whatever the constants are.
THEOREM Invariance == Spec => []IInv
BY InitIInv, NextIInv, PTL DEF Spec

-----------------------------------------------------------------------------
(* What follows from it.                                                   *)

\* The stack plays the file's samples in order, none lost and none repeated.
THEOREM DeliveredInOrder == Spec => []InOrder
<1>1. IInv => InOrder
  BY DEF IInv
<1>2. QED
  BY <1>1, Invariance, PTL

\* Testing for room and pushing in two critical sections never overfills the
\* buffer by a packet or more.
THEOREM BoundKept == Spec => []BufferBounded
<1>1. IInv => BufferBounded
  BY DEF IInv
<1>2. QED
  BY <1>1, Invariance, PTL

\* Neither thread sleeps through the notification it waits for.
THEOREM WakeupsNotLost == Spec => []NoLostWakeup
<1>1. IInv => NoLostWakeup
  BY DEF IInv
<1>2. QED
  BY <1>1, Invariance, PTL

\* The decoder and the data callback never wait for each other.
THEOREM NoMutualWait == Spec => []NeverBothParked
<1>1. IInv => NeverBothParked
  BY HighWaterAssumption, FollowsEmpty DEF IInv, NoLostWakeup, NeverBothParked
<1>2. QED
  BY <1>1, Invariance, PTL

\* read() never returns a partly filled slice.
THEOREM FullReads == Spec => ReadsAreFull
<1>1. IInv /\ [Next]_vars => [FullRead]_vars
  <2> SUFFICES ASSUME IInv, [Next]_vars, ~UNCHANGED vars,
                      reader \notin {"absent", "idle"}, reader' = "idle"
               PROVE  Len(played') = Len(played) + buf_len
    BY DEF FullRead
  <2>1. ReturnFull
    BY DEF Next, DecoderStep, ReadStep, Start, Open, FetchPacket, FetchEnd,
           FetchError, CheckRoom, BufferPacket, DecoderWakesSpuriously, CallRead,
           LoopAgain, ReturnFull, FindEmpty, Drain, NotifyDrained,
           ReaderWakesSpuriously, Woken, end_of_file, IInv, ReaderAfterStart
  <2>2. Len(buf) = buf_len
    BY <2>1, LenProperties DEF ReturnFull, SliceFull, IInv, SliceInBounds, TypeOK
  <2>3. QED
    BY <2>1, <2>2, ConcatProperties DEF ReturnFull, SliceFull, IInv, TypeOK
<1>2. QED
  BY <1>1, Invariance, PTL DEF Spec, ReadsAreFull

\* The two threads implement the first-in first-out queue of SampleQueue.
THEOREM QueueRefinement == Spec => ImplementsQueue
<1>1. Init => Queue!Init
  <2> SUFFICES ASSUME Init
               PROVE  Queue!Init
    OBVIOUS
  <2>1. buffer = <<>> /\ decoded = 0 /\ packet = <<>> /\ buf = <<>> /\ played = <<>>
    BY DEF Init
  <2>2. Len(packet) = 0 /\ Len(buf) = 0 /\ Len(played) = 0
    BY <2>1, FollowsEmpty
  <2>3. decoded - Len(packet) = 0 /\ Len(played) + Len(buf) = 0
    <3>1. decoded = 0
      BY <2>1
    <3>2. QED
      BY <3>1, <2>2
  <2>4. QED
    BY <2>1, <2>3, Zenon DEF Queue!Init
<1>2. IInv /\ [Next]_vars => [Queue!Next]_(Queue!qvars)
  <2> SUFFICES ASSUME IInv, [Next]_vars
               PROVE  [Queue!Next]_(Queue!qvars)
    OBVIOUS
  <2> USE DEF Queue!qvars
  <2>len. /\ Len(packet) \in Nat /\ Len(buffer) \in Nat
          /\ Len(buf) \in Nat /\ Len(played) \in Nat /\ decoded \in Nat
    BY LenProperties DEF IInv, TypeOK
  <2>1. CASE \/ Start \/ Open \/ FetchEnd \/ FetchError \/ CheckRoom
             \/ DecoderWakesSpuriously \/ LoopAgain \/ FindEmpty
             \/ NotifyDrained \/ ReaderWakesSpuriously \/ UNCHANGED vars
    BY <2>1 DEF Start, Open, FetchEnd, FetchError, CheckRoom, DecoderWakesSpuriously,
                LoopAgain, FindEmpty, NotifyDrained, ReaderWakesSpuriously, vars,
                end_of_file
  <2>2. ASSUME NEW n \in 1..MaxPacket, FetchPacket(n)
        PROVE  UNCHANGED Queue!qvars
    <3>1. Len(packet') = n /\ Len(packet) = 0
      BY <2>2, FollowsPacket, FollowsEmpty DEF FetchPacket, IInv, TypeOK, PacketInHand
    <3>2. QED
      BY <2>2, <3>1, <2>len DEF FetchPacket
  <2>3. CASE BufferPacket
    <3>1. Len(packet) \in 1..MaxPacket
      BY <2>3 DEF BufferPacket, IInv, PacketInHand
    <3>2. packet = [i \in 1..Len(packet) |-> decoded - Len(packet) + i]
      <4>1. Len(played) + Len(buf) + Len(buffer) = decoded - Len(packet)
        BY <2>len DEF IInv, InOrder
      <4>2. \A i \in 1..Len(packet) : packet[i] = decoded - Len(packet) + i
        BY <4>1 DEF IInv, InOrder, Follows
      <4>3. packet = [i \in 1..Len(packet) |-> packet[i]]
        BY LenProperties DEF IInv, TypeOK
      <4>4. QED
        BY <4>2, <4>3
    <3>3. Queue!Put(Len(packet))
      BY <2>3, <2>len, <3>2, FollowsEmpty
         DEF BufferPacket, Queue!Put, IInv, RoomStillThere
    <3>4. QED
      BY <3>1, <3>3 DEF Queue!Next
  <2>4. ASSUME NEW n \in ReadLens, CallRead(n)
        PROVE  UNCHANGED Queue!qvars
    BY <2>4 DEF CallRead, IInv, SliceInBounds
  <2>5. CASE ReturnFull
    BY <2>5, <2>len, ConcatProperties, FollowsEmpty DEF ReturnFull, SliceFull, IInv, TypeOK
  <2>6. CASE Drain
    <3> DEFINE k == copy_len
    <3>1. k \in 1..Len(buffer)
      <4>1. Len(buffer) > 0
        BY <2>6, EmptySeq DEF Drain, IInv, TypeOK
      <4>2. buf_len - Len(buf) > 0
        BY <2>6, <2>len DEF Drain, IInv, SliceInBounds, TypeOK
      <4>3. QED
        BY <4>1, <4>2, <2>len DEF copy_len, MinOf, IInv, TypeOK
    <3>2. /\ buf' = buf \o SubSeq(buffer, 1, k)
          /\ buffer' = SubSeq(buffer, k + 1, Len(buffer))
          /\ UNCHANGED <<packet, decoded, played>>
      BY <2>6 DEF Drain, Rest
    <3> HIDE DEF k
    <3>3. SubSeq(buffer, 1, k) \in Seq(Nat) /\ Len(SubSeq(buffer, 1, k)) = k
      <4>1. k \in 0..Len(buffer) /\ Len(played) + Len(buf) \in Nat
        BY <3>1, <2>len
      <4>2. QED
        BY <4>1, FollowsSplit DEF IInv, TypeOK, InOrder
    <3>4. Len(buf') = Len(buf) + k
      BY <3>2, <3>3, ConcatProperties DEF IInv, TypeOK
    <3>5. Queue!Take(k)
      BY <2>len, <3>1, <3>2, <3>4 DEF Queue!Take
    <3>6. QED
      BY <3>1, <3>5 DEF Queue!Next
  <2>7. QED
    BY <2>1, <2>2, <2>3, <2>4, <2>5, <2>6 DEF Next, DecoderStep, ReadStep
<1>3. QED
  BY <1>1, <1>2, Invariance, PTL DEF Spec, ImplementsQueue, Queue!Spec

\* How far ReadReturnsAtEnd fails, after a decoding error as after the end.
StaysStarved == [][Starved => Starved' /\ UNCHANGED <<buf, played>>]_vars

\* Once that is so it stays so: read() may wake, but never returns, and what
\* it copied is never played.
THEOREM StarvedForGood == Spec => StaysStarved
<1>1. [Next]_vars => [Starved => Starved' /\ UNCHANGED <<buf, played>>]_vars
  BY DEF Starved, Next, DecoderStep, ReadStep, Start, Open, FetchPacket, FetchEnd,
         FetchError, CheckRoom, BufferPacket, DecoderWakesSpuriously, CallRead,
         LoopAgain, ReturnFull, FindEmpty, Drain, NotifyDrained,
         ReaderWakesSpuriously, end_of_file, vars
<1>2. QED
  BY <1>1, PTL DEF Spec, StaysStarved

=============================================================================
