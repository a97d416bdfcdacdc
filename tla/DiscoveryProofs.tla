--------------------------- MODULE DiscoveryProofs ---------------------------
(***************************************************************************)
(* The safety properties of Discovery, for every set of device kinds,      *)
(* every capacity of the channel and every number of results, from the     *)
(* invariant IInv.                                                         *)
(***************************************************************************)
EXTENDS Discovery, TLAPS

\* An element is put at the end of a sequence.
LEMMA AppendProperties ==
    ASSUME NEW S, NEW s \in Seq(S), NEW e \in S
    PROVE  /\ Append(s, e) \in Seq(S)
           /\ Append(s, e) # <<>>
           /\ Len(Append(s, e)) = Len(s) + 1
           /\ Append(s, e)[Len(s) + 1] = e
           /\ \A i \in 1..Len(s) : Append(s, e)[i] = s[i]
OBVIOUS

\* The first element is taken from a sequence.
LEMMA TailProperties ==
    ASSUME NEW S, NEW s \in Seq(S), s # <<>>
    PROVE  /\ Tail(s) \in Seq(S)
           /\ Head(s) \in S
           /\ Head(s) = s[1]
           /\ Len(s) \in Nat \ {0}
           /\ Len(Tail(s)) = Len(s) - 1
           /\ \A i \in 1..(Len(s) - 1) : Tail(s)[i] = s[i + 1]
OBVIOUS

\* What the invariant consists of when it is looked at piece by piece.
LEMMA InitIInv == Init => IInv
<1> SUFFICES ASSUME Init PROVE IInv
    OBVIOUS
<1>1. TypeOK
    <2>1. \A S : <<>> \in Seq(S)
        OBVIOUS
    <2>2. /\ events \in Seq(Devices \cup {Stopped})
          /\ queue \in Seq(Devices) /\ handled \in Seq(Devices) /\ received \in Seq(Devices)
        BY <2>1, Zenon DEF Init
    <2> QED
        BY <2>2 DEF Init, TypeOK, MainStates, Panics
<1>2. InOrder /\ FirstA2dpFound /\ NothingFoundYet
    BY DEF Init, InOrder, FirstA2dpFound, NothingFoundYet
<1>3. ChannelWhileInquiring /\ StoppedIsLast
    BY DEF Init, ChannelWhileInquiring, StopComing, StoppedIsLast
<1>4. ChannelFits /\ NothingBeforeStart /\ ClosedWhenDropped
    BY CapacityAssumption DEF Init, ChannelFits, NothingBeforeStart, ClosedWhenDropped
<1> QED
    BY <1>1, <1>2, <1>3, <1>4 DEF IInv

\* STOPPED is none of the devices.
LEMMA StoppedIsNoDevice == Stopped \notin Devices
BY DEF Stopped, Devices, AllKinds

\* The stack reports a result while the inquiry is on: STOPPED is not among
\* the events then, and does not become one.
LEMMA ResultIInv ==
    ASSUME IInv, NEW kind \in Kinds, InquiryResult(kind)
    PROVE  IInv'
<1> DEFINE device == [address |-> results + 1, kind |-> kind]
<1>1. device \in Devices
    BY KindsAssumption DEF IInv, TypeOK, Devices
<1>2. device # Stopped
    BY <1>1, StoppedIsNoDevice
<1> HIDE DEF device
<1>3. /\ inquiring /\ Running /\ results' = results + 1
      /\ events' = Append(events, device)
      /\ UNCHANGED <<inquiring, channel, main, panic, handled, received>>
    BY DEF InquiryResult, device
<1>4. /\ events' \in Seq(Devices \cup {Stopped})
      /\ events' # <<>>
      /\ Len(events') = Len(events) + 1
      /\ events'[Len(events) + 1] = device
      /\ \A i \in 1..Len(events) : events'[i] = events[i]
      /\ Len(events) \in Nat
    <2>1. events \in Seq(Devices \cup {Stopped}) /\ device \in Devices \cup {Stopped}
        BY <1>1 DEF IInv, TypeOK
    <2> QED
        BY <1>3, <2>1, AppendProperties
<1>5. TypeOK'
    BY <1>3, <1>4 DEF IInv, TypeOK, channel
<1>6. StoppedIsLast' /\ ~StopComing'
    BY <1>2, <1>3, <1>4 DEF IInv, StoppedIsLast, StopComing
<1>7. ChannelWhileInquiring'
    BY <1>3, <1>6 DEF IInv, ChannelWhileInquiring, channel
<1> QED
    BY <1>3, <1>5, <1>6, <1>7
    DEF IInv, InOrder, FirstA2dpFound, ChannelFits, NothingBeforeStart,
        ClosedWhenDropped, NothingFoundYet, IsA2dp, channel

\* The inquiry comes to its end, by itself or cancelled: STOPPED is on its way.
LEMMA EndedInquiry ==
    ASSUME IInv, inquiring, inquiring' = FALSE, events' = Append(events, Stopped)
    PROVE  /\ events' \in Seq(Devices \cup {Stopped})
           /\ StoppedIsLast'
           /\ StopComing'
<1>1. /\ events' \in Seq(Devices \cup {Stopped})
      /\ Len(events') = Len(events) + 1
      /\ events'[Len(events) + 1] = Stopped
      /\ \A i \in 1..Len(events) : events'[i] = events[i]
      /\ Len(events) \in Nat
    BY AppendProperties DEF IInv, TypeOK
<1>2. StopComing'
    BY <1>1 DEF StopComing
<1>3. StoppedIsLast'
    BY <1>1 DEF IInv, StoppedIsLast
<1> QED
    BY <1>1, <1>2, <1>3

\* What is left of the events when the first one was handled.
LEMMA HandledEvent ==
    ASSUME IInv, events # <<>>, events' = Tail(events), UNCHANGED inquiring
    PROVE  /\ Head(events) \in Devices \cup {Stopped}
           /\ events' \in Seq(Devices \cup {Stopped})
           /\ StoppedIsLast'
           /\ Head(events) = Stopped => ~inquiring /\ ~StopComing' /\ StopComing
           /\ Head(events) # Stopped => StopComing' = StopComing
<1>1. /\ events' \in Seq(Devices \cup {Stopped})
      /\ Head(events) \in Devices \cup {Stopped}
      /\ Head(events) = events[1]
      /\ Len(events) \in Nat \ {0}
      /\ Len(events') = Len(events) - 1
      /\ \A i \in 1..(Len(events) - 1) : events'[i] = events[i + 1]
    BY TailProperties DEF IInv, TypeOK
<1>2. \A i \in 1..Len(events') : i + 1 \in 1..Len(events) /\ events'[i] = events[i + 1]
    BY <1>1
<1>3. StoppedIsLast'
    <2>1. ASSUME NEW i \in 1..Len(events'), events'[i] = Stopped
          PROVE  i = Len(events') /\ ~inquiring
        <3>1. i + 1 \in 1..Len(events) /\ events[i + 1] = Stopped
            BY <1>1, <1>2, <2>1
        <3>2. i + 1 = Len(events)
            BY <3>1 DEF IInv, StoppedIsLast
        <3>3. ~inquiring
            BY <3>1 DEF IInv, StoppedIsLast
        <3>4. i \in Int /\ Len(events) \in Int /\ Len(events') = Len(events) - 1
            BY <1>1
        <3>5. i = Len(events')
            BY ONLY <3>2, <3>4
        <3> QED
            BY <3>3, <3>5
    <2>2. ASSUME events' # <<>>, ~inquiring PROVE events'[Len(events')] = Stopped
        <3>1. events[Len(events)] = Stopped
            BY <2>2 DEF IInv, StoppedIsLast
        <3>2. Len(events') \in 1..Len(events') /\ Len(events') + 1 = Len(events)
            BY <1>1, <2>2
        <3> QED
            BY <1>2, <3>1, <3>2
    <2> QED
        BY <2>1, <2>2 DEF StoppedIsLast
<1>4. ASSUME Head(events) = Stopped PROVE ~inquiring /\ ~StopComing' /\ StopComing
    <2>1. 1 \in 1..Len(events) /\ events[1] = Stopped
        BY <1>1, <1>4
    <2>2. Len(events) = 1 /\ ~inquiring
        BY <2>1 DEF IInv, StoppedIsLast
    <2> QED
        BY <1>1, <1>4, <2>1, <2>2 DEF StopComing
<1>5. ASSUME Head(events) # Stopped PROVE StopComing' <=> StopComing
    <2>1. ASSUME NEW i \in 1..Len(events), events[i] = Stopped PROVE StopComing'
        <3>1. i - 1 \in 1..Len(events') /\ events'[i - 1] = events[i]
            BY <1>1, <1>5, <2>1
        <3> QED
            BY <2>1, <3>1 DEF StopComing
    <2> QED
        BY <1>2, <2>1 DEF StopComing
<1> QED
    BY <1>1, <1>3, <1>4, <1>5 DEF StopComing

\* A result is broadcast, or overflows the channel, or finds none: before the
\* search has a channel no event can be handled, and afterwards STOPPED is
\* still to come as long as another event is.
LEMMA DiscoveryResultIInv ==
    ASSUME IInv, DiscoveryResult
    PROVE  IInv'
<1> DEFINE device == Head(events)
<1>1. /\ Running /\ LockFree /\ events # <<>> /\ device # Stopped
      /\ events' = Tail(events)
      /\ handled' = Append(handled, device)
      /\ queue' = IF discovery /\ HasSlot THEN Append(queue, device) ELSE queue
      /\ panic' = IF discovery /\ ~HasSlot THEN "full" ELSE panic
      /\ UNCHANGED <<stack, discovery, closed, kept, main, received>>
    BY DEF DiscoveryResult
<1>2. /\ events' \in Seq(Devices \cup {Stopped})
      /\ device \in Devices
      /\ StoppedIsLast'
      /\ StopComing' = StopComing
    BY <1>1, HandledEvent DEF stack
<1>3. discovery
    <2>1. inquiring \/ StopComing
        <3>1. CASE inquiring
            BY <3>1
        <3>2. CASE ~inquiring
            <4>1. events[Len(events)] = Stopped /\ Len(events) \in 1..Len(events)
                BY <1>1, <3>2, TailProperties DEF IInv, TypeOK, StoppedIsLast
            <4> QED
                BY <4>1 DEF StopComing
        <3> QED
            BY <3>1, <3>2
    <2> QED
        BY <1>1, <2>1 DEF IInv, ChannelWhileInquiring, LockFree
<1> HIDE DEF device
<1>4. /\ handled' \in Seq(Devices)
      /\ Len(handled') = Len(handled) + 1
      /\ handled'[Len(handled) + 1] = device
      /\ \A i \in 1..Len(handled) : handled'[i] = handled[i]
      /\ Len(handled) \in Nat /\ Len(received) \in Nat /\ Len(queue) \in Nat
    BY <1>1, <1>2, AppendProperties DEF IInv, TypeOK
<1>5. main \notin {"idle", "starting", "started"}
    BY <1>1, <1>3 DEF IInv, LockFree, NothingBeforeStart, ChannelWhileInquiring, StopComing
<1>6. FirstA2dpFound' /\ NothingFoundYet'
    BY <1>1, <1>4 DEF IInv, InOrder, FirstA2dpFound, NothingFoundYet, IsA2dp, Running
<1>7. ChannelWhileInquiring'
    BY <1>1, <1>2 DEF IInv, ChannelWhileInquiring, stack
<1>8. NothingBeforeStart' /\ ClosedWhenDropped'
    BY <1>1, <1>5 DEF IInv, NothingBeforeStart, ClosedWhenDropped
<1>9. CASE HasSlot
    <2>1. /\ queue' \in Seq(Devices)
          /\ Len(queue') = Len(queue) + 1
          /\ queue'[Len(queue) + 1] = device
          /\ \A i \in 1..Len(queue) : queue'[i] = queue[i]
        BY <1>1, <1>2, <1>3, <1>9, AppendProperties DEF IInv, TypeOK
    <2>2. TypeOK'
        BY <1>1, <1>2, <1>3, <1>4, <1>9, <2>1 DEF IInv, TypeOK, stack
    <2>3. InOrder'
        <3>1. Len(handled) = Len(received) + Len(queue)
            BY <1>1, <1>4 DEF IInv, InOrder, Running
        <3>2. Len(handled') = Len(received') + Len(queue') /\ panic' = "none"
            BY <1>1, <1>3, <1>4, <1>9, <2>1, <3>1 DEF Running
        <3>3. \A i \in 1..Len(received') : received'[i] = handled'[i]
            BY <1>1, <1>4, <3>1 DEF IInv, InOrder
        <3>4. \A i \in 1..Len(queue') : queue'[i] = handled'[Len(received') + i]
            <4> SUFFICES ASSUME NEW i \in 1..Len(queue')
                         PROVE  queue'[i] = handled'[Len(received) + i]
                BY <1>1
            <4>1. CASE i = Len(queue) + 1
                BY <1>4, <2>1, <3>1, <4>1
            <4>2. CASE i # Len(queue) + 1
                <5>1. i \in 1..Len(queue) /\ Len(received) + i \in 1..Len(handled)
                    BY <1>4, <2>1, <3>1, <4>2
                <5> QED
                    BY <1>4, <2>1, <5>1 DEF IInv, InOrder
            <4> QED
                BY <4>1, <4>2
        <3>5. Len(handled') = Len(received') + Len(queue') + (IF panic' = "full" THEN 1 ELSE 0)
            <4>1. Len(received') \in Nat /\ Len(queue') \in Nat
                BY <1>1, <1>4, <2>1
            <4> QED
                BY ONLY <3>2, <4>1
        <3> QED
            BY <3>3, <3>4, <3>5, Zenon DEF InOrder
    <2>4. ChannelFits'
        BY <1>1, <1>3, <1>4, <1>9, <2>1, CapacityAssumption
        DEF IInv, TypeOK, ChannelFits, HasSlot
    <2> QED
        BY <1>2, <1>6, <1>7, <1>8, <2>2, <2>3, <2>4 DEF IInv
<1>10. CASE ~HasSlot
    <2>1. TypeOK'
        BY <1>1, <1>2, <1>3, <1>4, <1>10 DEF IInv, TypeOK, Panics, stack
    <2>2. InOrder' /\ ChannelFits'
        BY <1>1, <1>3, <1>4, <1>10 DEF IInv, InOrder, ChannelFits, Running
    <2> QED
        BY <1>2, <1>6, <1>7, <1>8, <2>1, <2>2 DEF IInv
<1> QED
    BY <1>9, <1>10

\* STOPPED is handled: the channel was there, and goes.
LEMMA DiscoveryStoppedIInv ==
    ASSUME IInv, DiscoveryStopped
    PROVE  IInv'
<1>1. /\ Running /\ LockFree /\ events # <<>> /\ Head(events) = Stopped
      /\ events' = Tail(events)
      /\ UNCHANGED <<inquiring, results, queue, main, panic, handled, received>>
    BY DEF DiscoveryStopped, stack
<1>2. /\ events' \in Seq(Devices \cup {Stopped})
      /\ StoppedIsLast'
      /\ ~inquiring /\ StopComing /\ ~StopComing'
    BY <1>1, HandledEvent
<1>3. discovery
    BY <1>1, <1>2 DEF IInv, ChannelWhileInquiring, LockFree
<1>4. closed' = TRUE /\ discovery' = FALSE /\ kept' = 0
    BY <1>3 DEF DiscoveryStopped
<1>5. TypeOK'
    BY <1>1, <1>2, <1>4 DEF IInv, TypeOK
<1>6. InOrder' /\ FirstA2dpFound' /\ NothingFoundYet'
    BY <1>1 DEF IInv, InOrder, FirstA2dpFound, NothingFoundYet, IsA2dp
<1>7. ChannelWhileInquiring' /\ ClosedWhenDropped'
    BY <1>1, <1>2, <1>4 DEF ChannelWhileInquiring, ClosedWhenDropped, LockFree
<1>8. ChannelFits'
    <2>1. kept \in Nat /\ Len(queue) \in Nat /\ kept + Len(queue) <= Capacity
        BY DEF IInv, TypeOK, ChannelFits
    <2> QED
        BY <1>1, <1>4, <2>1, CapacityAssumption DEF ChannelFits
<1>9. NothingBeforeStart'
    BY <1>1, <1>2, <1>4 DEF IInv, NothingBeforeStart, LockFree, StopComing
<1> QED
    BY <1>2, <1>5, <1>6, <1>7, <1>8, <1>9 DEF IInv

\* main receives a device that waits; it was the next one handled.
LEMMA ReceiveIInv ==
    ASSUME IInv, Receive
    PROVE  IInv'
<1> DEFINE device == Head(queue)
<1>1. /\ Running /\ main = "receiving" /\ queue # <<>>
      /\ received' = Append(received, device)
      /\ panic' = IF device.kind = "misfit" THEN "class" ELSE panic
      /\ main' = IF IsA2dp(device) THEN "found" ELSE "looping"
      /\ queue' = Tail(queue)
      /\ kept' = IF discovery THEN kept + 1 ELSE kept
      /\ UNCHANGED <<inquiring, results, events, discovery, closed, handled>>
    BY DEF Receive, stack
<1>2. /\ queue' \in Seq(Devices)
      /\ device \in Devices
      /\ device = queue[1]
      /\ Len(queue) \in Nat \ {0}
      /\ Len(queue') = Len(queue) - 1
      /\ \A i \in 1..(Len(queue) - 1) : queue'[i] = queue[i + 1]
    BY <1>1, TailProperties DEF IInv, TypeOK
<1> HIDE DEF device
<1>3. /\ received' \in Seq(Devices)
      /\ received' # <<>>
      /\ Len(received') = Len(received) + 1
      /\ received'[Len(received) + 1] = device
      /\ \A i \in 1..Len(received) : received'[i] = received[i]
      /\ Len(received) \in Nat
    BY <1>1, <1>2, AppendProperties DEF IInv, TypeOK
<1>4. device = handled[Len(received) + 1]
    BY <1>2 DEF IInv, InOrder
<1>5. TypeOK'
    BY <1>1, <1>2, <1>3 DEF IInv, TypeOK, MainStates, Panics
<1>6. InOrder'
    <2>1. Len(handled') = Len(received') + Len(queue') /\ panic' # "full"
        <3>1. Len(handled) = Len(received) + Len(queue)
            BY <1>1, <1>2, <1>3 DEF IInv, InOrder, Running
        <3> QED
            BY <1>1, <1>2, <1>3, <3>1 DEF Running
    <2>2. \A i \in 1..Len(received') : received'[i] = handled'[i]
        BY <1>1, <1>3, <1>4 DEF IInv, InOrder
    <2>3. ASSUME NEW i \in 1..Len(queue') PROVE queue'[i] = handled'[Len(received') + i]
        <3>1. /\ i \in 1..(Len(queue) - 1) /\ i + 1 \in 1..Len(queue)
              /\ Len(received') + i = Len(received) + (i + 1)
            BY <1>2, <1>3
        <3>2. queue'[i] = handled[Len(received) + (i + 1)]
            BY <1>2, <3>1 DEF IInv, InOrder
        <3> QED
            BY <1>1, <3>1, <3>2
    <2> QED
        BY <1>2, <1>3, <2>1, <2>2, <2>3 DEF InOrder
<1>7. FirstA2dpFound' /\ NothingFoundYet'
    <2>1. \A i \in 1..Len(received) : ~IsA2dp(received[i]) /\ ~IsA2dp(handled[i])
        BY <1>1 DEF IInv, InOrder, NothingFoundYet
    <2>2. CASE IsA2dp(device)
        BY <1>1, <1>3, <1>4, <2>1, <2>2 DEF FirstA2dpFound, NothingFoundYet, IsA2dp
    <2>3. CASE ~IsA2dp(device)
        BY <1>1, <1>3, <2>1, <2>3 DEF FirstA2dpFound, NothingFoundYet, IsA2dp
    <2> QED
        BY <2>2, <2>3
<1>8. ChannelWhileInquiring' /\ ClosedWhenDropped' /\ StoppedIsLast'
    BY <1>1 DEF IInv, ChannelWhileInquiring, StopComing, ClosedWhenDropped, StoppedIsLast
<1>9. ChannelFits'
    BY <1>1, <1>2, <1>3, CapacityAssumption DEF IInv, TypeOK, ChannelFits
<1>10. NothingBeforeStart'
    BY <1>1 DEF NothingBeforeStart
<1> QED
    BY <1>5, <1>6, <1>7, <1>8, <1>9, <1>10 DEF IInv

\* There is no channel before the search, so that gap_start_discovery does not
\* find one.
LEMMA IdleNoChannel == IInv /\ main = "idle" => ~discovery
BY DEF IInv, NothingBeforeStart, ChannelWhileInquiring, StopComing, TypeOK

\* Every step keeps the invariant.
LEMMA NextIInv == IInv /\ [Next]_vars => IInv'
<1> SUFFICES ASSUME IInv, [Next]_vars PROVE IInv'
    OBVIOUS
<1> USE DEF TypeOK, MainStates, Panics, InOrder, FirstA2dpFound, IsA2dp,
            ChannelWhileInquiring, StopComing, ChannelFits, NothingBeforeStart,
            ClosedWhenDropped, StoppedIsLast, NothingFoundYet, stack, channel
<1>1. ASSUME NEW kind \in Kinds, InquiryResult(kind) PROVE IInv'
    BY <1>1, ResultIInv
<1>2. CASE InquiryEnds
    <2>1. events' \in Seq(Devices \cup {Stopped}) /\ StoppedIsLast' /\ StopComing'
        BY <1>2, EndedInquiry DEF InquiryEnds
    <2> HIDE DEF StopComing, StoppedIsLast
    <2> QED
        BY <1>2, <2>1 DEF IInv, InquiryEnds
<1>3. CASE DiscoveryResult
    BY <1>3, DiscoveryResultIInv
<1>4. CASE DiscoveryStopped
    BY <1>4, DiscoveryStoppedIInv
<1>5. CASE LockDiscovery
    <2>1. ~discovery
        BY <1>5, IdleNoChannel DEF LockDiscovery
    <2> QED
        BY <1>5, <2>1 DEF IInv, LockDiscovery
<1>6. CASE StartInquiry
    <2>1. main = "starting" /\ UNCHANGED <<results, events, channel, handled, received>>
        BY <1>6 DEF StartInquiry
    <2>2. CASE inquiring' = TRUE /\ main' = "started" /\ UNCHANGED panic
        BY <2>1, <2>2 DEF IInv
    <2>3. CASE panic' = "start" /\ UNCHANGED <<inquiring, main>>
        BY <2>1, <2>3 DEF IInv
    <2> QED
        BY <1>6, <2>2, <2>3 DEF StartInquiry
<1>7. CASE ReplaceChannel
    BY <1>7 DEF IInv, ReplaceChannel, Running
<1>8. CASE TestClosed
    BY <1>8 DEF IInv, TestClosed
<1>9. CASE Receive
    BY <1>9, ReceiveIInv
<1>10. CASE ReceiveError
    BY <1>10 DEF IInv, ReceiveError
<1>11. CASE TakeName
    BY <1>11 DEF IInv, TakeName, Running
<1>12. CASE CancelDiscovery
    <2>1. CASE discovery /\ inquiring /\ inquiring' = FALSE /\ events' = Append(events, Stopped)
        <3>1. events' \in Seq(Devices \cup {Stopped}) /\ StoppedIsLast' /\ StopComing'
            BY <2>1, EndedInquiry
        <3> HIDE DEF StopComing, StoppedIsLast
        <3> QED
            BY <1>12, <2>1, <3>1 DEF IInv, CancelDiscovery
    <2>2. CASE UNCHANGED <<inquiring, events>>
        BY <1>12, <2>2 DEF IInv, CancelDiscovery
    <2> QED
        BY <1>12, <2>1, <2>2 DEF CancelDiscovery
<1>13. CASE UNCHANGED vars
    BY <1>13 DEF IInv, vars
<1> QED
    BY <1>1, <1>2, <1>3, <1>4, <1>5, <1>6, <1>7, <1>8, <1>9, <1>10, <1>11, <1>12, <1>13
    DEF Next, GapCallback, MainStep

\* The variables keep their types and the invariant holds throughout.
THEOREM Invariance == Spec => []IInv
<1> QED
    BY InitIInv, NextIInv, PTL DEF Spec

\* Between the callback and the search no result is lost, repeated or
\* overtaken.
THEOREM ResultsInOrder == Spec => []InOrder
<1>1. IInv => InOrder
    BY DEF IInv
<1> QED
    BY Invariance, <1>1, PTL

\* The device that is connected to is the first with A2DP that was reported.
THEOREM FirstDevice == Spec => []FirstA2dpFound
<1>1. IInv => FirstA2dpFound
    BY DEF IInv
<1> QED
    BY Invariance, <1>1, PTL

\* The channel is there exactly while the inquiry is on or about to report
\* its end.
THEOREM ChannelLifetime == Spec => []ChannelWhileInquiring
<1>1. IInv => ChannelWhileInquiring
    BY DEF IInv
<1> QED
    BY Invariance, <1>1, PTL

-----------------------------------------------------------------------------
\* How far BroadcastFits fails.  Every result of the inquiry is an event still
\* or was handed to bt_app_gap_cb.
Counted ==
    /\ results <= MaxResults
    /\ Len(handled) + Len(events) = results + (IF StopComing THEN 1 ELSE 0)

LEMMA InitCounted == Init => Counted
BY MaxResultsAssumption DEF Init, Counted, StopComing

LEMMA NextCounted == IInv /\ Counted /\ [Next]_vars => Counted'
<1> SUFFICES ASSUME IInv, Counted, [Next]_vars PROVE Counted'
    OBVIOUS
<1>1. ASSUME NEW kind \in Kinds, InquiryResult(kind) PROVE Counted'
    <2>1. /\ inquiring /\ results < MaxResults /\ results' = results + 1
          /\ Len(events') = Len(events) + 1 /\ handled' = handled
        BY <1>1, AppendProperties, KindsAssumption
        DEF InquiryResult, IInv, TypeOK, Devices
    <2>2. ~StopComing
        BY <2>1 DEF IInv, StopComing, StoppedIsLast
    <2>3. IInv'
        BY <1>1, ResultIInv
    <2>4. ~StopComing'
        BY <1>1, <2>1, <2>3 DEF InquiryResult, IInv, StopComing, StoppedIsLast
    <2>5. /\ Len(events) \in Nat /\ Len(handled) \in Nat
          /\ results \in Nat /\ MaxResults \in Nat
        BY MaxResultsAssumption DEF IInv, TypeOK
    <2> QED
        BY <2>1, <2>2, <2>4, <2>5 DEF Counted
<1>2. ASSUME inquiring, inquiring' = FALSE, events' = Append(events, Stopped),
             UNCHANGED <<results, handled>>
      PROVE  Counted'
    <2>1. ~StopComing
        BY <1>2 DEF IInv, StopComing, StoppedIsLast
    <2>2. StopComing'
        BY <1>2, EndedInquiry
    <2>3. Len(events') = Len(events) + 1
        BY <1>2, AppendProperties DEF IInv, TypeOK
    <2>4. Len(events) \in Nat /\ Len(handled) \in Nat /\ results \in Nat
        BY DEF IInv, TypeOK
    <2> QED
        BY <1>2, <2>1, <2>2, <2>3, <2>4 DEF Counted
<1>3. CASE InquiryEnds
    BY <1>2, <1>3 DEF InquiryEnds
<1>4. CASE DiscoveryResult
    <2>1. StopComing' = StopComing /\ Head(events) \in Devices
        BY <1>4, HandledEvent DEF DiscoveryResult, stack
    <2>2. Len(events') = Len(events) - 1
        BY <1>4, TailProperties DEF DiscoveryResult, IInv, TypeOK
    <2>3. Len(handled') = Len(handled) + 1
        BY <1>4, <2>1, AppendProperties DEF DiscoveryResult, IInv, TypeOK
    <2>4. Len(events) \in Nat /\ Len(handled) \in Nat /\ results' = results
        BY <1>4 DEF DiscoveryResult, stack, IInv, TypeOK
    <2> QED
        BY <2>1, <2>2, <2>3, <2>4 DEF Counted
<1>5. CASE DiscoveryStopped
    <2>1. StopComing /\ ~StopComing'
        BY <1>5, HandledEvent DEF DiscoveryStopped, stack
    <2>2. Len(events') = Len(events) - 1
        BY <1>5, TailProperties DEF DiscoveryStopped, IInv, TypeOK
    <2>3. /\ Len(events) \in Nat /\ Len(handled) \in Nat /\ results \in Nat
          /\ UNCHANGED <<results, handled>>
        BY <1>5 DEF DiscoveryStopped, stack, IInv, TypeOK
    <2> QED
        BY <2>1, <2>2, <2>3 DEF Counted
<1>6. CASE CancelDiscovery
    <2>1. UNCHANGED <<results, handled>>
        BY <1>6 DEF CancelDiscovery
    <2>2. CASE UNCHANGED <<inquiring, events>>
        BY <2>1, <2>2 DEF Counted, StopComing
    <2> QED
        BY <1>2, <1>6, <2>1, <2>2 DEF CancelDiscovery
<1>7. ASSUME UNCHANGED <<results, events, handled>> PROVE Counted'
    BY <1>7 DEF Counted, StopComing
<1> QED
    BY <1>1, <1>3, <1>4, <1>5, <1>6, <1>7
    DEF Next, GapCallback, MainStep, LockDiscovery, StartInquiry, ReplaceChannel,
        TestClosed, Receive, ReceiveError, TakeName, stack, vars

\* The channel overflows for no other reason than the number of results: one
\* search that yields at most Capacity of them, whatever devices they are and
\* however late main receives them, never makes try_broadcast fail.
THEOREM NoOverflow == MaxResults <= Capacity => (Spec => []BroadcastFits)
<1> SUFFICES ASSUME MaxResults <= Capacity PROVE Spec => []BroadcastFits
    OBVIOUS
<1>1. Init => BroadcastFits
    BY DEF Init, BroadcastFits
<1>2. IInv /\ Counted /\ BroadcastFits /\ [Next]_vars => BroadcastFits'
    <2> SUFFICES ASSUME IInv, Counted, BroadcastFits, [Next]_vars, panic' = "full"
                 PROVE  FALSE
        BY DEF BroadcastFits
    <2>1. DiscoveryResult
        BY DEF BroadcastFits, Next, GapCallback, MainStep, InquiryResult, InquiryEnds,
               DiscoveryStopped, LockDiscovery, StartInquiry, ReplaceChannel, TestClosed,
               Receive, ReceiveError, TakeName, CancelDiscovery, vars
    <2>2. discovery /\ kept + Len(queue) >= Capacity
        <3>1. kept \in Nat /\ Len(queue) \in Nat /\ Capacity \in Nat
            BY CapacityAssumption DEF IInv, TypeOK
        <3> QED
            BY <2>1, <3>1 DEF BroadcastFits, DiscoveryResult, HasSlot
    <2>3. kept + Len(queue) = Len(handled)
        BY <2>1, <2>2 DEF IInv, ChannelFits, InOrder, DiscoveryResult, Running
    <2>4. Len(events) >= 1 + (IF StopComing THEN 1 ELSE 0)
        <3>1. events # <<>> /\ Head(events) # Stopped
            BY <2>1 DEF DiscoveryResult
        <3>2. Len(events) \in Nat \ {0} /\ Head(events) = events[1]
            BY <3>1, TailProperties DEF IInv, TypeOK
        <3> QED
            BY <3>1, <3>2 DEF StopComing
    <2>5. /\ Len(handled) \in Nat /\ Len(events) \in Nat /\ results \in Nat
          /\ MaxResults \in Nat /\ Capacity \in Nat
        BY MaxResultsAssumption, CapacityAssumption DEF IInv, TypeOK
    <2>6. Len(handled) >= Capacity /\ Len(handled) < results
        BY <2>2, <2>3, <2>4, <2>5 DEF Counted
    <2> QED
        BY <2>5, <2>6 DEF Counted
<1> QED
    BY InitCounted, NextCounted, Invariance, <1>1, <1>2, PTL DEF Spec

\* How far TimedOutWithout fails: of the results with A2DP none was received
\* and passed over; what was missed still waits in the closed channel, which
\* has room for no more than Capacity.
MissedWaits ==
    main = "timed_out" =>
        /\ closed /\ ~discovery /\ Len(queue) <= Capacity
        /\ \A i \in 1..Len(handled) : IsA2dp(handled[i]) =>
              \E j \in 1..Len(queue) : i = Len(received) + j /\ queue[j] = handled[i]

\* A search that was given up missed no loudspeaker but those broadcast
\* between its last recv() and the STOPPED that closed the channel.
THEOREM OnlyWaitingMissed == Spec => []MissedWaits
<1> DEFINE FullWhileOpen == panic = "full" => discovery
<1>1. Init => FullWhileOpen
    BY DEF Init
<1>2. FullWhileOpen /\ [Next]_vars => FullWhileOpen'
    BY DEF Next, GapCallback, MainStep, InquiryResult, InquiryEnds, DiscoveryResult,
           DiscoveryStopped, LockDiscovery, StartInquiry, ReplaceChannel, TestClosed,
           Receive, ReceiveError, TakeName, CancelDiscovery, channel, Running, vars
<1>3. IInv /\ FullWhileOpen => MissedWaits
    <2> SUFFICES ASSUME IInv, FullWhileOpen, main = "timed_out"
                 PROVE  /\ closed /\ ~discovery /\ Len(queue) <= Capacity
                        /\ \A i \in 1..Len(handled) : IsA2dp(handled[i]) =>
                              \E j \in 1..Len(queue) :
                                  i = Len(received) + j /\ queue[j] = handled[i]
        BY DEF MissedWaits
    <2>1. closed /\ ~discovery
        BY DEF IInv, ClosedWhenDropped
    <2>2. /\ Len(queue) \in Nat /\ Len(received) \in Nat /\ Len(handled) \in Nat
          /\ kept = 0 /\ Capacity \in Nat
        BY <2>1, CapacityAssumption DEF IInv, TypeOK, ChannelFits
    <2>3. Len(queue) <= Capacity
        BY <2>2 DEF IInv, ChannelFits
    <2>4. ASSUME NEW i \in 1..Len(handled), IsA2dp(handled[i])
          PROVE  \E j \in 1..Len(queue) : i = Len(received) + j /\ queue[j] = handled[i]
        <3>1. Len(handled) = Len(received) + Len(queue)
            BY <2>1, <2>2 DEF IInv, InOrder
        <3>2. i \notin 1..Len(received)
            BY <2>4 DEF IInv, InOrder, NothingFoundYet
        <3>3. i - Len(received) \in 1..Len(queue) /\ i = Len(received) + (i - Len(received))
            BY <2>2, <3>1, <3>2
        <3>4. queue[i - Len(received)] = handled[i]
            BY <3>3 DEF IInv, InOrder
        <3> QED
            BY <3>3, <3>4
    <2> QED
        BY <2>1, <2>3, <2>4
<1> QED
    BY Invariance, <1>1, <1>2, <1>3, PTL DEF Spec

-----------------------------------------------------------------------------
\* The refinement of Search.  Its variables, as Discovery has them.
chosen == IF Settled THEN <<received[Len(received)]>> ELSE <<>>
state == CASE ~Running -> "failed"
           [] Running /\ Settled -> "chosen"
           [] Running /\ main = "timed_out" -> "given_up"
           [] OTHER -> "searching"

\* The three mappings of main and panic that matter.
LEMMA StateCases ==
    /\ ~Running => state = "failed"
    /\ Running /\ Settled => state = "chosen"
    /\ Running /\ main = "timed_out" => state = "given_up"
    /\ Running /\ ~Settled /\ main # "timed_out" => state = "searching"
BY DEF state, Settled

LEMMA StateCasesNext ==
    /\ ~Running' => state' = "failed"
    /\ Running' /\ Settled' => state' = "chosen"
    /\ Running' /\ main' = "timed_out" => state' = "given_up"
    /\ Running' /\ ~Settled' /\ main' # "timed_out" => state' = "searching"
BY DEF state, Settled

\* A step that changes neither what was reported nor where the search stands.
LEMMA Stutter ==
    ASSUME UNCHANGED <<handled, received, panic>>,
           Settled' = Settled, (main = "timed_out")' = (main = "timed_out")
    PROVE  UNCHANGED <<handled, chosen, state>>
BY DEF chosen, state, Running

\* A panic of the main task, while it is neither done nor has given up.
LEMMA Panicked ==
    ASSUME Running, ~Running', UNCHANGED handled, chosen' = chosen,
           main # "timed_out"
    PROVE  Abstract!Fail
<1>1. state \in {"searching", "chosen"} /\ state' = "failed"
    BY StateCases, StateCasesNext
<1> QED
    BY <1>1 DEF Abstract!Fail, state, chosen

\* When a device is handled the search was not given up: the channel is there.
LEMMA NotGivenUp == IInv /\ DiscoveryResult => main # "timed_out"
<1> SUFFICES ASSUME IInv, DiscoveryResult, main = "timed_out" PROVE FALSE
    OBVIOUS
<1>1. closed /\ ~discovery
    BY DEF IInv, ClosedWhenDropped
<1>2. ~inquiring /\ ~StopComing
    BY <1>1 DEF IInv, ChannelWhileInquiring
<1>3. events # <<>> /\ events[Len(events)] = Stopped
    BY <1>2 DEF IInv, StoppedIsLast, DiscoveryResult
<1>4. Len(events) \in 1..Len(events)
    BY <1>3, TailProperties DEF IInv, TypeOK
<1> QED
    BY <1>2, <1>3, <1>4 DEF StopComing

\* Every step of Discovery is one of Search, or none.
LEMMA StepRefines == IInv /\ IInv' /\ [Next]_vars => [Abstract!Next]_<<handled, chosen, state>>
<1> SUFFICES ASSUME IInv, IInv', [Next]_vars
             PROVE  Abstract!Next \/ UNCHANGED <<handled, chosen, state>>
    OBVIOUS
<1> USE DEF Settled
<1>1. ASSUME NEW kind \in Kinds, InquiryResult(kind) PROVE UNCHANGED <<handled, chosen, state>>
    BY <1>1, Stutter DEF InquiryResult
<1>2. CASE InquiryEnds \/ DiscoveryStopped
    BY <1>2, Stutter DEF InquiryEnds, DiscoveryStopped
<1>3. CASE DiscoveryResult
    <2>1. main # "timed_out" /\ Running
        BY <1>3, NotGivenUp DEF DiscoveryResult
    <2>2. /\ Len(handled') = Len(handled) + 1
          /\ handled' = Append(handled, handled'[Len(handled')])
        BY <1>3, AppendProperties, TailProperties, HandledEvent
        DEF DiscoveryResult, IInv, TypeOK
    <2>3. chosen' = chosen
        BY <1>3 DEF DiscoveryResult, chosen
    <2>4. state \in {"searching", "chosen"}
        BY <2>1, StateCases
    <2>5. state' = state \/ state' = "failed"
        BY <1>3, <2>1 DEF DiscoveryResult, state, Running
    <2> QED
        BY <2>2, <2>3, <2>4, <2>5
        DEF Abstract!Next, Abstract!Report, Abstract!Fail, Abstract!Reported, chosen, state
<1>4. CASE LockDiscovery \/ ReplaceChannel \/ ReceiveError
    BY <1>4, IdleNoChannel, Stutter DEF LockDiscovery, ReplaceChannel, ReceiveError
<1>5. CASE CancelDiscovery
    BY <1>5, Stutter DEF CancelDiscovery
<1>6. CASE StartInquiry
    <2>1. CASE panic' = panic
        BY <1>6, <2>1, Stutter DEF StartInquiry
    <2>2. CASE panic' # panic
        <3>1. Running /\ ~Running' /\ UNCHANGED <<handled, received, main>> /\ main = "starting"
            BY <1>6, <2>2 DEF StartInquiry, Running
        <3> QED
            BY <3>1, Panicked DEF Abstract!Next, chosen
    <2> QED
        BY <2>1, <2>2
<1>7. CASE TestClosed
    <2>1. CASE closed
        <3>1. state = "searching" /\ state' = "given_up"
            BY <1>7, <2>1, StateCases, StateCasesNext DEF TestClosed, Running
        <3>2. chosen' = chosen /\ handled' = handled
            BY <1>7, <2>1 DEF TestClosed, chosen
        <3> QED
            BY <3>1, <3>2 DEF Abstract!Next, Abstract!GiveUp, chosen, state
    <2>2. CASE ~closed
        BY <1>7, <2>2, Stutter DEF TestClosed
    <2> QED
        BY <2>1, <2>2
<1>8. CASE Receive
    <2>1. /\ main = "receiving" /\ Running /\ handled' = handled
          /\ state = "searching" /\ chosen = <<>>
        BY <1>8, StateCases DEF Receive, chosen
    <2>2. CASE IsA2dp(Head(queue))
        <3>1. main' = "found" /\ Running'
            BY <1>8, <2>2 DEF Receive, Running, IsA2dp
        <3>2. chosen' = <<received'[Len(received')]>> /\ state' = "chosen"
            BY <3>1, StateCasesNext DEF chosen
        <3> DEFINE k == Len(received')
        <3>3. /\ k \in 1..Len(handled)
              /\ received'[k] = handled[k]
            <4>1. received' \in Seq(Devices) /\ received' # <<>>
                BY <3>1 DEF IInv, TypeOK, FirstA2dpFound
            <4>2. k \in 1..k
                BY <4>1
            <4>3. Len(handled) = k + Len(queue') /\ Len(queue') \in Nat
                <5>1. Len(handled') = k + Len(queue') + (IF panic' = "full" THEN 1 ELSE 0)
                    BY DEF IInv, InOrder
                <5>2. queue' \in Seq(Devices) /\ received' \in Seq(Devices)
                    BY DEF IInv, TypeOK
                <5>3. panic' # "full"
                    BY <3>1 DEF Running
                <5> QED
                    BY <2>1, <5>1, <5>2, <5>3
            <4> QED
                BY <2>1, <4>2, <4>3 DEF IInv, InOrder
        <3>4. IsA2dp(handled[k]) /\ \A j \in 1..(k - 1) : ~IsA2dp(handled[j])
            BY <2>1, <3>1 DEF IInv, FirstA2dpFound, IsA2dp
        <3> HIDE DEF k
        <3>5. Abstract!Choose(k)
            BY <2>1, <3>2, <3>3, <3>4 DEF Abstract!Choose, chosen, state, k
        <3> QED
            BY <3>3, <3>5 DEF Abstract!Next
    <2>3. CASE ~IsA2dp(Head(queue))
        <3>1. main' = "looping" /\ chosen' = chosen
            BY <1>8, <2>1, <2>3 DEF Receive, chosen
        <3>2. CASE Running'
            BY <2>1, <3>1, <3>2, StateCasesNext
        <3>3. CASE ~Running'
            BY <2>1, <3>1, <3>3, Panicked DEF Abstract!Next
        <3> QED
            BY <3>2, <3>3
    <2> QED
        BY <2>2, <2>3
<1>9. CASE TakeName
    <2>1. CASE Running'
        BY <1>9, <2>1, Stutter DEF TakeName, Running
    <2>2. CASE ~Running'
        <3>1. /\ Running /\ handled' = handled
              /\ main = "found" /\ UNCHANGED <<main, received>>
            BY <1>9, <2>2 DEF TakeName, Running
        <3> QED
            BY <2>2, <3>1, Panicked DEF Abstract!Next, chosen
    <2> QED
        BY <2>1, <2>2
<1>10. CASE UNCHANGED vars
    BY <1>10, Stutter DEF vars
<1> QED
    BY <1>1, <1>2, <1>3, <1>4, <1>5, <1>6, <1>7, <1>8, <1>9, <1>10
    DEF Next, GapCallback, MainStep

\* The search is one of those that Search describes, whatever devices there
\* are: a choice, once made, stands, and is the first loudspeaker reported.
THEOREM SearchRefinement == Spec => ImplementsSearch
<1>1. Init => Abstract!Init
    <2> SUFFICES ASSUME Init PROVE Abstract!Init
        OBVIOUS
    <2>1. Running /\ ~Settled /\ main # "timed_out" /\ handled = <<>>
        BY DEF Init, Running, Settled
    <2> QED
        BY <2>1 DEF Abstract!Init
<1>2. IInv /\ IInv' /\ [Next]_vars => [Abstract!Next]_(Abstract!svars)
    BY StepRefines DEF Abstract!svars, chosen, state
<1> QED
    BY Invariance, <1>1, <1>2, PTL DEF Spec, ImplementsSearch, Abstract!Spec
=============================================================================
