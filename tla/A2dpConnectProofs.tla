-------------------------- MODULE A2dpConnectProofs --------------------------
(***************************************************************************)
(* The safety properties of A2dpConnect, for every number of links that    *)
(* peers open, from the inductive invariant IInv.                          *)
(***************************************************************************)
EXTENDS A2dpConnect, TLAPS

\* What is stored and what is queued make one sequence of reports.
LEMMA ReportedParts ==
    ASSUME TypeOK
    PROVE  /\ Reported \in Seq(Events)
           /\ Len(events) \in Nat /\ Len(Reported) = Len(events) + 1
           /\ Reported[1] = [state |-> connection_state, of |-> told]
           /\ \A k \in 1..Len(events) : Reported[k + 1] = events[k]
<1> DEFINE first == [state |-> connection_state, of |-> told]
<1>1. first \in Events
    BY DEF TypeOK, Events
<1>2. events \in Seq(Events)
    BY DEF TypeOK
<1>3. Reported = <<first>> \o events
    BY DEF Reported
<1> HIDE DEF first
<1>4. /\ <<first>> \o events \in Seq(Events)
      /\ Len(events) \in Nat /\ Len(<<first>> \o events) = Len(events) + 1
      /\ (<<first>> \o events)[1] = first
      /\ \A k \in 1..Len(events) : (<<first>> \o events)[k + 1] = events[k]
    BY <1>1, <1>2
<1> QED
    BY <1>3, <1>4 DEF first

\* Before the call nothing is heard and no listener is registered.
LEMMA InitIInv == Init => IInv
<1> SUFFICES ASSUME Init PROVE IInv
    OBVIOUS
<1>1. raced \in BOOLEAN /\ heard \in BOOLEAN /\ clean \in BOOLEAN
    BY Zenon DEF Init
<1>2. TypeOK
    BY <1>1 DEF Init, TypeOK, LinkStates, MainStates, Attempts
<1>3. Len(Reported) = 1 /\ Reported[1] = [state |-> link, of |-> attempt]
    BY <1>2, ReportedParts DEF Init
<1>4. ReportsFollow
    BY <1>3 DEF ReportsFollow
<1>5. ~clean /\ ~heard
    BY Zenon DEF Init
<1> QED
    BY <1>2, <1>4, <1>5 DEF Init, IInv, SilentBeforeCall, TestAfterReport, FirstListener,
        CleanStart, SecondLoopAfterStart, ListenerUsedUp, SleepsOnNoOutcome, InStep

\* A change of the link is a report behind the others.
LEMMA ReportQueued ==
    ASSUME TypeOK, NEW state \in LinkStates, NEW of \in Attempts,
           events' = Append(events, [state |-> state, of |-> of]),
           UNCHANGED <<connection_state, told>>
    PROVE  /\ events' \in Seq(Events)
           /\ Len(Reported) \in Nat /\ Len(Reported') = Len(Reported) + 1
           /\ \A k \in 1..Len(Reported) : Reported'[k] = Reported[k]
           /\ Reported'[Len(Reported')] = [state |-> state, of |-> of]
<1> DEFINE first == [state |-> connection_state, of |-> told]
           last == [state |-> state, of |-> of]
<1>1. first \in Events /\ last \in Events
    BY DEF TypeOK, Events
<1>2. events \in Seq(Events)
    BY DEF TypeOK
<1>3. Reported = <<first>> \o events /\ Reported' = <<first>> \o Append(events, last)
    BY DEF Reported
<1>4. events' = Append(events, last)
    OBVIOUS
<1> HIDE DEF first, last
<1>5. Append(events, last) \in Seq(Events)
    BY <1>1, <1>2
<1>6. <<first>> \o Append(events, last) = Append(<<first>> \o events, last)
    BY <1>1, <1>2
<1>7. <<first>> \o events \in Seq(Events)
    BY <1>1, <1>2
<1>8. /\ Len(Reported) \in Nat /\ Len(Append(Reported, last)) = Len(Reported) + 1
      /\ \A k \in 1..Len(Reported) : Append(Reported, last)[k] = Reported[k]
      /\ Append(Reported, last)[Len(Reported) + 1] = last
    BY <1>1, <1>3, <1>7
<1> QED
    BY <1>3, <1>4, <1>5, <1>6, <1>8 DEF last

\* What the callback is handed stands in front of the others.
LEMMA ReportHanded ==
    ASSUME TypeOK, ProcessConnectionStateEvt
    PROVE  /\ TypeOK'
           /\ Len(Reported') \in Nat \ {0} /\ Len(Reported) = Len(Reported') + 1
           /\ \A k \in 1..Len(Reported') : Reported'[k] = Reported[k + 1]
           /\ [state |-> connection_state', of |-> told'] = Reported[2]
<1>1. events \in Seq(Events) /\ events # <<>>
    BY DEF TypeOK, ProcessConnectionStateEvt
<1>2. /\ Head(events) \in Events /\ Head(events) = events[1]
      /\ Tail(events) \in Seq(Events)
      /\ Len(events) \in Nat \ {0} /\ Len(Tail(events)) = Len(events) - 1
      /\ \A k \in 1..Len(Tail(events)) : Tail(events)[k] = events[k + 1]
    BY <1>1
<1>3. /\ connection_state' = Head(events).state /\ told' = Head(events).of
      /\ events' = Tail(events)
      /\ UNCHANGED <<link, incoming, main, attempt, clean>>
    BY DEF ProcessConnectionStateEvt
<1>4. heard' \in BOOLEAN /\ raced' \in BOOLEAN
    BY Zenon DEF ProcessConnectionStateEvt
<1>5. listener' \in {"none", "registered", "notified"}
    BY DEF ProcessConnectionStateEvt, Notified, TypeOK
<1>6. TypeOK'
    BY <1>2, <1>3, <1>4, <1>5 DEF TypeOK, Events
<1>7. /\ Len(Reported') = Len(events') + 1
      /\ Reported'[1] = [state |-> connection_state', of |-> told']
      /\ \A k \in 1..Len(events') : Reported'[k + 1] = events'[k]
    <2>1. TypeOK' => Reported' = <<[state |-> connection_state', of |-> told']>> \o events'
        BY DEF Reported
    <2> DEFINE first == [state |-> connection_state', of |-> told']
    <2>2. first \in Events
        BY <1>2, <1>3 DEF Events
    <2>3. events' \in Seq(Events)
        BY <1>2, <1>3
    <2>4. Reported' = <<first>> \o events'
        BY <1>6, <2>1
    <2> HIDE DEF first
    <2>5. /\ Len(<<first>> \o events') = Len(events') + 1
          /\ (<<first>> \o events')[1] = first
          /\ \A k \in 1..Len(events') : (<<first>> \o events')[k + 1] = events'[k]
        BY <2>2, <2>3
    <2> QED
        BY <2>4, <2>5 DEF first
<1>8. /\ Len(Reported) = Len(events) + 1
      /\ \A k \in 1..Len(events) : Reported[k + 1] = events[k]
    BY ReportedParts
<1>9. Head(events) = Reported[2]
    <2>1. 1 \in 1..Len(events)
        BY <1>2
    <2> QED
        BY <1>2, <1>8, <2>1
<1>10. [state |-> Head(events).state, of |-> Head(events).of] = Head(events)
    BY <1>2 DEF Events
<1>11. Len(Reported') = Len(events) /\ Len(Reported) = Len(Reported') + 1
    BY <1>2, <1>3, <1>7, <1>8
<1>12. ASSUME NEW k \in 1..Len(Reported') PROVE Reported'[k] = Reported[k + 1]
    <2>1. CASE k = 1
        BY <2>1, <1>3, <1>7, <1>9, <1>10
    <2>2. CASE k # 1
        <3>1. k - 1 \in 1..Len(Tail(events)) /\ k \in 1..Len(events) /\ (k - 1) + 1 = k
            BY <1>2, <1>11, <2>2
        <3>2. Reported'[k] = Tail(events)[k - 1]
            BY <1>3, <1>7, <3>1
        <3>3. Tail(events)[k - 1] = events[k]
            BY <1>2, <3>1
        <3> QED
            BY <3>1, <3>2, <3>3, <1>8
    <2> QED
        BY <2>1, <2>2
<1> QED
    BY <1>2, <1>3, <1>6, <1>9, <1>10, <1>11, <1>12

\* The link starts connecting when it is down, and then comes to an outcome.
LEMMA FollowLink ==
    ASSUME link \in LinkStates, NEW state \in Follow(link)
    PROVE  /\ state \in LinkStates
           /\ state = "connecting" => link = "disconnected"
           /\ link = "connecting" => state \in Outcomes
BY DEF LinkStates, Follow, Outcomes

\* A report that follows the last one, and is not of an earlier link that
\* starts connecting behind a clean start, keeps what is known of the reports.
LEMMA QueuedFollows ==
    ASSUME TypeOK, ReportsFollow, CleanStart,
           NEW state \in LinkStates, NEW of \in Attempts,
           events' = Append(events, [state |-> state, of |-> of]),
           UNCHANGED <<connection_state, told>>,
           link' = state, attempt' = of, attempt # "earlier" => of # "earlier",
           Follows([state |-> link, of |-> attempt], [state |-> state, of |-> of])
    PROVE  /\ events' \in Seq(Events)
           /\ ReportsFollow'
           /\ clean' = clean => CleanStart'
<1> DEFINE last == [state |-> state, of |-> of]
<1>1. /\ events' \in Seq(Events)
      /\ Len(Reported) \in Nat /\ Len(Reported') = Len(Reported) + 1
      /\ \A k \in 1..Len(Reported) : Reported'[k] = Reported[k]
      /\ Reported'[Len(Reported')] = last
    BY ReportQueued
<1>2. Follows(Reported[Len(Reported)], last)
    BY DEF ReportsFollow
<1>3. last.of = of /\ last.state = state
    OBVIOUS
<1>4. ASSUME NEW k \in 1..Len(Reported') - 1 PROVE Follows(Reported'[k], Reported'[k + 1])
    <2>1. CASE k = Len(Reported)
        <3>1. k \in 1..Len(Reported) /\ k + 1 = Len(Reported')
            BY <1>1, <2>1
        <3>2. Reported'[k] = Reported[Len(Reported)] /\ Reported'[k + 1] = last
            BY <1>1, <2>1, <3>1
        <3> QED
            BY <1>2, <3>2
    <2>2. CASE k # Len(Reported)
        <3>1. k \in 1..Len(Reported) /\ k + 1 \in 1..Len(Reported) /\ k \in 1..Len(Reported) - 1
            BY <1>1, <2>2
        <3>2. Reported'[k] = Reported[k] /\ Reported'[k + 1] = Reported[k + 1]
            BY <1>1, <3>1
        <3> QED
            BY <3>1, <3>2 DEF ReportsFollow
    <2> QED
        BY <2>1, <2>2
<1>5. \A k \in 1..Len(Reported') : k \in 1..Len(Reported) \/ k = Len(Reported')
    BY <1>1
<1>6. attempt' = "earlier" =>
          \A k \in 1..Len(Reported') : Reported'[k].of = "earlier"
    BY <1>1, <1>3, <1>5 DEF ReportsFollow
<1>7. clean' = clean => CleanStart'
    <2> SUFFICES ASSUME clean' = clean, clean PROVE CleanStart'
        BY DEF CleanStart
    <2>1. attempt' # "earlier" /\ last.of # "earlier"
        BY <1>3 DEF CleanStart
    <2>2. \A k \in 1..Len(Reported) : Reported[k].of = "earlier" => Reported[k].state # "connecting"
        BY DEF CleanStart
    <2>3. \A k \in 1..Len(Reported') : Reported'[k].of = "earlier" => Reported'[k].state # "connecting"
        BY <1>1, <1>5, <2>1, <2>2
    <2> QED
        BY <2>1, <2>3 DEF CleanStart
<1>8. Reported'[Len(Reported')] = [state |-> link', of |-> attempt']
    BY <1>1
<1> QED
    BY <1>1, <1>4, <1>6, <1>7, <1>8 DEF ReportsFollow

\* A report that is handed to the callback leaves the others as they follow.
LEMMA HandedFollows ==
    ASSUME TypeOK, ReportsFollow, CleanStart, ProcessConnectionStateEvt
    PROVE  ReportsFollow' /\ CleanStart'
<1>1. /\ Len(Reported') \in Nat \ {0} /\ Len(Reported) = Len(Reported') + 1
      /\ \A k \in 1..Len(Reported') : Reported'[k] = Reported[k + 1]
    BY ReportHanded
<1>2. UNCHANGED <<link, attempt, clean>>
    BY DEF ProcessConnectionStateEvt
<1>3. \A k \in 1..Len(Reported') : k + 1 \in 1..Len(Reported)
    BY <1>1
<1>4. ASSUME NEW k \in 1..Len(Reported') - 1 PROVE Follows(Reported'[k], Reported'[k + 1])
    <2>1. /\ k \in 1..Len(Reported') /\ k + 1 \in 1..Len(Reported')
          /\ k + 1 \in 1..Len(Reported) - 1
        BY <1>1
    <2>2. Reported'[k] = Reported[k + 1] /\ Reported'[k + 1] = Reported[(k + 1) + 1]
        BY <1>1, <2>1
    <2> QED
        BY <2>1, <2>2 DEF ReportsFollow
<1>5. Reported'[Len(Reported')] = [state |-> link', of |-> attempt']
    <2>1. Len(Reported') \in 1..Len(Reported')
        BY <1>1
    <2> QED
        BY <1>1, <1>2, <2>1 DEF ReportsFollow
<1>6. attempt' = "earlier" => \A k \in 1..Len(Reported') : Reported'[k].of = "earlier"
    BY <1>1, <1>2, <1>3 DEF ReportsFollow
<1>7. ReportsFollow'
    BY <1>4, <1>5, <1>6 DEF ReportsFollow
<1>8. CleanStart'
    BY <1>1, <1>2, <1>3 DEF CleanStart
<1> QED
    BY <1>7, <1>8

\* A report keeps the invariant: it notifies the listener, and what it stores
\* follows what was stored.
LEMMA ReportIInv == IInv /\ ProcessConnectionStateEvt => IInv'
<1> SUFFICES ASSUME IInv, ProcessConnectionStateEvt PROVE IInv'
    OBVIOUS
<1>1. TypeOK /\ ReportsFollow /\ CleanStart
    BY DEF IInv
<1>2. TypeOK' /\ ReportsFollow' /\ CleanStart'
    BY <1>1, HandedFollows, ReportHanded
<1>3. Follows([state |-> connection_state, of |-> told],
              [state |-> connection_state', of |-> told'])
    <2>1. Len(Reported') \in Nat \ {0} /\ Len(Reported) = Len(Reported') + 1
        BY <1>1, ReportHanded
    <2>2. 1 \in 1..Len(Reported) - 1 /\ 1 + 1 = 2
        BY <2>1
    <2>3. Follows(Reported[1], Reported[2])
        BY <1>1, <2>2 DEF ReportsFollow
    <2> QED
        BY <1>1, <2>3, ReportHanded, ReportedParts
<1>4. /\ connection_state' = "connecting" =>
            /\ connection_state = "disconnected"
            /\ told = "earlier" => told' # "later"
            /\ told # "earlier" => told' = "later"
      /\ connection_state' # "connecting" =>
            /\ told' = told
            /\ connection_state = "connecting" => connection_state' \in Outcomes
    BY <1>3 DEF Follows
<1>5. clean' /\ told' = "earlier" => connection_state' # "connecting"
    <2>1. 1 \in 1..Len(Reported')
        BY <1>1, ReportHanded
    <2>2. Reported'[1] = Reported[2]
        BY <1>1, <2>1, ReportHanded
    <2>3. Reported'[1] = [state |-> connection_state', of |-> told']
        BY <1>1, <2>2, ReportHanded
    <2> QED
        BY <1>2, <2>1, <2>3 DEF CleanStart
<1>6. told' \in Attempts
    BY <1>2 DEF TypeOK
<1>7. main # "idle" => heard'
    BY Zenon DEF ProcessConnectionStateEvt
<1>8. UNCHANGED <<main, attempt, clean>>
    BY DEF ProcessConnectionStateEvt
<1>9. raced' \/ (~raced /\ (main \in {"idle", "ok", "err"} \/ listener = "registered"))
    BY DEF ProcessConnectionStateEvt
<1>10. listener' = IF listener = "registered" THEN "notified" ELSE listener
    BY DEF ProcessConnectionStateEvt, Notified
<1>11. SilentBeforeCall'
    <2>1. main = "idle" => ~heard /\ listener = "none"
        BY DEF IInv, SilentBeforeCall
    <2>2. main = "idle" /\ ~heard => ~heard'
        BY Zenon DEF ProcessConnectionStateEvt
    <2> QED
        BY <1>8, <1>10, <2>1, <2>2 DEF IInv, SilentBeforeCall
<1>12. TestAfterReport'
    BY <1>7, <1>8, <1>10 DEF IInv, TestAfterReport, SilentBeforeCall
<1>13. FirstListener'
    BY <1>10 DEF FirstListener
<1>14. SecondLoopAfterStart'
    BY <1>4, <1>8 DEF IInv, SecondLoopAfterStart
<1>15. ListenerUsedUp'
    BY <1>8, <1>10 DEF IInv, ListenerUsedUp
<1>16. SleepsOnNoOutcome'
    BY <1>8, <1>9, <1>10 DEF IInv, SleepsOnNoOutcome, ListenerUsedUp
<1>17. InStep'
    <2> SUFFICES ASSUME clean', ~raced' PROVE InStep'
        BY DEF InStep
    <2>1. clean /\ ~raced
        BY <1>8, <1>9
    <2>2. CASE main = "await_start"
        <3>1. listener = "registered" /\ listener' = "notified"
            BY <1>9, <1>10, <2>2
        <3>2. told = "earlier"
            BY <2>1, <2>2, <3>1 DEF IInv, InStep
        <3>3. told' = "earlier" \/ (told' = "own" /\ connection_state' = "connecting")
            BY <1>4, <1>6, <3>2 DEF Attempts
        <3> QED
            BY <1>8, <2>2, <3>1, <3>3 DEF InStep
    <2>3. CASE main = "await_outcome"
        <3>1. listener = "registered" /\ listener' = "notified"
            BY <1>9, <1>10, <2>3
        <3>2. told = "own" /\ connection_state = "connecting"
            BY <2>1, <2>3, <3>1 DEF IInv, InStep
        <3>3. told' = "own" /\ connection_state' \in Outcomes
            BY <1>4, <3>2
        <3> QED
            BY <1>8, <2>3, <3>1, <3>3 DEF InStep
    <2>4. main \notin {"test_start", "between", "test_outcome"}
        BY <1>9, <2>1 DEF IInv, ListenerUsedUp
    <2> QED
        BY <1>8, <2>2, <2>3, <2>4 DEF InStep
<1> QED
    BY <1>2, <1>11, <1>12, <1>13, <1>14, <1>15, <1>16, <1>17 DEF IInv

\* So does a change of the link.
LEMMA LinkIInv ==
    ASSUME IInv, NEW state \in LinkStates, LinkChanges(state) PROVE IInv'
<1> DEFINE of == attempt'
<1>1. TypeOK /\ ReportsFollow /\ CleanStart
    BY DEF IInv
<1>2. /\ state \in Follow(link) /\ link' = state
      /\ incoming' \in Nat
      /\ events' = Append(events, [state |-> state, of |-> of])
      /\ UNCHANGED <<connection_state, listener, main, told, heard, clean, raced>>
    BY <1>1 DEF LinkChanges, TypeOK
<1>3. /\ of = IF state = "connecting" /\ attempt = "own" THEN "later" ELSE attempt
      /\ of \in Attempts
      /\ of = "earlier" <=> attempt = "earlier"
    BY <1>1 DEF LinkChanges, TypeOK, Attempts
<1>4. /\ state = "connecting" => link = "disconnected"
      /\ link = "connecting" => state \in Outcomes
    BY <1>1, <1>2, FollowLink DEF TypeOK
<1>5. Follows([state |-> link, of |-> attempt], [state |-> state, of |-> of])
    BY <1>1, <1>3, <1>4 DEF Follows, TypeOK, Attempts
<1>6. events' \in Seq(Events) /\ ReportsFollow' /\ CleanStart'
    BY <1>1, <1>2, <1>3, <1>5, QueuedFollows
<1>7. TypeOK'
    BY <1>1, <1>2, <1>3, <1>6 DEF TypeOK
<1> QED
    BY <1>2, <1>3, <1>6, <1>7 DEF IInv, SilentBeforeCall, TestAfterReport, FirstListener,
        SecondLoopAfterStart, ListenerUsedUp, SleepsOnNoOutcome, InStep

\* And the request for a link: an attempt that starts with no start of another
\* stored or queued is a clean one.
LEMMA RequestIInv == IInv /\ SourceConnect => IInv'
<1> SUFFICES ASSUME IInv, SourceConnect PROVE IInv'
    OBVIOUS
<1>1. TypeOK /\ ReportsFollow /\ CleanStart
    BY DEF IInv
<1>2. /\ main = "calling" /\ main' = "await_start"
      /\ UNCHANGED <<incoming, connection_state, listener, told, heard, raced>>
    BY DEF SourceConnect
<1>3. attempt = "earlier" /\ ~clean
    BY <1>2 DEF IInv, SilentBeforeCall
<1>4. told = "earlier"
    <2>1. 1 \in 1..Len(Reported)
        BY <1>1, ReportedParts
    <2>2. Reported[1].of = "earlier"
        BY <1>1, <1>3, <2>1 DEF ReportsFollow
    <2> QED
        BY <1>1, <2>2, ReportedParts
<1>5. CASE link = "disconnected"
    <2> DEFINE quiet == "connecting" \notin
                            {connection_state} \cup {events[k].state : k \in 1..Len(events)}
    <2>1. /\ link' = "connecting" /\ attempt' = "own"
          /\ events' = Append(events, [state |-> "connecting", of |-> "own"])
        BY <1>5 DEF SourceConnect
    <2>2. clean' = quiet
        BY <1>5 DEF SourceConnect
    <2>3. "connecting" \in LinkStates /\ "own" \in Attempts
        BY DEF LinkStates, Attempts
    <2>4. Follows([state |-> link, of |-> attempt], [state |-> "connecting", of |-> "own"])
        BY <1>3, <1>5 DEF Follows
    <2>5. events' \in Seq(Events) /\ ReportsFollow'
        BY <1>1, <1>2, <2>1, <2>3, <2>4, QueuedFollows
    <2>6. clean' \in BOOLEAN
        BY <2>2
    <2>7. CleanStart'
        <3> SUFFICES ASSUME clean',
                            NEW k \in 1..Len(Reported'), Reported'[k].of = "earlier"
                     PROVE  Reported'[k].state # "connecting"
            BY <2>1 DEF CleanStart
        <3>1. /\ Len(Reported) \in Nat /\ Len(Reported') = Len(Reported) + 1
              /\ \A j \in 1..Len(Reported) : Reported'[j] = Reported[j]
              /\ Reported'[Len(Reported')] = [state |-> "connecting", of |-> "own"]
            BY <1>1, <1>2, <2>1, <2>3, ReportQueued
        <3>2. k \in 1..Len(Reported)
            BY <3>1
        <3>3. CASE k = 1
            <4>1. Reported[1].state = connection_state
                BY <1>1, ReportedParts
            <4>2. connection_state # "connecting"
                BY <2>2
            <4> QED
                BY <3>1, <3>2, <3>3, <4>1, <4>2
        <3>4. CASE k # 1
            <4>1. Len(events) \in Nat /\ Len(Reported) = Len(events) + 1
                BY <1>1, ReportedParts
            <4>2. k - 1 \in 1..Len(events) /\ (k - 1) + 1 = k
                BY <3>2, <3>4, <4>1
            <4>3. Reported[k] = events[k - 1]
                BY <1>1, <4>2, ReportedParts
            <4> QED
                BY <2>2, <3>1, <3>2, <4>2, <4>3
        <3> QED
            BY <3>3, <3>4
    <2>8. TypeOK'
        BY <1>1, <1>2, <2>1, <2>3, <2>5, <2>6 DEF TypeOK, MainStates
    <2> QED
        BY <1>2, <1>4, <2>1, <2>5, <2>7, <2>8 DEF IInv, SilentBeforeCall, TestAfterReport,
            FirstListener, SecondLoopAfterStart, ListenerUsedUp, SleepsOnNoOutcome, InStep
<1>6. CASE link # "disconnected"
    <2>1. UNCHANGED <<link, attempt, events, clean>>
        BY <1>6 DEF SourceConnect
    <2>2. Reported' = Reported
        BY <1>2, <2>1 DEF Reported
    <2>3. TypeOK' /\ ReportsFollow' /\ CleanStart'
        BY <1>1, <1>2, <2>1, <2>2 DEF TypeOK, ReportsFollow, CleanStart, MainStates
    <2> QED
        BY <1>2, <1>3, <2>1, <2>3 DEF IInv, SilentBeforeCall, TestAfterReport,
            FirstListener, SecondLoopAfterStart, ListenerUsedUp, SleepsOnNoOutcome, InStep
<1> QED
    BY <1>5, <1>6

\* Nothing else touches the reports.
LEMMA SameReports ==
    ASSUME IInv, UNCHANGED <<link, events, connection_state, attempt, told, clean>>
    PROVE  /\ ReportsFollow' /\ CleanStart'
           /\ clean /\ told = "earlier" => connection_state # "connecting"
<1>1. Reported' = Reported
    BY DEF Reported
<1>2. TypeOK /\ ReportsFollow /\ CleanStart
    BY DEF IInv
<1>3. ReportsFollow' /\ CleanStart'
    BY <1>1, <1>2 DEF ReportsFollow, CleanStart
<1>4. 1 \in 1..Len(Reported)
    BY <1>2, ReportedParts
<1>5. clean /\ told = "earlier" => connection_state # "connecting"
    BY <1>2, <1>4, ReportedParts DEF CleanStart
<1> QED
    BY <1>3, <1>5

\* Every step keeps the invariant.
LEMMA NextIInv == IInv /\ [Next]_vars => IInv'
<1> SUFFICES ASSUME IInv, [Next]_vars PROVE IInv'
    OBVIOUS
<1> USE DEF IInv, TypeOK, MainStates, SilentBeforeCall, TestAfterReport, FirstListener,
            SecondLoopAfterStart, ListenerUsedUp, SleepsOnNoOutcome, InStep, history
<1>1. ASSUME NEW state \in LinkStates, LinkChanges(state) PROVE IInv'
    BY <1>1, LinkIInv
<1>2. CASE ProcessConnectionStateEvt
    BY <1>2, ReportIInv
<1>3. CASE Listen
    <2>1. ReportsFollow' /\ CleanStart'
        BY <1>3, SameReports DEF Listen
    <2> QED
        BY <1>3, <2>1 DEF Listen
<1>4. CASE SourceConnectFails
    <2>1. ReportsFollow' /\ CleanStart'
        BY <1>4, SameReports DEF SourceConnectFails
    <2> QED
        BY <1>4, <2>1 DEF SourceConnectFails
<1>5. CASE SourceConnect
    BY <1>5, RequestIInv
<1>6. CASE Await
    <2>1. ReportsFollow' /\ CleanStart'
        BY <1>6, SameReports DEF Await
    <2> QED
        BY <1>6, <2>1 DEF Await
<1>7. CASE TestStart
    <2>1. /\ ReportsFollow' /\ CleanStart'
          /\ clean /\ told = "earlier" => connection_state # "connecting"
        BY <1>7, SameReports DEF TestStart
    <2>2. CASE Started
        BY <1>7, <2>1, <2>2 DEF TestStart, Started, Outcomes
    <2>3. CASE ~Started
        BY <1>7, <2>1, <2>3 DEF TestStart, Started
    <2> QED
        BY <2>2, <2>3
<1>8. CASE ListenForOutcome
    <2>1. ReportsFollow' /\ CleanStart'
        BY <1>8, SameReports DEF ListenForOutcome
    <2> QED
        BY <1>8, <2>1 DEF ListenForOutcome
<1>9. CASE TestOutcome
    <2>1. ReportsFollow' /\ CleanStart'
        BY <1>9, SameReports DEF TestOutcome
    <2> QED
        BY <1>9, <2>1 DEF TestOutcome, Resolved
<1>10. CASE UNCHANGED vars
    <2>1. UNCHANGED <<link, incoming, events, connection_state, listener, main,
                      attempt, told, heard, clean, raced>>
        BY <1>10 DEF vars
    <2>2. ReportsFollow' /\ CleanStart'
        BY <2>1, SameReports
    <2> QED
        BY <2>1, <2>2
<1> QED
    BY <1>1, <1>2, <1>3, <1>4, <1>5, <1>6, <1>7, <1>8, <1>9, <1>10 DEF Next, ConnectStep

\* The variables keep their types and the invariant holds throughout.
THEOREM Invariance == Spec => []IInv
<1> QED
    BY InitIInv, NextIInv, PTL DEF Spec

\* The first loop of connect does not sleep through the report it waits for.
THEOREM FirstLoopHearsStart == Spec => []FirstLoopHears
<1>1. IInv => FirstLoopHears
    BY DEF IInv, FirstListener, FirstLoopHears
<1> QED
    BY Invariance, <1>1, PTL

\* The second loop of connect does not sleep on an outcome that it could have
\* heard: while it sleeps there is one to come, unless a report found it without
\* a listener.
THEOREM SecondLoopHearsOutcome == Spec => []OutcomeStillComes
<1>1. IInv => OutcomeStillComes
    <2> SUFFICES ASSUME IInv, main = "await_outcome", listener = "registered", ~raced,
                        link \in Outcomes
                 PROVE  \E k \in 1..Len(events) : events[k].state \in Outcomes
        BY DEF OutcomeStillComes
    <2>1. connection_state \notin Outcomes
        BY DEF IInv, SleepsOnNoOutcome
    <2>2. /\ Len(events) \in Nat /\ Len(Reported) = Len(events) + 1
          /\ Reported[1].state = connection_state
          /\ \A k \in 1..Len(events) : Reported[k + 1] = events[k]
        BY ReportedParts DEF IInv
    <2>3. Reported[Len(events) + 1].state = link
        BY <2>2 DEF IInv, ReportsFollow
    <2>4. Len(events) # 0
        BY <2>1, <2>2, <2>3
    <2>5. Len(events) \in 1..Len(events)
        BY <2>2, <2>4
    <2>6. events[Len(events)].state = link
        BY <2>2, <2>3, <2>5
    <2> QED
        BY <2>5, <2>6
<1> QED
    BY Invariance, <1>1, PTL

\* connect does not answer for a link opened before its attempt, if no start of
\* that link was stored or queued when it asked the stack, nor for one opened
\* after it, if every report found a listener.
THEOREM OwnAttempt == Spec => AnswersThisAttempt
<1>1. ASSUME IInv, [Next]_vars, Answers, clean
      PROVE  told # "earlier" /\ (~raced => told = "own")
    <2>1. main = "test_outcome"
        BY <1>1 DEF Answers
    <2> QED
        BY <1>1, <2>1 DEF IInv, SecondLoopAfterStart, InStep
<1>2. IInv /\ [Next]_vars =>
          [Answers /\ clean => told # "earlier" /\ (~raced => told = "own")]_vars
    BY <1>1
<1> QED
    BY Invariance, <1>2, PTL DEF Spec, AnswersThisAttempt
=============================================================================
