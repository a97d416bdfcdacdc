----------------------------- MODULE A2dpConnect -----------------------------
(***************************************************************************)
(* ESP32A2DP::connect of bluetooth_esp32_a2dp.rs, which runs on the main   *)
(* task, and process_connection_state_evt, the callback through which the  *)
(* Bluetooth task tells it what becomes of the link.  They share           *)
(* CONNECTION_STATE, behind a mutex, and CONNECTION_STATE_EVENT, which the *)
(* callback notifies while it holds that mutex.                            *)
(*                                                                         *)
(* A listener of the event is registered by listen() and hears every       *)
(* notification from then on; what was notified before is lost to it.      *)
(* connect waits for CONNECTING first and for the outcome then; the mutex  *)
(* is held for one test at a time and never while waiting, so each         *)
(* critical section is one action.                                         *)
(*                                                                         *)
(* The link, and the queue of events the Bluetooth task still has to hand  *)
(* to the callback, belong to the stack and are external.  An event names  *)
(* the peer, but the callback stores no address and connect compares none: *)
(* whose link a report is about is known to the history variables only.    *)
(***************************************************************************)
EXTENDS Integers, Sequences

CONSTANT MaxIncoming    \* how often a peer opens the link, which the scan mode
                        \* set by init lets it do (bounds the model)

ASSUME MaxIncomingAssumption == MaxIncoming \in Nat

VARIABLES link,              \* the state of the link, as the stack knows it
          incoming,          \* how often a peer opened it
          events,            \* state changes not handed to the callback yet
          connection_state,  \* CONNECTION_STATE.state
          listener,          \* the listener the main task holds
          main,              \* where connect is
          attempt,           \* history: whose attempt the link comes from
          told,              \* history: and the link that connection_state
                             \* was reported of
          heard,             \* history: was a state stored since the call
          clean,             \* history: did connect start an attempt when no
                             \* start of an earlier one was stored or queued
          raced              \* history: was a state stored during the call
                             \* that found no listener to notify

history == <<attempt, told, heard, clean, raced>>
vars == <<link, incoming, events, connection_state, listener, main, history>>

LinkStates == {"disconnected", "connecting", "connected", "disconnecting"}
Outcomes == {"connected", "disconnected"}

\* The attempt that connect started, those before it, and peers' after it.
Attempts == {"earlier", "own", "later"}

Events == [state : LinkStates, of : Attempts]

\* "calling": before esp_a2d_source_connect.  "await_start", "test_start":
\* the first loop.  "between": before the second loop's listen().
\* "await_outcome", "test_outcome": the second loop.  "ok", "err": returned.
MainStates == {"idle", "calling", "await_start", "test_start", "between",
               "await_outcome", "test_outcome", "ok", "err"}

\* What a notification does to the listener of the main task, and mutants:
\* nothing when the link starts connecting, and nothing at all.
NotifiedOfOutcome(state) ==
    IF listener = "registered" /\ state # "connecting" THEN "notified" ELSE listener
Notified(state) == IF listener = "registered" THEN "notified" ELSE listener

\* The conditions that end the two loops, and mutants of them.
AnyProgress == connection_state # "disconnected"
Started == connection_state = "connecting"
ConnectedOnly == connection_state = "connected"
Resolved == connection_state \in Outcomes

-----------------------------------------------------------------------------
Init == /\ link = "disconnected"
        /\ incoming = 0
        /\ events = <<>>
        /\ connection_state = "disconnected"
        /\ listener = "none"
        /\ main = "idle"
        /\ attempt = "earlier"
        /\ told = "earlier"
        /\ heard = FALSE
        /\ clean = FALSE
        /\ raced = FALSE

-----------------------------------------------------------------------------
(* The stack.                                                              *)

\* The states the link may go to without the main task's doing.
Follow(state) ==
    CASE state = "disconnected"  -> IF incoming < MaxIncoming THEN {"connecting"} ELSE {}
      [] state = "connecting"    -> Outcomes
      [] state = "connected"     -> {"disconnecting", "disconnected"}
      [] state = "disconnecting" -> {"disconnected"}

\* The link changes state of itself or at the peer's wish.
LinkChanges(state) ==
    /\ state \in Follow(link)
    /\ link' = state
    /\ incoming' = IF state = "connecting" THEN incoming + 1 ELSE incoming
    /\ attempt' = IF state = "connecting" /\ attempt = "own" THEN "later" ELSE attempt
    /\ events' = Append(events, [state |-> state, of |-> attempt'])
    /\ UNCHANGED <<connection_state, listener, main, told, heard, clean, raced>>

\* bt_app_a2d_cb with a CONNECTION_STATE_EVT: every arm of
\* process_connection_state_evt stores the state and notifies all listeners.
ProcessConnectionStateEvt ==
    /\ events # <<>>
    /\ connection_state' = Head(events).state
    /\ listener' = Notified(Head(events).state)
    /\ told' = Head(events).of
    /\ heard' = (heard \/ main # "idle")
    /\ raced' = \/ raced
                 \/ (main \notin {"idle", "ok", "err"} /\ listener # "registered")
    /\ events' = Tail(events)
    /\ UNCHANGED <<link, incoming, main, attempt, clean>>

-----------------------------------------------------------------------------
(* ESP32A2DP::connect.                                                     *)

\* The listener is registered before the stack is asked for anything.
Listen == /\ main = "idle"
          /\ listener' = "registered"
          /\ main' = "calling"
          /\ UNCHANGED <<link, incoming, events, connection_state, history>>

\* esp_a2d_source_connect fails, and connect returns the error.
SourceConnectFails ==
    /\ main = "calling"
    /\ listener' = "none"
    /\ main' = "err"
    /\ UNCHANGED <<link, incoming, events, connection_state, history>>

\* It succeeds: a link that is down starts connecting, any other is left alone.
SourceConnect ==
    /\ main = "calling"
    /\ IF link = "disconnected"
       THEN /\ link' = "connecting"
            /\ attempt' = "own"
            /\ events' = Append(events, [state |-> "connecting", of |-> "own"])
            /\ clean' = ("connecting" \notin
                           {connection_state} \cup {events[k].state : k \in 1..Len(events)})
       ELSE UNCHANGED <<link, attempt, events, clean>>
    /\ main' = "await_start"
    /\ UNCHANGED <<incoming, connection_state, listener, told, heard, raced>>

\* listener.await of either loop completes, and uses the listener up.
Await == /\ main \in {"await_start", "await_outcome"}
         /\ listener = "notified"
         /\ listener' = "none"
         /\ main' = IF main = "await_start" THEN "test_start" ELSE "test_outcome"
         /\ UNCHANGED <<link, incoming, events, connection_state, history>>

\* First loop, with CONNECTION_STATE locked: leave it if the link is
\* connecting, otherwise listen again before the guard is dropped.
TestStart == /\ main = "test_start"
             /\ IF Started
                THEN main' = "between" /\ UNCHANGED listener
                ELSE main' = "await_start" /\ listener' = "registered"
             /\ UNCHANGED <<link, incoming, events, connection_state, history>>

\* Second loop: listen, with no guard held and no look at the state.
ListenForOutcome == /\ main = "between"
                    /\ listener' = "registered"
                    /\ main' = "await_outcome"
                    /\ UNCHANGED <<link, incoming, events, connection_state, history>>

\* Second loop, with CONNECTION_STATE locked: take the outcome and return, or
\* go round; the guard is dropped on the way.
TestOutcome ==
    /\ main = "test_outcome"
    /\ main' = IF ~Resolved THEN "between"
               ELSE IF connection_state = "connected" THEN "ok" ELSE "err"
    /\ UNCHANGED <<link, incoming, events, connection_state, listener, history>>

-----------------------------------------------------------------------------
ConnectStep == \/ SourceConnectFails
               \/ SourceConnect
               \/ Await
               \/ TestStart
               \/ ListenForOutcome
               \/ TestOutcome

Next == \/ \E state \in LinkStates : LinkChanges(state)
        \/ ProcessConnectionStateEvt
        \/ Listen
        \/ ConnectStep

Spec == Init /\ [][Next]_vars

\* The main task and the Bluetooth task are scheduled, and the page timeout
\* gives every attempt to connect an outcome.
Fairness == /\ WF_vars(ConnectStep)
            /\ WF_vars(ProcessConnectionStateEvt)
            /\ WF_vars(link = "connecting" /\ \E s \in Outcomes : LinkChanges(s))

FairSpec == Spec /\ Fairness
-----------------------------------------------------------------------------
TypeOK == /\ link \in LinkStates
          /\ incoming \in Nat
          /\ events \in Seq(Events)
          /\ connection_state \in LinkStates
          /\ listener \in {"none", "registered", "notified"}
          /\ main \in MainStates
          /\ attempt \in Attempts
          /\ told \in Attempts
          /\ heard \in BOOLEAN
          /\ clean \in BOOLEAN
          /\ raced \in BOOLEAN

\* The first loop loses no wakeup: while it sleeps unnotified, the state
\* stored last since the call is not the one it waits for.
FirstLoopHears ==
    main = "await_start" /\ listener = "registered" /\ heard
        => connection_state # "connecting"

\* Nor does the second, unless a report found no listener: while it sleeps
\* unnotified, an outcome is on its way to the callback, or the link has yet to
\* come to one.
OutcomeStillComes ==
    main = "await_outcome" /\ listener = "registered" /\ ~raced =>
        \/ link \notin Outcomes
        \/ \E k \in 1..Len(events) : events[k].state \in Outcomes

Answers == main = "test_outcome" /\ main' \in {"ok", "err"}

\* connect answers for the attempt it started and not for an earlier link,
\* although the end of that link may still be reported meanwhile: it is enough
\* that no CONNECTING of an earlier attempt was stored or queued when connect
\* asked the stack.  Nor does it answer for a later link that a peer opens,
\* unless a report found no listener.
AnswersThisAttempt ==
    [][Answers /\ clean => told # "earlier" /\ (~raced => told = "own")]_vars

\* connect says that it is connected only if the attempt it started is.
ConnectedIsOwn ==
    [][Answers /\ main' = "ok" /\ attempt # "earlier" => told = "own"]_vars

\* The strengthening that makes these inductive.

\* Nothing is heard before the call, and nothing is awaited or started.
SilentBeforeCall ==
    /\ main = "idle" => ~heard /\ listener = "none"
    /\ main \in {"idle", "calling"} => attempt = "earlier" /\ ~clean

\* A notified listener, and a test of the state, come after a report.
TestAfterReport ==
    listener = "notified" \/ main \in {"test_start", "test_outcome"} => heard

\* The listener registered first has slept through no report, and the one
\* the first loop registers again through none of CONNECTING.
FirstListener ==
    main \in {"calling", "await_start"} /\ listener = "registered" /\ heard
        => connection_state # "connecting"

\* What the callback stored, and what it will.
Reported == <<[state |-> connection_state, of |-> told]>> \o events

\* One report and the next: a link that is down starts connecting, by connect
\* or by a peer, and any other goes on.
Follows(a, b) ==
    IF b.state = "connecting"
    THEN /\ a.state = "disconnected"
         /\ a.of = "earlier" => b.of # "later"
         /\ a.of # "earlier" => b.of = "later"
    ELSE /\ b.of = a.of
         /\ a.state = "connecting" => b.state \in Outcomes

\* The reports follow each other, up to the link as it is, and are all of
\* earlier attempts until connect starts one.
ReportsFollow ==
    /\ \A k \in 1..Len(Reported) - 1 : Follows(Reported[k], Reported[k + 1])
    /\ Reported[Len(Reported)] = [state |-> link, of |-> attempt]
    /\ attempt = "earlier" => \A k \in 1..Len(Reported) : Reported[k].of = "earlier"

\* Behind a clean start no earlier link is reported to be connecting.
CleanStart ==
    clean => /\ attempt # "earlier"
             /\ \A k \in 1..Len(Reported) :
                   Reported[k].of = "earlier" => Reported[k].state # "connecting"

\* The second loop is entered for the attempt of connect, or for a later one.
SecondLoopAfterStart ==
    clean /\ main \in {"between", "await_outcome", "test_outcome"} => told # "earlier"

\* A test is made, and the second loop begun, without a listener.
ListenerUsedUp == main \in {"test_start", "between", "test_outcome"} => listener = "none"

\* The second loop goes to sleep on no outcome, and none was reported since
\* that found no listener.
SleepsOnNoOutcome ==
    ~raced /\ (main = "between" \/ (main = "await_outcome" /\ listener = "registered"))
        => connection_state \notin Outcomes

\* While every report finds a listener, connect keeps step with its attempt.
InStep ==
    clean /\ ~raced =>
        /\ main \in {"await_start", "test_start"} =>
              \/ told = "earlier"
              \/ /\ told = "own" /\ connection_state = "connecting"
                 /\ main = "test_start" \/ listener = "notified"
        /\ main = "between" \/ (main = "await_outcome" /\ listener = "registered") =>
              told = "own" /\ connection_state = "connecting"
        /\ main = "test_outcome" \/ (main = "await_outcome" /\ listener = "notified") =>
              told = "own" /\ connection_state \in Outcomes

\* These hold together, whatever peers and the stack do in between.
IInv == /\ TypeOK
        /\ SilentBeforeCall
        /\ TestAfterReport
        /\ FirstListener
        /\ ReportsFollow
        /\ CleanStart
        /\ SecondLoopAfterStart
        /\ ListenerUsedUp
        /\ SleepsOnNoOutcome
        /\ InStep

\* A connect that finds the link down returns, with Ok or with an error.
ConnectReturns == (main = "calling" /\ link = "disconnected") ~> (main \in {"ok", "err"})

\* It does return if every state reported meanwhile finds a listener: nothing
\* but a report between two sleeps of the main task can be missed.
ReturnsUnlessRaced ==
    (main = "calling" /\ link = "disconnected") ~> (main \in {"ok", "err"} \/ raced)
=============================================================================
