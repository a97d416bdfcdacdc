-------------------------------- MODULE Search --------------------------------
(***************************************************************************)
(* What the search for a loudspeaker promises, without the stack, the      *)
(* mutex, the channel or the two tasks: devices are reported one by one,   *)
(* and at some time the search either settles, once and for all, on the    *)
(* first of them that is a loudspeaker, or is given up, after which        *)
(* nothing is reported any more.  A panic ends it at any time.             *)
(***************************************************************************)
EXTENDS Integers, Sequences

CONSTANT IsSpeaker(_)   \* does the device announce A2DP

VARIABLES reported,   \* the devices reported so far
          chosen,     \* the device to connect to, if it is known
          state       \* how the search stands

svars == <<reported, chosen, state>>

Init == /\ reported = <<>>
        /\ chosen = <<>>
        /\ state = "searching"

\* Any device may be the next.
Reported == /\ Len(reported') = Len(reported) + 1
            /\ reported' = Append(reported, reported'[Len(reported')])
            /\ UNCHANGED chosen

\* The inquiry may go on for a while when the choice is made.
Report == /\ state \in {"searching", "chosen"}
          /\ Reported
          /\ UNCHANGED state

Choose(k) == /\ state = "searching"
             /\ IsSpeaker(reported[k])
             /\ \A j \in 1..(k - 1) : ~IsSpeaker(reported[j])
             /\ chosen' = <<reported[k]>>
             /\ state' = "chosen"
             /\ UNCHANGED reported

GiveUp == /\ state = "searching"
          /\ state' = "given_up"
          /\ UNCHANGED <<reported, chosen>>

\* With a device that there is no room for, or at any other time.
Fail == /\ state \in {"searching", "chosen"}
        /\ state' = "failed"
        /\ Reported \/ UNCHANGED <<reported, chosen>>

Next == \/ Report
        \/ \E k \in 1..Len(reported) : Choose(k)
        \/ GiveUp
        \/ Fail

Spec == Init /\ [][Next]_svars
=============================================================================
