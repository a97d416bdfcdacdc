------------------------------- MODULE OneCall -------------------------------
(***************************************************************************)
(* What do_and_wait promises of the one call that play makes with it,      *)
(* without the tasks, the listener or the mutex of the result: f asks the  *)
(* stack once, the stack answers once, and no earlier; do_and_wait returns *)
(* once, and what it returns is that answer.                               *)
(***************************************************************************)
CONSTANT Answers   \* what the stack may answer

VARIABLES asked,     \* was f called, and the command accepted
          answer,    \* the answer of the stack
          returned   \* what do_and_wait returned

cvars == <<asked, answer, returned>>

Init == /\ asked = FALSE
        /\ answer = "none"
        /\ returned = "none"

Ask == /\ ~asked
       /\ asked' = TRUE
       /\ UNCHANGED <<answer, returned>>

Answer(reply) == /\ asked
                 /\ answer = "none"
                 /\ answer' = reply
                 /\ UNCHANGED <<asked, returned>>

Return == /\ answer # "none"
          /\ returned = "none"
          /\ returned' = answer
          /\ UNCHANGED <<asked, answer>>

Next == \/ Ask
        \/ \E reply \in Answers : Answer(reply)
        \/ Return

Spec == Init /\ [][Next]_cvars
=============================================================================
