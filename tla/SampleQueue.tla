----------------------------- MODULE SampleQueue -----------------------------
(***************************************************************************)
(* What audio.rs promises of the buffer between the decoding thread and    *)
(* the Bluetooth data callback, without threads, locks or condition        *)
(* variables: a first-in first-out queue of the file's samples that is     *)
(* filled one whole packet at a time, and only while it holds less than    *)
(* HighWater samples.  Samples are named by their position in the file.    *)
(*                                                                         *)
(* In the code the room check and the push are two separate critical       *)
(* sections (audio.rs:87-95 and :110-116); here they are one step.         *)
(***************************************************************************)
EXTENDS Integers, Sequences

CONSTANTS HighWater,  \* 88200 in the code: no packet is added at or above it
          MaxPacket   \* the most samples one packet holds, 2048 in the code

VARIABLES queue,      \* the samples that wait
          sent,       \* how many samples were put so far
          taken       \* how many samples were taken so far

qvars == <<queue, sent, taken>>

Init == /\ queue = <<>>
        /\ sent = 0
        /\ taken = 0

\* A packet of n samples is put behind what waits.
Put(n) == /\ Len(queue) < HighWater
          /\ queue' = queue \o [i \in 1..n |-> sent + i]
          /\ sent' = sent + n
          /\ UNCHANGED taken

\* The k oldest samples are taken.
Take(k) == /\ k <= Len(queue)
           /\ queue' = SubSeq(queue, k + 1, Len(queue))
           /\ taken' = taken + k
           /\ UNCHANGED sent

Next == \/ \E n \in 1..MaxPacket : Put(n)
        \/ \E k \in 1..Len(queue) : Take(k)

Spec == Init /\ [][Next]_qvars
=============================================================================
