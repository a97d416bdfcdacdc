---------------------------- MODULE MCAudioStream ----------------------------
(* AudioStream with the small sizes the configurations give it.            *)
EXTENDS AudioStream

\* Slices of 0 (the loop is not entered), 1 and 3 samples: shorter and longer
\* than a packet, and neither divides the other.
SmallReads == {0, 1, 3}
=============================================================================
