------------------------------ MODULE MCA2dpPlay ------------------------------
(* A2dpPlay with the small sizes the configuration gives it.               *)
EXTENDS A2dpPlay

\* Calls of 2 bytes, and of 7, whose last byte cannot be filled.
SmallCalls == {2, 7}
SmallSlices == {1, 3}
=============================================================================
