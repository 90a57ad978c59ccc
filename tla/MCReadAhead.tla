---------------------------- MODULE MCReadAhead ----------------------------
(* ReadAhead on a file of three blocks. *)
EXTENDS ReadAhead

\* The start, what follows it, and a seek.
SomeReads == {<<0, 2>>, <<2, 4>>}
=============================================================================
