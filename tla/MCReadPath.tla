----------------------------- MODULE MCReadPath -----------------------------
(* ReadPath on small files. *)
EXTENDS ReadPath, TLC

Interchangeable == Permutations(Readers)
=============================================================================
