---------------------------- MODULE MCWriterLock ----------------------------
EXTENDS WriterLock, TLC
(* Processes are interchangeable: every definition treats them alike. *)
ProcSymmetry == Permutations(Proc)
=============================================================================
