------------------------------ MODULE MCDbOpen ------------------------------
(* Three processes, so that one can look, one initialize and one return.   *)
EXTENDS DbOpen, TLC

ProcSymmetry == Permutations(Procs)
=============================================================================
