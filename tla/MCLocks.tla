------------------------------ MODULE MCLocks ------------------------------
(* The simulator's thread, the execution thread and main() may call        *)
(* anything; they are interchangeable.                                     *)
EXTENDS LockDiscipline, TLC

ThreadSymmetry == Permutations(Threads)
=============================================================================
