------------------------------- MODULE MCPipe -------------------------------
(***************************************************************************)
(* Model checking instances of the pipe driver.  The threads are           *)
(* interchangeable as long as the same ones may reset.                     *)
(***************************************************************************)
EXTENDS Pipe, TLC

ThreadSymmetry == Permutations(Procs \ Resetters) \cup Permutations(Resetters)
=============================================================================
