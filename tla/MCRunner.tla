------------------------------ MODULE MCRunner ------------------------------
(* A small instance of Runner for TLC: two jobs, and channels that fill up. *)
EXTENDS Runner, TLC

CONSTANTS j1, j2

JobSymmetry == Permutations(Jobs)

==============================================================================
