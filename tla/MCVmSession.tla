---------------------------- MODULE MCVmSession -----------------------------
(* A small instance of VmSession for TLC: every channel has one place, and *)
(* the connection two, so that a line can lie ahead of the report in it.   *)
EXTENDS VmSession

=============================================================================
