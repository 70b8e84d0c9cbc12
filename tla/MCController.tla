---------------------------- MODULE MCController ----------------------------
(* Controller for TLC: the faults the runs choose from. *)
EXTENDS Controller

AllFaults == {"send", "uinput", "pipe", "write", "poll", "spurious"}
=============================================================================
