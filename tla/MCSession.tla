---------------------------- MODULE MCSession ----------------------------
(***************************************************************************)
(* A session small enough to check: two changes of the board, a command    *)
(* channel of two, every fault.                                            *)
(***************************************************************************)
EXTENDS Session

AllFaults == {"capture_dies", "pipeline_panics", "pipeline_hangs", "action_fails", "no_driver"}
=============================================================================
