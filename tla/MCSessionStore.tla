--------------------------- MODULE MCSessionStore ---------------------------
(***************************************************************************)
(* Two sessions, one call, one project label.  The limits are small and    *)
(* different from each other: 1 (grace) < 2 (blocked) < 3 (working) < 4    *)
(* (dropped), so that each of them passes while the next has not, and the  *)
(* sweeper runs every second time unit, so that a limit may pass between   *)
(* two ticks.  Two entries are what a loop that deletes under its own feet *)
(* takes to skip one.                                                      *)
(***************************************************************************)
EXTENDS SessionSweep, TLC
=============================================================================
