---------------------------- MODULE MCScheduler ----------------------------
(***************************************************************************)
(* Scheduler for TLC: in MCScheduler.cfg two CPUs, their two idle threads  *)
(* and two spawned threads.                                                *)
(***************************************************************************)
EXTENDS Scheduler
=============================================================================
