----------------------------- MODULE MCScheduler ----------------------------
(***************************************************************************)
(* The scheduler for TLC.  Every run gives the constants their values in   *)
(* its .cfg; processes and web requests are interchangeable, jobs are not  *)
(* (they differ in the kind of their trigger and of their definition).     *)
(***************************************************************************)
EXTENDS SchedulerProps, TLC

Interchangeable == Permutations(Procs) \cup Permutations(Clients)
=============================================================================
