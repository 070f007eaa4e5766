---------------------------- MODULE MCScheduler ----------------------------
(* The scheduling loop on a pool of NumWorkers workers and a compilation   *)
(* database of NumCommands commands, against every environment.            *)
EXTENDS SchedulerInvariant
=============================================================================
