---------------------------- MODULE MCSchedules ----------------------------
(* A small instance of Schedules for TLC.                                  *)
EXTENDS Schedules
=============================================================================
