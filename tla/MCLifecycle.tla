---------------------------- MODULE MCLifecycle ----------------------------
(* Small instances of SetLifecycle for TLC.                                *)
EXTENDS SetLifecycle

CONSTANTS h1, h2, t1, t2

EveryFault == AllFaults
NoFault    == {}
Impatience == {"giveUp"}
=============================================================================
