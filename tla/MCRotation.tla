----------------------------- MODULE MCRotation -----------------------------
(* Small instances of Rotation for TLC.                                    *)
EXTENDS Rotation

CONSTANTS a, b, x, y, bin, latin, zero, none, nohunk, meta, c1

NoFault       == {}
RunFaults     == {"transfer", "lostReply", "mkdir", "diff"}
MoreFaults    == {"transfer", "sync", "dryRun"}
=============================================================================
