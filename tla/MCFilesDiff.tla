---------------------------- MODULE MCFilesDiff ----------------------------
(* Small instances of FilesDiff for TLC.                                   *)
EXTENDS FilesDiff, TLC

CONSTANTS f, g, x, y, none, nohunk, meta, c1, cut

(* Two files in one folder: one may be gone while the folder is asked.     *)
OneFolder   == {<<"etc", "sub", f>>, <<"etc", "sub", g>>}

SameSize    == x :> 1 @@ y :> 1
RunFaults   == {"transfer", "lostReply"}
MoreFaults  == {"transfer", "lostReply", "mkdir", "diff", "sameSecond"}
NoNames     == {}
AlikeFiles  == Permutations({f, g})
Alike       == AlikeFiles \cup Permutations({x, y})
=============================================================================
