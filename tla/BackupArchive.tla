--------------------------- MODULE BackupArchive ---------------------------
(***************************************************************************)
(* What a backup set promises, without snapshots, patches or a log: an     *)
(* archive of completed backups, to which a run adds the tree it set out   *)
(* to back up, when it completes, and which never changes otherwise.       *)
(***************************************************************************)
CONSTANTS
    Clients,
    Runs,     \* names for backup runs
    Trees     \* what a client may back up

VARIABLES
    archive,  \* the backups that can be restored
    pending   \* per client, the backup its run is making: {} or a singleton

vars == <<archive, pending>>

Backup == [run : Runs, tree : Trees]

Init == archive = {} /\ pending = [c \in Clients |-> {}]

Begin(c) ==
    /\ pending[c] = {}
    /\ \E b \in Backup :
          /\ b.run \notin {a.run : a \in archive}
          /\ pending' = [pending EXCEPT ![c] = {b}]
    /\ UNCHANGED archive

Abandon(c) ==
    /\ pending' = [pending EXCEPT ![c] = {}]
    /\ UNCHANGED archive

Complete(c) ==
    /\ pending[c] # {}
    /\ archive' = archive \cup pending[c]
    /\ pending' = [pending EXCEPT ![c] = {}]

Next == \E c \in Clients : Begin(c) \/ Abandon(c) \/ Complete(c)

Spec == Init /\ [][Next]_vars
=============================================================================
