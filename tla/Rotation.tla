------------------------------ MODULE Rotation ------------------------------
(***************************************************************************)
(* One backup set on the server, and the `blzbak backup run`s that use it. *)
(*                                                                         *)
(* A run sends PREPARE_BACKUP, mirrors its tree into C with rsync, file by *)
(* file, and sends BACKUP_COMPLETE.  PREPARE_BACKUP archives what O holds  *)
(* as a patch against C, copies C over O and opens an entry of set.log;    *)
(* BACKUP_COMPLETE stamps the newest entry.                                *)
(*                                                                         *)
(* The two requests are atomic here, which is true of a set that one       *)
(* client backs up, one run after the other: no handler of another thread  *)
(* then gets between the steps of this one (module Daemon has the steps,   *)
(* and runs and handlers that overlap).  A client that gives up on         *)
(* PREPARE_BACKUP is taken to begin its next run after the daemon is done. *)
(***************************************************************************)
EXTENDS Snapshots, SetLog

CONSTANTS
    Clients,      \* the host that backs up this set
    MirrorsRoot,  \* the source path ends in "/": rsync --delete owns C's root
    Faults,       \* which of AllFaults happen
    MaxRuns       \* bound on the number of PREPARE_BACKUP requests

AllFaults ==
    {"transfer",    \* rsync fails or the client dies before BACKUP_COMPLETE
     "lostReply",   \* the client gives up on PREPARE_BACKUP, the daemon does not
     "diff",        \* diff or the archive cannot be written
     "sync",        \* the copy of C over O stops half way
     "mkdir",       \* O cannot be made after C
     "sameSecond",  \* two archives get the same timestamp in their name
     "dryRun"}      \* backup run --dry-run

ASSUME RotationAssumption ==
    /\ MirrorsRoot \in BOOLEAN
    /\ Faults \subseteq AllFaults
    /\ MaxRuns \in Nat

(* Without it the atomic requests of this module are not those of the      *)
(* code, whose handler threads use no lock.                                *)
ASSUME OneClient == \A c, d \in Clients : c = d

VARIABLES
    dirs,      \* which of the directories C and O exist
    C, O,      \* the current and the once removed snapshot
    archives,  \* diffs/, in the order of their timestamps
    log,       \* set.log
    run,       \* per client, the backup run it is in
    starts,    \* PREPARE_BACKUP requests so far: names runs, bounds the model
    held       \* history: held[n] is what C held when entry n + 1 was opened

vars == <<dirs, C, O, archives, log, run, starts, held>>

(* rsync mirrors the tree's files and, when it owns C's root, deletes the  *)
(* daemon's metadata file from it.                                         *)
Mirrored == Files \cup (IF MirrorsRoot THEN {Meta} ELSE {})
Source(tree) == [p \in Mirrored |-> IF p = Meta THEN Absent ELSE tree[p]]

NoRun == [id |-> 0, source |-> [p \in Mirrored |-> Absent], todo |-> {}]
Run   == [id : Nat, source : [Mirrored -> Value], todo : SUBSET Mirrored]

Running(c) == run[c].id # 0

Init ==
    /\ dirs \in {{}, {"C", "O"}}     \* never prepared, or made by CREATE_SET
    /\ C = Empty
    /\ O = Empty
    /\ archives = <<>>
    /\ log = <<>>
    /\ run = [c \in Clients |-> NoRun]
    /\ starts = 0
    /\ held = <<>>

-----------------------------------------------------------------------------
(* PREPARE_BACKUP                                                          *)

(* Client c sends the request and gets id, unless the bound is reached.    *)
Request(c) ==
    /\ ~ Running(c)
    /\ starts < MaxRuns
    /\ starts' = starts + 1

(* The name of an archive is its second: a new file, or the last one again *)
Archived(patch) ==
    \/ archives' = Append(archives, patch)
    \/ /\ "sameSecond" \in Faults
       /\ archives # <<>>
       /\ archives' = [archives EXCEPT ![Len(archives)] = patch]

(* _create_diff: set.log is touched only when diff found a difference.     *)
DiffSucceeds == ~ Undiffable(O, C)

(* With binary files that differ diff exits with 1 or with 2, depending on *)
(* its version; 2 is an error here.                                        *)
BinaryDiffers == ~ BinaryAlike(O, C)

CreateDiff ==
    IF HasContent(O) THEN DiffSucceeds /\ Archived(PatchOf(O, C))
                     ELSE UNCHANGED archives

(* Mutant: the archive's name is made a second time for set.log.           *)
LogAfterDiffRenamed ==
    IF HasContent(O) /\ ~ SameToDiff(O, C)
    THEN UpdateForDiff(log, Len(archives') + 1)
    ELSE log

LogAfterDiff ==
    IF HasContent(O) /\ ~ SameToDiff(O, C)
    THEN UpdateForDiff(log, Len(archives'))
    ELSE log

(* The bookkeeping that ends an accepted request: metadata and a log entry *)
Open(entries) ==
    /\ C' = [C EXCEPT ![Meta] = [by |-> starts + 1, done |-> FALSE]]
    /\ log' = NewEntry(entries, starts + 1)
    /\ held' = IF log = <<>> THEN held ELSE Append(held, C)

(* The client starts rsync on the tree it has now; a dry run copies no     *)
(* file; a client that gave up waiting does not start.                     *)
Start(c) ==
    \/ \E tree \in Tree :
          run' = [run EXCEPT ![c] = [id |-> starts + 1, source |-> Source(tree),
                                     todo |-> Mirrored]]
    \/ /\ "dryRun" \in Faults
       /\ \E tree \in Tree :
             run' = [run EXCEPT ![c] = [id |-> starts + 1,
                                        source |-> Source(tree), todo |-> {}]]
    \/ "lostReply" \in Faults /\ UNCHANGED run

PrepareFirst(c) ==
    /\ Request(c)
    /\ "C" \notin dirs
    /\ dirs' = {"C", "O"}
    /\ Open(log)
    /\ Start(c)
    /\ UNCHANGED <<O, archives>>

PrepareNoO(c) ==
    /\ Request(c)
    /\ "C" \in dirs /\ "O" \notin dirs
    /\ dirs' = {"C", "O"}
    /\ Open(log)
    /\ Start(c)
    /\ UNCHANGED <<O, archives>>

PrepareRotate(c) ==
    /\ Request(c)
    /\ {"C", "O"} \subseteq dirs
    /\ CreateDiff
    /\ Open(LogAfterDiff)
    /\ O' = C
    /\ Start(c)
    /\ UNCHANGED dirs

(* The handler answers with an error: the client stops, nothing is opened  *)
RejectMkdir(c) ==
    /\ "mkdir" \in Faults
    /\ Request(c)
    /\ "C" \notin dirs
    /\ dirs' = {"C"}
    /\ UNCHANGED <<C, O, archives, log, run, held>>

RejectDiff(c) ==
    /\ Request(c)
    /\ {"C", "O"} \subseteq dirs
    /\ HasContent(O)
    /\ ~ DiffSucceeds \/ BinaryDiffers \/ "diff" \in Faults
    /\ UNCHANGED <<dirs, C, O, archives, log, run, held>>

(* Mutant: the archive is cleaned up when the copy fails.                  *)
RejectSyncAndCleanUp(c) ==
    /\ "sync" \in Faults
    /\ Request(c)
    /\ {"C", "O"} \subseteq dirs
    /\ \E copied \in SUBSET Paths :
          O' = [p \in Paths |-> IF p \in copied THEN C[p] ELSE O[p]]
    /\ UNCHANGED <<dirs, C, archives, log, run, held>>

RejectSync(c) ==
    /\ "sync" \in Faults
    /\ Request(c)
    /\ {"C", "O"} \subseteq dirs
    /\ CreateDiff
    /\ log' = LogAfterDiff
    /\ \E copied \in SUBSET Paths :
          O' = [p \in Paths |-> IF p \in copied THEN C[p] ELSE O[p]]
    /\ UNCHANGED <<dirs, C, run, held>>

Prepare(c) ==
    \/ PrepareFirst(c)
    \/ PrepareNoO(c)
    \/ PrepareRotate(c)
    \/ RejectMkdir(c)
    \/ RejectDiff(c)
    \/ RejectSync(c)

-----------------------------------------------------------------------------
(* rsync and BACKUP_COMPLETE                                               *)

Transfer(c) ==
    /\ Running(c)
    /\ \E p \in run[c].todo :
          /\ C' = [C EXCEPT ![p] = run[c].source[p]]
          /\ run' = [run EXCEPT ![c].todo = @ \ {p}]
    /\ UNCHANGED <<dirs, O, archives, log, starts, held>>

(* cmd_backup_run returns rsync's exit code and reports nothing.           *)
Fail(c) ==
    /\ "transfer" \in Faults
    /\ Running(c)
    /\ run' = [run EXCEPT ![c] = NoRun]
    /\ UNCHANGED <<dirs, C, O, archives, log, starts, held>>

StartedBy(meta) == IF meta \in MetaValue THEN meta.by ELSE 0

(* Mutant: the client does not wait for rsync.                             *)
CompleteEarly(c) ==
    /\ Running(c)
    /\ C' = [C EXCEPT ![Meta] = [by |-> StartedBy(C[Meta]), done |-> TRUE]]
    /\ log' = Finalize(log, run[c].id)
    /\ run' = [run EXCEPT ![c] = NoRun]
    /\ UNCHANGED <<dirs, O, archives, starts, held>>

Complete(c) ==
    /\ Running(c)
    /\ run[c].todo = {}
    /\ C' = [C EXCEPT ![Meta] = [by |-> StartedBy(C[Meta]), done |-> TRUE]]
    /\ log' = Finalize(log, run[c].id)
    /\ run' = [run EXCEPT ![c] = NoRun]
    /\ UNCHANGED <<dirs, O, archives, starts, held>>

Next == \E c \in Clients : Prepare(c) \/ Transfer(c) \/ Fail(c) \/ Complete(c)

Spec == Init /\ [][Next]_vars

-----------------------------------------------------------------------------
(* Properties                                                              *)

(* Every variable has its type; an entry's diff_path names an archive.     *)
TypeOK ==
    /\ dirs \in {{}, {"C"}, {"C", "O"}}
    /\ C \in Snapshot
    /\ O \in Snapshot
    /\ archives \in Seq(Patch)
    /\ log \in Seq(Entry)
    /\ \A i \in DOMAIN log : log[i].diff <= Len(archives)
    /\ run \in [Clients -> Run]
    /\ starts \in Nat
    /\ held \in Seq(Snapshot)

(* The snapshot an entry of the log stands for, rebuilt from what is on    *)
(* the disk as the design describes: C for the newest entry, O for the     *)
(* second, and for an older one the patch its diff_path names, if it has   *)
(* one, applied in reverse to the snapshot of the entry after it.          *)
Restored ==
    LET restore[i \in DOMAIN log] ==
            CASE i = 1 -> C
              [] i = 2 -> O
              [] OTHER -> IF log[i].diff = NoDiff THEN restore[i - 1]
                          ELSE ReverseApply(restore[i - 1], archives[log[i].diff])
    IN  restore

(* What entry i held when the next entry was opened, by the history.       *)
Version(i) == IF i = 1 THEN C ELSE held[log[i].number]

(* Every link of the restore chain holds: O is exactly what the second     *)
(* entry held when PREPARE_BACKUP moved it there, and the patch of an      *)
(* older entry, applied in reverse to its successor's snapshot, gives      *)
(* exactly the snapshot of that entry - through failed runs, partial       *)
(* transfers, rejected requests and lost replies (prepare_backup).  The    *)
(* log numbers the entries of the chain without a gap, so that a number    *)
(* names one snapshot for ever (_create_set_log_entry_on_prepare).         *)
Link(i) ==
    IF i = 2 THEN O = Version(2)
    ELSE Version(i) = IF log[i].diff = NoDiff THEN Version(i - 1)
                      ELSE ReverseApply(Version(i - 1), archives[log[i].diff])

ChainInv ==
    /\ Numbered(log)
    /\ log # <<>> => Len(held) = Len(log) - 1
    /\ \A i \in 2 .. Len(log) : Link(i)

(* PREPARE_BACKUP may fail after it has archived O and before O is C: the  *)
(* retry archives O again and its patch takes over diff_path.  Even then   *)
(* each snapshot the log stands for is still on the disk, in O or behind   *)
(* some archive in diffs/ (prepare_backup, _create_diff).                  *)
StillOnDisk ==
    \A i \in 2 .. Len(log) :
        \/ Version(i) = Empty
        \/ i = 2 /\ O = Version(2)
        \/ \E a \in DOMAIN archives :
              ReverseApply(Version(i - 1), archives[a]) = Version(i)

(* finished_at is the time at which the backup of that entry finished: it  *)
(* is stamped by the run that opened the entry (_finalize_set_log_entry).  *)
StampedByOwnRun ==
    \A i \in DOMAIN log : Finished(log[i]) => log[i].finished = log[i].started

(* BACKUP_COMPLETE, the "notification that client finished rsync"          *)
(* (daemon/README.md:135), is sent when C mirrors the client's tree, after *)
(* whatever failed before; only dry runs send it otherwise.                *)
CompleteMeansMirrored ==
    [][\A c \in Clients :
          Complete(c) => \A p \in Files : C[p] = run[c].source[p]]_vars

(* Once the newest backup is finished every entry's location_type says     *)
(* where its snapshot is (_update_set_log_for_diff and                     *)
(* _finalize_set_log_entry between them).                                  *)
LocationsTrue ==
    log # <<>> /\ Finished(log[1]) =>
        \A i \in DOMAIN log :
            log[i].location = IF i = 1 THEN "C" ELSE IF i = 2 THEN "O" ELSE "diff"

(* The promise of BackupArchive, kept: what can be restored from the disk  *)
(* for the finished entries of the log grows by exactly the tree of each   *)
(* run that completes, and by nothing else; nothing is ever lost.          *)
Archive ==
    {[run |-> log[i].finished, tree |-> TreeOf(Restored[i])] :
        i \in {j \in DOMAIN log : Finished(log[j])}}

Pending ==
    [c \in Clients |->
        IF Running(c)
        THEN {[run |-> run[c].id, tree |-> TreeOf(run[c].source)]}
        ELSE {}]

Promise == INSTANCE BackupArchive
              WITH Runs <- 1 .. MaxRuns, Trees <- Tree,
                   archive <- Archive, pending <- Pending

PromiseKept == Promise!Spec

-----------------------------------------------------------------------------
(* What the repository says of the program, and the program does not do.   *)

(* "the previous full copy can be recreated from the diff files that have  *)
(* been made" (notes/AI Build Notes.txt:50): C, O and the patches give     *)
(* back every finished backup as it was.                                   *)
RecreatedFromDiffs ==
    \A i \in DOMAIN log : Finished(log[i]) => Restored[i] = Version(i)

=============================================================================
