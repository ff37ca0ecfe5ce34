----------------------------- MODULE SetLogFile -----------------------------
(***************************************************************************)
(* set.log on the disk, and the worker threads of the daemon that rewrite  *)
(* it for PREPARE_BACKUP and BACKUP_COMPLETE.                              *)
(*                                                                         *)
(* A rewrite is three steps without a lock: the file is read, it is opened *)
(* with "w", which empties it, and the new entries are written when it is  *)
(* closed.  In between other threads read and write it, the disk may be    *)
(* full and the daemon may end.  What the trees hold (module Rotation) is  *)
(* left out: diff and rsync just succeed, find nothing or fail.            *)
(***************************************************************************)
EXTENDS SetLog

CONSTANTS
    Threads,   \* the worker threads: one per connection
    Before,    \* how many backups have been made, one after the other
    Faults     \* which of AllFaults happen

AllFaults ==
    {"tool",    \* diff, the archive or rsync fails
     "disk",    \* a write of the bookkeeping fails half way
     "giveUp",  \* a client gives up waiting for an answer (30 s, 300 s)
     "rsync",   \* the client's rsync fails, or the client is interrupted
     "stop"}    \* the daemon is stopped, and its threads end where they are

(* Up to two backups, there is nothing in O to archive.                    *)
ASSUME FileAssumption == Before \in 0 .. 2 /\ Faults \subseteq AllFaults

VARIABLES
    file,      \* the entries that _load_set_log would find
    archives,  \* how many diff archives have been written
    metadata,  \* C/.blzbak-metadata: the run, and whether it is finished;
               \* no run, if the file was deleted or has lost started_at
    worker,    \* per thread, the request it handles
    harmed     \* history: some bookkeeping was cut short or failed

fileVars == <<file, archives, metadata, worker, harmed>>

Tasks == {"archived", "started", "finished"}   \* why set.log is rewritten

Worker ==
    [op      : {"none", "prepare", "complete"},
     run     : Nat,
     at      : {"none", "recv", "diff", "load", "open", "write", "sync",
                "metadata", "answer"},
     task    : Tasks,
     entries : Seq(Entry),   \* what the thread is going to write
     archive : Nat,          \* the archive it has made
     ok      : BOOLEAN]      \* the status of the answer

Waiting ==
    [op |-> "none", run |-> 0, at |-> "recv", task |-> "started",
     entries |-> <<>>, archive |-> NoDiff, ok |-> FALSE]
NoThread ==
    [op |-> "none", run |-> 0, at |-> "none", task |-> "started",
     entries |-> <<>>, archive |-> NoDiff, ok |-> FALSE]

Busy(t) == worker[t].op # "none"
Doing(t, op, at) == worker[t].op = op /\ worker[t].at = at

GoTo(t, at)      == worker' = [worker EXCEPT ![t].at = at]
Rewrite(t, task) == worker' = [worker EXCEPT ![t].at = "load", ![t].task = task]

(* A rewriting is over: what it was about is forgotten.                    *)
Goes(t, at, ok) ==
    worker' = [worker EXCEPT ![t] =
        [op |-> worker[t].op, run |-> worker[t].run, at |-> at, task |-> "started",
         entries |-> <<>>, archive |-> NoDiff, ok |-> ok]]
Answer(t, ok) == Goes(t, "answer", ok)

NoMetadata == [by |-> 0, done |-> FALSE]

Entries(n) ==
    [i \in 1 .. n |-> [number |-> n + 1 - i, started |-> n + 1 - i,
                       finished |-> n + 1 - i, diff |-> NoDiff,
                       location |-> IF i = 1 THEN "C" ELSE "O"]]

FileInit ==
    /\ file = Entries(Before)
    /\ archives = 0
    /\ metadata = [by |-> Before, done |-> Before # 0]
    /\ worker = [t \in Threads |-> NoThread]
    /\ harmed = FALSE

-----------------------------------------------------------------------------
(* The rewriting of set.log                                                *)

(* _update_set_log_for_diff, _create_set_log_entry_on_prepare and          *)
(* _finalize_set_log_entry, each on what _load_set_log has found.          *)
Rewritten(w, found) ==
    CASE w.task = "archived" -> UpdateForDiff(found, w.archive)
      [] w.task = "started"  -> NewEntry(found, w.run)
      [] w.task = "finished" -> Finalize(found, w.run)

Unchanged(task, found) ==
    \/ (task = "archived" /\ Len(found) < 2)
    \/ (task = "finished" /\ found = <<>>)

(* The handler goes on after a rewriting, whether it failed or not.        *)
Proceed(t) ==
    IF worker[t].task = "archived" THEN Goes(t, "sync", FALSE) ELSE Answer(t, TRUE)

(* Mutant: the file is opened for writing before it is read.               *)
LoadEmptied(t) ==
    /\ worker[t].at = "load"
    /\ file' = <<>>
    /\ IF Unchanged(worker[t].task, <<>>)
       THEN Proceed(t)
       ELSE worker' = [worker EXCEPT ![t].at = "open",
                                     ![t].entries = Rewritten(worker[t], <<>>)]
    /\ UNCHANGED <<archives, metadata, harmed>>

Load(t) ==
    /\ worker[t].at = "load"
    /\ IF Unchanged(worker[t].task, file)
       THEN Proceed(t)
       ELSE worker' = [worker EXCEPT ![t].at = "open",
                                     ![t].entries = Rewritten(worker[t], file)]
    /\ UNCHANGED <<file, archives, metadata, harmed>>

(* open(log_path, "w")                                                     *)
Open(t) ==
    /\ worker[t].at = "open"
    /\ file' = <<>>
    /\ GoTo(t, "write")
    /\ UNCHANGED <<archives, metadata, harmed>>

(* Both threads of two overlapping rewritings write from the start of the  *)
(* file: the end of a longer text stays behind a shorter one.  The line    *)
(* that is cut by this is malformed, and ignored when it is loaded.        *)
LeftBehind(entries) ==
    {SubSeq(file, k, Len(file)) : k \in Len(entries) + 1 .. Len(file) + 1}
        \cup {<<>>}

Write(t) ==
    /\ worker[t].at = "write"
    /\ \E rest \in LeftBehind(worker[t].entries) : file' = worker[t].entries \o rest
    /\ Proceed(t)
    /\ UNCHANGED <<archives, metadata, harmed>>

(* The disk is full: the first lines are there, and the error is swallowed *)
Written(entries) == {SubSeq(entries, 1, k) : k \in 0 .. Len(entries)}

WriteFails(t) ==
    /\ "disk" \in Faults
    /\ worker[t].at = "write"
    /\ file' \in Written(worker[t].entries)
    /\ Proceed(t)
    /\ harmed' = TRUE
    /\ UNCHANGED <<archives, metadata>>

RewriteSetLog(t) == Load(t) \/ Open(t) \/ Write(t) \/ WriteFails(t)

-----------------------------------------------------------------------------
(* PREPARE_BACKUP                                                          *)

(* Mutant: set.log is told of an archive that could not be written.        *)
CreateDiffFailed(t) ==
    /\ Doing(t, "prepare", "diff")
    /\ worker' = [worker EXCEPT ![t].at = "load", ![t].task = "archived",
                                ![t].archive = archives + 1]
    /\ archives' \in {archives, archives + 1}
    /\ UNCHANGED <<file, metadata, harmed>>

(* There is nothing to archive; diff finds no difference, and set.log is   *)
(* not touched; it finds one, and set.log is rewritten; or the step fails. *)
CreateDiff(t) ==
    /\ Doing(t, "prepare", "diff")
    /\ \/ GoTo(t, "sync") /\ UNCHANGED archives
       \/ GoTo(t, "sync") /\ archives' = archives + 1
       \/ /\ archives' = archives + 1
          /\ worker' = [worker EXCEPT ![t].at = "load", ![t].task = "archived",
                                       ![t].archive = archives + 1]
       \/ "tool" \in Faults /\ Answer(t, FALSE) /\ UNCHANGED archives
    /\ UNCHANGED <<file, metadata, harmed>>

SyncSnapshots(t) ==
    /\ Doing(t, "prepare", "sync")
    /\ \/ GoTo(t, "metadata")
       \/ "tool" \in Faults /\ Answer(t, FALSE)
    /\ UNCHANGED <<file, archives, metadata, harmed>>

(* Mutant: the mark of the run before is kept.                             *)
MetadataStartedKept(t) ==
    /\ Doing(t, "prepare", "metadata")
    /\ metadata' = [metadata EXCEPT !.by = worker[t].run]
    /\ Rewrite(t, "started")
    /\ UNCHANGED <<file, archives, harmed>>

(* A failure is a warning in the daemon's log.                             *)
MetadataStarted(t) ==
    /\ Doing(t, "prepare", "metadata")
    /\ \/ metadata' = [by |-> worker[t].run, done |-> FALSE] /\ UNCHANGED harmed
       \/ /\ "disk" \in Faults
          /\ metadata' \in {metadata, NoMetadata}
          /\ harmed' = TRUE
    /\ Rewrite(t, "started")
    /\ UNCHANGED <<file, archives>>

-----------------------------------------------------------------------------
(* BACKUP_COMPLETE                                                         *)

(* A file that rsync has deleted is made again, without started_at.        *)
(* Here a failure leaves set.log as it is, and the answer is ok.           *)
MetadataFinished(t) ==
    /\ Doing(t, "complete", "metadata")
    /\ \/ /\ metadata' = [metadata EXCEPT !.done = TRUE]
          /\ Rewrite(t, "finished")
          /\ UNCHANGED harmed
       \/ /\ "disk" \in Faults
          /\ metadata' \in {metadata, NoMetadata}
          /\ Answer(t, TRUE)
          /\ harmed' = TRUE
    /\ UNCHANGED <<file, archives>>

Handle(t) ==
    \/ RewriteSetLog(t)
    \/ CreateDiff(t)
    \/ SyncSnapshots(t)
    \/ MetadataStarted(t)
    \/ MetadataFinished(t)

-----------------------------------------------------------------------------
(* The process ends: every thread ends where it is, one that has opened    *)
(* set.log with any part of its entries written.                           *)
Writing == {t \in Threads : worker[t].at = "write"}

EndThreads ==
    /\ file' \in {file} \cup UNION {Written(worker[t].entries) : t \in Writing}
    /\ worker' = [t \in Threads |-> NoThread]
    /\ harmed' = (harmed \/ \E t \in Threads : Busy(t))
    /\ UNCHANGED <<archives, metadata>>

=============================================================================
