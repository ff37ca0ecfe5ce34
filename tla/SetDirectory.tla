---------------------------- MODULE SetDirectory ----------------------------
(***************************************************************************)
(* The directory of one backup set on the server, and the worker threads   *)
(* of the daemon that create it, delete it and prepare it for a backup.    *)
(*                                                                         *)
(* No lock protects the directory.  A worker's step is one operation on    *)
(* the file system; between two steps the other workers go on.  Removing a *)
(* tree is one step, and one that fails leaves any part of it: it may fail *)
(* by itself, and whenever another worker is about in the directory.       *)
(***************************************************************************)
EXTENDS Integers

CONSTANTS
    Hosts,    \* the machines with a client
    Threads,  \* workers that may be at work on the set at once
    Faults    \* which of AllFaults happen

AllFaults ==
    {"io",      \* an operation that creates or copies something fails
     "rmtree",  \* removing a tree fails half way
     "stop",    \* the daemon is stopped: its workers end where they are
     "giveUp",  \* a client gives up waiting for the answer (30 s, 300 s)
     "crash",   \* a client is interrupted
     "cron"}    \* a cron file cannot be written or removed

ASSUME DirectoryAssumption == Hosts # {} /\ Threads # {} /\ Faults \subseteq AllFaults

VARIABLES
    disk,        \* what there is of the set's directory
    madeBy,      \* the command whose request made the directory, or NoCommand
    worker,      \* per thread, the request it handles
    overlapped,  \* history: two requests have been handled at once
    crossed      \* history: two of them creations or deletions

serverVars == <<disk, madeBy, worker, overlapped, crossed>>

NoCommand == 0
Items == {"set", "C", "O", "metadata", "diffs", "log"}

Idle == [op |-> "none", id |-> NoCommand, at |-> "none", ok |-> FALSE, errors |-> FALSE]

Worker ==
    [op : {"none", "create", "delete", "prepare"}, id : Nat,
     at : {"none", "path", "check", "set", "C", "O", "metadata", "diffs", "log",
           "cleanUp", "answer"},
     ok : BOOLEAN,        \* the status of the answer
     errors : BOOLEAN]    \* a tree could not be removed

Handling(t, op, at) == worker[t].op = op /\ worker[t].at = at

GoTo(t, at)   == worker' = [worker EXCEPT ![t].at = at]
Answer(t, ok) == worker' = [worker EXCEPT ![t].at = "answer", ![t].ok = ok]
MayFail(what) == what \in Faults

Others(t) == {u \in Threads \ {t} : worker[u] # Idle}
Crossing  == {"create", "delete"}

(* mkdir(parents=True), or a file in a directory that is there.            *)
Make(t, items) ==
    /\ disk' = disk \cup {"set"} \cup items
    /\ madeBy' = IF "set" \in disk THEN madeBy ELSE worker[t].id

Untouched   == UNCHANGED <<disk, madeBy>>
historyVars == <<overlapped, crossed>>

(* Mutant: what is in it goes, the directory stays.                        *)
RemoveItems == disk' = disk \ (Items \ {"set"}) /\ madeBy' = NoCommand

(* shutil.rmtree of the whole directory, to the end or to an error.        *)
RemoveAll == disk' = {} /\ madeBy' = NoCommand
RemoveSome(t) ==
    /\ MayFail("rmtree") \/ Others(t) # {}
    /\ \E left \in SUBSET disk : "set" \in left /\ disk' = left
    /\ UNCHANGED madeBy

-----------------------------------------------------------------------------
(* CREATE_SET                                                              *)

Begins == [create |-> "check", delete |-> "path", prepare |-> "set"]

Accept(t, op, id) ==
    /\ worker[t] = Idle
    /\ worker' = [worker EXCEPT ![t] = [op |-> op, id |-> id, at |-> Begins[op],
                                       ok |-> FALSE, errors |-> FALSE]]
    /\ overlapped' = (overlapped \/ Others(t) # {})
    /\ crossed' = (crossed \/ (op \in Crossing /\ \E u \in Others(t) : worker[u].op \in Crossing))
    /\ Untouched

(* Mutant: the set is not looked for first.                                *)
CreateCheckMissing(t) ==
    /\ Handling(t, "create", "check")
    /\ GoTo(t, "set")
    /\ Untouched

CreateCheck(t) ==
    /\ Handling(t, "create", "check")
    /\ IF "set" \in disk THEN Answer(t, FALSE) ELSE GoTo(t, "set")
    /\ Untouched

(* The directories are made with exist_ok=False, in this order; a failure  *)
(* of any of them goes to the clean-up.                                    *)
After == [set |-> "C", C |-> "O", O |-> "metadata"]

CreateDirectory(t) ==
    \E item \in DOMAIN After :
        /\ Handling(t, "create", item)
        /\ \/ item \notin disk /\ Make(t, {item}) /\ GoTo(t, After[item])
           \/ /\ item \in disk \/ MayFail("io")
              /\ Untouched
              /\ GoTo(t, "cleanUp")

CreateMetadata(t) ==
    /\ Handling(t, "create", "metadata")
    /\ \/ "set" \in disk /\ Make(t, {"metadata"}) /\ GoTo(t, "log")
       \/ /\ "set" \notin disk \/ MayFail("io")
          /\ Untouched
          /\ GoTo(t, "cleanUp")

(* backup.log; a failure is only logged.                                   *)
CreateLog(t) ==
    /\ Handling(t, "create", "log")
    /\ \/ Make(t, {"log"})
       \/ MayFail("io") /\ Untouched
    /\ Answer(t, TRUE)

(* Mutant: only the snapshots are removed.                                 *)
CreateCleanUpSnapshots(t) ==
    /\ Handling(t, "create", "cleanUp")
    /\ disk' = disk \ {"C", "O"}
    /\ Answer(t, FALSE)
    /\ UNCHANGED madeBy

CreateCleanUp(t) ==
    /\ Handling(t, "create", "cleanUp")
    /\ \/ RemoveAll /\ Answer(t, FALSE)
       \/ /\ RemoveSome(t)
          /\ worker' = [worker EXCEPT ![t].at = "answer", ![t].errors = TRUE]

CreateSet(t) ==
    \/ CreateCheck(t)
    \/ CreateDirectory(t)
    \/ CreateMetadata(t)
    \/ CreateLog(t)
    \/ CreateCleanUp(t)

-----------------------------------------------------------------------------
(* DELETE_SET                                                              *)

(* The path of the diffs is asked for first, and asking makes it.          *)
DeleteDiffDir(t) ==
    /\ Handling(t, "delete", "path")
    /\ \/ Make(t, {"diffs"}) /\ GoTo(t, "check")
       \/ MayFail("io") /\ Untouched /\ Answer(t, FALSE)

DeleteCheck(t) ==
    /\ Handling(t, "delete", "check")
    /\ IF "set" \in disk THEN GoTo(t, "C") ELSE Answer(t, FALSE)
    /\ Untouched

(* One tree after the other; an error is remembered and the deletion goes  *)
(* on.                                                                     *)
TreeAfter == [C |-> "O", O |-> "diffs", diffs |-> "set"]

DeleteTree(t) ==
    \E tree \in DOMAIN TreeAfter :
        /\ Handling(t, "delete", tree)
        /\ \/ disk' = disk \ {tree} /\ GoTo(t, TreeAfter[tree])
           \/ /\ tree \in disk
              /\ MayFail("rmtree") \/ Others(t) # {}
              /\ disk' = disk
              /\ worker' = [worker EXCEPT ![t].at = TreeAfter[tree], ![t].errors = TRUE]
        /\ UNCHANGED madeBy

(* Mutant: an error in removing the directory is not remembered.           *)
DeleteDirectoryForgetful(t) ==
    /\ Handling(t, "delete", "set")
    /\ RemoveAll \/ RemoveSome(t)
    /\ Answer(t, ~ worker[t].errors)

DeleteDirectory(t) ==
    /\ Handling(t, "delete", "set")
    /\ \/ "set" \in disk /\ RemoveAll /\ Answer(t, ~ worker[t].errors)
       \/ RemoveSome(t) /\ Answer(t, FALSE)
       \/ "set" \notin disk /\ Untouched /\ Answer(t, FALSE)

DeleteSet(t) ==
    DeleteDiffDir(t) \/ DeleteCheck(t) \/ DeleteTree(t) \/ DeleteDirectory(t)

-----------------------------------------------------------------------------
(* PREPARE_BACKUP, as far as it makes directories (see Rotation)           *)

PrepareSet(t) ==
    /\ Handling(t, "prepare", "set")
    /\ \/ Make(t, {}) /\ GoTo(t, "C")
       \/ MayFail("io") /\ Untouched /\ Answer(t, FALSE)

PrepareSnapshots(t) ==
    /\ Handling(t, "prepare", "C")
    /\ \/ /\ Make(t, IF {"C", "O"} \subseteq disk THEN {"diffs"} ELSE {"C", "O"})
          /\ GoTo(t, "log")
       \/ {"C", "O"} \subseteq disk /\ Untouched /\ GoTo(t, "log")   \* O is empty
       \/ /\ MayFail("io") \/ Others(t) # {}
          /\ \E made \in {{}, IF {"C", "O"} \subseteq disk THEN {"diffs"} ELSE {"C"}} :
                Make(t, made)
          /\ Answer(t, FALSE)

PrepareLog(t) ==
    /\ Handling(t, "prepare", "log")
    /\ \/ Make(t, {"C", "log"})
       \/ MayFail("io") /\ Untouched
    /\ Answer(t, TRUE)

PrepareBackup(t) == PrepareSet(t) \/ PrepareSnapshots(t) \/ PrepareLog(t)

Handle(t) == CreateSet(t) \/ DeleteSet(t) \/ PrepareBackup(t)

=============================================================================
