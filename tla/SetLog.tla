------------------------------- MODULE SetLog -------------------------------
(***************************************************************************)
(* set.log: the history of a backup set, newest entry first, as the three  *)
(* functions of the storage manager that rewrite it see it.                *)
(***************************************************************************)
EXTENDS Integers, Sequences

NoDiff == 0   \* the entry has no diff_path
Never  == 0   \* finished_at is null

(* started is the run whose PREPARE_BACKUP made the entry, finished the    *)
(* run whose BACKUP_COMPLETE stamped it, diff the archive diff_path names. *)
Entry == [number : Nat \ {0}, started : Nat \ {0}, finished : Nat,
          location : {"C", "O", "diff"}, diff : Nat]

Finished(entry) == entry.finished # Never

MaxNumber(entries) ==
    LET numbers == {0} \cup {entries[i].number : i \in DOMAIN entries}
    IN  CHOOSE m \in numbers : \A n \in numbers : n <= m

(* Mutant: the new entry is appended, as to backup.log.                    *)
NewEntryLast(entries, id) ==
    entries \o << [number   |-> MaxNumber(entries) + 1, started |-> id,
                   finished |-> Never, location |-> "C", diff |-> NoDiff] >>

(* _create_set_log_entry_on_prepare *)
NewEntry(entries, id) ==
    << [number   |-> MaxNumber(entries) + 1, started |-> id,
        finished |-> Never, location |-> "C", diff |-> NoDiff] >> \o entries

(* Mutant: the archive goes to the newest entry.                           *)
UpdateNewestForDiff(entries, archive) ==
    IF entries = <<>> THEN entries
    ELSE [entries EXCEPT ![1] = [@ EXCEPT !.diff = archive, !.location = "diff"]]

(* _update_set_log_for_diff: the second entry, as the log stands before    *)
(* the new entry is put in front, is the one whose tree is leaving O.      *)
UpdateForDiff(entries, archive) ==
    IF Len(entries) < 2 THEN entries
    ELSE [entries EXCEPT ![2] = [@ EXCEPT !.diff = archive, !.location = "diff"]]

(* Mutant: the second entry keeps its location.                            *)
FinalizeNewestOnly(entries, id) ==
    [i \in DOMAIN entries |->
        IF i = 1 THEN [entries[i] EXCEPT !.finished = id, !.location = "C"]
        ELSE entries[i]]

(* Mutant: the last entry is taken for the newest.                         *)
FinalizeLast(entries, id) ==
    [i \in DOMAIN entries |->
        IF i = Len(entries) THEN [entries[i] EXCEPT !.finished = id, !.location = "C"]
        ELSE entries[i]]

(* _finalize_set_log_entry *)
Finalize(entries, id) ==
    [i \in DOMAIN entries |->
        IF i = 1 THEN [entries[i] EXCEPT !.finished = id, !.location = "C"]
        ELSE IF i = 2 THEN [entries[i] EXCEPT !.location = "O"]
        ELSE entries[i]]

(* Entries are numbered without a gap, the newest with the highest number. *)
Numbered(entries) ==
    \A i \in DOMAIN entries : entries[i].number = Len(entries) - i + 1

=============================================================================
