----------------------------- MODULE FilesDiff -----------------------------
(***************************************************************************)
(* `blzbak files <set> <folder>`: what FILES_DIFF answers while backups    *)
(* are made (module Rotation).                                             *)
(*                                                                         *)
(* A path of the backed up trees is <<source, folder, ..., name>>.  rsync  *)
(* puts a source given without a trailing slash into C under its own name, *)
(* and the content of one given with a slash into C itself.  The client    *)
(* asks for a folder by its path below the source.                         *)
(***************************************************************************)
EXTENDS Rotation, SequencesExt

CONSTANTS
    Slashed,     \* the sources given with a trailing slash
    Size,        \* of every content
    Endings,     \* <<n, m>>: the longer name m ends with the name n
    Beginnings,  \* <<n, m>>: the longer name m begins with the name n
    Cut          \* what is left of a name that is cut in the middle

ASSUME FilesAssumption ==
    /\ \A p \in Files : p \in Seq({p[k] : k \in DOMAIN p}) /\ Len(p) > 1
    /\ MirrorsRoot = (Slashed # {})
    /\ Size \in [Content -> Nat]
    /\ \A x \in Content : Size[x] = 0 <=> x \in Blank

(* Where a path of the trees is in a snapshot.                             *)
Place(p) ==
    IF p = Meta THEN <<Meta>> ELSE IF p[1] \in Slashed THEN Tail(p) ELSE p

Upper(path) == {SubSeq(path, 1, k) : k \in 1 .. Len(path) - 1}
Rest(path, folder) == SubSeq(path, Len(folder) + 1, Len(path))

Below(s, folder) ==
    {p \in Paths : s[p] # Absent /\ IsStrictPrefix(folder, Place(p))}
FolderIn(s, folder) == folder = <<>> \/ Below(s, folder) # {}
FoldersIn(s) == UNION {Upper(Place(p)) : p \in Below(s, <<>>)}

-----------------------------------------------------------------------------
(* The request: cmd_files finds the source the folder is in and lists what *)
(* is below it.  local maps the source's files to their contents; those in *)
(* touched have another modification time than their backup.               *)

Requests ==
    UNION {{[source |-> p[1], folder |-> Tail(f)] : f \in Upper(p)} : p \in Files}

Home(request) == <<request.source>> \o request.folder

Listed(request, local) ==
    {p \in DOMAIN local : local[p] # Absent /\ IsStrictPrefix(Home(request), p)}

(* Nothing is asked about a folder that is gone or that has no file left,  *)
(* and the daemon would refuse it.                                         *)
Asked(request, local) == Listed(request, local) # {}

-----------------------------------------------------------------------------
(* 1. The local files against C                                            *)

(* Mutant: contents of one size are not compared.                          *)
ChangedSize(new, old, touched) == Size[new] # Size[old] \/ touched

(* Only files that are not empty are sent with a hash.                     *)
Changed(new, old, touched) ==
    \/ Size[new] # Size[old]
    \/ touched
    \/ Size[new] # 0 /\ new # old

SameOrIn(pairs, n, m) == n = m \/ <<n, m>> \in pairs

(* "rel.endswith(target_suffix)", on names instead of characters.          *)
EndsWith(path, suffix) ==
    /\ Len(path) >= Len(suffix)
    /\ LET end == Rest(path, SubSeq(path, 1, Len(path) - Len(suffix)))
       IN  SameOrIn(Endings, suffix[1], end[1]) /\ Tail(end) = Tail(suffix)

(* The folders of C the files may be compared with: under the source's     *)
(* name, as asked, or else the first that is found to end with it.         *)
Located(request) ==
    IF FolderIn(C, Home(request)) THEN {Home(request)}
    ELSE IF FolderIn(C, request.folder) THEN {request.folder}
    ELSE LET found == {f \in FoldersIn(C) : EndsWith(f, request.folder)}
         IN  IF found = {} THEN {request.folder} ELSE found

Report(number, path, status) == [number |-> number, path |-> path, status |-> status]

CurrentDiffs(request, local, touched, at) ==
    LET listed   == Listed(request, local)
        Name(p)  == Rest(p, Home(request))
        Saved(p) == {q \in Below(C, at) : Place(q) = at \o Name(p)}
    IN  {Report(log[1].number, Name(p), "new") : p \in {q \in listed : Saved(q) = {}}}
        \cup {Report(log[1].number, Name(p), "modified") :
                 p \in {q \in listed : \E s \in Saved(q) :
                                          Changed(local[q], C[s], q \in touched)}}
        \cup {Report(log[1].number, Rest(Place(q), at), "deleted") :
                 q \in {s \in Below(C, at) : \A p \in listed : s \notin Saved(p)}}

-----------------------------------------------------------------------------
(* 2. C against O, by the folder as it was asked for                       *)

(* Mutant: the difference is ascribed to the newest backup.                *)
PreviousDiffsNewest(folder) ==
    IF Len(log) < 2 \/ ~ FolderIn(O, folder) THEN {}
    ELSE IF ~ FolderIn(C, folder)
    THEN {Report(log[1].number, <<>>, "folderDeleted")}
    ELSE {Report(log[1].number, Rest(Place(p), folder), "changed") :
             p \in {q \in Below(O, folder) : C[q] # O[q]}}

(* Only items of O are looked at: deleted in C, or modified.               *)
PreviousDiffs(folder) ==
    IF Len(log) < 2 \/ ~ FolderIn(O, folder) THEN {}
    ELSE IF ~ FolderIn(C, folder)
    THEN {Report(log[2].number, <<>>, "folderDeleted")}
    ELSE {Report(log[2].number, Rest(Place(p), folder),
                 IF C[p] = Absent THEN "deleted" ELSE "modified") :
             p \in {q \in Below(O, folder) : C[q] # O[q]}}

-----------------------------------------------------------------------------
(* 3. The headers in the archives                                          *)

(* "rel_path.startswith(folder_path)": the asked path may end inside a     *)
(* name; "." is the beginning of the metadata file's name only.            *)
StartsWith(path, folder) ==
    IF folder = <<>> THEN path = <<Meta>>
    ELSE /\ Len(path) >= Len(folder)
         /\ SubSeq(path, 1, Len(folder) - 1) = Front(folder)
         /\ SameOrIn(Beginnings, Last(folder), path[Len(folder)])

FolderRelative(path, folder) ==
    IF folder = <<>> THEN <<Cut>>
    ELSE (IF path[Len(folder)] = Last(folder) THEN <<>> ELSE <<Cut>>) \o Rest(path, folder)

PatchDiffsOf(i, folder) ==
    LET patch == archives[log[i].diff]
    IN  {Report(log[i].number, FolderRelative(Place(p), folder), "inPatch") :
            p \in {q \in Paths : patch[q] # NoHunk /\ StartsWith(Place(q), folder)}}

(* Mutant: the archives of entries that have left C and O are not read.    *)
PatchDiffsRecent(folder) ==
    UNION {PatchDiffsOf(i, folder) :
              i \in {j \in DOMAIN log : j <= 2 /\ log[j].diff # NoDiff}}

PatchDiffs(folder) ==
    UNION {PatchDiffsOf(i, folder) : i \in {j \in DOMAIN log : log[j].diff # NoDiff}}

(* cmd_files and compare_files_across_backups *)
Differences(request, local, touched, at) ==
    IF ~ Asked(request, local) \/ log = <<>> THEN {}
    ELSE CurrentDiffs(request, local, touched, at)
         \cup PreviousDiffs(request.folder)
         \cup PatchDiffs(request.folder)

-----------------------------------------------------------------------------
(* Properties                                                              *)

FilesOf(source) == {p \in Files : p[1] = source}

(* A folder that C has where rsync puts it is compared exactly: of the     *)
(* source's own files the answer ascribes to the newest backup just those  *)
(* that are new, changed (in content or modification time) or gone since C *)
(* was written - whatever runs have failed or are under way.  Of a folder  *)
(* that has no file left nothing is asked                                  *)
(* (cmd_files, compare_files_across_backups, _compare_against_snapshot).   *)
CurrentExact ==
    log # <<>> =>
    \A request \in Requests :
        LET home == Home(request)
            own  == {p \in FilesOf(request.source) : IsStrictPrefix(home, p)}
            there == IF request.source \in Slashed THEN request.folder ELSE home
        IN  FolderIn(C, there) =>
            \A local \in [FilesOf(request.source) -> Content \cup {Absent}],
               touched \in {{}, own}, at \in Located(request) :
              Asked(request, local) =>
                LET New(p)  == local[p] # Absent /\ C[p] = Absent
                    Gone(p) == local[p] = Absent /\ C[p] # Absent
                    Other(p) == /\ local[p] # Absent /\ C[p] # Absent
                                /\ local[p] # C[p] \/ p \in touched
                IN  {r \in Differences(request, local, touched, at) :
                        /\ r.number = log[1].number
                        /\ r.path \in {Rest(p, home) : p \in own}}
                    = {Report(log[1].number, Rest(p, home),
                              IF New(p) THEN "new" ELSE IF Gone(p) THEN "deleted"
                              ELSE "modified") :
                          p \in {q \in own : New(q) \/ Gone(q) \/ Other(q)}}

OlderDiffs(folder) == PreviousDiffs(folder) \cup PatchDiffs(folder)

(* Every older difference of an answer is one between the backup it is     *)
(* ascribed to and the backup after it, at that place of the snapshots     *)
(* (_compare_snapshots and _parse_patch_for_folder, with the numbers and   *)
(* paths the rotation has left in set.log).                                *)
HistoryTrue ==
    \A request \in Requests : \A r \in OlderDiffs(request.folder) :
        \/ Cut \in {r.path[k] : k \in DOMAIN r.path}
        \/ \E i \in 2 .. Len(log) :
              /\ log[i].number = r.number
              /\ \E p \in Paths :
                    /\ Version(i)[p] # Version(i - 1)[p]
                    /\ IsPrefix(request.folder \o r.path, Place(p))

(* A file that a backup had and the next one had not, or had otherwise, is *)
(* in the answer under that backup.                                        *)
Answered(request, i, p) ==
    \E r \in OlderDiffs(request.folder) :
        /\ r.number = log[i].number
        /\ r.path \in {<<>>, Rest(p, Home(request))}

ChangedSince(i, p) == Version(i)[p] # Absent /\ Version(i)[p] # Version(i - 1)[p]

(* For a folder of a source given with a slash the answer names every such *)
(* file, in O or behind any archive.                                       *)
HistoryComplete ==
    \A request \in Requests :
        request.source \in Slashed /\ request.folder # <<>> =>
            \A p \in FilesOf(request.source), i \in 2 .. Len(log) :
                IsStrictPrefix(Home(request), p) /\ ChangedSince(i, p)
                    => Answered(request, i, p)

=============================================================================
