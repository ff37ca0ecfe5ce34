-------------------------- MODULE FilesDiffProofs --------------------------
(***************************************************************************)
(* Theorems about FilesDiff, for any files, sources, clients and faults.   *)
(***************************************************************************)
EXTENDS FilesDiff, RotationProofs

-----------------------------------------------------------------------------
(* What the archives tell of the history                                   *)

(* The archive of an entry is the difference between its snapshot and the  *)
(* next; without one there was nothing to tell.                            *)
Told(diff, patches, old, new) ==
    IF diff = NoDiff THEN ~ HasContent(old) \/ SameToDiff(old, new)
    ELSE patches[diff] = PatchOf(old, new)

(* No copy of C over O stops half way and no archive replaces another.     *)
EachArchived == {"sync", "sameSecond"} \cap Faults = {}

PatchInv ==
    /\ BookInv
    /\ \A i \in DOMAIN log : i <= 2 => log[i].diff = NoDiff
    /\ Len(log) >= 2 => O = Version(2)
    /\ \A i \in 3 .. Len(log) :
          Told(log[i].diff, archives, Version(i), Version(i - 1))

(* What diff leaves in the log and in diffs/ of the tree in O.             *)
LEMMA CreateDiffTells ==
    ASSUME EachArchived, PatchInv, CreateDiff
    PROVE  /\ \A k \in 1 .. Len(archives) : archives'[k] = archives[k]
           /\ Len(log) >= 2 => Told(LogAfterDiff[2].diff, archives', O, C)
<1>1. /\ archives \in Seq(Patch) /\ Len(archives) \in Nat
      /\ log \in Seq(Entry) /\ DOMAIN log = 1 .. Len(log) /\ Len(log) \in Nat
      /\ PatchOf(O, C) \in Patch
    BY LenProperties, PatchTypes DEF PatchInv, BookInv, IInv, TypeOK, Patch, PatchOf, Snapshot
<1>2. archives' = archives \/ archives' = Append(archives, PatchOf(O, C))
    BY DEF CreateDiff, Archived, EachArchived
<1>3. \A k \in 1 .. Len(archives) : archives'[k] = archives[k]
    BY <1>1, <1>2
<1>4. ASSUME Len(log) >= 2 PROVE Told(LogAfterDiff[2].diff, archives', O, C)
    <2>1. log[2].diff = NoDiff
        BY <1>1, <1>4 DEF PatchInv
    <2>2. CASE HasContent(O) /\ ~ SameToDiff(O, C)
        <3>1. archives' = Append(archives, PatchOf(O, C))
            BY <2>2 DEF CreateDiff, Archived, EachArchived
        <3>2. /\ Len(archives') = Len(archives) + 1
              /\ archives'[Len(archives) + 1] = PatchOf(O, C)
            BY <1>1, <3>1
        <3>3. Len(archives') \in Nat /\ Len(archives') # NoDiff
            BY <1>1, <3>2 DEF NoDiff
        <3>4. LogAfterDiff = UpdateForDiff(log, Len(archives'))
            BY <2>2 DEF LogAfterDiff
        <3>5. LogAfterDiff[2].diff = Len(archives')
            BY <1>1, <1>4, <3>3, <3>4, UpdateForDiffProperties
        <3> QED
            BY <3>2, <3>3, <3>5 DEF Told
    <2>3. CASE ~ (HasContent(O) /\ ~ SameToDiff(O, C))
        <3>1. LogAfterDiff = log
            BY <2>3 DEF LogAfterDiff
        <3> QED
            BY <2>1, <2>3, <3>1 DEF Told
    <2> QED
        BY <2>2, <2>3
<1> QED
    BY <1>3, <1>4

LEMMA PatchFrame ==
    ASSUME PatchInv, BookInv', held' = held, O' = O, archives' = archives,
           Len(log') = Len(log),
           \A i \in DOMAIN log : log'[i].diff = log[i].diff
    PROVE  PatchInv'
<1>1. /\ IInv /\ IInv' /\ Len(log) \in Nat
      /\ DOMAIN log = 1 .. Len(log) /\ DOMAIN log' = DOMAIN log
    BY LenProperties DEF PatchInv, BookInv, IInv, TypeOK
<1>2. \A i \in 2 .. Len(log) : Version(i)' = Version(i)
    BY <1>1, VersionsStay
<1>3. ASSUME NEW i \in 3 .. Len(log')
      PROVE  Told(log'[i].diff, archives', Version(i)', Version(i - 1)')
    <2>1. /\ i \in 2 .. Len(log) /\ i - 1 \in 2 .. Len(log) /\ i \in 3 .. Len(log)
          /\ i \in DOMAIN log
        BY <1>1
    <2>2. Told(log[i].diff, archives, Version(i), Version(i - 1))
        BY <2>1 DEF PatchInv
    <2>3. Version(i - 1)' = Version(i - 1) /\ Version(i)' = Version(i)
        BY <1>2, <2>1
    <2> QED
        BY <2>1, <2>2, <2>3
<1>4. Len(log') >= 2 => Version(2)' = Version(2)
    BY <1>1, <1>2
<1>5. ASSUME NEW i \in DOMAIN log', i <= 2 PROVE log'[i].diff = NoDiff
    BY <1>1, <1>5 DEF PatchInv
<1> QED
    BY <1>3, <1>4, <1>5 DEF PatchInv

(* A first entry has no diff_path and no successor.                        *)
LEMMA PatchFirst ==
    ASSUME BookInv, BookInv', NEW entries \in Seq(Entry), Len(entries) = 0,
           Numbered(entries), NEW n \in Nat, PointersExist(entries, n), Open(entries)
    PROVE  PatchInv'
<1>1. IInv
    BY DEF BookInv
<1>2. Len(log') = 1 /\ log'[1].diff = NoDiff /\ log' \in Seq(Entry)
    <2>1. /\ log' \in Seq(Entry) /\ Len(log') = Len(entries) + 1
          /\ log'[1].diff = NoDiff
        BY <1>1, OpenTypes
    <2> QED
        BY <2>1
<1>3. DOMAIN log' = 1 .. 1
    BY <1>2, LenProperties
<1> QED
    BY <1>2, <1>3 DEF PatchInv

(* A rotation: what diff told of O and C is told of the third entry and    *)
(* the second, and what the other archives tell is untouched.              *)
LEMMA PatchRotate ==
    ASSUME EachArchived, PatchInv, BookInv', log # <<>>,
           CreateDiff, Open(LogAfterDiff), O' = C
    PROVE  PatchInv'
<1>0. /\ BookInv /\ IInv /\ IInv' /\ log \in Seq(Entry) /\ Len(log) \in Nat \ {0}
      /\ DOMAIN log = 1 .. Len(log) /\ Len(archives) \in Nat
      /\ LogAfterDiff \in Seq(Entry) /\ Len(LogAfterDiff) = Len(log)
      /\ Numbered(LogAfterDiff)
      /\ \A i \in DOMAIN log : i # 2 => LogAfterDiff[i] = log[i]
    <2>1. BookInv /\ IInv /\ IInv' /\ log \in Seq(Entry) /\ archives \in Seq(Patch)
        BY DEF PatchInv, BookInv, IInv, TypeOK
    <2> QED
        BY <2>1, LogAfterDiffKeeps, LenProperties, EmptySeq
<1>1. /\ DOMAIN log' = 1 .. Len(log) + 1 /\ Len(log') = Len(log) + 1
      /\ log' # <<>>
      /\ \A i \in 2 .. Len(log) + 1 : log'[i] = LogAfterDiff[i - 1]
    BY <1>0, OpenedLog
<1>2. log'[1].diff = NoDiff
    <2>1. Len(archives') \in Nat /\ PointersExist(LogAfterDiff, Len(archives'))
        BY <1>0, CreateDiffTypes, LenProperties
    <2> QED
        BY <1>0, <2>1, OpenTypes
<1>3. dirs' = {"C", "O"}
    BY <1>1 DEF BookInv
<1>4. /\ Len(held) = Len(log) - 1
      /\ held'[Len(log)] = C
      /\ \A k \in 1 .. Len(log) - 1 : held'[k] = held[k]
    BY <1>0, <1>3, BookOpen
<1>5. /\ Version(2)' = C
      /\ \A i \in 2 .. Len(log) : Version(i + 1)' = Version(i)
    BY <1>0, <1>1, <1>4, VersionsMove
<1>6. /\ \A k \in 1 .. Len(archives) : archives'[k] = archives[k]
      /\ Len(log) >= 2 => Told(LogAfterDiff[2].diff, archives', O, C)
    BY CreateDiffTells
<1>7. ASSUME NEW i \in DOMAIN log', i <= 2 PROVE log'[i].diff = NoDiff
    <2>1. CASE i = 1
        BY <1>2, <2>1
    <2>2. CASE i # 1
        <3>1. i = 2 /\ 1 \in DOMAIN log /\ 2 \in 2 .. Len(log) + 1
            BY <1>0, <1>1, <1>7, <2>2
        <3>2. log'[2] = log[1]
            BY <1>0, <1>1, <3>1
        <3> QED
            BY <3>1, <3>2 DEF PatchInv
    <2> QED
        BY <2>1, <2>2
<1>8. ASSUME NEW i \in 3 .. Len(log')
      PROVE  Told(log'[i].diff, archives', Version(i)', Version(i - 1)')
    <2> DEFINE j == i - 1
    <2>1. j \in 2 .. Len(log) /\ i = j + 1 /\ i \in 2 .. Len(log) + 1
        BY <1>0, <1>1
    <2>2. log'[i] = LogAfterDiff[j] /\ Version(i)' = Version(j)
        BY <1>1, <1>5, <2>1
    <2>3. CASE j = 2
        <3>1. Version(j)' = C /\ Version(j) = O /\ Len(log) >= 2
            BY <1>0, <1>5, <2>1, <2>3 DEF PatchInv
        <3> HIDE DEF j
        <3> QED
            BY <1>6, <2>1, <2>2, <2>3, <3>1
    <2>4. CASE j # 2
        <3>1. /\ j \in 3 .. Len(log) /\ j - 1 \in 2 .. Len(log) /\ j = (j - 1) + 1
              /\ j \in DOMAIN log
            BY <1>0, <2>1, <2>4
        <3>2. Version(j)' = Version(j - 1) /\ LogAfterDiff[j] = log[j]
            BY <1>0, <1>5, <2>4, <3>1
        <3>3. Told(log[j].diff, archives, Version(j), Version(j - 1))
            BY <3>1 DEF PatchInv
        <3> HIDE DEF j
        <3>4. log[j].diff = NoDiff \/ log[j].diff \in 1 .. Len(archives)
            <4>1. log[j] \in Entry
                BY <1>0, <3>1, ElementOfSeq
            <4>2. log[j].diff <= Len(archives)
                BY <1>0, <3>1 DEF IInv, TypeOK
            <4>3. log[j].diff \in Nat
                BY <4>1 DEF Entry
            <4> QED
                BY <1>0, <4>2, <4>3 DEF NoDiff
        <3> QED
            BY <1>6, <2>1, <2>2, <3>2, <3>3, <3>4 DEF Told
    <2> QED
        BY <2>3, <2>4
<1> QED
    BY <1>1, <1>5, <1>7, <1>8 DEF PatchInv

LEMMA PatchStep ==
    ASSUME EachArchived
    PROVE  PatchInv /\ [Next]_vars => PatchInv'
<1> SUFFICES ASSUME PatchInv, [Next]_vars PROVE PatchInv'
    OBVIOUS
<1>0. /\ BookInv /\ BookInv' /\ IInv /\ log \in Seq(Entry) /\ Numbered(log)
      /\ Len(archives) \in Nat /\ PointersExist(log, Len(archives))
    BY BookStep, LenProperties DEF PatchInv, BookInv, IInv, TypeOK, PointersExist
<1>1. ASSUME NEW c \in Clients, PrepareFirst(c) \/ PrepareNoO(c) PROVE PatchInv'
    <2>1. log = <<>> /\ Open(log) /\ Len(log) = 0
        BY <1>0, <1>1 DEF PrepareFirst, PrepareNoO, BookInv
    <2> QED
        BY <1>0, <2>1, PatchFirst
<1>2. ASSUME NEW c \in Clients, PrepareRotate(c) PROVE PatchInv'
    <2>1. CreateDiff /\ Open(LogAfterDiff) /\ O' = C
        BY <1>2 DEF PrepareRotate
    <2>2. /\ LogAfterDiff \in Seq(Entry) /\ Len(LogAfterDiff) = Len(log)
          /\ Numbered(LogAfterDiff) /\ PointersExist(LogAfterDiff, Len(archives'))
          /\ Len(archives') \in Nat
        BY <1>0, <2>1, CreateDiffTypes, LenProperties
    <2>3. CASE log = <<>>
        <3>1. Len(LogAfterDiff) = 0
            BY <2>2, <2>3
        <3> QED
            BY <1>0, <2>1, <2>2, <3>1, PatchFirst
    <2>4. CASE log # <<>>
        BY <1>0, <2>1, <2>4, PatchRotate
    <2> QED
        BY <2>3, <2>4
<1>3. ASSUME NEW c \in Clients, RejectMkdir(c) \/ RejectDiff(c) PROVE PatchInv'
    <2>1. O' = O /\ archives' = archives /\ log' = log /\ held' = held
        BY <1>3 DEF RejectMkdir, RejectDiff
    <2> QED
        BY <1>0, <2>1, PatchFrame
<1>4. ASSUME NEW c \in Clients, RejectSync(c) PROVE PatchInv'
    BY <1>4 DEF RejectSync, EachArchived
<1>5. ASSUME NEW c \in Clients, Transfer(c) \/ Fail(c) PROVE PatchInv'
    <2>1. O' = O /\ archives' = archives /\ log' = log /\ held' = held
        BY <1>5 DEF Transfer, Fail
    <2> QED
        BY <1>0, <2>1, PatchFrame
<1>6. ASSUME NEW c \in Clients, Complete(c) PROVE PatchInv'
    <2>1. /\ O' = O /\ archives' = archives /\ held' = held
          /\ log' = Finalize(log, run[c].id) /\ run[c].id \in Nat
        BY <1>0, <1>6 DEF Complete, Run, IInv, TypeOK
    <2>2. /\ Len(log') = Len(log)
          /\ \A i \in DOMAIN log : log'[i].diff = log[i].diff
        BY <1>0, <2>1, FinalizeProperties
    <2> QED
        BY <1>0, <2>1, <2>2, PatchFrame
<1>7. CASE UNCHANGED vars
    <2>1. O' = O /\ archives' = archives /\ log' = log /\ held' = held
        BY <1>7 DEF vars
    <2> QED
        BY <1>0, <2>1, PatchFrame
<1> QED
    BY <1>1, <1>2, <1>3, <1>4, <1>5, <1>6, <1>7 DEF Next, Prepare

LEMMA PatchInit == Init => PatchInv
<1> SUFFICES ASSUME Init PROVE PatchInv
    OBVIOUS
<1>1. BookInv /\ log = <<>> /\ Len(log) = 0
    BY BookInit DEF Init
<1>2. DOMAIN log = {}
    BY <1>1, EmptySeq
<1> QED
    BY <1>1, <1>2 DEF PatchInv

-----------------------------------------------------------------------------
(* Paths and folders                                                       *)

Names == {Meta} \cup UNION {{p[k] : k \in DOMAIN p} : p \in Files}

LEMMA FilesAreNames ==
    ASSUME NEW p \in Files
    PROVE  p \in Seq(Names) /\ Len(p) \in Nat /\ Len(p) > 1 /\ p # <<>>
<1>1. p \in Seq({p[k] : k \in DOMAIN p}) /\ Len(p) > 1
    BY FilesAssumption
<1>2. {p[k] : k \in DOMAIN p} \subseteq Names
    BY DEF Names
<1>3. p \in Seq(Names)
    BY <1>1, <1>2, SeqMonotonic
<1>4. Len(p) \in Nat
    BY <1>3, LenProperties
<1>5. p # <<>>
    BY <1>1, <1>3, EmptySeq
<1> QED
    BY <1>1, <1>3, <1>4, <1>5

LEMMA PlaceTypes == ASSUME NEW p \in Paths PROVE Place(p) \in Seq(Names)
<1>1. CASE p = Meta
    BY <1>1 DEF Place, Names
<1>2. CASE p # Meta
    <2>1. p \in Seq(Names) /\ p # <<>>
        BY <1>2, FilesAreNames DEF Paths
    <2>2. Tail(p) \in Seq(Names)
        BY <2>1, HeadTailProperties
    <2> QED
        BY <1>2, <2>1, <2>2 DEF Place
<1> QED
    BY <1>1, <1>2

(* A prefix, name by name.                                                 *)
LEMMA PrefixByNames ==
    ASSUME NEW S, NEW s \in Seq(S), NEW t \in Seq(S)
    PROVE  IsPrefix(s, t) <=> Len(s) <= Len(t) /\ \A k \in 1 .. Len(s) : s[k] = t[k]
<1>0. Len(s) \in Nat /\ Len(t) \in Nat
    BY LenProperties
<1>1. ASSUME Len(s) <= Len(t)
      PROVE  SubSeq(s, 1, Len(s)) = SubSeq(t, 1, Len(s))
                <=> \A k \in 1 .. Len(s) : s[k] = t[k]
    <2> DEFINE u == SubSeq(t, 1, Len(s))
    <2>1. SubSeq(s, 1, Len(s)) = s
        BY SubSeqFull
    <2>2. \A k \in 1 .. Len(s) : t[k] \in S
        BY <1>0, <1>1, ElementOfSeq
    <2>3. /\ u \in Seq(S)
          /\ Len(u) = IF 1 <= Len(s) THEN Len(s) - 1 + 1 ELSE 0
          /\ \A k \in 1 .. Len(s) - 1 + 1 : u[k] = t[1 + k - 1]
        BY <1>0, <2>2, SubSeqProperties
    <2> HIDE DEF u
    <2>4. Len(u) = Len(s) /\ \A k \in 1 .. Len(s) : u[k] = t[k]
        BY <1>0, <2>3
    <2>5. s = u <=> \A k \in 1 .. Len(s) : s[k] = u[k]
        BY <2>3, <2>4, SeqEqual
    <2> QED
        BY <2>1, <2>4, <2>5 DEF u
<1> QED
    BY <1>1 DEF IsPrefix

LEMMA RestProperties ==
    ASSUME NEW S, NEW path \in Seq(S), NEW folder \in Seq(S),
           Len(folder) <= Len(path)
    PROVE  /\ Rest(path, folder) \in Seq(S)
           /\ Len(Rest(path, folder)) = Len(path) - Len(folder)
           /\ \A k \in 1 .. Len(path) - Len(folder) :
                 Rest(path, folder)[k] = path[Len(folder) + k]
<1>0. Len(folder) \in Nat /\ Len(path) \in Nat
    BY LenProperties
<1>1. \A k \in Len(folder) + 1 .. Len(path) : path[k] \in S
    BY <1>0, ElementOfSeq
<1> DEFINE u == SubSeq(path, Len(folder) + 1, Len(path))
<1>2. /\ u \in Seq(S)
      /\ Len(u) = IF Len(folder) + 1 <= Len(path)
                  THEN Len(path) - (Len(folder) + 1) + 1 ELSE 0
      /\ \A k \in 1 .. Len(path) - (Len(folder) + 1) + 1 :
            u[k] = path[(Len(folder) + 1) + k - 1]
    BY <1>0, <1>1, SubSeqProperties
<1>3. Rest(path, folder) = u
    BY DEF Rest
<1> HIDE DEF u
<1>4. Len(u) = Len(path) - Len(folder)
    BY <1>0, <1>2
<1>5. ASSUME NEW k \in 1 .. Len(path) - Len(folder)
      PROVE  u[k] = path[Len(folder) + k]
    <2>1. /\ k \in 1 .. Len(path) - (Len(folder) + 1) + 1
          /\ (Len(folder) + 1) + k - 1 = Len(folder) + k
        BY <1>0
    <2> QED
        BY <1>2, <2>1
<1> QED
    BY <1>2, <1>3, <1>4, <1>5

(* A path below a folder is the folder and the rest.                       *)
LEMMA FolderAndRest ==
    ASSUME NEW S, NEW path \in Seq(S), NEW folder \in Seq(S),
           IsPrefix(folder, path)
    PROVE  folder \o Rest(path, folder) = path
<1>0. Len(folder) \in Nat /\ Len(path) \in Nat
    BY LenProperties
<1>1. Len(folder) <= Len(path) /\ \A k \in 1 .. Len(folder) : folder[k] = path[k]
    BY PrefixByNames
<1> DEFINE rest == Rest(path, folder)
<1>2. /\ rest \in Seq(S) /\ Len(rest) = Len(path) - Len(folder)
      /\ \A k \in 1 .. Len(path) - Len(folder) : rest[k] = path[Len(folder) + k]
    BY <1>1, RestProperties
<1> HIDE DEF rest
<1>3. /\ folder \o rest \in Seq(S)
      /\ Len(folder \o rest) = Len(folder) + Len(rest)
      /\ \A k \in 1 .. Len(folder) + Len(rest) :
            (folder \o rest)[k] =
                IF k <= Len(folder) THEN folder[k] ELSE rest[k - Len(folder)]
    BY <1>2, ConcatProperties
<1>4. Len(folder \o rest) = Len(path)
    BY <1>0, <1>2, <1>3
<1>5. ASSUME NEW k \in 1 .. Len(path) PROVE (folder \o rest)[k] = path[k]
    <2>1. CASE k <= Len(folder)
        BY <1>0, <1>1, <1>2, <1>3, <2>1
    <2>2. CASE ~ k <= Len(folder)
        <3>1. /\ k - Len(folder) \in 1 .. Len(path) - Len(folder)
              /\ Len(folder) + (k - Len(folder)) = k
              /\ k \in 1 .. Len(folder) + Len(rest)
            BY <1>0, <1>2, <2>2
        <3> QED
            BY <1>2, <1>3, <2>2, <3>1
    <2> QED
        BY <2>1, <2>2
<1>6. folder \o rest = path
    BY <1>3, <1>4, <1>5, SeqEqual
<1> QED
    BY <1>6 DEF rest

(* "startswith" up to the last name, and that name.                        *)
LEMMA PrefixByLast ==
    ASSUME NEW S, NEW folder \in Seq(S), NEW path \in Seq(S),
           folder # <<>>, Len(path) >= Len(folder)
    PROVE  IsPrefix(folder, path)
             <=> /\ SubSeq(path, 1, Len(folder) - 1) = Front(folder)
                 /\ path[Len(folder)] = Last(folder)
<1> DEFINE n == Len(folder) - 1
           u == SubSeq(path, 1, n)
           v == SubSeq(folder, 1, n)
<1>0. Len(folder) \in Nat \ {0} /\ Len(path) \in Nat /\ n \in Nat
    BY LenProperties, EmptySeq
<1>1. (\A k \in 1 .. n : path[k] \in S) /\ (\A k \in 1 .. n : folder[k] \in S)
    BY <1>0, ElementOfSeq
<1>2. /\ u \in Seq(S)
      /\ Len(u) = IF 1 <= n THEN n - 1 + 1 ELSE 0
      /\ \A k \in 1 .. n - 1 + 1 : u[k] = path[1 + k - 1]
    BY <1>0, <1>1, SubSeqProperties
<1>3. /\ v \in Seq(S)
      /\ Len(v) = IF 1 <= n THEN n - 1 + 1 ELSE 0
      /\ \A k \in 1 .. n - 1 + 1 : v[k] = folder[1 + k - 1]
    BY <1>0, <1>1, SubSeqProperties
<1>4. Front(folder) = v /\ SubSeq(path, 1, Len(folder) - 1) = u
    BY DEF Front
<1>5. Last(folder) = folder[n + 1] /\ Len(folder) = n + 1
    BY <1>0 DEF Last
<1> HIDE DEF n, u, v
<1>6. /\ Len(u) = n /\ Len(v) = n
      /\ \A k \in 1 .. n : u[k] = path[k]
      /\ \A k \in 1 .. n : v[k] = folder[k]
    BY <1>0, <1>2, <1>3
<1>7. u = v <=> \A k \in 1 .. n : u[k] = v[k]
    BY <1>2, <1>3, <1>6, SeqEqual
<1>8. IsPrefix(folder, path) <=> \A k \in 1 .. n + 1 : folder[k] = path[k]
    BY <1>5, PrefixByNames
<1>9. (\A k \in 1 .. n + 1 : folder[k] = path[k])
        <=> (\A k \in 1 .. n : folder[k] = path[k]) /\ folder[n + 1] = path[n + 1]
    <2>1. 1 .. n + 1 = (1 .. n) \cup {n + 1}
        BY <1>0
    <2> QED
        BY <2>1, Zenon
<1> QED
    BY <1>4, <1>5, <1>6, <1>7, <1>8, <1>9

LEMMA RequestTypes ==
    ASSUME NEW request \in Requests
    PROVE  /\ request.source \in Names /\ request.folder \in Seq(Names)
           /\ Home(request) \in Seq(Names)
           /\ Len(Home(request)) = Len(request.folder) + 1
           /\ Home(request)[1] = request.source
           /\ \A k \in 1 .. Len(request.folder) :
                 Home(request)[k + 1] = request.folder[k]
<1>0. PICK p \in Files : \E k \in 1 .. Len(p) - 1 :
        request = [source |-> p[1], folder |-> Tail(SubSeq(p, 1, k))]
    BY DEF Requests, Upper
<1>1. PICK k \in 1 .. Len(p) - 1 :
        request = [source |-> p[1], folder |-> Tail(SubSeq(p, 1, k))]
    BY <1>0
<1>2. p \in Seq(Names) /\ Len(p) \in Nat /\ Len(p) > 1
    BY FilesAreNames
<1>3. \A j \in 1 .. k : p[j] \in Names
    BY <1>2, ElementOfSeq
<1>4. k \in Int /\ 1 <= k
    BY <1>2
<1> DEFINE f == SubSeq(p, 1, k)
<1>5. f \in Seq(Names) /\ Len(f) = IF 1 <= k THEN k - 1 + 1 ELSE 0
    BY <1>3, <1>4, SubSeqProperties
<1> HIDE DEF f
<1>6. f # <<>>
    BY <1>4, <1>5, EmptySeq
<1>7. Tail(f) \in Seq(Names)
    BY <1>5, <1>6, HeadTailProperties
<1>8. request.source \in Names /\ request.folder \in Seq(Names)
    <2>1. request.source = p[1] /\ request.folder = Tail(f)
        BY <1>1 DEF f
    <2> QED
        BY <1>3, <1>4, <1>7, <2>1
<1> DEFINE s == <<request.source>>
           folder == request.folder
<1>9. s \in Seq(Names) /\ Len(s) = 1 /\ s[1] = request.source
    BY <1>8
<1>10. Home(request) = s \o folder /\ folder \in Seq(Names)
    BY <1>8 DEF Home
<1> HIDE DEF s, folder
<1>11. /\ s \o folder \in Seq(Names)
       /\ Len(s \o folder) = Len(s) + Len(folder)
       /\ \A i \in 1 .. Len(s) + Len(folder) :
            (s \o folder)[i] = IF i <= Len(s) THEN s[i] ELSE folder[i - Len(s)]
    BY <1>9, <1>10, ConcatProperties
<1>12. Len(folder) \in Nat
    BY <1>10, LenProperties
<1>13. ASSUME NEW i \in 1 .. Len(folder) PROVE (s \o folder)[i + 1] = folder[i]
    <2>1. i + 1 \in 1 .. Len(s) + Len(folder) /\ ~ i + 1 <= Len(s) /\ (i + 1) - Len(s) = i
        BY <1>9, <1>12
    <2> QED
        BY <1>11, <2>1
<1>14. (s \o folder)[1] = request.source /\ Len(s \o folder) = Len(folder) + 1
    BY <1>9, <1>11, <1>12
<1> QED
    BY <1>8, <1>10, <1>11, <1>13, <1>14 DEF folder

-----------------------------------------------------------------------------
(* The older differences of an answer                                      *)

(* The snapshots of entry i and of the one after it differ at p.           *)
Differs(i, p) ==
    i \in 2 .. Len(log) /\ p \in Paths /\ Version(i)[p] # Version(i - 1)[p]

(* A hunk in an archive is such a difference.                              *)
LEMMA HunksAreTrue ==
    ASSUME PatchInv, NEW i \in DOMAIN log, log[i].diff # NoDiff, NEW p \in Paths,
           archives[log[i].diff][p] # NoHunk
    PROVE  Differs(i, p)
<1>0. DOMAIN log = 1 .. Len(log) /\ Len(log) \in Nat
    BY LenProperties DEF PatchInv, BookInv, IInv, TypeOK
<1>1. i \in 3 .. Len(log) /\ i \in 2 .. Len(log)
    BY <1>0 DEF PatchInv
<1>2. archives[log[i].diff] = PatchOf(Version(i), Version(i - 1))
    BY <1>1 DEF PatchInv, Told
<1>3. Recorded(Version(i)[p], Version(i - 1)[p])
    BY <1>2 DEF PatchOf
<1> QED
    BY <1>1, <1>3 DEF Differs, Recorded, Differ

(* An archive names the place of a path below the folder, or cuts a name.  *)
LEMMA RelativeIsPlace ==
    ASSUME NEW path \in Seq(Names), NEW folder \in Seq(Names),
           StartsWith(path, folder)
    PROVE  LET relative == FolderRelative(path, folder)
           IN  \/ Cut \in {relative[k] : k \in DOMAIN relative}
               \/ IsPrefix(folder \o relative, path)
<1> DEFINE relative == FolderRelative(path, folder)
<1>1. CASE folder = <<>>
    <2>1. relative = <<Cut>>
        BY <1>1 DEF FolderRelative
    <2> QED
        BY <2>1
<1>2. CASE folder # <<>>
    <2>1. /\ Len(path) >= Len(folder)
          /\ SubSeq(path, 1, Len(folder) - 1) = Front(folder)
        BY <1>2 DEF StartsWith
    <2>2. Len(folder) \in Nat /\ Len(path) \in Nat
        BY LenProperties
    <2>3. Rest(path, folder) \in Seq(Names)
        BY <2>1, <2>2, RestProperties
    <2>4. CASE path[Len(folder)] = Last(folder)
        <3>1. IsPrefix(folder, path)
            BY <1>2, <2>1, <2>4, PrefixByLast
        <3>2. folder \o Rest(path, folder) = path
            BY <3>1, FolderAndRest
        <3>3. relative = <<>> \o Rest(path, folder)
            BY <1>2, <2>4 DEF FolderRelative
        <3>4. relative = Rest(path, folder)
            BY <2>3, <3>3, ConcatEmptySeq
        <3>5. IsPrefix(path, path)
            BY PrefixByNames, <2>2
        <3> QED
            BY <3>2, <3>4, <3>5
    <2>5. CASE path[Len(folder)] # Last(folder)
        <3> DEFINE T == Names \cup {Cut}
                   cut == <<Cut>>
                   rest == Rest(path, folder)
        <3>1. rest \in Seq(T)
            BY <2>3, SeqMonotonic
        <3>2. cut \in Seq(T) /\ Len(cut) = 1 /\ cut[1] = Cut
            OBVIOUS
        <3>3. relative = cut \o rest
            BY <1>2, <2>5 DEF FolderRelative
        <3> HIDE DEF T, cut, rest
        <3>4. /\ cut \o rest \in Seq(T)
              /\ Len(cut \o rest) = Len(cut) + Len(rest)
              /\ \A k \in 1 .. Len(cut) + Len(rest) :
                    (cut \o rest)[k] = IF k <= Len(cut) THEN cut[k] ELSE rest[k - Len(cut)]
            BY <3>1, <3>2, ConcatProperties
        <3>5. Len(rest) \in Nat
            BY <3>1, LenProperties
        <3>6. DOMAIN (cut \o rest) = 1 .. Len(cut) + Len(rest)
            BY <3>4, LenProperties
        <3>7. 1 \in DOMAIN (cut \o rest) /\ (cut \o rest)[1] = Cut
            BY <3>2, <3>4, <3>5, <3>6
        <3> HIDE DEF relative
        <3>8. 1 \in DOMAIN relative /\ relative[1] = Cut
            BY <3>3, <3>7
        <3> QED
            BY <3>8 DEF relative
    <2> QED
        BY <2>4, <2>5
<1> QED
    BY <1>1, <1>2

LEMMA BelowIsPrefix ==
    ASSUME NEW s, NEW folder \in Seq(Names), NEW p \in Below(s, folder)
    PROVE  /\ p \in Paths /\ s[p] # Absent /\ Place(p) \in Seq(Names)
           /\ IsPrefix(folder, Place(p))
           /\ folder \o Rest(Place(p), folder) = Place(p)
<1>1. p \in Paths /\ s[p] # Absent /\ IsPrefix(folder, Place(p))
    BY DEF Below, IsStrictPrefix
<1>2. Place(p) \in Seq(Names)
    BY <1>1, PlaceTypes
<1>3. folder \o Rest(Place(p), folder) = Place(p)
    BY <1>1, <1>2, FolderAndRest
<1> QED
    BY <1>1, <1>2, <1>3

(* What is told of C and O, they differ in.                                *)
LEMMA PreviousIsTrue ==
    ASSUME PatchInv, NEW folder \in Seq(Names), NEW r \in PreviousDiffs(folder)
    PROVE  \E p \in Paths : /\ Differs(2, p)
                            /\ r.number = log[2].number
                            /\ IsPrefix(folder \o r.path, Place(p))
<1>0. Len(log) \in Nat
    BY LenProperties DEF PatchInv, BookInv, IInv, TypeOK
<1>1. /\ ~ (Len(log) < 2 \/ ~ FolderIn(O, folder))
      /\ Len(log) >= 2 /\ FolderIn(O, folder) /\ Version(2) = O /\ Version(2 - 1) = C
    <2>1. ~ (Len(log) < 2 \/ ~ FolderIn(O, folder))
        BY Zenon DEF PreviousDiffs
    <2>2. Len(log) >= 2
        BY <1>0, <2>1
    <2>3. Version(2 - 1) = C
        BY DEF Version
    <2> QED
        BY <2>1, <2>2, <2>3 DEF PatchInv
<1>2. \A p \in Paths : O[p] # C[p] => Differs(2, p)
    BY <1>0, <1>1 DEF Differs
<1>3. CASE ~ FolderIn(C, folder)
    <2>1. r = Report(log[2].number, <<>>, "folderDeleted")
        BY <1>1, <1>3, Zenon DEF PreviousDiffs
    <2>2. r.number = log[2].number /\ r.path = <<>>
        BY <2>1 DEF Report
    <2>3. PICK p \in Below(O, folder) : TRUE
        BY <1>1, <1>3 DEF FolderIn
    <2>4. p \in Paths /\ O[p] # Absent /\ IsPrefix(folder, Place(p))
        BY <2>3, BelowIsPrefix
    <2>5. C[p] = Absent
        BY <1>3, <2>3 DEF FolderIn, Below
    <2>6. folder \o <<>> = folder
        BY ConcatEmptySeq
    <2> QED
        BY <1>2, <2>2, <2>4, <2>5, <2>6
<1>4. CASE FolderIn(C, folder)
    <2>1. PICK p \in Below(O, folder) :
            /\ C[p] # O[p]
            /\ r = Report(log[2].number, Rest(Place(p), folder),
                          IF C[p] = Absent THEN "deleted" ELSE "modified")
        BY <1>1, <1>4, Zenon DEF PreviousDiffs
    <2>2. r.number = log[2].number /\ r.path = Rest(Place(p), folder)
        BY <2>1 DEF Report
    <2>3. p \in Paths /\ folder \o Rest(Place(p), folder) = Place(p)
        BY <2>1, BelowIsPrefix
    <2>4. Place(p) \in Seq(Names)
        BY <2>3, PlaceTypes
    <2>5. IsPrefix(Place(p), Place(p))
        BY <2>4, PrefixByNames, LenProperties
    <2> QED
        BY <1>2, <2>1, <2>2, <2>3, <2>5
<1> QED
    BY <1>3, <1>4

LEMMA PatchesAreTrue ==
    ASSUME PatchInv, NEW folder \in Seq(Names), NEW r \in PatchDiffs(folder)
    PROVE  \/ Cut \in {r.path[k] : k \in DOMAIN r.path}
           \/ \E i \in 2 .. Len(log), p \in Paths :
                 /\ Differs(i, p)
                 /\ r.number = log[i].number
                 /\ IsPrefix(folder \o r.path, Place(p))
<1>1. PICK i \in DOMAIN log : log[i].diff # NoDiff /\ r \in PatchDiffsOf(i, folder)
    BY DEF PatchDiffs
<1>2. PICK p \in Paths :
        /\ archives[log[i].diff][p] # NoHunk /\ StartsWith(Place(p), folder)
        /\ r = Report(log[i].number, FolderRelative(Place(p), folder), "inPatch")
    BY <1>1, Zenon DEF PatchDiffsOf
<1>3. r.number = log[i].number /\ r.path = FolderRelative(Place(p), folder)
    BY <1>2 DEF Report
<1>4. Differs(i, p)
    BY <1>1, <1>2, HunksAreTrue
<1>5. i \in 2 .. Len(log)
    BY <1>4 DEF Differs
<1>6. Place(p) \in Seq(Names)
    BY PlaceTypes
<1>7. \/ Cut \in {r.path[k] : k \in DOMAIN r.path}
      \/ IsPrefix(folder \o r.path, Place(p))
    BY <1>2, <1>3, <1>6, RelativeIsPlace
<1> QED
    BY <1>3, <1>4, <1>5, <1>7

(* No older difference of an answer is invented or ascribed to the wrong   *)
(* backup: for any runs that fail, binary and empty files included, if     *)
(* no copy of C over O stops half way and no archive replaces another      *)
(* (_compare_snapshots, _parse_patch_for_folder).                          *)
THEOREM OlderDiffsAreTrue ==
    ASSUME EachArchived
    PROVE  Spec => []HistoryTrue
<1>1. Init => PatchInv
    BY PatchInit
<1>2. PatchInv /\ [Next]_vars => PatchInv'
    BY PatchStep
<1>3. PatchInv => HistoryTrue
    <2> SUFFICES ASSUME PatchInv, NEW request \in Requests,
                        NEW r \in OlderDiffs(request.folder)
                 PROVE  \/ Cut \in {r.path[k] : k \in DOMAIN r.path}
                        \/ \E i \in 2 .. Len(log) :
                              /\ log[i].number = r.number
                              /\ \E p \in Paths :
                                    /\ Version(i)[p] # Version(i - 1)[p]
                                    /\ IsPrefix(request.folder \o r.path, Place(p))
        BY DEF HistoryTrue
    <2>1. request.folder \in Seq(Names)
        BY RequestTypes
    <2>2. \/ Cut \in {r.path[k] : k \in DOMAIN r.path}
          \/ \E i \in 2 .. Len(log), p \in Paths :
                /\ Differs(i, p)
                /\ r.number = log[i].number
                /\ IsPrefix(request.folder \o r.path, Place(p))
        <3>1. CASE r \in PreviousDiffs(request.folder)
            <4>1. PICK p \in Paths :
                    /\ Differs(2, p)
                    /\ r.number = log[2].number
                    /\ IsPrefix(request.folder \o r.path, Place(p))
                BY <2>1, <3>1, PreviousIsTrue
            <4>2. 2 \in 2 .. Len(log)
                BY <4>1 DEF Differs
            <4> QED
                BY <4>1, <4>2
        <3>2. CASE r \in PatchDiffs(request.folder)
            BY <2>1, <3>2, PatchesAreTrue
        <3> QED
            BY <3>1, <3>2 DEF OlderDiffs
    <2> QED
        BY <2>2 DEF Differs
<1> QED
    BY <1>1, <1>2, <1>3, PTL DEF Spec

-----------------------------------------------------------------------------
(* Where the files of a source are                                         *)

LEMMA StrictByLength ==
    ASSUME NEW S, NEW s \in Seq(S), NEW t \in Seq(S)
    PROVE  IsStrictPrefix(s, t) <=> IsPrefix(s, t) /\ Len(s) < Len(t)
<1>0. Len(s) \in Nat /\ Len(t) \in Nat
    BY LenProperties
<1>1. IsPrefix(s, t) => Len(s) <= Len(t) /\ \A k \in 1 .. Len(s) : s[k] = t[k]
    BY PrefixByNames
<1>2. IsPrefix(s, t) /\ Len(s) = Len(t) => s = t
    BY <1>1, SeqEqual
<1>3. s = t => ~ Len(s) < Len(t)
    BY <1>0
<1> QED
    BY <1>0, <1>1, <1>2, <1>3 DEF IsStrictPrefix

(* A file of a source given with a slash is below a folder of C exactly    *)
(* when it is below that folder of the source, and at the same rest.       *)
LEMMA SlashedPlace ==
    ASSUME NEW request \in Requests, request.source \in Slashed,
           NEW p \in FilesOf(request.source)
    PROVE  /\ IsStrictPrefix(Home(request), p)
                <=> IsStrictPrefix(request.folder, Place(p))
           /\ IsStrictPrefix(Home(request), p) =>
                Rest(p, Home(request)) = Rest(Place(p), request.folder)
<1> DEFINE home == Home(request)
           folder == request.folder
           tail == Tail(p)
<1>0. /\ folder \in Seq(Names) /\ home \in Seq(Names)
      /\ Len(home) = Len(folder) + 1 /\ home[1] = request.source
      /\ \A k \in 1 .. Len(folder) : home[k + 1] = folder[k]
    BY RequestTypes
<1>1. p \in Seq(Names) /\ Len(p) \in Nat /\ Len(p) > 1 /\ p # <<>> /\ p[1] = request.source
    BY FilesAreNames DEF FilesOf
<1>2. Place(p) = tail
    BY ContentAssumption DEF Place, FilesOf
<1>3. /\ tail \in Seq(Names) /\ Len(tail) = Len(p) - 1
      /\ \A k \in 1 .. Len(tail) : tail[k] = p[k + 1]
    BY <1>1, HeadTailProperties
<1>4. Len(folder) \in Nat
    BY <1>0, LenProperties
<1> HIDE DEF home, folder, tail
<1>4a. home \in Seq(Names) /\ folder \in Seq(Names) /\ tail \in Seq(Names) /\ p \in Seq(Names)
    BY <1>0, <1>1, <1>3
<1>5. IsPrefix(home, p) <=> Len(home) <= Len(p) /\ \A k \in 1 .. Len(home) : home[k] = p[k]
    BY <1>4a, PrefixByNames
<1>6. IsPrefix(folder, tail)
        <=> Len(folder) <= Len(tail) /\ \A k \in 1 .. Len(folder) : folder[k] = tail[k]
    BY <1>4a, PrefixByNames
<1>7. ASSUME Len(folder) <= Len(tail)
      PROVE  (\A k \in 1 .. Len(home) : home[k] = p[k])
               <=> (\A k \in 1 .. Len(folder) : folder[k] = tail[k])
    <2>1. \A k \in 1 .. Len(folder) : home[k + 1] = folder[k] /\ tail[k] = p[k + 1]
        BY <1>0, <1>3, <1>4, <1>7, <1>1
    <2>2. ASSUME \A k \in 1 .. Len(home) : home[k] = p[k], NEW k \in 1 .. Len(folder)
          PROVE  folder[k] = tail[k]
        <3>1. k + 1 \in 1 .. Len(home)
            BY <1>0, <1>4
        <3> QED
            BY <2>1, <2>2, <3>1
    <2>3. ASSUME \A k \in 1 .. Len(folder) : folder[k] = tail[k], NEW k \in 1 .. Len(home)
          PROVE  home[k] = p[k]
        <3>1. CASE k = 1
            BY <1>0, <1>1, <3>1
        <3>2. CASE k # 1
            <4>1. k - 1 \in 1 .. Len(folder) /\ (k - 1) + 1 = k
                BY <1>0, <1>4, <3>2
            <4>2. home[(k - 1) + 1] = folder[k - 1] /\ tail[k - 1] = p[(k - 1) + 1]
                BY <2>1, <4>1
            <4> QED
                BY <2>3, <4>1, <4>2
        <3> QED
            BY <3>1, <3>2
    <2> QED
        BY <2>2, <2>3
<1>8. Len(home) <= Len(p) <=> Len(folder) <= Len(tail)
    BY <1>0, <1>1, <1>3, <1>4
<1>9. IsPrefix(home, p) <=> IsPrefix(folder, tail)
    BY <1>5, <1>6, <1>7, <1>8
<1>10. IsStrictPrefix(home, p) <=> IsStrictPrefix(folder, tail)
    <2>1. IsStrictPrefix(home, p) <=> IsPrefix(home, p) /\ Len(home) < Len(p)
        BY <1>0, <1>1, StrictByLength
    <2>2. IsStrictPrefix(folder, tail) <=> IsPrefix(folder, tail) /\ Len(folder) < Len(tail)
        BY <1>0, <1>3, StrictByLength
    <2> QED
        BY <1>0, <1>1, <1>3, <1>4, <1>9, <2>1, <2>2
<1>11. ASSUME Len(home) <= Len(p) PROVE Rest(p, home) = Rest(tail, folder)
    <2> DEFINE a == Rest(p, home)
               b == Rest(tail, folder)
    <2>1. /\ a \in Seq(Names) /\ Len(a) = Len(p) - Len(home)
          /\ \A k \in 1 .. Len(p) - Len(home) : a[k] = p[Len(home) + k]
        BY <1>4a, <1>11, RestProperties, Zenon
    <2>1a. Len(folder) <= Len(tail)
        BY <1>8, <1>11
    <2>2. /\ b \in Seq(Names) /\ Len(b) = Len(tail) - Len(folder)
          /\ \A k \in 1 .. Len(tail) - Len(folder) : b[k] = tail[Len(folder) + k]
        BY <1>4a, <2>1a, RestProperties, Zenon
    <2> HIDE DEF a, b
    <2>3. Len(a) = Len(b)
        BY <1>0, <1>1, <1>3, <1>4, <2>1, <2>2
    <2>4. ASSUME NEW k \in 1 .. Len(a) PROVE a[k] = b[k]
        <3>1. /\ k \in 1 .. Len(p) - Len(home) /\ k \in 1 .. Len(tail) - Len(folder)
              /\ Len(folder) + k \in 1 .. Len(tail)
              /\ Len(home) + k = (Len(folder) + k) + 1
            BY <1>0, <1>1, <1>3, <1>4, <1>11, <2>1
        <3> QED
            BY <1>3, <2>1, <2>2, <3>1
    <2>5. a = b
        BY <2>1, <2>2, <2>3, <2>4, SeqEqual
    <2> QED
        BY <2>5 DEF a, b
<1>12. IsStrictPrefix(home, p) => Len(home) <= Len(p)
    BY <1>5 DEF IsStrictPrefix
<1> QED
    BY <1>2, <1>10, <1>11, <1>12 DEF home, folder

(* A file of a source given without a slash is at its own path.            *)
LEMMA UnslashedPlace ==
    ASSUME NEW source, source \notin Slashed, NEW p \in FilesOf(source)
    PROVE  Place(p) = p
BY ContentAssumption DEF Place, FilesOf

-----------------------------------------------------------------------------
(* Nothing is missing among the older differences                          *)

(* A difference between C and O is told by the comparison of C and O.      *)
LEMMA PreviousIsComplete ==
    ASSUME PatchInv, NEW folder \in Seq(Names), NEW p \in Paths,
           IsStrictPrefix(folder, Place(p)), Len(log) >= 2,
           O[p] # Absent, O[p] # C[p]
    PROVE  \E r \in PreviousDiffs(folder) :
              /\ r.number = log[2].number
              /\ r.path \in {<<>>, Rest(Place(p), folder)}
<1>0. p \in Below(O, folder) /\ FolderIn(O, folder)
    BY DEF Below, FolderIn
<1>1. ~ (Len(log) < 2 \/ ~ FolderIn(O, folder))
    BY <1>0, LenProperties DEF PatchInv, BookInv, IInv, TypeOK
<1>2. CASE ~ FolderIn(C, folder)
    <2> DEFINE r == Report(log[2].number, <<>>, "folderDeleted")
    <2>1. r \in PreviousDiffs(folder)
        BY <1>1, <1>2, Zenon DEF PreviousDiffs
    <2>2. r.number = log[2].number /\ r.path = <<>>
        BY DEF Report
    <2> QED
        BY <2>1, <2>2
<1>3. CASE FolderIn(C, folder)
    <2> DEFINE r == Report(log[2].number, Rest(Place(p), folder),
                           IF C[p] = Absent THEN "deleted" ELSE "modified")
    <2>1. p \in {q \in Below(O, folder) : C[q] # O[q]}
        BY <1>0
    <2>2. r \in PreviousDiffs(folder)
        BY <1>1, <1>3, <2>1, Zenon DEF PreviousDiffs
    <2>3. r.number = log[2].number /\ r.path = Rest(Place(p), folder)
        BY DEF Report
    <2> QED
        BY <2>2, <2>3
<1> QED
    BY <1>2, <1>3

(* What a text file was before it changed is in an archive of its entry.   *)
LEMMA ChangesHaveHunks ==
    ASSUME TextOnly, PatchInv, NEW i \in 3 .. Len(log), NEW p \in Paths,
           ChangedSince(i, p)
    PROVE  log[i].diff # NoDiff /\ archives[log[i].diff][p] # NoHunk
<1>0. /\ Len(log) \in Nat /\ held \in Seq(Snapshot) /\ Len(held) = Len(log) - 1
      /\ IInv /\ i \in 2 .. Len(log)
    BY LenProperties DEF PatchInv, BookInv, IInv, TypeOK
<1>1. Version(i) \in Snapshot
    <2>1. Version(i) = held[Len(log) - i + 1] /\ Len(log) - i + 1 \in 1 .. Len(held)
        BY <1>0, VersionIs
    <2> QED
        BY <1>0, <2>1, ElementOfSeq
<1>2. Told(log[i].diff, archives, Version(i), Version(i - 1))
    BY DEF PatchInv
<1>3. /\ Version(i)[p] # Absent /\ Version(i)[p] # Version(i - 1)[p]
      /\ Version(i)[p] # NoHunk
    BY <1>1, ContentAssumption DEF ChangedSince, Snapshot
<1>4. Recorded(Version(i)[p], Version(i - 1)[p])
    BY <1>3 DEF Recorded, Differ, TextOnly
<1>5. HasContent(Version(i)) /\ ~ SameToDiff(Version(i), Version(i - 1))
    BY <1>3, <1>4 DEF HasContent, SameToDiff, Recorded
<1>6. archives[log[i].diff] = PatchOf(Version(i), Version(i - 1)) /\ log[i].diff # NoDiff
    BY <1>2, <1>5 DEF Told
<1> QED
    BY <1>3, <1>4, <1>6 DEF PatchOf

LEMMA PatchesAreComplete ==
    ASSUME TextOnly, PatchInv, NEW i \in 3 .. Len(log), NEW p \in Paths,
           ChangedSince(i, p), NEW folder \in Seq(Names), folder # <<>>,
           IsStrictPrefix(folder, Place(p))
    PROVE  \E r \in PatchDiffs(folder) :
              /\ r.number = log[i].number
              /\ r.path = Rest(Place(p), folder)
<1>0. i \in DOMAIN log /\ Place(p) \in Seq(Names)
    BY PlaceTypes, LenProperties DEF PatchInv, BookInv, IInv, TypeOK
<1>1. log[i].diff # NoDiff /\ archives[log[i].diff][p] # NoHunk
    BY ChangesHaveHunks
<1>2. /\ IsPrefix(folder, Place(p)) /\ Len(folder) <= Len(Place(p))
      /\ Len(folder) \in Nat /\ Len(Place(p)) \in Nat
    BY <1>0, PrefixByNames, LenProperties DEF IsStrictPrefix
<1>3. /\ SubSeq(Place(p), 1, Len(folder) - 1) = Front(folder)
      /\ Place(p)[Len(folder)] = Last(folder) /\ Len(Place(p)) >= Len(folder)
    <2>1. Len(Place(p)) >= Len(folder)
        BY <1>2
    <2> QED
        BY <1>0, <1>2, <2>1, PrefixByLast
<1>4. StartsWith(Place(p), folder)
    BY <1>3 DEF StartsWith, SameOrIn
<1>5. FolderRelative(Place(p), folder) = Rest(Place(p), folder)
    <2>1. Rest(Place(p), folder) \in Seq(Names)
        BY <1>0, <1>2, RestProperties
    <2>2. FolderRelative(Place(p), folder) = <<>> \o Rest(Place(p), folder)
        BY <1>3 DEF FolderRelative
    <2> QED
        BY <2>1, <2>2, ConcatEmptySeq
<1> DEFINE r == Report(log[i].number, FolderRelative(Place(p), folder), "inPatch")
<1>6. r \in PatchDiffsOf(i, folder)
    BY <1>1, <1>4, Zenon DEF PatchDiffsOf
<1>7. r \in PatchDiffs(folder)
    BY <1>0, <1>1, <1>6 DEF PatchDiffs
<1>8. r.number = log[i].number /\ r.path = Rest(Place(p), folder)
    BY <1>5 DEF Report
<1> QED
    BY <1>7, <1>8

(* For a folder of a source given with a slash no file that a backup had   *)
(* and the next had not, or had otherwise, is missing in the answer: for   *)
(* trees of text files, and runs that fail, are rejected or given up       *)
(* (_compare_snapshots, _parse_patch_for_folder).                          *)
THEOREM OlderDiffsAreComplete ==
    ASSUME EachArchived, TextOnly
    PROVE  Spec => []HistoryComplete
<1>1. Init => PatchInv
    BY PatchInit
<1>2. PatchInv /\ [Next]_vars => PatchInv'
    BY PatchStep
<1>3. PatchInv => HistoryComplete
    <2> SUFFICES ASSUME PatchInv, NEW request \in Requests,
                        request.source \in Slashed, request.folder # <<>>,
                        NEW p \in FilesOf(request.source), NEW i \in 2 .. Len(log),
                        IsStrictPrefix(Home(request), p), ChangedSince(i, p)
                 PROVE  Answered(request, i, p)
        BY DEF HistoryComplete
    <2> DEFINE folder == request.folder
    <2>1. folder \in Seq(Names) /\ p \in Paths
        BY RequestTypes DEF FilesOf, Paths
    <2>2. /\ IsStrictPrefix(folder, Place(p))
          /\ Rest(p, Home(request)) = Rest(Place(p), folder)
        BY SlashedPlace
    <2>3. Len(log) \in Nat
        BY LenProperties DEF PatchInv, BookInv, IInv, TypeOK
    <2>4. \E r \in OlderDiffs(folder) :
            r.number = log[i].number /\ r.path \in {<<>>, Rest(Place(p), folder)}
        <3>1. CASE i = 2
            <4>1. Len(log) >= 2 /\ O[p] # Absent /\ O[p] # C[p]
                <5>1. Len(log) >= 2 /\ Version(2 - 1) = C /\ Version(2) = O
                    BY <2>3, <3>1 DEF PatchInv, Version
                <5> QED
                    BY <3>1, <5>1 DEF ChangedSince
            <4> HIDE DEF folder
            <4> QED
                BY <2>1, <2>2, <3>1, <4>1, PreviousIsComplete DEF OlderDiffs
        <3>2. CASE i # 2
            <4>1. i \in 3 .. Len(log) /\ folder # <<>>
                BY <2>3, <3>2
            <4> HIDE DEF folder
            <4> QED
                BY <2>1, <2>2, <4>1, PatchesAreComplete DEF OlderDiffs
        <3> QED
            BY <3>1, <3>2
    <2> QED
        BY <2>2, <2>4 DEF Answered
<1> QED
    BY <1>1, <1>2, <1>3, PTL DEF Spec

-----------------------------------------------------------------------------
(* The newest backup                                                       *)

(* What C has of the client's files is content that came from a client,    *)
(* and the newest entry never has an archive.                              *)
CurrentInv ==
    /\ IInv
    /\ log # <<>> => log[1].diff = NoDiff
    /\ \A p \in Files : C[p] \in Content \cup {Absent}
    /\ \A c \in Clients, p \in Files : run[c].source[p] \in Content \cup {Absent}

LEMMA SourcesAreContent ==
    ASSUME IInv, NEW c \in Clients, Start(c),
           \A d \in Clients, p \in Files : run[d].source[p] \in Content \cup {Absent}
    PROVE  \A d \in Clients, p \in Files : run'[d].source[p] \in Content \cup {Absent}
<1>1. \A tree \in Tree, p \in Files : Source(tree)[p] \in Content \cup {Absent}
    BY ContentAssumption DEF Source, Tree, Mirrored
<1>2. run \in [Clients -> Run]
    BY DEF IInv, TypeOK
<1>3. CASE run' = run
    BY <1>3
<1>4. ASSUME NEW tree \in Tree, NEW todo,
             run' = [run EXCEPT ![c] = [id |-> starts + 1, source |-> Source(tree),
                                        todo |-> todo]]
      PROVE  \A d \in Clients, p \in Files : run'[d].source[p] \in Content \cup {Absent}
    <2> SUFFICES ASSUME NEW d \in Clients, NEW p \in Files
                 PROVE  run'[d].source[p] \in Content \cup {Absent}
        OBVIOUS
    <2>1. CASE d = c
        BY <1>1, <1>2, <1>4, <2>1
    <2>2. CASE d # c
        BY <1>2, <1>4, <2>2
    <2> QED
        BY <2>1, <2>2
<1> QED
    BY <1>3, <1>4 DEF Start

LEMMA CurrentOpen ==
    ASSUME CurrentInv, IInv', NEW entries \in Seq(Entry), Numbered(entries),
           Open(entries), NEW c \in Clients, Start(c)
    PROVE  CurrentInv'
<1>1. \A p \in Files : C'[p] = C[p]
    BY OpenedLog DEF CurrentInv
<1>2. log'[1].diff = NoDiff
    <2>1. starts + 1 \in Nat \ {0} /\ log' = NewEntry(entries, starts + 1)
        BY DEF CurrentInv, IInv, TypeOK, Open
    <2>2. log'[1] = [number |-> Len(entries) + 1, started |-> starts + 1,
                     finished |-> Never, location |-> "C", diff |-> NoDiff]
        BY <2>1, NewEntryProperties, Zenon
    <2> QED
        BY <2>2
<1>3. \A d \in Clients, p \in Files : run'[d].source[p] \in Content \cup {Absent}
    BY SourcesAreContent DEF CurrentInv
<1> QED
    BY <1>1, <1>2, <1>3 DEF CurrentInv

LEMMA CurrentStep == CurrentInv /\ [Next]_vars => CurrentInv'
<1> SUFFICES ASSUME CurrentInv, [Next]_vars PROVE CurrentInv'
    OBVIOUS
<1>0. /\ IInv /\ IInv' /\ log \in Seq(Entry) /\ Numbered(log)
      /\ run \in [Clients -> Run] /\ C \in Snapshot
    BY TypeStep DEF CurrentInv, IInv, TypeOK
<1>1. ASSUME NEW c \in Clients, PrepareFirst(c) \/ PrepareNoO(c) PROVE CurrentInv'
    BY <1>0, <1>1, CurrentOpen DEF PrepareFirst, PrepareNoO
<1>2. ASSUME NEW c \in Clients, PrepareRotate(c) PROVE CurrentInv'
    <2>1. CreateDiff /\ Open(LogAfterDiff) /\ Start(c)
        BY <1>2 DEF PrepareRotate
    <2> QED
        BY <1>0, <2>1, LogAfterDiffKeeps, CurrentOpen
<1>3. ASSUME NEW c \in Clients, RejectMkdir(c) \/ RejectDiff(c) PROVE CurrentInv'
    BY <1>0, <1>3 DEF RejectMkdir, RejectDiff, CurrentInv
<1>4. ASSUME NEW c \in Clients, RejectSync(c) PROVE CurrentInv'
    <2>1. CreateDiff /\ log' = LogAfterDiff /\ UNCHANGED <<C, run>>
        BY <1>4 DEF RejectSync
    <2>2. Len(log') = Len(log) /\ \A i \in DOMAIN log : i # 2 => log'[i] = log[i]
        BY <1>0, <2>1, LogAfterDiffKeeps
    <2>3. Len(log) \in Nat /\ DOMAIN log = 1 .. Len(log) /\ log' \in Seq(Entry)
        BY <1>0, LenProperties DEF IInv, TypeOK
    <2>4. log' # <<>> => log # <<>> /\ 1 \in DOMAIN log
        BY <1>0, <2>2, <2>3, EmptySeq
    <2>5. log' # <<>> => log'[1].diff = NoDiff
        BY <2>2, <2>4 DEF CurrentInv
    <2> QED
        BY <1>0, <2>1, <2>5 DEF CurrentInv
<1>5. ASSUME NEW c \in Clients, Transfer(c) PROVE CurrentInv'
    <2>1. PICK q \in run[c].todo :
            /\ C' = [C EXCEPT ![q] = run[c].source[q]]
            /\ run' = [run EXCEPT ![c].todo = @ \ {q}]
        BY <1>5 DEF Transfer
    <2>2. \A p \in Files : C'[p] \in Content \cup {Absent}
        BY <1>0, <2>1 DEF CurrentInv, Snapshot, Paths
    <2>3. \A d \in Clients : run'[d].source = run[d].source
        BY <1>0, <2>1 DEF Run
    <2> QED
        BY <1>0, <1>5, <2>2, <2>3 DEF Transfer, CurrentInv
<1>6. ASSUME NEW c \in Clients, run' = [run EXCEPT ![c] = NoRun]
      PROVE  \A d \in Clients, p \in Files : run'[d].source[p] \in Content \cup {Absent}
    BY <1>0, <1>6 DEF NoRun, Mirrored, CurrentInv
<1>7. ASSUME NEW c \in Clients, Fail(c) PROVE CurrentInv'
    BY <1>0, <1>6, <1>7 DEF Fail, CurrentInv
<1>8. ASSUME NEW c \in Clients, Complete(c) PROVE CurrentInv'
    <2>1. run[c].id \in Nat
        BY <1>0 DEF Run
    <2>2. /\ Len(log') = Len(log) /\ log' \in Seq(Entry)
          /\ \A i \in DOMAIN log : log'[i].diff = log[i].diff
        BY <1>0, <1>8, <2>1, FinalizeProperties DEF Complete
    <2>3. Len(log) \in Nat /\ DOMAIN log = 1 .. Len(log)
        BY <1>0, LenProperties
    <2>4. log' # <<>> => log # <<>> /\ 1 \in DOMAIN log
        BY <1>0, <2>2, <2>3, EmptySeq
    <2>5. log' # <<>> => log'[1].diff = NoDiff
        BY <2>2, <2>4 DEF CurrentInv
    <2>6. \A p \in Files : C'[p] = C[p]
        BY <1>0, <1>8, ContentAssumption DEF Complete, Snapshot, Paths
    <2> QED
        BY <1>0, <1>6, <1>8, <2>5, <2>6 DEF Complete, CurrentInv
<1>9. CASE UNCHANGED vars
    BY <1>0, <1>9 DEF vars, CurrentInv
<1> QED
    BY <1>1, <1>2, <1>3, <1>4, <1>5, <1>7, <1>8, <1>9 DEF Next, Prepare

LEMMA CurrentInit == Init => CurrentInv
<1> SUFFICES ASSUME Init PROVE CurrentInv
    OBVIOUS
<1>1. IInv
    BY TypeInit
<1> QED
    BY <1>1 DEF Init, CurrentInv, Empty, Paths, NoRun, Mirrored

(* No two paths of the trees are at one place of a snapshot, and no place  *)
(* is below a folder with the name of a source given with a slash: else a  *)
(* file of C is taken for one of the source.                               *)
Distinct == \A p, q \in Paths : Place(p) = Place(q) => p = q
Unmistaken ==
    \A request \in Requests, p \in Paths :
        request.source \in Slashed => ~ IsStrictPrefix(Home(request), Place(p))

(* The folder of the snapshots a request is about, and the source's files  *)
(* below it.                                                               *)
There(request) ==
    IF request.source \in Slashed THEN request.folder ELSE Home(request)
Own(request) == {p \in FilesOf(request.source) : IsStrictPrefix(Home(request), p)}

LEMMA OwnPlaces ==
    ASSUME NEW request \in Requests, NEW p \in Own(request)
    PROVE  /\ p \in Files /\ p \in Paths /\ There(request) \in Seq(Names)
           /\ IsStrictPrefix(There(request), Place(p))
           /\ Rest(p, Home(request)) = Rest(Place(p), There(request))
           /\ There(request) \o Rest(p, Home(request)) = Place(p)
<1>1. /\ p \in FilesOf(request.source) /\ IsStrictPrefix(Home(request), p)
      /\ p \in Files /\ p \in Paths
    BY DEF Own, FilesOf, Paths
<1>2. There(request) \in Seq(Names) /\ Place(p) \in Seq(Names)
    BY <1>1, RequestTypes, PlaceTypes DEF There
<1>3. /\ IsStrictPrefix(There(request), Place(p))
      /\ Rest(p, Home(request)) = Rest(Place(p), There(request))
    <2>1. CASE request.source \in Slashed
        BY <1>1, <2>1, SlashedPlace DEF There
    <2>2. CASE request.source \notin Slashed
        BY <1>1, <2>2, UnslashedPlace DEF There
    <2> QED
        BY <2>1, <2>2
<1>4. There(request) \o Rest(Place(p), There(request)) = Place(p)
    BY <1>2, <1>3, FolderAndRest DEF IsStrictPrefix
<1> QED
    BY <1>1, <1>2, <1>3, <1>4

(* The daemon finds the folder the request is about.                       *)
LEMMA LocatedIsThere ==
    ASSUME Unmistaken, NEW request \in Requests, FolderIn(C, There(request)),
           NEW at \in Located(request)
    PROVE  at = There(request)
<1>1. CASE request.source \notin Slashed
    BY <1>1 DEF Located, There
<1>2. CASE request.source \in Slashed
    <2>1. Home(request) # <<>>
        BY RequestTypes, EmptySeq, LenProperties
    <2>2. Below(C, Home(request)) = {}
        BY <1>2 DEF Unmistaken, Below
    <2>3. ~ FolderIn(C, Home(request))
        BY <2>1, <2>2 DEF FolderIn
    <2>4. FolderIn(C, request.folder) /\ There(request) = request.folder
        BY <1>2 DEF There
    <2> QED
        BY <2>3, <2>4 DEF Located
<1> QED
    BY <1>1, <1>2

(* Sizes, times and hashes tell any two contents apart.                    *)
LEMMA ChangedTells ==
    ASSUME NEW new \in Content, NEW old \in Content, NEW touched \in BOOLEAN
    PROVE  Changed(new, old, touched) <=> new # old \/ touched
<1>1. Size[new] = 0 /\ Size[old] = 0 => new = old
    BY FilesAssumption, ContentAssumption
<1> QED
    BY <1>1 DEF Changed

(* What the comparison with C takes for the saved copy of a file.          *)
SavedAs(request, at, p) ==
    {q \in Below(C, at) : Place(q) = at \o Rest(p, Home(request))}

LEMMA SavedIsOwn ==
    ASSUME Distinct, NEW request \in Requests, NEW p \in Own(request), NEW q
    PROVE  q \in SavedAs(request, There(request), p) <=> q = p /\ C[p] # Absent
<1>1. /\ p \in Paths /\ IsStrictPrefix(There(request), Place(p))
      /\ There(request) \o Rest(p, Home(request)) = Place(p)
    BY OwnPlaces
<1>2. ASSUME q \in SavedAs(request, There(request), p)
      PROVE  q = p /\ C[p] # Absent
    <2>1. q \in Paths /\ C[q] # Absent /\ Place(q) = Place(p)
        BY <1>1, <1>2 DEF SavedAs, Below
    <2> QED
        BY <1>1, <2>1 DEF Distinct
<1>3. ASSUME q = p, C[p] # Absent
      PROVE  q \in SavedAs(request, There(request), p)
    BY <1>1, <1>3 DEF SavedAs, Below
<1> QED
    BY <1>2, <1>3

(* What a report of the comparison with C says.                            *)
SaysNew(r, request, local, at) ==
    \E p \in Listed(request, local) :
        /\ SavedAs(request, at, p) = {}
        /\ r = Report(log[1].number, Rest(p, Home(request)), "new")
SaysModified(r, request, local, touched, at) ==
    \E p \in Listed(request, local) :
        /\ \E s \in SavedAs(request, at, p) : Changed(local[p], C[s], p \in touched)
        /\ r = Report(log[1].number, Rest(p, Home(request)), "modified")
SaysDeleted(r, request, local, at) ==
    \E q \in Below(C, at) :
        /\ \A p \in Listed(request, local) : q \notin SavedAs(request, at, p)
        /\ r = Report(log[1].number, Rest(Place(q), at), "deleted")

LEMMA CurrentSays ==
    ASSUME NEW request, NEW local, NEW touched, NEW at, NEW r
    PROVE  r \in CurrentDiffs(request, local, touched, at)
             <=> \/ SaysNew(r, request, local, at)
                 \/ SaysModified(r, request, local, touched, at)
                 \/ SaysDeleted(r, request, local, at)
BY Zenon DEF CurrentDiffs, SavedAs, SaysNew, SaysModified, SaysDeleted

(* Only the comparison with C speaks of the newest backup.                 *)
LEMMA OlderIsNotNewest ==
    ASSUME CurrentInv, log # <<>>, NEW folder, NEW r \in OlderDiffs(folder)
    PROVE  r.number # log[1].number
<1>0. Len(log) \in Nat /\ DOMAIN log = 1 .. Len(log)
    BY LenProperties DEF CurrentInv, IInv, TypeOK
<1>1. \A i \in 1 .. Len(log) : i # 1 => log[i].number # log[1].number
    BY <1>0 DEF CurrentInv, IInv, Numbered
<1>2. CASE r \in PreviousDiffs(folder)
    <2>1. Len(log) >= 2 /\ r.number = log[2].number
        BY <1>0, <1>2 DEF PreviousDiffs, Report
    <2> QED
        BY <1>0, <1>1, <2>1
<1>3. CASE r \in PatchDiffs(folder)
    <2>1. PICK i \in DOMAIN log : log[i].diff # NoDiff /\ r \in PatchDiffsOf(i, folder)
        BY <1>3 DEF PatchDiffs
    <2>2. r.number = log[i].number
        BY <2>1 DEF PatchDiffsOf, Report
    <2>3. i # 1
        BY <2>1 DEF CurrentInv
    <2> QED
        BY <1>0, <1>1, <2>2, <2>3
<1> QED
    BY <1>2, <1>3 DEF OlderDiffs

(* What has happened to a file since C was written.                        *)
IsNew(local, p)  == local[p] # Absent /\ C[p] = Absent
IsGone(local, p) == local[p] = Absent /\ C[p] # Absent
IsOther(local, touched, p) ==
    /\ local[p] # Absent /\ C[p] # Absent
    /\ local[p] # C[p] \/ p \in touched

Verdict(request, local, p) ==
    Report(log[1].number, Rest(p, Home(request)),
           IF IsNew(local, p) THEN "new" ELSE IF IsGone(local, p) THEN "deleted"
           ELSE "modified")

(* Every change of a file of the source is told...                         *)
LEMMA VerdictsAreTold ==
    ASSUME CurrentInv, Distinct, log # <<>>, NEW request \in Requests,
           NEW local \in [FilesOf(request.source) -> Content \cup {Absent}],
           NEW touched, NEW p \in Own(request),
           IsNew(local, p) \/ IsGone(local, p) \/ IsOther(local, touched, p)
    PROVE  Verdict(request, local, p)
             \in CurrentDiffs(request, local, touched, There(request))
<1> DEFINE there == There(request)
           v == Verdict(request, local, p)
<1>1. /\ p \in Files /\ p \in Paths /\ IsStrictPrefix(there, Place(p))
      /\ Rest(p, Home(request)) = Rest(Place(p), there)
      /\ p \in FilesOf(request.source) /\ IsStrictPrefix(Home(request), p)
    BY OwnPlaces DEF Own
<1>2. local[p] # Absent => p \in Listed(request, local)
    BY <1>1 DEF Listed
<1>3. \A q : q \in SavedAs(request, there, p) <=> q = p /\ C[p] # Absent
    BY SavedIsOwn
<1>4. CASE IsNew(local, p)
    <2>1. v = Report(log[1].number, Rest(p, Home(request)), "new")
        BY <1>4 DEF Verdict
    <2>2. SavedAs(request, there, p) = {} /\ p \in Listed(request, local)
        BY <1>2, <1>3, <1>4 DEF IsNew
    <2>3. SaysNew(v, request, local, there)
        BY <2>1, <2>2 DEF SaysNew
    <2> QED
        BY <2>3, CurrentSays
<1>5. CASE IsGone(local, p)
    <2>1. v = Report(log[1].number, Rest(Place(p), there), "deleted")
        BY <1>1, <1>5 DEF Verdict, IsNew, IsGone
    <2>2. p \in Below(C, there)
        BY <1>1, <1>5 DEF Below, IsGone
    <2>3. ASSUME NEW q \in Listed(request, local)
          PROVE  p \notin SavedAs(request, there, q)
        <3>1. q \in Own(request) /\ local[q] # Absent
            BY DEF Listed, Own
        <3>2. p \in SavedAs(request, there, q) => p = q
            BY <3>1, SavedIsOwn
        <3> QED
            BY <1>5, <3>1, <3>2 DEF IsGone
    <2>4. SaysDeleted(v, request, local, there)
        BY <2>1, <2>2, <2>3 DEF SaysDeleted
    <2> QED
        BY <2>4, CurrentSays
<1>6. CASE IsOther(local, touched, p)
    <2>1. v = Report(log[1].number, Rest(p, Home(request)), "modified")
        BY <1>6 DEF Verdict, IsNew, IsGone, IsOther
    <2>2. p \in SavedAs(request, there, p) /\ p \in Listed(request, local)
        BY <1>2, <1>3, <1>6 DEF IsOther
    <2>3. local[p] \in Content /\ C[p] \in Content /\ (p \in touched) \in BOOLEAN
        BY <1>1, <1>6 DEF IsOther, CurrentInv
    <2>4. Changed(local[p], C[p], p \in touched)
        BY <1>6, <2>3, ChangedTells DEF IsOther
    <2>5. SaysModified(v, request, local, touched, there)
        BY <2>1, <2>2, <2>4 DEF SaysModified
    <2> QED
        BY <2>5, CurrentSays
<1> QED
    BY <1>4, <1>5, <1>6

(* ... and nothing else is told of them.                                   *)
LEMMA ToldAreVerdicts ==
    ASSUME CurrentInv, Distinct, log # <<>>, NEW request \in Requests,
           NEW local \in [FilesOf(request.source) -> Content \cup {Absent}],
           NEW touched, NEW own \in Own(request),
           NEW r \in CurrentDiffs(request, local, touched, There(request)),
           r.path = Rest(own, Home(request))
    PROVE  \E p \in Own(request) :
              /\ IsNew(local, p) \/ IsGone(local, p) \/ IsOther(local, touched, p)
              /\ r = Verdict(request, local, p)
<1> DEFINE there == There(request)
<1>1. \A p \in Listed(request, local) : p \in Own(request) /\ local[p] # Absent
    BY DEF Listed, Own
<1>2. \A p \in Own(request) : \A q :
        q \in SavedAs(request, there, p) <=> q = p /\ C[p] # Absent
    BY SavedIsOwn
<1>3. CASE SaysNew(r, request, local, there)
    <2>1. PICK p \in Listed(request, local) :
            /\ SavedAs(request, there, p) = {}
            /\ r = Report(log[1].number, Rest(p, Home(request)), "new")
        BY <1>3 DEF SaysNew
    <2>2. p \in Own(request) /\ IsNew(local, p)
        BY <1>1, <1>2, <2>1 DEF IsNew
    <2>3. r = Verdict(request, local, p)
        BY <2>1, <2>2 DEF Verdict
    <2> QED
        BY <2>2, <2>3
<1>4. CASE SaysModified(r, request, local, touched, there)
    <2>1. PICK p \in Listed(request, local) :
            /\ \E s \in SavedAs(request, there, p) :
                  Changed(local[p], C[s], p \in touched)
            /\ r = Report(log[1].number, Rest(p, Home(request)), "modified")
        BY <1>4 DEF SaysModified
    <2>2. p \in Own(request) /\ local[p] # Absent /\ C[p] # Absent
        BY <1>1, <1>2, <2>1
    <2>3. Changed(local[p], C[p], p \in touched)
        BY <1>2, <2>1, <2>2
    <2>4. p \in Files /\ p \in FilesOf(request.source)
        BY <2>2 DEF Own, FilesOf
    <2>5. local[p] \in Content /\ C[p] \in Content /\ (p \in touched) \in BOOLEAN
        BY <2>2, <2>4 DEF CurrentInv
    <2>6. IsOther(local, touched, p)
        BY <2>2, <2>3, <2>5, ChangedTells DEF IsOther
    <2>7. r = Verdict(request, local, p)
        BY <2>1, <2>2 DEF Verdict, IsNew, IsGone
    <2> QED
        BY <2>2, <2>6, <2>7
<1>5. CASE SaysDeleted(r, request, local, there)
    <2>1. PICK q \in Below(C, there) :
            /\ \A p \in Listed(request, local) : q \notin SavedAs(request, there, p)
            /\ r = Report(log[1].number, Rest(Place(q), there), "deleted")
        BY <1>5 DEF SaysDeleted
    <2>2. /\ own \in Files /\ own \in Paths /\ there \in Seq(Names)
          /\ Rest(own, Home(request)) = Rest(Place(own), there)
          /\ there \o Rest(own, Home(request)) = Place(own)
          /\ own \in FilesOf(request.source) /\ IsStrictPrefix(Home(request), own)
        BY OwnPlaces DEF Own
    <2>3. /\ q \in Paths /\ C[q] # Absent
          /\ there \o Rest(Place(q), there) = Place(q)
        BY <2>2, BelowIsPrefix
    <2>4. Rest(Place(q), there) = Rest(own, Home(request))
        BY <2>1 DEF Report
    <2>5. q = own
        BY <2>2, <2>3, <2>4 DEF Distinct
    <2>6. own \in SavedAs(request, there, own)
        BY <1>2, <2>3, <2>5
    <2>7. own \notin Listed(request, local)
        BY <2>1, <2>5, <2>6
    <2>8. local[own] = Absent
        BY <2>2, <2>7 DEF Listed
    <2>9. IsGone(local, own)
        BY <2>3, <2>5, <2>8 DEF IsGone
    <2>10. r = Verdict(request, local, own)
        BY <2>1, <2>4, <2>9 DEF Verdict, IsNew, IsGone
    <2> QED
        BY <2>9, <2>10
<1> QED
    BY <1>3, <1>4, <1>5, CurrentSays

(* The answer is exact about the newest backup: of the source's own files  *)
(* it names just those that are new, changed or gone, after every failure  *)
(* and in the middle of a run, for every folder that has a file left, when *)
(* no two files share a place of the snapshots and no folder of C has the  *)
(* name of a source given with a slash (cmd_files,                         *)
(* compare_files_across_backups).                                          *)
THEOREM CurrentIsExact ==
    ASSUME Distinct, Unmistaken
    PROVE  Spec => []CurrentExact
<1>1. Init => CurrentInv
    BY CurrentInit
<1>2. CurrentInv /\ [Next]_vars => CurrentInv'
    BY CurrentStep
<1>3. CurrentInv => CurrentExact
    <2>1. ASSUME CurrentInv, log # <<>>, NEW request \in Requests,
                 FolderIn(C, There(request)),
                 NEW local \in [FilesOf(request.source) -> Content \cup {Absent}],
                 NEW touched, NEW at \in Located(request), Asked(request, local)
          PROVE  {r \in Differences(request, local, touched, at) :
                     /\ r.number = log[1].number
                     /\ r.path \in {Rest(p, Home(request)) : p \in Own(request)}}
                 = {Verdict(request, local, p) :
                       p \in {q \in Own(request) :
                                \/ IsNew(local, q) \/ IsGone(local, q)
                                \/ IsOther(local, touched, q)}}
        <3> DEFINE told == CurrentDiffs(request, local, touched, There(request))
        <3>1. Differences(request, local, touched, at)
                = told \cup OlderDiffs(request.folder)
            <4>1. at = There(request)
                BY <2>1, LocatedIsThere
            <4> QED
                BY <2>1, <4>1, Zenon DEF Differences, OlderDiffs
        <3>2. ASSUME NEW r \in Differences(request, local, touched, at),
                     r.number = log[1].number,
                     r.path \in {Rest(p, Home(request)) : p \in Own(request)}
              PROVE  \E p \in Own(request) :
                        /\ \/ IsNew(local, p) \/ IsGone(local, p)
                           \/ IsOther(local, touched, p)
                        /\ r = Verdict(request, local, p)
            <4>1. r \in told
                BY <2>1, <3>1, <3>2, OlderIsNotNewest
            <4>2. PICK own \in Own(request) : r.path = Rest(own, Home(request))
                BY <3>2
            <4> QED
                BY <2>1, <4>1, <4>2, ToldAreVerdicts
        <3>3. ASSUME NEW p \in Own(request),
                     \/ IsNew(local, p) \/ IsGone(local, p)
                     \/ IsOther(local, touched, p)
              PROVE  /\ Verdict(request, local, p)
                          \in Differences(request, local, touched, at)
                     /\ Verdict(request, local, p).number = log[1].number
                     /\ Verdict(request, local, p).path
                          \in {Rest(q, Home(request)) : q \in Own(request)}
            <4>1. Verdict(request, local, p) \in told
                BY <2>1, <3>3, VerdictsAreTold
            <4>2. /\ Verdict(request, local, p).number = log[1].number
                  /\ Verdict(request, local, p).path = Rest(p, Home(request))
                BY DEF Verdict, Report
            <4> QED
                BY <3>1, <4>1, <4>2
        <3> QED
            BY <3>2, <3>3, Zenon
    <2> SUFFICES ASSUME CurrentInv PROVE CurrentExact
        OBVIOUS
    <2> QED
        BY <2>1 DEF CurrentExact, There, Own, Verdict, IsNew, IsGone, IsOther
<1> QED
    BY <1>1, <1>2, <1>3, PTL DEF Spec
=============================================================================
