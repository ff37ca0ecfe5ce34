--------------------------- MODULE RotationProofs ---------------------------
(***************************************************************************)
(* Theorems about Rotation, for any files, clients, faults and number of   *)
(* runs.                                                                   *)
(***************************************************************************)
EXTENDS Rotation, SetLogProofs

-----------------------------------------------------------------------------
(* What patches keep of a snapshot.                                        *)

(* Archives are patches, and applying one to a snapshot gives a snapshot.  *)
LEMMA PatchTypes ==
    ASSUME NEW old \in Snapshot, NEW new \in Snapshot, NEW patch \in Patch
    PROVE  PatchOf(old, new) \in Patch /\ ReverseApply(new, patch) \in Snapshot
BY DEF Snapshot, Patch, PatchOf, ReverseApply

(* The trees hold text only: nothing that diff reports without recording.  *)
TextOnly == Binary = {} /\ Blank = {}

(* Between two snapshots without binary or empty files the archive made by *)
(* _create_diff loses nothing: applied in reverse to the newer snapshot it *)
(* gives back the older one, files that appeared or vanished included.     *)
LEMMA PatchRestores ==
    ASSUME NEW old \in Snapshot, NEW new \in Snapshot, TextOnly
    PROVE  ReverseApply(new, PatchOf(old, new)) = old
<1>1. ASSUME NEW p \in Paths
      PROVE  IF PatchOf(old, new)[p] = NoHunk THEN new[p] = old[p]
             ELSE PatchOf(old, new)[p] = old[p]
    <2>1. old[p] \in Value /\ new[p] \in Value /\ old[p] # NoHunk
        BY ContentAssumption DEF Snapshot
    <2>2. Recorded(old[p], new[p]) <=> old[p] # new[p]
        BY DEF Recorded, Differ, TextOnly
    <2> QED
        BY <2>1, <2>2 DEF PatchOf
<1> QED
    BY <1>1 DEF ReverseApply, Snapshot

(* When diff finds no difference between text-only snapshots there is none *)
LEMMA SameToDiffIsEqual ==
    ASSUME NEW old \in Snapshot, NEW new \in Snapshot, TextOnly,
           SameToDiff(old, new)
    PROVE  old = new
BY DEF SameToDiff, Differ, TextOnly, Snapshot

-----------------------------------------------------------------------------
(* Type correctness.  TypeOK is not inductive alone: that the next number  *)
(* exists at all needs a log numbered without a gap.                       *)

IInv == TypeOK /\ Numbered(log)

(* CreateDiff archives at most one patch and only ever points the second   *)
(* entry at it.                                                            *)
LEMMA CreateDiffTypes ==
    ASSUME IInv, CreateDiff
    PROVE  /\ archives' \in Seq(Patch)
           /\ Len(archives) <= Len(archives')
           /\ LogAfterDiff \in Seq(Entry)
           /\ Len(LogAfterDiff) = Len(log)
           /\ Numbered(LogAfterDiff)
           /\ PointersExist(LogAfterDiff, Len(archives'))
<1>1. /\ Len(archives) \in Nat /\ Len(log) \in Nat
      /\ DOMAIN log = 1 .. Len(log)
      /\ PointersExist(log, Len(archives))
    BY LenProperties DEF IInv, TypeOK, PointersExist
<1>2. /\ archives' \in Seq(Patch)
      /\ Len(archives) <= Len(archives')
    <2>1. CASE ~ HasContent(O)
        BY <1>1, <2>1 DEF CreateDiff, IInv, TypeOK
    <2>2. CASE HasContent(O)
        <3>1. PatchOf(O, C) \in Patch
            BY DEF IInv, TypeOK, Snapshot, Patch, PatchOf
        <3>2. CASE archives' = Append(archives, PatchOf(O, C))
            BY <1>1, <3>1, <3>2 DEF IInv, TypeOK
        <3>3. CASE /\ archives # <<>>
                   /\ archives' = [archives EXCEPT ![Len(archives)] = PatchOf(O, C)]
            <4>1. Len(archives) \in 1 .. Len(archives)
                BY <1>1, <3>3, EmptySeq DEF IInv, TypeOK
            <4> QED
                BY <1>1, <3>1, <3>3, <4>1, ExceptSeq DEF IInv, TypeOK
        <3> QED
            BY <2>2, <3>2, <3>3 DEF CreateDiff, Archived
    <2> QED
        BY <2>1, <2>2
<1>3. Len(archives') \in Nat
    BY <1>2, LenProperties
<1>4. PointersExist(log, Len(archives'))
    BY <1>1, <1>2, <1>3, PointersMonotonic DEF IInv, TypeOK
<1>5. CASE ~ (HasContent(O) /\ ~ SameToDiff(O, C))
    BY <1>1, <1>2, <1>4, <1>5 DEF LogAfterDiff, IInv, TypeOK
<1>6. CASE HasContent(O) /\ ~ SameToDiff(O, C)
    <2> DEFINE updated == UpdateForDiff(log, Len(archives'))
    <2>1. LogAfterDiff = updated
        BY <1>6 DEF LogAfterDiff
    <2>2. /\ updated \in Seq(Entry)
          /\ Len(updated) = Len(log)
          /\ \A i \in DOMAIN log : /\ i # 2 => updated[i] = log[i]
                                   /\ updated[i].number = log[i].number
          /\ Len(log) >= 2 => updated[2].diff = Len(archives')
        BY <1>3, UpdateForDiffProperties DEF IInv, TypeOK
    <2> HIDE DEF updated
    <2>3. Numbered(updated)
        BY <2>2, NumberedByNumbers DEF IInv, TypeOK
    <2>4. DOMAIN updated = 1 .. Len(log)
        BY <2>2, LenProperties
    <2>5. ASSUME NEW i \in DOMAIN updated
          PROVE  updated[i].diff <= Len(archives')
        <3>1. CASE i = 2
            BY <1>1, <1>3, <2>2, <2>4, <2>5, <3>1
        <3>2. CASE i # 2
            BY <1>1, <1>4, <2>2, <2>4, <2>5, <3>2 DEF PointersExist
        <3> QED
            BY <3>1, <3>2
    <2> QED
        BY <1>2, <2>1, <2>2, <2>3, <2>5 DEF PointersExist
<1> QED
    BY <1>5, <1>6

(* The bookkeeping of an accepted request.                                 *)
LEMMA OpenTypes ==
    ASSUME IInv, NEW entries \in Seq(Entry), Numbered(entries),
           NEW n \in Nat, PointersExist(entries, n), Open(entries)
    PROVE  /\ C' \in Snapshot
           /\ log' \in Seq(Entry)
           /\ Len(log') = Len(entries) + 1
           /\ log'[1].diff = NoDiff
           /\ \A i \in 2 .. Len(entries) + 1 : log'[i] = entries[i - 1]
           /\ Numbered(log')
           /\ PointersExist(log', n)
           /\ held' \in Seq(Snapshot)
<1>1. C' \in Snapshot
    <2>1. [by |-> starts + 1, done |-> FALSE] \in Value
        BY DEF Value, MetaValue, IInv, TypeOK
    <2> QED
        BY <2>1 DEF Open, Snapshot, IInv, TypeOK
<1>2. held' \in Seq(Snapshot)
    <2>1. held \in Seq(Snapshot) /\ C \in Snapshot
        BY DEF IInv, TypeOK
    <2>2. Append(held, C) \in Seq(Snapshot)
        BY <2>1
    <2>3. held' = held \/ held' = Append(held, C)
        BY DEF Open
    <2> QED
        BY <2>1, <2>2, <2>3
<1>3. starts + 1 \in Nat \ {0}
    BY DEF IInv, TypeOK
<1>4. /\ log' \in Seq(Entry)
      /\ Len(log') = Len(entries) + 1
      /\ log'[1].diff = NoDiff
      /\ \A i \in 2 .. Len(entries) + 1 : log'[i] = entries[i - 1]
      /\ Numbered(log')
    <2>1. log' = NewEntry(entries, starts + 1)
        BY DEF Open
    <2> DEFINE new == NewEntry(entries, starts + 1)
    <2>2. /\ new \in Seq(Entry)
          /\ Len(new) = Len(entries) + 1
          /\ new[1] = [number |-> Len(entries) + 1, started |-> starts + 1,
                       finished |-> Never, location |-> "C", diff |-> NoDiff]
          /\ \A i \in 2 .. Len(entries) + 1 : new[i] = entries[i - 1]
          /\ Numbered(new)
        BY <1>3, NewEntryProperties, Zenon
    <2> HIDE DEF new
    <2>3. new[1].diff = NoDiff
        BY <2>2
    <2> QED
        BY <2>1, <2>2, <2>3 DEF new
<1>5. Len(entries) \in Nat /\ DOMAIN entries = 1 .. Len(entries)
    BY LenProperties
<1>6. DOMAIN log' = 1 .. Len(entries) + 1
    BY <1>4, LenProperties
<1>7. ASSUME NEW i \in 1 .. Len(entries) + 1 PROVE log'[i].diff <= n
    <2>1. CASE i = 1
        BY <1>4, <2>1 DEF NoDiff
    <2>2. CASE i # 1
        BY <1>4, <1>5, <2>2 DEF PointersExist
    <2> QED
        BY <2>1, <2>2
<1> QED
    BY <1>1, <1>2, <1>4, <1>6, <1>7 DEF PointersExist

(* A client that is answered mirrors its tree, or none.                    *)
LEMMA StartTypes ==
    ASSUME IInv, NEW c \in Clients, Start(c)
    PROVE  run' \in [Clients -> Run]
<1>1. \A tree \in Tree : Source(tree) \in [Mirrored -> Value]
    BY DEF Source, Tree, Mirrored, Value
<1>2. starts + 1 \in Nat
    BY DEF IInv, TypeOK
<1>3. \A tree \in Tree, todo \in {Mirrored, {}} :
        [id |-> starts + 1, source |-> Source(tree), todo |-> todo] \in Run
    BY <1>1, <1>2 DEF Run
<1> QED
    BY <1>3 DEF Start, IInv, TypeOK

(* The initial states have the types.                                      *)
LEMMA TypeInit == Init => IInv
<1> SUFFICES ASSUME Init PROVE IInv
    OBVIOUS
<1>1. Empty \in Snapshot
    BY DEF Empty, Snapshot, Value
<1>2. NoRun \in Run
    BY DEF NoRun, Run, Value
<1> QED
    BY <1>1, <1>2 DEF Init, IInv, TypeOK, Numbered

(* Every action keeps the types, whatever goes wrong.                      *)
LEMMA TypeStep == IInv /\ [Next]_vars => IInv'
<1> SUFFICES ASSUME IInv, [Next]_vars PROVE IInv'
    OBVIOUS
<1>0. PointersExist(log, Len(archives)) /\ Len(archives) \in Nat
    BY LenProperties DEF IInv, TypeOK, PointersExist
<1>1. ASSUME NEW c \in Clients, PrepareFirst(c) \/ PrepareNoO(c) PROVE IInv'
    <2>1. /\ C' \in Snapshot /\ log' \in Seq(Entry) /\ Numbered(log')
          /\ PointersExist(log', Len(archives)) /\ held' \in Seq(Snapshot)
        BY <1>0, <1>1, OpenTypes DEF PrepareFirst, PrepareNoO, IInv, TypeOK
    <2>2. run' \in [Clients -> Run]
        BY <1>1, StartTypes DEF PrepareFirst, PrepareNoO
    <2> QED
        BY <1>1, <2>1, <2>2
           DEF PrepareFirst, PrepareNoO, Request, IInv, TypeOK, PointersExist
<1>2. ASSUME NEW c \in Clients, PrepareRotate(c) PROVE IInv'
    <2>1. /\ archives' \in Seq(Patch) /\ LogAfterDiff \in Seq(Entry)
          /\ Numbered(LogAfterDiff)
          /\ PointersExist(LogAfterDiff, Len(archives'))
        BY <1>2, CreateDiffTypes DEF PrepareRotate
    <2>2. Len(archives') \in Nat
        BY <2>1, LenProperties
    <2>3. Open(LogAfterDiff)
        BY <1>2 DEF PrepareRotate
    <2>4. /\ C' \in Snapshot /\ log' \in Seq(Entry) /\ Numbered(log')
          /\ PointersExist(log', Len(archives')) /\ held' \in Seq(Snapshot)
        BY <2>1, <2>2, <2>3, OpenTypes
    <2>5. run' \in [Clients -> Run]
        BY <1>2, StartTypes DEF PrepareRotate
    <2> QED
        BY <1>2, <2>1, <2>4, <2>5
           DEF PrepareRotate, Request, IInv, TypeOK, PointersExist
<1>3. ASSUME NEW c \in Clients, RejectMkdir(c) \/ RejectDiff(c) PROVE IInv'
    BY <1>3 DEF RejectMkdir, RejectDiff, Request, IInv, TypeOK
<1>4. ASSUME NEW c \in Clients, RejectSync(c) PROVE IInv'
    <2>1. /\ archives' \in Seq(Patch) /\ log' \in Seq(Entry)
          /\ Numbered(log') /\ PointersExist(log', Len(archives'))
        BY <1>4, CreateDiffTypes DEF RejectSync
    <2>2. O' \in Snapshot
        BY <1>4 DEF RejectSync, Snapshot, IInv, TypeOK
    <2> QED
        BY <1>4, <2>1, <2>2
           DEF RejectSync, Request, IInv, TypeOK, PointersExist
<1>5. ASSUME NEW c \in Clients, Transfer(c) PROVE IInv'
    <2>1. PICK p \in run[c].todo :
            /\ C' = [C EXCEPT ![p] = run[c].source[p]]
            /\ run' = [run EXCEPT ![c].todo = @ \ {p}]
        BY <1>5 DEF Transfer
    <2>2. run[c] \in Run
        BY DEF IInv, TypeOK
    <2>3. p \in Mirrored /\ run[c].source[p] \in Value
        BY <2>2 DEF Run
    <2>4. C' \in Snapshot
        BY <2>1, <2>3 DEF IInv, TypeOK, Snapshot
    <2>5. [run[c] EXCEPT !.todo = @ \ {p}] \in Run
        BY <2>2 DEF Run
    <2>6. run' \in [Clients -> Run]
        BY <2>1, <2>5 DEF IInv, TypeOK
    <2> QED
        BY <1>5, <2>4, <2>6 DEF Transfer, IInv, TypeOK
<1>6. ASSUME NEW c \in Clients, Fail(c) PROVE IInv'
    <2>1. NoRun \in Run
        BY DEF NoRun, Run, Value
    <2> QED
        BY <1>6, <2>1 DEF Fail, IInv, TypeOK
<1>7. ASSUME NEW c \in Clients, Complete(c) PROVE IInv'
    <2>1. NoRun \in Run
        BY DEF NoRun, Run, Value
    <2>2. [by |-> StartedBy(C[Meta]), done |-> TRUE] \in Value
        BY DEF StartedBy, MetaValue, Value
    <2>3. C' \in Snapshot
        BY <1>7, <2>2 DEF Complete, Snapshot, IInv, TypeOK
    <2>4. run[c].id \in Nat
        BY DEF Run, IInv, TypeOK
    <2>5. /\ log' \in Seq(Entry) /\ Len(log') = Len(log)
          /\ \A i \in DOMAIN log : /\ log'[i].number = log[i].number
                                   /\ log'[i].diff = log[i].diff
        BY <1>7, <2>4, FinalizeProperties DEF Complete, IInv, TypeOK
    <2>6. DOMAIN log' = DOMAIN log
        BY <2>5, LenProperties DEF IInv, TypeOK
    <2>7. Numbered(log')
        BY <2>5, NumberedByNumbers DEF IInv, TypeOK
    <2>8. \A i \in DOMAIN log' : log'[i].diff <= Len(archives)
        BY <2>5, <2>6 DEF IInv, TypeOK
    <2> QED
        BY <1>7, <2>1, <2>3, <2>5, <2>7, <2>8 DEF Complete, IInv, TypeOK
<1>8. CASE UNCHANGED vars
    BY <1>8 DEF vars, IInv, TypeOK
<1> QED
    BY <1>1, <1>2, <1>3, <1>4, <1>5, <1>6, <1>7, <1>8 DEF Next, Prepare

(* Every variable keeps its type, for any files, clients and faults.       *)
THEOREM TypeCorrect == Spec => []TypeOK
<1>1. IInv => TypeOK
    BY DEF IInv
<1> QED
    BY TypeInit, TypeStep, <1>1, PTL DEF Spec

-----------------------------------------------------------------------------
(* The restore chain.                                                      *)

(* What the theorem needs: a tree of text files, a source path that does   *)
(* not make rsync delete .blzbak-metadata, no failed copy of C over O and  *)
(* no two archives of one second.  Runs may fail, be given up, be rejected *)
(* or be dry.                                                              *)
Sound == TextOnly /\ ~ MirrorsRoot /\ {"sync", "sameSecond"} \cap Faults = {}

(* The chain is inductive together with what makes each rotation archive:  *)
(* from the second rotation on O is not empty, since it holds the metadata *)
(* of the run before, and an entry whose snapshot is still C or O has no   *)
(* diff_path yet, so that the archive it gets is its first.                *)
Unbroken ==
    /\ IInv
    /\ ChainInv
    /\ log = <<>> => held = <<>>
    /\ log # <<>> => dirs = {"C", "O"} /\ C[Meta] # Absent
    /\ Len(log) >= 2 => O[Meta] # Absent
    /\ \A i \in DOMAIN log : i <= 2 => log[i].diff = NoDiff

(* A rotation's archive links the snapshot that leaves O to the one that   *)
(* takes its place, and no other link of the chain is touched.             *)
LEMMA CreateDiffLinks ==
    ASSUME Sound, Unbroken, CreateDiff
    PROVE  /\ \A k \in 1 .. Len(archives) : archives'[k] = archives[k]
           /\ Len(LogAfterDiff) = Len(log)
           /\ \A i \in DOMAIN log :
                /\ LogAfterDiff[i].number = log[i].number
                /\ i # 2 => LogAfterDiff[i] = log[i]
           /\ Len(log) >= 2 =>
                O = IF LogAfterDiff[2].diff = NoDiff THEN C
                    ELSE ReverseApply(C, archives'[LogAfterDiff[2].diff])
<1>1. /\ Len(archives) \in Nat /\ Len(log) \in Nat
      /\ DOMAIN log = 1 .. Len(log)
      /\ log \in Seq(Entry) /\ archives \in Seq(Patch)
      /\ C \in Snapshot /\ O \in Snapshot
    BY LenProperties DEF Unbroken, IInv, TypeOK
<1>2. PatchOf(O, C) \in Patch
    BY <1>1 DEF Snapshot, Patch, PatchOf
<1>3. archives' = archives \/ archives' = Append(archives, PatchOf(O, C))
    BY DEF CreateDiff, Archived, Sound
<1>4. \A k \in 1 .. Len(archives) : archives'[k] = archives[k]
    BY <1>1, <1>2, <1>3
<1>5. HasContent(O) => /\ archives' = Append(archives, PatchOf(O, C))
                       /\ Len(archives') = Len(archives) + 1
                       /\ archives'[Len(archives')] = PatchOf(O, C)
    BY <1>1, <1>2 DEF CreateDiff, Archived, Sound
<1>6. Len(log) >= 2 => HasContent(O)
    BY DEF Unbroken, HasContent, Paths
<1>7. CASE HasContent(O) /\ ~ SameToDiff(O, C)
    <2> DEFINE updated == UpdateForDiff(log, Len(archives'))
    <2>1. LogAfterDiff = updated
        BY <1>7 DEF LogAfterDiff
    <2>2. Len(archives') \in Nat \ {0}
        BY <1>1, <1>5, <1>7
    <2>3. /\ Len(updated) = Len(log)
          /\ \A i \in DOMAIN log : /\ i # 2 => updated[i] = log[i]
                                   /\ updated[i].number = log[i].number
          /\ Len(log) >= 2 => updated[2].diff = Len(archives')
        BY <1>1, <2>2, UpdateForDiffProperties
    <2> HIDE DEF updated
    <2>4. ReverseApply(C, PatchOf(O, C)) = O
        BY <1>1, PatchRestores DEF Sound
    <2>5. Len(archives') # NoDiff
        BY <2>2 DEF NoDiff
    <2> QED
        BY <1>4, <1>5, <1>7, <2>1, <2>3, <2>4, <2>5
<1>8. CASE HasContent(O) /\ SameToDiff(O, C)
    <2>1. LogAfterDiff = log
        BY <1>8 DEF LogAfterDiff
    <2>2. O = C
        BY <1>1, <1>8, SameToDiffIsEqual DEF Sound
    <2>3. Len(log) >= 2 => log[2].diff = NoDiff
        BY <1>1 DEF Unbroken
    <2> QED
        BY <1>4, <2>1, <2>2, <2>3
<1>9. CASE ~ HasContent(O)
    <2>1. LogAfterDiff = log
        BY <1>9 DEF LogAfterDiff
    <2> QED
        BY <1>4, <1>6, <1>9, <2>1
<1> QED
    BY <1>7, <1>8, <1>9

(* A rotation keeps the chain: the snapshot that was C becomes the second  *)
(* link, the one that was O the third, and the others move down by one.    *)
LEMMA RotateKeepsChain ==
    ASSUME Sound, Unbroken, CreateDiff, Open(LogAfterDiff), O' = C, log # <<>>
    PROVE  ChainInv'
<1> DEFINE n == Len(log)
           entries == LogAfterDiff
<1>1. /\ n \in Nat \ {0} /\ DOMAIN log = 1 .. n /\ log \in Seq(Entry)
      /\ Len(archives) \in Nat /\ held \in Seq(Snapshot) /\ C \in Snapshot
    BY LenProperties, EmptySeq DEF Unbroken, IInv, TypeOK
<1>2. /\ \A k \in 1 .. Len(archives) : archives'[k] = archives[k]
      /\ Len(entries) = n
      /\ \A i \in 1 .. n : /\ entries[i].number = log[i].number
                           /\ i # 2 => entries[i] = log[i]
      /\ n >= 2 => O = IF entries[2].diff = NoDiff THEN C
                       ELSE ReverseApply(C, archives'[entries[2].diff])
    BY <1>1, CreateDiffLinks
<1>3. /\ entries \in Seq(Entry) /\ Numbered(entries)
      /\ archives' \in Seq(Patch)
      /\ PointersExist(entries, Len(archives'))
    BY CreateDiffTypes DEF Unbroken
<1>4. Len(archives') \in Nat
    BY <1>3, LenProperties
<1>5. /\ log' \in Seq(Entry)
      /\ Len(log') = n + 1
      /\ log'[1].diff = NoDiff
      /\ \A i \in 2 .. n + 1 : log'[i] = entries[i - 1]
      /\ Numbered(log')
    BY <1>2, <1>3, <1>4, OpenTypes DEF Unbroken
<1>6. \A i \in 1 .. n : log[i].number = n - i + 1
    BY <1>1 DEF Unbroken, ChainInv, Numbered
<1>7. Len(held) = n - 1
    BY DEF Unbroken, ChainInv
<1>8. held' = Append(held, C)
    BY DEF Open
<1>9. /\ Len(held') = n
      /\ held'[n] = C
      /\ \A k \in 1 .. n - 1 : held'[k] = held[k]
    <2>1. Len(held) + 1 = n
        BY <1>1, <1>7
    <2>2. /\ Len(held') = Len(held) + 1
          /\ held'[Len(held) + 1] = C
          /\ \A k \in 1 .. Len(held) : held'[k] = held[k]
        BY <1>1, <1>8
    <2> HIDE DEF n
    <2> QED
        BY <1>7, <2>1, <2>2
<1> HIDE DEF entries, n
<1>10. \A i \in 2 .. n + 1 : log'[i].number = n - (i - 1) + 1
    BY <1>1, <1>2, <1>5, <1>6
<1>11. \A i \in 2 .. n + 1 : Version(i)' = held'[n - (i - 1) + 1]
    BY <1>1, <1>10 DEF Version
<1>12. \A i \in 2 .. n : Version(i) = held[n - i + 1]
    BY <1>1, <1>6 DEF Version
<1>13. Version(2)' = C
    BY <1>1, <1>9, <1>11
<1>14. \A i \in 2 .. n : Version(i + 1)' = Version(i)
    <2> SUFFICES ASSUME NEW i \in 2 .. n PROVE Version(i + 1)' = Version(i)
        OBVIOUS
    <2>1. i + 1 \in 2 .. n + 1 /\ n - i + 1 \in 1 .. n - 1
        BY <1>1
    <2>2. Version(i + 1)' = held'[n - ((i + 1) - 1) + 1]
        BY <1>11, <2>1
    <2>3. n - ((i + 1) - 1) + 1 = n - i + 1
        BY <1>1
    <2> QED
        BY <1>9, <1>12, <2>1, <2>2, <2>3
<1>15. ASSUME NEW i \in 2 .. n + 1 PROVE Link(i)'
    <2>1. CASE i = 2
        BY <1>13, <2>1 DEF Link
    <2>2. CASE i = 3
        <3>1. 2 \in 2 .. n /\ i = 2 + 1
            BY <1>1, <2>2
        <3>2. Version(i)' = O
            <4>1. Link(2)
                BY <3>1 DEF Unbroken, ChainInv, n
            <4> QED
                BY <1>14, <3>1, <4>1 DEF Link
        <3>3. log'[i] = entries[2]
            BY <1>5, <2>2
        <3>4. Version(i - 1)' = C
            BY <1>13, <2>2
        <3> QED
            BY <1>1, <1>2, <2>2, <3>1, <3>2, <3>3, <3>4 DEF Link
    <2>3. CASE i > 3
        <3> DEFINE j == i - 1
        <3>1. j \in 3 .. n /\ j - 1 \in 2 .. n /\ i = j + 1 /\ i - 1 = (j - 1) + 1
            BY <1>1, <2>3
        <3>2. Version(i)' = Version(j) /\ Version(i - 1)' = Version(j - 1)
            BY <1>14, <3>1
        <3>3. log'[i] = log[j]
            BY <1>2, <1>5, <3>1
        <3>4. Link(j)
            BY <3>1 DEF Unbroken, ChainInv, n
        <3>5. log[j].diff \in Nat /\ log[j].diff <= Len(archives)
            <4>1. j \in 1 .. Len(log)
                BY <1>1, <3>1 DEF n
            <4>2. log[j] \in Entry
                BY <1>1, <4>1, ElementOfSeq
            <4>3. \A k \in DOMAIN log : log[k].diff <= Len(archives)
                BY DEF Unbroken, IInv, TypeOK
            <4>4. log[j].diff \in Nat
                BY <4>2 DEF Entry
            <4> HIDE DEF j
            <4> QED
                BY <1>1, <4>1, <4>3, <4>4 DEF n
        <3>6. log[j].diff # NoDiff => archives'[log[j].diff] = archives[log[j].diff]
            BY <1>1, <1>2, <3>5 DEF NoDiff
        <3> HIDE DEF j
        <3> QED
            BY <1>1, <2>3, <3>1, <3>2, <3>3, <3>4, <3>6 DEF Link
    <2> QED
        BY <1>1, <2>1, <2>2, <2>3
<1> QED
    BY <1>1, <1>5, <1>9, <1>15 DEF ChainInv, n

(* A step that leaves the snapshot O, the archives and the history alone,  *)
(* and of the log at most what no link depends on, keeps the chain.        *)
LEMMA ChainFrame ==
    ASSUME IInv, ChainInv, O' = O, archives' = archives, held' = held,
           log' \in Seq(Entry), Len(log') = Len(log),
           \A i \in DOMAIN log : /\ log'[i].number = log[i].number
                                 /\ log'[i].diff = log[i].diff
    PROVE  ChainInv'
<1>1. /\ log \in Seq(Entry) /\ Len(log) \in Nat
      /\ DOMAIN log = 1 .. Len(log) /\ DOMAIN log' = DOMAIN log
    BY LenProperties DEF IInv, TypeOK
<1>2. Numbered(log')
    BY <1>1, NumberedByNumbers DEF ChainInv
<1>3. log' # <<>> => Len(held') = Len(log') - 1
    BY <1>1, EmptySeq DEF ChainInv
<1>4. \A i \in 2 .. Len(log) : Version(i)' = Version(i)
    BY <1>1 DEF Version
<1>5. ASSUME NEW i \in 2 .. Len(log) PROVE Link(i)'
    <2>0. i \in DOMAIN log
        BY <1>1
    <2>1. Link(i) /\ log'[i].diff = log[i].diff
        BY <2>0 DEF ChainInv
    <2>2. CASE i = 2
        BY <1>4, <2>1, <2>2 DEF Link
    <2>3. CASE i # 2
        <3>1. i - 1 \in 2 .. Len(log)
            BY <1>1, <2>3
        <3>2. Version(i)' = Version(i) /\ Version(i - 1)' = Version(i - 1)
            BY <1>4, <3>1
        <3> QED
            BY <2>1, <2>3, <3>2 DEF Link
    <2> QED
        BY <2>2, <2>3
<1> QED
    BY <1>2, <1>3, <1>5 DEF ChainInv

(* An accepted request that opens the first entry starts a chain with no   *)
(* link.                                                                   *)
LEMMA FirstEntryStartsChain ==
    ASSUME Unbroken, log = <<>>, NEW entries \in Seq(Entry), Len(entries) = 0,
           Numbered(entries), NEW n \in Nat, PointersExist(entries, n),
           Open(entries)
    PROVE  ChainInv' /\ Len(log') = 1 /\ log'[1].diff = NoDiff
<1>1. log' \in Seq(Entry) /\ Len(log') = 1 /\ log'[1].diff = NoDiff /\ Numbered(log')
    <2>1. IInv
        BY DEF Unbroken
    <2>2. /\ log' \in Seq(Entry) /\ Len(log') = Len(entries) + 1
          /\ log'[1].diff = NoDiff /\ Numbered(log')
        BY <2>1, OpenTypes
    <2> QED
        BY <2>2
<1>2. held' = <<>>
    BY DEF Open, Unbroken
<1>3. 2 .. Len(log') = {}
    BY <1>1
<1> QED
    BY <1>1, <1>2, <1>3 DEF ChainInv

(* Opening an entry writes the metadata file of C.                         *)
LEMMA OpenWritesMeta ==
    ASSUME IInv, NEW entries, Open(entries)
    PROVE  C'[Meta] # Absent
<1>1. [by |-> starts + 1, done |-> FALSE] \in MetaValue
    BY DEF MetaValue, IInv, TypeOK
<1>2. C'[Meta] = [by |-> starts + 1, done |-> FALSE]
    BY DEF Open, IInv, TypeOK, Snapshot, Paths
<1> QED
    BY <1>1, <1>2, ContentAssumption

(* One step of the system keeps the chain unbroken.                        *)
LEMMA ChainStep ==
    ASSUME Sound, Unbroken, [Next]_vars
    PROVE  Unbroken'
<1>0. /\ IInv /\ IInv' /\ Len(log) \in Nat /\ DOMAIN log = 1 .. Len(log)
      /\ log \in Seq(Entry) /\ Len(archives) \in Nat
      /\ PointersExist(log, Len(archives)) /\ Numbered(log)
    BY TypeStep, LenProperties DEF Unbroken, IInv, TypeOK, PointersExist
<1>1. ASSUME NEW c \in Clients, PrepareFirst(c) \/ PrepareNoO(c)
      PROVE  Unbroken'
    <2>1. log = <<>> /\ Len(log) = 0
        BY <1>1 DEF PrepareFirst, PrepareNoO, Unbroken
    <2>2. Open(log) /\ dirs' = {"C", "O"}
        BY <1>1 DEF PrepareFirst, PrepareNoO
    <2>3. ChainInv' /\ Len(log') = 1 /\ log'[1].diff = NoDiff
        BY <1>0, <2>1, <2>2, FirstEntryStartsChain
    <2>4. C'[Meta] # Absent
        BY <1>0, <2>2, OpenWritesMeta
    <2>5. log' # <<>> /\ DOMAIN log' = 1 .. 1
        <3>1. log' \in Seq(Entry)
            BY <1>0 DEF IInv, TypeOK
        <3>2. DOMAIN log' = 1 .. Len(log')
            BY <3>1, LenProperties
        <3>3. log' # <<>>
            BY <2>3, EmptySeq
        <3> QED
            BY <2>3, <3>2, <3>3
    <2> QED
        BY <1>0, <2>2, <2>3, <2>4, <2>5 DEF Unbroken
<1>2. ASSUME NEW c \in Clients, PrepareRotate(c) PROVE Unbroken'
    <2>1. CreateDiff /\ Open(LogAfterDiff) /\ O' = C /\ dirs' = dirs
        BY <1>2 DEF PrepareRotate
    <2>2. /\ archives' \in Seq(Patch) /\ LogAfterDiff \in Seq(Entry)
          /\ Len(LogAfterDiff) = Len(log) /\ Numbered(LogAfterDiff)
          /\ PointersExist(LogAfterDiff, Len(archives'))
        BY <1>0, <2>1, CreateDiffTypes
    <2>3. Len(archives') \in Nat
        BY <2>2, LenProperties
    <2>4. /\ log' \in Seq(Entry)
          /\ Len(log') = Len(log) + 1
          /\ log'[1].diff = NoDiff
          /\ \A i \in 2 .. Len(log) + 1 : log'[i] = LogAfterDiff[i - 1]
        BY <1>0, <2>1, <2>2, <2>3, OpenTypes
    <2>5. log' # <<>> /\ DOMAIN log' = 1 .. Len(log) + 1
        BY <1>0, <2>4, LenProperties, EmptySeq
    <2>6. C'[Meta] # Absent
        BY <1>0, <2>1, OpenWritesMeta
    <2>7. CASE log = <<>>
        <3>1. ChainInv'
            BY <1>0, <2>1, <2>2, <2>3, <2>7, FirstEntryStartsChain
        <3>2. {"C", "O"} \subseteq dirs
            BY <1>2 DEF PrepareRotate
        <3>3. dirs = {"C", "O"}
            BY <1>0, <3>2 DEF IInv, TypeOK
        <3>4. Len(log) = 0
            BY <2>7
        <3>5. Len(log') = 1 /\ DOMAIN log' = 1 .. 1
            BY <2>4, <2>5, <3>4
        <3> QED
            BY <1>0, <2>1, <2>4, <2>5, <2>6, <3>1, <3>3, <3>5 DEF Unbroken
    <2>8. CASE log # <<>>
        <3>1. ChainInv'
            BY <2>1, <2>8, RotateKeepsChain
        <3>2. dirs' = {"C", "O"} /\ O'[Meta] # Absent
            BY <2>1, <2>8 DEF Unbroken
        <3>3. 1 \in DOMAIN log
            BY <1>0, <2>8, EmptySeq
        <3>4. log'[2].diff = NoDiff
            <4>1. LogAfterDiff[1] = log[1]
                BY <2>1, <3>3, CreateDiffLinks
            <4>2. log[1].diff = NoDiff
                BY <3>3 DEF Unbroken
            <4> QED
                BY <1>0, <2>4, <3>3, <4>1, <4>2
        <3>5. ASSUME NEW i \in DOMAIN log', i <= 2 PROVE log'[i].diff = NoDiff
            BY <1>0, <2>4, <2>5, <3>4, <3>5
        <3> QED
            BY <1>0, <2>5, <2>6, <3>1, <3>2, <3>5 DEF Unbroken
    <2> QED
        BY <2>7, <2>8
<1>3. ASSUME NEW c \in Clients, RejectMkdir(c) \/ RejectDiff(c) PROVE Unbroken'
    <2>1. /\ C' = C /\ O' = O /\ archives' = archives /\ log' = log /\ held' = held
          /\ dirs' = dirs \/ log = <<>>
        BY <1>3 DEF RejectMkdir, RejectDiff, Unbroken
    <2>2. ChainInv'
        BY <1>0, <2>1, ChainFrame DEF Unbroken
    <2> QED
        BY <1>0, <2>1, <2>2 DEF Unbroken
<1>4. ASSUME NEW c \in Clients, RejectSync(c) PROVE Unbroken'
    BY <1>4 DEF RejectSync, Sound
<1>5. ASSUME NEW c \in Clients, Transfer(c) PROVE Unbroken'
    <2>1. /\ O' = O /\ archives' = archives /\ log' = log /\ held' = held
          /\ dirs' = dirs
        BY <1>5 DEF Transfer
    <2>2. ChainInv'
        BY <1>0, <2>1, ChainFrame DEF Unbroken
    <2>3. C'[Meta] = C[Meta]
        <3>1. PICK p \in run[c].todo : C' = [C EXCEPT ![p] = run[c].source[p]]
            BY <1>5 DEF Transfer
        <3>2. run[c].todo \subseteq Files
            BY <1>0 DEF IInv, TypeOK, Run, Mirrored, Sound
        <3>3. p # Meta
            BY <3>1, <3>2, ContentAssumption
        <3> QED
            BY <1>0, <3>1, <3>3 DEF IInv, TypeOK, Snapshot
    <2> QED
        BY <1>0, <2>1, <2>2, <2>3 DEF Unbroken
<1>6. ASSUME NEW c \in Clients, Fail(c) PROVE Unbroken'
    <2>1. /\ C' = C /\ O' = O /\ archives' = archives /\ log' = log /\ held' = held
          /\ dirs' = dirs
        BY <1>6 DEF Fail
    <2>2. ChainInv'
        BY <1>0, <2>1, ChainFrame DEF Unbroken
    <2> QED
        BY <1>0, <2>1, <2>2 DEF Unbroken
<1>7. ASSUME NEW c \in Clients, Complete(c) PROVE Unbroken'
    <2>1. /\ O' = O /\ archives' = archives /\ held' = held /\ dirs' = dirs
          /\ log' = Finalize(log, run[c].id)
        BY <1>7 DEF Complete
    <2>2. run[c].id \in Nat
        BY <1>0 DEF Run, IInv, TypeOK
    <2>3. /\ log' \in Seq(Entry) /\ Len(log') = Len(log)
          /\ \A i \in DOMAIN log : /\ log'[i].number = log[i].number
                                   /\ log'[i].diff = log[i].diff
        BY <1>0, <2>1, <2>2, FinalizeProperties
    <2>4. ChainInv'
        BY <1>0, <2>1, <2>3, ChainFrame DEF Unbroken
    <2>5. C'[Meta] # Absent
        <3>1. C'[Meta] \in MetaValue
            BY <1>0, <1>7
               DEF Complete, StartedBy, MetaValue, IInv, TypeOK, Snapshot, Paths
        <3> QED
            BY <3>1, ContentAssumption
    <2>6. DOMAIN log' = DOMAIN log /\ (log' = <<>> <=> log = <<>>)
        BY <1>0, <2>3, LenProperties, EmptySeq
    <2> QED
        BY <1>0, <2>1, <2>3, <2>4, <2>5, <2>6 DEF Unbroken
<1>8. CASE UNCHANGED vars
    <2>1. ChainInv'
        BY <1>0, <1>8, ChainFrame DEF Unbroken, vars
    <2> QED
        BY <1>0, <1>8, <2>1 DEF Unbroken, vars
<1> QED
    BY <1>1, <1>2, <1>3, <1>4, <1>5, <1>6, <1>7, <1>8 DEF Next, Prepare

LEMMA UnbrokenInit == Init => Unbroken
<1> SUFFICES ASSUME Init PROVE Unbroken
    OBVIOUS
<1>1. IInv
    BY TypeInit
<1>2. log = <<>> /\ held = <<>> /\ Len(log) = 0 /\ 2 .. Len(log) = {}
    BY DEF Init
<1>3. ChainInv
    BY <1>1, <1>2 DEF ChainInv, IInv
<1> QED
    BY <1>1, <1>2, <1>3 DEF Unbroken

(* The restore chain holds in every reachable state of a set that one host *)
(* backs up: whatever runs fail, are given up or are rejected, each        *)
(* snapshot the log lists is the reverse of one archive away from its      *)
(* successor, down to O and C (prepare_backup, _create_diff,               *)
(* _update_set_log_for_diff).                                              *)
THEOREM ChainHolds ==
    ASSUME Sound
    PROVE  Spec => []ChainInv
<1>1. Init => Unbroken
    BY UnbrokenInit
<1>2. Unbroken /\ [Next]_vars => Unbroken'
    BY ChainStep
<1>3. Unbroken => ChainInv
    BY DEF Unbroken
<1> QED
    BY <1>1, <1>2, <1>3, PTL DEF Spec

-----------------------------------------------------------------------------
(* The log and the history of C, whatever goes wrong                       *)

LEMMA LogAfterDiffKeeps ==
    ASSUME IInv, CreateDiff
    PROVE  /\ LogAfterDiff \in Seq(Entry) /\ Len(LogAfterDiff) = Len(log)
           /\ Numbered(LogAfterDiff)
           /\ \A i \in DOMAIN log :
                /\ LogAfterDiff[i].number = log[i].number
                /\ LogAfterDiff[i].started = log[i].started
                /\ LogAfterDiff[i].finished = log[i].finished
                /\ i # 2 => LogAfterDiff[i] = log[i]
<1>1. /\ archives' \in Seq(Patch) /\ LogAfterDiff \in Seq(Entry)
      /\ Len(LogAfterDiff) = Len(log) /\ Numbered(LogAfterDiff)
    BY CreateDiffTypes
<1>2. Len(archives') \in Nat /\ log \in Seq(Entry)
    BY <1>1, LenProperties DEF IInv, TypeOK
<1>3. LogAfterDiff = log \/ LogAfterDiff = UpdateForDiff(log, Len(archives'))
    BY DEF LogAfterDiff
<1>4. \A i \in DOMAIN log :
        /\ i # 2 => UpdateForDiff(log, Len(archives'))[i] = log[i]
        /\ UpdateForDiff(log, Len(archives'))[i].number = log[i].number
        /\ UpdateForDiff(log, Len(archives'))[i].started = log[i].started
        /\ UpdateForDiff(log, Len(archives'))[i].finished = log[i].finished
    BY <1>2, UpdateForDiffProperties
<1> QED
    BY <1>1, <1>3, <1>4

(* The entry of the run is put in front of the others.                     *)
LEMMA OpenedLog ==
    ASSUME IInv, NEW entries \in Seq(Entry), Numbered(entries), Open(entries)
    PROVE  /\ Len(log') = Len(entries) + 1 /\ log' # <<>>
           /\ DOMAIN log' = 1 .. Len(entries) + 1 /\ Len(entries) \in Nat
           /\ log'[1].number = Len(entries) + 1
           /\ log'[1].started = starts + 1 /\ log'[1].finished = Never
           /\ \A i \in 2 .. Len(entries) + 1 : log'[i] = entries[i - 1]
           /\ C'[Meta] = [by |-> starts + 1, done |-> FALSE]
           /\ \A p \in Files : C'[p] = C[p]
<1>1. starts + 1 \in Nat \ {0} /\ log' = NewEntry(entries, starts + 1)
    BY DEF IInv, TypeOK, Open
<1>2. /\ log' \in Seq(Entry) /\ Len(log') = Len(entries) + 1
      /\ log'[1] = [number |-> Len(entries) + 1, started |-> starts + 1,
                    finished |-> Never, location |-> "C", diff |-> NoDiff]
      /\ \A i \in 2 .. Len(entries) + 1 : log'[i] = entries[i - 1]
    BY <1>1, NewEntryProperties, Zenon
<1>3. Len(entries) \in Nat /\ DOMAIN log' = 1 .. Len(log')
    BY <1>2, LenProperties
<1>4. log' # <<>>
    BY <1>2, <1>3, EmptySeq
<1>5. /\ C'[Meta] = [by |-> starts + 1, done |-> FALSE]
      /\ \A p \in Files : C'[p] = C[p]
    BY ContentAssumption DEF Open, IInv, TypeOK, Snapshot, Paths
<1>6. /\ log'[1].number = Len(entries) + 1
      /\ log'[1].started = starts + 1 /\ log'[1].finished = Never
    BY <1>2
<1> QED
    BY <1>2, <1>3, <1>4, <1>5, <1>6

(* held has what C held before each entry but the first was opened; the    *)
(* log is empty until both directories are there.                          *)
BookInv ==
    /\ IInv
    /\ log = <<>> => held = <<>>
    /\ log # <<>> => dirs = {"C", "O"} /\ Len(held) = Len(log) - 1

LEMMA BookFrame ==
    ASSUME BookInv, IInv', held' = held, Len(log') = Len(log),
           dirs' = dirs \/ log = <<>>
    PROVE  BookInv'
<1>1. log' = <<>> <=> log = <<>>
    BY EmptySeq DEF BookInv, IInv, TypeOK
<1> QED
    BY <1>1 DEF BookInv

LEMMA BookOpen ==
    ASSUME BookInv, IInv', NEW entries \in Seq(Entry), Len(entries) = Len(log),
           Numbered(entries), Open(entries), dirs' = {"C", "O"}
    PROVE  /\ BookInv'
           /\ log # <<>> => /\ Len(log) \in Nat \ {0} /\ Len(held) = Len(log) - 1
                            /\ held'[Len(log)] = C
                            /\ \A k \in 1 .. Len(log) - 1 : held'[k] = held[k]
<1>1. /\ Len(log') = Len(log) + 1 /\ log' # <<>> /\ Len(log) \in Nat
    BY OpenedLog DEF BookInv
<1>2. CASE log = <<>>
    <2>1. held' = <<>> /\ Len(log) = 0
        BY <1>2 DEF Open, BookInv
    <2> QED
        BY <1>1, <1>2, <2>1 DEF BookInv
<1>3. CASE log # <<>>
    <2>1. held' = Append(held, C) /\ held \in Seq(Snapshot) /\ C \in Snapshot
        BY <1>3 DEF Open, BookInv, IInv, TypeOK
    <2>2. Len(held) = Len(log) - 1 /\ Len(held) \in Nat /\ Len(held) + 1 = Len(log)
        BY <1>1, <1>3, <2>1, LenProperties DEF BookInv
    <2>3. /\ Len(held') = Len(held) + 1 /\ held'[Len(held) + 1] = C
          /\ \A k \in 1 .. Len(held) : held'[k] = held[k]
        BY <2>1
    <2> QED
        BY <1>1, <1>3, <2>2, <2>3 DEF BookInv
<1> QED
    BY <1>2, <1>3

LEMMA BookStep == BookInv /\ [Next]_vars => BookInv'
<1> SUFFICES ASSUME BookInv, [Next]_vars PROVE BookInv'
    OBVIOUS
<1>0. /\ IInv /\ IInv' /\ log \in Seq(Entry) /\ Numbered(log)
    BY TypeStep DEF BookInv, IInv, TypeOK
<1>1. ASSUME NEW c \in Clients, PrepareFirst(c) \/ PrepareNoO(c) PROVE BookInv'
    BY <1>0, <1>1, BookOpen DEF PrepareFirst, PrepareNoO
<1>2. ASSUME NEW c \in Clients, PrepareRotate(c) PROVE BookInv'
    <2>1. CreateDiff /\ Open(LogAfterDiff) /\ dirs' = dirs /\ {"C", "O"} \subseteq dirs
        BY <1>2 DEF PrepareRotate
    <2>2. dirs = {"C", "O"}
        BY <1>0, <2>1 DEF IInv, TypeOK
    <2> QED
        BY <1>0, <2>1, <2>2, LogAfterDiffKeeps, BookOpen
<1>3. ASSUME NEW c \in Clients, RejectMkdir(c) \/ RejectDiff(c) PROVE BookInv'
    <2>1. held' = held /\ log' = log /\ (dirs' = dirs \/ log = <<>>)
        BY <1>3 DEF RejectMkdir, RejectDiff, BookInv
    <2> QED
        BY <1>0, <2>1, BookFrame
<1>4. ASSUME NEW c \in Clients, RejectSync(c) PROVE BookInv'
    <2>1. held' = held /\ Len(log') = Len(log) /\ dirs' = dirs
        BY <1>0, <1>4, LogAfterDiffKeeps DEF RejectSync
    <2> QED
        BY <1>0, <2>1, BookFrame
<1>5. ASSUME NEW c \in Clients, Transfer(c) \/ Fail(c) PROVE BookInv'
    <2>1. held' = held /\ log' = log /\ dirs' = dirs
        BY <1>5 DEF Transfer, Fail
    <2> QED
        BY <1>0, <2>1, BookFrame
<1>6. ASSUME NEW c \in Clients, Complete(c) PROVE BookInv'
    <2>1. run[c].id \in Nat
        BY <1>0 DEF Run, IInv, TypeOK
    <2>2. held' = held /\ Len(log') = Len(log) /\ dirs' = dirs
        BY <1>0, <1>6, <2>1, FinalizeProperties DEF Complete
    <2> QED
        BY <1>0, <2>2, BookFrame
<1>7. CASE UNCHANGED vars
    BY <1>0, <1>7, BookFrame DEF vars
<1> QED
    BY <1>1, <1>2, <1>3, <1>4, <1>5, <1>6, <1>7 DEF Next, Prepare

LEMMA BookInit == Init => BookInv
<1> SUFFICES ASSUME Init PROVE BookInv
    OBVIOUS
<1>1. IInv
    BY TypeInit
<1> QED
    BY <1>1 DEF Init, BookInv

(* Where the history has the snapshot of an entry.                         *)
LEMMA VersionIs ==
    ASSUME IInv, NEW i \in 2 .. Len(log)
    PROVE  Version(i) = held[Len(log) - i + 1]
<1>1. i \in DOMAIN log
    BY LenProperties DEF IInv, TypeOK
<1>2. log[i].number = Len(log) - i + 1 /\ i # 1
    BY <1>1 DEF IInv, Numbered
<1> QED
    BY <1>2 DEF Version

(* The next entry is opened: what C held is the second entry's for ever.   *)
LEMMA VersionsMove ==
    ASSUME IInv', log # <<>>, Len(log) \in Nat \ {0}, Len(held) = Len(log) - 1, IInv,
           Len(log') = Len(log) + 1, held'[Len(log)] = C,
           \A k \in 1 .. Len(log) - 1 : held'[k] = held[k]
    PROVE  /\ Version(2)' = C
           /\ \A i \in 2 .. Len(log) : Version(i + 1)' = Version(i)
<1>0. \A i \in 2 .. Len(log') : Version(i)' = held'[Len(log') - i + 1]
    <2> SUFFICES ASSUME NEW i \in 2 .. Len(log')
                 PROVE  Version(i)' = held'[Len(log') - i + 1]
        OBVIOUS
    <2>1. i \in DOMAIN log'
        BY LenProperties DEF IInv, TypeOK
    <2>2. log'[i].number = Len(log') - i + 1 /\ i # 1
        BY <2>1 DEF IInv, Numbered
    <2> QED
        BY <2>2 DEF Version
<1>1. Version(2)' = C
    <2>1. 2 \in 2 .. Len(log') /\ Len(log') - 2 + 1 = Len(log)
        OBVIOUS
    <2> QED
        BY <1>0, <2>1
<1>2. ASSUME NEW i \in 2 .. Len(log) PROVE Version(i + 1)' = Version(i)
    <2>1. /\ i + 1 \in 2 .. Len(log') /\ Len(log') - (i + 1) + 1 = Len(log) - i + 1
          /\ Len(log) - i + 1 \in 1 .. Len(log) - 1
        OBVIOUS
    <2>2. Version(i) = held[Len(log) - i + 1]
        BY VersionIs
    <2>3. Version(i + 1)' = held'[Len(log') - (i + 1) + 1]
        BY <1>0, <2>1
    <2> QED
        BY <2>1, <2>2, <2>3
<1> QED
    BY <1>1, <1>2

LEMMA VersionsStay ==
    ASSUME IInv, IInv', held' = held, Len(log') = Len(log), NEW i \in 2 .. Len(log)
    PROVE  Version(i)' = Version(i)
<1>1. i \in DOMAIN log'
    BY LenProperties DEF IInv, TypeOK
<1>2. log'[i].number = Len(log) - i + 1 /\ i # 1
    BY <1>1 DEF IInv, Numbered
<1> QED
    BY <1>2, VersionIs DEF Version

-----------------------------------------------------------------------------
(* The run that is under way                                               *)

(* A run that is under way has the newest entry, which nobody has stamped. *)
RunInv ==
    /\ \A i \in DOMAIN log :
          /\ log[i].started <= starts
          /\ Finished(log[i]) => log[i].finished = log[i].started
    /\ \A c \in Clients : Running(c) =>
          log # <<>> /\ log[1].started = run[c].id /\ ~ Finished(log[1])

LEMMA RunStarts ==
    ASSUME IInv, NEW c \in Clients, Start(c), ~ Running(c)
    PROVE  \A d \in Clients : Running(d)' => run'[d].id = starts + 1
<1>1. run \in [Clients -> Run]
    BY DEF IInv, TypeOK
<1>2. \A d \in Clients : d = c
    BY OneClient
<1>3. run' = run \/ run'[c].id = starts + 1
    <2>1. ASSUME NEW r, run' = [run EXCEPT ![c] = r], r.id = starts + 1
          PROVE  run'[c].id = starts + 1
        BY <1>1, <2>1
    <2>2. \A source, todo :
             [id |-> starts + 1, source |-> source, todo |-> todo].id = starts + 1
        OBVIOUS
    <2> QED
        BY <2>1, <2>2 DEF Start
<1> QED
    BY <1>2, <1>3 DEF Running

(* A new entry is put in front of entries that tell the same of the runs.  *)
LEMMA RunOpen ==
    ASSUME IInv, RunInv, NEW c \in Clients, Request(c), Start(c),
           NEW entries \in Seq(Entry), Len(entries) = Len(log), Numbered(entries),
           \A i \in DOMAIN log : /\ entries[i].started = log[i].started
                                 /\ entries[i].finished = log[i].finished,
           Open(entries)
    PROVE  RunInv'
<1>1. starts' = starts + 1 /\ starts \in Nat /\ ~ Running(c)
    BY DEF Request, IInv, TypeOK
<1>2. /\ DOMAIN log' = 1 .. Len(log) + 1 /\ Len(log) \in Nat /\ log' # <<>>
      /\ log'[1].started = starts + 1 /\ log'[1].finished = Never
      /\ \A i \in 2 .. Len(log) + 1 : log'[i] = entries[i - 1]
    BY OpenedLog
<1>3. DOMAIN log = 1 .. Len(log) /\ \A i \in DOMAIN log : log[i].started \in Nat
    <2>1. log \in Seq(Entry)
        BY DEF IInv, TypeOK
    <2>2. DOMAIN log = 1 .. Len(log) /\ \A i \in 1 .. Len(log) : log[i] \in Entry
        BY <2>1, LenProperties, ElementOfSeq
    <2> QED
        BY <2>2 DEF Entry
<1>4. ASSUME NEW i \in DOMAIN log'
      PROVE  /\ log'[i].started <= starts'
             /\ Finished(log'[i]) => log'[i].finished = log'[i].started
    <2>1. CASE i = 1
        BY <1>1, <1>2, <2>1 DEF Finished
    <2>2. CASE i # 1
        <3>1. i - 1 \in DOMAIN log /\ i \in 2 .. Len(log) + 1
            BY <1>2, <1>3, <2>2
        <3>2. /\ log'[i].started = log[i - 1].started
              /\ log'[i].finished = log[i - 1].finished
            BY <1>2, <3>1
        <3>3. log[i - 1].started <= starts
            BY <3>1 DEF RunInv
        <3>4. Finished(log[i - 1]) => log[i - 1].finished = log[i - 1].started
            BY <3>1 DEF RunInv
        <3> QED
            BY <1>1, <1>3, <3>1, <3>2, <3>3, <3>4 DEF Finished
    <2> QED
        BY <2>1, <2>2
<1>5. \A d \in Clients : Running(d)' => run'[d].id = starts + 1
    BY <1>1, RunStarts
<1>6. ~ Finished(log'[1])
    BY <1>2 DEF Finished
<1> QED
    BY <1>2, <1>4, <1>5, <1>6 DEF RunInv

LEMMA RunStep == IInv /\ RunInv /\ [Next]_vars => RunInv'
<1> SUFFICES ASSUME IInv, RunInv, [Next]_vars PROVE RunInv'
    OBVIOUS
<1>0. /\ IInv' /\ log \in Seq(Entry) /\ Numbered(log) /\ starts \in Nat
      /\ DOMAIN log = 1 .. Len(log) /\ Len(log) \in Nat
      /\ \A i \in DOMAIN log : log[i].started \in Nat
    <2>1. IInv' /\ log \in Seq(Entry) /\ Numbered(log) /\ starts \in Nat
        BY TypeStep DEF IInv, TypeOK
    <2>2. /\ DOMAIN log = 1 .. Len(log) /\ Len(log) \in Nat
          /\ \A i \in 1 .. Len(log) : log[i] \in Entry
        BY <2>1, LenProperties, ElementOfSeq
    <2> QED
        BY <2>1, <2>2 DEF Entry
<1>1. ASSUME NEW c \in Clients, PrepareFirst(c) \/ PrepareNoO(c) PROVE RunInv'
    BY <1>0, <1>1, RunOpen DEF PrepareFirst, PrepareNoO
<1>2. ASSUME NEW c \in Clients, PrepareRotate(c) PROVE RunInv'
    <2>1. Request(c) /\ Start(c) /\ CreateDiff /\ Open(LogAfterDiff)
        BY <1>2 DEF PrepareRotate
    <2> QED
        BY <1>0, <2>1, LogAfterDiffKeeps, RunOpen
<1>3. ASSUME NEW c \in Clients, RejectMkdir(c) \/ RejectDiff(c) PROVE RunInv'
    BY <1>0, <1>3 DEF RejectMkdir, RejectDiff, Request, RunInv, Running
<1>4. ASSUME NEW c \in Clients, RejectSync(c) PROVE RunInv'
    <2>1. /\ log' \in Seq(Entry) /\ Len(log') = Len(log)
          /\ \A i \in DOMAIN log : /\ log'[i].started = log[i].started
                                   /\ log'[i].finished = log[i].finished
          /\ run' = run /\ starts' = starts + 1
        BY <1>0, <1>4, LogAfterDiffKeeps DEF RejectSync, Request
    <2>2. DOMAIN log' = DOMAIN log /\ (log = <<>> <=> log' = <<>>)
        BY <1>0, <2>1, LenProperties, EmptySeq
    <2>3. log # <<>> => 1 \in DOMAIN log
        BY <1>0, EmptySeq
    <2>4. ASSUME NEW i \in DOMAIN log'
          PROVE  /\ log'[i].started <= starts'
                 /\ Finished(log'[i]) => log'[i].finished = log'[i].started
        <3>1. /\ log[i].started <= starts /\ log[i].started \in Nat
              /\ Finished(log[i]) => log[i].finished = log[i].started
            BY <1>0, <2>2 DEF RunInv
        <3> QED
            BY <1>0, <2>1, <2>2, <3>1 DEF Finished
    <2>5. ASSUME NEW d \in Clients, Running(d)'
          PROVE  log' # <<>> /\ log'[1].started = run'[d].id /\ ~ Finished(log'[1])
        <3>1. log # <<>> /\ log[1].started = run[d].id /\ ~ Finished(log[1])
            BY <2>1, <2>5 DEF RunInv, Running
        <3> QED
            BY <2>1, <2>2, <2>3, <3>1 DEF Finished
    <2> QED
        BY <2>4, <2>5 DEF RunInv
<1>5. ASSUME NEW c \in Clients, Transfer(c) \/ Fail(c) PROVE RunInv'
    <2>1. log' = log /\ starts' = starts
        BY <1>5 DEF Transfer, Fail
    <2>2. \A d \in Clients : Running(d)' => Running(d) /\ run'[d].id = run[d].id
        <3>0. run \in [Clients -> Run]
            BY DEF IInv, TypeOK
        <3>1. CASE Transfer(c)
            <4>1. PICK p \in run[c].todo :
                    run' = [run EXCEPT ![c].todo = @ \ {p}]
                BY <3>1 DEF Transfer
            <4>2. \A d \in Clients : run'[d].id = run[d].id
                BY <3>0, <4>1 DEF Run
            <4> QED
                BY <4>2 DEF Running
        <3>2. CASE Fail(c)
            BY <3>0, <3>2 DEF Fail, Running, NoRun
        <3> QED
            BY <1>5, <3>1, <3>2
    <2> QED
        BY <2>1, <2>2 DEF RunInv
<1>6. ASSUME NEW c \in Clients, Complete(c) PROVE RunInv'
    <2>1. /\ run[c].id \in Nat /\ log # <<>> /\ log[1].started = run[c].id
          /\ run \in [Clients -> Run]
        BY <1>0, <1>6 DEF Complete, RunInv, Run, IInv, TypeOK
    <2>2. log' = Finalize(log, run[c].id) /\ starts' = starts /\ run'[c] = NoRun
        BY <1>6, <2>1 DEF Complete
    <2>3. /\ log' \in Seq(Entry) /\ Len(log') = Len(log)
          /\ \A i \in DOMAIN log :
                /\ log'[i].started = log[i].started
                /\ log'[i].finished = IF i = 1 THEN run[c].id ELSE log[i].finished
        BY <1>0, <2>1, <2>2, FinalizeProperties
    <2>4. DOMAIN log' = DOMAIN log
        BY <1>0, <2>3, LenProperties
    <2>5. \A d \in Clients : ~ Running(d)'
        BY <2>2, OneClient DEF Running, NoRun
    <2> QED
        BY <2>1, <2>2, <2>3, <2>4, <2>5 DEF RunInv, Finished
<1>7. CASE UNCHANGED vars
    BY <1>7 DEF vars, RunInv, Running
<1> QED
    BY <1>1, <1>2, <1>3, <1>4, <1>5, <1>6, <1>7 DEF Next, Prepare

LEMMA RunInit == Init => RunInv
<1> SUFFICES ASSUME Init PROVE RunInv
    OBVIOUS
<1>1. DOMAIN log = {} /\ \A c \in Clients : ~ Running(c)
    BY EmptySeq DEF Init, Running, NoRun
<1> QED
    BY <1>1 DEF RunInv

(* The time at which a backup finished is stamped by the run that opened   *)
(* its entry, whatever happened to the runs before - as long as one host   *)
(* backs up the set (_finalize_set_log_entry stamps the newest entry).     *)
THEOREM StampsAreOwn == Spec => []StampedByOwnRun
<1>1. IInv /\ RunInv /\ [Next]_vars => (IInv /\ RunInv)'
    BY TypeStep, RunStep
<1>2. RunInv => StampedByOwnRun
    BY DEF RunInv, StampedByOwnRun
<1> QED
    BY TypeInit, RunInit, <1>1, <1>2, PTL DEF Spec

-----------------------------------------------------------------------------
(* What is reported complete                                               *)

(* What rsync has been through, C has as the client's tree had it.         *)
MirrorInv ==
    \A c \in Clients : Running(c) =>
        \A p \in Files \ run[c].todo : C[p] = run[c].source[p]

(* A client that is answered, and does not run dry, has all files to do.   *)
LEMMA MirrorOpen ==
    ASSUME IInv, "dryRun" \notin Faults, NEW c \in Clients,
           ~ Running(c), Start(c)
    PROVE  MirrorInv'
<1>1. run \in [Clients -> Run] /\ \A d \in Clients : d = c
    BY OneClient DEF IInv, TypeOK
<1>2. run' = run \/ run'[c].todo = Mirrored
    <2>1. ASSUME NEW r, run' = [run EXCEPT ![c] = r], r.todo = Mirrored
          PROVE  run'[c].todo = Mirrored
        BY <1>1, <2>1
    <2>2. \A source :
             [id |-> starts + 1, source |-> source, todo |-> Mirrored].todo = Mirrored
        OBVIOUS
    <2> QED
        BY <2>1, <2>2 DEF Start
<1>3. Files \ Mirrored = {}
    BY DEF Mirrored
<1> QED
    BY <1>1, <1>2, <1>3 DEF MirrorInv, Running

LEMMA MirrorStep ==
    ASSUME "dryRun" \notin Faults
    PROVE  IInv /\ MirrorInv /\ [Next]_vars => MirrorInv'
<1> SUFFICES ASSUME IInv, MirrorInv, [Next]_vars PROVE MirrorInv'
    OBVIOUS
<1>0. run \in [Clients -> Run] /\ C \in Snapshot
    BY DEF IInv, TypeOK
<1>1. ASSUME NEW c \in Clients,
             PrepareFirst(c) \/ PrepareNoO(c) \/ PrepareRotate(c)
      PROVE  MirrorInv'
    BY <1>1, MirrorOpen DEF PrepareFirst, PrepareNoO, PrepareRotate, Request
<1>2. ASSUME NEW c \in Clients, RejectMkdir(c) \/ RejectDiff(c) \/ RejectSync(c)
      PROVE  MirrorInv'
    BY <1>2 DEF RejectMkdir, RejectDiff, RejectSync, MirrorInv, Running
<1>3. ASSUME NEW c \in Clients, Transfer(c) PROVE MirrorInv'
    <2>1. PICK p \in run[c].todo :
            /\ C' = [C EXCEPT ![p] = run[c].source[p]]
            /\ run' = [run EXCEPT ![c].todo = @ \ {p}]
        BY <1>3 DEF Transfer
    <2>2. \A d \in Clients : d = c
        BY OneClient
    <2>3. Running(c) /\ run[c] \in Run
        BY <1>0, <1>3 DEF Transfer
    <2>4. /\ run'[c].source = run[c].source
          /\ run'[c].todo = run[c].todo \ {p}
        BY <1>0, <2>1
    <2>5. ASSUME NEW q \in Files \ run'[c].todo PROVE C'[q] = run'[c].source[q]
        <3>1. q \in Paths /\ C \in [Paths -> Value]
            BY <1>0 DEF Paths, Snapshot
        <3>2. CASE q = p
            BY <2>1, <2>4, <3>1, <3>2
        <3>3. CASE q # p
            BY <2>1, <2>3, <2>4, <3>1, <3>3 DEF MirrorInv
        <3> QED
            BY <3>2, <3>3
    <2> QED
        BY <2>2, <2>5 DEF MirrorInv
<1>4. ASSUME NEW c \in Clients, Fail(c) \/ Complete(c) PROVE MirrorInv'
    <2>1. ~ Running(c)'
        BY <1>0, <1>4 DEF Fail, Complete, Running, NoRun
    <2> QED
        BY <2>1, OneClient DEF MirrorInv
<1>5. CASE UNCHANGED vars
    BY <1>5 DEF vars, MirrorInv, Running
<1> QED
    BY <1>1, <1>2, <1>3, <1>4, <1>5 DEF Next, Prepare

(* A run that sends BACKUP_COMPLETE leaves in C, for every file, what the  *)
(* client's tree had when rsync started, whatever an earlier run left      *)
(* there - as long as one host backs up the set and no run is dry          *)
(* (cmd_backup_run, handle_backup_complete).                               *)
THEOREM ReportsAreTrue ==
    ASSUME "dryRun" \notin Faults
    PROVE  Spec => CompleteMeansMirrored
<1>1. Init => IInv /\ MirrorInv
    BY TypeInit DEF Init, MirrorInv, Running, NoRun
<1>2. IInv /\ MirrorInv /\ [Next]_vars => (IInv /\ MirrorInv)'
    BY TypeStep, MirrorStep
<1>3. MirrorInv =>
        \A c \in Clients : Complete(c) => \A p \in Files : C[p] = run[c].source[p]
    BY DEF MirrorInv, Complete
<1> QED
    BY <1>1, <1>2, <1>3, PTL DEF Spec, CompleteMeansMirrored

-----------------------------------------------------------------------------
(* Where the log says a snapshot is                                        *)

(* The metadata file of C is of a later run than that of O, so diff always *)
(* has something to tell and no rotation leaves the log as it was: that is *)
(* what moves the second entry's location on to "diff".                    *)
MetaInv ==
    /\ log # <<>> => C[Meta] \in MetaValue /\ C[Meta].by <= starts
    /\ Len(log) >= 2 => O[Meta] \in MetaValue /\ O[Meta].by < C[Meta].by

PlacesInv ==
    /\ \A i \in DOMAIN log : i >= 3 => log[i].location = "diff"
    /\ log # <<>> /\ Finished(log[1]) => log[1].location = "C"
    /\ Len(log) >= 2 /\ Finished(log[1]) => log[2].location = "O"

LocInv == BookInv /\ MetaInv /\ PlacesInv

(* The metadata of two runs is a difference that diff finds.               *)
LEMMA MetaTells ==
    ASSUME IInv, O[Meta] \in MetaValue, C[Meta] \in MetaValue, O[Meta] # C[Meta]
    PROVE  HasContent(O) /\ ~ SameToDiff(O, C)
<1>1. Meta \in Paths /\ O[Meta] # Absent /\ O[Meta] \notin Blank \cup {Absent}
    BY ContentAssumption DEF Paths
<1>2. Differ(O[Meta], C[Meta])
    BY <1>1 DEF Differ
<1> QED
    BY <1>1, <1>2 DEF HasContent, SameToDiff

(* A new entry goes in front of a log whose second entry is marked.        *)
LEMMA PlacesOpen ==
    ASSUME LocInv, NEW entries \in Seq(Entry), Len(entries) = Len(log),
           Numbered(entries), Open(entries),
           \A i \in DOMAIN log : i # 2 => entries[i] = log[i],
           Len(log) >= 2 => entries[2].location = "diff"
    PROVE  PlacesInv'
<1>1. /\ DOMAIN log' = 1 .. Len(log) + 1 /\ Len(log) \in Nat
      /\ log'[1].finished = Never
      /\ \A i \in 2 .. Len(log) + 1 : log'[i] = entries[i - 1]
    BY OpenedLog DEF LocInv, BookInv
<1>2. DOMAIN log = 1 .. Len(log)
    BY LenProperties DEF LocInv, BookInv, IInv, TypeOK
<1>3. ASSUME NEW i \in DOMAIN log', i >= 3 PROVE log'[i].location = "diff"
    <2>1. i - 1 \in DOMAIN log /\ i \in 2 .. Len(log) + 1
        BY <1>1, <1>2, <1>3
    <2>2. log'[i] = entries[i - 1]
        BY <1>1, <2>1
    <2>3. CASE i = 3
        <3>1. Len(log) >= 2 /\ i - 1 = 2
            BY <1>2, <2>1, <2>3
        <3> QED
            BY <2>2, <3>1
    <2>4. CASE i # 3
        <3>1. i - 1 >= 3 /\ i - 1 # 2
            BY <1>1, <1>3, <2>4
        <3>2. log[i - 1].location = "diff"
            BY <2>1, <3>1 DEF LocInv, PlacesInv
        <3> QED
            BY <2>1, <2>2, <3>1, <3>2
    <2> QED
        BY <2>3, <2>4
<1> QED
    BY <1>1, <1>3 DEF PlacesInv, Finished

LEMMA MetaOpen ==
    ASSUME LocInv, NEW entries \in Seq(Entry), Len(entries) = Len(log),
           Numbered(entries), Open(entries), starts' = starts + 1,
           O' = C \/ log = <<>>
    PROVE  MetaInv'
<1>1. /\ Len(log') = Len(log) + 1 /\ Len(log) \in Nat /\ starts \in Nat
      /\ C'[Meta] = [by |-> starts + 1, done |-> FALSE]
    BY OpenedLog DEF LocInv, BookInv, IInv, TypeOK
<1>2. C'[Meta] \in MetaValue /\ C'[Meta].by = starts + 1
    BY <1>1 DEF MetaValue
<1>3. ASSUME Len(log') >= 2 PROVE O'[Meta] \in MetaValue /\ O'[Meta].by < C'[Meta].by
    <2>1. log # <<>>
        BY <1>1, <1>3
    <2>2. O' = C /\ C[Meta] \in MetaValue /\ C[Meta].by <= starts
        BY <2>1 DEF LocInv, MetaInv
    <2>3. C[Meta].by \in Nat
        BY <2>2 DEF MetaValue
    <2> QED
        BY <1>1, <1>2, <2>2, <2>3
<1> QED
    BY <1>1, <1>2, <1>3 DEF MetaInv

LEMMA LocStep ==
    ASSUME ~ MirrorsRoot, "sync" \notin Faults
    PROVE  LocInv /\ [Next]_vars => LocInv'
<1> SUFFICES ASSUME LocInv, [Next]_vars PROVE LocInv'
    OBVIOUS
<1>0. /\ BookInv /\ BookInv' /\ IInv /\ IInv' /\ MetaInv /\ PlacesInv
      /\ log \in Seq(Entry) /\ Numbered(log) /\ starts \in Nat
      /\ DOMAIN log = 1 .. Len(log) /\ Len(log) \in Nat
      /\ C \in Snapshot /\ O \in Snapshot
    BY BookStep, LenProperties DEF LocInv, BookInv, IInv, TypeOK
<1>1. ASSUME NEW c \in Clients, PrepareFirst(c) \/ PrepareNoO(c) PROVE LocInv'
    <2>1. log = <<>> /\ Open(log) /\ starts' = starts + 1
        BY <1>0, <1>1 DEF PrepareFirst, PrepareNoO, BookInv, Request
    <2>2. MetaInv'
        BY <1>0, <2>1, MetaOpen
    <2>3. ~ Len(log) >= 2
        BY <2>1
    <2>4. PlacesInv'
        BY <1>0, <2>1, <2>3, PlacesOpen, Zenon
    <2> QED
        BY <1>0, <2>2, <2>4 DEF LocInv
<1>2. ASSUME NEW c \in Clients, PrepareRotate(c) PROVE LocInv'
    <2>1. CreateDiff /\ Open(LogAfterDiff) /\ O' = C /\ starts' = starts + 1
        BY <1>2 DEF PrepareRotate, Request
    <2>2. /\ LogAfterDiff \in Seq(Entry) /\ Len(LogAfterDiff) = Len(log)
          /\ Numbered(LogAfterDiff)
          /\ \A i \in DOMAIN log : i # 2 => LogAfterDiff[i] = log[i]
        BY <1>0, <2>1, LogAfterDiffKeeps
    <2>3. ASSUME Len(log) >= 2 PROVE LogAfterDiff[2].location = "diff"
        <3>1. log # <<>>
            BY <2>3
        <3>2. /\ O[Meta] \in MetaValue /\ C[Meta] \in MetaValue
              /\ O[Meta].by < C[Meta].by
            BY <1>0, <2>3, <3>1 DEF MetaInv
        <3>3. O[Meta] # C[Meta]
            BY <3>2 DEF MetaValue
        <3>4. LogAfterDiff = UpdateForDiff(log, Len(archives'))
            BY <1>0, <3>2, <3>3, MetaTells DEF LogAfterDiff
        <3>5. Len(archives') \in Nat
            BY <1>0, <2>1, CreateDiffTypes, LenProperties
        <3> QED
            BY <1>0, <2>3, <3>4, <3>5, UpdateForDiffProperties
    <2>4. MetaInv'
        BY <1>0, <2>1, <2>2, MetaOpen
    <2>5. PlacesInv'
        BY <1>0, <2>1, <2>2, <2>3, PlacesOpen
    <2> QED
        BY <1>0, <2>4, <2>5 DEF LocInv
<1>3. ASSUME NEW c \in Clients, RejectMkdir(c) \/ RejectDiff(c) PROVE LocInv'
    <2>1. C' = C /\ O' = O /\ log' = log /\ starts' = starts + 1
        BY <1>3 DEF RejectMkdir, RejectDiff, Request
    <2>2. MetaInv'
        BY <1>0, <2>1 DEF MetaInv, MetaValue
    <2>3. PlacesInv'
        BY <1>0, <2>1 DEF PlacesInv
    <2> QED
        BY <1>0, <2>2, <2>3 DEF LocInv
<1>4. ASSUME NEW c \in Clients, RejectSync(c) PROVE LocInv'
    BY <1>4 DEF RejectSync
<1>5. ASSUME NEW c \in Clients, Transfer(c) PROVE LocInv'
    <2>1. PICK p \in run[c].todo : C' = [C EXCEPT ![p] = run[c].source[p]]
        BY <1>5 DEF Transfer
    <2>2. p # Meta
        <3>1. run[c].todo \subseteq Files
            BY <1>0 DEF IInv, TypeOK, Run, Mirrored
        <3> QED
            BY <2>1, <3>1, ContentAssumption
    <2>3. C'[Meta] = C[Meta]
        BY <1>0, <2>1, <2>2 DEF Snapshot
    <2>4. O' = O /\ log' = log /\ starts' = starts
        BY <1>5 DEF Transfer
    <2> QED
        BY <1>0, <2>3, <2>4 DEF LocInv, MetaInv, PlacesInv
<1>6. ASSUME NEW c \in Clients, Fail(c) PROVE LocInv'
    BY <1>0, <1>6 DEF Fail, LocInv, MetaInv, PlacesInv
<1>7. ASSUME NEW c \in Clients, Complete(c) PROVE LocInv'
    <2>1. /\ C' = [C EXCEPT ![Meta] = [by |-> StartedBy(C[Meta]), done |-> TRUE]]
          /\ log' = Finalize(log, run[c].id) /\ O' = O /\ starts' = starts
          /\ run[c].id \in Nat
        BY <1>0, <1>7 DEF Complete, Run, IInv, TypeOK
    <2>2. /\ log' \in Seq(Entry) /\ Len(log') = Len(log)
          /\ \A i \in DOMAIN log :
                log'[i].location =
                    IF i = 1 THEN "C" ELSE IF i = 2 THEN "O" ELSE log[i].location
        BY <1>0, <2>1, FinalizeProperties
    <2>3. DOMAIN log' = DOMAIN log /\ (log' = <<>> <=> log = <<>>)
        BY <1>0, <2>2, LenProperties, EmptySeq
    <2>4. log # <<>> => 1 \in DOMAIN log
        BY <1>0, EmptySeq
    <2>5. C'[Meta] = [by |-> StartedBy(C[Meta]), done |-> TRUE]
        BY <1>0, <2>1 DEF Snapshot, Paths
    <2>6. C[Meta] \in MetaValue => C'[Meta] \in MetaValue /\ C'[Meta].by = C[Meta].by
        BY <2>5 DEF StartedBy, MetaValue
    <2>7. MetaInv'
        BY <1>0, <2>1, <2>2, <2>3, <2>6 DEF MetaInv
    <2>8. PlacesInv'
        BY <1>0, <2>2, <2>3, <2>4 DEF PlacesInv
    <2> QED
        BY <1>0, <2>7, <2>8 DEF LocInv
<1>8. CASE UNCHANGED vars
    BY <1>0, <1>8 DEF vars, LocInv, MetaInv, PlacesInv
<1> QED
    BY <1>1, <1>2, <1>3, <1>4, <1>5, <1>6, <1>7, <1>8 DEF Next, Prepare

(* The log tells the truth about where each snapshot is whenever its       *)
(* newest entry is finished, for any content, if rsync does not delete the *)
(* metadata file and no copy of C over O stops half way, and archives of   *)
(* one second do not change that (_update_set_log_for_diff,                *)
(* _finalize_set_log_entry).                                               *)
THEOREM LocationsHold ==
    ASSUME ~ MirrorsRoot, "sync" \notin Faults
    PROVE  Spec => []LocationsTrue
<1>1. Init => LocInv
    <2> SUFFICES ASSUME Init PROVE LocInv
        OBVIOUS
    <2>1. BookInv /\ log = <<>>
        BY BookInit DEF Init
    <2>2. DOMAIN log = {} /\ Len(log) = 0
        BY <2>1, EmptySeq
    <2> QED
        BY <2>1, <2>2 DEF LocInv, MetaInv, PlacesInv
<1>2. LocInv /\ [Next]_vars => LocInv'
    BY LocStep
<1>3. LocInv => LocationsTrue
    <2> SUFFICES ASSUME LocInv, log # <<>>, Finished(log[1]), NEW i \in DOMAIN log
                 PROVE  log[i].location =
                          IF i = 1 THEN "C" ELSE IF i = 2 THEN "O" ELSE "diff"
        BY DEF LocationsTrue
    <2>1. i \in 1 .. Len(log) /\ Len(log) \in Nat
        BY LenProperties DEF LocInv, BookInv, IInv, TypeOK
    <2> QED
        BY <2>1 DEF LocInv, PlacesInv
<1> QED
    BY <1>1, <1>2, <1>3, PTL DEF Spec

-----------------------------------------------------------------------------
(* Nothing leaves the disk                                                 *)

(* A snapshot is behind a newer one: an archive leads from that to it.     *)
Behind(patches, new, old) ==
    \/ old = Empty
    \/ \E a \in DOMAIN patches : ReverseApply(new, patches[a]) = old

(* While a run is under way O is what the second entry held; only between  *)
(* a copy that stopped half way and the retry it is not, and then C, which *)
(* nobody touches, leads to it through the archive made before the copy.   *)
DiskInv ==
    /\ BookInv
    /\ \A i \in 3 .. Len(log) : Behind(archives, Version(i - 1), Version(i))
    /\ Len(log) >= 2 => \/ O = Version(2)
                        \/ /\ \A c \in Clients : ~ Running(c)
                           /\ Behind(archives, C, Version(2))

(* No archive is lost, and what O held is behind C when it is archived.    *)
LEMMA CreateDiffKeeps ==
    ASSUME IInv, TextOnly, "sameSecond" \notin Faults, CreateDiff
    PROVE  /\ \A new, old : Behind(archives, new, old) => Behind(archives', new, old)
           /\ Behind(archives', C, O)
           /\ \A k \in DOMAIN archives : /\ k \in DOMAIN archives'
                                         /\ archives'[k] = archives[k]
<1>1. archives \in Seq(Patch) /\ O \in Snapshot /\ C \in Snapshot
    BY DEF IInv, TypeOK
<1>2. PatchOf(O, C) \in Patch
    BY <1>1, PatchTypes DEF Snapshot, Patch, PatchOf
<1>3. archives' = archives \/ archives' = Append(archives, PatchOf(O, C))
    BY DEF CreateDiff, Archived
<1>4. ASSUME archives' = Append(archives, PatchOf(O, C))
      PROVE  /\ Len(archives) + 1 \in DOMAIN archives'
             /\ archives'[Len(archives) + 1] = PatchOf(O, C)
             /\ \A k \in DOMAIN archives : /\ k \in DOMAIN archives'
                                           /\ archives'[k] = archives[k]
    <2>1. archives' \in Seq(Patch) /\ Len(archives') = Len(archives) + 1
        BY <1>1, <1>2, <1>4
    <2>2. /\ DOMAIN archives = 1 .. Len(archives) /\ Len(archives) \in Nat
          /\ DOMAIN archives' = 1 .. Len(archives')
        BY <1>1, <2>1, LenProperties
    <2>3. /\ archives'[Len(archives) + 1] = PatchOf(O, C)
          /\ \A k \in 1 .. Len(archives) : archives'[k] = archives[k]
        BY <1>1, <1>2, <1>4
    <2> QED
        BY <2>1, <2>2, <2>3
<1>5. \A k \in DOMAIN archives : k \in DOMAIN archives' /\ archives'[k] = archives[k]
    BY <1>3, <1>4
<1>6. ASSUME NEW new, NEW old, Behind(archives, new, old)
      PROVE  Behind(archives', new, old)
    BY <1>5, <1>6 DEF Behind
<1>7. Behind(archives', C, O)
    <2>1. CASE HasContent(O)
        <3>1. archives' = Append(archives, PatchOf(O, C))
            BY <2>1 DEF CreateDiff, Archived
        <3>2. ReverseApply(C, PatchOf(O, C)) = O
            BY <1>1, PatchRestores
        <3> QED
            BY <1>4, <3>1, <3>2 DEF Behind
    <2>2. CASE ~ HasContent(O)
        BY <1>1, <2>2 DEF Behind, HasContent, Empty, Snapshot
    <2> QED
        BY <2>1, <2>2
<1> QED
    BY <1>5, <1>6, <1>7

(* A step during which no run is under way, and which moves neither C nor  *)
(* the history, keeps the snapshots behind each other.                     *)
LEMMA DiskFrame ==
    ASSUME DiskInv, BookInv', held' = held, Len(log') = Len(log),
           \A new, old : Behind(archives, new, old) => Behind(archives', new, old),
           Len(log) >= 2 => \/ O' = Version(2)
                            \/ /\ \A c \in Clients : ~ Running(c)'
                               /\ Behind(archives', C', Version(2))
    PROVE  DiskInv'
<1>1. IInv /\ IInv' /\ Len(log) \in Nat
    BY LenProperties DEF DiskInv, BookInv, IInv, TypeOK
<1>2. \A i \in 2 .. Len(log) : Version(i)' = Version(i)
    BY <1>1, VersionsStay
<1>3. ASSUME NEW i \in 3 .. Len(log')
      PROVE  Behind(archives', Version(i - 1)', Version(i)')
    <2>1. i \in 2 .. Len(log) /\ i - 1 \in 2 .. Len(log) /\ i \in 3 .. Len(log)
        BY <1>1
    <2>2. Behind(archives, Version(i - 1), Version(i))
        BY <2>1 DEF DiskInv
    <2>3. Version(i - 1)' = Version(i - 1) /\ Version(i)' = Version(i)
        BY <1>2, <2>1
    <2> QED
        BY <2>2, <2>3
<1>4. Len(log') >= 2 => Version(2)' = Version(2)
    BY <1>1, <1>2
<1> QED
    BY <1>3, <1>4 DEF DiskInv

(* A rotation: C moves to O, and what was the second entry's is behind it. *)
LEMMA DiskRotate ==
    ASSUME DiskInv, BookInv', TextOnly, "sameSecond" \notin Faults,
           CreateDiff, Open(LogAfterDiff), O' = C, dirs' = {"C", "O"}
    PROVE  DiskInv'
<1>1. /\ BookInv /\ IInv /\ IInv' /\ Len(log) \in Nat
      /\ LogAfterDiff \in Seq(Entry) /\ Len(LogAfterDiff) = Len(log)
      /\ Numbered(LogAfterDiff)
    BY LogAfterDiffKeeps, LenProperties DEF DiskInv, BookInv, IInv, TypeOK
<1>2. Len(log') = Len(log) + 1
    BY <1>1, OpenedLog
<1>3. CASE log = <<>>
    <2>1. Len(log') = 1
        BY <1>2, <1>3
    <2> QED
        BY <2>1 DEF DiskInv
<1>4. CASE log # <<>>
    <2>1. /\ Len(log) \in Nat \ {0} /\ Len(held) = Len(log) - 1
          /\ held'[Len(log)] = C
          /\ \A k \in 1 .. Len(log) - 1 : held'[k] = held[k]
        BY <1>1, <1>4, BookOpen
    <2>2. /\ Version(2)' = C
          /\ \A i \in 2 .. Len(log) : Version(i + 1)' = Version(i)
        BY <1>1, <1>2, <1>4, <2>1, VersionsMove
    <2>3. /\ \A new, old : Behind(archives, new, old) => Behind(archives', new, old)
          /\ Behind(archives', C, O)
        BY <1>1, CreateDiffKeeps
    <2>4. ASSUME NEW i \in 3 .. Len(log')
          PROVE  Behind(archives', Version(i - 1)', Version(i)')
        <3> DEFINE j == i - 1
        <3>1. j \in 2 .. Len(log) /\ i = j + 1
            BY <1>1, <1>2
        <3>2. Version(i)' = Version(j)
            BY <2>2, <3>1
        <3>3. CASE j = 2
            <4>1. Version(j)' = C
                BY <2>2, <3>3
            <4>2. Behind(archives', C, Version(2))
                BY <1>1, <2>3, <3>1, <3>3 DEF DiskInv
            <4> QED
                BY <3>2, <3>3, <4>1, <4>2
        <3>4. CASE j # 2
            <4>1. j \in 3 .. Len(log) /\ j - 1 \in 2 .. Len(log) /\ j = (j - 1) + 1
                BY <1>1, <3>1, <3>4
            <4>2. Version(j)' = Version(j - 1)
                BY <2>2, <4>1
            <4>3. Behind(archives, Version(j - 1), Version(j))
                BY <4>1 DEF DiskInv
            <4> QED
                BY <2>3, <3>2, <4>2, <4>3
        <3> QED
            BY <3>3, <3>4
    <2> QED
        BY <2>2, <2>4 DEF DiskInv
<1> QED
    BY <1>3, <1>4

LEMMA DiskStep ==
    ASSUME TextOnly, "sameSecond" \notin Faults
    PROVE  DiskInv /\ [Next]_vars => DiskInv'
<1> SUFFICES ASSUME DiskInv, [Next]_vars PROVE DiskInv'
    OBVIOUS
<1>0. /\ BookInv /\ BookInv' /\ IInv /\ IInv' /\ Len(log) \in Nat
      /\ log \in Seq(Entry) /\ Numbered(log) /\ run \in [Clients -> Run]
    BY BookStep, LenProperties DEF DiskInv, BookInv, IInv, TypeOK
<1>1. ASSUME NEW c \in Clients, PrepareFirst(c) \/ PrepareNoO(c) PROVE DiskInv'
    <2>1. log = <<>> /\ Open(log)
        BY <1>0, <1>1 DEF PrepareFirst, PrepareNoO, BookInv
    <2>2. Len(log') = Len(log) + 1
        BY <1>0, <2>1, OpenedLog
    <2>3. Len(log') = 1
        BY <2>1, <2>2
    <2> QED
        BY <1>0, <2>3 DEF DiskInv
<1>2. ASSUME NEW c \in Clients, PrepareRotate(c) PROVE DiskInv'
    <2>1. /\ CreateDiff /\ Open(LogAfterDiff) /\ O' = C
          /\ dirs' = dirs /\ {"C", "O"} \subseteq dirs
        BY <1>2 DEF PrepareRotate
    <2>2. dirs' = {"C", "O"}
        BY <1>0, <2>1 DEF IInv, TypeOK
    <2> QED
        BY <1>0, <2>1, <2>2, DiskRotate
<1>3. ASSUME NEW c \in Clients, RejectMkdir(c) \/ RejectDiff(c) PROVE DiskInv'
    <2>1. /\ C' = C /\ O' = O /\ archives' = archives /\ log' = log
          /\ held' = held /\ run' = run
        BY <1>3 DEF RejectMkdir, RejectDiff
    <2>2. Len(log) >= 2 => \/ O' = Version(2)
                           \/ /\ \A d \in Clients : ~ Running(d)'
                              /\ Behind(archives', C', Version(2))
        BY <2>1 DEF DiskInv, Running
    <2> QED
        BY <1>0, <2>1, <2>2, DiskFrame
<1>4. ASSUME NEW c \in Clients, RejectSync(c) PROVE DiskInv'
    <2>1. /\ C' = C /\ CreateDiff /\ log' = LogAfterDiff
          /\ held' = held /\ run' = run /\ ~ Running(c)
        BY <1>4 DEF RejectSync, Request
    <2>2. Len(log') = Len(log)
        BY <1>0, <2>1, LogAfterDiffKeeps
    <2>3. /\ \A new, old : Behind(archives, new, old) => Behind(archives', new, old)
          /\ Behind(archives', C, O)
        BY <1>0, <2>1, CreateDiffKeeps
    <2>4. \A d \in Clients : ~ Running(d)'
        BY <2>1, OneClient DEF Running
    <2>5. Len(log) >= 2 => Behind(archives', C', Version(2))
        BY <2>1, <2>3 DEF DiskInv
    <2> QED
        BY <1>0, <2>1, <2>2, <2>3, <2>4, <2>5, DiskFrame
<1>5. ASSUME NEW c \in Clients, Transfer(c) \/ Fail(c) PROVE DiskInv'
    <2>1. /\ O' = O /\ archives' = archives /\ log' = log /\ held' = held /\ Running(c)
        BY <1>5 DEF Transfer, Fail
    <2>2. Len(log) >= 2 => O' = Version(2)
        BY <2>1 DEF DiskInv
    <2> QED
        BY <1>0, <2>1, <2>2, DiskFrame
<1>6. ASSUME NEW c \in Clients, Complete(c) PROVE DiskInv'
    <2>1. run[c].id \in Nat
        BY <1>0 DEF Run
    <2>2. /\ O' = O /\ archives' = archives /\ held' = held /\ Running(c)
          /\ log' = Finalize(log, run[c].id)
        BY <1>6 DEF Complete
    <2>3. Len(log') = Len(log)
        BY <1>0, <2>1, <2>2, FinalizeProperties
    <2>4. Len(log) >= 2 => O' = Version(2)
        BY <2>2 DEF DiskInv
    <2> QED
        BY <1>0, <2>2, <2>3, <2>4, DiskFrame
<1>7. CASE UNCHANGED vars
    <2>1. /\ C' = C /\ O' = O /\ archives' = archives /\ log' = log
          /\ held' = held /\ run' = run
        BY <1>7 DEF vars
    <2>2. Len(log) >= 2 => \/ O' = Version(2)
                           \/ /\ \A d \in Clients : ~ Running(d)'
                              /\ Behind(archives', C', Version(2))
        BY <2>1 DEF DiskInv, Running
    <2> QED
        BY <1>0, <2>1, <2>2, DiskFrame
<1> QED
    BY <1>1, <1>2, <1>3, <1>4, <1>5, <1>6, <1>7 DEF Next, Prepare

(* Whatever fails - rsync, the answer, diff, the copy of C over O - each   *)
(* snapshot the log stands for is still in O or behind an archive, for one *)
(* host that backs up text files, and archives of distinct seconds; C may  *)
(* lose its metadata file and runs may be dry (prepare_backup,             *)
(* _create_diff).                                                          *)
THEOREM NothingIsLost ==
    ASSUME TextOnly, "sameSecond" \notin Faults
    PROVE  Spec => []StillOnDisk
<1>1. Init => DiskInv
    <2> SUFFICES ASSUME Init PROVE DiskInv
        OBVIOUS
    <2>1. BookInv /\ Len(log) = 0
        BY BookInit DEF Init
    <2> QED
        BY <2>1 DEF DiskInv
<1>2. DiskInv /\ [Next]_vars => DiskInv'
    BY DiskStep
<1>3. DiskInv => StillOnDisk
    <2> SUFFICES ASSUME DiskInv, NEW i \in 2 .. Len(log)
                 PROVE  \/ Version(i) = Empty
                        \/ i = 2 /\ O = Version(2)
                        \/ \E a \in DOMAIN archives :
                              ReverseApply(Version(i - 1), archives[a]) = Version(i)
        BY DEF StillOnDisk
    <2>1. Len(log) \in Nat /\ Version(1) = C
        BY LenProperties DEF DiskInv, BookInv, IInv, TypeOK, Version
    <2>2. CASE i = 2
        <3>1. i - 1 = 1 /\ Len(log) >= 2
            BY <2>1, <2>2
        <3>2. O = Version(2) \/ Behind(archives, C, Version(2))
            BY <3>1 DEF DiskInv
        <3> QED
            BY <2>1, <2>2, <3>1, <3>2 DEF Behind
    <2>3. CASE i # 2
        <3>1. i \in 3 .. Len(log)
            BY <2>1, <2>3
        <3> QED
            BY <3>1 DEF DiskInv, Behind
    <2> QED
        BY <2>2, <2>3
<1> QED
    BY <1>1, <1>2, <1>3, PTL DEF Spec

-----------------------------------------------------------------------------
(* What can be restored                                                    *)

(* The recursion of Restored, as an equation for any function of the log.  *)
RestoreStep(r, i) ==
    CASE i = 1 -> C
      [] i = 2 -> O
      [] OTHER -> IF log[i].diff = NoDiff THEN r[i - 1]
                  ELSE ReverseApply(r[i - 1], archives[log[i].diff])

(* The equation has a solution - the history of C - and only one.          *)
LEMMA RestoredIsVersion ==
    ASSUME Unbroken
    PROVE  \A i \in DOMAIN log : Restored[i] = Version(i)
<1> DEFINE history == [i \in DOMAIN log |-> Version(i)]
           wrong == {i \in DOMAIN log : Restored[i] # Version(i)}
<1>0. /\ DOMAIN log = 1 .. Len(log) /\ Len(log) \in Nat
      /\ \A i \in 2 .. Len(log) : Link(i)
    <2>1. log \in Seq(Entry)
        BY DEF Unbroken, IInv, TypeOK
    <2> QED
        BY <2>1, LenProperties DEF Unbroken, ChainInv
<1>1. ASSUME NEW i \in DOMAIN log PROVE Version(i) = RestoreStep(history, i)
    <2>1. CASE i = 1
        BY <2>1 DEF Version, RestoreStep
    <2>2. CASE i = 2
        <3>1. Link(2)
            BY <1>0, <2>2
        <3> QED
            BY <2>2, <3>1 DEF Link, RestoreStep
    <2>3. CASE i # 1 /\ i # 2
        <3>1. Link(i) /\ i - 1 \in DOMAIN log
            BY <1>0, <2>3
        <3>2. history[i - 1] = Version(i - 1)
            BY <3>1
        <3> HIDE DEF history
        <3> QED
            BY <2>3, <3>1, <3>2 DEF Link, RestoreStep
    <2> QED
        BY <2>1, <2>2, <2>3
<1>2. history = [i \in DOMAIN log |-> RestoreStep(history, i)]
    BY <1>1
<1>3. Restored = CHOOSE r : r = [i \in DOMAIN log |-> RestoreStep(r, i)]
    BY DEF Restored, RestoreStep
<1> HIDE DEF history
<1>4. Restored = [i \in DOMAIN log |-> RestoreStep(Restored, i)]
    BY <1>2, <1>3
<1>5. ASSUME wrong # {} PROVE FALSE
    <2>0. wrong \subseteq Nat
        BY <1>0
    <2> HIDE DEF wrong
    <2>1. PICK least \in wrong : \A n \in wrong : least <= n
        BY <1>5, <2>0, LeastNumber
    <2>2. least \in DOMAIN log /\ Restored[least] # Version(least)
        BY DEF wrong
    <2>3. Restored[least] = RestoreStep(Restored, least)
        BY <1>4, <2>2
    <2>4. CASE least = 1 \/ least = 2
        BY <1>1, <2>2, <2>3, <2>4 DEF RestoreStep
    <2>5. CASE least # 1 /\ least # 2
        <3>1. least - 1 \in DOMAIN log /\ ~ least <= least - 1
            BY <1>0, <2>2, <2>5
        <3>2. Restored[least - 1] = Version(least - 1)
            BY <2>1, <3>1 DEF wrong
        <3>3. Version(least) = RestoreStep(history, least)
            BY <1>1, <2>2
        <3>4. history[least - 1] = Version(least - 1)
            BY <3>1 DEF history
        <3> QED
            BY <2>2, <2>3, <2>5, <3>2, <3>3, <3>4 DEF RestoreStep
    <2> QED
        BY <2>4, <2>5
<1> QED
    BY <1>5

(* C, O and the patches give back every finished backup as it was, and the *)
(* unfinished ones too, under the hypotheses of the chain: a tree of text  *)
(* files in particular, without which it is false (prepare_backup).        *)
THEOREM HistoryIsRecreated ==
    ASSUME Sound
    PROVE  Spec => []RecreatedFromDiffs
<1>1. Init => Unbroken
    BY UnbrokenInit
<1>2. Unbroken /\ [Next]_vars => Unbroken'
    BY ChainStep
<1>3. Unbroken => RecreatedFromDiffs
    BY RestoredIsVersion DEF RecreatedFromDiffs
<1> QED
    BY <1>1, <1>2, <1>3, PTL DEF Spec

-----------------------------------------------------------------------------
(* The promise of BackupArchive                                            *)

(* The archive by the history instead of by the disk.                      *)
Saved(i) == [run |-> log[i].finished, tree |-> TreeOf(Version(i))]
Kept     == {Saved(i) : i \in {j \in DOMAIN log : Finished(log[j])}}

LEMMA ArchiveIsKept == ASSUME Unbroken PROVE Archive = Kept
BY RestoredIsVersion DEF Archive, Kept, Saved

LEMMA BookOfUnbroken == ASSUME Unbroken PROVE BookInv
BY DEF Unbroken, ChainInv, BookInv

(* An entry that is opened is not finished, and moves the others down.     *)
LEMMA KeptOpen ==
    ASSUME Unbroken, IInv', NEW entries \in Seq(Entry), Len(entries) = Len(log),
           Numbered(entries), Open(entries), dirs' = {"C", "O"},
           \A i \in DOMAIN log : entries[i].finished = log[i].finished
    PROVE  Kept' = Kept
<1>0. /\ IInv /\ BookInv /\ log \in Seq(Entry)
      /\ DOMAIN log = 1 .. Len(log) /\ Len(log) \in Nat
    BY BookOfUnbroken, LenProperties DEF Unbroken, IInv, TypeOK
<1>1. /\ DOMAIN log' = 1 .. Len(log) + 1 /\ Len(log') = Len(log) + 1
      /\ log'[1].finished = Never
      /\ \A i \in 2 .. Len(log) + 1 : log'[i] = entries[i - 1]
    BY <1>0, OpenedLog
<1>2. ASSUME NEW i \in DOMAIN log
      PROVE  /\ i + 1 \in DOMAIN log'
             /\ log'[i + 1].finished = log[i].finished
             /\ Version(i + 1)' = Version(i)
    <2>1. i + 1 \in 2 .. Len(log) + 1 /\ (i + 1) - 1 = i
        BY <1>0
    <2>2. log'[i + 1].finished = log[i].finished
        BY <1>1, <2>1
    <2>3. log # <<>>
        BY <1>0
    <2>4. /\ Len(log) \in Nat \ {0} /\ Len(held) = Len(log) - 1
          /\ held'[Len(log)] = C
          /\ \A k \in 1 .. Len(log) - 1 : held'[k] = held[k]
        BY <1>0, <2>3, BookOpen
    <2>5. /\ Version(2)' = C
          /\ \A k \in 2 .. Len(log) : Version(k + 1)' = Version(k)
        BY <1>0, <1>1, <2>3, <2>4, VersionsMove
    <2>6. CASE i = 1
        BY <1>1, <2>1, <2>2, <2>5, <2>6 DEF Version
    <2>7. CASE i # 1
        BY <1>0, <1>1, <2>1, <2>2, <2>5, <2>7
    <2> QED
        BY <2>6, <2>7
<1>3. ASSUME NEW i \in DOMAIN log
      PROVE  Saved(i + 1)' = Saved(i) /\ (Finished(log'[i + 1]) <=> Finished(log[i]))
    BY <1>2 DEF Saved, Finished
<1>4. ASSUME NEW k \in DOMAIN log', Finished(log'[k])
      PROVE  k - 1 \in DOMAIN log /\ k = (k - 1) + 1
    BY <1>0, <1>1, <1>4 DEF Finished
<1>5. ASSUME NEW k \in DOMAIN log', Finished(log'[k])
      PROVE  Saved(k)' \in Kept
    <2>1. k - 1 \in DOMAIN log /\ k = (k - 1) + 1
        BY <1>4, <1>5
    <2>2. Saved((k - 1) + 1)' = Saved(k - 1) /\ Finished(log[k - 1])
        BY <1>3, <1>5, <2>1
    <2> QED
        BY <2>1, <2>2 DEF Kept
<1>6. ASSUME NEW i \in DOMAIN log, Finished(log[i])
      PROVE  Saved(i) \in Kept'
    BY <1>2, <1>3, <1>6 DEF Kept
<1> QED
    BY <1>5, <1>6 DEF Kept

(* Nothing else than C and the log makes the archive.                      *)
LEMMA KeptFrame ==
    ASSUME IInv, IInv', held' = held, log' = log,
           C' = C \/ (log # <<>> /\ ~ Finished(log[1]))
    PROVE  Kept' = Kept
<1>0. DOMAIN log = 1 .. Len(log) /\ Len(log) \in Nat
    BY LenProperties DEF IInv, TypeOK
<1>1. ASSUME NEW i \in DOMAIN log, Finished(log[i]) PROVE Saved(i)' = Saved(i)
    <2>1. CASE i = 1
        BY <1>1, <2>1 DEF Saved, Version
    <2>2. CASE i # 1
        <3>1. i \in 2 .. Len(log)
            BY <1>0, <2>2
        <3>2. Version(i)' = Version(i)
            BY <3>1, VersionsStay
        <3> QED
            BY <3>2 DEF Saved
    <2> QED
        BY <2>1, <2>2
<1> QED
    BY <1>1 DEF Kept

(* A run that completes adds its tree.                                     *)
LEMMA KeptComplete ==
    ASSUME Unbroken, IInv', RunInv, MirrorInv, NEW c \in Clients, Complete(c)
    PROVE  Kept' = Kept \cup {[run |-> run[c].id, tree |-> TreeOf(run[c].source)]}
<1>0. /\ IInv /\ log \in Seq(Entry) /\ C \in Snapshot
      /\ DOMAIN log = 1 .. Len(log) /\ Len(log) \in Nat /\ run[c].id \in Nat
    BY LenProperties DEF Unbroken, IInv, TypeOK, Run
<1>1. /\ log # <<>> /\ ~ Finished(log[1]) /\ run[c].id # 0 /\ run[c].todo = {}
      /\ log' = Finalize(log, run[c].id) /\ held' = held
      /\ C' = [C EXCEPT ![Meta] = [by |-> StartedBy(C[Meta]), done |-> TRUE]]
    BY DEF Complete, Running, RunInv
<1>2. /\ Len(log') = Len(log) /\ log' \in Seq(Entry)
      /\ \A i \in DOMAIN log :
            log'[i].finished = IF i = 1 THEN run[c].id ELSE log[i].finished
    BY <1>0, <1>1, FinalizeProperties
<1>3. DOMAIN log' = DOMAIN log /\ 1 \in DOMAIN log
    BY <1>0, <1>1, <1>2, LenProperties, EmptySeq
<1>4. TreeOf(C') = TreeOf(run[c].source)
    <2>1. \A p \in Files : C[p] = run[c].source[p]
        BY <1>1 DEF MirrorInv, Complete
    <2>2. \A p \in Files : C'[p] = C[p]
        BY <1>0, <1>1, ContentAssumption DEF Snapshot, Paths
    <2> QED
        BY <2>1, <2>2 DEF TreeOf
<1> DEFINE new == [run |-> run[c].id, tree |-> TreeOf(run[c].source)]
<1>5. Saved(1)' = new /\ Finished(log'[1])
    BY <1>1, <1>2, <1>3, <1>4 DEF Saved, Version, Finished, Never
<1> HIDE DEF new
<1>6. ASSUME NEW i \in DOMAIN log, i # 1
      PROVE  Saved(i)' = Saved(i) /\ (Finished(log'[i]) <=> Finished(log[i]))
    <2>1. i \in 2 .. Len(log)
        BY <1>0, <1>6
    <2>2. Version(i)' = Version(i)
        BY <1>0, <1>1, <1>2, <2>1, VersionsStay
    <2> QED
        BY <1>2, <1>6, <2>2 DEF Saved, Finished
<1>7. ASSUME NEW i \in DOMAIN log', Finished(log'[i])
      PROVE  Saved(i)' \in Kept \cup {new}
    BY <1>3, <1>5, <1>6, <1>7 DEF Kept
<1>8. ASSUME NEW i \in DOMAIN log, Finished(log[i])
      PROVE  Saved(i) \in Kept'
    <2>1. i # 1
        BY <1>1, <1>8
    <2> QED
        BY <1>3, <1>6, <1>8, <2>1 DEF Kept
<1>9. new \in Kept'
    BY <1>3, <1>5 DEF Kept
<1>10. Kept' \subseteq Kept \cup {new}
    BY <1>7 DEF Kept
<1>11. Kept \subseteq Kept'
    BY <1>8 DEF Kept
<1> QED
    BY <1>9, <1>10, <1>11 DEF new

(* The backup that client c's run is making.                               *)
LEMMA PendingIs ==
    ASSUME NEW c \in Clients
    PROVE  /\ Running(c) => Pending[c] = {[run  |-> run[c].id,
                                           tree |-> TreeOf(run[c].source)]}
           /\ ~ Running(c) => Pending[c] = {}
BY DEF Pending

LEMMA SourceIsTree == ASSUME NEW tree \in Tree PROVE TreeOf(Source(tree)) = tree
BY ContentAssumption DEF TreeOf, Source, Mirrored, Tree

(* An answered request begins a backup under a name no backup has; one     *)
(* that the client gave up begins none.                                    *)
LEMMA BeginOrStutter ==
    ASSUME IInv, RunInv, NEW c \in Clients, Request(c), Start(c), Archive = Kept,
           Archive' = Archive
    PROVE  Promise!Begin(c) \/ Pending' = Pending
<1>0. /\ run \in [Clients -> Run] /\ starts \in Nat /\ MaxRuns \in Nat
      /\ ~ Running(c) /\ starts < MaxRuns
    BY RotationAssumption DEF IInv, TypeOK, Request
<1>1. CASE UNCHANGED run
    BY <1>1 DEF Pending, Running
<1>2. ASSUME NEW tree \in Tree, NEW todo,
             run' = [run EXCEPT ![c] = [id |-> starts + 1, source |-> Source(tree),
                                        todo |-> todo]]
      PROVE  Promise!Begin(c)
    <2> DEFINE b == [run |-> starts + 1, tree |-> tree]
    <2>1. b \in Promise!Backup
        BY <1>0 DEF Promise!Backup
    <2>2. b.run \notin {a.run : a \in Archive}
        <3>1. \A i \in DOMAIN log : Finished(log[i]) => log[i].finished <= starts
            BY DEF RunInv
        <3>2. \A a \in Kept : a.run <= starts
            BY <3>1 DEF Kept, Saved
        <3> QED
            BY <1>0, <3>2
    <2>3. run'[c].id = starts + 1 /\ run'[c].source = Source(tree)
        BY <1>0, <1>2
    <2>4. Pending'[c] = {b}
        <3>1. Running(c)'
            BY <1>0, <2>3 DEF Running
        <3>2. Pending'[c] = {[run |-> run'[c].id, tree |-> TreeOf(run'[c].source)]}
            BY <3>1 DEF Pending
        <3> QED
            BY <2>3, <3>2, SourceIsTree
    <2>5. \A d \in Clients \ {c} : Pending'[d] = Pending[d]
        BY <1>0, <1>2 DEF Pending, Running
    <2>6. Pending' = [Pending EXCEPT ![c] = {b}]
        BY <2>4, <2>5 DEF Pending
    <2>7. Pending[c] = {}
        BY <1>0, PendingIs
    <2> HIDE DEF b
    <2> QED
        BY <2>1, <2>2, <2>6, <2>7 DEF Promise!Begin
<1> QED
    BY <1>1, <1>2 DEF Start

(* A run that ends is no longer pending.                                   *)
LEMMA PendingEnds ==
    ASSUME IInv, NEW c \in Clients, run' = [run EXCEPT ![c] = NoRun]
    PROVE  Pending' = [Pending EXCEPT ![c] = {}]
<1>0. run \in [Clients -> Run]
    BY DEF IInv, TypeOK
<1>1. run'[c] = NoRun /\ \A d \in Clients \ {c} : run'[d] = run[d]
    BY <1>0
<1>2. Pending'[c] = {}
    BY <1>1 DEF Pending, Running, NoRun
<1>3. \A d \in Clients \ {c} : Pending'[d] = Pending[d]
    BY <1>1 DEF Pending, Running
<1> QED
    BY <1>2, <1>3 DEF Pending

KeepsPromise == Unbroken /\ RunInv /\ MirrorInv

(* Every step of the rotation is a step of the archive or leaves it alone. *)
LEMMA PromiseStep ==
    ASSUME Sound, "dryRun" \notin Faults,
           KeepsPromise, KeepsPromise', Archive = Kept, (Archive = Kept)',
           [Next]_vars
    PROVE  [Promise!Next]_Promise!vars
<1>0. /\ IInv /\ IInv' /\ Unbroken /\ RunInv /\ MirrorInv
      /\ log \in Seq(Entry) /\ Numbered(log) /\ run \in [Clients -> Run]
    BY DEF KeepsPromise, Unbroken, IInv, TypeOK
<1>1. ASSUME NEW c \in Clients, PrepareFirst(c) \/ PrepareNoO(c)
      PROVE  [Promise!Next]_Promise!vars
    <2>1. Request(c) /\ Start(c) /\ Open(log) /\ dirs' = {"C", "O"}
        BY <1>1 DEF PrepareFirst, PrepareNoO
    <2>2. Archive' = Archive
        BY <1>0, <2>1, KeptOpen
    <2> QED
        BY <1>0, <2>1, <2>2, BeginOrStutter DEF Promise!Next, Promise!vars
<1>2. ASSUME NEW c \in Clients, PrepareRotate(c)
      PROVE  [Promise!Next]_Promise!vars
    <2>1. /\ Request(c) /\ Start(c) /\ CreateDiff /\ Open(LogAfterDiff)
          /\ dirs' = dirs /\ {"C", "O"} \subseteq dirs
        BY <1>2 DEF PrepareRotate
    <2>2. dirs' = {"C", "O"}
        BY <1>0, <2>1 DEF IInv, TypeOK
    <2>3. Archive' = Archive
        BY <1>0, <2>1, <2>2, LogAfterDiffKeeps, KeptOpen
    <2> QED
        BY <1>0, <2>1, <2>3, BeginOrStutter DEF Promise!Next, Promise!vars
<1>3. ASSUME NEW c \in Clients, RejectMkdir(c) \/ RejectDiff(c)
      PROVE  [Promise!Next]_Promise!vars
    <2>1. C' = C /\ log' = log /\ held' = held /\ run' = run
        BY <1>3 DEF RejectMkdir, RejectDiff
    <2>2. Archive' = Archive
        BY <1>0, <2>1, KeptFrame
    <2>3. Pending' = Pending
        BY <2>1 DEF Pending, Running
    <2> QED
        BY <2>2, <2>3 DEF Promise!vars
<1>4. ASSUME NEW c \in Clients, RejectSync(c) PROVE [Promise!Next]_Promise!vars
    BY <1>4 DEF RejectSync, Sound
<1>5. ASSUME NEW c \in Clients, Transfer(c) PROVE [Promise!Next]_Promise!vars
    <2>1. PICK p \in run[c].todo : run' = [run EXCEPT ![c].todo = @ \ {p}]
        BY <1>5 DEF Transfer
    <2>2. log' = log /\ held' = held /\ log # <<>> /\ ~ Finished(log[1])
        BY <1>0, <1>5 DEF Transfer, RunInv
    <2>3. Archive' = Archive
        BY <1>0, <2>2, KeptFrame
    <2>4. \A d \in Clients : run'[d].id = run[d].id /\ run'[d].source = run[d].source
        BY <1>0, <2>1 DEF Run
    <2>5. Pending' = Pending
        BY <2>4 DEF Pending, Running
    <2> QED
        BY <2>3, <2>5 DEF Promise!vars
<1>6. ASSUME NEW c \in Clients, Fail(c) PROVE [Promise!Next]_Promise!vars
    <2>1. C' = C /\ log' = log /\ held' = held /\ run' = [run EXCEPT ![c] = NoRun]
        BY <1>6 DEF Fail
    <2>2. Archive' = Archive
        BY <1>0, <2>1, KeptFrame
    <2>3. Promise!Abandon(c)
        BY <1>0, <2>1, <2>2, PendingEnds DEF Promise!Abandon
    <2> QED
        BY <2>3 DEF Promise!Next
<1>7. ASSUME NEW c \in Clients, Complete(c) PROVE [Promise!Next]_Promise!vars
    <2>1. Running(c) /\ run' = [run EXCEPT ![c] = NoRun]
        BY <1>7 DEF Complete
    <2>2. Pending[c] = {[run |-> run[c].id, tree |-> TreeOf(run[c].source)]}
        BY <2>1, PendingIs
    <2>3. Archive' = Archive \cup Pending[c]
        BY <1>0, <1>7, <2>2, KeptComplete
    <2>4. Promise!Complete(c)
        BY <1>0, <2>1, <2>2, <2>3, PendingEnds DEF Promise!Complete
    <2> QED
        BY <2>4 DEF Promise!Next
<1>8. CASE UNCHANGED vars
    <2>1. C' = C /\ log' = log /\ held' = held /\ run' = run
        BY <1>8 DEF vars
    <2>2. Archive' = Archive
        BY <1>0, <2>1, KeptFrame
    <2>3. Pending' = Pending
        BY <2>1 DEF Pending, Running
    <2> QED
        BY <2>2, <2>3 DEF Promise!vars
<1> QED
    BY <1>1, <1>2, <1>3, <1>4, <1>5, <1>6, <1>7, <1>8 DEF Next, Prepare

(* The rotation implements the archive: whatever run fails, is given up or *)
(* is rejected, what C, O and the patches give back for the finished       *)
(* entries grows by exactly the tree of each run that completes, and no    *)
(* backup is ever lost or altered - for one host that backs up text files, *)
(* rsync that leaves the metadata file, no copy of C over O that stops     *)
(* half way, no two archives of one second and no dry run.                 *)
THEOREM RotationImplementsArchive ==
    ASSUME Sound, "dryRun" \notin Faults
    PROVE  Spec => PromiseKept
<1>1. Init => KeepsPromise
    BY UnbrokenInit, RunInit DEF KeepsPromise, Init, MirrorInv, Running, NoRun
<1>2. KeepsPromise /\ [Next]_vars => KeepsPromise'
    BY ChainStep, RunStep, MirrorStep DEF KeepsPromise, Unbroken
<1>3. KeepsPromise => Archive = Kept
    BY ArchiveIsKept DEF KeepsPromise
<1>4. Init => Promise!Init
    <2> SUFFICES ASSUME Init PROVE Promise!Init
        OBVIOUS
    <2>1. DOMAIN log = {}
        BY EmptySeq DEF Init
    <2>2. Archive = {}
        BY <2>1 DEF Archive
    <2>3. Pending = [c \in Clients |-> {}]
        BY DEF Init, Pending, Running, NoRun
    <2> QED
        BY <2>2, <2>3 DEF Promise!Init
<1>5. /\ KeepsPromise /\ KeepsPromise' /\ Archive = Kept /\ (Archive = Kept)'
      /\ [Next]_vars
      => [Promise!Next]_Promise!vars
    BY PromiseStep
<1> QED
    BY <1>1, <1>2, <1>3, <1>4, <1>5, PTL DEF Spec, PromiseKept, Promise!Spec
=============================================================================
