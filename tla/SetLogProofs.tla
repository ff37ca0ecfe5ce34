---------------------------- MODULE SetLogProofs ----------------------------
(* What the functions that rewrite set.log keep and what they change.      *)
EXTENDS SetLog, SequenceTheorems, WellFoundedInduction, TLAPS

(* A set of natural numbers that is not empty has a least element.         *)
LEMMA LeastNumber ==
    ASSUME NEW numbers, numbers \subseteq Nat, numbers # {}
    PROVE  \E least \in numbers : \A n \in numbers : least <= n
<1> DEFINE less == {pair \in Nat \X Nat : pair[1] < pair[2]}
<1>1. IsWellFoundedOn(less, Nat)
    BY NatLessThanWellFounded DEF OpToRel
<1> HIDE DEF less
<1>2. PICK least \in numbers : \A n \in numbers : ~ (<<n, least>> \in less)
    BY <1>1, WFMin
<1>3. \A n \in numbers : ~ (n < least)
    BY <1>2 DEF less
<1> QED
    BY <1>3

(* A log has a highest number, 0 when it is empty: no prefix of the log is *)
(* the first that has none.                                                *)
LEMMA NumbersBounded ==
    ASSUME NEW entries \in Seq(Entry)
    PROVE  \E b \in Nat : \A i \in 1 .. Len(entries) : entries[i].number <= b
<1> DEFINE Bounded(k) == \E b \in Nat : \A i \in 1 .. k : entries[i].number <= b
           unbounded == {k \in 0 .. Len(entries) : ~ Bounded(k)}
<1>1. /\ Len(entries) \in Nat
      /\ \A i \in 1 .. Len(entries) : entries[i].number \in Nat
    <2>1. \A i \in 1 .. Len(entries) : entries[i] \in Entry
        BY ElementOfSeq
    <2> QED
        BY <2>1, LenProperties DEF Entry
<1>2. Bounded(0)
    <2>1. 0 \in Nat /\ \A i \in 1 .. 0 : entries[i].number <= 0
        OBVIOUS
    <2> QED
        BY <2>1
<1>3. ASSUME NEW k \in 1 .. Len(entries), Bounded(k - 1)
      PROVE  Bounded(k)
    <2>1. PICK b \in Nat : \A i \in 1 .. k - 1 : entries[i].number <= b
        BY <1>3
    <2>2. entries[k].number \in Nat
        BY <1>1
    <2>3. ASSUME NEW i \in 1 .. k
          PROVE  entries[i].number <= b + entries[k].number
        <3>1. CASE i = k
            BY <2>2, <3>1
        <3>2. CASE i # k
            <4>1. i \in 1 .. k - 1 /\ i \in 1 .. Len(entries)
                BY <1>1, <3>2
            <4> QED
                BY <1>1, <2>1, <2>2, <4>1
        <3> QED
            BY <3>1, <3>2
    <2>4. b + entries[k].number \in Nat
        BY <2>2
    <2> QED
        BY <2>3, <2>4
<1> HIDE DEF Bounded
<1>4. unbounded = {}
    <2> SUFFICES ASSUME unbounded # {} PROVE FALSE
        OBVIOUS
    <2>1. unbounded \subseteq Nat
        BY <1>1
    <2> HIDE DEF unbounded
    <2>2. PICK k \in unbounded : \A n \in unbounded : k <= n
        BY <2>1, LeastNumber
    <2>3. k \in 0 .. Len(entries) /\ ~ Bounded(k)
        BY DEF unbounded
    <2>4. k \in 1 .. Len(entries)
        BY <1>1, <1>2, <2>3
    <2>5. k - 1 \in 0 .. Len(entries) /\ ~ k <= k - 1
        BY <1>1, <2>4
    <2>6. Bounded(k - 1)
        BY <2>2, <2>5 DEF unbounded
    <2> QED
        BY <1>3, <2>3, <2>4, <2>6
<1>5. Bounded(Len(entries))
    BY <1>1, <1>4
<1> QED
    BY <1>5 DEF Bounded

LEMMA MaxNumberProperties ==
    ASSUME NEW entries \in Seq(Entry)
    PROVE  /\ MaxNumber(entries) \in Nat
           /\ \A i \in DOMAIN entries : entries[i].number <= MaxNumber(entries)
           /\ MaxNumber(entries) = 0
                 \/ \E i \in DOMAIN entries : entries[i].number = MaxNumber(entries)
<1> DEFINE numbers == {0} \cup {entries[i].number : i \in DOMAIN entries}
           bounds  == {b \in Nat : \A n \in numbers : n <= b}
<1>1. /\ Len(entries) \in Nat /\ DOMAIN entries = 1 .. Len(entries)
      /\ \A i \in 1 .. Len(entries) : entries[i].number \in Nat
    <2>1. \A i \in 1 .. Len(entries) : entries[i] \in Entry
        BY ElementOfSeq
    <2> QED
        BY <2>1, LenProperties DEF Entry
<1>2. numbers \subseteq Nat
    BY <1>1
<1>3. bounds # {}
    <2>1. PICK b \in Nat : \A i \in 1 .. Len(entries) : entries[i].number <= b
        BY NumbersBounded
    <2>2. b \in bounds
        BY <1>1, <2>1
    <2> QED
        BY <2>2
<1>4. bounds \subseteq Nat
    OBVIOUS
<1> HIDE DEF numbers
<1>5. PICK m \in bounds : \A b \in bounds : m <= b
    BY <1>3, <1>4, LeastNumber
<1>6. m \in Nat /\ \A n \in numbers : n \in Nat /\ n <= m
    BY <1>2
<1>7. m \in numbers
    <2>1. CASE m = 0
        BY <2>1 DEF numbers
    <2>2. CASE m # 0
        <3>1. m - 1 \in Nat /\ ~ m <= m - 1
            BY <1>6, <2>2
        <3>2. m - 1 \notin bounds
            BY <1>5, <3>1
        <3>3. PICK n \in numbers : ~ n <= m - 1
            BY <3>1, <3>2
        <3>4. n = m
            BY <1>6, <3>1, <3>3
        <3> QED
            BY <3>3, <3>4
    <2> QED
        BY <2>1, <2>2
<1>8. /\ MaxNumber(entries) \in numbers
      /\ \A n \in numbers : n <= MaxNumber(entries)
    <2>1. MaxNumber(entries) = CHOOSE k \in numbers : \A n \in numbers : n <= k
        BY DEF MaxNumber, numbers
    <2>2. \E k \in numbers : \A n \in numbers : n <= k
        BY <1>6, <1>7
    <2> QED
        BY <2>1, <2>2
<1> QED
    BY <1>2, <1>8 DEF numbers

(* In a log numbered without a gap the highest number is its length.       *)
LEMMA MaxNumberIsLength ==
    ASSUME NEW entries \in Seq(Entry), Numbered(entries)
    PROVE  MaxNumber(entries) = Len(entries)
<1> DEFINE numbers == {0} \cup {entries[i].number : i \in DOMAIN entries}
<1>1. Len(entries) \in Nat /\ DOMAIN entries = 1 .. Len(entries)
    BY LenProperties
<1>2. \A n \in numbers : n \in Nat /\ n <= Len(entries)
    BY <1>1 DEF Numbered
<1>3. Len(entries) \in numbers
    <2>1. CASE Len(entries) = 0
        BY <2>1
    <2>2. CASE Len(entries) # 0
        <3>1. 1 \in DOMAIN entries
            BY <1>1, <2>2
        <3>2. entries[1].number = Len(entries)
            BY <1>1, <3>1 DEF Numbered
        <3> QED
            BY <3>1, <3>2
    <2> QED
        BY <2>1, <2>2
<1>4. ASSUME NEW m \in numbers, \A n \in numbers : n <= m
      PROVE  m = Len(entries)
    <2>1. m \in Nat /\ m <= Len(entries)
        BY <1>2
    <2>2. Len(entries) <= m
        BY <1>3, <1>4
    <2>3. \A j, k \in Nat : j <= k /\ k <= j => j = k
        OBVIOUS
    <2> QED
        BY <1>1, <2>1, <2>2, <2>3, Zenon
<1>5. Len(entries) \in numbers /\ \A n \in numbers : n <= Len(entries)
    BY <1>2, <1>3
<1> HIDE DEF numbers
<1>6. (CHOOSE m \in numbers : \A n \in numbers : n <= m) = Len(entries)
    BY <1>4, <1>5
<1> QED
    BY <1>6 DEF MaxNumber, numbers

(* A new entry goes in front of the others, which it leaves alone.         *)
LEMMA NewEntryTypes ==
    ASSUME NEW entries \in Seq(Entry), NEW id \in Nat \ {0}
    PROVE  /\ NewEntry(entries, id) \in Seq(Entry)
           /\ Len(NewEntry(entries, id)) = Len(entries) + 1
           /\ NewEntry(entries, id)[1] =
                [number |-> MaxNumber(entries) + 1, started |-> id,
                 finished |-> Never, location |-> "C", diff |-> NoDiff]
           /\ \A i \in 2 .. Len(entries) + 1 :
                NewEntry(entries, id)[i] = entries[i - 1]
<1> DEFINE new == [number |-> MaxNumber(entries) + 1, started |-> id,
                   finished |-> Never, location |-> "C", diff |-> NoDiff]
<1>1. Len(entries) \in Nat
    BY LenProperties
<1>2. new \in Entry
    <2>1. MaxNumber(entries) \in Nat
        BY MaxNumberProperties
    <2> QED
        BY <2>1 DEF Entry, Never, NoDiff
<1>3. NewEntry(entries, id) = <<new>> \o entries
    BY DEF NewEntry
<1> HIDE DEF new
<1>4. <<new>> \in Seq(Entry) /\ Len(<<new>>) = 1 /\ <<new>>[1] = new
    BY <1>2
<1>5. /\ <<new>> \o entries \in Seq(Entry)
      /\ Len(<<new>> \o entries) = 1 + Len(entries)
      /\ \A i \in 1 .. 1 + Len(entries) :
            (<<new>> \o entries)[i] = IF i <= 1 THEN <<new>>[i] ELSE entries[i - 1]
    BY <1>4, ConcatProperties
<1>6. /\ (<<new>> \o entries)[1] = new
      /\ \A i \in 2 .. Len(entries) + 1 : (<<new>> \o entries)[i] = entries[i - 1]
    BY <1>1, <1>4, <1>5
<1> QED
    BY <1>1, <1>3, <1>5, <1>6 DEF new

(* It takes the next number and keeps the numbering without a gap.         *)
LEMMA NewEntryProperties ==
    ASSUME NEW entries \in Seq(Entry), Numbered(entries), NEW id \in Nat \ {0}
    PROVE  /\ NewEntry(entries, id) \in Seq(Entry)
           /\ Len(NewEntry(entries, id)) = Len(entries) + 1
           /\ NewEntry(entries, id)[1] =
                [number |-> Len(entries) + 1, started |-> id,
                 finished |-> Never, location |-> "C", diff |-> NoDiff]
           /\ \A i \in 2 .. Len(entries) + 1 :
                NewEntry(entries, id)[i] = entries[i - 1]
           /\ Numbered(NewEntry(entries, id))
<1> DEFINE new == NewEntry(entries, id)
<1>1. Len(entries) \in Nat /\ DOMAIN entries = 1 .. Len(entries)
    BY LenProperties
<1>2. /\ new \in Seq(Entry)
      /\ Len(new) = Len(entries) + 1
      /\ new[1] = [number |-> Len(entries) + 1, started |-> id,
                   finished |-> Never, location |-> "C", diff |-> NoDiff]
      /\ \A i \in 2 .. Len(entries) + 1 : new[i] = entries[i - 1]
    BY NewEntryTypes, MaxNumberIsLength
<1> HIDE DEF new
<1>3. DOMAIN new = 1 .. Len(entries) + 1
    BY <1>2, LenProperties
<1>4. ASSUME NEW i \in 1 .. Len(entries) + 1
      PROVE  new[i].number = Len(entries) + 1 - i + 1
    <2>1. CASE i = 1
        BY <1>1, <1>2, <2>1
    <2>2. CASE i # 1
        <3>1. i - 1 \in DOMAIN entries
            BY <1>1, <2>2
        <3>2. entries[i - 1].number = Len(entries) - (i - 1) + 1
            BY <3>1 DEF Numbered
        <3> QED
            BY <1>1, <1>2, <2>2, <3>2
    <2> QED
        BY <2>1, <2>2
<1>5. Numbered(new)
    BY <1>2, <1>3, <1>4 DEF Numbered
<1> QED
    BY <1>2, <1>5 DEF new

(* Pointing the second entry at an archive touches no other entry, and of  *)
(* that one neither the number nor the runs.                               *)
LEMMA UpdateForDiffProperties ==
    ASSUME NEW entries \in Seq(Entry), NEW archive \in Nat
    PROVE  /\ UpdateForDiff(entries, archive) \in Seq(Entry)
           /\ Len(UpdateForDiff(entries, archive)) = Len(entries)
           /\ \A i \in DOMAIN entries :
                /\ i # 2 => UpdateForDiff(entries, archive)[i] = entries[i]
                /\ UpdateForDiff(entries, archive)[i].number = entries[i].number
                /\ UpdateForDiff(entries, archive)[i].started = entries[i].started
                /\ UpdateForDiff(entries, archive)[i].finished = entries[i].finished
           /\ Len(entries) >= 2 =>
                /\ UpdateForDiff(entries, archive)[2].diff = archive
                /\ UpdateForDiff(entries, archive)[2].location = "diff"
<1>1. Len(entries) \in Nat /\ DOMAIN entries = 1 .. Len(entries)
    BY LenProperties
<1>2. CASE Len(entries) < 2
    BY <1>1, <1>2 DEF UpdateForDiff
<1>3. CASE Len(entries) >= 2
    <2> DEFINE second == [entries[2] EXCEPT !.diff = archive, !.location = "diff"]
               updated == [entries EXCEPT ![2] = second]
    <2>1. 2 \in 1 .. Len(entries)
        BY <1>1, <1>3
    <2>2. entries[2] \in Entry
        BY <2>1, ElementOfSeq
    <2>3. /\ second \in Entry
          /\ second.diff = archive
          /\ second.location = "diff"
          /\ second.number = entries[2].number
          /\ second.started = entries[2].started
          /\ second.finished = entries[2].finished
        BY <2>2 DEF Entry
    <2>4. UpdateForDiff(entries, archive) = updated
        BY <1>1, <1>3, <2>1, <2>2 DEF UpdateForDiff
    <2> HIDE DEF second
    <2>5. /\ updated \in Seq(Entry)
          /\ Len(updated) = Len(entries)
          /\ \A j \in 1 .. Len(entries) :
                updated[j] = IF j = 2 THEN second ELSE entries[j]
        BY <2>1, <2>3, ExceptSeq
    <2> QED
        BY <1>1, <2>1, <2>3, <2>4, <2>5
<1> QED
    BY <1>1, <1>2, <1>3

(* Finalizing stamps the newest entry and moves the two newest ones; it    *)
(* changes no number, no run that began an entry and no diff_path.         *)
LEMMA FinalizeProperties ==
    ASSUME NEW entries \in Seq(Entry), NEW id \in Nat
    PROVE  /\ Finalize(entries, id) \in Seq(Entry)
           /\ Len(Finalize(entries, id)) = Len(entries)
           /\ \A i \in DOMAIN entries :
                /\ Finalize(entries, id)[i].number = entries[i].number
                /\ Finalize(entries, id)[i].started = entries[i].started
                /\ Finalize(entries, id)[i].diff = entries[i].diff
                /\ Finalize(entries, id)[i].finished =
                     IF i = 1 THEN id ELSE entries[i].finished
                /\ Finalize(entries, id)[i].location =
                     IF i = 1 THEN "C" ELSE IF i = 2 THEN "O" ELSE entries[i].location
<1>1. Len(entries) \in Nat /\ DOMAIN entries = 1 .. Len(entries)
    BY LenProperties
<1>2. \A i \in 1 .. Len(entries) : entries[i] \in Entry
    BY ElementOfSeq
<1>3. \A i \in 1 .. Len(entries) :
        /\ Finalize(entries, id)[i] \in Entry
        /\ Finalize(entries, id)[i].number = entries[i].number
        /\ Finalize(entries, id)[i].started = entries[i].started
        /\ Finalize(entries, id)[i].diff = entries[i].diff
        /\ Finalize(entries, id)[i].finished = IF i = 1 THEN id ELSE entries[i].finished
        /\ Finalize(entries, id)[i].location =
             IF i = 1 THEN "C" ELSE IF i = 2 THEN "O" ELSE entries[i].location
    BY <1>1, <1>2 DEF Finalize, Entry
<1>4. Finalize(entries, id) \in [1 .. Len(entries) -> Entry]
    BY <1>1, <1>3 DEF Finalize
<1>5. Finalize(entries, id) \in Seq(Entry)
    BY <1>1, <1>4, SeqDef
<1>6. Len(Finalize(entries, id)) = Len(entries)
    BY <1>1, <1>4, <1>5, LenProperties
<1> QED
    BY <1>1, <1>3, <1>5, <1>6

(* Numbering depends on the numbers alone.                                 *)
LEMMA NumberedByNumbers ==
    ASSUME NEW old \in Seq(Entry), NEW new \in Seq(Entry), Len(new) = Len(old),
           \A i \in DOMAIN old : new[i].number = old[i].number,
           Numbered(old)
    PROVE  Numbered(new)
<1>1. DOMAIN new = DOMAIN old
    BY LenProperties
<1> QED
    BY <1>1 DEF Numbered

-----------------------------------------------------------------------------
(* A log that has lost its oldest entries is still numbered without a gap, *)
(* and no longer from 1.                                                   *)

Descending(entries) ==
    \A i \in DOMAIN entries : entries[i].number = entries[1].number - i + 1

LEMMA MaxNumberIsNewest ==
    ASSUME NEW entries \in Seq(Entry), entries # <<>>, Descending(entries)
    PROVE  MaxNumber(entries) = entries[1].number
<1>1. 1 \in DOMAIN entries /\ DOMAIN entries = 1 .. Len(entries) /\ Len(entries) \in Nat
    BY LenProperties, EmptySeq
<1>2. entries[1] \in Entry
    BY <1>1, ElementOfSeq
<1>3. entries[1].number \in Nat \ {0}
    BY <1>2 DEF Entry
<1>4. /\ MaxNumber(entries) \in Nat
      /\ entries[1].number <= MaxNumber(entries)
      /\ MaxNumber(entries) = 0
            \/ \E i \in DOMAIN entries : entries[i].number = MaxNumber(entries)
    BY <1>1, MaxNumberProperties
<1>5. PICK i \in DOMAIN entries : entries[i].number = MaxNumber(entries)
    BY <1>3, <1>4
<1>6. i \in Nat \ {0} /\ entries[i].number = entries[1].number - i + 1
    BY <1>1, <1>5 DEF Descending
<1> QED
    BY <1>3, <1>4, <1>5, <1>6

LEMMA NewEntryDescending ==
    ASSUME NEW entries \in Seq(Entry), Descending(entries), NEW id \in Nat \ {0}
    PROVE  Descending(NewEntry(entries, id))
<1> DEFINE new == NewEntry(entries, id)
<1>1. Len(entries) \in Nat /\ DOMAIN entries = 1 .. Len(entries)
    BY LenProperties
<1>2. /\ new \in Seq(Entry)
      /\ Len(new) = Len(entries) + 1
      /\ new[1] = [number |-> MaxNumber(entries) + 1, started |-> id,
                   finished |-> Never, location |-> "C", diff |-> NoDiff]
      /\ \A i \in 2 .. Len(entries) + 1 : new[i] = entries[i - 1]
    BY NewEntryTypes
<1>3. MaxNumber(entries) \in Nat
    BY MaxNumberProperties
<1> HIDE DEF new
<1>4. DOMAIN new = 1 .. Len(entries) + 1
    BY <1>2, LenProperties
<1>5. new[1].number = MaxNumber(entries) + 1
    BY <1>2
<1>6. ASSUME NEW i \in 1 .. Len(entries) + 1
      PROVE  new[i].number = new[1].number - i + 1
    <2>1. CASE i = 1
        BY <1>3, <1>5, <2>1
    <2>2. CASE i # 1
        <3>1. i - 1 \in DOMAIN entries /\ new[i] = entries[i - 1] /\ i \in Nat
            BY <1>1, <1>2, <2>2
        <3>2. entries # <<>>
            BY <1>1, <3>1
        <3>3. MaxNumber(entries) = entries[1].number
            BY <3>2, MaxNumberIsNewest
        <3>4. entries[i - 1].number = entries[1].number - (i - 1) + 1
            BY <3>1 DEF Descending
        <3> QED
            BY <1>3, <1>5, <3>1, <3>3, <3>4
    <2> QED
        BY <2>1, <2>2
<1>7. Descending(new)
    BY <1>4, <1>6 DEF Descending
<1> QED
    BY <1>7 DEF new

LEMMA DescendingByNumbers ==
    ASSUME NEW old \in Seq(Entry), NEW new \in Seq(Entry), Len(new) <= Len(old),
           \A i \in DOMAIN new : new[i].number = old[i].number,
           Descending(old)
    PROVE  Descending(new)
<1>1. /\ DOMAIN new = 1 .. Len(new) /\ DOMAIN old = 1 .. Len(old)
      /\ Len(new) \in Nat /\ Len(old) \in Nat
    BY LenProperties
<1>2. ASSUME NEW i \in DOMAIN new
      PROVE  new[i].number = new[1].number - i + 1
    <2>1. i \in DOMAIN old /\ 1 \in DOMAIN new
        BY <1>1
    <2> QED
        BY <2>1 DEF Descending
<1> QED
    BY <1>2 DEF Descending

-----------------------------------------------------------------------------
(* Which archives a log names                                              *)

PointersExist(entries, n) == \A i \in DOMAIN entries : entries[i].diff <= n

(* A log that points at existing archives only still does when more        *)
(* archives exist.                                                         *)
LEMMA PointersMonotonic ==
    ASSUME NEW entries \in Seq(Entry), NEW m \in Nat, NEW n \in Nat, m <= n,
           PointersExist(entries, m)
    PROVE  PointersExist(entries, n)
<1>1. ASSUME NEW i \in DOMAIN entries PROVE entries[i].diff <= n
    <2>1. entries[i] \in Entry
        BY LenProperties, ElementOfSeq
    <2>2. entries[i].diff \in Nat /\ entries[i].diff <= m
        BY <2>1 DEF Entry, PointersExist
    <2> QED
        BY <2>2
<1> QED
    BY <1>1 DEF PointersExist

(* Rewriting a log makes it name no archive but the one given.             *)
LEMMA RewritingPointers ==
    ASSUME NEW entries \in Seq(Entry), NEW n \in Nat, PointersExist(entries, n),
           NEW archive \in 0 .. n, NEW id \in Nat \ {0}
    PROVE  /\ PointersExist(UpdateForDiff(entries, archive), n)
           /\ PointersExist(NewEntry(entries, id), n)
           /\ PointersExist(Finalize(entries, id), n)
<1>1. Len(entries) \in Nat /\ DOMAIN entries = 1 .. Len(entries)
    BY LenProperties
<1>2. PointersExist(UpdateForDiff(entries, archive), n)
    <2> DEFINE new == UpdateForDiff(entries, archive)
    <2>1. /\ new \in Seq(Entry) /\ Len(new) = Len(entries)
          /\ \A i \in DOMAIN entries : i # 2 => new[i] = entries[i]
          /\ Len(entries) >= 2 => new[2].diff = archive
        BY UpdateForDiffProperties
    <2> HIDE DEF new
    <2>2. DOMAIN new = 1 .. Len(entries)
        BY <2>1, LenProperties
    <2>3. PointersExist(new, n)
        BY <1>1, <2>1, <2>2 DEF PointersExist
    <2> QED
        BY <2>3 DEF new
<1>3. PointersExist(NewEntry(entries, id), n)
    <2> DEFINE new == NewEntry(entries, id)
    <2>1. /\ new \in Seq(Entry) /\ Len(new) = Len(entries) + 1
          /\ new[1] = [number |-> MaxNumber(entries) + 1, started |-> id,
                       finished |-> Never, location |-> "C", diff |-> NoDiff]
          /\ \A i \in 2 .. Len(entries) + 1 : new[i] = entries[i - 1]
        BY NewEntryTypes
    <2> HIDE DEF new
    <2>2. DOMAIN new = 1 .. Len(entries) + 1 /\ new[1].diff = 0
        BY <2>1, LenProperties DEF NoDiff
    <2>3. ASSUME NEW i \in DOMAIN new PROVE new[i].diff <= n
        <3>1. CASE i = 1
            BY <2>2, <3>1
        <3>2. CASE i # 1
            <4>1. new[i] = entries[i - 1] /\ i - 1 \in DOMAIN entries
                BY <1>1, <2>1, <2>2, <3>2
            <4> QED
                BY <4>1 DEF PointersExist
        <3> QED
            BY <3>1, <3>2
    <2>4. PointersExist(new, n)
        BY <2>3 DEF PointersExist
    <2> QED
        BY <2>4 DEF new
<1>4. PointersExist(Finalize(entries, id), n)
    <2> DEFINE new == Finalize(entries, id)
    <2>1. /\ new \in Seq(Entry) /\ Len(new) = Len(entries)
          /\ \A i \in DOMAIN entries : new[i].diff = entries[i].diff
        BY FinalizeProperties
    <2> HIDE DEF new
    <2>2. DOMAIN new = DOMAIN entries
        BY <1>1, <2>1, LenProperties
    <2>3. PointersExist(new, n)
        BY <2>1, <2>2 DEF PointersExist
    <2> QED
        BY <2>3 DEF new
<1> QED
    BY <1>2, <1>3, <1>4
=============================================================================
