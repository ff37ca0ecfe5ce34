----------------------------- MODULE Snapshots -----------------------------
(***************************************************************************)
(* The data the daemon rotates: snapshot trees and the patches between     *)
(* them.                                                                   *)
(*                                                                         *)
(* A snapshot (the directory C or O of a backup set) is a function from    *)
(* paths to contents.  Contents are tokens; what the program tells apart   *)
(* is only how `diff -ruN` treats them:                                    *)
(*   Text         recorded in a patch line by line;                        *)
(*   Undecodable  recorded too, but with bytes that are not UTF-8;         *)
(*   Binary       reported as "Binary files differ", contents not kept,    *)
(*                with exit status 1 or, by some versions of diff, 2;        *)
(*   Blank        the zero-length file, which -N cannot tell from absence. *)
(* A patch is a function from paths to the content it restores, or NoHunk. *)
(***************************************************************************)
EXTENDS Integers

CONSTANTS
    Files,        \* the paths of the backed up tree
    Meta,         \* the path of .blzbak-metadata, in the root of C
    Text, Undecodable, Binary, Blank,  \* contents, by what diff does to them
    Absent,       \* "no such file"
    NoHunk        \* "the patch has nothing for this path"

Content == Text \cup Undecodable \cup Binary \cup Blank

Paths == Files \cup {Meta}

(* .blzbak-metadata: the run that wrote started_at (0 for null) and        *)
(* whether finished_at is set.  It is a text file.                         *)
MetaValue == [by : Nat, done : BOOLEAN]

Value == Content \cup MetaValue \cup {Absent}

ASSUME ContentAssumption ==
    /\ Meta \notin Files
    /\ Absent \notin Content \cup MetaValue
    /\ NoHunk \notin Value
    /\ \A v \in Undecodable \cup Binary \cup Blank : v \notin MetaValue
    /\ \A v, w \in Blank : v = w

Snapshot == [Paths -> Value]
Patch    == [Paths -> Value \cup {NoHunk}]

Empty == [p \in Paths |-> Absent]

(* What a backup is about: the part of a snapshot that came from the       *)
(* client, without the daemon's own metadata file.                         *)
Tree          == [Files -> Content \cup {Absent}]
TreeOf(s)     == [p \in Files |-> s[p]]
HasContent(s) == \E p \in Paths : s[p] # Absent

(* diff -N reads a missing file as an empty one.                           *)
Differ(x, y)   == x # y /\ ~ {x, y} \subseteq Blank \cup {Absent}
Recorded(x, y) == Differ(x, y) /\ x \notin Binary /\ y \notin Binary

SameToDiff(old, new) == \A p \in Paths : ~ Differ(old[p], new[p])

BinaryAlike(old, new) ==
    \A p \in Paths : Differ(old[p], new[p]) => Recorded(old[p], new[p])

(* The output of diff cannot be decoded by subprocess.run(text=True).      *)
Undiffable(old, new) ==
    \E p \in Paths : /\ Recorded(old[p], new[p])
                     /\ {old[p], new[p]} \cap Undecodable # {}

(* The archive _create_diff writes for O = old and C = new.  When diff     *)
(* finds no difference it holds a comment only: no hunk for any path.      *)
PatchOf(old, new) ==
    [p \in Paths |-> IF Recorded(old[p], new[p]) THEN old[p] ELSE NoHunk]

(* `patch -R`: the older tree, from the newer one and the archive.         *)
ReverseApply(new, patch) ==
    [p \in Paths |-> IF patch[p] = NoHunk THEN new[p] ELSE patch[p]]

=============================================================================
