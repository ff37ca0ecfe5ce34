---------------------------- MODULE DaemonProofs ----------------------------
(***************************************************************************)
(* Theorems about Daemon, for any threads, clients, faults and number of   *)
(* runs.                                                                   *)
(***************************************************************************)
EXTENDS Daemon, SetLogProofs

-----------------------------------------------------------------------------
(* The inductive invariant                                                 *)

Rewriting == {"load", "open", "write"}
Steps == [none     |-> {"none", "recv"},
          prepare  |-> {"diff", "sync", "metadata", "answer"} \cup Rewriting,
          complete |-> {"metadata", "answer"} \cup Rewriting]

(* A thread is where the request it handles can have brought it.           *)
WorkerOK(w) ==
    /\ w.at \in Steps[w.op]
    /\ w.op = "none" => w \in {NoThread, Waiting}
    /\ w.op # "none" => w.run \in 1 .. runs
    /\ w.at \in Rewriting => (w.task = "finished" <=> w.op = "complete")
    /\ w.archive <= archives
    /\ w.at \in Rewriting /\ w.task = "archived" => w.archive # NoDiff

WorkerInv == \A t \in Threads : WorkerOK(worker[t])

(* At most one request is on its way to a thread, none to a busy one.      *)
LinkInv ==
    \A t \in Threads :
        /\ worker[t].at = "none" => link[t] = Closed
        /\ link[t].requests # <<>> =>
              /\ ~ Busy(t)
              /\ \E op \in {"prepare", "complete"}, run \in 1 .. runs :
                    link[t].requests = << Request(op, run) >>

BasicInv == TypeOK /\ WorkerInv /\ LinkInv

(* Where the request of a client, or its answer, is.                       *)
Asked(c, t) ==
    /\ link[t].requests = << Request(client[c].at, client[c].run) >>
    /\ link[t].answers = <<>> /\ ~ Busy(t)
Served(c, t) ==
    /\ link[t].requests = <<>> /\ link[t].answers = <<>>
    /\ worker[t].op = client[c].at /\ worker[t].run = client[c].run
Answered(c, t, ok) ==
    /\ link[t].answers = << Reply(client[c].at, client[c].run, ok) >>
    /\ link[t].requests = <<>> /\ ~ Busy(t)
Silent(t) == link[t].requests = <<>> /\ link[t].answers = <<>> /\ ~ Busy(t)

InFlight(c, t) ==
    IF client[c].at = "rsync" THEN Silent(t)
    ELSE Asked(c, t) \/ Served(c, t) \/ \E ok \in BOOLEAN : Answered(c, t, ok)

(* A client has its connection for itself, and one request on it.          *)
ClientInv ==
    /\ \A c \in Clients :
          /\ client[c].at = "idle" => client[c] = Idle
          /\ client[c].at # "idle" => client[c].run \in 1 .. runs
    /\ \A c, d \in Clients :
          client[c].on \in Threads /\ client[c].on = client[d].on => c = d
    /\ \A c \in Clients, t \in Threads :
          client[c].on = t =>
              link[t].peer /\ worker[t].at # "none" /\ InFlight(c, t)

(* What is written, or going to be, names archives there are.              *)
PointerInv ==
    /\ PointersExist(file, archives)
    /\ \A t \in Threads : PointersExist(worker[t].entries, archives)

(* One handler at a time: what it has read is still there when it opens    *)
(* the file, and the file is empty when it writes.                         *)
SerialInv ==
    ~ overlapped =>
        /\ \A t, u \in Threads : Busy(t) /\ Busy(u) => t = u
        /\ Descending(file)
        /\ \A t \in Threads :
              /\ Descending(worker[t].entries)
              /\ worker[t].at = "open" =>
                    worker[t].entries = Rewritten(worker[t], file)
              /\ worker[t].at = "write" => file = <<>>

-----------------------------------------------------------------------------
(* Where a thread goes                                                     *)

Places == {"none", "recv", "diff", "load", "open", "write", "sync", "metadata", "answer"}

(* Of the threads, only t moves; it keeps its request.                     *)
Moves(t, at) ==
    /\ worker' \in [Threads -> Worker]
    /\ \A u \in Threads \ {t} : worker'[u] = worker[u]
    /\ worker'[t].op = worker[t].op /\ worker'[t].run = worker[t].run
    /\ worker'[t].at = at

LEMMA GoToMoves ==
    ASSUME worker \in [Threads -> Worker], NEW t \in Threads, NEW at \in Places,
           GoTo(t, at)
    PROVE  /\ Moves(t, at)
           /\ worker'[t].task = worker[t].task
           /\ worker'[t].entries = worker[t].entries
           /\ worker'[t].archive = worker[t].archive
           /\ worker'[t].ok = worker[t].ok
<1> DEFINE w == [worker[t] EXCEPT !.at = at]
<1>1. worker[t] \in Worker
    OBVIOUS
<1>2. w \in Worker
    BY <1>1 DEF Worker, Places
<1>3. /\ w.op = worker[t].op /\ w.run = worker[t].run /\ w.at = at
      /\ w.task = worker[t].task /\ w.entries = worker[t].entries
      /\ w.archive = worker[t].archive /\ w.ok = worker[t].ok
    BY <1>1 DEF Worker
<1>4. worker' = [worker EXCEPT ![t] = w]
    BY DEF GoTo
<1> HIDE DEF w
<1> QED
    BY <1>2, <1>3, <1>4 DEF Moves

LEMMA RewriteMoves ==
    ASSUME worker \in [Threads -> Worker], NEW t \in Threads, NEW task \in Tasks,
           Rewrite(t, task)
    PROVE  /\ Moves(t, "load")
           /\ worker'[t].task = task
           /\ worker'[t].entries = worker[t].entries
           /\ worker'[t].archive = worker[t].archive
<1> DEFINE w == [worker[t] EXCEPT !.at = "load", !.task = task]
<1>1. worker[t] \in Worker
    OBVIOUS
<1>2. w \in Worker
    BY <1>1 DEF Worker
<1>3. /\ w.op = worker[t].op /\ w.run = worker[t].run /\ w.at = "load"
      /\ w.task = task /\ w.entries = worker[t].entries
      /\ w.archive = worker[t].archive
    BY <1>1 DEF Worker
<1>4. worker' = [worker EXCEPT ![t] = w]
    BY DEF Rewrite
<1> HIDE DEF w
<1> QED
    BY <1>2, <1>3, <1>4 DEF Moves

LEMMA ArchivedMoves ==
    ASSUME worker \in [Threads -> Worker], NEW t \in Threads, NEW archive \in Nat,
           worker' = [worker EXCEPT ![t].at = "load", ![t].task = "archived",
                                    ![t].archive = archive]
    PROVE  /\ Moves(t, "load")
           /\ worker'[t].task = "archived"
           /\ worker'[t].entries = worker[t].entries
           /\ worker'[t].archive = archive
<1> DEFINE w == [worker[t] EXCEPT !.at = "load", !.task = "archived",
                                  !.archive = archive]
<1>1. worker[t] \in Worker
    OBVIOUS
<1>2. w \in Worker
    BY <1>1 DEF Worker, Tasks
<1>3. /\ w.op = worker[t].op /\ w.run = worker[t].run /\ w.at = "load"
      /\ w.task = "archived" /\ w.entries = worker[t].entries
      /\ w.archive = archive
    BY <1>1 DEF Worker
<1>4. worker' = [worker EXCEPT ![t] = w]
    OBVIOUS
<1> HIDE DEF w
<1> QED
    BY <1>2, <1>3, <1>4 DEF Moves

LEMMA LoadedMoves ==
    ASSUME worker \in [Threads -> Worker], NEW t \in Threads, NEW entries \in Seq(Entry),
           worker' = [worker EXCEPT ![t].at = "open", ![t].entries = entries]
    PROVE  /\ Moves(t, "open")
           /\ worker'[t].task = worker[t].task
           /\ worker'[t].entries = entries
           /\ worker'[t].archive = worker[t].archive
<1> DEFINE w == [worker[t] EXCEPT !.at = "open", !.entries = entries]
<1>1. worker[t] \in Worker
    OBVIOUS
<1>2. w \in Worker
    BY <1>1 DEF Worker
<1>3. /\ w.op = worker[t].op /\ w.run = worker[t].run /\ w.at = "open"
      /\ w.task = worker[t].task /\ w.entries = entries
      /\ w.archive = worker[t].archive
    BY <1>1 DEF Worker
<1>4. worker' = [worker EXCEPT ![t] = w]
    OBVIOUS
<1> HIDE DEF w
<1> QED
    BY <1>2, <1>3, <1>4 DEF Moves

LEMMA GoesMoves ==
    ASSUME worker \in [Threads -> Worker], NEW t \in Threads, NEW at \in Places,
           NEW ok \in BOOLEAN, Goes(t, at, ok)
    PROVE  /\ Moves(t, at)
           /\ worker'[t].task = "started"
           /\ worker'[t].entries = <<>>
           /\ worker'[t].archive = NoDiff
           /\ worker'[t].ok = ok
<1> DEFINE w == [op |-> worker[t].op, run |-> worker[t].run, at |-> at,
                 task |-> "started", entries |-> <<>>, archive |-> NoDiff, ok |-> ok]
<1>1. worker[t] \in Worker
    OBVIOUS
<1>2. w \in Worker
    <2>1. <<>> \in Seq(Entry)
        BY EmptySeq
    <2> QED
        BY <1>1, <2>1 DEF Worker, Places, Tasks, NoDiff
<1>3. /\ w.op = worker[t].op /\ w.run = worker[t].run /\ w.at = at
      /\ w.task = "started" /\ w.entries = <<>>
      /\ w.archive = NoDiff /\ w.ok = ok
    OBVIOUS
<1>4. worker' = [worker EXCEPT ![t] = w]
    BY DEF Goes
<1> HIDE DEF w
<1> QED
    BY <1>2, <1>3, <1>4 DEF Moves

-----------------------------------------------------------------------------
(* The steps of a handler                                                  *)

(* What every step of a handler does and leaves.                           *)
HandlerStep(t) ==
    /\ Busy(t)
    /\ file' \in Seq(Entry)
    /\ archives' \in Nat /\ archives <= archives'
    /\ metadata' \in [by : Nat, done : BOOLEAN]
    /\ harmed' \in BOOLEAN /\ (harmed => harmed')
    /\ \E at \in Places : Moves(t, at)
    /\ WorkerOK(worker[t])'

LEMMA BusySteps ==
    ASSUME BasicInv, NEW t \in Threads
    PROVE  /\ worker[t] \in Worker /\ WorkerOK(worker[t])
           /\ worker[t].at \notin {"none", "recv"} => Busy(t)
           /\ worker[t].at \in Rewriting => Busy(t)
           /\ Busy(t) => /\ worker[t].run \in Nat \ {0}
                         /\ worker[t].at \notin {"none", "recv"}
<1>1. worker[t] \in Worker /\ WorkerOK(worker[t])
    BY DEF BasicInv, TypeOK, WorkerInv
<1>2. /\ Steps["none"] = {"none", "recv"}
      /\ \A op \in {"prepare", "complete"} : Steps[op] \cap {"none", "recv"} = {}
    BY DEF Steps, Rewriting
<1> QED
    BY <1>1, <1>2 DEF WorkerOK, Worker, Busy, Rewriting, BasicInv, TypeOK

LEMMA RewrittenTypes ==
    ASSUME BasicInv, NEW t \in Threads, worker[t].at \in Rewriting,
           NEW found \in Seq(Entry)
    PROVE  Rewritten(worker[t], found) \in Seq(Entry)
<1>1. worker[t] \in Worker /\ worker[t].run \in Nat \ {0}
    BY BusySteps
<1>2. worker[t].task \in Tasks /\ worker[t].archive \in Nat
    BY <1>1 DEF Worker
<1>3. CASE worker[t].task = "archived"
    BY <1>2, <1>3, UpdateForDiffProperties DEF Rewritten
<1>4. CASE worker[t].task = "started"
    BY <1>1, <1>4, NewEntryTypes DEF Rewritten
<1>5. CASE worker[t].task = "finished"
    BY <1>1, <1>5, FinalizeProperties DEF Rewritten
<1> QED
    BY <1>2, <1>3, <1>4, <1>5 DEF Tasks

After(task) == IF task = "archived" THEN "sync" ELSE "answer"

LEMMA ProceedMoves ==
    ASSUME BasicInv, NEW t \in Threads, worker[t].at \in Rewriting, Proceed(t),
           UNCHANGED <<archives, runs>>
    PROVE  /\ Moves(t, After(worker[t].task))
           /\ worker'[t].task = "started"
           /\ worker'[t].entries = <<>>
           /\ worker'[t].ok = (worker[t].task # "archived")
           /\ WorkerOK(worker[t])'
<1>1. /\ worker[t] \in Worker /\ WorkerOK(worker[t]) /\ Busy(t)
      /\ worker \in [Threads -> Worker] /\ archives \in Nat
    BY BusySteps DEF BasicInv, TypeOK
<1>2. /\ Moves(t, After(worker[t].task))
      /\ worker'[t].task = "started"
      /\ worker'[t].entries = <<>>
      /\ worker'[t].archive = NoDiff
      /\ worker'[t].ok = (worker[t].task # "archived")
    <2>1. CASE worker[t].task = "archived"
        <3>1. Goes(t, "sync", FALSE)
            BY <2>1 DEF Proceed
        <3> QED
            BY <1>1, <2>1, <3>1, GoesMoves DEF Places, After
    <2>2. CASE worker[t].task # "archived"
        <3>1. Goes(t, "answer", TRUE)
            BY <2>2 DEF Proceed, Answer
        <3> QED
            BY <1>1, <2>2, <3>1, GoesMoves DEF Places, After
    <2> QED
        BY <2>1, <2>2
<1>3. WorkerOK(worker[t])'
    BY <1>1, <1>2 DEF WorkerOK, Moves, After, Steps, Rewriting, NoDiff, Busy, Worker, Tasks
<1> QED
    BY <1>2, <1>3

LEMMA LoadStep ==
    ASSUME BasicInv, NEW t \in Threads, Load(t), UNCHANGED runs
    PROVE  HandlerStep(t)
<1>1. /\ worker[t] \in Worker /\ WorkerOK(worker[t]) /\ Busy(t)
      /\ worker \in [Threads -> Worker] /\ worker[t].at \in Rewriting
      /\ UNCHANGED <<file, archives, metadata, harmed>>
    BY BusySteps DEF BasicInv, TypeOK, Load, Rewriting
<1>2. (\E at \in Places : Moves(t, at)) /\ WorkerOK(worker[t])'
    <2>1. CASE Unchanged(worker[t].task, file)
        <3>1. Proceed(t)
            BY <2>1 DEF Load
        <3>2. Moves(t, After(worker[t].task)) /\ WorkerOK(worker[t])'
            BY <1>1, <3>1, ProceedMoves
        <3> QED
            BY <3>2 DEF After, Places
    <2>2. CASE ~ Unchanged(worker[t].task, file)
        <3> DEFINE entries == Rewritten(worker[t], file)
        <3>1. entries \in Seq(Entry)
            BY <1>1, RewrittenTypes DEF BasicInv, TypeOK
        <3>2. worker' = [worker EXCEPT ![t].at = "open", ![t].entries = entries]
            BY <2>2 DEF Load
        <3> HIDE DEF entries
        <3>3. /\ Moves(t, "open")
              /\ worker'[t].task = worker[t].task
              /\ worker'[t].archive = worker[t].archive
            BY <1>1, <3>1, <3>2, LoadedMoves
        <3>4. WorkerOK(worker[t])'
            BY <1>1, <3>3 DEF WorkerOK, Moves, Steps, Rewriting, Busy, Worker
        <3> QED
            BY <3>3, <3>4 DEF Places
    <2> QED
        BY <2>1, <2>2
<1> QED
    BY <1>1, <1>2 DEF HandlerStep, BasicInv, TypeOK

LEMMA OpenStep ==
    ASSUME BasicInv, NEW t \in Threads, Open(t), UNCHANGED runs
    PROVE  HandlerStep(t)
<1>1. /\ worker[t] \in Worker /\ WorkerOK(worker[t]) /\ Busy(t)
      /\ worker \in [Threads -> Worker] /\ worker[t].at \in Rewriting
      /\ UNCHANGED <<archives, metadata, harmed>>
    BY BusySteps DEF BasicInv, TypeOK, Open, Rewriting
<1>2. /\ Moves(t, "write")
      /\ worker'[t].task = worker[t].task
      /\ worker'[t].archive = worker[t].archive
    BY <1>1, GoToMoves DEF Open, Places
<1>3. WorkerOK(worker[t])'
    BY <1>1, <1>2 DEF WorkerOK, Moves, Steps, Rewriting, Busy, Worker
<1>4. file' \in Seq(Entry)
    BY EmptySeq DEF Open
<1>5. \E at \in Places : Moves(t, at)
    BY <1>2 DEF Places
<1> QED
    BY <1>1, <1>3, <1>4, <1>5 DEF HandlerStep, BasicInv, TypeOK

(* The first lines and the last lines of a log.                            *)
LEMMA PartOfLog ==
    ASSUME NEW entries \in Seq(Entry), NEW k \in 0 .. Len(entries)
    PROVE  /\ SubSeq(entries, 1, k) \in Seq(Entry)
           /\ Len(SubSeq(entries, 1, k)) = k
           /\ \A i \in 1 .. k : SubSeq(entries, 1, k)[i] = entries[i]
           /\ SubSeq(entries, k + 1, Len(entries)) \in Seq(Entry)
           /\ Len(SubSeq(entries, k + 1, Len(entries))) = Len(entries) - k
           /\ \A i \in 1 .. Len(entries) - k :
                SubSeq(entries, k + 1, Len(entries))[i] = entries[k + i]
<1>1. Len(entries) \in Nat /\ \A i \in 1 .. Len(entries) : entries[i] \in Entry
    BY LenProperties, ElementOfSeq
<1>2. /\ SubSeq(entries, 1, k) \in Seq(Entry)
      /\ Len(SubSeq(entries, 1, k)) = IF 1 <= k THEN k - 1 + 1 ELSE 0
      /\ \A i \in 1 .. k - 1 + 1 : SubSeq(entries, 1, k)[i] = entries[1 + i - 1]
    <2>1. \A i \in 1 .. k : entries[i] \in Entry
        BY <1>1
    <2> QED
        BY <1>1, <2>1, SubSeqProperties
<1>3. /\ SubSeq(entries, k + 1, Len(entries)) \in Seq(Entry)
      /\ Len(SubSeq(entries, k + 1, Len(entries))) =
            IF k + 1 <= Len(entries) THEN Len(entries) - (k + 1) + 1 ELSE 0
      /\ \A i \in 1 .. Len(entries) - (k + 1) + 1 :
            SubSeq(entries, k + 1, Len(entries))[i] = entries[k + 1 + i - 1]
    <2>1. \A i \in k + 1 .. Len(entries) : entries[i] \in Entry
        BY <1>1
    <2>2. k + 1 \in Int /\ Len(entries) \in Int
        BY <1>1
    <2> QED
        BY <2>1, <2>2, SubSeqProperties
<1>4. \A i \in 1 .. k : i \in 1 .. k - 1 + 1 /\ 1 + i - 1 = i
    OBVIOUS
<1>5. \A i \in 1 .. Len(entries) - k :
        i \in 1 .. Len(entries) - (k + 1) + 1 /\ k + 1 + i - 1 = k + i
    BY <1>1
<1> QED
    BY <1>1, <1>2, <1>3, <1>4, <1>5

(* What is left behind a text that is written over a longer one.           *)
LEMMA LeftBehindTypes ==
    ASSUME file \in Seq(Entry), NEW entries \in Seq(Entry),
           NEW rest \in LeftBehind(entries)
    PROVE  /\ rest \in Seq(Entry)
           /\ \A i \in DOMAIN rest : \E j \in DOMAIN file : rest[i] = file[j]
           /\ file = <<>> => rest = <<>>
<1>1. Len(file) \in Nat /\ DOMAIN file = 1 .. Len(file) /\ Len(entries) \in Nat
    BY LenProperties
<1>2. CASE rest = <<>>
    BY <1>2, EmptySeq
<1>3. CASE rest # <<>>
    <2>1. PICK k \in Len(entries) + 1 .. Len(file) + 1 : rest = SubSeq(file, k, Len(file))
        BY <1>3 DEF LeftBehind
    <2>2. k - 1 \in 0 .. Len(file) /\ k - 1 + 1 = k
        BY <1>1
    <2>3. /\ rest \in Seq(Entry)
          /\ Len(rest) = Len(file) - (k - 1)
          /\ \A i \in 1 .. Len(file) - (k - 1) : rest[i] = file[k - 1 + i]
        BY <2>1, <2>2, PartOfLog
    <2>4. DOMAIN rest = 1 .. Len(file) - (k - 1)
        BY <2>3, LenProperties
    <2>5. \A i \in 1 .. Len(file) - (k - 1) : k - 1 + i \in DOMAIN file
        BY <1>1, <2>2
    <2>6. Len(rest) \in Nat \ {0}
        BY <1>3, <2>3, EmptySeq
    <2>7. file # <<>>
        BY <1>1, <2>2, <2>3, <2>6, EmptySeq
    <2> QED
        BY <2>3, <2>4, <2>5, <2>7
<1> QED
    BY <1>2, <1>3

LEMMA WriteStep ==
    ASSUME BasicInv, NEW t \in Threads, Write(t) \/ WriteFails(t), UNCHANGED runs
    PROVE  HandlerStep(t)
<1>1. /\ worker[t] \in Worker /\ WorkerOK(worker[t]) /\ Busy(t)
      /\ worker[t].at \in Rewriting
      /\ UNCHANGED <<archives, metadata>> /\ Proceed(t)
    BY BusySteps DEF BasicInv, TypeOK, Write, WriteFails, Rewriting
<1>2. (\E at \in Places : Moves(t, at)) /\ WorkerOK(worker[t])'
    <2>1. Moves(t, After(worker[t].task)) /\ WorkerOK(worker[t])'
        BY <1>1, ProceedMoves
    <2> QED
        BY <2>1 DEF After, Places
<1>3. worker[t].entries \in Seq(Entry) /\ file \in Seq(Entry)
    BY <1>1 DEF Worker, BasicInv, TypeOK
<1>4. file' \in Seq(Entry)
    <2>1. CASE Write(t)
        <3>1. PICK rest \in LeftBehind(worker[t].entries) :
                file' = worker[t].entries \o rest
            BY <2>1 DEF Write
        <3>2. rest \in Seq(Entry)
            BY <1>3, LeftBehindTypes
        <3> QED
            BY <1>3, <3>1, <3>2, ConcatProperties
    <2>2. CASE WriteFails(t)
        <3>1. PICK k \in 0 .. Len(worker[t].entries) :
                file' = SubSeq(worker[t].entries, 1, k)
            BY <2>2 DEF WriteFails, Written
        <3> QED
            BY <1>3, <3>1, PartOfLog
    <2> QED
        BY <2>1, <2>2
<1>5. harmed' \in BOOLEAN /\ (harmed => harmed')
    <2>1. CASE harmed' = harmed
        BY <2>1 DEF BasicInv, TypeOK
    <2>2. CASE harmed' = TRUE
        BY <2>2
    <2> QED
        BY <2>1, <2>2 DEF Write, WriteFails
<1> QED
    BY <1>1, <1>2, <1>4, <1>5 DEF HandlerStep, BasicInv, TypeOK

LEMMA CreateDiffStep ==
    ASSUME BasicInv, NEW t \in Threads, CreateDiff(t), UNCHANGED runs
    PROVE  /\ HandlerStep(t)
           /\ worker'[t].entries \in {worker[t].entries, <<>>}
           /\ worker'[t].at = "load" => worker'[t].task = "archived"
           /\ worker'[t].at = "answer" => worker'[t].ok = FALSE
<1>1. /\ worker[t] \in Worker /\ WorkerOK(worker[t]) /\ Busy(t)
      /\ worker \in [Threads -> Worker]
      /\ worker[t].op = "prepare" /\ worker[t].at = "diff"
      /\ archives \in Nat /\ archives' \in {archives, archives + 1}
      /\ UNCHANGED <<file, metadata, harmed>>
    BY BusySteps DEF BasicInv, TypeOK, CreateDiff, Doing, Busy
<1>2. /\ \E at \in Places : Moves(t, at)
      /\ WorkerOK(worker[t])'
      /\ worker'[t].entries \in {worker[t].entries, <<>>}
      /\ worker'[t].at = "load" => worker'[t].task = "archived"
      /\ worker'[t].at = "answer" => worker'[t].ok = FALSE
    <2>1. CASE GoTo(t, "sync")
        <3>1. /\ Moves(t, "sync")
              /\ worker'[t].archive = worker[t].archive
              /\ worker'[t].entries = worker[t].entries
            BY <1>1, <2>1, GoToMoves DEF Places
        <3>2. WorkerOK(worker[t])'
            BY <1>1, <3>1 DEF WorkerOK, Moves, Steps, Rewriting, Worker
        <3> QED
            BY <3>1, <3>2 DEF Places, Moves
    <2>2. CASE /\ archives' = archives + 1
               /\ worker' = [worker EXCEPT ![t].at = "load", ![t].task = "archived",
                                            ![t].archive = archives + 1]
        <3>1. /\ Moves(t, "load")
              /\ worker'[t].task = "archived"
              /\ worker'[t].archive = archives + 1
              /\ worker'[t].entries = worker[t].entries
            <4>1. archives + 1 \in Nat
                BY <1>1
            <4> QED
                BY <1>1, <2>2, <4>1, ArchivedMoves
        <3>2. WorkerOK(worker[t])'
            BY <1>1, <2>2, <3>1 DEF WorkerOK, Moves, Steps, Rewriting, Worker, NoDiff
        <3> QED
            BY <3>1, <3>2 DEF Places, Moves
    <2>3. CASE Answer(t, FALSE)
        <3>1. /\ Moves(t, "answer")
              /\ worker'[t].archive = NoDiff
              /\ worker'[t].entries = <<>>
              /\ worker'[t].ok = FALSE
            BY <1>1, <2>3, GoesMoves DEF Answer, Places
        <3>2. WorkerOK(worker[t])'
            BY <1>1, <3>1 DEF WorkerOK, Moves, Steps, Rewriting, Worker, NoDiff
        <3> QED
            BY <3>1, <3>2 DEF Places, Moves
    <2> QED
        BY <2>1, <2>2, <2>3 DEF CreateDiff
<1> QED
    BY <1>1, <1>2 DEF HandlerStep, BasicInv, TypeOK

LEMMA SyncSnapshotsStep ==
    ASSUME BasicInv, NEW t \in Threads, SyncSnapshots(t), UNCHANGED runs
    PROVE  /\ HandlerStep(t)
           /\ worker'[t].entries \in {worker[t].entries, <<>>}
           /\ worker'[t].at \in {"metadata", "answer"}
           /\ worker'[t].at = "answer" => worker'[t].ok = FALSE
<1>1. /\ worker[t] \in Worker /\ WorkerOK(worker[t]) /\ Busy(t)
      /\ worker \in [Threads -> Worker]
      /\ worker[t].op = "prepare" /\ worker[t].at = "sync"
      /\ archives \in Nat
      /\ UNCHANGED <<file, archives, metadata, harmed>>
    BY BusySteps DEF BasicInv, TypeOK, SyncSnapshots, Doing, Busy
<1>2. /\ \E at \in Places : Moves(t, at)
      /\ WorkerOK(worker[t])'
      /\ worker'[t].entries \in {worker[t].entries, <<>>}
      /\ worker'[t].at \in {"metadata", "answer"}
      /\ worker'[t].at = "answer" => worker'[t].ok = FALSE
    <2>1. CASE GoTo(t, "metadata")
        <3>1. /\ Moves(t, "metadata")
              /\ worker'[t].archive = worker[t].archive
              /\ worker'[t].entries = worker[t].entries
            BY <1>1, <2>1, GoToMoves DEF Places
        <3>2. WorkerOK(worker[t])'
            BY <1>1, <3>1 DEF WorkerOK, Moves, Steps, Rewriting, Worker
        <3> QED
            BY <3>1, <3>2 DEF Places, Moves
    <2>2. CASE Answer(t, FALSE)
        <3>1. /\ Moves(t, "answer")
              /\ worker'[t].archive = NoDiff
              /\ worker'[t].entries = <<>>
              /\ worker'[t].ok = FALSE
            BY <1>1, <2>2, GoesMoves DEF Answer, Places
        <3>2. WorkerOK(worker[t])'
            BY <1>1, <3>1 DEF WorkerOK, Moves, Steps, Rewriting, Worker, NoDiff
        <3> QED
            BY <3>1, <3>2 DEF Places, Moves
    <2> QED
        BY <2>1, <2>2 DEF SyncSnapshots
<1> QED
    BY <1>1, <1>2 DEF HandlerStep, BasicInv, TypeOK

LEMMA MetadataStartedStep ==
    ASSUME BasicInv, NEW t \in Threads, MetadataStarted(t), UNCHANGED runs
    PROVE  /\ HandlerStep(t)
           /\ worker'[t].at = "load" /\ worker'[t].task = "started"
           /\ worker'[t].entries = worker[t].entries
<1>1. /\ worker[t] \in Worker /\ WorkerOK(worker[t]) /\ Busy(t)
      /\ worker \in [Threads -> Worker]
      /\ worker[t].op = "prepare" /\ worker[t].at = "metadata"
      /\ archives \in Nat
      /\ UNCHANGED <<file, archives>>
    BY BusySteps DEF BasicInv, TypeOK, MetadataStarted, Doing, Busy
<1>2. /\ Moves(t, "load")
      /\ worker'[t].task = "started"
      /\ worker'[t].entries = worker[t].entries
      /\ worker'[t].archive = worker[t].archive
    BY <1>1, RewriteMoves DEF MetadataStarted, Tasks
<1>3. WorkerOK(worker[t])'
    BY <1>1, <1>2 DEF WorkerOK, Moves, Steps, Rewriting, Worker
<1>4. metadata' \in [by : Nat, done : BOOLEAN]
    <2>1. [by |-> worker[t].run, done |-> FALSE] \in [by : Nat, done : BOOLEAN]
        BY <1>1 DEF Worker
    <2>2. NoMetadata \in [by : Nat, done : BOOLEAN]
        BY DEF NoMetadata
    <2> QED
        BY <2>1, <2>2 DEF MetadataStarted, BasicInv, TypeOK
<1>5. harmed' \in BOOLEAN /\ (harmed => harmed')
    <2>1. CASE harmed' = harmed
        BY <2>1 DEF BasicInv, TypeOK
    <2>2. CASE harmed' = TRUE
        BY <2>2
    <2> QED
        BY <2>1, <2>2 DEF MetadataStarted
<1>6. (\E at \in Places : Moves(t, at)) /\ worker'[t].at = "load"
    BY <1>2 DEF Places, Moves
<1> QED
    BY <1>1, <1>2, <1>3, <1>4, <1>5, <1>6 DEF HandlerStep, BasicInv, TypeOK

LEMMA MetadataFinishedStep ==
    ASSUME BasicInv, NEW t \in Threads, MetadataFinished(t), UNCHANGED runs
    PROVE  /\ HandlerStep(t)
           /\ worker'[t].entries \in {worker[t].entries, <<>>}
           /\ ~ harmed' => worker'[t].at = "load" /\ worker'[t].task = "finished"
<1>1. /\ worker[t] \in Worker /\ WorkerOK(worker[t]) /\ Busy(t)
      /\ worker \in [Threads -> Worker]
      /\ worker[t].op = "complete" /\ worker[t].at = "metadata"
      /\ archives \in Nat
      /\ UNCHANGED <<file, archives>>
    BY BusySteps DEF BasicInv, TypeOK, MetadataFinished, Doing, Busy
<1>2. /\ \E at \in Places : Moves(t, at)
      /\ WorkerOK(worker[t])'
      /\ worker'[t].entries \in {worker[t].entries, <<>>}
      /\ ~ harmed' => worker'[t].at = "load" /\ worker'[t].task = "finished"
    <2>1. CASE Rewrite(t, "finished")
        <3>1. /\ Moves(t, "load")
              /\ worker'[t].task = "finished"
              /\ worker'[t].archive = worker[t].archive
              /\ worker'[t].entries = worker[t].entries
            BY <1>1, <2>1, RewriteMoves DEF Tasks
        <3>2. WorkerOK(worker[t])'
            BY <1>1, <3>1 DEF WorkerOK, Moves, Steps, Rewriting, Worker
        <3> QED
            BY <3>1, <3>2 DEF Places, Moves
    <2>2. CASE Answer(t, TRUE) /\ harmed' = TRUE
        <3>1. /\ Moves(t, "answer")
              /\ worker'[t].archive = NoDiff
              /\ worker'[t].entries = <<>>
            BY <1>1, <2>2, GoesMoves DEF Answer, Places
        <3>2. WorkerOK(worker[t])'
            BY <1>1, <3>1 DEF WorkerOK, Moves, Steps, Rewriting, Worker, NoDiff
        <3> QED
            BY <2>2, <3>1, <3>2 DEF Places, Moves
    <2> QED
        BY <2>1, <2>2 DEF MetadataFinished
<1>3. metadata' \in [by : Nat, done : BOOLEAN]
    <2>1. NoMetadata \in [by : Nat, done : BOOLEAN]
        BY DEF NoMetadata
    <2>2. [metadata EXCEPT !.done = TRUE] \in [by : Nat, done : BOOLEAN]
        BY DEF BasicInv, TypeOK
    <2> QED
        BY <2>1, <2>2 DEF MetadataFinished, BasicInv, TypeOK
<1>4. harmed' \in BOOLEAN /\ (harmed => harmed')
    <2>1. CASE harmed' = harmed
        BY <2>1 DEF BasicInv, TypeOK
    <2>2. CASE harmed' = TRUE
        BY <2>2
    <2> QED
        BY <2>1, <2>2 DEF MetadataFinished
<1> QED
    BY <1>1, <1>2, <1>3, <1>4 DEF HandlerStep, BasicInv, TypeOK

LEMMA HandleStep ==
    ASSUME BasicInv, NEW t \in Threads, Handle(t), UNCHANGED runs
    PROVE  HandlerStep(t)
BY LoadStep, OpenStep, WriteStep, CreateDiffStep, SyncSnapshotsStep,
   MetadataStartedStep, MetadataFinishedStep DEF Handle, RewriteSetLog

-----------------------------------------------------------------------------
(* Types, threads and connections                                          *)

CoreInv == BasicInv /\ ClientInv

LEMMA HandleBasic ==
    ASSUME BasicInv, NEW t \in Threads, Handle(t),
           UNCHANGED <<daemon, link, client, runs, done, overlapped>>
    PROVE  BasicInv'
<1>1. HandlerStep(t)
    BY HandleStep
<1>2. /\ worker' \in [Threads -> Worker]
      /\ \A u \in Threads \ {t} : worker'[u] = worker[u]
      /\ worker'[t].op = worker[t].op
    BY <1>1 DEF HandlerStep, Moves
<1>3. TypeOK'
    BY <1>1, <1>2 DEF HandlerStep, TypeOK, BasicInv, Link, Client, Message
<1>4. WorkerInv'
    <2> SUFFICES ASSUME NEW u \in Threads PROVE WorkerOK(worker[u])'
        BY DEF WorkerInv
    <2>1. CASE u = t
        BY <1>1, <2>1 DEF HandlerStep
    <2>2. CASE u # t
        <3>1. /\ worker'[u] = worker[u] /\ WorkerOK(worker[u])
              /\ worker[u] \in Worker /\ archives \in Nat
            BY <1>2, <2>2 DEF BasicInv, WorkerInv, TypeOK
        <3>2. archives' \in Nat /\ archives <= archives'
            BY <1>1 DEF HandlerStep
        <3> QED
            BY <3>1, <3>2 DEF WorkerOK, Worker
    <2> QED
        BY <2>1, <2>2
<1>5. LinkInv'
    <2>1. Busy(t) /\ Busy(t)'
        BY <1>1, <1>2 DEF HandlerStep, Busy
    <2>2. worker[t].at # "none" /\ worker'[t].at # "none"
        <3>1. WorkerOK(worker[t]) /\ WorkerOK(worker[t])'
            BY <1>4 DEF BasicInv, WorkerInv
        <3>2. worker[t].op \in {"prepare", "complete"}
              /\ worker'[t].op \in {"prepare", "complete"}
            BY <1>2, <2>1 DEF Busy, BasicInv, TypeOK, Worker
        <3> QED
            BY <3>1, <3>2 DEF WorkerOK, Steps, Rewriting
    <2> SUFFICES ASSUME NEW u \in Threads
                 PROVE  /\ worker'[u].at = "none" => link[u] = Closed
                        /\ link[u].requests # <<>> =>
                              /\ ~ worker'[u].op # "none"
                              /\ \E op \in {"prepare", "complete"}, run \in 1 .. runs :
                                    link[u].requests = << Request(op, run) >>
        BY DEF LinkInv, Busy, Closed, Request
    <2>3. CASE u = t
        BY <2>1, <2>2, <2>3 DEF BasicInv, LinkInv
    <2>4. CASE u # t
        BY <1>2, <2>4 DEF BasicInv, LinkInv, Busy
    <2> QED
        BY <2>3, <2>4
<1> QED
    BY <1>3, <1>4, <1>5 DEF BasicInv

(* Where neither the client nor the thread does anything, the request      *)
(* stays where it is.                                                      *)
LEMMA InFlightStays ==
    ASSUME NEW c \in Clients, NEW t \in Threads, InFlight(c, t),
           client'[c] = client[c], link'[t] = link[t],
           worker'[t].op = worker[t].op, worker'[t].run = worker[t].run
    PROVE  InFlight(c, t)'
BY DEF InFlight, Silent, Asked, Served, Answered, Busy, Request, Reply

LEMMA HandleCore ==
    ASSUME CoreInv, NEW t \in Threads, Handle(t),
           UNCHANGED <<daemon, link, client, runs, done, overlapped>>
    PROVE  CoreInv'
<1>1. BasicInv'
    BY HandleBasic DEF CoreInv
<1>2. HandlerStep(t)
    BY HandleStep DEF CoreInv
<1>3. \A u \in Threads :
        /\ worker'[u].op = worker[u].op
        /\ worker'[u].run = worker[u].run
        /\ worker[u].at # "none" => worker'[u].at # "none"
    <2> SUFFICES ASSUME NEW u \in Threads
                 PROVE  /\ worker'[u].op = worker[u].op
                        /\ worker'[u].run = worker[u].run
                        /\ worker[u].at # "none" => worker'[u].at # "none"
        OBVIOUS
    <2>1. CASE u = t
        <3>1. /\ worker'[t].op = worker[t].op /\ worker'[t].run = worker[t].run
              /\ worker'[t].op # "none" /\ WorkerOK(worker[t])'
            BY <1>2 DEF HandlerStep, Moves, Busy
        <3>2. worker'[t].op \in {"prepare", "complete"}
            BY <1>1, <3>1 DEF BasicInv, TypeOK, Worker
        <3> QED
            BY <2>1, <3>1, <3>2 DEF WorkerOK, Steps, Rewriting
    <2>2. CASE u # t
        BY <1>2, <2>2 DEF HandlerStep, Moves
    <2> QED
        BY <2>1, <2>2
<1>4. ASSUME NEW c \in Clients, NEW u \in Threads, client[c].on = u
      PROVE  link[u].peer /\ worker'[u].at # "none" /\ InFlight(c, u)'
    <2>1. link[u].peer /\ worker[u].at # "none" /\ InFlight(c, u)
        BY <1>4 DEF CoreInv, ClientInv
    <2> QED
        BY <1>3, <2>1, InFlightStays
<1>5. ClientInv'
    BY <1>4 DEF CoreInv, ClientInv, Idle
<1> QED
    BY <1>1, <1>5 DEF CoreInv

(* How a command ends.                                                     *)
LEMMA EndEffect ==
    ASSUME CoreInv, NEW c \in Clients, End(c)
    PROVE  /\ client' \in [Clients -> Client] /\ client'[c] = Idle
           /\ \A d \in Clients \ {c} : client'[d] = client[d]
           /\ link' \in [Threads -> Link]
           /\ \A t \in Threads :
                 /\ link'[t].requests = link[t].requests
                 /\ t # client[c].on => link'[t] = link[t]
                 /\ t = client[c].on => ~ link'[t].peer /\ link'[t].answers = <<>>
<1>1. client \in [Clients -> Client] /\ link \in [Threads -> Link]
    BY DEF CoreInv, BasicInv, TypeOK
<1>2. Idle \in Client
    BY DEF Idle, Client
<1>3. /\ client' \in [Clients -> Client] /\ client'[c] = Idle
      /\ \A d \in Clients \ {c} : client'[d] = client[d]
    BY <1>1, <1>2 DEF End
<1>4. CASE client[c].on \notin Threads
    BY <1>1, <1>3, <1>4 DEF End
<1>5. CASE client[c].on \in Threads
    <2> DEFINE t == client[c].on
               l == [link[t] EXCEPT !.peer = FALSE, !.answers = <<>>]
    <2>1. link[t] \in Link
        BY <1>1, <1>5
    <2>2. l \in Link /\ ~ l.peer /\ l.answers = <<>> /\ l.requests = link[t].requests
        <3>1. <<>> \in Seq(Message)
            BY EmptySeq
        <3> QED
            BY <2>1, <3>1 DEF Link
    <2>3. link' = [link EXCEPT ![t] = l]
        BY <1>5 DEF End
    <2> HIDE DEF l, t
    <2>4. t \in Threads /\ t = client[c].on
        BY <1>5 DEF t
    <2> QED
        BY <1>1, <1>3, <2>2, <2>3, <2>4
<1> QED
    BY <1>4, <1>5

LEMMA EndCore ==
    ASSUME CoreInv, NEW c \in Clients, End(c),
           UNCHANGED <<serverVars, runs>>,
           \/ done' = done
           \/ client[c].at # "idle" /\ done' = done \cup {client[c].run}
    PROVE  CoreInv'
<1>1. /\ client' \in [Clients -> Client] /\ client'[c] = Idle
      /\ \A d \in Clients \ {c} : client'[d] = client[d]
      /\ link' \in [Threads -> Link]
      /\ \A t \in Threads :
            /\ link'[t].requests = link[t].requests
            /\ t # client[c].on => link'[t] = link[t]
            /\ t = client[c].on => ~ link'[t].peer /\ link'[t].answers = <<>>
    BY EndEffect
<1>2. UNCHANGED <<file, archives, metadata, worker, harmed, daemon, overlapped, runs>>
    BY DEF serverVars, fileVars
<1>3. done' \subseteq 1 .. runs
    BY DEF CoreInv, BasicInv, TypeOK, ClientInv
<1>4. TypeOK'
    BY <1>1, <1>2, <1>3 DEF TypeOK, CoreInv, BasicInv
<1>5. WorkerInv'
    BY <1>2 DEF WorkerInv, WorkerOK, CoreInv, BasicInv
<1>6. LinkInv'
    <2>1. ASSUME NEW t \in Threads, worker[t].at = "none"
          PROVE  link'[t] = Closed
        <3>1. link[t] = Closed
            BY <2>1 DEF CoreInv, BasicInv, LinkInv
        <3>2. ~ link[t].peer
            BY <3>1 DEF Closed
        <3>3. t # client[c].on
            BY <2>1 DEF CoreInv, ClientInv
        <3> QED
            BY <1>1, <3>1, <3>3
    <2> QED
        BY <1>1, <1>2, <2>1 DEF LinkInv, CoreInv, BasicInv, Busy, Closed, Request
<1>7. ClientInv'
    <2>1. Idle.at = "idle" /\ Idle.on \notin Threads
        BY DaemonAssumption DEF Idle
    <2>2. ASSUME NEW d \in Clients
          PROVE  /\ client'[d].at = "idle" => client'[d] = Idle
                 /\ client'[d].at # "idle" => client'[d].run \in 1 .. runs
        BY <1>1, <2>1, <2>2 DEF CoreInv, ClientInv
    <2>3. ASSUME NEW d \in Clients, NEW e \in Clients,
                 client'[d].on \in Threads, client'[d].on = client'[e].on
          PROVE  d = e
        <3>1. d # c /\ e # c
            BY <1>1, <2>1, <2>3
        <3> QED
            BY <1>1, <2>3, <3>1 DEF CoreInv, ClientInv
    <2>4. ASSUME NEW d \in Clients, NEW t \in Threads, client'[d].on = t
          PROVE  link'[t].peer /\ worker[t].at # "none" /\ InFlight(d, t)'
        <3>1. d # c /\ client[d].on = t
            BY <1>1, <2>1, <2>4
        <3>2. client[c].on # t
            BY <3>1 DEF CoreInv, ClientInv
        <3>3. link'[t] = link[t] /\ client'[d] = client[d] /\ worker'[t] = worker[t]
            BY <1>1, <1>2, <3>1, <3>2
        <3>4. link[t].peer /\ worker[t].at # "none" /\ InFlight(d, t)
            BY <3>1 DEF CoreInv, ClientInv
        <3> QED
            BY <3>3, <3>4, InFlightStays
    <2> QED
        BY <1>2, <2>2, <2>3, <2>4 DEF ClientInv, Idle
<1> QED
    BY <1>4, <1>5, <1>6, <1>7 DEF CoreInv, BasicInv

LEMMA IdleWorkers ==
    ASSUME archives \in Nat
    PROVE  /\ Waiting \in Worker /\ NoThread \in Worker
           /\ WorkerOK(Waiting) /\ WorkerOK(NoThread)
           /\ Waiting.op = "none" /\ NoThread.op = "none"
           /\ Waiting.at = "recv" /\ NoThread.at = "none"
           /\ Waiting.entries = <<>> /\ NoThread.entries = <<>>
<1>1. <<>> \in Seq(Entry)
    BY EmptySeq
<1>2. /\ Waiting \in Worker /\ NoThread \in Worker
      /\ Waiting.op = "none" /\ NoThread.op = "none"
      /\ Waiting.at = "recv" /\ NoThread.at = "none"
      /\ Waiting.entries = <<>> /\ NoThread.entries = <<>>
      /\ Waiting.archive = 0 /\ NoThread.archive = 0
    BY <1>1 DEF Waiting, NoThread, Worker, Tasks, NoDiff
<1>3. Steps["none"] = {"none", "recv"}
    BY DEF Steps
<1> QED
    BY <1>2, <1>3 DEF WorkerOK, Rewriting

(* A connection, a thread and the first request on it.                     *)
LEMMA BeginEffect ==
    ASSUME CoreInv, NEW c \in Clients, Begin(c)
    PROVE  \E new \in Threads :
              /\ worker[new].at = "none"
              /\ client' \in [Clients -> Client]
              /\ client'[c] = [at |-> "prepare", run |-> runs + 1, on |-> new]
              /\ \A d \in Clients \ {c} : client'[d] = client[d]
              /\ link' \in [Threads -> Link]
              /\ link'[new] = [peer |-> TRUE, answers |-> <<>>,
                               requests |-> << Request("prepare", runs + 1) >>]
              /\ worker' \in [Threads -> Worker] /\ worker'[new] = Waiting
              /\ \A t \in Threads \ {new} :
                    link'[t] = link[t] /\ worker'[t] = worker[t]
<1> DEFINE new == CHOOSE t \in Threads : worker[t].at = "none"
           k == [at |-> "prepare", run |-> runs + 1, on |-> new]
           l == [peer |-> TRUE, answers |-> <<>>,
                 requests |-> << Request("prepare", runs + 1) >>]
<1>1. /\ client \in [Clients -> Client] /\ link \in [Threads -> Link]
      /\ worker \in [Threads -> Worker] /\ runs \in Nat /\ archives \in Nat
    BY DEF CoreInv, BasicInv, TypeOK
<1>2. new \in Threads /\ worker[new].at = "none"
    BY DEF Begin
<1>3. /\ client' = [client EXCEPT ![c] = k]
      /\ link' = [link EXCEPT ![new] = l]
      /\ worker' = [worker EXCEPT ![new] = Waiting]
    BY DEF Begin
<1> HIDE DEF new
<1>4. k \in Client
    BY <1>1, <1>2 DEF Client
<1>5. l \in Link
    <2>1. Request("prepare", runs + 1) \in Message
        BY <1>1 DEF Request, Message
    <2>2. << Request("prepare", runs + 1) >> \in Seq(Message) /\ <<>> \in Seq(Message)
        BY <2>1, EmptySeq
    <2> QED
        BY <2>2 DEF Link
<1>6. Waiting \in Worker
    BY <1>1, IdleWorkers
<1> HIDE DEF k, l
<1>7. /\ client' \in [Clients -> Client] /\ client'[c] = k
      /\ \A d \in Clients \ {c} : client'[d] = client[d]
      /\ link' \in [Threads -> Link] /\ link'[new] = l
      /\ worker' \in [Threads -> Worker] /\ worker'[new] = Waiting
      /\ \A t \in Threads \ {new} : link'[t] = link[t] /\ worker'[t] = worker[t]
    BY <1>1, <1>2, <1>3, <1>4, <1>5, <1>6
<1> QED
    BY <1>2, <1>7 DEF k, l

LEMMA BeginCore ==
    ASSUME CoreInv, NEW c \in Clients, Begin(c)
    PROVE  CoreInv'
<1>1. PICK new \in Threads :
        /\ worker[new].at = "none"
        /\ client' \in [Clients -> Client]
        /\ client'[c] = [at |-> "prepare", run |-> runs + 1, on |-> new]
        /\ \A d \in Clients \ {c} : client'[d] = client[d]
        /\ link' \in [Threads -> Link]
        /\ link'[new] = [peer |-> TRUE, answers |-> <<>>,
                         requests |-> << Request("prepare", runs + 1) >>]
        /\ worker' \in [Threads -> Worker] /\ worker'[new] = Waiting
        /\ \A t \in Threads \ {new} : link'[t] = link[t] /\ worker'[t] = worker[t]
    BY BeginEffect
<1>2. /\ client'[c].at = "prepare" /\ client'[c].run = runs + 1 /\ client'[c].on = new
      /\ link'[new].peer /\ link'[new].answers = <<>>
      /\ link'[new].requests = << Request("prepare", runs + 1) >>
    BY <1>1
<1>3. /\ runs' = runs + 1 /\ runs \in Nat /\ archives \in Nat
      /\ UNCHANGED <<file, archives, metadata, harmed, daemon, done, overlapped>>
    BY DEF Begin, CoreInv, BasicInv, TypeOK
<1>4. /\ WorkerOK(Waiting)' /\ Waiting.op = "none" /\ Waiting.at = "recv"
    BY <1>3, IdleWorkers DEF WorkerOK, Waiting
<1>5. TypeOK'
    BY <1>1, <1>3 DEF TypeOK, CoreInv, BasicInv
<1>6. WorkerInv'
    <2> SUFFICES ASSUME NEW t \in Threads PROVE WorkerOK(worker[t])'
        BY DEF WorkerInv
    <2>1. CASE t = new
        BY <1>1, <1>4, <2>1 DEF WorkerOK
    <2>2. CASE t # new
        <3>1. worker'[t] = worker[t] /\ WorkerOK(worker[t])
            BY <1>1, <2>2 DEF CoreInv, BasicInv, WorkerInv
        <3> QED
            BY <1>3, <3>1 DEF WorkerOK
    <2> QED
        BY <2>1, <2>2
<1>7. LinkInv'
    <2> SUFFICES ASSUME NEW t \in Threads
                 PROVE  /\ worker'[t].at = "none" => link'[t] = Closed
                        /\ link'[t].requests # <<>> =>
                              /\ ~ worker'[t].op # "none"
                              /\ \E op \in {"prepare", "complete"}, run \in 1 .. runs' :
                                    link'[t].requests = << Request(op, run) >>
        BY DEF LinkInv, Busy, Closed, Request
    <2>1. CASE t = new
        <3>1. runs + 1 \in 1 .. runs'
            BY <1>3
        <3> QED
            BY <1>1, <1>2, <1>4, <2>1, <3>1
    <2>2. CASE t # new
        <3>1. link'[t] = link[t] /\ worker'[t] = worker[t]
            BY <1>1, <2>2
        <3>2. 1 .. runs \subseteq 1 .. runs'
            BY <1>3
        <3> QED
            BY <3>1, <3>2 DEF CoreInv, BasicInv, LinkInv, Busy
    <2> QED
        BY <2>1, <2>2
<1>8. \A d \in Clients : client[d].on # new
    BY <1>1 DEF CoreInv, ClientInv
<1>9. ClientInv'
    <2>1. ASSUME NEW d \in Clients
          PROVE  /\ client'[d].at = "idle" => client'[d] = Idle
                 /\ client'[d].at # "idle" => client'[d].run \in 1 .. runs'
        <3>1. CASE d = c
            BY <1>2, <1>3, <3>1
        <3>2. CASE d # c
            <4>1. client'[d] = client[d] /\ 1 .. runs \subseteq 1 .. runs'
                BY <1>1, <1>3, <3>2
            <4> QED
                BY <4>1 DEF CoreInv, ClientInv
        <3> QED
            BY <3>1, <3>2
    <2>2. ASSUME NEW d \in Clients, NEW e \in Clients,
                 client'[d].on \in Threads, client'[d].on = client'[e].on
          PROVE  d = e
        BY <1>1, <1>2, <1>8, <2>2 DEF CoreInv, ClientInv
    <2>3. ASSUME NEW d \in Clients, NEW t \in Threads, client'[d].on = t
          PROVE  link'[t].peer /\ worker'[t].at # "none" /\ InFlight(d, t)'
        <3>1. CASE d = c
            <4>1. t = new
                BY <1>2, <2>3, <3>1
            <4>2. Asked(d, t)'
                BY <1>1, <1>2, <1>4, <3>1, <4>1 DEF Asked, Busy, Request
            <4> QED
                BY <1>1, <1>2, <1>4, <3>1, <4>1, <4>2 DEF InFlight
        <3>2. CASE d # c
            <4>1. client'[d] = client[d] /\ t # new
                BY <1>1, <1>8, <2>3, <3>2
            <4>2. link'[t] = link[t] /\ worker'[t] = worker[t]
                BY <1>1, <4>1
            <4>3. link[t].peer /\ worker[t].at # "none" /\ InFlight(d, t)
                BY <2>3, <4>1 DEF CoreInv, ClientInv
            <4> QED
                BY <4>1, <4>2, <4>3, InFlightStays
        <3> QED
            BY <3>1, <3>2
    <2> QED
        BY <1>3, <2>1, <2>2, <2>3 DEF ClientInv, Idle
<1> QED
    BY <1>5, <1>6, <1>7, <1>9 DEF CoreInv, BasicInv

(* A client goes on to the next step of its run.                           *)
Advances(c, at) ==
    /\ client' \in [Clients -> Client]
    /\ client'[c].at = at
    /\ client'[c].run = client[c].run /\ client'[c].on = client[c].on
    /\ \A d \in Clients \ {c} : client'[d] = client[d]

LEMMA ClientAdvances ==
    ASSUME CoreInv, NEW c \in Clients, NEW at \in {"rsync", "complete"},
           client' = [client EXCEPT ![c].at = at]
    PROVE  Advances(c, at)
<1> DEFINE k == [client[c] EXCEPT !.at = at]
<1>1. client \in [Clients -> Client] /\ client[c] \in Client
    BY DEF CoreInv, BasicInv, TypeOK
<1>2. k \in Client /\ k.at = at /\ k.run = client[c].run /\ k.on = client[c].on
    BY <1>1 DEF Client
<1>3. client' = [client EXCEPT ![c] = k]
    OBVIOUS
<1> HIDE DEF k
<1> QED
    BY <1>1, <1>2, <1>3 DEF Advances

(* A client that finds an answer finds the one to its request.             *)
LEMMA AnswerFound ==
    ASSUME CoreInv, NEW c \in Clients, client[c].at \in {"prepare", "complete"},
           Answers(c) # <<>>
    PROVE  /\ client[c].on \in Threads
           /\ \E ok \in BOOLEAN : Answered(c, client[c].on, ok)
<1>1. client[c].on \in Threads
    BY DEF Answers
<1>2. link[client[c].on].answers # <<>>
    BY <1>1 DEF Answers
<1>3. InFlight(c, client[c].on)
    BY <1>1 DEF CoreInv, ClientInv
<1> QED
    BY <1>1, <1>2, <1>3 DEF InFlight, Asked, Served

LEMMA TakeEffect ==
    ASSUME CoreInv, NEW c \in Clients, client[c].at = "prepare",
           Answers(c) # <<>>, Take(c, "rsync")
    PROVE  \E t \in Threads :
              /\ client[c].on = t /\ Advances(c, "rsync")
              /\ Answered(c, t, Head(Answers(c)).ok)
              /\ link' \in [Threads -> Link]
              /\ link'[t].peer = link[t].peer
              /\ link'[t].requests = <<>> /\ link'[t].answers = <<>>
              /\ \A u \in Threads \ {t} : link'[u] = link[u]
<1>1. PICK t \in Threads : t = client[c].on /\ \E ok \in BOOLEAN : Answered(c, t, ok)
    BY AnswerFound
<1>2. PICK ok \in BOOLEAN : Answered(c, t, ok)
    BY <1>1
<1> DEFINE r == Reply(client[c].at, client[c].run, ok)
           l == [link[t] EXCEPT !.answers = Tail(@)]
<1>3. link \in [Threads -> Link] /\ link[t] \in Link
    BY DEF CoreInv, BasicInv, TypeOK
<1>4. Answers(c) = <<r>> /\ link[t].answers = <<r>> /\ link[t].requests = <<>> /\ r.ok = ok
    BY <1>1, <1>2 DEF Answered, Answers, Reply
<1>5. l \in Link /\ l.peer = link[t].peer /\ l.requests = <<>> /\ l.answers = <<>>
    <2>1. Tail(link[t].answers) = <<>>
        BY <1>4
    <2>2. <<>> \in Seq(Message)
        BY EmptySeq
    <2> QED
        BY <1>3, <1>4, <2>1, <2>2 DEF Link
<1>6. link' = [link EXCEPT ![t] = l]
    BY <1>1 DEF Take
<1>7. Head(Answers(c)).ok = ok
    BY <1>4
<1>8. Advances(c, "rsync")
    BY ClientAdvances DEF Take
<1> HIDE DEF l, r
<1> QED
    BY <1>1, <1>2, <1>3, <1>5, <1>6, <1>7, <1>8

LEMMA NotifyEffect ==
    ASSUME CoreInv, NEW c \in Clients, NotifyComplete(c), client[c].on \in Threads
    PROVE  \E t \in Threads :
              /\ client[c].on = t /\ Advances(c, "complete")
              /\ Silent(t)
              /\ link' \in [Threads -> Link]
              /\ link'[t].peer = link[t].peer
              /\ link'[t].requests = << Request("complete", client[c].run) >>
              /\ link'[t].answers = <<>>
              /\ \A u \in Threads \ {t} : link'[u] = link[u]
<1>1. PICK t \in Threads : t = client[c].on
    OBVIOUS
<1> DEFINE r == Request("complete", client[c].run)
           l == [link[t] EXCEPT !.requests = Append(@, r)]
<1>2. /\ link \in [Threads -> Link] /\ link[t] \in Link
      /\ client[c] \in Client
    BY DEF CoreInv, BasicInv, TypeOK
<1>3. client[c].at = "rsync"
    BY DEF NotifyComplete
<1>4. Silent(t)
    BY <1>1, <1>3 DEF CoreInv, ClientInv, InFlight
<1>5. /\ l \in Link /\ l.peer = link[t].peer /\ l.requests = <<r>>
      /\ l.answers = <<>>
    <2>1. link[t].requests = <<>> /\ link[t].answers = <<>>
        BY <1>4 DEF Silent
    <2>2. Append(link[t].requests, r) = <<r>>
        BY <2>1
    <2>3. r \in Message
        BY <1>2 DEF Request, Message, Client
    <2>4. <<r>> \in Seq(Message)
        BY <2>3
    <2> HIDE DEF r
    <2> QED
        BY <1>2, <2>1, <2>2, <2>4 DEF Link
<1>6. link' = [link EXCEPT ![t] = l]
    BY <1>1 DEF NotifyComplete
<1>7. Advances(c, "complete")
    BY <1>1, ClientAdvances DEF NotifyComplete
<1> HIDE DEF l, r
<1>8. /\ link'[t] = l /\ link' \in [Threads -> Link]
      /\ \A u \in Threads \ {t} : link'[u] = link[u]
    BY <1>2, <1>5, <1>6
<1> QED
    BY <1>1, <1>4, <1>5, <1>7, <1>8 DEF r

(* A step of a client and its connection, of which the thread knows        *)
(* nothing yet.                                                            *)
Exchange(c, at, t) ==
    /\ client[c].on = t /\ client[c].at # "idle" /\ Advances(c, at)
    /\ ~ Busy(t) /\ InFlight(c, t)'
    /\ link' \in [Threads -> Link]
    /\ link'[t].peer = link[t].peer
    /\ link'[t].requests \in {<<>>, << Request("complete", client[c].run) >>}
    /\ \A u \in Threads \ {t} : link'[u] = link[u]
    /\ UNCHANGED <<serverVars, runs, done>>

LEMMA AdvanceCore ==
    ASSUME CoreInv, NEW c \in Clients, NEW at \in {"rsync", "complete"},
           NEW t \in Threads, Exchange(c, at, t)
    PROVE  CoreInv'
<1>0. /\ client[c].on = t /\ client[c].at # "idle" /\ Advances(c, at)
      /\ ~ Busy(t) /\ InFlight(c, t)'
      /\ link' \in [Threads -> Link]
      /\ link'[t].peer = link[t].peer
      /\ link'[t].requests \in {<<>>, << Request("complete", client[c].run) >>}
      /\ \A u \in Threads \ {t} : link'[u] = link[u]
      /\ UNCHANGED <<serverVars, runs, done>>
    BY DEF Exchange
<1>1. UNCHANGED <<file, archives, metadata, worker, harmed, daemon, overlapped, runs, done>>
    BY <1>0 DEF serverVars, fileVars
<1>2. /\ client' \in [Clients -> Client] /\ client'[c].at = at
      /\ client'[c].run = client[c].run /\ client'[c].on = t
      /\ \A d \in Clients \ {c} : client'[d] = client[d]
    BY <1>0 DEF Advances
<1>3. TypeOK'
    BY <1>0, <1>1, <1>2 DEF TypeOK, CoreInv, BasicInv
<1>4. WorkerInv'
    BY <1>1 DEF WorkerInv, WorkerOK, CoreInv, BasicInv
<1>5. /\ link[t].peer /\ worker[t].at # "none" /\ client[c].run \in 1 .. runs
    BY <1>0 DEF CoreInv, ClientInv
<1>6. LinkInv'
    <2> SUFFICES ASSUME NEW u \in Threads
                 PROVE  /\ worker[u].at = "none" => link'[u] = Closed
                        /\ link'[u].requests # <<>> =>
                              /\ ~ Busy(u)
                              /\ \E op \in {"prepare", "complete"}, run \in 1 .. runs :
                                    link'[u].requests = << Request(op, run) >>
        BY <1>1 DEF LinkInv, Busy, Closed, Request
    <2>1. CASE u = t
        BY <1>0, <1>5, <2>1
    <2>2. CASE u # t
        BY <1>0, <2>2 DEF CoreInv, BasicInv, LinkInv
    <2> QED
        BY <2>1, <2>2
<1>7. ClientInv'
    <2>1. \A d \in Clients :
            /\ client'[d].at = "idle" => client'[d] = Idle
            /\ client'[d].at # "idle" => client'[d].run \in 1 .. runs
        BY <1>0, <1>2, <1>5 DEF CoreInv, ClientInv
    <2>2. ASSUME NEW d \in Clients
          PROVE  client'[d].on = client[d].on
        BY <1>0, <1>2
    <2>3. ASSUME NEW d \in Clients, NEW u \in Threads, client'[d].on = u
          PROVE  link'[u].peer /\ worker[u].at # "none" /\ InFlight(d, u)'
        <3>1. CASE d = c
            BY <1>0, <1>2, <1>5, <2>3, <3>1
        <3>2. CASE d # c
            <4>1. client[d].on = u /\ client'[d] = client[d]
                BY <1>0, <1>2, <2>3, <3>2
            <4>2. u # t
                BY <1>0, <3>2, <4>1 DEF CoreInv, ClientInv
            <4>3. link'[u] = link[u]
                BY <1>0, <4>2
            <4>4. link[u].peer /\ worker[u].at # "none" /\ InFlight(d, u)
                BY <4>1 DEF CoreInv, ClientInv
            <4> QED
                BY <1>1, <4>1, <4>3, <4>4, InFlightStays
        <3> QED
            BY <3>1, <3>2
    <2> QED
        BY <1>1, <2>1, <2>2, <2>3 DEF CoreInv, ClientInv, Idle
<1> QED
    BY <1>3, <1>4, <1>6, <1>7 DEF CoreInv, BasicInv

LEMMA TakePreparedCore ==
    ASSUME CoreInv, NEW c \in Clients, TakePrepared(c)
    PROVE  CoreInv'
<1>1. CASE Take(c, "rsync")
    <2>1. PICK t \in Threads :
            /\ client[c].on = t /\ Advances(c, "rsync")
            /\ Answered(c, t, Head(Answers(c)).ok)
            /\ link' \in [Threads -> Link]
            /\ link'[t].peer = link[t].peer
            /\ link'[t].requests = <<>> /\ link'[t].answers = <<>>
            /\ \A u \in Threads \ {t} : link'[u] = link[u]
        BY <1>1, TakeEffect DEF TakePrepared
    <2>2. ~ Busy(t) /\ client[c].at # "idle"
        BY <2>1 DEF Answered, TakePrepared
    <2>3. InFlight(c, t)'
        <3>1. client'[c].at = "rsync" /\ ~ Busy(t)'
            BY <2>1, <2>2 DEF Advances, TakePrepared, serverVars, fileVars, Busy
        <3> QED
            BY <2>1, <3>1 DEF InFlight, Silent, Busy
    <2>4. UNCHANGED <<serverVars, runs, done>>
        BY DEF TakePrepared
    <2>5. link'[t].requests \in {<<>>, << Request("complete", client[c].run) >>}
        BY <2>1
    <2>6. Exchange(c, "rsync", t)
        BY <2>1, <2>2, <2>3, <2>4, <2>5 DEF Exchange
    <2> QED
        BY <2>6, AdvanceCore
<1>2. CASE End(c)
    BY <1>2, EndCore DEF TakePrepared
<1> QED
    BY <1>1, <1>2 DEF TakePrepared

LEMMA NotifyCompleteCore ==
    ASSUME CoreInv, NEW c \in Clients, NotifyComplete(c)
    PROVE  CoreInv'
<1>1. CASE client[c].on \in Threads
    <2>1. PICK t \in Threads :
            /\ client[c].on = t /\ Advances(c, "complete")
            /\ Silent(t)
            /\ link' \in [Threads -> Link]
            /\ link'[t].peer = link[t].peer
            /\ link'[t].requests = << Request("complete", client[c].run) >>
            /\ link'[t].answers = <<>>
            /\ \A u \in Threads \ {t} : link'[u] = link[u]
        BY <1>1, NotifyEffect
    <2>2. ~ Busy(t) /\ client[c].at # "idle"
        BY <2>1 DEF Silent, NotifyComplete
    <2>3. InFlight(c, t)'
        <3>1. /\ client'[c].at = "complete" /\ client'[c].run = client[c].run
              /\ ~ Busy(t)'
            BY <2>1, <2>2 DEF Advances, NotifyComplete, serverVars, fileVars, Busy
        <3>2. Asked(c, t)'
            BY <2>1, <3>1 DEF Asked, Request, Busy
        <3> QED
            BY <3>1, <3>2 DEF InFlight
    <2>4. UNCHANGED <<serverVars, runs, done>>
        BY DEF NotifyComplete
    <2>5. link'[t].requests \in {<<>>, << Request("complete", client[c].run) >>}
        BY <2>1
    <2>6. Exchange(c, "complete", t)
        BY <2>1, <2>2, <2>3, <2>4, <2>5 DEF Exchange
    <2> QED
        BY <2>6, AdvanceCore
<1>2. CASE End(c)
    BY <1>2, EndCore DEF NotifyComplete
<1> QED
    BY <1>1, <1>2 DEF NotifyComplete

LEMMA RunCore ==
    ASSUME CoreInv, NEW c \in Clients, Run(c)
    PROVE  CoreInv'
<1>1. CASE TakeCompleted(c)
    <2>1. End(c) /\ UNCHANGED <<serverVars, runs>>
          /\ client[c].at # "idle" /\ done' = done \cup {client[c].run}
        BY <1>1 DEF TakeCompleted
    <2> QED
        BY <2>1, EndCore, Zenon
<1>2. CASE GiveUp(c) \/ ConnectionLost(c) \/ RsyncFails(c)
    <2>1. End(c) /\ UNCHANGED <<serverVars, runs>> /\ done' = done
        BY <1>2 DEF GiveUp, ConnectionLost, RsyncFails
    <2> QED
        BY <2>1, EndCore, Zenon
<1> QED
    BY <1>1, <1>2, TakePreparedCore, NotifyCompleteCore DEF Run

LEMMA ReceiveEffect ==
    ASSUME CoreInv, NEW t \in Threads, Receive(t)
    PROVE  \E op \in {"prepare", "complete"}, run \in 1 .. runs :
              /\ link[t].requests = << Request(op, run) >>
              /\ ~ Busy(t) /\ worker[t].at = "recv"
              /\ worker' \in [Threads -> Worker]
              /\ worker'[t] = [op |-> op, run |-> run, at |-> Starts[op],
                               task |-> "started", entries |-> <<>>,
                               archive |-> NoDiff, ok |-> FALSE]
              /\ link' \in [Threads -> Link]
              /\ link'[t].peer = link[t].peer
              /\ link'[t].answers = link[t].answers /\ link'[t].requests = <<>>
              /\ \A u \in Threads \ {t} : link'[u] = link[u] /\ worker'[u] = worker[u]
              /\ overlapped' = (overlapped \/ Overlaps(t, run))
<1>1. /\ link \in [Threads -> Link] /\ link[t] \in Link
      /\ worker \in [Threads -> Worker] /\ runs \in Nat
    BY DEF CoreInv, BasicInv, TypeOK
<1>2. ~ Busy(t) /\ worker[t].at = "recv"
      /\ \E op \in {"prepare", "complete"}, run \in 1 .. runs :
            link[t].requests = << Request(op, run) >>
    BY DEF Receive, CoreInv, BasicInv, LinkInv
<1>3. PICK op \in {"prepare", "complete"}, run \in 1 .. runs :
        link[t].requests = << Request(op, run) >>
    BY <1>2
<1> DEFINE w == [op |-> op, run |-> run, at |-> Starts[op], task |-> "started",
                 entries |-> <<>>, archive |-> NoDiff, ok |-> FALSE]
           l == [link[t] EXCEPT !.requests = Tail(@)]
<1>4. /\ Head(link[t].requests).op = op /\ Head(link[t].requests).run = run
      /\ Tail(link[t].requests) = <<>>
    BY <1>3 DEF Request
<1>5. /\ worker' = [worker EXCEPT ![t] = w]
      /\ link' = [link EXCEPT ![t] = l]
      /\ overlapped' = (overlapped \/ Overlaps(t, run))
    BY <1>4 DEF Receive
<1>6. w \in Worker
    <2>1. <<>> \in Seq(Entry) /\ Starts[op] \in {"diff", "metadata"}
        BY EmptySeq DEF Starts
    <2> QED
        BY <1>1, <2>1 DEF Worker, Tasks, NoDiff
<1>7. l \in Link /\ l.peer = link[t].peer /\ l.answers = link[t].answers /\ l.requests = <<>>
    <2>1. <<>> \in Seq(Message)
        BY EmptySeq
    <2> QED
        BY <1>1, <1>4, <2>1 DEF Link
<1> HIDE DEF w, l
<1>8. /\ worker' \in [Threads -> Worker] /\ worker'[t] = w
      /\ link' \in [Threads -> Link] /\ link'[t] = l
      /\ \A u \in Threads \ {t} : link'[u] = link[u] /\ worker'[u] = worker[u]
    BY <1>1, <1>5, <1>6, <1>7
<1> QED
    BY <1>2, <1>3, <1>5, <1>7, <1>8 DEF w

LEMMA SendEffect ==
    ASSUME CoreInv, NEW t \in Threads, Send(t)
    PROVE  /\ Busy(t) /\ link[t].requests = <<>>
           /\ worker' \in [Threads -> Worker]
           /\ worker'[t] \in {Waiting, NoThread}
           /\ link' \in [Threads -> Link]
           /\ worker'[t] = NoThread => ~ link[t].peer /\ link'[t] = Closed
           /\ worker'[t] = Waiting =>
                 /\ link'[t].peer = link[t].peer /\ link'[t].requests = <<>>
                 /\ link[t].answers = <<>> => link'[t].answers =
                       << Reply(worker[t].op, worker[t].run, worker[t].ok) >>
           /\ \A u \in Threads \ {t} : link'[u] = link[u] /\ worker'[u] = worker[u]
<1>1. /\ link \in [Threads -> Link] /\ link[t] \in Link
      /\ worker \in [Threads -> Worker] /\ worker[t] \in Worker /\ archives \in Nat
    BY DEF CoreInv, BasicInv, TypeOK
<1>2. Busy(t) /\ link[t].requests = <<>>
    <2>1. Busy(t)
        BY BusySteps DEF CoreInv, Send
    <2> QED
        BY <2>1 DEF CoreInv, BasicInv, LinkInv
<1>3. Waiting \in Worker /\ NoThread \in Worker /\ Waiting # NoThread
    BY <1>1, IdleWorkers
<1>4. CASE link[t].peer
    <2> DEFINE r == Reply(worker[t].op, worker[t].run, worker[t].ok)
               l == [link[t] EXCEPT !.answers = Append(@, r)]
    <2>1. r \in Message
        BY <1>1, <1>2 DEF Reply, Message, Worker, Busy
    <2>2. worker' = [worker EXCEPT ![t] = Waiting] /\ link' = [link EXCEPT ![t] = l]
        BY <1>4 DEF Send
    <2> HIDE DEF r
    <2>3. /\ l \in Link /\ l.peer = link[t].peer /\ l.requests = link[t].requests
          /\ link[t].answers = <<>> => l.answers = <<r>>
        <3>1. Append(link[t].answers, r) \in Seq(Message)
            BY <1>1, <2>1, AppendProperties DEF Link
        <3>2. link[t].answers = <<>> => Append(link[t].answers, r) = <<r>>
            OBVIOUS
        <3>3. /\ l \in Link /\ l.peer = link[t].peer /\ l.requests = link[t].requests
              /\ l.answers = Append(link[t].answers, r)
            BY <1>1, <3>1 DEF Link
        <3> HIDE DEF l
        <3> QED
            BY <3>2, <3>3
    <2> HIDE DEF l
    <2>4. /\ worker' \in [Threads -> Worker] /\ worker'[t] = Waiting
          /\ link' \in [Threads -> Link] /\ link'[t] = l
          /\ \A u \in Threads \ {t} : link'[u] = link[u] /\ worker'[u] = worker[u]
        BY <1>1, <1>3, <2>2, <2>3
    <2> QED
        BY <1>2, <1>3, <2>3, <2>4 DEF r
<1>5. CASE ~ link[t].peer
    <2>1. worker' = [worker EXCEPT ![t] = NoThread] /\ link' = [link EXCEPT ![t] = Closed]
        BY <1>5 DEF Send
    <2>2. Closed \in Link
        BY EmptySeq DEF Closed, Link
    <2>3. /\ worker' \in [Threads -> Worker] /\ worker'[t] = NoThread
          /\ link' \in [Threads -> Link] /\ link'[t] = Closed
          /\ \A u \in Threads \ {t} : link'[u] = link[u] /\ worker'[u] = worker[u]
        BY <1>1, <1>3, <2>1, <2>2
    <2> QED
        BY <1>2, <1>3, <1>5, <2>3
<1> QED
    BY <1>4, <1>5

LEMMA CloseEffect ==
    ASSUME CoreInv, NEW t \in Threads, Close(t)
    PROVE  /\ ~ link[t].peer /\ ~ Busy(t)
           /\ worker' \in [Threads -> Worker] /\ worker'[t] = NoThread
           /\ link' \in [Threads -> Link] /\ link'[t] = Closed
           /\ \A u \in Threads \ {t} : link'[u] = link[u] /\ worker'[u] = worker[u]
<1>1. /\ link \in [Threads -> Link]
      /\ worker \in [Threads -> Worker] /\ archives \in Nat
    BY DEF CoreInv, BasicInv, TypeOK
<1>2. Closed \in Link /\ NoThread \in Worker
    BY <1>1, EmptySeq, IdleWorkers DEF Closed, Link
<1>3. ~ Busy(t)
    BY BusySteps DEF CoreInv, Close
<1> QED
    BY <1>1, <1>2, <1>3 DEF Close

(* A step of thread t concerns the client at the other end alone.          *)
LEMMA ThreadCore ==
    ASSUME CoreInv, NEW t \in Threads, UNCHANGED <<client, runs>>,
           \A u \in Threads \ {t} : link'[u] = link[u] /\ worker'[u] = worker[u],
           \A c \in Clients : client[c].on = t =>
              link'[t].peer /\ worker'[t].at # "none" /\ InFlight(c, t)'
    PROVE  ClientInv'
<1>1. ASSUME NEW c \in Clients, NEW u \in Threads, client[c].on = u
      PROVE  link'[u].peer /\ worker'[u].at # "none" /\ InFlight(c, u)'
    <2>1. CASE u = t
        BY <1>1, <2>1
    <2>2. CASE u # t
        <3>1. link'[u] = link[u] /\ worker'[u] = worker[u]
            BY <2>2
        <3>2. link[u].peer /\ worker[u].at # "none" /\ InFlight(c, u)
            BY <1>1 DEF CoreInv, ClientInv
        <3> QED
            BY <3>1, <3>2, InFlightStays
    <2> QED
        BY <2>1, <2>2
<1> QED
    BY <1>1 DEF CoreInv, ClientInv, Idle

LEMMA ReceiveCore ==
    ASSUME CoreInv, NEW t \in Threads, Receive(t)
    PROVE  CoreInv'
<1>1. PICK op \in {"prepare", "complete"}, run \in 1 .. runs :
        /\ link[t].requests = << Request(op, run) >>
        /\ ~ Busy(t) /\ worker[t].at = "recv"
        /\ worker' \in [Threads -> Worker]
        /\ worker'[t] = [op |-> op, run |-> run, at |-> Starts[op],
                         task |-> "started", entries |-> <<>>,
                         archive |-> NoDiff, ok |-> FALSE]
        /\ link' \in [Threads -> Link]
        /\ link'[t].peer = link[t].peer
        /\ link'[t].answers = link[t].answers /\ link'[t].requests = <<>>
        /\ \A u \in Threads \ {t} : link'[u] = link[u] /\ worker'[u] = worker[u]
        /\ overlapped' = (overlapped \/ Overlaps(t, run))
    BY ReceiveEffect
<1>2. /\ worker'[t].op = op /\ worker'[t].run = run /\ worker'[t].at = Starts[op]
      /\ worker'[t].archive = 0
    BY <1>1 DEF NoDiff
<1>3. /\ Starts[op] \in {"diff", "metadata"}
      /\ op = "complete" => Starts[op] = "metadata"
    BY DEF Starts
<1>4. UNCHANGED <<file, archives, metadata, harmed, daemon, client, runs, done>>
    BY DEF Receive
<1>5. TypeOK'
    <2>1. overlapped' \in BOOLEAN
        BY <1>1
    <2> QED
        BY <1>1, <1>4, <2>1 DEF TypeOK, CoreInv, BasicInv
<1>6. WorkerInv'
    <2> SUFFICES ASSUME NEW u \in Threads PROVE WorkerOK(worker[u])'
        BY DEF WorkerInv
    <2>1. CASE u = t
        <3>1. archives \in Nat
            BY DEF CoreInv, BasicInv, TypeOK
        <3> QED
            BY <1>2, <1>3, <1>4, <2>1, <3>1 DEF WorkerOK, Steps, Rewriting
    <2>2. CASE u # t
        BY <1>1, <1>4, <2>2 DEF CoreInv, BasicInv, WorkerInv, WorkerOK
    <2> QED
        BY <2>1, <2>2
<1>7. LinkInv'
    <2> SUFFICES ASSUME NEW u \in Threads
                 PROVE  /\ worker'[u].at = "none" => link'[u] = Closed
                        /\ link'[u].requests # <<>> =>
                              /\ ~ worker'[u].op # "none"
                              /\ \E o \in {"prepare", "complete"}, r \in 1 .. runs :
                                    link'[u].requests = << Request(o, r) >>
        BY <1>4 DEF LinkInv, Busy, Closed, Request
    <2>1. CASE u = t
        BY <1>1, <1>2, <1>3, <2>1
    <2>2. CASE u # t
        BY <1>1, <2>2 DEF CoreInv, BasicInv, LinkInv, Busy
    <2> QED
        BY <2>1, <2>2
<1>8. ASSUME NEW c \in Clients, client[c].on = t
      PROVE  link'[t].peer /\ worker'[t].at # "none" /\ InFlight(c, t)'
    <2>1. link[t].peer /\ InFlight(c, t)
        BY <1>8 DEF CoreInv, ClientInv
    <2>2. client[c].at # "rsync" /\ Asked(c, t)
        BY <1>1, <2>1 DEF InFlight, Silent, Served, Answered
    <2>3. client[c].at = op /\ client[c].run = run /\ link[t].answers = <<>>
        BY <1>1, <2>2 DEF Asked, Request
    <2>4. Served(c, t)'
        BY <1>1, <1>2, <1>4, <2>3 DEF Served
    <2> QED
        BY <1>1, <1>2, <1>3, <1>4, <2>1, <2>2, <2>4 DEF InFlight
<1>9. ClientInv'
    BY <1>1, <1>4, <1>8, ThreadCore
<1> QED
    BY <1>5, <1>6, <1>7, <1>9 DEF CoreInv, BasicInv

LEMMA SendCloseCore ==
    ASSUME CoreInv, NEW t \in Threads, Send(t) \/ Close(t)
    PROVE  CoreInv'
<1>1. /\ worker' \in [Threads -> Worker]
      /\ worker'[t] \in {Waiting, NoThread}
      /\ link' \in [Threads -> Link]
      /\ worker'[t] = NoThread => ~ link[t].peer /\ link'[t] = Closed
      /\ worker'[t] = Waiting => Send(t) /\ link'[t].requests = <<>>
      /\ \A u \in Threads \ {t} : link'[u] = link[u] /\ worker'[u] = worker[u]
    <2>1. CASE Send(t)
        BY <2>1, SendEffect
    <2>2. CASE Close(t)
        <3>1. archives \in Nat
            BY DEF CoreInv, BasicInv, TypeOK
        <3>2. Waiting # NoThread
            BY <3>1, IdleWorkers
        <3> QED
            BY <2>2, <3>2, CloseEffect
    <2> QED
        BY <2>1, <2>2
<1>2. UNCHANGED <<file, archives, metadata, harmed, daemon, client, runs, done, overlapped>>
    BY DEF Send, Close
<1>3. archives \in Nat
    BY DEF CoreInv, BasicInv, TypeOK
<1>4. TypeOK'
    BY <1>1, <1>2 DEF TypeOK, CoreInv, BasicInv
<1>5. WorkerInv'
    <2> SUFFICES ASSUME NEW u \in Threads PROVE WorkerOK(worker[u])'
        BY DEF WorkerInv
    <2>1. CASE u = t
        BY <1>1, <1>2, <1>3, <2>1, IdleWorkers DEF WorkerOK
    <2>2. CASE u # t
        BY <1>1, <1>2, <2>2 DEF CoreInv, BasicInv, WorkerInv, WorkerOK
    <2> QED
        BY <2>1, <2>2
<1>6. LinkInv'
    <2> SUFFICES ASSUME NEW u \in Threads
                 PROVE  /\ worker'[u].at = "none" => link'[u] = Closed
                        /\ link'[u].requests # <<>> =>
                              /\ ~ worker'[u].op # "none"
                              /\ \E o \in {"prepare", "complete"}, r \in 1 .. runs :
                                    link'[u].requests = << Request(o, r) >>
        BY <1>2 DEF LinkInv, Busy, Closed, Request
    <2>1. CASE u = t
        <3>1. Closed.requests = <<>>
            BY DEF Closed
        <3> QED
            BY <1>1, <1>3, <2>1, <3>1, IdleWorkers
    <2>2. CASE u # t
        BY <1>1, <2>2 DEF CoreInv, BasicInv, LinkInv, Busy
    <2> QED
        BY <2>1, <2>2
<1>7. ASSUME NEW c \in Clients, client[c].on = t
      PROVE  link'[t].peer /\ worker'[t].at # "none" /\ InFlight(c, t)'
    <2>1. link[t].peer /\ InFlight(c, t)
        BY <1>7 DEF CoreInv, ClientInv
    <2>2. worker'[t] = Waiting /\ Send(t)
        BY <1>1, <2>1
    <2>3. /\ Busy(t) /\ link'[t].peer = link[t].peer
          /\ link[t].answers = <<>> => link'[t].answers =
                << Reply(worker[t].op, worker[t].run, worker[t].ok) >>
        BY <2>2, SendEffect
    <2>4. client[c].at # "rsync" /\ Served(c, t)
        BY <2>1, <2>3 DEF InFlight, Silent, Asked, Answered
    <2>5. worker[t].ok \in BOOLEAN
        BY DEF CoreInv, BasicInv, TypeOK, Worker
    <2>6. ~ Busy(t)' /\ worker'[t].at # "none"
        BY <1>3, <2>2, IdleWorkers DEF Busy
    <2>7. link'[t].answers = << Reply(client[c].at, client[c].run, worker[t].ok) >>
        BY <2>3, <2>4 DEF Served
    <2>8. \E ok \in BOOLEAN : Answered(c, t, ok)'
        <3>1. PICK ok \in BOOLEAN : ok = worker[t].ok
            BY <2>5
        <3>2. link'[t].answers = << Reply(client[c].at, client[c].run, ok) >>
            BY <2>7, <3>1
        <3> QED
            BY <1>1, <1>2, <2>2, <2>6, <3>2 DEF Answered, Reply, Busy
    <2> QED
        BY <1>2, <2>1, <2>3, <2>4, <2>6, <2>8 DEF InFlight
<1>8. ClientInv'
    BY <1>1, <1>2, <1>7, ThreadCore
<1> QED
    BY <1>4, <1>5, <1>6, <1>8 DEF CoreInv, BasicInv

LEMMA ServeCore ==
    ASSUME CoreInv, NEW t \in Threads, Serve(t)
    PROVE  CoreInv'
BY HandleCore, ReceiveCore, SendCloseCore DEF Serve

(* The process has ended: nothing is in flight.                            *)
LEMMA ExitEffect ==
    ASSUME CoreInv, Exit
    PROVE  /\ file' \in Seq(Entry)
           /\ \/ file' = file
              \/ \E t \in Threads : \E k \in 0 .. Len(worker[t].entries) :
                    /\ worker[t].at = "write"
                    /\ file' = SubSeq(worker[t].entries, 1, k)
           /\ worker' \in [Threads -> Worker]
           /\ link' \in [Threads -> Link]
           /\ \A t \in Threads : worker'[t] = NoThread /\ link'[t] = Closed
           /\ client' \in [Clients -> Client]
           /\ \A c \in Clients : /\ client'[c].at = client[c].at
                                 /\ client'[c].run = client[c].run
                                 /\ client'[c].on = NoLink
           /\ harmed' = (harmed \/ \E t \in Threads : Busy(t))
           /\ UNCHANGED <<archives, metadata, runs, done, overlapped>>
<1>1. /\ file \in Seq(Entry) /\ worker \in [Threads -> Worker] /\ archives \in Nat
      /\ client \in [Clients -> Client]
    BY DEF CoreInv, BasicInv, TypeOK
<1>2. \/ file' = file
      \/ \E t \in Threads : \E k \in 0 .. Len(worker[t].entries) :
            /\ worker[t].at = "write"
            /\ file' = SubSeq(worker[t].entries, 1, k)
    BY DEF Exit, EndThreads, Written, Writing
<1>3. file' \in Seq(Entry)
    <2>1. CASE file' = file
        BY <1>1, <2>1
    <2>2. ASSUME NEW t \in Threads, NEW k \in 0 .. Len(worker[t].entries),
                 file' = SubSeq(worker[t].entries, 1, k)
          PROVE  file' \in Seq(Entry)
        <3>1. worker[t].entries \in Seq(Entry)
            BY <1>1 DEF Worker
        <3> QED
            BY <2>2, <3>1, PartOfLog
    <2> QED
        BY <1>2, <2>1, <2>2
<1>4. NoThread \in Worker /\ Closed \in Link
    BY <1>1, EmptySeq, IdleWorkers DEF Closed, Link
<1>5. /\ worker' = [t \in Threads |-> NoThread]
      /\ link' = [t \in Threads |-> Closed]
      /\ client' = [c \in Clients |-> [client[c] EXCEPT !.on = NoLink]]
    BY DEF Exit, EndThreads
<1>6. /\ worker' \in [Threads -> Worker]
      /\ link' \in [Threads -> Link]
      /\ \A t \in Threads : worker'[t] = NoThread /\ link'[t] = Closed
    BY <1>4, <1>5
<1>7. ASSUME NEW c \in Clients
      PROVE  /\ client'[c] \in Client
             /\ client'[c].at = client[c].at
             /\ client'[c].run = client[c].run
             /\ client'[c].on = NoLink
    <2>1. client[c] \in Client /\ client'[c] = [client[c] EXCEPT !.on = NoLink]
        BY <1>1, <1>5
    <2> QED
        BY <2>1 DEF Client
<1>8. client' \in [Clients -> Client]
    BY <1>5, <1>7
<1>9. /\ harmed' = (harmed \/ \E t \in Threads : Busy(t))
      /\ UNCHANGED <<archives, metadata, runs, done, overlapped>>
    BY DEF Exit, EndThreads
<1> QED
    BY <1>2, <1>3, <1>6, <1>7, <1>8, <1>9

LEMMA ExitCore ==
    ASSUME CoreInv, Exit
    PROVE  CoreInv'
<1>1. /\ file' \in Seq(Entry)
      /\ worker' \in [Threads -> Worker]
      /\ link' \in [Threads -> Link]
      /\ \A t \in Threads : worker'[t] = NoThread /\ link'[t] = Closed
      /\ client' \in [Clients -> Client]
      /\ \A c \in Clients : /\ client'[c].at = client[c].at
                            /\ client'[c].run = client[c].run
                            /\ client'[c].on = NoLink
      /\ harmed' = (harmed \/ \E t \in Threads : Busy(t))
      /\ UNCHANGED <<archives, metadata, runs, done, overlapped>>
    BY ExitEffect
<1>2. archives \in Nat /\ client \in [Clients -> Client]
    BY DEF CoreInv, BasicInv, TypeOK
<1>3. TypeOK'
    <2>1. harmed' \in BOOLEAN
        BY <1>1 DEF CoreInv, BasicInv, TypeOK
    <2> QED
        BY <1>1, <2>1 DEF TypeOK, CoreInv, BasicInv, Exit
<1>4. WorkerInv'
    BY <1>1, <1>2, IdleWorkers DEF WorkerInv, WorkerOK
<1>5. LinkInv'
    BY <1>1 DEF LinkInv, Closed
<1>6. ClientInv'
    <2>1. ASSUME NEW c \in Clients
          PROVE  /\ client'[c].at = "idle" => client'[c] = Idle
                 /\ client'[c].at # "idle" => client'[c].run \in 1 .. runs
        <3>1. CASE client[c].at = "idle"
            <4>1. client[c].run = 0
                BY <3>1 DEF CoreInv, ClientInv, Idle
            <4>2. client'[c] \in Client
                BY <1>1
            <4> QED
                BY <1>1, <3>1, <4>1, <4>2 DEF Client, Idle
        <3>2. CASE client[c].at # "idle"
            BY <1>1, <3>2 DEF CoreInv, ClientInv
        <3> QED
            BY <3>1, <3>2
    <2>2. \A c \in Clients : client'[c].on \notin Threads
        BY <1>1, DaemonAssumption
    <2> QED
        BY <1>1, <2>1, <2>2 DEF ClientInv, Idle
<1> QED
    BY <1>3, <1>4, <1>5, <1>6 DEF CoreInv, BasicInv

LEMMA InitialLog ==
    /\ Entries(Before) \in Seq(Entry) /\ Len(Entries(Before)) = Before
    /\ \A i \in 1 .. Before :
          /\ Entries(Before)[i].number = Before + 1 - i
          /\ Entries(Before)[i].started = Before + 1 - i
          /\ Entries(Before)[i].finished = Before + 1 - i
          /\ Entries(Before)[i].diff = 0
<1>1. Before \in Nat
    BY FileAssumption
<1>2. \A i \in 1 .. Before :
        /\ Entries(Before)[i] \in Entry
        /\ Entries(Before)[i].number = Before + 1 - i
        /\ Entries(Before)[i].started = Before + 1 - i
        /\ Entries(Before)[i].finished = Before + 1 - i
        /\ Entries(Before)[i].diff = 0
    BY <1>1 DEF Entries, Entry, NoDiff
<1>3. Entries(Before) \in [1 .. Before -> Entry]
    BY <1>2 DEF Entries
<1>4. Entries(Before) \in Seq(Entry)
    BY <1>1, <1>3, SeqDef
<1>5. Len(Entries(Before)) = Before
    BY <1>1, <1>3, <1>4, LenProperties
<1> QED
    BY <1>2, <1>4, <1>5

LEMMA InitCore == Init => CoreInv
<1> SUFFICES ASSUME Init PROVE CoreInv
    OBVIOUS
<1>1. Before \in Nat
    BY FileAssumption
<1>2. archives = 0 /\ runs = Before /\ done = 1 .. Before /\ file = Entries(Before)
    BY DEF Init, FileInit
<1>3. NoThread \in Worker /\ WorkerOK(NoThread) /\ NoThread.at = "none"
    BY <1>2, IdleWorkers
<1>4. /\ Closed \in Link /\ Closed.requests = <<>>
      /\ Idle \in Client /\ Idle.at = "idle" /\ Idle.on = NoLink
    BY EmptySeq DEF Closed, Link, Idle, Client
<1>5. /\ worker \in [Threads -> Worker] /\ \A t \in Threads : worker[t] = NoThread
      /\ link \in [Threads -> Link] /\ \A t \in Threads : link[t] = Closed
      /\ client \in [Clients -> Client] /\ \A c \in Clients : client[c] = Idle
    BY <1>3, <1>4 DEF Init, FileInit
<1>6. TypeOK
    <2>1. metadata \in [by : Nat, done : BOOLEAN]
        BY <1>1 DEF Init, FileInit
    <2>2. file \in Seq(Entry)
        BY <1>2, InitialLog
    <2>3. harmed \in BOOLEAN /\ overlapped \in BOOLEAN /\ daemon \in {"up", "stopping", "down"}
        BY DEF Init, FileInit
    <2>4. archives \in Nat /\ runs \in Nat /\ done \subseteq 1 .. runs
        BY <1>1, <1>2
    <2> QED
        BY <1>5, <2>1, <2>2, <2>3, <2>4 DEF TypeOK
<1>7. WorkerInv
    BY <1>3, <1>5 DEF WorkerInv
<1>8. LinkInv
    BY <1>4, <1>5 DEF LinkInv
<1>9. ClientInv
    BY <1>4, <1>5, DaemonAssumption DEF ClientInv
<1> QED
    BY <1>6, <1>7, <1>8, <1>9 DEF CoreInv, BasicInv

LEMMA StepCore == CoreInv /\ [Next]_vars => CoreInv'
<1> SUFFICES ASSUME CoreInv, [Next]_vars PROVE CoreInv'
    OBVIOUS
<1>1. CASE Stop \/ Start \/ (\E c \in Clients : RsyncDeletes(c)) \/ UNCHANGED vars
    <2>1. /\ UNCHANGED <<file, archives, worker, harmed, link, client, runs, done,
                         overlapped>>
          /\ daemon' \in {"up", "stopping", "down"}
          /\ metadata' \in [by : Nat, done : BOOLEAN]
        <3>1. NoMetadata \in [by : Nat, done : BOOLEAN]
            BY DEF NoMetadata
        <3> QED
            BY <1>1, <3>1 DEF Stop, Start, RsyncDeletes, vars, fileVars, CoreInv, BasicInv,
               TypeOK
    <2>2. TypeOK'
        BY <2>1 DEF CoreInv, BasicInv, TypeOK
    <2>3. WorkerInv' /\ LinkInv'
        BY <2>1 DEF CoreInv, BasicInv, WorkerInv, WorkerOK, LinkInv, Busy, Closed, Request
    <2>4. ClientInv'
        <3>1. ASSUME NEW c \in Clients, NEW t \in Threads, client[c].on = t
              PROVE  link[t].peer /\ worker[t].at # "none" /\ InFlight(c, t)'
            <4>1. link[t].peer /\ worker[t].at # "none" /\ InFlight(c, t)
                BY <3>1 DEF CoreInv, ClientInv
            <4> QED
                BY <2>1, <4>1, InFlightStays
        <3> QED
            BY <2>1, <3>1 DEF CoreInv, ClientInv, Idle
    <2> QED
        BY <2>2, <2>3, <2>4 DEF CoreInv, BasicInv
<1> QED
    BY <1>1, BeginCore, RunCore, ServeCore, ExitCore DEF Next

LEMMA CoreInvariance == Spec => []CoreInv
BY InitCore, StepCore, PTL DEF Spec

(* The types of the variables.                                             *)
THEOREM TypeCorrect == Spec => []TypeOK
<1>1. CoreInv => TypeOK
    BY DEF CoreInv, BasicInv
<1> QED
    BY <1>1, CoreInvariance, PTL

(* Whatever clients give up and whenever the daemon stops: a client takes  *)
(* for the answer to its request nothing but the answer to its request.    *)
THEOREM AnswersAreOwn == Spec => []AnswersMatch
<1>1. ASSUME CoreInv PROVE AnswersMatch
    <2> SUFFICES ASSUME NEW c \in Clients, client[c].at \in {"prepare", "complete"},
                        NEW i \in DOMAIN Answers(c)
                 PROVE  /\ Answers(c)[i].op = client[c].at
                        /\ Answers(c)[i].run = client[c].run
        BY DEF AnswersMatch
    <2>1. Answers(c) # <<>>
        OBVIOUS
    <2>2. PICK ok \in BOOLEAN : Answered(c, client[c].on, ok) /\ client[c].on \in Threads
        BY <1>1, <2>1, AnswerFound
    <2>3. Answers(c) = << Reply(client[c].at, client[c].run, ok) >>
        BY <2>2 DEF Answered, Answers
    <2> QED
        BY <2>3 DEF Reply
<1> QED
    BY <1>1, CoreInvariance, PTL

-----------------------------------------------------------------------------
(* What is written                                                         *)

LEMMA LoadDetail ==
    ASSUME BasicInv, NEW t \in Threads, Load(t), UNCHANGED runs
    PROVE  /\ worker[t].at = "load" /\ file' = file
           /\ Unchanged(worker[t].task, file) =>
                 /\ worker'[t].at = After(worker[t].task)
                 /\ worker'[t].ok = (worker[t].task # "archived")
                 /\ worker'[t].task = "started" /\ worker'[t].entries = <<>>
           /\ ~ Unchanged(worker[t].task, file) =>
                 /\ worker'[t].at = "open"
                 /\ worker'[t].task = worker[t].task
                 /\ worker'[t].run = worker[t].run
                 /\ worker'[t].archive = worker[t].archive
                 /\ worker'[t].entries = Rewritten(worker[t], file)
<1>1. /\ worker \in [Threads -> Worker] /\ worker[t].at \in Rewriting
      /\ worker[t].at = "load"
      /\ UNCHANGED <<file, archives>>
    BY DEF BasicInv, TypeOK, Load, Rewriting
<1>2. CASE Unchanged(worker[t].task, file)
    <2>1. Proceed(t)
        BY <1>2 DEF Load
    <2>2. /\ Moves(t, After(worker[t].task))
          /\ worker'[t].task = "started" /\ worker'[t].entries = <<>>
          /\ worker'[t].ok = (worker[t].task # "archived")
        BY <1>1, <2>1, ProceedMoves
    <2> QED
        BY <1>1, <1>2, <2>2 DEF Moves
<1>3. CASE ~ Unchanged(worker[t].task, file)
    <2> DEFINE entries == Rewritten(worker[t], file)
    <2>1. entries \in Seq(Entry)
        BY <1>1, RewrittenTypes DEF BasicInv, TypeOK
    <2>2. worker' = [worker EXCEPT ![t].at = "open", ![t].entries = entries]
        BY <1>3 DEF Load
    <2> HIDE DEF entries
    <2>3. /\ Moves(t, "open")
          /\ worker'[t].task = worker[t].task
          /\ worker'[t].entries = entries
          /\ worker'[t].archive = worker[t].archive
        BY <1>1, <2>1, <2>2, LoadedMoves
    <2> QED
        BY <1>1, <1>3, <2>3 DEF Moves, entries
<1> QED
    BY <1>2, <1>3

LEMMA OpenDetail ==
    ASSUME BasicInv, NEW t \in Threads, Open(t)
    PROVE  /\ worker[t].at = "open" /\ worker'[t].at = "write" /\ file' = <<>>
           /\ worker'[t].task = worker[t].task
           /\ worker'[t].entries = worker[t].entries
           /\ worker'[t].archive = worker[t].archive
<1>1. worker \in [Threads -> Worker] /\ GoTo(t, "write")
    BY DEF BasicInv, TypeOK, Open
<1> QED
    BY <1>1, GoToMoves DEF Open, Moves, Places

LEMMA WriteDetail ==
    ASSUME BasicInv, NEW t \in Threads, Write(t) \/ WriteFails(t), UNCHANGED runs
    PROVE  /\ worker[t].at = "write"
           /\ worker'[t].at = After(worker[t].task)
           /\ worker'[t].ok = (worker[t].task # "archived")
           /\ worker'[t].task = "started" /\ worker'[t].entries = <<>>
           /\ \/ \E rest \in LeftBehind(worker[t].entries) :
                    file' = worker[t].entries \o rest
              \/ harmed' /\ \E k \in 0 .. Len(worker[t].entries) :
                               file' = SubSeq(worker[t].entries, 1, k)
<1>1. /\ worker[t].at = "write" /\ worker[t].at \in Rewriting /\ Proceed(t)
      /\ UNCHANGED archives
    BY DEF Write, WriteFails, Rewriting
<1>2. /\ Moves(t, After(worker[t].task))
      /\ worker'[t].task = "started" /\ worker'[t].entries = <<>>
      /\ worker'[t].ok = (worker[t].task # "archived")
    BY <1>1, ProceedMoves
<1>3. \/ \E rest \in LeftBehind(worker[t].entries) :
            file' = worker[t].entries \o rest
      \/ harmed' /\ \E k \in 0 .. Len(worker[t].entries) :
                       file' = SubSeq(worker[t].entries, 1, k)
    BY DEF Write, WriteFails, Written
<1> QED
    BY <1>1, <1>2, <1>3 DEF Moves

(* What a handler leaves in the file and keeps for itself.                 *)
LEMMA HandlerWrites ==
    ASSUME BasicInv, NEW t \in Threads, Handle(t), UNCHANGED runs
    PROVE  /\ \/ file' \in {file, <<>>}
              \/ \E rest \in LeftBehind(worker[t].entries) :
                    file' = worker[t].entries \o rest
              \/ \E k \in 0 .. Len(worker[t].entries) :
                    file' = SubSeq(worker[t].entries, 1, k)
           /\ \/ worker'[t].entries \in {worker[t].entries, <<>>}
              \/ /\ worker[t].at = "load"
                 /\ worker'[t].entries = Rewritten(worker[t], file)
<1>1. CASE Load(t)
    BY <1>1, LoadDetail
<1>2. CASE Open(t)
    BY <1>2, OpenDetail
<1>3. CASE Write(t) \/ WriteFails(t)
    BY <1>3, WriteDetail
<1>4. CASE CreateDiff(t)
    BY <1>4, CreateDiffStep DEF CreateDiff
<1>5. CASE SyncSnapshots(t)
    BY <1>5, SyncSnapshotsStep DEF SyncSnapshots
<1>6. CASE MetadataStarted(t)
    BY <1>6, MetadataStartedStep DEF MetadataStarted
<1>7. CASE MetadataFinished(t)
    BY <1>7, MetadataFinishedStep DEF MetadataFinished
<1> QED
    BY <1>1, <1>2, <1>3, <1>4, <1>5, <1>6, <1>7 DEF Handle, RewriteSetLog

(* Of a log that names existing archives, every part and every piece that  *)
(* is left behind does, too.                                               *)
LEMMA PartPointers ==
    ASSUME NEW entries \in Seq(Entry), NEW n \in Nat, PointersExist(entries, n)
    PROVE  /\ \A k \in 0 .. Len(entries) : PointersExist(SubSeq(entries, 1, k), n)
           /\ PointersExist(<<>>, n)
           /\ file \in Seq(Entry) /\ PointersExist(file, n) =>
                 \A rest \in LeftBehind(entries) : PointersExist(entries \o rest, n)
<1>1. Len(entries) \in Nat /\ DOMAIN entries = 1 .. Len(entries)
    BY LenProperties
<1>2. ASSUME NEW k \in 0 .. Len(entries)
      PROVE  PointersExist(SubSeq(entries, 1, k), n)
    <2> DEFINE part == SubSeq(entries, 1, k)
    <2>1. part \in Seq(Entry) /\ Len(part) = k /\ \A i \in 1 .. k : part[i] = entries[i]
        BY PartOfLog
    <2> HIDE DEF part
    <2>2. DOMAIN part = 1 .. k
        BY <2>1, LenProperties
    <2>3. PointersExist(part, n)
        BY <1>1, <2>1, <2>2 DEF PointersExist
    <2> QED
        BY <2>3 DEF part
<1>3. PointersExist(<<>>, n)
    BY DEF PointersExist
<1>4. ASSUME file \in Seq(Entry), PointersExist(file, n),
             NEW rest \in LeftBehind(entries)
      PROVE  PointersExist(entries \o rest, n)
    <2>1. rest \in Seq(Entry) /\ \A i \in DOMAIN rest : \E j \in DOMAIN file : rest[i] = file[j]
        BY <1>4, LeftBehindTypes
    <2> DEFINE whole == entries \o rest
    <2>2. /\ whole \in Seq(Entry) /\ Len(whole) = Len(entries) + Len(rest)
          /\ \A i \in 1 .. Len(entries) + Len(rest) :
                whole[i] = IF i <= Len(entries) THEN entries[i] ELSE rest[i - Len(entries)]
        BY <2>1, ConcatProperties
    <2> HIDE DEF whole
    <2>3. /\ DOMAIN whole = 1 .. Len(entries) + Len(rest)
          /\ Len(rest) \in Nat /\ DOMAIN rest = 1 .. Len(rest)
        BY <2>1, <2>2, LenProperties
    <2>4. ASSUME NEW i \in DOMAIN whole PROVE whole[i].diff <= n
        <3>1. CASE i <= Len(entries)
            BY <1>1, <2>2, <2>3, <3>1 DEF PointersExist
        <3>2. CASE ~ i <= Len(entries)
            <4>1. i - Len(entries) \in DOMAIN rest /\ whole[i] = rest[i - Len(entries)]
                BY <1>1, <2>2, <2>3, <3>2
            <4>2. PICK j \in DOMAIN file : whole[i] = file[j]
                BY <2>1, <4>1
            <4> QED
                BY <1>4, <4>2 DEF PointersExist
        <3> QED
            BY <3>1, <3>2
    <2>5. PointersExist(whole, n)
        BY <2>4 DEF PointersExist
    <2> QED
        BY <2>5 DEF whole
<1> QED
    BY <1>2, <1>3, <1>4

LEMMA HandlePointers ==
    ASSUME BasicInv, PointerInv, NEW t \in Threads, Handle(t), UNCHANGED runs
    PROVE  PointerInv'
<1>1. /\ file \in Seq(Entry) /\ archives \in Nat
      /\ worker \in [Threads -> Worker]
      /\ \A u \in Threads : worker[u].entries \in Seq(Entry)
    BY DEF BasicInv, TypeOK, Worker
<1>2. /\ file' \in Seq(Entry) /\ archives' \in Nat /\ archives <= archives'
      /\ worker' \in [Threads -> Worker]
      /\ \A u \in Threads \ {t} : worker'[u] = worker[u]
    BY HandleStep DEF HandlerStep, Moves
<1>3. worker'[t].entries \in Seq(Entry)
    BY <1>2 DEF Worker
<1>4. PointersExist(file, archives) /\ \A u \in Threads : PointersExist(worker[u].entries, archives)
    BY DEF PointerInv
<1>5. PointersExist(file', archives)
    <2>1. CASE file' \in {file, <<>>}
        BY <1>1, <1>4, <2>1, PartPointers
    <2>2. ASSUME NEW rest \in LeftBehind(worker[t].entries),
                 file' = worker[t].entries \o rest
          PROVE  PointersExist(file', archives)
        BY <1>1, <1>4, <2>2, PartPointers
    <2>3. ASSUME NEW k \in 0 .. Len(worker[t].entries),
                 file' = SubSeq(worker[t].entries, 1, k)
          PROVE  PointersExist(file', archives)
        BY <1>1, <1>4, <2>3, PartPointers
    <2> QED
        BY <2>1, <2>2, <2>3, HandlerWrites
<1>6. PointersExist(worker'[t].entries, archives)
    <2>1. CASE worker'[t].entries \in {worker[t].entries, <<>>}
        BY <1>1, <1>4, <2>1, PartPointers
    <2>2. CASE worker[t].at = "load" /\ worker'[t].entries = Rewritten(worker[t], file)
        <3>1. /\ worker[t] \in Worker /\ WorkerOK(worker[t]) /\ worker[t].run \in Nat \ {0}
            BY <2>2, BusySteps DEF Rewriting
        <3>2. worker[t].archive \in 0 .. archives /\ worker[t].task \in Tasks
            BY <1>1, <3>1 DEF WorkerOK, Worker
        <3>3. /\ PointersExist(UpdateForDiff(file, worker[t].archive), archives)
              /\ PointersExist(NewEntry(file, worker[t].run), archives)
              /\ PointersExist(Finalize(file, worker[t].run), archives)
            BY <1>1, <1>4, <3>1, <3>2, RewritingPointers
        <3> QED
            BY <2>2, <3>2, <3>3 DEF Rewritten, Tasks
    <2> QED
        BY <2>1, <2>2, HandlerWrites
<1>7. PointersExist(file', archives')
    BY <1>1, <1>2, <1>5, PointersMonotonic
<1>8. ASSUME NEW u \in Threads PROVE PointersExist(worker'[u].entries, archives')
    <2>1. CASE u = t
        BY <1>1, <1>2, <1>3, <1>6, <2>1, PointersMonotonic
    <2>2. CASE u # t
        <3>1. worker'[u].entries = worker[u].entries /\ worker[u].entries \in Seq(Entry)
            BY <1>1, <1>2, <2>2
        <3> QED
            BY <1>1, <1>2, <1>4, <3>1, PointersMonotonic
    <2> QED
        BY <2>1, <2>2
<1> QED
    BY <1>7, <1>8 DEF PointerInv, PointersExist

(* No other step puts entries anywhere: a thread that is begun, or gets or *)
(* answers a request, has none.                                            *)
LEMMA OtherEntries ==
    ASSUME CoreInv,
           \/ \E c \in Clients : Begin(c) \/ Run(c) \/ RsyncDeletes(c)
           \/ \E t \in Threads : Receive(t) \/ Send(t) \/ Close(t)
           \/ Stop \/ Start \/ UNCHANGED vars
    PROVE  /\ UNCHANGED <<file, archives, harmed>>
           /\ (\A c \in Clients : ~ RsyncDeletes(c)) => UNCHANGED metadata
           /\ \A t \in Threads :
                 \/ worker'[t] = worker[t]
                 \/ /\ worker[t].at \notin Rewriting /\ worker'[t].at \notin Rewriting
                    /\ worker'[t].entries = <<>>
<1>1. archives \in Nat
    BY DEF CoreInv, BasicInv, TypeOK
<1>2. /\ Waiting.entries = <<>> /\ NoThread.entries = <<>>
      /\ Waiting.at \notin Rewriting /\ NoThread.at \notin Rewriting
    BY <1>1, IdleWorkers DEF Rewriting
<1>3. ASSUME NEW c \in Clients, Begin(c)
      PROVE  /\ UNCHANGED <<file, archives, metadata, harmed>>
             /\ \A t \in Threads :
                   \/ worker'[t] = worker[t]
                   \/ /\ worker[t].at \notin Rewriting /\ worker'[t].at \notin Rewriting
                      /\ worker'[t].entries = <<>>
    <2>1. UNCHANGED <<file, archives, metadata, harmed>>
        BY <1>3 DEF Begin
    <2> QED
        BY <1>2, <1>3, <2>1, BeginEffect DEF Rewriting
<1>4. ASSUME NEW c \in Clients, Run(c)
      PROVE  UNCHANGED <<file, archives, metadata, harmed, worker>>
    BY <1>4 DEF Run, TakePrepared, NotifyComplete, TakeCompleted, GiveUp, ConnectionLost,
       RsyncFails, serverVars, fileVars
<1>5. ASSUME NEW t \in Threads, Receive(t)
      PROVE  /\ UNCHANGED <<file, archives, metadata, harmed>>
             /\ \A u \in Threads :
                   \/ worker'[u] = worker[u]
                   \/ /\ worker[u].at \notin Rewriting /\ worker'[u].at \notin Rewriting
                      /\ worker'[u].entries = <<>>
    <2>1. /\ worker'[t].entries = <<>> /\ worker'[t].at \in {"diff", "metadata"}
          /\ \A u \in Threads \ {t} : worker'[u] = worker[u]
        <3>1. PICK op \in {"prepare", "complete"}, run \in 1 .. runs :
                /\ worker'[t] = [op |-> op, run |-> run, at |-> Starts[op],
                                 task |-> "started", entries |-> <<>>,
                                 archive |-> NoDiff, ok |-> FALSE]
                /\ \A u \in Threads \ {t} : worker'[u] = worker[u]
            BY <1>5, ReceiveEffect
        <3>2. Starts[op] \in {"diff", "metadata"}
            BY DEF Starts
        <3> QED
            BY <3>1, <3>2
    <2> QED
        BY <1>5, <2>1 DEF Receive, Rewriting
<1>6. ASSUME NEW t \in Threads, Send(t) \/ Close(t)
      PROVE  /\ UNCHANGED <<file, archives, metadata, harmed>>
             /\ \A u \in Threads :
                   \/ worker'[u] = worker[u]
                   \/ /\ worker[u].at \notin Rewriting /\ worker'[u].at \notin Rewriting
                      /\ worker'[u].entries = <<>>
    <2>1. /\ worker'[t] \in {Waiting, NoThread}
          /\ \A u \in Threads \ {t} : worker'[u] = worker[u]
        BY <1>6, SendEffect, CloseEffect
    <2> QED
        BY <1>2, <1>6, <2>1 DEF Send, Close, Rewriting
<1>7. CASE Stop \/ Start \/ UNCHANGED vars
    BY <1>7 DEF Stop, Start, vars, fileVars
<1>8. ASSUME NEW c \in Clients, RsyncDeletes(c)
      PROVE  UNCHANGED <<file, archives, harmed, worker>>
    BY <1>8 DEF RsyncDeletes
<1> QED
    BY <1>3, <1>4, <1>5, <1>6, <1>7, <1>8

LEMMA StepPointers == CoreInv /\ PointerInv /\ [Next]_vars => PointerInv'
<1> SUFFICES ASSUME CoreInv, PointerInv, [Next]_vars PROVE PointerInv'
    OBVIOUS
<1>1. /\ archives \in Nat /\ file \in Seq(Entry)
      /\ \A t \in Threads : worker[t].entries \in Seq(Entry)
    BY DEF CoreInv, BasicInv, TypeOK, Worker
<1>2. ASSUME NEW t \in Threads, Handle(t), UNCHANGED runs
      PROVE  PointerInv'
    BY <1>2, HandlePointers DEF CoreInv
<1>3. CASE Exit
    <2>1. /\ UNCHANGED archives /\ \A t \in Threads : worker'[t] = NoThread
          /\ \/ file' = file
             \/ \E t \in Threads : \E k \in 0 .. Len(worker[t].entries) :
                   file' = SubSeq(worker[t].entries, 1, k)
        BY <1>3, ExitEffect
    <2>2. PointersExist(file', archives)
        BY <1>1, <2>1, PartPointers DEF PointerInv
    <2>3. \A t \in Threads : PointersExist(worker'[t].entries, archives)
        <3>1. NoThread.entries = <<>> /\ PointersExist(<<>>, archives)
            BY <1>1, IdleWorkers, PartPointers DEF PointerInv
        <3> QED
            BY <2>1, <3>1
    <2> QED
        BY <2>1, <2>2, <2>3 DEF PointerInv, PointersExist
<1>4. CASE \/ \E c \in Clients : Begin(c) \/ Run(c) \/ RsyncDeletes(c)
           \/ \E t \in Threads : Receive(t) \/ Send(t) \/ Close(t)
           \/ Stop \/ Start \/ UNCHANGED vars
    <2>1. /\ UNCHANGED <<file, archives>>
          /\ \A t \in Threads : worker'[t] = worker[t] \/ worker'[t].entries = <<>>
        BY <1>4, OtherEntries
    <2>2. \A t \in Threads : PointersExist(worker'[t].entries, archives)
        BY <1>1, <2>1, PartPointers DEF PointerInv
    <2> QED
        BY <2>1, <2>2 DEF PointerInv, PointersExist
<1> QED
    BY <1>2, <1>3, <1>4 DEF Next, Serve

(* Whatever fails or overlaps and whenever the daemon ends: set.log names  *)
(* no archive that was not written.                                        *)
THEOREM DiffsAreThere == Spec => []DiffNamesArchive
<1>1. Init => PointerInv
    <2> SUFFICES ASSUME Init PROVE PointerInv
        OBVIOUS
    <2>1. archives = 0 /\ file = Entries(Before) /\ Before \in Nat
        BY FileAssumption DEF Init, FileInit
    <2>2. PointersExist(file, archives)
        <3>1. DOMAIN file = 1 .. Before
            BY <2>1, InitialLog, LenProperties
        <3> QED
            BY <2>1, <3>1, InitialLog DEF PointersExist
    <2>3. \A t \in Threads : worker[t].entries = <<>>
        BY <2>1, IdleWorkers DEF Init, FileInit
    <2> QED
        BY <2>2, <2>3 DEF PointerInv, PointersExist
<1>2. PointerInv => DiffNamesArchive
    BY DEF PointerInv, PointersExist, DiffNamesArchive
<1> QED
    BY <1>1, <1>2, CoreInvariance, StepPointers, PTL DEF Spec

-----------------------------------------------------------------------------
(* One handler at a time                                                   *)

LEMMA DescendingParts ==
    ASSUME NEW entries \in Seq(Entry), Descending(entries)
    PROVE  \A k \in 0 .. Len(entries) : Descending(SubSeq(entries, 1, k))
<1> SUFFICES ASSUME NEW k \in 0 .. Len(entries)
             PROVE  Descending(SubSeq(entries, 1, k))
    OBVIOUS
<1> DEFINE part == SubSeq(entries, 1, k)
<1>1. part \in Seq(Entry) /\ Len(part) = k /\ \A i \in 1 .. k : part[i] = entries[i]
    BY PartOfLog
<1>2. Len(entries) \in Nat
    BY LenProperties
<1> HIDE DEF part
<1>3. DOMAIN part = 1 .. k /\ Len(part) <= Len(entries)
    BY <1>1, <1>2, LenProperties
<1>4. Descending(part)
    BY <1>1, <1>3, DescendingByNumbers
<1> QED
    BY <1>4 DEF part

LEMMA RewrittenDescending ==
    ASSUME BasicInv, NEW t \in Threads, worker[t].at \in Rewriting, Descending(file)
    PROVE  Descending(Rewritten(worker[t], file))
<1>1. /\ worker[t].run \in Nat \ {0} /\ worker[t] \in Worker
      /\ file \in Seq(Entry)
    BY BusySteps DEF BasicInv, TypeOK
<1>2. worker[t].archive \in Nat /\ worker[t].task \in Tasks
    BY <1>1 DEF Worker
<1>3. Descending(UpdateForDiff(file, worker[t].archive))
    <2> DEFINE new == UpdateForDiff(file, worker[t].archive)
    <2>1. /\ new \in Seq(Entry) /\ Len(new) = Len(file)
          /\ \A i \in DOMAIN file : new[i].number = file[i].number
        BY <1>1, <1>2, UpdateForDiffProperties
    <2> HIDE DEF new
    <2>2. DOMAIN new = DOMAIN file /\ Len(new) <= Len(file)
        BY <1>1, <2>1, LenProperties
    <2>3. Descending(new)
        BY <1>1, <2>1, <2>2, DescendingByNumbers
    <2> QED
        BY <2>3 DEF new
<1>4. Descending(Finalize(file, worker[t].run))
    <2> DEFINE new == Finalize(file, worker[t].run)
    <2>1. /\ new \in Seq(Entry) /\ Len(new) = Len(file)
          /\ \A i \in DOMAIN file : new[i].number = file[i].number
        BY <1>1, FinalizeProperties
    <2> HIDE DEF new
    <2>2. DOMAIN new = DOMAIN file /\ Len(new) <= Len(file)
        BY <1>1, <2>1, LenProperties
    <2>3. Descending(new)
        BY <1>1, <2>1, <2>2, DescendingByNumbers
    <2> QED
        BY <2>3 DEF new
<1>5. Descending(NewEntry(file, worker[t].run))
    BY <1>1, NewEntryDescending
<1> QED
    BY <1>2, <1>3, <1>4, <1>5 DEF Rewritten, Tasks

(* A write to the emptied file leaves the entries, or the first of them.   *)
LEMMA SerialWrite ==
    ASSUME BasicInv, NEW t \in Threads, Write(t) \/ WriteFails(t), UNCHANGED runs,
           file = <<>>
    PROVE  \/ file' = worker[t].entries
           \/ harmed' /\ \E k \in 0 .. Len(worker[t].entries) :
                            file' = SubSeq(worker[t].entries, 1, k)
<1>1. worker[t].entries \in Seq(Entry) /\ file \in Seq(Entry)
    BY DEF BasicInv, TypeOK, Worker
<1>2. ASSUME NEW rest \in LeftBehind(worker[t].entries),
             file' = worker[t].entries \o rest
      PROVE  file' = worker[t].entries
    <2>1. rest = <<>>
        BY <1>1, LeftBehindTypes
    <2> QED
        BY <1>1, <1>2, <2>1, ConcatEmptySeq
<1> QED
    BY <1>2, WriteDetail

(* The other steps of a handler leave set.log alone.                       *)
LEMMA ToolSteps ==
    ASSUME BasicInv, NEW t \in Threads, UNCHANGED runs,
           \/ CreateDiff(t) \/ SyncSnapshots(t)
           \/ MetadataStarted(t) \/ MetadataFinished(t)
    PROVE  /\ file' = file
           /\ worker[t].at \notin Rewriting
           /\ worker'[t].at \notin {"open", "write"}
           /\ worker'[t].entries \in {worker[t].entries, <<>>}
<1>1. /\ file' = file /\ worker \in [Threads -> Worker]
      /\ worker[t].at \notin Rewriting
    BY DEF CreateDiff, SyncSnapshots, MetadataStarted, MetadataFinished, Doing, Rewriting,
       BasicInv, TypeOK
<1>2. worker'[t].at \notin {"open", "write"}
    <2>1. CASE GoTo(t, "sync") \/ GoTo(t, "metadata")
        BY <1>1, <2>1, GoToMoves DEF Moves, Places
    <2>2. CASE Answer(t, TRUE) \/ Answer(t, FALSE)
        BY <1>1, <2>2, GoesMoves DEF Moves, Places, Answer
    <2>3. CASE Rewrite(t, "started") \/ Rewrite(t, "finished")
        BY <1>1, <2>3, RewriteMoves DEF Moves, Tasks
    <2>4. CASE worker' = [worker EXCEPT ![t].at = "load", ![t].task = "archived",
                                         ![t].archive = archives + 1]
        <3>1. archives + 1 \in Nat
            BY DEF BasicInv, TypeOK
        <3> QED
            BY <1>1, <2>4, <3>1, ArchivedMoves DEF Moves
    <2> QED
        BY <2>1, <2>2, <2>3, <2>4
           DEF CreateDiff, SyncSnapshots, MetadataStarted, MetadataFinished
<1> QED
    BY <1>1, <1>2, CreateDiffStep, SyncSnapshotsStep, MetadataStartedStep,
       MetadataFinishedStep

Alone(t) == \A u \in Threads \ {t} : ~ Busy(u)

LEMMA HandleSerial ==
    ASSUME BasicInv, SerialInv, NEW t \in Threads, Handle(t),
           UNCHANGED <<runs, overlapped>>
    PROVE  SerialInv'
<1> SUFFICES ASSUME ~ overlapped
             PROVE  /\ \A u, v \in Threads : Busy(u)' /\ Busy(v)' => u = v
                    /\ Descending(file')
                    /\ \A u \in Threads :
                          /\ Descending(worker'[u].entries)
                          /\ worker'[u].at = "open" =>
                                worker'[u].entries = Rewritten(worker'[u], file')
                          /\ worker'[u].at = "write" => file' = <<>>
    BY DEF SerialInv, Descending, Rewritten, UpdateForDiff, NewEntry, Finalize, MaxNumber
<1>1. /\ \A u \in Threads \ {t} : worker'[u] = worker[u] /\ ~ Busy(u) /\ ~ Busy(u)'
      /\ Busy(t)
    BY HandleStep DEF HandlerStep, Moves, SerialInv, Busy
<1>2. /\ Descending(file) /\ \A u \in Threads : Descending(worker[u].entries)
      /\ file \in Seq(Entry) /\ \A u \in Threads : worker[u].entries \in Seq(Entry)
    BY DEF SerialInv, BasicInv, TypeOK, Worker
<1>3. Descending(<<>>)
    BY DEF Descending
<1>4. \A u \in Threads \ {t} : worker'[u].at \notin {"open", "write"}
    BY <1>1, BusySteps DEF Rewriting
<1> SUFFICES /\ Descending(file')
             /\ Descending(worker'[t].entries)
             /\ worker'[t].at = "open" =>
                   worker'[t].entries = Rewritten(worker'[t], file')
             /\ worker'[t].at = "write" => file' = <<>>
    BY <1>1, <1>2, <1>4
<1>5. CASE Load(t)
    <2>1. CASE Unchanged(worker[t].task, file)
        BY <1>2, <1>3, <1>5, <2>1, LoadDetail DEF After
    <2>2. CASE ~ Unchanged(worker[t].task, file)
        <3>1. /\ file' = file /\ worker[t].at = "load" /\ worker'[t].at = "open"
              /\ worker'[t].task = worker[t].task /\ worker'[t].run = worker[t].run
              /\ worker'[t].archive = worker[t].archive
              /\ worker'[t].entries = Rewritten(worker[t], file)
            BY <1>5, <2>2, LoadDetail
        <3>2. Descending(Rewritten(worker[t], file))
            BY <1>2, <3>1, RewrittenDescending DEF Rewriting
        <3>3. Rewritten(worker'[t], file) = Rewritten(worker[t], file)
            BY <3>1 DEF Rewritten
        <3> QED
            BY <1>2, <3>1, <3>2, <3>3
    <2> QED
        BY <2>1, <2>2
<1>6. CASE Open(t)
    BY <1>2, <1>3, <1>6, OpenDetail
<1>7. CASE Write(t) \/ WriteFails(t)
    <2>1. /\ worker[t].at = "write" /\ worker'[t].entries = <<>>
          /\ worker'[t].at = After(worker[t].task)
        BY <1>7, WriteDetail
    <2>2. file = <<>>
        BY <2>1 DEF SerialInv
    <2>3. Descending(file')
        BY <1>2, <1>7, <2>2, SerialWrite, DescendingParts
    <2> QED
        BY <1>3, <2>1, <2>3 DEF After
<1>8. CASE CreateDiff(t) \/ SyncSnapshots(t) \/ MetadataStarted(t) \/ MetadataFinished(t)
    BY <1>2, <1>3, <1>8, ToolSteps
<1> QED
    BY <1>5, <1>6, <1>7, <1>8 DEF Handle, RewriteSetLog

(* No other step makes a second thread busy without marking the overlap.   *)
LEMMA OtherBusy ==
    ASSUME CoreInv,
           \/ \E c \in Clients : Begin(c) \/ Run(c) \/ RsyncDeletes(c)
           \/ \E t \in Threads : Receive(t) \/ Send(t) \/ Close(t)
           \/ Stop \/ Start \/ UNCHANGED vars,
           ~ overlapped'
    PROVE  /\ ~ overlapped
           /\ \/ \A u \in Threads : Busy(u)' => Busy(u) /\ worker'[u] = worker[u]
              \/ \E t \in Threads : Receive(t) /\ Alone(t) /\ ~ Busy(t)
<1>1. archives \in Nat
    BY DEF CoreInv, BasicInv, TypeOK
<1>2. ASSUME NEW c \in Clients, Begin(c)
      PROVE  ~ overlapped /\ \A u \in Threads : Busy(u)' => Busy(u) /\ worker'[u] = worker[u]
    <2>1. PICK new \in Threads :
            /\ worker'[new] = Waiting
            /\ \A t \in Threads \ {new} : worker'[t] = worker[t]
        BY <1>2, BeginEffect
    <2> QED
        BY <1>1, <1>2, <2>1, IdleWorkers DEF Begin, Busy
<1>3. ASSUME NEW c \in Clients, Run(c)
      PROVE  ~ overlapped /\ worker' = worker
    BY <1>3 DEF Run, TakePrepared, NotifyComplete, TakeCompleted, GiveUp, ConnectionLost,
       RsyncFails, serverVars, fileVars
<1>4. ASSUME NEW t \in Threads, Receive(t)
      PROVE  ~ overlapped /\ Alone(t) /\ ~ Busy(t)
    <2>1. PICK run \in 1 .. runs : ~ Busy(t) /\ overlapped' = (overlapped \/ Overlaps(t, run))
        BY <1>4, ReceiveEffect
    <2> QED
        BY <2>1 DEF Overlaps, Alone
<1>5. ASSUME NEW t \in Threads, Send(t) \/ Close(t)
      PROVE  ~ overlapped /\ \A u \in Threads : Busy(u)' => Busy(u) /\ worker'[u] = worker[u]
    <2>1. /\ worker'[t] \in {Waiting, NoThread}
          /\ \A u \in Threads \ {t} : worker'[u] = worker[u]
        BY <1>5, SendEffect, CloseEffect
    <2> QED
        BY <1>1, <1>5, <2>1, IdleWorkers DEF Send, Close, Busy
<1>6. CASE Stop \/ Start \/ UNCHANGED vars
    BY <1>6 DEF Stop, Start, vars, fileVars, Busy
<1>7. ASSUME NEW c \in Clients, RsyncDeletes(c)
      PROVE  ~ overlapped /\ worker' = worker
    BY <1>7 DEF RsyncDeletes
<1> QED
    BY <1>2, <1>3, <1>4, <1>5, <1>6, <1>7 DEF Busy

LEMMA StepSerial == CoreInv /\ SerialInv /\ [Next]_vars => SerialInv'
<1> SUFFICES ASSUME CoreInv, SerialInv, [Next]_vars PROVE SerialInv'
    OBVIOUS
<1>1. ASSUME NEW t \in Threads, Handle(t),
             UNCHANGED <<daemon, link, client, runs, done, overlapped>>
      PROVE  SerialInv'
    BY <1>1, HandleSerial DEF CoreInv
<1>2. CASE Exit
    <2>1. /\ \A t \in Threads : worker'[t] = NoThread
          /\ \/ file' = file
             \/ \E t \in Threads : \E k \in 0 .. Len(worker[t].entries) :
                   file' = SubSeq(worker[t].entries, 1, k)
          /\ UNCHANGED overlapped
        BY <1>2, ExitEffect
    <2>2. \A t \in Threads : worker[t].entries \in Seq(Entry)
        BY DEF CoreInv, BasicInv, TypeOK, Worker
    <2>3. ~ overlapped => Descending(file')
        BY <2>1, <2>2, DescendingParts DEF SerialInv
    <2>4. NoThread.op = "none" /\ NoThread.at = "none" /\ NoThread.entries = <<>>
        BY DEF NoThread
    <2>5. Descending(<<>>)
        BY DEF Descending
    <2> QED
        BY <2>1, <2>3, <2>4, <2>5 DEF SerialInv, Busy, Descending
<1>3. CASE \/ \E c \in Clients : Begin(c) \/ Run(c) \/ RsyncDeletes(c)
           \/ \E t \in Threads : Receive(t) \/ Send(t) \/ Close(t)
           \/ Stop \/ Start \/ UNCHANGED vars
    <2> SUFFICES ASSUME ~ overlapped'
                 PROVE  /\ \A u, v \in Threads : Busy(u)' /\ Busy(v)' => u = v
                        /\ Descending(file')
                        /\ \A u \in Threads :
                              /\ Descending(worker'[u].entries)
                              /\ worker'[u].at = "open" =>
                                    worker'[u].entries = Rewritten(worker'[u], file')
                              /\ worker'[u].at = "write" => file' = <<>>
        BY DEF SerialInv, Descending, Rewritten, UpdateForDiff, NewEntry, Finalize, MaxNumber
    <2>1. /\ ~ overlapped
          /\ \/ \A u \in Threads : Busy(u)' => Busy(u) /\ worker'[u] = worker[u]
             \/ \E t \in Threads : Receive(t) /\ Alone(t) /\ ~ Busy(t)
        BY <1>3, OtherBusy
    <2>2. \A u, v \in Threads : Busy(u)' /\ Busy(v)' => u = v
        <3>1. CASE \A u \in Threads : Busy(u)' => Busy(u)
            BY <2>1, <3>1 DEF SerialInv
        <3>2. ASSUME NEW t \in Threads, Receive(t), Alone(t)
              PROVE  \A u \in Threads : Busy(u)' => u = t
            <4>1. \A u \in Threads \ {t} : worker'[u] = worker[u]
                BY <3>2, ReceiveEffect
            <4> QED
                BY <3>2, <4>1 DEF Alone, Busy
        <3> QED
            BY <2>1, <3>1, <3>2
    <2>3. /\ file' = file
          /\ \A u \in Threads :
                \/ worker'[u] = worker[u]
                \/ /\ worker'[u].at \notin Rewriting
                   /\ worker'[u].entries = <<>>
        BY <1>3, OtherEntries
    <2>4. Descending(<<>>)
        BY DEF Descending
    <2>5. ASSUME NEW u \in Threads
          PROVE  /\ Descending(worker'[u].entries)
                 /\ worker'[u].at = "open" =>
                       worker'[u].entries = Rewritten(worker'[u], file')
                 /\ worker'[u].at = "write" => file' = <<>>
        <3>1. CASE worker'[u] = worker[u]
            BY <2>1, <2>3, <3>1 DEF SerialInv
        <3>2. CASE worker'[u].at \notin Rewriting /\ worker'[u].entries = <<>>
            BY <2>4, <3>2 DEF Rewriting
        <3> QED
            BY <2>3, <3>1, <3>2
    <2> QED
        BY <2>1, <2>2, <2>3, <2>5 DEF SerialInv
<1> QED
    BY <1>1, <1>2, <1>3 DEF Next, Serve

LEMMA InitSerial == Init => SerialInv
<1> SUFFICES ASSUME Init PROVE SerialInv
    OBVIOUS
<1>1. Before \in Nat /\ file = Entries(Before)
    BY FileAssumption DEF Init, FileInit
<1>2. Descending(file)
    <2>1. DOMAIN file = 1 .. Before
        BY <1>1, InitialLog, LenProperties
    <2>2. \A i \in 1 .. Before : /\ file[i].number = Before + 1 - i
                                 /\ file[1].number = Before + 1 - 1
        BY <1>1, InitialLog
    <2> QED
        BY <1>1, <2>1, <2>2 DEF Descending
<1>3. \A t \in Threads : worker[t].op = "none" /\ worker[t].at = "none" /\ worker[t].entries = <<>>
    BY DEF Init, FileInit, NoThread
<1> QED
    BY <1>2, <1>3 DEF SerialInv, Busy, Descending

LEMMA SerialInvariance == Spec => [](CoreInv /\ SerialInv)
<1>1. Init => CoreInv /\ SerialInv
    BY InitCore, InitSerial
<1>2. CoreInv /\ SerialInv /\ [Next]_vars => (CoreInv /\ SerialInv)'
    BY StepCore, StepSerial
<1> QED
    BY <1>1, <1>2, PTL DEF Spec

(* Through stops, crashes, full disks and rewritings cut in the middle:    *)
(* runs that do not overlap leave the numbers in set.log without a gap.    *)
THEOREM NumbersContiguous == Spec => []Contiguous
<1>1. ASSUME CoreInv, SerialInv PROVE Contiguous
    <2> SUFFICES ASSUME ~ overlapped, NEW i \in 2 .. Len(file)
                 PROVE  file[i].number = file[i - 1].number - 1
        BY DEF Contiguous
    <2>1. file \in Seq(Entry) /\ Len(file) \in Nat /\ DOMAIN file = 1 .. Len(file)
        BY <1>1, LenProperties DEF CoreInv, BasicInv, TypeOK
    <2>2. /\ i \in DOMAIN file /\ i - 1 \in DOMAIN file /\ 1 \in DOMAIN file
          /\ i \in Int
        BY <2>1
    <2>3. file[1].number \in Int
        <3>1. file[1] \in Entry
            BY <2>1, <2>2, ElementOfSeq
        <3> QED
            BY <3>1 DEF Entry
    <2>4. /\ file[i].number = file[1].number - i + 1
          /\ file[i - 1].number = file[1].number - (i - 1) + 1
        BY <1>1, <2>2 DEF SerialInv, Descending
    <2> QED
        BY <2>2, <2>3, <2>4
<1> QED
    BY <1>1, SerialInvariance, PTL

-----------------------------------------------------------------------------
(* The history that a rewriting in progress stands for                     *)

OnlyWriter(t) == worker[t].at = "write" /\ \A u \in Threads : worker[u].at = "write" => u = t
NoWriter      == \A u \in Threads : worker[u].at # "write"

LEMMA HistoryNow ==
    /\ NoWriter => History = file
    /\ \A t \in Threads : OnlyWriter(t) => History = worker[t].entries
<1>1. ASSUME NEW t \in Threads, OnlyWriter(t)
      PROVE  (CHOOSE u \in Threads : worker[u].at = "write") = t
    BY <1>1 DEF OnlyWriter
<1> QED
    BY <1>1 DEF History, Writer, NoWriter, OnlyWriter

LEMMA HistoryNext ==
    /\ NoWriter' => History' = file'
    /\ \A t \in Threads : OnlyWriter(t)' => History' = worker'[t].entries
<1>1. ASSUME NEW t \in Threads, OnlyWriter(t)'
      PROVE  (CHOOSE u \in Threads : worker'[u].at = "write") = t
    BY <1>1 DEF OnlyWriter
<1> QED
    BY <1>1 DEF History, Writer, NoWriter, OnlyWriter

(* As long as handlers do not overlap, a step of one is a step of none of  *)
(* the others.                                                             *)
LEMMA AloneWrites ==
    ASSUME BasicInv, SerialInv, ~ overlapped, NEW t \in Threads, Busy(t)
    PROVE  /\ worker[t].at = "write" => History = worker[t].entries
           /\ worker[t].at # "write" => History = file
<1>1. \A u \in Threads : worker[u].at = "write" => u = t
    BY BusySteps DEF SerialInv, Rewriting
<1> QED
    BY <1>1, HistoryNow DEF OnlyWriter, NoWriter

LEMMA AloneWritesNext ==
    ASSUME BasicInv, SerialInv, ~ overlapped, NEW t \in Threads, HandlerStep(t)
    PROVE  /\ worker'[t].at = "write" => History' = worker'[t].entries
           /\ worker'[t].at # "write" => History' = file'
<1>1. Busy(t) /\ \A u \in Threads \ {t} : worker'[u] = worker[u]
    BY DEF HandlerStep, Moves
<1>2. \A u \in Threads : worker'[u].at = "write" => u = t
    BY <1>1, BusySteps DEF SerialInv, Rewriting
<1> QED
    BY <1>2, HistoryNext DEF OnlyWriter, NoWriter

(* What a step of a handler makes of the history.                          *)
LEMMA HandleHistory ==
    ASSUME BasicInv, SerialInv, ~ overlapped, NEW t \in Threads, Handle(t),
           UNCHANGED runs
    PROVE  /\ worker[t].at \notin {"open", "write"} => History = file
           /\ Load(t) => History' = History
           /\ Open(t) => History = file /\ History' = Rewritten(worker[t], History)
           /\ Write(t) \/ WriteFails(t) =>
                 \/ History' = History
                 \/ harmed' /\ \E k \in 0 .. Len(History) :
                                  History' = SubSeq(History, 1, k)
           /\ CreateDiff(t) \/ SyncSnapshots(t) \/ MetadataStarted(t) \/ MetadataFinished(t)
                 => History' = History
<1>1. /\ HandlerStep(t) /\ Busy(t)
      /\ worker[t].at = "write" => History = worker[t].entries
      /\ worker[t].at # "write" => History = file
      /\ worker'[t].at = "write" => History' = worker'[t].entries
      /\ worker'[t].at # "write" => History' = file'
    <2>1. HandlerStep(t) /\ Busy(t)
        BY HandleStep DEF HandlerStep
    <2> QED
        BY <2>1, AloneWrites, AloneWritesNext
<1>2. ASSUME Load(t) PROVE History' = History
    <2>1. /\ worker[t].at = "load" /\ file' = file
          /\ worker'[t].at \in {"open", "sync", "answer"}
        BY <1>2, LoadDetail DEF After
    <2> QED
        BY <1>1, <2>1
<1>3. ASSUME Open(t)
      PROVE  History = file /\ History' = Rewritten(worker[t], History)
    <2>1. /\ worker[t].at = "open" /\ worker'[t].at = "write"
          /\ worker'[t].entries = worker[t].entries
        BY <1>3, OpenDetail
    <2>2. worker[t].entries = Rewritten(worker[t], file)
        BY <2>1 DEF SerialInv
    <2> QED
        BY <1>1, <2>1, <2>2
<1>4. ASSUME Write(t) \/ WriteFails(t)
      PROVE  \/ History' = History
             \/ harmed' /\ \E k \in 0 .. Len(History) : History' = SubSeq(History, 1, k)
    <2>1. worker[t].at = "write" /\ worker'[t].at \in {"sync", "answer"}
        BY <1>4, WriteDetail DEF After
    <2>2. file = <<>>
        BY <2>1 DEF SerialInv
    <2>3. History = worker[t].entries /\ History' = file'
        BY <1>1, <2>1
    <2> QED
        BY <1>4, <2>2, <2>3, SerialWrite
<1>5. ASSUME CreateDiff(t) \/ SyncSnapshots(t) \/ MetadataStarted(t) \/ MetadataFinished(t)
      PROVE  History' = History
    <2>1. /\ file' = file /\ worker[t].at # "write" /\ worker'[t].at # "write"
        BY <1>5, ToolSteps DEF Rewriting
    <2> QED
        BY <1>1, <2>1
<1> QED
    BY <1>1, <1>2, <1>3, <1>4, <1>5

(* No other step changes it.                                               *)
LEMMA OtherHistory ==
    ASSUME CoreInv, SerialInv, ~ overlapped,
           \/ \E c \in Clients : Begin(c) \/ Run(c) \/ RsyncDeletes(c)
           \/ \E t \in Threads : Receive(t) \/ Send(t) \/ Close(t)
           \/ Stop \/ Start \/ UNCHANGED vars
    PROVE  History' = History
<1>1. /\ file' = file
      /\ \A t \in Threads :
            \/ worker'[t] = worker[t]
            \/ worker[t].at \notin Rewriting /\ worker'[t].at \notin Rewriting
    BY OtherEntries
<1>2. \A t \in Threads :
        worker[t].at = "write" \/ worker'[t].at = "write" => worker'[t] = worker[t]
    BY <1>1 DEF Rewriting
<1>3. \A t, u \in Threads : worker[t].at = "write" /\ worker[u].at = "write" => t = u
    BY BusySteps DEF CoreInv, SerialInv, Rewriting
<1>4. CASE NoWriter
    <2>1. NoWriter'
        BY <1>2, <1>4 DEF NoWriter
    <2> QED
        BY <1>1, <1>4, <2>1, HistoryNow, HistoryNext
<1>5. CASE ~ NoWriter
    <2>1. PICK t \in Threads : worker[t].at = "write"
        BY <1>5 DEF NoWriter
    <2>2. OnlyWriter(t)
        BY <1>3, <2>1 DEF OnlyWriter
    <2>3. OnlyWriter(t)' /\ worker'[t] = worker[t]
        BY <1>2, <1>3, <2>1 DEF OnlyWriter
    <2> QED
        BY <2>2, <2>3, HistoryNow, HistoryNext
<1> QED
    BY <1>4, <1>5

(* The end of the process cuts a rewriting short, and marks the harm.      *)
LEMMA ExitHistory ==
    ASSUME CoreInv, SerialInv, ~ overlapped, Exit
    PROVE  \/ History' = History
           \/ harmed' /\ \E k \in 0 .. Len(History) : History' = SubSeq(History, 1, k)
<1>1. /\ \A t \in Threads : worker'[t] = NoThread
      /\ \/ file' = file
         \/ \E t \in Threads : \E k \in 0 .. Len(worker[t].entries) :
               /\ worker[t].at = "write"
               /\ file' = SubSeq(worker[t].entries, 1, k)
      /\ harmed' = (harmed \/ \E t \in Threads : Busy(t))
    BY ExitEffect
<1>2. History' = file'
    <2>1. NoWriter'
        BY <1>1 DEF NoWriter, NoThread
    <2> QED
        BY <2>1, HistoryNext
<1>3. CASE NoWriter
    <2>1. file' = file
        BY <1>1, <1>3 DEF NoWriter
    <2> QED
        BY <1>2, <1>3, <2>1, HistoryNow
<1>4. CASE ~ NoWriter
    <2>1. PICK t \in Threads : worker[t].at = "write"
        BY <1>4 DEF NoWriter
    <2>2. Busy(t) /\ OnlyWriter(t) /\ file = <<>>
        BY <2>1, BusySteps DEF CoreInv, SerialInv, Rewriting, OnlyWriter
    <2>3. History = worker[t].entries /\ worker[t].entries \in Seq(Entry) /\ harmed'
        BY <1>1, <2>2, HistoryNow DEF CoreInv, BasicInv, TypeOK, Worker
    <2>4. CASE file' = file
        <3>1. SubSeq(History, 1, 0) = <<>> /\ 0 \in 0 .. Len(History)
            BY <2>3, LenProperties, SubSeqEmpty
        <3> QED
            BY <1>2, <2>2, <2>3, <2>4, <3>1
    <2>5. ASSUME NEW u \in Threads, NEW k \in 0 .. Len(worker[u].entries),
                 worker[u].at = "write", file' = SubSeq(worker[u].entries, 1, k)
          PROVE  \E j \in 0 .. Len(History) : History' = SubSeq(History, 1, j)
        BY <1>2, <2>2, <2>3, <2>5 DEF OnlyWriter
    <2> QED
        BY <1>1, <2>3, <2>4, <2>5
<1> QED
    BY <1>3, <1>4

(* As long as handlers do not overlap, set.log changes as if each of the   *)
(* functions that rewrite it did so at once, or loses its oldest entries   *)
(* by a failure.                                                           *)
THEOREM HistoryIsAtomic == Spec => StepsOfHistory
<1>1. ASSUME CoreInv, SerialInv, [Next]_vars
      PROVE  [overlapped' \/ AtomicStep(History, History')]_History
    <2> SUFFICES ASSUME ~ overlapped', History' # History
                 PROVE  AtomicStep(History, History')
        OBVIOUS
    <2> USE <1>1
    <2>1. ASSUME harmed', \E k \in 0 .. Len(History) : History' = SubSeq(History, 1, k)
          PROVE  AtomicStep(History, History')
        BY <2>1 DEF AtomicStep, Written
    <2>2. ASSUME NEW t \in Threads, Handle(t),
                 UNCHANGED <<daemon, link, client, runs, done, overlapped>>
          PROVE  AtomicStep(History, History')
        <3>1. CASE Open(t)
            <4>1. History' = Rewritten(worker[t], History) /\ worker[t].at \in Rewriting
                BY <2>2, <3>1, HandleHistory, OpenDetail DEF CoreInv, Rewriting
            <4>2. /\ worker[t] \in Worker /\ WorkerOK(worker[t]) /\ Busy(t)
                  /\ archives \in Nat
                BY <4>1, BusySteps DEF CoreInv, BasicInv, TypeOK
            <4>3. /\ worker[t].run \in 1 .. runs /\ worker[t].task \in Tasks
                  /\ worker[t].task = "archived" => worker[t].archive \in 1 .. archives
                BY <4>1, <4>2 DEF WorkerOK, Worker, Busy, NoDiff
            <4> QED
                BY <4>1, <4>3 DEF AtomicStep, Rewritten, Tasks
        <3>2. CASE ~ Open(t)
            BY <2>1, <2>2, <3>2, HandleHistory DEF CoreInv, Handle, RewriteSetLog
        <3> QED
            BY <3>1, <3>2
    <2>3. CASE Exit
        BY <2>1, <2>3, ExitHistory DEF Exit
    <2>4. CASE \/ \E c \in Clients : Begin(c) \/ Run(c) \/ RsyncDeletes(c)
               \/ \E t \in Threads : Receive(t) \/ Send(t) \/ Close(t)
               \/ Stop \/ Start \/ UNCHANGED vars
        BY <2>4, OtherBusy, OtherHistory
    <2> QED
        BY <2>2, <2>3, <2>4 DEF Next, Serve
<1> QED
    BY <1>1, SerialInvariance, PTL DEF Spec, StepsOfHistory
=============================================================================
