-------------------------- MODULE LifecycleProofs --------------------------
(***************************************************************************)
(* Theorems about SetLifecycle, for any hosts, worker threads and faults,  *)
(* and any number of commands.                                             *)
(***************************************************************************)
EXTENDS SetLifecycle, TLAPS

(* The types, and whose request a worker handles: each has its own.        *)
TypeInv ==
    /\ commands \in Nat
    /\ disk \subseteq Items
    /\ disk # {} => "set" \in disk
    /\ madeBy \in 0 .. commands
    /\ disk = {} <=> madeBy = NoCommand
    /\ worker \in [Threads -> Worker]
    /\ overlapped \in BOOLEAN /\ crossed \in BOOLEAN
    /\ acknowledged \subseteq 1 .. commands
    /\ \A t \in Threads :
          /\ worker[t].id \in 0 .. commands
          /\ worker[t].op = "none" => worker[t] = Idle
          /\ worker[t].op # "none" => worker[t].id # NoCommand
    /\ \A t, u \in Threads :
          worker[t].id = worker[u].id /\ worker[t].op # "none" => t = u

(* Before its check has led to anything, and after its clean-up, the       *)
(* directory is not a creation's own - whatever others do meanwhile.       *)
Own(w) ==
    w.op = "create" =>
        /\ w.at \in {"check", "set", "C", "O", "metadata", "log", "cleanUp", "answer"}
        /\ w.ok => w.at = "answer"
        /\ w.at \in {"check", "set"} => madeBy # w.id
        /\ w.at = "answer" /\ ~ w.ok /\ ~ w.errors => madeBy # w.id

(* What is there of the set when a creation has reached a step.            *)
Made == [C        |-> {"set"},
         O        |-> {"set", "C"},
         metadata |-> {"set", "C", "O"},
         log      |-> {"set", "C", "O", "metadata"}]

Succeeding(w) == w.op = "create" /\ w.at = "answer" /\ w.ok

(* Between the check of a creation and its end, and during a deletion, no  *)
(* creation stands acknowledged.                                           *)
Creating(w) ==
    w.op = "create" =>
        /\ w.at \in {"set", "C", "O", "metadata", "log", "cleanUp"} => acknowledged = {}
        /\ w.at \in DOMAIN Made => madeBy = w.id /\ Made[w.at] \subseteq disk
        /\ Succeeding(w) =>
              acknowledged = {} /\ madeBy = w.id /\ Made.log \subseteq disk
Deleting(w) == w.op = "delete" => acknowledged = {}

KeptInv ==
    ~ crossed =>
        /\ \A t, u \in Threads :
              worker[t].op \in Crossing /\ worker[u].op \in Crossing => t = u
        /\ Kept
        /\ \A t \in Threads : Creating(worker[t]) /\ Deleting(worker[t])

Deleted(w) == w.op = "delete" /\ w.at = "answer" /\ w.ok

GoneInv ==
    ~ overlapped =>
        /\ \A t, u \in Threads : worker[t] # Idle /\ worker[u] # Idle => t = u
        /\ \A t \in Threads : Deleted(worker[t]) => disk = {}

ServerInv ==
    TypeInv /\ (\A t \in Threads : Own(worker[t])) /\ KeptInv /\ GoneInv

(* A command that waits has sent a request, and while its worker is there  *)
(* it handles that request.                                                *)
ClientInv ==
    /\ command \in [Hosts -> Command]
    /\ config \in [Hosts -> 0 .. commands]
    /\ cron \subseteq Hosts
    /\ failed \subseteq 1 .. commands
    /\ \A h \in Hosts :
          /\ command[h].id \in 0 .. commands
          /\ Running(h) => command[h].id # NoCommand
          /\ At(h, "wait") =>
                /\ command[h].op \in DOMAIN RequestOf
                /\ \A t \in Threads : worker[t].id = command[h].id =>
                      worker[t].op = RequestOf[command[h].op]

IInv == ServerInv /\ ClientInv

(* The invariant gives the properties that the run lifecycle checks.       *)
LEMMA Consequences ==
    IInv => TypeOK /\ AcknowledgedKept /\ RejectedLeavesNothing /\ DeletedIsGone
<1> SUFFICES ASSUME IInv
             PROVE  TypeOK /\ AcknowledgedKept /\ RejectedLeavesNothing /\ DeletedIsGone
    OBVIOUS
<1>1. TypeOK
    BY DEF IInv, ServerInv, TypeInv, ClientInv, TypeOK
<1>2. AcknowledgedKept
    BY DEF IInv, ServerInv, KeptInv, AcknowledgedKept
<1>3. RejectedLeavesNothing
    BY DEF IInv, ServerInv, RejectedLeavesNothing, Handling, Own
<1>4. DeletedIsGone
    BY DEF IInv, ServerInv, GoneInv, DeletedIsGone, Handling, Deleted
<1> QED
    BY <1>1, <1>2, <1>3, <1>4

LEMMA IdleWorker ==
    Idle \in Worker /\ Idle.op = "none" /\ Idle.id = 0 /\ Idle.at = "none"
BY DEF Idle, Worker, NoCommand

LEMMA InitInv == Init => IInv
<1> SUFFICES ASSUME Init PROVE IInv
    OBVIOUS
<1>1. NoneRunning \in Command
    BY DEF NoneRunning, Command, NoCommand
<1>2. worker \in [Threads -> Worker] /\ \A t \in Threads : worker[t] = Idle
    BY IdleWorker DEF Init
<1>3. TypeInv
    <2>1. /\ disk = {} /\ madeBy = 0 /\ commands = 0 /\ acknowledged = {}
          /\ overlapped \in BOOLEAN /\ crossed \in BOOLEAN
        BY DEF Init, NoCommand
    <2>2. \A t \in Threads : worker[t].op = "none" /\ worker[t].id = 0 /\ worker[t] = Idle
        BY <1>2, IdleWorker
    <2> QED
        BY <1>2, <2>1, <2>2 DEF TypeInv, NoCommand
<1>4. \A t \in Threads : Own(worker[t]) /\ Creating(worker[t]) /\ Deleting(worker[t])
    BY <1>2, IdleWorker DEF Own, Creating, Deleting, Succeeding
<1>5. KeptInv /\ GoneInv
    BY <1>2, <1>4, IdleWorker DEF Init, KeptInv, Kept, Crossing, GoneInv, Deleted
<1>6. ClientInv
    BY <1>1 DEF Init, ClientInv, Running, At, NoneRunning, NoCommand
<1> QED
    BY <1>2, <1>3, <1>4, <1>5, <1>6 DEF IInv, ServerInv

-----------------------------------------------------------------------------
(* Steps of the worker                                                     *)

(* A worker's step leaves its request what it is.                          *)
SameRequest(t) ==
    /\ worker' \in [Threads -> Worker]
    /\ worker'[t].op = worker[t].op
    /\ worker'[t].id = worker[t].id
    /\ worker[t].op # "none"
    /\ \A u \in Threads \ {t} : worker'[u] = worker[u]

LEMMA AfterValues ==
    /\ DOMAIN After = {"set", "C", "O"}
    /\ After["set"] = "C" /\ After["C"] = "O" /\ After["O"] = "metadata"
BY DEF After

LEMMA TreeValues ==
    /\ DOMAIN TreeAfter = {"C", "O", "diffs"}
    /\ TreeAfter["C"] = "O" /\ TreeAfter["O"] = "diffs" /\ TreeAfter["diffs"] = "set"
BY DEF TreeAfter

LEMMA HandleFrame ==
    ASSUME TypeInv, NEW t \in Threads, Handle(t)
    PROVE  SameRequest(t)
<1> DEFINE w == worker[t]
           at == {"none", "path", "check", "set", "C", "O", "metadata", "diffs", "log",
                  "cleanUp", "answer"}
<1>1. worker \in [Threads -> Worker] /\ w \in Worker
    BY DEF TypeInv
<1>2. ASSUME NEW a \in at, GoTo(t, a), w.op # "none"
      PROVE  SameRequest(t)
    BY <1>1, <1>2 DEF GoTo, Worker, SameRequest
<1>3. ASSUME NEW ok \in BOOLEAN, Answer(t, ok), w.op # "none"
      PROVE  SameRequest(t)
    BY <1>1, <1>3 DEF Answer, Worker, SameRequest
<1>4. ASSUME NEW a \in at, w.op # "none",
             worker' = [worker EXCEPT ![t].at = a, ![t].errors = TRUE]
      PROVE  SameRequest(t)
    BY <1>1, <1>4 DEF Worker, SameRequest
<1>5. (~ w.errors) \in BOOLEAN /\ TRUE \in BOOLEAN /\ FALSE \in BOOLEAN
    OBVIOUS
<1>6. CASE CreateSet(t)
    <2>1. CASE CreateCheck(t)
        BY <1>2, <1>3, <1>5, <2>1 DEF CreateCheck, Handling
    <2>2. CASE CreateDirectory(t)
        BY <1>2, <2>2, AfterValues DEF CreateDirectory, Handling
    <2>3. CASE CreateMetadata(t)
        BY <1>2, <2>3 DEF CreateMetadata, Handling
    <2>4. CASE CreateLog(t)
        BY <1>3, <1>5, <2>4 DEF CreateLog, Handling
    <2>5. CASE CreateCleanUp(t)
        BY <1>3, <1>4, <1>5, <2>5 DEF CreateCleanUp, Handling
    <2> QED
        BY <1>6, <2>1, <2>2, <2>3, <2>4, <2>5 DEF CreateSet
<1>7. CASE DeleteSet(t)
    <2>1. CASE DeleteDiffDir(t)
        BY <1>2, <1>3, <1>5, <2>1 DEF DeleteDiffDir, Handling
    <2>2. CASE DeleteCheck(t)
        BY <1>2, <1>3, <1>5, <2>2 DEF DeleteCheck, Handling
    <2>3. CASE DeleteTree(t)
        BY <1>2, <1>4, <2>3, TreeValues DEF DeleteTree, Handling
    <2>4. CASE DeleteDirectory(t)
        BY <1>3, <1>5, <2>4 DEF DeleteDirectory, Handling
    <2> QED
        BY <1>7, <2>1, <2>2, <2>3, <2>4 DEF DeleteSet
<1>8. CASE PrepareBackup(t)
    <2>1. CASE PrepareSet(t)
        BY <1>2, <1>3, <1>5, <2>1 DEF PrepareSet, Handling
    <2>2. CASE PrepareSnapshots(t)
        BY <1>2, <1>3, <1>5, <2>2 DEF PrepareSnapshots, Handling
    <2>3. CASE PrepareLog(t)
        BY <1>3, <1>5, <2>3 DEF PrepareLog, Handling
    <2> QED
        BY <1>8, <2>1, <2>2, <2>3 DEF PrepareBackup
<1> QED
    BY <1>6, <1>7, <1>8 DEF Handle

-----------------------------------------------------------------------------
(* What a step does to the directory                                       *)

DirType ==
    /\ disk \subseteq Items
    /\ disk # {} => "set" \in disk
    /\ madeBy \in 0 .. commands
    /\ disk = {} <=> madeBy = NoCommand

(* It grows, and a directory that is there is not taken over ...           *)
Grows(id) ==
    /\ disk \subseteq disk'
    /\ "set" \in disk => madeBy' = madeBy
    /\ madeBy' \in {madeBy, id}

(* ... or something is removed.                                            *)
Shrinks == disk' \subseteq disk /\ madeBy' \in {madeBy, NoCommand}

LEMMA MakeDir ==
    ASSUME TypeInv, NEW t \in Threads, worker[t].op # "none",
           NEW items \in SUBSET Items, Make(t, items), commands' = commands
    PROVE  /\ DirType' /\ Grows(worker[t].id)
           /\ disk \cup {"set"} \cup items \subseteq disk'
           /\ "set" \notin disk => madeBy' = worker[t].id
<1>1. worker[t].id \in 0 .. commands /\ worker[t].id # NoCommand
    BY DEF TypeInv
<1>2. /\ disk' = disk \cup {"set"} \cup items
      /\ madeBy' = IF "set" \in disk THEN madeBy ELSE worker[t].id
    BY DEF Make
<1> QED
    BY <1>1, <1>2 DEF TypeInv, DirType, Grows, Items

LEMMA UntouchedDir ==
    ASSUME TypeInv, NEW t \in Threads, Untouched, commands' = commands
    PROVE  DirType' /\ Grows(worker[t].id) /\ disk' = disk /\ madeBy' = madeBy
BY DEF TypeInv, DirType, Untouched, Grows

LEMMA RemoveDir ==
    ASSUME TypeInv, NEW t \in Threads, RemoveAll \/ RemoveSome(t), commands' = commands
    PROVE  DirType' /\ Shrinks
<1>1. commands \in Nat
    BY DEF TypeInv
<1>2. CASE RemoveAll
    BY <1>1, <1>2 DEF RemoveAll, DirType, Shrinks, NoCommand
<1>3. CASE RemoveSome(t)
    BY <1>1, <1>3 DEF RemoveSome, DirType, Shrinks, TypeInv
<1> QED
    BY <1>2, <1>3

(* What a step of a worker has to establish for its own request.           *)
Done(t) ==
    /\ DirType'
    /\ Own(worker[t])'
    /\ ~ crossed => Kept' /\ Creating(worker[t])' /\ Deleting(worker[t])'
    /\ ~ overlapped => (Deleted(worker[t])' => disk' = {})
    /\ Grows(worker[t].id) \/ (Shrinks /\ worker[t].op \in Crossing)

(* Nothing stands acknowledged, or nothing that does is touched.           *)
LEMMA KeptStays ==
    ASSUME acknowledged' = acknowledged,
           acknowledged = {} \/ (Kept /\ disk \subseteq disk' /\
                                 ("set" \in disk => madeBy' = madeBy))
    PROVE  Kept'
BY DEF Kept

LEMMA CreateDone ==
    ASSUME ServerInv, NEW t \in Threads, CreateSet(t), UNCHANGED <<historyVars, clientVars>>
    PROVE  Done(t)
<1> DEFINE w == worker[t]
           v == worker'[t]
<1>1. /\ worker \in [Threads -> Worker] /\ w \in Worker /\ TypeInv
      /\ Own(w) /\ w.id \in 0 .. commands /\ (w.op # "none" => w.id # NoCommand)
      /\ ~ crossed => Kept /\ Creating(w)
    BY DEF ServerInv, TypeInv, KeptInv
<1>2. acknowledged' = acknowledged /\ commands' = commands /\ crossed' = crossed
    BY DEF clientVars, historyVars
<1>3. SameRequest(t)
    BY <1>1, HandleFrame DEF Handle
<1>4. w.op = "create" /\ v.op = "create" /\ v.id = w.id /\ w.op \in Crossing
    BY <1>3 DEF CreateSet, CreateCheck, CreateDirectory, CreateMetadata, CreateLog,
                CreateCleanUp, Handling, SameRequest, Crossing
<1>5. Deleting(worker[t])' /\ ~ Deleted(worker[t])'
    BY <1>4 DEF Deleting, Deleted
<1>6. ASSUME NEW a, GoTo(t, a) PROVE v.at = a /\ v.ok = w.ok
    BY <1>1, <1>6 DEF GoTo, Worker
<1>7. ASSUME NEW ok, Answer(t, ok) PROVE v.at = "answer" /\ v.ok = ok /\ v.errors = w.errors
    BY <1>1, <1>7 DEF Answer, Worker
<1>8. SUFFICES /\ DirType' /\ Own(worker[t])'
               /\ ~ crossed => Kept' /\ Creating(worker[t])'
               /\ Grows(w.id) \/ Shrinks
    BY <1>4, <1>5 DEF Done
<1>9. CASE CreateCheck(t)
    <2>1. w.at = "check" /\ ~ w.ok /\ madeBy # w.id
        BY <1>1, <1>4, <1>9 DEF CreateCheck, Handling, Own
    <2>2. DirType' /\ Grows(w.id) /\ madeBy' = madeBy /\ disk' = disk
        BY <1>1, <1>2, <1>9, UntouchedDir DEF CreateCheck
    <2>3. ~ crossed => Kept'
        BY <1>1, <1>2, <2>2, KeptStays
    <2>4. CASE "set" \in disk
        <3>1. v.at = "answer" /\ v.ok = FALSE
            BY <1>7, <1>9, <2>4 DEF CreateCheck
        <3> QED
            BY <1>4, <2>1, <2>2, <2>3, <3>1 DEF Own, Creating, Succeeding, Made
    <2>5. CASE "set" \notin disk
        <3>1. v.at = "set" /\ v.ok = w.ok
            BY <1>6, <1>9, <2>5 DEF CreateCheck
        <3>2. ~ crossed => acknowledged = {}
            BY <1>1, <2>5 DEF Kept
        <3> QED
            BY <1>2, <1>4, <2>1, <2>2, <2>3, <3>1, <3>2 DEF Own, Creating, Succeeding, Made
    <2> QED
        BY <2>4, <2>5
<1>10. CASE CreateDirectory(t)
    <2>1. PICK item \in DOMAIN After :
              /\ Handling(t, "create", item)
              /\ \/ item \notin disk /\ Make(t, {item}) /\ GoTo(t, After[item])
                 \/ Untouched /\ GoTo(t, "cleanUp")
        BY <1>10 DEF CreateDirectory
    <2>2. /\ item \in {"set", "C", "O"} /\ w.at = item /\ ~ w.ok
          /\ ~ crossed => acknowledged = {}
        BY <1>1, <1>4, <2>1, AfterValues DEF Handling, Own, Creating
    <2>3. ~ crossed => Kept'
        BY <1>2, <2>2, KeptStays
    <2>4. CASE Untouched /\ GoTo(t, "cleanUp")
        <3>1. v.at = "cleanUp" /\ v.ok = w.ok /\ DirType' /\ Grows(w.id)
            BY <1>1, <1>2, <1>6, <2>4, UntouchedDir
        <3> QED
            BY <1>2, <1>4, <2>2, <2>3, <3>1 DEF Own, Creating, Succeeding, Made
    <2>5. CASE item \notin disk /\ Make(t, {item}) /\ GoTo(t, After[item])
        <3>1. v.at = After[item] /\ v.ok = w.ok
            BY <1>6, <2>5
        <3>2. /\ DirType' /\ Grows(w.id)
              /\ disk \cup {"set", item} \subseteq disk'
              /\ "set" \notin disk => madeBy' = w.id
            BY <1>1, <1>2, <1>4, <2>2, <2>5, MakeDir DEF Items
        <3>3. ~ crossed => madeBy' = w.id /\ Made[After[item]] \subseteq disk'
            BY <1>1, <1>4, <2>2, <2>5, <3>2, AfterValues DEF Creating, Made, Grows
        <3> QED
            BY <1>2, <1>4, <2>2, <2>3, <3>1, <3>2, <3>3, AfterValues
            DEF Own, Creating, Succeeding, Made
    <2> QED
        BY <2>1, <2>4, <2>5
<1>11. CASE CreateMetadata(t)
    <2>1. /\ w.at = "metadata" /\ ~ w.ok
          /\ ~ crossed => /\ acknowledged = {} /\ madeBy = w.id
                          /\ {"set", "C", "O"} \subseteq disk
        BY <1>1, <1>4, <1>11 DEF CreateMetadata, Handling, Own, Creating, Made
    <2>2. ~ crossed => Kept'
        BY <1>2, <2>1, KeptStays
    <2>3. CASE Make(t, {"metadata"}) /\ GoTo(t, "log")
        <3>1. v.at = "log" /\ v.ok = w.ok
            BY <1>6, <2>3
        <3>2. /\ DirType' /\ Grows(w.id)
              /\ ~ crossed => madeBy' = w.id /\ {"set", "C", "O", "metadata"} \subseteq disk'
            BY <1>1, <1>2, <1>4, <2>1, <2>3, MakeDir DEF Items, Grows
        <3> QED
            BY <1>2, <1>4, <2>1, <2>2, <3>1, <3>2 DEF Own, Creating, Succeeding, Made
    <2>4. CASE Untouched /\ GoTo(t, "cleanUp")
        <3>1. v.at = "cleanUp" /\ v.ok = w.ok /\ DirType' /\ Grows(w.id)
            BY <1>1, <1>2, <1>6, <2>4, UntouchedDir
        <3> QED
            BY <1>2, <1>4, <2>1, <2>2, <3>1 DEF Own, Creating, Succeeding, Made
    <2> QED
        BY <1>11, <2>3, <2>4 DEF CreateMetadata
<1>12. CASE CreateLog(t)
    <2>1. /\ w.at = "log"
          /\ ~ crossed => acknowledged = {} /\ madeBy = w.id /\ Made.log \subseteq disk
        BY <1>1, <1>4, <1>12 DEF CreateLog, Handling, Creating, Made
    <2>2. v.at = "answer" /\ v.ok = TRUE
        BY <1>7, <1>12 DEF CreateLog
    <2>3. ~ crossed => Kept'
        BY <1>2, <2>1, KeptStays
    <2>4. /\ DirType' /\ Grows(w.id)
          /\ ~ crossed => madeBy' = w.id /\ Made.log \subseteq disk'
        <3>1. CASE Make(t, {"log"})
            BY <1>1, <1>2, <1>4, <2>1, <3>1, MakeDir DEF Items, Made, Grows
        <3>2. CASE Untouched
            BY <1>1, <1>2, <2>1, <3>2, UntouchedDir
        <3> QED
            BY <1>12, <3>1, <3>2 DEF CreateLog
    <2> QED
        BY <1>2, <1>4, <2>1, <2>2, <2>3, <2>4 DEF Own, Creating, Succeeding, Made
<1>13. CASE CreateCleanUp(t)
    <2>1. w.at = "cleanUp" /\ ~ w.ok /\ (~ crossed => acknowledged = {})
        BY <1>1, <1>4, <1>13 DEF CreateCleanUp, Handling, Own, Creating
    <2>2. DirType' /\ Shrinks
        BY <1>1, <1>2, <1>13, RemoveDir DEF CreateCleanUp
    <2>3. ~ crossed => Kept'
        BY <1>2, <2>1, KeptStays
    <2>4. CASE RemoveAll /\ Answer(t, FALSE)
        <3>1. v.at = "answer" /\ v.ok = FALSE /\ madeBy' # w.id
            BY <1>1, <1>4, <1>7, <2>4 DEF RemoveAll
        <3> QED
            BY <1>4, <2>2, <2>3, <3>1 DEF Own, Creating, Succeeding, Made
    <2>5. CASE worker' = [worker EXCEPT ![t].at = "answer", ![t].errors = TRUE]
        <3>1. v.at = "answer" /\ v.errors = TRUE /\ v.ok = w.ok
            BY <1>1, <2>5 DEF Worker
        <3> QED
            BY <1>4, <2>1, <2>2, <2>3, <3>1 DEF Own, Creating, Succeeding, Made
    <2> QED
        BY <1>13, <2>4, <2>5 DEF CreateCleanUp
<1> QED
    BY <1>9, <1>10, <1>11, <1>12, <1>13 DEF CreateSet

LEMMA DeleteDone ==
    ASSUME ServerInv, NEW t \in Threads, DeleteSet(t), UNCHANGED <<historyVars, clientVars>>
    PROVE  Done(t)
<1> DEFINE w == worker[t]
           v == worker'[t]
<1>1. /\ worker \in [Threads -> Worker] /\ w \in Worker /\ TypeInv
      /\ ~ crossed => Deleting(w)
    BY DEF ServerInv, TypeInv, KeptInv
<1>2. acknowledged' = acknowledged /\ commands' = commands
    BY DEF clientVars
<1>3. SameRequest(t)
    BY <1>1, HandleFrame DEF Handle
<1>4. w.op = "delete" /\ v.op = "delete" /\ w.op \in Crossing
    BY <1>3 DEF DeleteSet, DeleteDiffDir, DeleteCheck, DeleteTree, DeleteDirectory,
                Handling, SameRequest, Crossing
<1>5. ~ crossed => acknowledged = {} /\ acknowledged' = {}
    BY <1>1, <1>2, <1>4 DEF Deleting
<1>6. Own(worker[t])' /\ (~ crossed => Kept' /\ Creating(worker[t])' /\ Deleting(worker[t])')
    BY <1>2, <1>4, <1>5, KeptStays DEF Own, Creating, Succeeding, Deleting
<1>7. SUFFICES DirType' /\ (Deleted(worker[t])' => disk' = {}) /\ (Grows(w.id) \/ Shrinks)
    BY <1>4, <1>6 DEF Done
<1>8. ASSUME NEW a, GoTo(t, a) PROVE v.at = a
    BY <1>1, <1>8 DEF GoTo, Worker
<1>9. ASSUME NEW ok, Answer(t, ok) PROVE v.at = "answer" /\ v.ok = ok
    BY <1>1, <1>9 DEF Answer, Worker
<1>10. CASE DeleteDiffDir(t)
    <2>1. DirType' /\ Grows(w.id)
        BY <1>1, <1>2, <1>4, <1>10, MakeDir, UntouchedDir DEF DeleteDiffDir, Items
    <2>2. v.at = "check" \/ ~ v.ok
        BY <1>8, <1>9, <1>10 DEF DeleteDiffDir
    <2> QED
        BY <2>1, <2>2 DEF Deleted
<1>11. CASE DeleteCheck(t)
    <2>1. DirType' /\ Grows(w.id)
        BY <1>1, <1>2, <1>11, UntouchedDir DEF DeleteCheck
    <2>2. v.at = "C" \/ ~ v.ok
        BY <1>8, <1>9, <1>11 DEF DeleteCheck
    <2> QED
        BY <2>1, <2>2 DEF Deleted
<1>12. CASE DeleteTree(t)
    <2>1. PICK tree \in {"C", "O", "diffs"} :
              /\ disk' = disk \ {tree} \/ disk' = disk
              /\ \/ GoTo(t, TreeAfter[tree])
                 \/ worker' = [worker EXCEPT ![t].at = TreeAfter[tree], ![t].errors = TRUE]
              /\ madeBy' = madeBy
        BY <1>12, TreeValues DEF DeleteTree
    <2>2. v.at = TreeAfter[tree]
        BY <1>1, <1>8, <2>1 DEF Worker
    <2>3. DirType' /\ Shrinks
        BY <1>1, <1>2, <2>1 DEF TypeInv, DirType, Shrinks
    <2> QED
        BY <2>2, <2>3, TreeValues DEF Deleted
<1>13. CASE DeleteDirectory(t)
    <2>1. DirType' /\ (Grows(w.id) \/ Shrinks)
        BY <1>1, <1>2, <1>13, RemoveDir, UntouchedDir DEF DeleteDirectory
    <2>2. v.ok => disk' = {}
        BY <1>9, <1>13 DEF DeleteDirectory, RemoveAll
    <2> QED
        BY <2>1, <2>2 DEF Deleted
<1> QED
    BY <1>10, <1>11, <1>12, <1>13 DEF DeleteSet

(* A backup only adds to the directory.                                    *)
LEMMA PrepareDone ==
    ASSUME ServerInv, NEW t \in Threads, PrepareBackup(t),
           UNCHANGED <<historyVars, clientVars>>
    PROVE  Done(t) /\ Grows(worker[t].id)
<1>1. TypeInv /\ (~ crossed => Kept)
    BY DEF ServerInv, KeptInv
<1>2. SameRequest(t)
    BY <1>1, HandleFrame DEF Handle
<1>3. worker[t].op = "prepare" /\ worker'[t].op = "prepare"
    BY <1>2 DEF PrepareBackup, PrepareSet, PrepareSnapshots, PrepareLog, Handling, SameRequest
<1>4. acknowledged' = acknowledged /\ commands' = commands
    BY DEF clientVars
<1>5. Untouched \/ \E items \in SUBSET Items : Make(t, items)
    BY DEF PrepareBackup, PrepareSet, PrepareSnapshots, PrepareLog, Items
<1>6. DirType' /\ Grows(worker[t].id)
    BY <1>1, <1>3, <1>4, <1>5, MakeDir, UntouchedDir
<1>7. ~ crossed => Kept'
    BY <1>1, <1>4, <1>6, KeptStays DEF Grows
<1> QED
    BY <1>3, <1>6, <1>7 DEF Done, Own, Creating, Succeeding, Deleting, Deleted

(* The other workers' requests are not harmed by it.                       *)
LEMMA WorkInv ==
    ASSUME IInv, NEW t \in Threads, Work(t)
    PROVE  IInv'
<1>1. /\ ServerInv /\ TypeInv /\ KeptInv /\ GoneInv /\ ClientInv /\ Handle(t)
      /\ UNCHANGED <<historyVars, clientVars>>
    BY DEF IInv, ServerInv, Work
<1>2. /\ SameRequest(t) /\ worker[t].op # "none" /\ worker[t].id # NoCommand
      /\ worker[t] # Idle
    BY <1>1, HandleFrame, IdleWorker DEF SameRequest, TypeInv
<1>3. Done(t)
    BY <1>1, CreateDone, DeleteDone, PrepareDone DEF Handle
<1>4. /\ commands' = commands /\ acknowledged' = acknowledged
      /\ crossed' = crossed /\ overlapped' = overlapped
    BY <1>1 DEF clientVars, historyVars
<1>5. TypeInv'
    BY <1>1, <1>2, <1>3, <1>4, IdleWorker DEF TypeInv, Done, DirType, SameRequest
<1>6. ASSUME NEW u \in Threads \ {t}
      PROVE  Own(worker[u])' /\ worker'[u] = worker[u]
    <2>1. worker'[u] = worker[u] /\ Own(worker[u])
        BY <1>1, <1>2 DEF SameRequest, ServerInv
    <2>2. worker[u].op # "none" => worker[u].id # worker[t].id /\ worker[u].id # NoCommand
        BY <1>1 DEF TypeInv
    <2>3. madeBy' \in {madeBy, worker[t].id, NoCommand}
        BY <1>3 DEF Done, Grows, Shrinks
    <2> QED
        BY <2>1, <2>2, <2>3 DEF Own
<1>7. KeptInv'
    <2> SUFFICES ASSUME ~ crossed
                 PROVE  /\ \A u, x \in Threads :
                              worker'[u].op \in Crossing /\ worker'[x].op \in Crossing => u = x
                        /\ Kept'
                        /\ \A u \in Threads : Creating(worker[u])' /\ Deleting(worker[u])'
        BY <1>4 DEF KeptInv
    <2>1. \A u, x \in Threads :
             worker'[u].op \in Crossing /\ worker'[x].op \in Crossing => u = x
        BY <1>1, <1>2, <1>6 DEF KeptInv, SameRequest
    <2>2. ASSUME NEW u \in Threads \ {t}
          PROVE  Creating(worker[u])' /\ Deleting(worker[u])'
        <3>1. worker'[u] = worker[u] /\ Creating(worker[u]) /\ Deleting(worker[u])
            BY <1>1, <1>6 DEF KeptInv
        <3>2. CASE worker[u].op \notin Crossing
            BY <3>1, <3>2 DEF Crossing, Creating, Succeeding, Deleting
        <3>3. CASE worker[u].op \in Crossing
            <4>1. worker[t].op \notin Crossing
                BY <1>1, <3>3 DEF KeptInv
            <4>2. disk \subseteq disk' /\ ("set" \in disk => madeBy' = madeBy)
                BY <1>3, <4>1 DEF Done, Grows
            <4>3. \A at \in DOMAIN Made : "set" \in Made[at]
                BY DEF Made
            <4>4. "log" \in DOMAIN Made /\ Made.log = Made["log"]
                BY DEF Made
            <4> HIDE DEF Made
            <4> QED
                BY <1>4, <3>1, <4>2, <4>3, <4>4 DEF Creating, Succeeding, Deleting
        <3> QED
            BY <3>2, <3>3
    <2> QED
        BY <1>3, <2>1, <2>2 DEF Done
<1>8. GoneInv'
    <2> SUFFICES ASSUME ~ overlapped
                 PROVE  /\ \A u, x \in Threads :
                              worker'[u] # Idle /\ worker'[x] # Idle => u = x
                        /\ \A u \in Threads : Deleted(worker[u])' => disk' = {}
        BY <1>4 DEF GoneInv
    <2>1. \A u \in Threads \ {t} : worker'[u] = Idle
        BY <1>1, <1>2, <1>6 DEF GoneInv
    <2> QED
        BY <1>3, <2>1, IdleWorker DEF Done, Deleted
<1>9. ServerInv'
    BY <1>3, <1>5, <1>6, <1>7, <1>8 DEF ServerInv, Done
<1>10. ClientInv'
    BY <1>1, <1>2 DEF ClientInv, SameRequest, clientVars, Running, At
<1> QED
    BY <1>9, <1>10 DEF IInv


-----------------------------------------------------------------------------
(* Steps of the clients                                                    *)

(* A step that leaves the server alone keeps its part.                     *)
LEMMA ServerAlone ==
    ASSUME ServerInv, UNCHANGED <<serverVars, acknowledged>>,
           commands' \in {commands, commands + 1}
    PROVE  ServerInv'
<1>1. commands \in Nat /\ commands' \in Nat /\ 0 .. commands \subseteq 0 .. commands'
      /\ 1 .. commands \subseteq 1 .. commands'
    BY DEF ServerInv, TypeInv
<1>2. /\ disk' = disk /\ madeBy' = madeBy /\ worker' = worker
      /\ overlapped' = overlapped /\ crossed' = crossed
      /\ acknowledged' = acknowledged
    BY DEF serverVars
<1>3. TypeInv'
    BY <1>1, <1>2 DEF ServerInv, TypeInv
<1>4. \A t \in Threads : Own(worker[t])'
    BY <1>2 DEF ServerInv, Own
<1>5. KeptInv'
    BY <1>2 DEF ServerInv, KeptInv, Kept, Creating, Succeeding, Deleting
<1>6. GoneInv'
    BY <1>2 DEF ServerInv, GoneInv, Deleted
<1> QED
    BY <1>3, <1>4, <1>5, <1>6 DEF ServerInv

(* So does a client that ends its command, or goes on with its local part. *)
LEMMA ClientGoesOn ==
    ASSUME ClientInv, NEW h \in Hosts,
           \/ End(h)
           \/ Running(h) /\ \E at \in {"config", "cron", "rsync"} : Proceed(h, at),
           worker' \in [Threads -> Worker], commands' = commands,
           \A t \in Threads : worker'[t] = worker[t] \/ worker'[t].id = NoCommand,
           config' \in [Hosts -> 0 .. commands], cron' \subseteq Hosts,
           failed' \subseteq 1 .. commands, commands \in Nat
    PROVE  ClientInv'
<1>1. NoneRunning \in Command /\ NoneRunning.op = "none" /\ NoneRunning.id = 0
    BY DEF NoneRunning, Command, NoCommand
<1>2. command \in [Hosts -> Command]
    BY DEF ClientInv
<1>3. /\ command' \in [Hosts -> Command]
      /\ \A k \in Hosts :
            \/ command'[k] = command[k]
            \/ command'[k] = NoneRunning
            \/ /\ command'[k].op = command[k].op /\ command'[k].id = command[k].id
               /\ command'[k].at # "wait"
    <2>1. CASE End(h)
        BY <1>1, <1>2, <2>1 DEF End
    <2>2. ASSUME Running(h), NEW at \in {"config", "cron", "rsync"}, Proceed(h, at)
          PROVE  <1>3!1 /\ <1>3!2
        BY <1>2, <2>2 DEF Proceed, Command
    <2> QED
        BY <2>1, <2>2
<1>4. ASSUME NEW k \in Hosts
      PROVE  /\ command'[k].id \in 0 .. commands
             /\ Running(k)' => command'[k].id # NoCommand
             /\ At(k, "wait")' => command'[k] = command[k] /\ At(k, "wait")
    BY <1>1, <1>3 DEF ClientInv, Running, At
<1> QED
    BY <1>3, <1>4 DEF ClientInv, Running, At

LEMMA FailedTyped ==
    ASSUME ClientInv, NEW h \in Hosts, Running(h), NEW error, FailedIf(h, error),
           commands \in Nat
    PROVE  failed' \subseteq 1 .. commands
<1>1. command[h].id \in 1 .. commands /\ failed \subseteq 1 .. commands
    BY DEF ClientInv, NoCommand
<1>2. failed' = failed \cup {command[h].id} \/ failed' = failed
    BY DEF FailedIf
<1> QED
    BY <1>1, <1>2

LEMMA ContinueInv ==
    ASSUME IInv, NEW h \in Hosts,
           GiveUp(h) \/ SaveConfig(h) \/ DeleteConfig(h) \/ UpdateCron(h) \/ Crash(h)
    PROVE  IInv'
<1>1. /\ ServerInv /\ ClientInv /\ Running(h)
      /\ UNCHANGED <<serverVars, acknowledged, commands>>
    BY DEF IInv, GiveUp, SaveConfig, DeleteConfig, UpdateCron, Crash, At
<1>2. commands \in Nat /\ worker' = worker /\ worker \in [Threads -> Worker]
    BY <1>1 DEF ServerInv, TypeInv, serverVars
<1>3. ServerInv'
    BY <1>1, ServerAlone
<1>4. failed' \subseteq 1 .. commands
    BY <1>1, <1>2, FailedTyped
    DEF ClientInv, GiveUp, SaveConfig, DeleteConfig, UpdateCron, Crash
<1>5. config' \in [Hosts -> 0 .. commands] /\ cron' \subseteq Hosts
    <2>1. /\ config \in [Hosts -> 0 .. commands] /\ cron \subseteq Hosts
          /\ command[h].id \in 0 .. commands /\ NoCommand \in 0 .. commands
        BY <1>1, <1>2 DEF ClientInv, NoCommand
    <2>2. CASE SaveConfig(h)
        BY <2>1, <2>2 DEF SaveConfig
    <2>3. CASE DeleteConfig(h)
        BY <2>1, <2>3 DEF DeleteConfig
    <2>4. CASE UpdateCron(h)
        BY <2>1, <2>4 DEF UpdateCron
    <2>5. CASE GiveUp(h) \/ Crash(h)
        BY <2>1, <2>5 DEF GiveUp, Crash
    <2> QED
        BY <2>2, <2>3, <2>4, <2>5
<1>6. End(h) \/ \E at \in {"config", "cron", "rsync"} : Proceed(h, at)
    BY DEF GiveUp, SaveConfig, DeleteConfig, UpdateCron, Crash
<1>7. ClientInv'
    BY <1>1, <1>2, <1>4, <1>5, <1>6, ClientGoesOn
<1> QED
    BY <1>3, <1>7 DEF IInv

(* rsync only adds to a set that is there.                                 *)
LEMMA RsyncInv ==
    ASSUME IInv, NEW h \in Hosts, Rsync(h)
    PROVE  IInv'
<1>1. /\ ServerInv /\ ClientInv /\ TypeInv /\ KeptInv /\ GoneInv
      /\ Running(h) /\ commands \in Nat
    BY DEF IInv, ServerInv, TypeInv, Rsync, At
<1>2. /\ disk \subseteq disk' /\ disk' \subseteq Items
      /\ disk = {} <=> disk' = {}
      /\ madeBy' = madeBy /\ worker' = worker
      /\ overlapped' = overlapped /\ crossed' = crossed
      /\ acknowledged' = acknowledged /\ commands' = commands
    BY <1>1 DEF Rsync, TypeInv, Items, historyVars
<1>3. TypeInv'
    BY <1>1, <1>2 DEF TypeInv
<1>4. \A t \in Threads : Own(worker[t])'
    BY <1>1, <1>2 DEF ServerInv, Own
<1>5. ~ crossed => Kept'
    BY <1>1, <1>2 DEF KeptInv, Kept
<1>6. ~ crossed => \A t \in Threads : Creating(worker[t])' /\ Deleting(worker[t])'
    BY <1>1, <1>2 DEF KeptInv, Creating, Deleting, Succeeding
<1>7. KeptInv' /\ GoneInv'
    BY <1>1, <1>2, <1>5, <1>6 DEF KeptInv, GoneInv, Deleted
<1>8. /\ End(h) /\ worker' \in [Threads -> Worker]
      /\ config' \in [Hosts -> 0 .. commands] /\ cron' \subseteq Hosts
      /\ failed' \subseteq 1 .. commands
    BY <1>1, <1>2 DEF Rsync, ClientInv, TypeInv
<1>9. ClientInv'
    BY <1>1, <1>2, <1>8, ClientGoesOn
<1> QED
    BY <1>3, <1>4, <1>7, <1>9 DEF IInv, ServerInv

LEMMA StopInv ==
    ASSUME IInv, Stop
    PROVE  IInv'
<1>1. /\ TypeInv /\ KeptInv /\ ClientInv
      /\ disk' = disk /\ madeBy' = madeBy /\ command' = command /\ config' = config
      /\ overlapped' = overlapped /\ crossed' = crossed
      /\ cron' = cron /\ commands' = commands /\ acknowledged' = acknowledged
      /\ failed' = failed /\ worker' = [t \in Threads |-> Idle]
    BY DEF IInv, ServerInv, Stop, clientVars, historyVars
<1>2. worker' \in [Threads -> Worker] /\ \A t \in Threads : worker'[t] = Idle
    BY <1>1, IdleWorker
<1>3. TypeInv'
    <2>1. \A t \in Threads : worker'[t].op = "none" /\ worker'[t].id = 0
        BY <1>2, IdleWorker
    <2> QED
        BY <1>1, <1>2, <2>1 DEF TypeInv
<1>4. \A t \in Threads : Own(worker[t])' /\ Creating(worker[t])' /\ Deleting(worker[t])'
    BY <1>2, IdleWorker DEF Own, Creating, Deleting, Succeeding
<1>5. KeptInv' /\ GoneInv'
    BY <1>1, <1>2, <1>4, IdleWorker DEF KeptInv, Kept, Crossing, GoneInv, Deleted
<1>6. ClientInv'
    BY <1>1, <1>2, IdleWorker DEF ClientInv, Running, At, NoCommand
<1> QED
    BY <1>3, <1>4, <1>5, <1>6 DEF IInv, ServerInv

-----------------------------------------------------------------------------
(* Steps of a client and the server                                        *)

LEMMA RequestValues ==
    /\ DOMAIN RequestOf = {"create", "purge", "run"}
    /\ RequestOf["create"] = "create" /\ RequestOf["purge"] = "delete"
    /\ RequestOf["run"] = "prepare"
    /\ Begins["create"] = "check" /\ Begins["delete"] = "path" /\ Begins["prepare"] = "set"
    /\ \A op \in DOMAIN RequestOf : AfterAnswer[op] \in {"config", "rsync"}
BY DEF RequestOf, Begins, AfterAnswer

(* A request carries a new name; the deletion that is asked for takes the  *)
(* acknowledgements back.                                                  *)
LEMMA SendInv ==
    ASSUME IInv, NEW h \in Hosts, NEW op \in DOMAIN RequestOf, Send(h, op),
           acknowledged' = IF op = "purge" THEN {} ELSE acknowledged,
           UNCHANGED <<config, cron, failed>>
    PROVE  IInv'
<1> DEFINE id == commands + 1
           c == [op |-> op, id |-> id, at |-> "wait"]
           r == RequestOf[op]
           v == [op |-> r, id |-> id, at |-> Begins[r], ok |-> FALSE, errors |-> FALSE]
<1>1. /\ TypeInv /\ KeptInv /\ GoneInv /\ ClientInv
      /\ \A u \in Threads : Own(worker[u])
      /\ worker \in [Threads -> Worker] /\ commands \in Nat
    BY DEF IInv, ServerInv, TypeInv
<1>2. PICK t \in Threads : Accept(t, r, id)
    BY DEF Send
<1>3. /\ id \in Nat /\ id \notin 0 .. commands /\ id # 0
      /\ 0 .. commands \subseteq 0 .. id /\ 1 .. commands \subseteq 1 .. id
      /\ id \in 0 .. id
    BY <1>1
<1>4. commands' = id /\ command' = [command EXCEPT ![h] = c]
    BY DEF Send, Begin
<1>5. /\ r \in {"create", "delete", "prepare"} /\ r # "none"
      /\ r = "delete" => op = "purge"
      /\ Begins[r] \in {"check", "path", "set"}
      /\ r = "create" => Begins[r] = "check"
    BY RequestValues
<1>6. v \in Worker /\ c \in Command
    BY <1>3, <1>5, RequestValues DEF Worker, Command
<1>7. /\ worker[t] = Idle /\ disk' = disk /\ madeBy' = madeBy
      /\ worker' = [worker EXCEPT ![t] = v]
      /\ overlapped' = (overlapped \/ Others(t) # {})
      /\ crossed' = (crossed \/ (r \in Crossing /\ \E u \in Others(t) : worker[u].op \in Crossing))
    BY <1>2 DEF Accept, Untouched
<1>8. /\ worker' \in [Threads -> Worker] /\ worker'[t] = v
      /\ \A u \in Threads \ {t} : worker'[u] = worker[u]
    BY <1>1, <1>6, <1>7
<1>9. v.op = r /\ v.id = id /\ v.at = Begins[r] /\ v.ok = FALSE /\ id # NoCommand
    BY <1>3 DEF NoCommand
<1> HIDE DEF id, r, v, c
<1>10. TypeInv'
    <2>1. \A u \in Threads :
             /\ worker'[u].id \in 0 .. id
             /\ worker'[u].op = "none" => worker'[u] = Idle
             /\ worker'[u].op # "none" => worker'[u].id # NoCommand
        BY <1>1, <1>3, <1>5, <1>8, <1>9 DEF TypeInv
    <2>2. \A u \in Threads \ {t} : worker'[u].id # id /\ worker'[u].id = worker[u].id
        BY <1>1, <1>3, <1>8 DEF TypeInv
    <2>3. \A u, x \in Threads :
             worker'[u].id = worker'[x].id /\ worker'[u].op # "none" => u = x
        BY <1>1, <1>8, <1>9, <2>2 DEF TypeInv
    <2>4. overlapped' \in BOOLEAN /\ crossed' \in BOOLEAN
        BY <1>7
    <2>5. acknowledged' \subseteq 1 .. id /\ madeBy' \in 0 .. id
        BY <1>1, <1>3, <1>7 DEF TypeInv
    <2> QED
        BY <1>1, <1>3, <1>4, <1>7, <1>8, <2>1, <2>3, <2>4, <2>5 DEF TypeInv
<1>11. \A u \in Threads : Own(worker[u])'
    <2>1. Own(worker[t])'
        BY <1>1, <1>3, <1>5, <1>7, <1>8, <1>9 DEF TypeInv, Own
    <2>2. \A u \in Threads \ {t} : Own(worker[u])'
        BY <1>1, <1>7, <1>8 DEF Own
    <2> QED
        BY <2>1, <2>2
<1>12. KeptInv'
    <2> SUFFICES ASSUME ~ crossed'
                 PROVE  /\ \A u, x \in Threads :
                              worker'[u].op \in Crossing /\ worker'[x].op \in Crossing => u = x
                        /\ Kept'
                        /\ \A u \in Threads : Creating(worker[u])' /\ Deleting(worker[u])'
        BY DEF KeptInv
    <2>1. ~ crossed /\ (r \in Crossing => \A u \in Threads \ {t} : worker[u].op \notin Crossing)
        BY <1>7, IdleWorker DEF Others, Crossing
    <2>2. /\ \A u, x \in Threads :
                worker[u].op \in Crossing /\ worker[x].op \in Crossing => u = x
          /\ Kept /\ \A u \in Threads : Creating(worker[u]) /\ Deleting(worker[u])
        BY <1>1, <2>1 DEF KeptInv
    <2>3. \A u, x \in Threads :
             worker'[u].op \in Crossing /\ worker'[x].op \in Crossing => u = x
        BY <1>8, <1>9, <2>1, <2>2
    <2>4. Kept'
        BY <1>7, <2>2 DEF Kept
    <2>5. acknowledged = {} => acknowledged' = {}
        OBVIOUS
    <2>6. \A u \in Threads \ {t} : Creating(worker[u])' /\ Deleting(worker[u])'
        BY <1>7, <1>8, <2>2, <2>5 DEF Creating, Succeeding, Deleting
    <2>7. Creating(worker[t])'
        BY <1>5, <1>8, <1>9 DEF Creating, Succeeding, Made
    <2>8. Deleting(worker[t])'
        BY <1>5, <1>8, <1>9 DEF Deleting
    <2> QED
        BY <2>3, <2>4, <2>6, <2>7, <2>8
<1>13. GoneInv'
    <2> SUFFICES ASSUME ~ overlapped'
                 PROVE  /\ \A u, x \in Threads :
                              worker'[u] # Idle /\ worker'[x] # Idle => u = x
                        /\ \A u \in Threads : Deleted(worker[u])' => disk' = {}
        BY DEF GoneInv
    <2>1. \A u \in Threads \ {t} : worker'[u] = Idle
        BY <1>7, <1>8 DEF Others
    <2>2. \A u \in Threads : ~ Deleted(worker[u])'
        BY <1>8, <1>9, <2>1, IdleWorker DEF Deleted
    <2> QED
        BY <2>1, <2>2
<1>14. ClientInv'
    <2>1. command' \in [Hosts -> Command] /\ command'[h] = c
        BY <1>1, <1>4, <1>6 DEF ClientInv
    <2>2. c.op = op /\ c.id = id /\ c.at = "wait"
        BY DEF c
    <2>3. \A u \in Threads : worker'[u].id = id => worker'[u].op = r
        BY <1>1, <1>3, <1>8, <1>9 DEF TypeInv
    <2>4. ASSUME NEW k \in Hosts
          PROVE  /\ command'[k].id \in 0 .. id
                 /\ Running(k)' => command'[k].id # NoCommand
                 /\ At(k, "wait")' =>
                       /\ command'[k].op \in DOMAIN RequestOf
                       /\ \A u \in Threads : worker'[u].id = command'[k].id =>
                             worker'[u].op = RequestOf[command'[k].op]
        <3>1. CASE k = h
            BY <1>3, <1>9, <2>1, <2>2, <2>3, <3>1 DEF Running, At, r
        <3>2. CASE k # h
            <4>1. command'[k] = command[k] /\ command[k].id \in 0 .. commands
                BY <1>1, <1>4, <3>2 DEF ClientInv
            <4>2. worker'[t].id # command[k].id
                BY <1>3, <1>8, <1>9, <4>1
            <4> QED
                BY <1>1, <1>3, <1>8, <4>1, <4>2 DEF ClientInv, Running, At
        <3> QED
            BY <3>1, <3>2
    <2>5. config' \in [Hosts -> 0 .. id] /\ failed' \subseteq 1 .. id /\ cron' \subseteq Hosts
        BY <1>1, <1>3 DEF ClientInv
    <2> QED
        BY <1>4, <2>1, <2>4, <2>5 DEF ClientInv
<1> QED
    BY <1>10, <1>11, <1>12, <1>13, <1>14 DEF IInv, ServerInv

(* The commands that stay on their machine.                                *)
LEMMA LocalStartInv ==
    ASSUME IInv, NEW h \in Hosts, SetDelete(h) \/ CronInstall(h) \/ CronRemove(h)
    PROVE  IInv'
<1>1. ServerInv /\ ClientInv /\ commands \in Nat
    BY DEF IInv, ServerInv, TypeInv
<1>2. /\ UNCHANGED <<serverVars, acknowledged, config, failed>>
      /\ commands' \in {commands, commands + 1}
    BY DEF SetDelete, CronInstall, CronRemove, Begin
<1>3. ServerInv'
    BY <1>1, <1>2, ServerAlone
<1>4. CASE SetDelete(h)
    <2> DEFINE c == [op |-> "delete", id |-> commands + 1, at |-> "config"]
    <2>1. /\ commands' = commands + 1 /\ command' = [command EXCEPT ![h] = c]
          /\ cron' = cron /\ worker' = worker
        BY <1>4 DEF SetDelete, Begin, serverVars
    <2>2. c \in Command
        BY <1>1 DEF Command
    <2>3. /\ 0 .. commands \subseteq 0 .. commands' /\ 1 .. commands \subseteq 1 .. commands'
          /\ commands + 1 \in 0 .. commands' /\ commands + 1 # 0
        BY <1>1, <2>1
    <2>4. command' \in [Hosts -> Command] /\ \A k \in Hosts : command'[k] = command[k] \/ command'[k] = c
        BY <1>1, <2>1, <2>2 DEF ClientInv
    <2>5. ClientInv'
        BY <1>1, <1>2, <2>1, <2>3, <2>4 DEF ClientInv, Running, At, NoCommand
    <2> QED
        BY <1>3, <2>5 DEF IInv
<1>5. CASE CronInstall(h) \/ CronRemove(h)
    <2>1. cron' \subseteq Hosts /\ command' = command /\ commands' = commands /\ worker' = worker
        BY <1>1, <1>5 DEF ClientInv, CronInstall, CronRemove, serverVars
    <2>2. ClientInv'
        BY <1>1, <1>2, <2>1 DEF ClientInv, Running, At
    <2> QED
        BY <1>3, <2>2 DEF IInv
<1> QED
    BY <1>4, <1>5

(* An answer that arrives is the one of the command's own request.         *)
LEMMA ReplyInv ==
    ASSUME IInv, NEW t \in Threads, Reply(t)
    PROVE  IInv'
<1>1. /\ TypeInv /\ KeptInv /\ GoneInv /\ ClientInv /\ commands \in Nat
      /\ \A u \in Threads : Own(worker[u])
      /\ worker[t].at = "answer" /\ worker' = [worker EXCEPT ![t] = Idle]
      /\ disk' = disk /\ madeBy' = madeBy /\ config' = config /\ cron' = cron
      /\ overlapped' = overlapped /\ crossed' = crossed
      /\ commands' = commands
    BY DEF IInv, ServerInv, TypeInv, Reply, historyVars
<1>2. /\ worker' \in [Threads -> Worker] /\ worker'[t] = Idle
      /\ \A u \in Threads \ {t} : worker'[u] = worker[u]
    BY <1>1, IdleWorker DEF TypeInv
<1>3. \A u \in Threads : Own(worker[u])'
    BY <1>1, <1>2, IdleWorker DEF Own
<1>4. GoneInv'
    BY <1>1, <1>2, IdleWorker DEF GoneInv, Deleted
<1>5. ASSUME acknowledged' \subseteq 1 .. commands
      PROVE  TypeInv'
    <2>1. \A u \in Threads : worker'[u] = worker[u] \/
             (worker'[u] = Idle /\ worker'[u].op = "none" /\ worker'[u].id = 0)
        BY <1>2, IdleWorker
    <2>2. \A u \in Threads :
             /\ worker'[u].id \in 0 .. commands
             /\ worker'[u].op = "none" => worker'[u] = Idle
             /\ worker'[u].op # "none" => worker'[u].id # NoCommand
        BY <1>1, <2>1 DEF TypeInv
    <2>3. \A u, x \in Threads :
             worker'[u].id = worker'[x].id /\ worker'[u].op # "none" => u = x
        BY <1>1, <2>1 DEF TypeInv, NoCommand
    <2> QED
        BY <1>1, <1>2, <1>5, <2>2, <2>3 DEF TypeInv
<1>6. CASE UNCHANGED <<command, failed, acknowledged>>
    <2>1. \A u \in Threads : ~ crossed => Creating(worker[u])' /\ Deleting(worker[u])'
        BY <1>1, <1>2, <1>6, IdleWorker DEF KeptInv, Creating, Succeeding, Deleting
    <2>2. KeptInv'
        BY <1>1, <1>2, <1>6, <2>1, IdleWorker DEF KeptInv, Kept, Crossing
    <2>3. TypeInv'
        BY <1>1, <1>5, <1>6 DEF TypeInv
    <2>4. ClientInv'
        BY <1>1, <1>2, <1>6, IdleWorker DEF ClientInv, Running, At, NoCommand
    <2> QED
        BY <1>3, <1>4, <2>2, <2>3, <2>4 DEF IInv, ServerInv
<1>7. CASE \E h \in Hosts : At(h, "wait") /\ command[h].id = worker[t].id
    <2>1. PICK h \in Hosts :
              /\ At(h, "wait") /\ command[h].id = worker[t].id
              /\ IF worker[t].ok THEN Proceed(h, AfterAnswer[command[h].op]) ELSE End(h)
              /\ FailedIf(h, ~ worker[t].ok)
              /\ acknowledged' = IF worker[t].ok /\ command[h].op = "create"
                                 THEN acknowledged \cup {command[h].id}
                                 ELSE acknowledged
        BY <1>7 DEF Reply
    <2>2. /\ Running(h) /\ command[h].op \in DOMAIN RequestOf
          /\ worker[t].op = RequestOf[command[h].op]
          /\ command[h].id \in 1 .. commands
        BY <1>1, <2>1 DEF ClientInv, At, NoCommand
    <2>3. TypeInv'
        BY <1>1, <1>5, <2>1, <2>2 DEF TypeInv
    <2>4. KeptInv'
        <3> SUFFICES ASSUME ~ crossed
                     PROVE  /\ \A u, x \in Threads :
                                  worker'[u].op \in Crossing /\ worker'[x].op \in Crossing => u = x
                            /\ Kept'
                            /\ \A u \in Threads : Creating(worker[u])' /\ Deleting(worker[u])'
            BY <1>1 DEF KeptInv
        <3>1. /\ \A u, x \in Threads :
                    worker[u].op \in Crossing /\ worker[x].op \in Crossing => u = x
              /\ Kept /\ \A u \in Threads : Creating(worker[u]) /\ Deleting(worker[u])
            BY <1>1 DEF KeptInv
        <3>2. \A u, x \in Threads :
                 worker'[u].op \in Crossing /\ worker'[x].op \in Crossing => u = x
            BY <1>2, <3>1, IdleWorker DEF Crossing
        <3>3. Creating(worker[t])' /\ Deleting(worker[t])'
            BY <1>2, IdleWorker DEF Creating, Succeeding, Deleting
        <3>4. CASE worker[t].ok /\ command[h].op = "create"
            <4>1. /\ worker[t].op = "create" /\ acknowledged' = {worker[t].id}
                  /\ madeBy = worker[t].id /\ {"set", "C", "O", "metadata"} \subseteq disk
                BY <1>1, <2>1, <2>2, <3>1, <3>4, RequestValues DEF Creating, Succeeding, Made
            <4>2. Kept'
                BY <1>1, <4>1 DEF Kept
            <4>3. \A u \in Threads \ {t} : worker'[u].op \notin Crossing
                BY <1>2, <3>1, <4>1 DEF Crossing
            <4>4. \A u \in Threads \ {t} : Creating(worker[u])' /\ Deleting(worker[u])'
                BY <4>3 DEF Creating, Succeeding, Deleting, Crossing
            <4> QED
                BY <3>2, <3>3, <4>2, <4>4
        <3>5. CASE ~ (worker[t].ok /\ command[h].op = "create")
            <4>1. acknowledged' = acknowledged
                BY <2>1, <3>5
            <4>2. Kept' /\ \A u \in Threads \ {t} : Creating(worker[u])' /\ Deleting(worker[u])'
                BY <1>1, <1>2, <3>1, <4>1 DEF Kept, Creating, Succeeding, Deleting
            <4> QED
                BY <3>2, <3>3, <4>2
        <3> QED
            BY <3>4, <3>5
    <2>5. failed' \subseteq 1 .. commands
        BY <1>1, <2>1, <2>2, FailedTyped
    <2>6. End(h) \/ \E at \in {"config", "cron", "rsync"} : Proceed(h, at)
        BY <2>1, <2>2, RequestValues
    <2>7. /\ \A u \in Threads : worker'[u] = worker[u] \/ worker'[u].id = NoCommand
          /\ config' \in [Hosts -> 0 .. commands] /\ cron' \subseteq Hosts
        BY <1>1, <1>2, IdleWorker DEF ClientInv, NoCommand
    <2>8. ClientInv'
        BY <1>1, <1>2, <2>2, <2>5, <2>6, <2>7, ClientGoesOn
    <2> QED
        BY <1>3, <1>4, <2>3, <2>4, <2>8 DEF IInv, ServerInv
<1> QED
    BY <1>6, <1>7 DEF Reply

-----------------------------------------------------------------------------
(* The theorems                                                            *)

LEMMA StepInv == IInv /\ [Next]_vars => IInv'
<1> SUFFICES ASSUME IInv, [Next]_vars PROVE IInv'
    OBVIOUS
<1>1. ASSUME NEW t \in Threads, Work(t) \/ Reply(t)
      PROVE  IInv'
    BY <1>1, WorkInv, ReplyInv
<1>2. ASSUME NEW h \in Hosts, Start(h)
      PROVE  IInv'
    <2>1. CASE SetCreate(h)
        BY <2>1, SendInv, RequestValues DEF SetCreate
    <2>2. CASE SetDeleteRemote(h)
        BY <2>2, SendInv, RequestValues DEF SetDeleteRemote
    <2>3. CASE BackupRun(h)
        BY <2>3, SendInv, RequestValues DEF BackupRun
    <2>4. CASE SetDelete(h) \/ CronInstall(h) \/ CronRemove(h)
        BY <2>4, LocalStartInv
    <2> QED
        BY <1>2, <2>1, <2>2, <2>3, <2>4 DEF Start
<1>3. ASSUME NEW h \in Hosts, Continue(h) \/ Finish(h) \/ Crash(h)
      PROVE  IInv'
    BY <1>3, ContinueInv, RsyncInv DEF Continue, Finish
<1>4. CASE Stop
    BY <1>4, StopInv
<1>5. CASE UNCHANGED vars
    <2>1. UNCHANGED <<serverVars, clientVars>>
        BY <1>5 DEF vars
    <2>2. ServerInv'
        BY <2>1, ServerAlone DEF IInv, clientVars
    <2>3. ClientInv'
        BY <2>1 DEF serverVars, clientVars, IInv, ClientInv, Running, At
    <2> QED
        BY <2>2, <2>3 DEF IInv
<1> QED
    BY <1>1, <1>2, <1>3, <1>4, <1>5 DEF Next

(* Every state reachable from Init satisfies the invariant, whatever       *)
(* fails, whoever gives up and however many requests are handled at once.  *)
THEOREM Invariance == Spec => []IInv
<1>1. Init => IInv
    BY InitInv
<1>2. IInv /\ [Next]_vars => IInv'
    BY StepInv
<1> QED
    BY <1>1, <1>2, PTL DEF Spec

(* Every variable of the life of a set has its type, and the directory     *)
(* that is there was made by a command (create_set, delete_set,            *)
(* prepare_backup, each in threads of its own).                            *)
THEOREM LifecycleTyped == Spec => []TypeOK
<1>1. Spec => []IInv
    BY Invariance
<1>2. IInv => TypeOK
    BY Consequences
<1> QED
    BY <1>1, <1>2, PTL

(* A set whose creation was acknowledged stays whole until its deletion is *)
(* asked for, unless two creations or deletions have been handled at once; *)
(* backups may overlap with it (create_set, delete_set, prepare_backup).   *)
THEOREM AcknowledgedSetKept == Spec => []AcknowledgedKept
<1>1. Spec => []IInv
    BY Invariance
<1>2. IInv => AcknowledgedKept
    BY Consequences
<1> QED
    BY <1>1, <1>2, PTL

(* A creation answered with an error leaves no directory of its own, if    *)
(* what it removed could be removed, whatever the other threads do         *)
(* meanwhile (create_set's clean-up).                                      *)
THEOREM RejectedCreateCleansUp == Spec => []RejectedLeavesNothing
<1>1. Spec => []IInv
    BY Invariance
<1>2. IInv => RejectedLeavesNothing
    BY Consequences
<1> QED
    BY <1>1, <1>2, PTL

(* A deletion answered ok has removed everything, as long as no two        *)
(* requests for the set have been handled at once (delete_set).            *)
THEOREM DeleteIsComplete == Spec => []DeletedIsGone
<1>1. Spec => []IInv
    BY Invariance
<1>2. IInv => DeletedIsGone
    BY Consequences
<1> QED
    BY <1>1, <1>2, PTL

=============================================================================
