------------------------- MODULE DaemonRecordProofs -------------------------
(***************************************************************************)
(* Theorems about Daemon, continued: what is recorded of a backup that was *)
(* reported complete, and that the metadata file and set.log agree.        *)
(***************************************************************************)
EXTENDS DaemonProofs

-----------------------------------------------------------------------------
(* The inductive invariant                                                 *)

(* A run is at one place.                                                  *)
Sent(t, run) ==
    \/ Busy(t) /\ worker[t].run = run
    \/ \E i \in DOMAIN link[t].requests : link[t].requests[i].run = run

PlaceInv ==
    /\ \A t, u \in Threads : \A run \in 1 .. runs :
          Sent(t, run) /\ Sent(u, run) => t = u
    /\ \A c \in Clients, t \in Threads :
          client[c].at # "idle" /\ Sent(t, client[c].run) => client[c].on = t
    /\ \A c, d \in Clients :
          client[c].at # "idle" /\ client[d].at # "idle"
             /\ client[c].run = client[d].run => c = d

Opened(entries, run)   == entries # <<>> /\ entries[1].started = run
Recorded(entries, run) ==
    \E i \in DOMAIN entries : entries[i].started = run /\ entries[i].finished = run

(* The entry of a run is the newest, and not finished.                     *)
Fresh(entries, run) == Opened(entries, run) /\ ~ Finished(entries[1])

(* A run was told that it may transfer its files, and transfers them.      *)
Prepared(c, t) ==
    client[c].on = t /\ client[c].at = "prepare" /\ Answered(c, t, TRUE)
Transferring(c) == client[c].at = "rsync" \/ \E t \in Threads : Prepared(c, t)

(* The latest run has asked to finish.                                     *)
Finishing == \E t \in Threads : link[t].requests = << Request("complete", runs) >>

(* Then its entry is fresh, and nobody is at work.                         *)
TransferInv ==
    /\ \A c \in Clients : Transferring(c) => Fresh(History, client[c].run)
    /\ Finishing => Fresh(History, runs)
    /\ Finishing \/ (\E c \in Clients : Transferring(c)) => \A t \in Threads : ~ Busy(t)

(* A handler that has begun, or has to finish, an entry finds it newest.   *)
HandlerInv ==
    \A t \in Threads :
        /\ worker[t].op = "complete" => Opened(History, worker[t].run)
        /\ worker[t].op = "prepare" /\ worker[t].at = "answer" /\ worker[t].ok
              => Fresh(History, worker[t].run)
        /\ worker[t].op = "prepare" /\ worker[t].at = "write"
              /\ worker[t].task = "started" => Fresh(History, worker[t].run)
        /\ worker[t].op = "complete" /\ worker[t].at \in {"write", "answer"}
              => Recorded(History, worker[t].run)

(* A run that has its answer, or was reported complete, is recorded.       *)
ReportInv ==
    /\ \A c \in Clients :
          client[c].at = "complete" /\ Answers(c) # <<>>
              => Recorded(History, client[c].run)
    /\ \A run \in done : Recorded(History, run)

RecordInv == Undisturbed => TransferInv /\ HandlerInv /\ ReportInv

(* The metadata file is ahead of the log while the log is being read and   *)
(* opened to follow.                                                       *)
Ahead(t) == worker[t].at \in {"load", "open"} /\ worker[t].task # "archived"
Match(entries) ==
    IF entries = <<>> THEN metadata = NoMetadata
    ELSE Tells(entries[1].started, Finished(entries[1]))

MetadataInv ==
    Undisturbed =>
        /\ \A t \in Threads : Ahead(t) =>
              Tells(worker[t].run, worker[t].task = "finished")
        /\ (\A t \in Threads : ~ Ahead(t)) => Match(History)

-----------------------------------------------------------------------------
(* Where a run is                                                          *)

LEMMA OneIsSome ==
    ASSUME NEW message
    PROVE  << message >> # <<>>
OBVIOUS

(* A request names a run that was begun; a busy thread has no other.       *)
LEMMA SentIs ==
    ASSUME BasicInv, NEW t \in Threads, NEW run, Sent(t, run)
    PROVE  /\ run \in 1 .. runs
           /\ \/ Busy(t) /\ worker[t].run = run /\ link[t].requests = <<>>
              \/ /\ ~ Busy(t)
                 /\ \E op \in {"prepare", "complete"} :
                       link[t].requests = << Request(op, run) >>
<1>1. CASE Busy(t)
    <2>1. link[t].requests = <<>>
        BY <1>1 DEF BasicInv, LinkInv
    <2>2. worker[t].run = run
        BY <1>1, <2>1 DEF Sent
    <2>3. worker[t].run \in 1 .. runs
        BY <1>1 DEF BasicInv, WorkerInv, WorkerOK, Busy
    <2> QED
        BY <1>1, <2>1, <2>2, <2>3
<1>2. CASE ~ Busy(t)
    <2>1. PICK i \in DOMAIN link[t].requests : link[t].requests[i].run = run
        BY <1>2 DEF Sent
    <2>2. link[t].requests # <<>>
        BY <2>1
    <2>3. PICK op \in {"prepare", "complete"}, r \in 1 .. runs :
            link[t].requests = << Request(op, r) >>
        BY <2>2 DEF BasicInv, LinkInv
    <2>4. i = 1 /\ r = run
        BY <2>1, <2>3 DEF Request
    <2> QED
        BY <1>2, <2>3, <2>4
<1> QED
    BY <1>1, <1>2

(* A step that sends no run anywhere new.                                  *)
LEMMA PlaceFrame ==
    ASSUME PlaceInv, runs' = runs,
           \A t \in Threads : \A run : Sent(t, run)' => Sent(t, run),
           \A c \in Clients : client'[c].at # "idle" =>
              /\ client[c].at # "idle" /\ client'[c].run = client[c].run
              /\ \/ client'[c].on = client[c].on
                 \/ \A t \in Threads : ~ Sent(t, client[c].run)'
    PROVE  PlaceInv'
<1>1. ASSUME NEW t \in Threads, NEW u \in Threads, NEW run \in 1 .. runs,
             Sent(t, run)', Sent(u, run)'
      PROVE  t = u
    BY <1>1 DEF PlaceInv
<1>2. ASSUME NEW c \in Clients, NEW t \in Threads,
             client'[c].at # "idle", Sent(t, client[c].run)'
      PROVE  client'[c].on = t
    <2>1. /\ client[c].at # "idle" /\ client'[c].run = client[c].run
          /\ client'[c].on = client[c].on
        BY <1>2
    <2>2. Sent(t, client[c].run)
        <3>1. PICK run : run = client[c].run
            OBVIOUS
        <3>2. Sent(t, run)'
            BY <1>2, <2>1, <3>1 DEF Sent
        <3>3. Sent(t, run)
            BY <3>2
        <3> QED
            BY <3>1, <3>3 DEF Sent
    <2> QED
        BY <2>1, <2>2 DEF PlaceInv
<1>3. ASSUME NEW c \in Clients, NEW d \in Clients,
             client'[c].at # "idle", client'[d].at # "idle",
             client'[c].run = client'[d].run
      PROVE  c = d
    BY <1>3 DEF PlaceInv
<1> QED
    BY <1>1, <1>2, <1>3 DEF PlaceInv, Sent

LEMMA SentStays ==
    ASSUME NEW t \in Threads, NEW run,
           worker'[t].op = worker[t].op, worker'[t].run = worker[t].run,
           link'[t].requests = link[t].requests
    PROVE  Sent(t, run)' <=> Sent(t, run)
BY DEF Sent, Busy

LEMMA SentNowhere ==
    ASSUME NEW t \in Threads, NEW run, ~ Busy(t)', link'[t].requests = <<>>
    PROVE  ~ Sent(t, run)'
BY DEF Sent

LEMMA SentInRequest ==
    ASSUME NEW t \in Threads, NEW run, NEW op, NEW r,
           ~ Busy(t)', link'[t].requests = << Request(op, r) >>
    PROVE  Sent(t, run)' <=> run = r
BY DEF Sent, Request

(* A thread at work on the request, and a thread that ends.                *)
LEMMA ServePlace ==
    ASSUME CoreInv, PlaceInv, NEW t \in Threads, Serve(t)
    PROVE  PlaceInv'
<1>1. archives \in Nat /\ BasicInv
    BY DEF CoreInv, BasicInv, TypeOK
<1>2. UNCHANGED <<client, runs>>
    BY DEF Serve, Receive, Send, Close
<1>3. CASE Handle(t) /\ UNCHANGED <<daemon, link, client, runs, done, overlapped>>
    <2>1. HandlerStep(t)
        BY <1>1, <1>3, HandleStep
    <2>2. \A u \in Threads : worker'[u].op = worker[u].op /\ worker'[u].run = worker[u].run
        BY <2>1 DEF HandlerStep, Moves
    <2>3. \A u \in Threads : \A run : Sent(u, run)' => Sent(u, run)
        BY <1>3, <2>2, SentStays
    <2> QED
        BY <1>2, <2>3, PlaceFrame
<1>4. CASE Receive(t)
    <2>1. PICK op \in {"prepare", "complete"}, r \in 1 .. runs :
            /\ link[t].requests = << Request(op, r) >>
            /\ ~ Busy(t) /\ worker[t].at = "recv"
            /\ worker' \in [Threads -> Worker]
            /\ worker'[t] = [op |-> op, run |-> r, at |-> Starts[op],
                             task |-> "started", entries |-> <<>>,
                             archive |-> NoDiff, ok |-> FALSE]
            /\ link' \in [Threads -> Link]
            /\ link'[t].peer = link[t].peer
            /\ link'[t].answers = link[t].answers /\ link'[t].requests = <<>>
            /\ \A u \in Threads \ {t} : link'[u] = link[u] /\ worker'[u] = worker[u]
        BY <1>4, ReceiveEffect
    <2>2. ASSUME NEW run, Sent(t, run)' PROVE Sent(t, run)
        <3>1. run = r
            BY <2>1, <2>2 DEF Sent
        <3> QED
            BY <2>1, <3>1 DEF Sent, Request
    <2>3. \A u \in Threads : \A run : Sent(u, run)' => Sent(u, run)
        BY <2>1, <2>2, SentStays
    <2> QED
        BY <1>2, <2>3, PlaceFrame
<1>5. CASE Send(t) \/ Close(t)
    <2>1. /\ ~ Busy(t)' /\ link'[t].requests = <<>>
          /\ \A u \in Threads \ {t} : link'[u] = link[u] /\ worker'[u] = worker[u]
        BY <1>1, <1>5, SendEffect, CloseEffect, IdleWorkers DEF Busy, Closed
    <2>2. \A u \in Threads : \A run : Sent(u, run)' => Sent(u, run)
        BY <2>1, SentStays, SentNowhere
    <2> QED
        BY <1>2, <2>2, PlaceFrame
<1> QED
    BY <1>3, <1>4, <1>5 DEF Serve

LEMMA ExitPlace ==
    ASSUME CoreInv, PlaceInv, Exit
    PROVE  PlaceInv'
<1>1. archives \in Nat
    BY DEF CoreInv, BasicInv, TypeOK
<1>2. /\ \A t \in Threads : worker'[t] = NoThread /\ link'[t] = Closed
      /\ \A c \in Clients : client'[c].at = client[c].at /\ client'[c].run = client[c].run
      /\ runs' = runs
    BY ExitEffect
<1>3. \A t \in Threads : \A run : ~ Sent(t, run)'
    BY <1>1, <1>2, IdleWorkers, SentNowhere DEF Busy, Closed
<1>4. \A c \in Clients : \A t \in Threads : ~ Sent(t, client[c].run)'
    BY <1>2, <1>3 DEF Sent
<1> QED
    BY <1>2, <1>3, <1>4, PlaceFrame

(* The new run is in the request on the new connection, and nowhere else.  *)
LEMMA BeginPlace ==
    ASSUME CoreInv, PlaceInv, NEW c \in Clients, Begin(c)
    PROVE  PlaceInv'
<1>1. archives \in Nat /\ BasicInv /\ runs \in Nat /\ runs' = runs + 1
    BY DEF CoreInv, BasicInv, TypeOK, Begin
<1>2. PICK new \in Threads :
        /\ client' \in [Clients -> Client]
        /\ client'[c] = [at |-> "prepare", run |-> runs + 1, on |-> new]
        /\ \A d \in Clients \ {c} : client'[d] = client[d]
        /\ link' \in [Threads -> Link]
        /\ link'[new] = [peer |-> TRUE, answers |-> <<>>,
                         requests |-> << Request("prepare", runs + 1) >>]
        /\ worker' \in [Threads -> Worker] /\ worker'[new] = Waiting
        /\ \A t \in Threads \ {new} : link'[t] = link[t] /\ worker'[t] = worker[t]
    BY BeginEffect
<1>3. \A run : Sent(new, run)' <=> run = runs + 1
    BY <1>1, <1>2, IdleWorkers, SentInRequest DEF Busy
<1>4. ASSUME NEW t \in Threads \ {new}, NEW run
      PROVE  /\ Sent(t, run)' <=> Sent(t, run)
             /\ Sent(t, run) => run \in 1 .. runs
    BY <1>1, <1>2, SentStays, SentIs
<1>5. ASSUME NEW t \in Threads, NEW u \in Threads, NEW run, Sent(t, run)', Sent(u, run)'
      PROVE  t = u
    <2>1. CASE run = runs + 1
        BY <1>1, <1>4, <1>5, <2>1
    <2>2. CASE run # runs + 1
        <3>1. t # new /\ u # new
            BY <1>3, <1>5, <2>2
        <3>2. Sent(t, run) /\ Sent(u, run) /\ run \in 1 .. runs
            BY <1>4, <1>5, <3>1
        <3> QED
            BY <3>2 DEF PlaceInv
    <2> QED
        BY <2>1, <2>2
<1>6. \A d \in Clients \ {c} : client[d].at # "idle" => client[d].run \in 1 .. runs
    BY DEF CoreInv, ClientInv
<1>7. ASSUME NEW d \in Clients, NEW t \in Threads, NEW run, run = client'[d].run,
             client'[d].at # "idle", Sent(t, run)'
      PROVE  client'[d].on = t
    <2>1. CASE d = c
        BY <1>1, <1>2, <1>4, <1>7, <2>1
    <2>2. CASE d # c
        <3>1. run \in 1 .. runs /\ client'[d] = client[d]
            BY <1>2, <1>6, <1>7, <2>2
        <3>2. t # new
            BY <1>1, <1>3, <1>7, <3>1
        <3>3. Sent(t, run)
            BY <1>4, <1>7, <3>2
        <3>4. Sent(t, client[d].run)
            BY <1>7, <3>1, <3>3
        <3> QED
            BY <1>7, <3>1, <3>4 DEF PlaceInv
    <2> QED
        BY <2>1, <2>2
<1>8. ASSUME NEW d \in Clients, NEW e \in Clients, client'[d].at # "idle",
             client'[e].at # "idle", client'[d].run = client'[e].run
      PROVE  d = e
    <2>1. CASE d # c /\ e # c
        BY <1>2, <1>8, <2>1 DEF PlaceInv
    <2>2. CASE d = c /\ e # c
        BY <1>1, <1>2, <1>6, <1>8, <2>2
    <2>3. CASE d # c /\ e = c
        BY <1>1, <1>2, <1>6, <1>8, <2>3
    <2> QED
        BY <2>1, <2>2, <2>3
<1>9. \A d \in Clients, t \in Threads :
        client'[d].at # "idle" /\ Sent(t, client[d].run)' => client'[d].on = t
    <2> SUFFICES ASSUME NEW d \in Clients, NEW t \in Threads, client'[d].at # "idle",
                        Sent(t, client[d].run)'
                 PROVE  client'[d].on = t
        OBVIOUS
    <2>1. PICK run : run = client'[d].run
        OBVIOUS
    <2>2. Sent(t, run)'
        BY <2>1 DEF Sent
    <2> QED
        BY <1>7, <2>1, <2>2
<1> QED
    BY <1>5, <1>8, <1>9 DEF PlaceInv

(* The run of a client that goes on is on the client's connection.         *)
LEMMA NotifyPlace ==
    ASSUME CoreInv, PlaceInv, NEW c \in Clients, NotifyComplete(c),
           client[c].on \in Threads
    PROVE  PlaceInv'
<1>1. /\ runs' = runs /\ worker' = worker
    BY DEF NotifyComplete, serverVars, fileVars
<1>2. PICK t \in Threads :
        /\ client[c].on = t /\ Advances(c, "complete")
        /\ Silent(t)
        /\ link' \in [Threads -> Link]
        /\ link'[t].peer = link[t].peer
        /\ link'[t].requests = << Request("complete", client[c].run) >>
        /\ link'[t].answers = <<>>
        /\ \A u \in Threads \ {t} : link'[u] = link[u]
    BY NotifyEffect
<1>3. /\ client[c].at = "rsync"
      /\ \A d \in Clients : client'[d].run = client[d].run /\ client'[d].on = client[d].on
      /\ \A d \in Clients : client'[d].at # "idle" => client[d].at # "idle"
    BY <1>2 DEF NotifyComplete, Advances
<1>4. \A run : Sent(t, run)' <=> run = client[c].run
    BY <1>1, <1>2, SentInRequest DEF Busy, Silent
<1>5. \A u \in Threads \ {t} : \A run : Sent(u, run)' <=> Sent(u, run)
    BY <1>1, <1>2, SentStays
<1>6. \A u \in Threads : Sent(u, client[c].run) => u = t
    BY <1>2, <1>3 DEF PlaceInv
<1>7. ASSUME NEW u \in Threads, NEW v \in Threads, NEW run \in 1 .. runs,
             Sent(u, run)', Sent(v, run)'
      PROVE  u = v
    <2>1. CASE run = client[c].run
        BY <1>5, <1>6, <1>7, <2>1
    <2>2. CASE run # client[c].run
        <3>1. Sent(u, run) /\ Sent(v, run)
            BY <1>4, <1>5, <1>7, <2>2
        <3> QED
            BY <3>1 DEF PlaceInv
    <2> QED
        BY <2>1, <2>2
<1>8. ASSUME NEW d \in Clients, NEW u \in Threads, NEW run, run = client[d].run,
             client'[d].at # "idle", Sent(u, run)'
      PROVE  client[d].on = u
    <2>1. CASE u = t
        <3>1. client[d].run = client[c].run
            BY <1>4, <1>8, <2>1
        <3>2. d = c
            BY <1>3, <1>8, <3>1 DEF PlaceInv
        <3> QED
            BY <1>2, <2>1, <3>2
    <2>2. CASE u # t
        <3>1. Sent(u, client[d].run)
            BY <1>5, <1>8, <2>2
        <3> QED
            BY <1>3, <1>8, <3>1 DEF PlaceInv
    <2> QED
        BY <2>1, <2>2
<1>9. ASSUME NEW d \in Clients, NEW u \in Threads, client'[d].at # "idle",
             Sent(u, client[d].run)'
      PROVE  client'[d].on = u
    <2>1. PICK run : run = client[d].run
        OBVIOUS
    <2>2. Sent(u, run)'
        BY <1>3, <1>9, <2>1 DEF Sent
    <2> QED
        BY <1>3, <1>8, <1>9, <2>1, <2>2
<1>10. \A d, e \in Clients :
         client'[d].at # "idle" /\ client'[e].at # "idle"
            /\ client'[d].run = client'[e].run => d = e
    BY <1>3 DEF PlaceInv
<1> QED
    BY <1>1, <1>7, <1>9, <1>10 DEF PlaceInv

LEMMA RunPlace ==
    ASSUME CoreInv, PlaceInv, NEW c \in Clients, Run(c)
    PROVE  PlaceInv'
<1>1. runs' = runs /\ worker' = worker
    BY DEF Run, TakePrepared, NotifyComplete, TakeCompleted, GiveUp, ConnectionLost,
       RsyncFails, serverVars, fileVars
<1>2. CASE End(c)
    <2>1. /\ client'[c] = Idle /\ \A d \in Clients \ {c} : client'[d] = client[d]
          /\ \A t \in Threads : link'[t].requests = link[t].requests
        BY <1>2, EndEffect
    <2>2. \A t \in Threads : \A run : Sent(t, run)' => Sent(t, run)
        BY <1>1, <2>1, SentStays
    <2>3. \A d \in Clients : client'[d].at # "idle" =>
             client[d].at # "idle" /\ client'[d] = client[d]
        BY <2>1 DEF Idle
    <2> QED
        BY <1>1, <2>2, <2>3, PlaceFrame
<1>3. CASE client[c].at = "prepare" /\ Answers(c) # <<>> /\ Take(c, "rsync")
    <2>1. PICK t \in Threads :
            /\ client[c].on = t /\ Advances(c, "rsync")
            /\ Answered(c, t, Head(Answers(c)).ok)
            /\ link' \in [Threads -> Link]
            /\ link'[t].peer = link[t].peer
            /\ link'[t].requests = <<>> /\ link'[t].answers = <<>>
            /\ \A u \in Threads \ {t} : link'[u] = link[u]
        BY <1>3, TakeEffect
    <2>2. \A u \in Threads : link'[u].requests = link[u].requests
        BY <2>1 DEF Answered
    <2>3. \A u \in Threads : \A run : Sent(u, run)' => Sent(u, run)
        BY <1>1, <2>2, SentStays
    <2>4. \A d \in Clients : client'[d].at # "idle" =>
             /\ client[d].at # "idle" /\ client'[d].run = client[d].run
             /\ client'[d].on = client[d].on
        BY <1>3, <2>1 DEF Advances
    <2> QED
        BY <1>1, <2>3, <2>4, PlaceFrame
<1>4. CASE NotifyComplete(c) /\ client[c].on \in Threads
    BY <1>4, NotifyPlace
<1> QED
    BY <1>2, <1>3, <1>4 DEF Run, TakePrepared, NotifyComplete, TakeCompleted, GiveUp,
       ConnectionLost, RsyncFails

LEMMA StepPlace == CoreInv /\ PlaceInv /\ [Next]_vars => PlaceInv'
<1> SUFFICES ASSUME CoreInv, PlaceInv, [Next]_vars PROVE PlaceInv'
    OBVIOUS
<1>1. CASE Stop \/ Start \/ (\E c \in Clients : RsyncDeletes(c)) \/ UNCHANGED vars
    BY <1>1 DEF Stop, Start, RsyncDeletes, vars, fileVars, PlaceInv, Sent, Busy
<1> QED
    BY <1>1, BeginPlace, RunPlace, ServePlace, ExitPlace DEF Next

LEMMA InitPlace == Init => PlaceInv
<1> SUFFICES ASSUME Init PROVE PlaceInv
    OBVIOUS
<1>1. \A t \in Threads : worker[t] = NoThread /\ link[t] = Closed
    BY DEF Init, FileInit
<1>2. \A t \in Threads : \A run : ~ Sent(t, run)
    BY <1>1 DEF Sent, Busy, NoThread, Closed
<1>3. \A c \in Clients : client[c].at = "idle"
    BY DEF Init, Idle
<1> QED
    BY <1>2, <1>3 DEF PlaceInv

-----------------------------------------------------------------------------
(* What is recorded stays recorded                                         *)

(* A rewriting keeps what is recorded; one that adds the entry of a run    *)
(* makes it the newest, and one that finishes the run records it, where    *)
(* the newest entry is the run's.                                          *)
LEMMA RewrittenRecords ==
    ASSUME BasicInv, NEW t \in Threads, worker[t].at \in Rewriting,
           NEW found \in Seq(Entry),
           worker[t].task = "finished" => Opened(found, worker[t].run),
           NEW new, new = Rewritten(worker[t], found)
    PROVE  /\ \A run : Recorded(found, run) => Recorded(new, run)
           /\ worker[t].task # "started" =>
                 \A run : Opened(found, run) => Opened(new, run)
           /\ worker[t].task = "started"  => Fresh(new, worker[t].run)
           /\ worker[t].task = "finished" => Recorded(new, worker[t].run)
<1>1. /\ worker[t] \in Worker /\ worker[t].run \in Nat \ {0}
      /\ worker[t].task \in Tasks /\ worker[t].archive \in Nat
    BY BusySteps DEF Worker
<1>2. new \in Seq(Entry)
    BY RewrittenTypes
<1>3. /\ DOMAIN found = 1 .. Len(found) /\ DOMAIN new = 1 .. Len(new)
      /\ Len(found) \in Nat /\ Len(new) \in Nat
      /\ found # <<>> <=> Len(found) > 0
      /\ new # <<>> <=> Len(new) > 0
    BY <1>2, LenProperties, EmptySeq
<1>4. CASE worker[t].task = "archived"
    <2>0. new = UpdateForDiff(found, worker[t].archive)
        BY <1>4 DEF Rewritten
    <2>1. /\ Len(new) = Len(found)
          /\ \A i \in DOMAIN found : /\ new[i].started = found[i].started
                                     /\ new[i].finished = found[i].finished
        BY <1>1, <2>0, UpdateForDiffProperties
    <2> QED
        BY <1>3, <1>4, <2>1 DEF Recorded, Opened
<1>5. CASE worker[t].task = "started"
    <2>1. new = NewEntry(found, worker[t].run)
        BY <1>5 DEF Rewritten
    <2>2. /\ Len(new) = Len(found) + 1
          /\ new[1] = [number |-> MaxNumber(found) + 1, started |-> worker[t].run,
                       finished |-> Never, location |-> "C", diff |-> NoDiff]
          /\ \A i \in 2 .. Len(found) + 1 : new[i] = found[i - 1]
        BY <1>1, <2>1, NewEntryTypes
    <2>3. ASSUME NEW run, Recorded(found, run) PROVE Recorded(new, run)
        <3>1. PICK i \in 1 .. Len(found) :
                found[i].started = run /\ found[i].finished = run
            BY <1>3, <2>3 DEF Recorded
        <3>2. /\ i + 1 \in 2 .. Len(found) + 1 /\ i + 1 \in DOMAIN new
              /\ (i + 1) - 1 = i
            BY <1>3, <2>2
        <3>3. new[i + 1] = found[i]
            BY <2>2, <3>2
        <3> QED
            BY <3>1, <3>2, <3>3 DEF Recorded
    <2>4. Fresh(new, worker[t].run)
        BY <1>3, <2>2 DEF Fresh, Opened, Finished
    <2> QED
        BY <1>5, <2>3, <2>4
<1>6. CASE worker[t].task = "finished"
    <2>0. new = Finalize(found, worker[t].run)
        BY <1>6 DEF Rewritten
    <2>1. /\ Len(new) = Len(found)
          /\ \A i \in DOMAIN found :
                /\ new[i].started = found[i].started
                /\ new[i].finished = IF i = 1 THEN worker[t].run ELSE found[i].finished
        <3>1. worker[t].run \in Nat
            BY <1>1
        <3> QED
            BY <2>0, <3>1, FinalizeProperties
    <2>2. found # <<>> /\ found[1].started = worker[t].run /\ 1 \in DOMAIN found
        BY <1>3, <1>6 DEF Opened
    <2>3. ASSUME NEW run, Recorded(found, run) PROVE Recorded(new, run)
        BY <1>3, <2>1, <2>2, <2>3 DEF Recorded
    <2>4. Recorded(new, worker[t].run)
        BY <1>3, <2>1, <2>2 DEF Recorded
    <2> QED
        BY <1>3, <1>6, <2>1, <2>3, <2>4 DEF Opened
<1> QED
    BY <1>1, <1>4, <1>5, <1>6 DEF Tasks

LEMMA HistoryTypes ==
    ASSUME BasicInv
    PROVE  History \in Seq(Entry)
<1>1. file \in Seq(Entry) /\ \A t \in Threads : worker[t].entries \in Seq(Entry)
    BY DEF BasicInv, TypeOK, Worker
<1> QED
    BY <1>1 DEF History, Writer

(* A step of a handler, nothing harmed, keeps what is recorded, and what   *)
(* is newest unless it adds an entry.                                      *)
LEMMA HandleKeeps ==
    ASSUME CoreInv, SerialInv, HandlerInv, ~ overlapped, ~ harmed',
           NEW t \in Threads, Handle(t), UNCHANGED runs
    PROVE  /\ \A run : Recorded(History, run) => Recorded(History', run)
           /\ ~ (Open(t) /\ worker[t].task = "started") =>
                 \A run : Opened(History, run) => Opened(History', run)
           /\ Open(t) /\ worker[t].task = "started" => Fresh(History', worker[t].run)
           /\ Open(t) /\ worker[t].task = "finished" => Recorded(History', worker[t].run)
           /\ ~ Open(t) => History' = History
<1>1. BasicInv
    BY DEF CoreInv
<1>2. CASE Open(t)
    <2>1. /\ worker[t].at = "open" /\ worker[t].at \in Rewriting
          /\ History' = Rewritten(worker[t], History)
          /\ History \in Seq(Entry)
        BY <1>1, <1>2, OpenDetail, HandleHistory, HistoryTypes DEF Rewriting
    <2>2. worker[t].task = "finished" => Opened(History, worker[t].run)
        BY <1>1, <2>1, BusySteps DEF WorkerOK, HandlerInv
    <2>3. /\ \A run : Recorded(History, run) => Recorded(History', run)
          /\ worker[t].task # "started" =>
                \A run : Opened(History, run) => Opened(History', run)
          /\ worker[t].task = "started"  => Fresh(History', worker[t].run)
          /\ worker[t].task = "finished" => Recorded(History', worker[t].run)
        BY <1>1, <2>1, <2>2, RewrittenRecords
    <2> QED
        BY <1>2, <2>3
<1>3. CASE ~ Open(t)
    <2>1. History' = History
        BY <1>1, <1>3, HandleHistory DEF Handle, RewriteSetLog
    <2> QED
        BY <1>3, <2>1
<1> QED
    BY <1>2, <1>3

(* The handler at work, step by step.                                      *)
LEMMA HandleHandlers ==
    ASSUME CoreInv, SerialInv, HandlerInv, ~ overlapped, ~ harmed',
           NEW t \in Threads, Handle(t), UNCHANGED runs
    PROVE  HandlerInv'
<1>1. /\ BasicInv /\ HandlerStep(t)
      /\ worker[t] \in Worker /\ WorkerOK(worker[t]) /\ Busy(t)
    BY HandleStep, BusySteps DEF CoreInv, HandlerStep
<1>2. /\ worker'[t].op = worker[t].op /\ worker'[t].run = worker[t].run
      /\ \A u \in Threads \ {t} : worker'[u] = worker[u]
    BY <1>1 DEF HandlerStep, Moves
<1>3. \A u \in Threads \ {t} : worker'[u].op = "none"
    BY <1>1, <1>2 DEF SerialInv, Busy
<1>4. /\ ~ (Open(t) /\ worker[t].task = "started") =>
            \A run : Opened(History, run) => Opened(History', run)
      /\ Open(t) /\ worker[t].task = "started" => Fresh(History', worker[t].run)
      /\ Open(t) /\ worker[t].task = "finished" => Recorded(History', worker[t].run)
      /\ ~ Open(t) => History' = History
    BY HandleKeeps
<1>5. /\ worker[t].op = "complete" => Opened(History, worker[t].run)
      /\ worker[t].op = "prepare" /\ worker[t].at = "write"
            /\ worker[t].task = "started" => Fresh(History, worker[t].run)
      /\ worker[t].op = "complete" /\ worker[t].at \in {"write", "answer"}
            => Recorded(History, worker[t].run)
    BY DEF HandlerInv
<1>6. CASE Load(t)
    <2>1. /\ worker[t].at = "load"
          /\ Unchanged(worker[t].task, file) =>
                /\ worker'[t].at = After(worker[t].task)
                /\ worker'[t].ok = (worker[t].task # "archived")
                /\ worker'[t].task = "started" /\ worker'[t].entries = <<>>
          /\ ~ Unchanged(worker[t].task, file) => worker'[t].at = "open"
        BY <1>1, <1>6, LoadDetail
    <2>2. ~ Open(t) /\ worker[t].at \in Rewriting
        BY <2>1 DEF Open, Rewriting
    <2>3. History' = History /\ History = file
        BY <1>1, <1>4, <2>1, <2>2, AloneWrites
    <2>4. worker[t].op = "complete" <=> worker[t].task = "finished"
        BY <1>1, <2>2 DEF WorkerOK
    <2>5. worker[t].op = "complete" => file # <<>>
        BY <1>5, <2>3 DEF Opened
    <2>6. worker'[t].at \in {"open", "sync"}
        BY <2>1, <2>4, <2>5 DEF Unchanged, After
    <2> QED
        BY <1>2, <1>3, <1>5, <2>3, <2>6 DEF HandlerInv
<1>7. CASE Open(t)
    <2>1. /\ worker[t].at \in Rewriting /\ worker'[t].at = "write"
          /\ worker'[t].task = worker[t].task
        BY <1>1, <1>7, OpenDetail DEF Rewriting
    <2>2. worker[t].op = "complete" <=> worker[t].task = "finished"
        BY <1>1, <2>1 DEF WorkerOK
    <2> QED
        BY <1>2, <1>3, <1>4, <1>5, <1>7, <2>1, <2>2 DEF HandlerInv
<1>8. CASE Write(t) \/ WriteFails(t)
    <2>1. /\ worker[t].at = "write" /\ worker'[t].at = After(worker[t].task)
        BY <1>1, <1>8, WriteDetail
    <2>2. ~ Open(t) /\ worker[t].at \in Rewriting
        BY <2>1 DEF Open, Rewriting
    <2>3. History' = History
        BY <1>4, <2>2
    <2>4. worker[t].op = "complete" <=> worker[t].task = "finished"
        BY <1>1, <2>2 DEF WorkerOK
    <2>5. worker[t].task \in Tasks
        BY <1>1 DEF Worker
    <2>6. worker'[t].at # "write"
        BY <2>1 DEF After
    <2>7. worker'[t].op = "prepare" /\ worker'[t].at = "answer"
             => Fresh(History, worker[t].run)
        BY <1>2, <1>5, <2>1, <2>4, <2>5 DEF After, Tasks
    <2> QED
        BY <1>2, <1>3, <1>5, <2>1, <2>3, <2>6, <2>7 DEF HandlerInv
<1>9. CASE CreateDiff(t) \/ SyncSnapshots(t) \/ MetadataStarted(t) \/ MetadataFinished(t)
    <2>1. worker[t].at \notin Rewriting /\ worker'[t].at # "write"
        BY <1>1, <1>9, ToolSteps
    <2>2. ~ Open(t)
        BY <2>1 DEF Open, Rewriting
    <2>3. History' = History
        BY <1>4, <2>2
    <2>4. worker'[t].at = "answer" =>
             worker'[t].op = "prepare" /\ ~ worker'[t].ok
        BY <1>1, <1>2, <1>9, CreateDiffStep, SyncSnapshotsStep, MetadataStartedStep,
           MetadataFinishedStep DEF CreateDiff, SyncSnapshots, Doing
    <2> QED
        BY <1>2, <1>3, <1>5, <2>1, <2>3, <2>4 DEF HandlerInv
<1> QED
    BY <1>6, <1>7, <1>8, <1>9 DEF Handle, RewriteSetLog

LEMMA HandleRecord ==
    ASSUME CoreInv, SerialInv, RecordInv, NEW t \in Threads, Handle(t),
           UNCHANGED <<daemon, link, client, runs, done, overlapped>>
    PROVE  RecordInv'
<1> SUFFICES ASSUME ~ overlapped', ~ harmed'
             PROVE  (TransferInv /\ HandlerInv /\ ReportInv)'
    BY DEF RecordInv, Undisturbed
<1>1. HandlerStep(t)
    BY HandleStep DEF CoreInv
<1>2. ~ overlapped /\ ~ harmed /\ Busy(t)
    BY <1>1 DEF HandlerStep
<1>3. TransferInv /\ HandlerInv /\ ReportInv
    BY <1>2 DEF RecordInv, Undisturbed
<1>4. \A u \in Threads : Busy(u)' <=> Busy(u)
    BY <1>1 DEF HandlerStep, Moves, Busy
<1>5. TransferInv'
    <2>1. ~ Finishing /\ \A c \in Clients : ~ Transferring(c)
        BY <1>2, <1>3 DEF TransferInv
    <2>2. ~ Finishing' /\ \A c \in Clients : ~ Transferring(c)'
        BY <1>4, <2>1 DEF Transferring, Finishing, Prepared, Answered
    <2> QED
        BY <2>2 DEF TransferInv
<1>6. HandlerInv'
    BY <1>2, <1>3, HandleHandlers
<1>7. ReportInv'
    <2>1. \A run : Recorded(History, run) => Recorded(History', run)
        BY <1>2, <1>3, HandleKeeps
    <2>2. \A c \in Clients : Answers(c)' = Answers(c)
        BY DEF Answers
    <2> QED
        BY <1>3, <2>1, <2>2 DEF ReportInv
<1> QED
    BY <1>5, <1>6, <1>7

(* What a client does is seen by no other client.                          *)
LEMMA OthersStay ==
    ASSUME CoreInv, NEW c \in Clients, NEW d \in Clients \ {c},
           client'[d] = client[d], worker' = worker, runs' = runs,
           \A t \in Threads : t # client[c].on => link'[t] = link[t]
    PROVE  /\ Answers(d)' = Answers(d)
           /\ \A t \in Threads : Prepared(d, t)' => Prepared(d, t)
<1>1. client[d].on \in Threads => link'[client[d].on] = link[client[d].on]
    <2>1. client[d].on \in Threads => client[d].on # client[c].on
        BY DEF CoreInv, ClientInv
    <2> QED
        BY <2>1
<1>2. Answers(d)' = Answers(d)
    BY <1>1 DEF Answers
<1>3. ASSUME NEW t \in Threads, Prepared(d, t)' PROVE Prepared(d, t)
    <2>1. client[d].on = t
        BY <1>3 DEF Prepared
    <2>2. link'[t] = link[t]
        BY <1>1, <2>1
    <2> QED
        BY <1>3, <2>2 DEF Prepared, Answered, Busy
<1> QED
    BY <1>2, <1>3

(* A client that takes ok for an answer was sent ok.                       *)
LEMMA TakenIsOk ==
    ASSUME CoreInv, NEW c \in Clients, client[c].at = "prepare", Answers(c) # <<>>,
           Head(Answers(c)).ok
    PROVE  Answered(c, client[c].on, TRUE)
<1>1. PICK ok \in BOOLEAN : client[c].on \in Threads /\ Answered(c, client[c].on, ok)
    BY AnswerFound
<1>2. Answers(c) = << Reply(client[c].at, client[c].run, ok) >>
    BY <1>1 DEF Answers, Answered
<1>3. Head(Answers(c)) = Reply(client[c].at, client[c].run, ok)
    BY <1>2
<1>4. Head(Answers(c)).ok = ok
    BY <1>3 DEF Reply
<1>5. ok = TRUE
    BY <1>1, <1>4
<1> QED
    BY <1>1, <1>5

(* The end of a command, and what it leaves of the invariant.              *)
LEMMA EndRecord ==
    ASSUME CoreInv, NEW c \in Clients, End(c), UNCHANGED <<serverVars, runs>>,
           History' = History,
           TransferInv, ReportInv,
           \/ done' = done
           \/ Recorded(History, client[c].run) /\ done' = done \cup {client[c].run}
    PROVE  TransferInv' /\ ReportInv'
<1>1. /\ client'[c] = Idle /\ \A d \in Clients \ {c} : client'[d] = client[d]
      /\ \A t \in Threads : link'[t].requests = link[t].requests
      /\ \A t \in Threads : t # client[c].on => link'[t] = link[t]
      /\ worker' = worker
    BY EndEffect DEF serverVars, fileVars
<1>2. \A d \in Clients \ {c} :
         /\ Answers(d)' = Answers(d)
         /\ \A t \in Threads : Prepared(d, t)' => Prepared(d, t)
    BY <1>1, OthersStay
<1>3. client'[c].at = "idle"
    BY <1>1 DEF Idle
<1>4. /\ Finishing' => Finishing
      /\ \A d \in Clients : Transferring(d)' =>
            Transferring(d) /\ client'[d].run = client[d].run
    <2>1. ASSUME NEW d \in Clients, Transferring(d)'
          PROVE  Transferring(d) /\ client'[d].run = client[d].run
        <3>1. d # c
            BY <1>3, <2>1 DEF Transferring, Prepared
        <3> QED
            BY <1>1, <1>2, <2>1, <3>1 DEF Transferring
    <2> QED
        BY <1>1, <2>1 DEF Finishing
<1>5. TransferInv'
    BY <1>1, <1>4 DEF TransferInv, Busy
<1>6. ReportInv'
    BY <1>1, <1>2, <1>3 DEF ReportInv
<1> QED
    BY <1>5, <1>6

LEMMA RunRecord ==
    ASSUME CoreInv, SerialInv, RecordInv, NEW c \in Clients, Run(c)
    PROVE  RecordInv'
<1> SUFFICES ASSUME ~ overlapped', ~ harmed'
             PROVE  (TransferInv /\ HandlerInv /\ ReportInv)'
    BY DEF RecordInv, Undisturbed
<1>1. UNCHANGED <<serverVars, runs>> /\ worker' = worker
    BY DEF Run, TakePrepared, NotifyComplete, TakeCompleted, GiveUp, ConnectionLost,
       RsyncFails, serverVars, fileVars
<1>2. ~ overlapped /\ ~ harmed
    BY <1>1 DEF serverVars, fileVars
<1>3. TransferInv /\ HandlerInv /\ ReportInv
    BY <1>2 DEF RecordInv, Undisturbed
<1>4. History' = History
    BY <1>2, OtherHistory
<1>5. HandlerInv'
    BY <1>1, <1>3, <1>4 DEF HandlerInv
<1>6. CASE End(c)
    <2>1. \/ done' = done
          \/ Recorded(History, client[c].run) /\ done' = done \cup {client[c].run}
        BY <1>3 DEF Run, TakePrepared, NotifyComplete, TakeCompleted, GiveUp,
           ConnectionLost, RsyncFails, ReportInv
    <2> QED
        BY <1>1, <1>3, <1>4, <1>5, <1>6, <2>1, EndRecord
<1>7. CASE TakePrepared(c) /\ Head(Answers(c)).ok
    <2>1. PICK t \in Threads :
            /\ client[c].on = t /\ Advances(c, "rsync")
            /\ Answered(c, t, Head(Answers(c)).ok)
            /\ link' \in [Threads -> Link]
            /\ link'[t].peer = link[t].peer
            /\ link'[t].requests = <<>> /\ link'[t].answers = <<>>
            /\ \A u \in Threads \ {t} : link'[u] = link[u]
        BY <1>7, TakeEffect DEF TakePrepared
    <2>2. /\ client'[c].at = "rsync" /\ client'[c].run = client[c].run
          /\ client[c].at = "prepare" /\ Answered(c, t, TRUE) /\ done' = done
          /\ \A d \in Clients \ {c} : client'[d] = client[d]
          /\ \A u \in Threads : u # client[c].on => link'[u] = link[u]
          /\ \A u \in Threads : link'[u].requests = link[u].requests
        BY <1>7, <2>1, TakenIsOk DEF TakePrepared, Advances, Answered
    <2>3. \A d \in Clients \ {c} :
             /\ Answers(d)' = Answers(d)
             /\ \A u \in Threads : Prepared(d, u)' => Prepared(d, u)
        BY <1>1, <2>2, OthersStay
    <2>4. /\ Finishing' => Finishing
          /\ \A d \in Clients : Transferring(d)' =>
                Transferring(d) /\ client'[d].run = client[d].run
        <3>1. Transferring(c)
            BY <2>1, <2>2 DEF Transferring, Prepared
        <3> QED
            BY <1>1, <2>2, <2>3, <3>1 DEF Transferring, Finishing
    <2>5. TransferInv'
        BY <1>1, <1>3, <1>4, <2>4 DEF TransferInv, Busy
    <2>6. ReportInv'
        BY <1>3, <1>4, <2>2, <2>3 DEF ReportInv
    <2> QED
        BY <1>5, <2>5, <2>6
<1>8. CASE NotifyComplete(c) /\ client[c].on \in Threads
    <2>1. PICK t \in Threads :
            /\ client[c].on = t /\ Advances(c, "complete")
            /\ Silent(t)
            /\ link' \in [Threads -> Link]
            /\ link'[t].peer = link[t].peer
            /\ link'[t].requests = << Request("complete", client[c].run) >>
            /\ link'[t].answers = <<>>
            /\ \A u \in Threads \ {t} : link'[u] = link[u]
        BY <1>8, NotifyEffect
    <2>2. /\ client'[c].at = "complete" /\ client[c].at = "rsync" /\ done' = done
          /\ client'[c].on = t
          /\ \A d \in Clients \ {c} : client'[d] = client[d]
          /\ \A u \in Threads : u # client[c].on => link'[u] = link[u]
        BY <1>8, <2>1 DEF NotifyComplete, Advances
    <2>3. \A d \in Clients \ {c} :
             /\ Answers(d)' = Answers(d)
             /\ \A u \in Threads : Prepared(d, u)' => Prepared(d, u)
        BY <1>1, <2>2, OthersStay
    <2>4. /\ Transferring(c)
          /\ Finishing' => Finishing \/ client[c].run = runs
          /\ \A d \in Clients : Transferring(d)' =>
                Transferring(d) /\ client'[d].run = client[d].run
        <3>1. ASSUME NEW d \in Clients, Transferring(d)'
              PROVE  Transferring(d) /\ client'[d].run = client[d].run
            <4>1. d # c
                BY <2>2, <3>1 DEF Transferring, Prepared
            <4> QED
                BY <2>2, <2>3, <3>1, <4>1 DEF Transferring
        <3>2. ASSUME NEW u \in Threads, link'[u].requests = << Request("complete", runs) >>
              PROVE  Finishing \/ client[c].run = runs
            <4>1. CASE u = t
                BY <2>1, <3>2, <4>1 DEF Request
            <4>2. CASE u # t
                BY <2>1, <3>2, <4>2 DEF Finishing
            <4> QED
                BY <4>1, <4>2
        <3> QED
            BY <1>1, <2>2, <3>1, <3>2 DEF Transferring, Finishing
    <2>5. TransferInv'
        BY <1>1, <1>3, <1>4, <2>4 DEF TransferInv, Busy
    <2>6. Answers(c)' = <<>>
        BY <2>1, <2>2 DEF Answers
    <2>7. ReportInv'
        BY <1>3, <1>4, <2>2, <2>3, <2>6 DEF ReportInv
    <2> QED
        BY <1>5, <2>5, <2>7
<1> QED
    BY <1>6, <1>7, <1>8 DEF Run, TakePrepared, NotifyComplete, TakeCompleted, GiveUp,
       ConnectionLost, RsyncFails

LEMMA BeginRecord ==
    ASSUME CoreInv, SerialInv, RecordInv, NEW c \in Clients, Begin(c)
    PROVE  RecordInv'
<1> SUFFICES ASSUME ~ overlapped', ~ harmed'
             PROVE  (TransferInv /\ HandlerInv /\ ReportInv)'
    BY DEF RecordInv, Undisturbed
<1>1. /\ ~ overlapped /\ ~ harmed /\ archives \in Nat /\ BasicInv
      /\ runs \in Nat /\ runs' = runs + 1 /\ done' = done
    BY DEF Begin, CoreInv, BasicInv, TypeOK
<1>2. TransferInv /\ HandlerInv /\ ReportInv
    BY <1>1 DEF RecordInv, Undisturbed
<1>3. History' = History
    BY <1>1, OtherHistory
<1>4. PICK new \in Threads :
        /\ worker[new].at = "none"
        /\ client' \in [Clients -> Client]
        /\ client'[c] = [at |-> "prepare", run |-> runs + 1, on |-> new]
        /\ \A d \in Clients \ {c} : client'[d] = client[d]
        /\ link' \in [Threads -> Link]
        /\ link'[new] = [peer |-> TRUE, answers |-> <<>>,
                         requests |-> << Request("prepare", runs + 1) >>]
        /\ worker' \in [Threads -> Worker] /\ worker'[new] = Waiting
        /\ \A t \in Threads \ {new} : link'[t] = link[t] /\ worker'[t] = worker[t]
    BY BeginEffect
<1>5. worker'[new].op = "none"
    BY <1>1, <1>4, IdleWorkers
<1>6. \A d \in Clients \ {c} : client[d].at # "idle" => client[d].run \in 1 .. runs
    BY DEF CoreInv, ClientInv
<1>7. \A d \in Clients \ {c} : client[d].on # new
    BY <1>4 DEF CoreInv, ClientInv
<1>8. TransferInv'
    <2>1. ASSUME NEW d \in Clients, Transferring(d)'
          PROVE  Transferring(d) /\ client'[d].run = client[d].run
        <3>1. d # c
            <4>1. ASSUME d = c PROVE FALSE
                <5>1. client'[d].at = "prepare" /\ client'[d].on = new
                    BY <1>4, <4>1
                <5>2. Answered(d, new, TRUE)'
                    BY <2>1, <5>1 DEF Transferring, Prepared
                <5> QED
                    BY <1>4, <5>2 DEF Answered
            <4> QED
                BY <4>1
        <3>2. client'[d] = client[d] /\ client[d].on # new
            BY <1>4, <1>7, <3>1
        <3>3. ASSUME NEW t \in Threads, Prepared(d, t)' PROVE Prepared(d, t)
            <4>1. t # new
                BY <3>2, <3>3 DEF Prepared
            <4> QED
                BY <1>4, <3>2, <3>3, <4>1 DEF Prepared, Answered, Busy
        <3> QED
            BY <2>1, <3>2, <3>3 DEF Transferring
    <2>3. ASSUME NEW t \in Threads, link'[t].requests = << Request("complete", runs + 1) >>
          PROVE  FALSE
        <3>1. CASE t = new
            BY <1>4, <2>3, <3>1 DEF Request
        <3>2. CASE t # new
            <4>1. link[t].requests = << Request("complete", runs + 1) >>
                BY <1>4, <2>3, <3>2
            <4>2. PICK op \in {"prepare", "complete"}, r \in 1 .. runs :
                    link[t].requests = << Request(op, r) >>
                BY <1>1, <4>1 DEF BasicInv, LinkInv
            <4>3. r = runs + 1
                BY <4>1, <4>2 DEF Request
            <4> QED
                BY <1>1, <4>3
        <3> QED
            BY <3>1, <3>2
    <2>4. ~ Finishing'
        BY <1>1, <2>3 DEF Finishing
    <2>5. \A t \in Threads : Busy(t)' => Busy(t)
        BY <1>4, <1>5 DEF Busy
    <2> QED
        BY <1>2, <1>3, <2>1, <2>4, <2>5 DEF TransferInv
<1>9. HandlerInv'
    BY <1>2, <1>3, <1>4, <1>5 DEF HandlerInv
<1>10. ReportInv'
    <2>1. \A d \in Clients \ {c} : Answers(d)' = Answers(d)
        BY <1>4, <1>7 DEF Answers
    <2> QED
        BY <1>1, <1>2, <1>3, <1>4, <2>1 DEF ReportInv
<1> QED
    BY <1>8, <1>9, <1>10

(* A request that is read alone is the latest run's: to finish, after the  *)
(* transfer.                                                               *)
LEMMA ReceiveRecord ==
    ASSUME CoreInv, SerialInv, PlaceInv, RecordInv, NEW t \in Threads, Receive(t)
    PROVE  RecordInv'
<1> SUFFICES ASSUME ~ overlapped', ~ harmed'
             PROVE  (TransferInv /\ HandlerInv /\ ReportInv)'
    BY DEF RecordInv, Undisturbed
<1>1. PICK op \in {"prepare", "complete"}, run \in 1 .. runs :
        /\ link[t].requests = << Request(op, run) >>
        /\ ~ Busy(t) /\ worker[t].at = "recv"
        /\ worker' \in [Threads -> Worker]
        /\ worker'[t] = [op |-> op, run |-> run, at |-> Starts[op],
                         task |-> "started", entries |-> <<>>,
                         archive |-> NoDiff, ok |-> FALSE]
        /\ link' \in [Threads -> Link]
        /\ link'[t].peer = link[t].peer
        /\ link'[t].answers = link[t].answers /\ link'[t].requests = <<>>
        /\ \A u \in Threads \ {t} : link'[u] = link[u] /\ worker'[u] = worker[u]
        /\ overlapped' = (overlapped \/ Overlaps(t, run))
    BY ReceiveEffect
<1>2. /\ ~ overlapped /\ ~ harmed /\ UNCHANGED <<client, runs, done>>
      /\ ~ Overlaps(t, run)
    BY <1>1 DEF Receive
<1>3. /\ runs = run
      /\ \A u \in Threads \ {t} : ~ Busy(u)
    BY <1>2 DEF Overlaps
<1>4. TransferInv /\ HandlerInv /\ ReportInv
    BY <1>2 DEF RecordInv, Undisturbed
<1>5. History' = History
    BY <1>2, OtherHistory
<1>6. Sent(t, runs) /\ runs \in 1 .. runs
    <2>1. 1 \in DOMAIN link[t].requests /\ link[t].requests[1].run = run
        BY <1>1 DEF Request
    <2> QED
        BY <1>3, <2>1 DEF Sent
<1>7. TransferInv'
    <2>1. ASSUME NEW d \in Clients, client[d].at = "rsync"
          PROVE  FALSE
        <3>1. client[d].run = runs
            BY <1>2, <1>3, <2>1 DEF Overlaps
        <3>2. client[d].on = t
            BY <1>6, <2>1, <3>1 DEF PlaceInv
        <3>3. Silent(t)
            BY <2>1, <3>2 DEF CoreInv, ClientInv, InFlight
        <3> QED
            BY <1>1, <3>3, OneIsSome DEF Silent
    <2>2. ASSUME NEW d \in Clients, NEW u \in Threads, Prepared(d, u)' PROVE FALSE
        <3>1. client[d].at = "prepare" /\ client[d].run = runs /\ client[d].on = u
            BY <1>2, <1>3, <2>2 DEF Prepared, Overlaps
        <3>2. u = t
            BY <1>6, <3>1 DEF PlaceInv
        <3>3. ~ Busy(t)'
            BY <2>2, <3>2 DEF Prepared, Answered
        <3> QED
            BY <1>1, <3>3 DEF Busy
    <2>3. ASSUME NEW u \in Threads, link'[u].requests = << Request("complete", runs) >>
          PROVE  FALSE
        <3>1. u # t
            BY <1>1, <2>3, OneIsSome
        <3>2. link[u].requests = << Request("complete", runs) >>
            BY <1>1, <2>3, <3>1
        <3>3. 1 \in DOMAIN link[u].requests /\ link[u].requests[1].run = runs
            BY <3>2 DEF Request
        <3>4. Sent(u, runs)
            BY <3>3 DEF Sent
        <3> QED
            BY <1>6, <3>1, <3>4 DEF PlaceInv
    <2>4. ~ Finishing' /\ \A d \in Clients : ~ Transferring(d)'
        BY <1>2, <2>1, <2>2, <2>3 DEF Transferring, Finishing
    <2> QED
        BY <2>4 DEF TransferInv
<1>8. HandlerInv'
    <2>1. op = "complete" => Opened(History, run)
        <3>1. op = "complete" => Finishing
            BY <1>1, <1>3 DEF Finishing
        <3> QED
            BY <1>3, <1>4, <3>1 DEF TransferInv, Fresh
    <2>2. /\ worker'[t].op = op /\ worker'[t].run = run
          /\ worker'[t].at \in {"diff", "metadata"}
        BY <1>1 DEF Starts
    <2>3. \A u \in Threads \ {t} : worker'[u].op = "none"
        BY <1>1, <1>3 DEF Busy
    <2> QED
        BY <1>5, <2>1, <2>2, <2>3 DEF HandlerInv
<1>9. ReportInv'
    <2>1. \A u \in Threads : link'[u].answers = link[u].answers
        BY <1>1
    <2>2. \A c \in Clients : Answers(c)' = Answers(c)
        BY <1>2, <2>1 DEF Answers
    <2> QED
        BY <1>2, <1>4, <1>5, <2>2 DEF ReportInv
<1> QED
    BY <1>7, <1>8, <1>9

(* An answer tells what the handler has done to the log.                   *)
LEMMA SendRecord ==
    ASSUME CoreInv, SerialInv, RecordInv, NEW t \in Threads, Send(t)
    PROVE  RecordInv'
<1> SUFFICES ASSUME ~ overlapped', ~ harmed'
             PROVE  (TransferInv /\ HandlerInv /\ ReportInv)'
    BY DEF RecordInv, Undisturbed
<1>1. /\ ~ overlapped /\ ~ harmed /\ UNCHANGED <<client, runs, done>>
      /\ worker[t].at = "answer" /\ archives \in Nat
    BY DEF Send, CoreInv, BasicInv, TypeOK
<1>2. TransferInv /\ HandlerInv /\ ReportInv
    BY <1>1 DEF RecordInv, Undisturbed
<1>3. History' = History
    BY <1>1, OtherHistory
<1>4. /\ Busy(t) /\ link[t].requests = <<>>
      /\ worker'[t] \in {Waiting, NoThread}
      /\ worker'[t] = NoThread => ~ link[t].peer /\ link'[t] = Closed
      /\ worker'[t] = Waiting =>
            /\ link'[t].peer = link[t].peer /\ link'[t].requests = <<>>
            /\ link[t].answers = <<>> => link'[t].answers =
                  << Reply(worker[t].op, worker[t].run, worker[t].ok) >>
      /\ \A u \in Threads \ {t} : link'[u] = link[u] /\ worker'[u] = worker[u]
    BY SendEffect
<1>5. link'[t].requests = <<>>
    BY <1>4 DEF Closed
<1>6. \A u \in Threads : worker'[u].op = "none"
    BY <1>1, <1>4, IdleWorkers DEF SerialInv, Busy
<1>7. ASSUME NEW c \in Clients, client[c].at # "idle", client[c].on = t
      PROVE  /\ worker[t].op = client[c].at /\ worker[t].run = client[c].run
             /\ link'[t].answers = << Reply(worker[t].op, worker[t].run, worker[t].ok) >>
    <2>1. link[t].peer /\ InFlight(c, t)
        BY <1>7 DEF CoreInv, ClientInv
    <2>2. Served(c, t)
        BY <1>4, <2>1 DEF InFlight, Silent, Asked, Answered
    <2> QED
        BY <1>4, <2>1, <2>2 DEF Served
<1>8. TransferInv'
    <2>1. ~ Finishing /\ \A c \in Clients : ~ Transferring(c)
        BY <1>2, <1>4 DEF TransferInv
    <2>2. ASSUME NEW c \in Clients, NEW u \in Threads, Prepared(c, u)'
          PROVE  Fresh(History, client[c].run)
        <3>1. client[c].at = "prepare" /\ client[c].on = u
            BY <1>1, <2>2 DEF Prepared
        <3>2. CASE u # t
            <4>1. Prepared(c, u)
                BY <1>1, <1>4, <2>2, <3>2 DEF Prepared, Answered, Busy
            <4> QED
                BY <2>1, <4>1 DEF Transferring
        <3>3. CASE u = t
            <4>1. link'[t].answers = << Reply("prepare", client[c].run, TRUE) >>
                BY <1>1, <2>2, <3>1, <3>3 DEF Prepared, Answered
            <4>2. /\ worker[t].op = "prepare" /\ worker[t].run = client[c].run
                  /\ link'[t].answers = << Reply("prepare", client[c].run, worker[t].ok) >>
                BY <1>7, <3>1, <3>3
            <4>3. worker[t].ok = TRUE
                BY <4>1, <4>2 DEF Reply
            <4> QED
                BY <1>1, <1>2, <4>2, <4>3 DEF HandlerInv
        <3> QED
            BY <3>2, <3>3
    <2>3. ASSUME NEW u \in Threads, link'[u].requests = << Request("complete", runs) >>
          PROVE  FALSE
        <3>1. u # t
            BY <1>5, <2>3, OneIsSome
        <3> QED
            BY <1>4, <2>1, <2>3, <3>1 DEF Finishing
    <2>4. /\ ~ Finishing'
          /\ \A c \in Clients : Transferring(c)' => Fresh(History, client[c].run)
        BY <1>1, <2>1, <2>2, <2>3 DEF Transferring, Finishing
    <2> QED
        BY <1>1, <1>3, <1>6, <2>4 DEF TransferInv, Busy
<1>9. HandlerInv'
    BY <1>6 DEF HandlerInv
<1>10. ReportInv'
    <2>1. ASSUME NEW c \in Clients, client[c].at = "complete", Answers(c)' # <<>>
          PROVE  Recorded(History, client[c].run)
        <3>1. CASE client[c].on = t
            <4>1. worker[t].op = "complete" /\ worker[t].run = client[c].run
                BY <1>7, <2>1, <3>1
            <4> QED
                BY <1>1, <1>2, <4>1 DEF HandlerInv
        <3>2. CASE client[c].on # t
            <4>1. Answers(c)' = Answers(c)
                BY <1>1, <1>4, <3>2 DEF Answers
            <4> QED
                BY <1>2, <2>1, <4>1 DEF ReportInv
        <3> QED
            BY <3>1, <3>2
    <2> QED
        BY <1>1, <1>2, <1>3, <2>1 DEF ReportInv
<1> QED
    BY <1>8, <1>9, <1>10

LEMMA CloseRecord ==
    ASSUME CoreInv, SerialInv, RecordInv, NEW t \in Threads, Close(t)
    PROVE  RecordInv'
<1> SUFFICES ASSUME ~ overlapped', ~ harmed'
             PROVE  (TransferInv /\ HandlerInv /\ ReportInv)'
    BY DEF RecordInv, Undisturbed
<1>1. /\ ~ overlapped /\ ~ harmed /\ UNCHANGED <<client, runs, done>>
      /\ archives \in Nat
    BY DEF Close, CoreInv, BasicInv, TypeOK
<1>2. TransferInv /\ HandlerInv /\ ReportInv
    BY <1>1 DEF RecordInv, Undisturbed
<1>3. History' = History
    BY <1>1, OtherHistory
<1>4. /\ ~ link[t].peer /\ ~ Busy(t)
      /\ worker'[t].op = "none" /\ link'[t].requests = <<>> /\ link'[t].answers = <<>>
      /\ \A u \in Threads \ {t} : link'[u] = link[u] /\ worker'[u] = worker[u]
    BY <1>1, CloseEffect, IdleWorkers DEF Closed
<1>5. \A c \in Clients : client[c].on # t
    BY <1>4 DEF CoreInv, ClientInv
<1>6. /\ Finishing' => Finishing
      /\ \A c \in Clients : Transferring(c)' => Transferring(c)
    <2>1. ASSUME NEW c \in Clients, NEW u \in Threads, Prepared(c, u)'
          PROVE  Prepared(c, u)
        <3>1. u # t
            BY <1>1, <1>5, <2>1 DEF Prepared
        <3> QED
            BY <1>1, <1>4, <2>1, <3>1 DEF Prepared, Answered, Busy
    <2>2. ASSUME NEW u \in Threads, link'[u].requests = << Request("complete", runs) >>
          PROVE  link[u].requests = << Request("complete", runs) >>
        <3>1. u # t
            BY <1>4, <2>2, OneIsSome
        <3> QED
            BY <1>4, <2>2, <3>1
    <2> QED
        BY <1>1, <2>1, <2>2 DEF Transferring, Finishing
<1>7. TransferInv'
    BY <1>1, <1>2, <1>3, <1>4, <1>6 DEF TransferInv, Busy
<1>8. HandlerInv'
    BY <1>2, <1>3, <1>4 DEF HandlerInv
<1>9. ReportInv'
    <2>1. \A c \in Clients : Answers(c)' = Answers(c)
        BY <1>1, <1>4, <1>5 DEF Answers
    <2> QED
        BY <1>1, <1>2, <1>3, <2>1 DEF ReportInv
<1> QED
    BY <1>7, <1>8, <1>9

(* The daemon ends between requests: the clients know what they know.      *)
LEMMA ExitRecord ==
    ASSUME CoreInv, SerialInv, RecordInv, Exit
    PROVE  RecordInv'
<1> SUFFICES ASSUME ~ overlapped', ~ harmed'
             PROVE  (TransferInv /\ HandlerInv /\ ReportInv)'
    BY DEF RecordInv, Undisturbed
<1>1. /\ \A t \in Threads : worker'[t] = NoThread /\ link'[t] = Closed
      /\ \A c \in Clients : /\ client'[c].at = client[c].at
                            /\ client'[c].run = client[c].run
                            /\ client'[c].on = NoLink
      /\ harmed' = (harmed \/ \E t \in Threads : Busy(t))
      /\ UNCHANGED <<runs, done, overlapped>>
      /\ archives \in Nat
    BY ExitEffect DEF CoreInv, BasicInv, TypeOK
<1>2. ~ overlapped /\ ~ harmed
    BY <1>1
<1>3. TransferInv /\ HandlerInv /\ ReportInv
    BY <1>2 DEF RecordInv, Undisturbed
<1>4. History' = History
    BY <1>2, ExitHistory
<1>5. \A t \in Threads : worker'[t].op = "none" /\ link'[t].requests = <<>>
    BY <1>1, IdleWorkers DEF Closed
<1>6. /\ ~ Finishing'
      /\ \A c \in Clients : Transferring(c)' => Transferring(c)
    <2>1. ASSUME NEW t \in Threads, link'[t].requests = << Request("complete", runs) >>
          PROVE  FALSE
        BY <1>5, <2>1, OneIsSome
    <2>2. \A c \in Clients, t \in Threads : ~ Prepared(c, t)'
        BY <1>1, DaemonAssumption DEF Prepared
    <2> QED
        BY <1>1, <2>1, <2>2 DEF Transferring, Finishing
<1>7. TransferInv'
    BY <1>1, <1>3, <1>4, <1>5, <1>6 DEF TransferInv, Busy
<1>8. HandlerInv'
    BY <1>5 DEF HandlerInv
<1>9. ReportInv'
    <2>1. \A c \in Clients : Answers(c)' = <<>>
        BY <1>1, DaemonAssumption DEF Answers
    <2> QED
        BY <1>1, <1>3, <1>4, <2>1 DEF ReportInv
<1> QED
    BY <1>7, <1>8, <1>9

LEMMA StepRecord ==
    CoreInv /\ SerialInv /\ PlaceInv /\ RecordInv /\ [Next]_vars => RecordInv'
<1> SUFFICES ASSUME CoreInv, SerialInv, PlaceInv, RecordInv, [Next]_vars
             PROVE  RecordInv'
    OBVIOUS
<1>1. CASE Stop \/ Start \/ (\E c \in Clients : RsyncDeletes(c)) \/ UNCHANGED vars
    <2>1. UNCHANGED <<file, worker, harmed, link, client, runs, done, overlapped>>
        BY <1>1 DEF Stop, Start, RsyncDeletes, vars, fileVars
    <2>2. ~ overlapped => History' = History
        BY <1>1, OtherHistory
    <2> QED
        BY <2>1, <2>2 DEF RecordInv, Undisturbed, TransferInv, Transferring, Finishing,
           Prepared, Answered, Busy, HandlerInv, ReportInv, Answers
<1> QED
    BY <1>1, BeginRecord, RunRecord, HandleRecord, ReceiveRecord, SendRecord, CloseRecord,
       ExitRecord DEF Next, Serve

LEMMA InitRecord == Init => RecordInv
<1> SUFFICES ASSUME Init PROVE TransferInv /\ HandlerInv /\ ReportInv
    BY DEF RecordInv
<1>1. /\ \A t \in Threads : worker[t] = NoThread /\ link[t] = Closed
      /\ \A c \in Clients : client[c] = Idle
      /\ file = Entries(Before) /\ done = 1 .. Before /\ Before \in 0 .. 2
    BY FileAssumption DEF Init, FileInit
<1>2. History = file
    BY <1>1, HistoryNow DEF NoWriter, NoThread
<1>3. TransferInv
    <2>1. \A t \in Threads : link[t].requests = <<>>
        BY <1>1 DEF Closed
    <2>2. \A c \in Clients : client[c].at = "idle"
        BY <1>1 DEF Idle
    <2>3. \A t \in Threads : link[t].requests # << Request("complete", runs) >>
        BY <2>1, OneIsSome
    <2>4. ~ Finishing /\ \A c \in Clients : ~ Transferring(c)
        BY <2>2, <2>3 DEF Transferring, Finishing, Prepared
    <2> QED
        BY <2>4 DEF TransferInv
<1>4. HandlerInv
    BY <1>1 DEF HandlerInv, NoThread
<1>5. ReportInv
    <2>1. ASSUME NEW run \in 1 .. Before PROVE Recorded(file, run)
        <3>1. Before + 1 - run \in 1 .. Before /\ Before + 1 - (Before + 1 - run) = run
            BY <1>1, <2>1
        <3>2. /\ file[Before + 1 - run].started = run /\ file[Before + 1 - run].finished = run
              /\ Before + 1 - run \in DOMAIN file
            BY <1>1, <3>1, InitialLog, LenProperties
        <3> QED
            BY <3>2 DEF Recorded
    <2>2. \A c \in Clients : client[c].at = "idle"
        BY <1>1 DEF Idle
    <2>3. \A run \in done : Recorded(History, run)
        BY <1>1, <1>2, <2>1
    <2> QED
        BY <2>2, <2>3 DEF ReportInv
<1> QED
    BY <1>3, <1>4, <1>5

LEMMA RecordInvariance == Spec => [](CoreInv /\ SerialInv /\ PlaceInv /\ RecordInv)
<1>1. Init => CoreInv /\ SerialInv /\ PlaceInv /\ RecordInv
    BY InitCore, InitSerial, InitPlace, InitRecord
<1>2. CoreInv /\ SerialInv /\ PlaceInv /\ RecordInv /\ [Next]_vars
         => (CoreInv /\ SerialInv /\ PlaceInv /\ RecordInv)'
    BY StepCore, StepSerial, StepPlace, StepRecord
<1> QED
    BY <1>1, <1>2, PTL DEF Spec

(* A backup that its user was told is complete is in set.log, begun and    *)
(* finished by that run, as long as no two runs overlap and no bookkeeping *)
(* was cut short: whatever later runs fail at, give up or are told.        *)
THEOREM ReportedIsRecorded == Spec => []RecordedWhenReported
<1>1. RecordInv => RecordedWhenReported
    BY DEF RecordInv, ReportInv, RecordedWhenReported, Recorded
<1> QED
    BY <1>1, RecordInvariance, PTL

-----------------------------------------------------------------------------
(* The metadata file and the log                                           *)

(* What a rewriting makes of the newest entry.                             *)
LEMMA RewrittenNewest ==
    ASSUME BasicInv, NEW t \in Threads, worker[t].at \in Rewriting,
           NEW found \in Seq(Entry), NEW new, new = Rewritten(worker[t], found)
    PROVE  /\ worker[t].task = "archived" =>
                 /\ new = <<>> <=> found = <<>>
                 /\ found # <<>> => /\ new[1].started = found[1].started
                                    /\ new[1].finished = found[1].finished
           /\ worker[t].task = "started" =>
                 /\ new # <<>> /\ new[1].started = worker[t].run
                 /\ new[1].finished = Never
           /\ worker[t].task = "finished" /\ found # <<>> =>
                 /\ new # <<>> /\ new[1].started = found[1].started
                 /\ new[1].finished = worker[t].run
<1>1. /\ worker[t] \in Worker /\ worker[t].run \in Nat \ {0} /\ worker[t].run \in Nat
      /\ worker[t].task \in Tasks /\ worker[t].archive \in Nat
    BY BusySteps DEF Worker
<1>2. new \in Seq(Entry)
    BY RewrittenTypes
<1>3. /\ DOMAIN found = 1 .. Len(found) /\ Len(found) \in Nat /\ Len(new) \in Nat
      /\ found # <<>> <=> Len(found) > 0
      /\ new # <<>> <=> Len(new) > 0
    BY <1>2, LenProperties, EmptySeq
<1>4. CASE worker[t].task = "archived"
    <2>1. new = UpdateForDiff(found, worker[t].archive)
        BY <1>4 DEF Rewritten
    <2>2. /\ Len(new) = Len(found)
          /\ \A i \in DOMAIN found : /\ new[i].started = found[i].started
                                     /\ new[i].finished = found[i].finished
        BY <1>1, <2>1, UpdateForDiffProperties
    <2> QED
        BY <1>3, <1>4, <2>2
<1>5. CASE worker[t].task = "started"
    <2>1. new = NewEntry(found, worker[t].run)
        BY <1>5 DEF Rewritten
    <2>2. /\ Len(new) = Len(found) + 1
          /\ new[1] = [number |-> MaxNumber(found) + 1, started |-> worker[t].run,
                       finished |-> Never, location |-> "C", diff |-> NoDiff]
        BY <1>1, <2>1, NewEntryTypes
    <2> QED
        BY <1>3, <1>5, <2>2
<1>6. CASE worker[t].task = "finished"
    <2>1. new = Finalize(found, worker[t].run)
        BY <1>6 DEF Rewritten
    <2>2. /\ Len(new) = Len(found)
          /\ \A i \in DOMAIN found :
                /\ new[i].started = found[i].started
                /\ new[i].finished = IF i = 1 THEN worker[t].run ELSE found[i].finished
        <3>1. worker[t].run \in Nat
            BY <1>1
        <3> QED
            BY <2>1, <3>1, FinalizeProperties
    <2> QED
        BY <1>3, <1>6, <2>2
<1> QED
    BY <1>1, <1>4, <1>5, <1>6 DEF Tasks

LEMMA MatchStays ==
    ASSUME History' = History, metadata' = metadata
    PROVE  Match(History)' <=> Match(History)
BY DEF Match, Tells

LEMMA HandleMetadata ==
    ASSUME CoreInv, SerialInv, RecordInv, MetadataInv, NEW t \in Threads, Handle(t),
           UNCHANGED <<daemon, link, client, runs, done, overlapped>>
    PROVE  MetadataInv'
<1> SUFFICES ASSUME ~ overlapped', ~ harmed'
             PROVE  /\ \A u \in Threads : Ahead(u)' =>
                          Tells(worker[u].run, worker[u].task = "finished")'
                    /\ (\A u \in Threads : ~ Ahead(u)') => Match(History)'
    BY DEF MetadataInv, Undisturbed
<1>1. /\ BasicInv /\ HandlerStep(t)
      /\ worker[t] \in Worker /\ WorkerOK(worker[t]) /\ Busy(t)
      /\ ~ overlapped /\ ~ harmed
    BY HandleStep, BusySteps DEF CoreInv, HandlerStep
<1>2. /\ worker'[t].op = worker[t].op /\ worker'[t].run = worker[t].run
      /\ \A u \in Threads \ {t} : worker'[u] = worker[u]
    BY <1>1 DEF HandlerStep, Moves
<1>3. \A u \in Threads \ {t} : ~ Ahead(u) /\ ~ Ahead(u)'
    <2> SUFFICES ASSUME NEW u \in Threads \ {t} PROVE ~ Ahead(u) /\ ~ Ahead(u)'
        OBVIOUS
    <2>1. worker[u].at \notin Rewriting
        BY <1>1, BusySteps DEF SerialInv
    <2> QED
        BY <1>2, <2>1 DEF Ahead, Rewriting
<1>4. /\ Ahead(t) => Tells(worker[t].run, worker[t].task = "finished")
      /\ ~ Ahead(t) => Match(History)
    BY <1>1, <1>3 DEF MetadataInv, Undisturbed
<1>5. HandlerInv
    BY <1>1 DEF RecordInv, Undisturbed
<1>6. SUFFICES /\ Ahead(t)' => Tells(worker[t].run, worker[t].task = "finished")'
               /\ ~ Ahead(t)' => Match(History)'
    BY <1>2, <1>3, <1>6
<1>7. /\ worker[t].op = "complete" => Opened(History, worker[t].run)
      /\ History \in Seq(Entry)
    BY <1>1, <1>5, HistoryTypes DEF HandlerInv
<1>8. worker[t].at \in Rewriting => (worker[t].op = "complete" <=> worker[t].task = "finished")
    BY <1>1 DEF WorkerOK
<1>9. ~ Open(t) => History' = History
    BY <1>1, <1>5, HandleKeeps
<1>10. CASE Load(t)
    <2>1. /\ worker[t].at = "load" /\ metadata' = metadata
          /\ Unchanged(worker[t].task, file) => worker'[t].at = After(worker[t].task)
          /\ ~ Unchanged(worker[t].task, file) =>
                worker'[t].at = "open" /\ worker'[t].task = worker[t].task
        BY <1>1, <1>10, LoadDetail DEF Load
    <2>2. worker[t].at \in Rewriting /\ ~ Open(t)
        BY <2>1 DEF Rewriting, Open
    <2>3. History' = History /\ History = file
        BY <1>1, <1>9, <2>1, <2>2, AloneWrites
    <2>4. Unchanged(worker[t].task, file) => worker[t].task = "archived"
        BY <1>7, <1>8, <2>2, <2>3 DEF Unchanged, Opened
    <2>5. CASE Unchanged(worker[t].task, file)
        <3>1. ~ Ahead(t) /\ ~ Ahead(t)'
            BY <2>1, <2>4, <2>5 DEF Ahead, After
        <3> QED
            BY <1>4, <2>1, <2>3, <3>1, MatchStays
    <2>6. CASE ~ Unchanged(worker[t].task, file)
        <3>1. Ahead(t)' <=> Ahead(t)
            BY <2>1, <2>6 DEF Ahead
        <3>2. Tells(worker[t].run, worker[t].task = "finished")'
                 <=> Tells(worker[t].run, worker[t].task = "finished")
            BY <1>2, <2>1, <2>6 DEF Tells
        <3> QED
            BY <1>4, <2>1, <2>3, <3>1, <3>2, MatchStays
    <2> QED
        BY <2>5, <2>6
<1>11. CASE Open(t)
    <2>1. /\ worker[t].at = "open" /\ worker'[t].at = "write" /\ metadata' = metadata
          /\ History' = Rewritten(worker[t], History)
        BY <1>1, <1>11, OpenDetail, HandleHistory DEF Open
    <2>2. worker[t].at \in Rewriting /\ ~ Ahead(t)'
        BY <2>1 DEF Rewriting, Ahead
    <2>3. worker[t].run \in Nat \ {0} /\ worker[t].task \in Tasks
        BY <1>1, BusySteps DEF Worker
    <2>4. /\ worker[t].task = "archived" =>
                /\ History' = <<>> <=> History = <<>>
                /\ History # <<>> => /\ History'[1].started = History[1].started
                                     /\ History'[1].finished = History[1].finished
          /\ worker[t].task = "started" =>
                /\ History' # <<>> /\ History'[1].started = worker[t].run
                /\ History'[1].finished = Never
          /\ worker[t].task = "finished" /\ History # <<>> =>
                /\ History' # <<>> /\ History'[1].started = History[1].started
                /\ History'[1].finished = worker[t].run
        BY <1>1, <1>7, <2>1, <2>2, RewrittenNewest
    <2>5. CASE worker[t].task = "archived"
        <3>1. Match(History)
            BY <1>4, <2>5 DEF Ahead
        <3> QED
            BY <2>1, <2>2, <2>4, <2>5, <3>1 DEF Match, Tells, Finished
    <2>6. CASE worker[t].task = "started"
        <3>1. Tells(worker[t].run, FALSE)
            BY <1>4, <2>1, <2>6 DEF Ahead, Tells
        <3> QED
            BY <2>1, <2>2, <2>4, <2>6, <3>1 DEF Match, Tells, Finished, Never
    <2>7. CASE worker[t].task = "finished"
        <3>1. Tells(worker[t].run, TRUE)
            BY <1>4, <2>1, <2>7 DEF Ahead, Tells
        <3>2. History # <<>> /\ History[1].started = worker[t].run
            BY <1>7, <1>8, <2>2, <2>7 DEF Opened
        <3> QED
            BY <2>1, <2>2, <2>3, <2>4, <2>7, <3>1, <3>2 DEF Match, Tells, Finished, Never
    <2> QED
        BY <2>3, <2>5, <2>6, <2>7 DEF Tasks
<1>12. CASE Write(t) \/ WriteFails(t)
    <2>1. /\ worker[t].at = "write" /\ worker'[t].at = After(worker[t].task)
          /\ metadata' = metadata
        BY <1>1, <1>12, WriteDetail DEF Write, WriteFails
    <2>2. ~ Ahead(t) /\ ~ Ahead(t)' /\ ~ Open(t)
        BY <2>1 DEF Ahead, After, Open
    <2> QED
        BY <1>4, <1>9, <2>1, <2>2, MatchStays
<1>13. CASE CreateDiff(t) \/ SyncSnapshots(t)
    <2>1. /\ worker[t].at \in {"diff", "sync"} /\ metadata' = metadata
          /\ worker'[t].at # "open"
          /\ worker'[t].at = "load" => worker'[t].task = "archived"
        BY <1>1, <1>13, ToolSteps, CreateDiffStep, SyncSnapshotsStep
           DEF CreateDiff, SyncSnapshots, Doing
    <2>2. ~ Ahead(t) /\ ~ Ahead(t)' /\ ~ Open(t)
        BY <2>1 DEF Ahead, Open
    <2> QED
        BY <1>4, <1>9, <2>1, <2>2, MatchStays
<1>14. CASE MetadataStarted(t)
    <2>1. /\ worker'[t].at = "load" /\ worker'[t].task = "started"
        BY <1>1, <1>14, MetadataStartedStep
    <2>2. metadata' = [by |-> worker[t].run, done |-> FALSE]
        BY <1>14 DEF MetadataStarted
    <2> QED
        BY <1>2, <2>1, <2>2 DEF Ahead, Tells
<1>15. CASE MetadataFinished(t)
    <2>1. worker'[t].at = "load" /\ worker'[t].task = "finished"
        BY <1>1, <1>15, MetadataFinishedStep
    <2>2. /\ metadata' = [metadata EXCEPT !.done = TRUE]
          /\ worker[t].op = "complete" /\ worker[t].at = "metadata"
        BY <1>15 DEF MetadataFinished, Doing
    <2>3. ~ Ahead(t) /\ Opened(History, worker[t].run)
        BY <1>7, <2>2 DEF Ahead
    <2>4. Tells(worker[t].run, Finished(History[1]))
        BY <1>4, <2>3 DEF Match, Opened
    <2>5. metadata'.by = metadata.by /\ metadata'.done = TRUE
        BY <1>1, <2>2 DEF BasicInv, TypeOK
    <2> QED
        BY <1>2, <2>1, <2>4, <2>5 DEF Ahead, Tells
<1> QED
    BY <1>10, <1>11, <1>12, <1>13, <1>14, <1>15 DEF Handle, RewriteSetLog

LEMMA StepMetadata ==
    CoreInv /\ SerialInv /\ RecordInv /\ MetadataInv /\ [Next]_vars => MetadataInv'
<1> SUFFICES ASSUME CoreInv, SerialInv, RecordInv, MetadataInv, [Next]_vars
             PROVE  MetadataInv'
    OBVIOUS
<1>1. ASSUME NEW t \in Threads, Handle(t),
             UNCHANGED <<daemon, link, client, runs, done, overlapped>>
      PROVE  MetadataInv'
    BY <1>1, HandleMetadata
<1>2. CASE Exit
    <2> SUFFICES ASSUME ~ overlapped', ~ harmed' PROVE MetadataInv'
        BY DEF MetadataInv, Undisturbed
    <2>1. /\ \A t \in Threads : worker'[t] = NoThread
          /\ harmed' = (harmed \/ \E t \in Threads : Busy(t))
          /\ UNCHANGED <<metadata, overlapped>>
        BY <1>2, ExitEffect
    <2>2. ~ overlapped /\ ~ harmed /\ \A t \in Threads : ~ Busy(t)
        BY <2>1
    <2>3. History' = History
        BY <1>2, <2>2, ExitHistory
    <2>4. \A t \in Threads : ~ Ahead(t)
        BY <2>2, BusySteps DEF Ahead, Rewriting, CoreInv
    <2>5. \A t \in Threads : ~ Ahead(t)'
        BY <2>1 DEF Ahead, NoThread
    <2> QED
        BY <2>1, <2>2, <2>3, <2>4, <2>5, MatchStays DEF MetadataInv, Undisturbed
<1>3. CASE /\ \/ \E c \in Clients : Begin(c) \/ Run(c)
              \/ \E t \in Threads : Receive(t) \/ Send(t) \/ Close(t)
              \/ Stop \/ Start \/ UNCHANGED vars
           /\ \A c \in Clients : ~ RsyncDeletes(c)
    <2> SUFFICES ASSUME ~ overlapped', ~ harmed' PROVE MetadataInv'
        BY DEF MetadataInv, Undisturbed
    <2>1. ~ overlapped
        BY <1>3, OtherBusy
    <2>2. /\ UNCHANGED <<metadata, harmed>>
          /\ \A t \in Threads :
                \/ worker'[t] = worker[t]
                \/ worker[t].at \notin Rewriting /\ worker'[t].at \notin Rewriting
        BY <1>3, OtherEntries
    <2>3. History' = History
        BY <1>3, <2>1, OtherHistory
    <2>4. \A t \in Threads :
             \/ worker'[t] = worker[t] /\ (Ahead(t)' <=> Ahead(t))
             \/ ~ Ahead(t) /\ ~ Ahead(t)'
        BY <2>2 DEF Ahead, Rewriting
    <2> QED
        BY <2>1, <2>2, <2>3, <2>4, MatchStays DEF MetadataInv, Undisturbed, Tells
<1>4. ASSUME NEW c \in Clients, RsyncDeletes(c)
      PROVE  MetadataInv'
    <2> SUFFICES ASSUME ~ overlapped', ~ harmed' PROVE MetadataInv'
        BY DEF MetadataInv, Undisturbed
    <2>1. /\ MirrorsRoot /\ client[c].at = "rsync" /\ metadata' = NoMetadata
          /\ ~ overlapped /\ ~ harmed /\ worker' = worker
        BY <1>4 DEF RsyncDeletes
    <2>2. Transferring(c) /\ TransferInv
        BY <2>1 DEF Transferring, RecordInv, Undisturbed
    <2>3. Fresh(History, client[c].run) /\ \A t \in Threads : ~ Busy(t)
        BY <2>2 DEF TransferInv
    <2>4. \A t \in Threads : ~ Ahead(t)'
        BY <2>1, <2>3, BusySteps DEF Ahead, Rewriting, CoreInv
    <2>5. History' = History
        BY <1>4, <2>1, OtherHistory
    <2>6. /\ metadata'.by = 0 /\ metadata'.done = FALSE
          /\ History' # <<>> /\ ~ Finished(History'[1])
        BY <2>1, <2>3, <2>5 DEF NoMetadata, Fresh, Opened
    <2>7. Match(History)'
        BY <2>1, <2>6 DEF Match, Tells, Finished
    <2> QED
        BY <2>4, <2>7 DEF MetadataInv
<1> QED
    BY <1>1, <1>2, <1>3, <1>4 DEF Next, Serve

LEMMA InitMetadata == Init => MetadataInv
<1> SUFFICES ASSUME Init
             PROVE  (\A t \in Threads : ~ Ahead(t)) /\ Match(History)
    BY DEF MetadataInv
<1>1. /\ \A t \in Threads : worker[t] = NoThread
      /\ file = Entries(Before) /\ Before \in 0 .. 2
      /\ metadata = [by |-> Before, done |-> Before # 0]
    BY FileAssumption DEF Init, FileInit
<1>2. \A t \in Threads : ~ Ahead(t)
    BY <1>1 DEF Ahead, NoThread
<1>3. History = file
    BY <1>1, HistoryNow DEF NoWriter, NoThread
<1>4. Match(file)
    <2>1. file \in Seq(Entry) /\ Len(file) = Before
        BY <1>1, InitialLog
    <2>2. CASE Before = 0
        <3>1. file = <<>>
            BY <2>1, <2>2, EmptySeq
        <3> QED
            BY <1>1, <2>2, <3>1 DEF Match, NoMetadata
    <2>3. CASE Before # 0
        <3>1. 1 \in 1 .. Before /\ Before + 1 - 1 = Before
            BY <1>1, <2>3
        <3>2. file # <<>> /\ file[1].started = Before /\ file[1].finished = Before
            BY <1>1, <2>1, <3>1, InitialLog, EmptySeq
        <3>3. Finished(file[1]) = TRUE
            BY <2>3, <3>2 DEF Finished, Never
        <3> QED
            BY <1>1, <2>3, <3>2, <3>3 DEF Match, Tells
    <2> QED
        BY <2>2, <2>3
<1> QED
    BY <1>2, <1>3, <1>4

(* Between requests the metadata file and the newest entry of set.log tell *)
(* the same of the latest backup, as long as no two runs overlap and no    *)
(* bookkeeping was cut short: the handlers write the one before the other, *)
(* no other request can come in between, and an rsync that deletes the     *)
(* file does so while the newest entry is its own run's, unfinished.       *)
THEOREM MetadataAgrees == Spec => []MetadataMatchesLog
<1>1. CoreInv /\ MetadataInv => MetadataMatchesLog
    <2> SUFFICES ASSUME CoreInv, MetadataInv, Undisturbed, \A t \in Threads : ~ Busy(t)
                 PROVE  Match(file)
        BY DEF MetadataMatchesLog, Match
    <2>1. \A t \in Threads : worker[t].at \notin Rewriting
        BY BusySteps DEF CoreInv
    <2>2. \A t \in Threads : ~ Ahead(t)
        BY <2>1 DEF Ahead, Rewriting
    <2>3. History = file
        BY <2>1, HistoryNow DEF NoWriter, Rewriting
    <2>4. Match(History)
        BY <2>2 DEF MetadataInv
    <2> QED
        BY <2>3, <2>4
<1>2. Spec => [](CoreInv /\ SerialInv /\ PlaceInv /\ RecordInv /\ MetadataInv)
    <2>1. Init => CoreInv /\ SerialInv /\ PlaceInv /\ RecordInv /\ MetadataInv
        BY InitCore, InitSerial, InitPlace, InitRecord, InitMetadata
    <2>2. CoreInv /\ SerialInv /\ PlaceInv /\ RecordInv /\ MetadataInv /\ [Next]_vars
             => (CoreInv /\ SerialInv /\ PlaceInv /\ RecordInv /\ MetadataInv)'
        BY StepCore, StepSerial, StepPlace, StepRecord, StepMetadata
    <2> QED
        BY <2>1, <2>2, PTL DEF Spec
<1> QED
    BY <1>1, <1>2, PTL
=============================================================================
