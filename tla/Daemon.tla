------------------------------- MODULE Daemon -------------------------------
(***************************************************************************)
(* `blzbak backup run` and the daemon: connections, requests and answers.  *)
(*                                                                         *)
(* A run opens a connection, sends PREPARE_BACKUP, keeps the connection    *)
(* open while rsync runs, sends BACKUP_COMPLETE on it and closes it.  The  *)
(* daemon has one thread per connection, which reads a request, handles it *)
(* (module SetLogFile), sends the answer and reads the next.  A client     *)
(* that gives up closes its end; the thread learns of it when it next      *)
(* reads or writes, and until then works on.                               *)
(***************************************************************************)
EXTENDS SetLogFile

CONSTANTS
    Clients,
    NoLink,      \* "not connected"
    MirrorsRoot, \* the source path ends in "/": rsync --delete owns C's root
    MaxRuns      \* bound on the number of runs, those before included

ASSUME DaemonAssumption ==
    NoLink \notin Threads /\ MaxRuns \in Nat /\ MirrorsRoot \in BOOLEAN

VARIABLES
    daemon,     \* "up", "stopping" or "down"
    link,       \* per thread, the two directions of its connection
    client,     \* per client, the run it is in
    runs,       \* runs so far: names them, bounds the model
    done,       \* history: the runs reported complete to their user
    overlapped  \* history: two runs, or two handlers, have overlapped

vars == <<fileVars, daemon, link, client, runs, done, overlapped>>

Message == [op : {"prepare", "complete"}, run : Nat, ok : BOOLEAN]

(* peer: the client's end is open; what is in the sockets' buffers.        *)
Link   == [peer : BOOLEAN, requests : Seq(Message), answers : Seq(Message)]
Closed == [peer |-> FALSE, requests |-> <<>>, answers |-> <<>>]

Client == [at : {"idle", "prepare", "rsync", "complete"}, run : Nat,
           on : Threads \cup {NoLink}]
Idle   == [at |-> "idle", run |-> 0, on |-> NoLink]

Init ==
    /\ FileInit
    /\ daemon = "up"
    /\ link = [t \in Threads |-> Closed]
    /\ client = [c \in Clients |-> Idle]
    /\ runs = Before
    /\ done = 1 .. Before
    /\ overlapped = FALSE

Request(op, run)    == [op |-> op, run |-> run, ok |-> FALSE]
Reply(op, run, ok)  == [op |-> op, run |-> run, ok |-> ok]

serverVars == <<fileVars, daemon, overlapped>>

-----------------------------------------------------------------------------
(* The client                                                              *)

(* The connection is accepted by a thread of its own, and the first        *)
(* request is sent.                                                        *)
Begin(c) ==
    /\ client[c].at = "idle" /\ runs < MaxRuns
    /\ daemon = "up"
    /\ \E t \in Threads : worker[t].at = "none"
    /\ runs' = runs + 1
    /\ LET new == CHOOSE t \in Threads : worker[t].at = "none"
       IN  /\ client' = [client EXCEPT ![c] =
                            [at |-> "prepare", run |-> runs + 1, on |-> new]]
           /\ link' = [link EXCEPT ![new] =
                          [peer |-> TRUE, answers |-> <<>>,
                           requests |-> << Request("prepare", runs + 1) >>]]
           /\ worker' = [worker EXCEPT ![new] = Waiting]
    /\ UNCHANGED <<file, archives, metadata, harmed, daemon, done, overlapped>>

(* main() closes the connection whenever and however the command ends.     *)
End(c) ==
    /\ client' = [client EXCEPT ![c] = Idle]
    /\ link' = IF client[c].on \in Threads
               THEN [link EXCEPT ![client[c].on].peer = FALSE, ![client[c].on].answers = <<>>]
               ELSE link

Answers(c) == IF client[c].on \in Threads THEN link[client[c].on].answers ELSE <<>>

Take(c, at) ==
    /\ client' = [client EXCEPT ![c].at = at]
    /\ link' = [link EXCEPT ![client[c].on].answers = Tail(@)]

TakePrepared(c) ==
    /\ client[c].at = "prepare"
    /\ Answers(c) # <<>>
    /\ IF Head(Answers(c)).ok THEN Take(c, "rsync") ELSE End(c)
    /\ UNCHANGED <<serverVars, runs, done>>

(* rsync deletes the metadata file from a root it owns, at some time of    *)
(* the transfer (unless the run is dry).                                   *)
RsyncDeletes(c) ==
    /\ MirrorsRoot
    /\ client[c].at = "rsync"
    /\ metadata' = NoMetadata
    /\ UNCHANGED <<file, archives, worker, harmed, daemon, link, client, runs, done, overlapped>>

(* rsync has ended well: the notification goes out on the connection, or   *)
(* the connection was lost with the daemon and the command ends.           *)
NotifyComplete(c) ==
    /\ client[c].at = "rsync"
    /\ IF client[c].on \in Threads
       THEN /\ client' = [client EXCEPT ![c].at = "complete"]
            /\ link' = [link EXCEPT ![client[c].on].requests =
                                       Append(@, Request("complete", client[c].run))]
       ELSE End(c)
    /\ UNCHANGED <<serverVars, runs, done>>

TakeCompleted(c) ==
    /\ client[c].at = "complete"
    /\ Answers(c) # <<>>
    /\ End(c)
    /\ done' = done \cup {client[c].run}
    /\ UNCHANGED <<serverVars, runs>>

(* Mutant: after a timeout the request is sent again, on the same          *)
(* connection.                                                             *)
GiveUpRetry(c) ==
    /\ "giveUp" \in Faults
    /\ client[c].at = "prepare" /\ client[c].on \in Threads
    /\ runs < MaxRuns
    /\ runs' = runs + 1
    /\ client' = [client EXCEPT ![c].run = runs + 1]
    /\ link' = [link EXCEPT ![client[c].on].requests =
                               Append(@, Request("prepare", runs + 1))]
    /\ UNCHANGED <<serverVars, done>>

(* TimeoutError is no DaemonError: it ends the command.                    *)
GiveUp(c) ==
    /\ "giveUp" \in Faults
    /\ client[c].at \in {"prepare", "complete"}
    /\ End(c)
    /\ UNCHANGED <<serverVars, runs, done>>

(* The daemon has closed its end: ConnectionError, which is not caught.    *)
ConnectionLost(c) ==
    /\ client[c].at \in {"prepare", "complete"}
    /\ client[c].on = NoLink
    /\ End(c)
    /\ UNCHANGED <<serverVars, runs, done>>

RsyncFails(c) ==
    /\ "rsync" \in Faults
    /\ client[c].at = "rsync"
    /\ End(c)
    /\ UNCHANGED <<serverVars, runs, done>>

Run(c) ==
    \/ TakePrepared(c)
    \/ NotifyComplete(c)
    \/ TakeCompleted(c)
    \/ GiveUp(c)
    \/ ConnectionLost(c)
    \/ RsyncFails(c)

-----------------------------------------------------------------------------
(* The daemon                                                              *)

Starts == [prepare |-> "diff", complete |-> "metadata"]

(* Another handler is at work, another run is between its requests, or a   *)
(* later run has begun before this request was read.                       *)
Overlaps(t, run) ==
    \/ \E u \in Threads \ {t} : Busy(u)
    \/ \E c \in Clients : client[c].at # "idle" /\ client[c].run # run
    \/ runs # run

Receive(t) ==
    /\ worker[t].at = "recv"
    /\ link[t].requests # <<>>
    /\ LET request == Head(link[t].requests)
       IN  /\ worker' = [worker EXCEPT ![t] =
                [op |-> request.op, run |-> request.run, at |-> Starts[request.op],
                 task |-> "started", entries |-> <<>>, archive |-> NoDiff, ok |-> FALSE]]
           /\ overlapped' = (overlapped \/ Overlaps(t, request.run))
    /\ link' = [link EXCEPT ![t].requests = Tail(@)]
    /\ UNCHANGED <<file, archives, metadata, harmed, daemon, client, runs, done>>

(* An answer to a peer that is gone is lost; the loop ends.                *)
Send(t) ==
    /\ worker[t].at = "answer"
    /\ IF link[t].peer
       THEN /\ link' = [link EXCEPT ![t].answers =
                           Append(@, Reply(worker[t].op, worker[t].run, worker[t].ok))]
            /\ worker' = [worker EXCEPT ![t] = Waiting]
       ELSE /\ link' = [link EXCEPT ![t] = Closed]
            /\ worker' = [worker EXCEPT ![t] = NoThread]
    /\ UNCHANGED <<file, archives, metadata, harmed, daemon, client, runs, done, overlapped>>

(* Mutant: an empty read is tried again as long as the daemon runs.        *)
CloseStopping(t) ==
    /\ worker[t].at = "recv" /\ daemon = "stopping"
    /\ ~ link[t].peer /\ link[t].requests = <<>>
    /\ worker' = [worker EXCEPT ![t] = NoThread]
    /\ link' = [link EXCEPT ![t] = Closed]
    /\ UNCHANGED <<file, archives, metadata, harmed, daemon, client, runs, done, overlapped>>

(* Mutant: the connection's entry is dropped, and its place not reset.    *)
CloseDropped(t) ==
    /\ worker[t].at = "recv"
    /\ ~ link[t].peer /\ link[t].requests = <<>>
    /\ worker' = [worker EXCEPT ![t] = NoThread]
    /\ link' = [u \in Threads \ {t} |-> link[u]]
    /\ UNCHANGED <<file, archives, metadata, harmed, daemon, client, runs, done, overlapped>>

(* recv returns nothing: the client has closed the connection.             *)
Close(t) ==
    /\ worker[t].at = "recv"
    /\ ~ link[t].peer /\ link[t].requests = <<>>
    /\ worker' = [worker EXCEPT ![t] = NoThread]
    /\ link' = [link EXCEPT ![t] = Closed]
    /\ UNCHANGED <<file, archives, metadata, harmed, daemon, client, runs, done, overlapped>>

Serve(t) ==
    \/ Receive(t)
    \/ Handle(t) /\ UNCHANGED <<daemon, link, client, runs, done, overlapped>>
    \/ Send(t)
    \/ Close(t)

(* No connection is accepted any more; the threads go on.  (A crash is a   *)
(* stop and an exit with nothing in between.)                              *)
Stop ==
    /\ "stop" \in Faults
    /\ daemon = "up"
    /\ daemon' = "stopping"
    /\ UNCHANGED <<fileVars, link, client, runs, done, overlapped>>

(* stop() has waited 2 s for each thread and returns; they are daemon      *)
(* threads, which the interpreter does not wait for.  An answer that is in *)
(* the client's buffer by then could be taken before this step as well.    *)
Exit ==
    /\ daemon = "stopping"
    /\ daemon' = "down"
    /\ EndThreads
    /\ link' = [t \in Threads |-> Closed]
    /\ client' = [c \in Clients |-> [client[c] EXCEPT !.on = NoLink]]
    /\ UNCHANGED <<runs, done, overlapped>>

Start ==
    /\ daemon = "down"
    /\ daemon' = "up"
    /\ UNCHANGED <<fileVars, link, client, runs, done, overlapped>>

Next ==
    \/ \E c \in Clients : Begin(c) \/ Run(c) \/ RsyncDeletes(c)
    \/ \E t \in Threads : Serve(t)
    \/ Stop
    \/ Exit
    \/ Start

Spec == Init /\ [][Next]_vars

(* A thread that has something to do goes on: there is no lock, and the    *)
(* tools it calls end.                                                     *)
FairSpec == Spec /\ \A t \in Threads : WF_vars(Serve(t))

-----------------------------------------------------------------------------
(* Properties                                                              *)

TypeOK ==
    /\ file \in Seq(Entry) /\ archives \in Nat
    /\ metadata \in [by : Nat, done : BOOLEAN]
    /\ worker \in [Threads -> Worker] /\ harmed \in BOOLEAN
    /\ daemon \in {"up", "stopping", "down"}
    /\ link \in [Threads -> Link] /\ client \in [Clients -> Client]
    /\ runs \in Nat /\ done \subseteq 1 .. runs /\ overlapped \in BOOLEAN

(* What a client takes for the answer to its request is the answer to its  *)
(* request: answers carry nothing that tells them apart, and are right     *)
(* only because nobody sends on after giving up (BlzbakClient._receive,    *)
(* ClientHandler.run).                                                     *)
AnswersMatch ==
    \A c \in Clients :
        client[c].at \in {"prepare", "complete"} =>
            \A i \in DOMAIN Answers(c) :
                /\ Answers(c)[i].op = client[c].at
                /\ Answers(c)[i].run = client[c].run

Undisturbed == ~ overlapped /\ ~ harmed

(* Through stops, crashes and full disks, and rewritings cut in the middle *)
(* by them, the backup numbers in set.log stay without a gap and newest    *)
(* first, as long as runs do not overlap (_write_set_log,                  *)
(* _create_set_log_entry_on_prepare).                                      *)
Contiguous ==
    ~ overlapped =>
        \A i \in 2 .. Len(file) : file[i].number = file[i - 1].number - 1

(* A backup that was reported complete is in set.log, begun and finished   *)
(* by that run, whatever later runs are cut short by the client or the     *)
(* tools (handle_backup_complete, _finalize_set_log_entry).                *)
Writer == \E t \in Threads : worker[t].at = "write"
History ==
    IF Writer THEN worker[CHOOSE t \in Threads : worker[t].at = "write"].entries
    ELSE file

RecordedWhenReported ==
    Undisturbed =>
        \A run \in done : \E i \in DOMAIN History :
            History[i].started = run /\ History[i].finished = run

(* No crash, stop, full disk or overlap of two handlers leaves an entry    *)
(* that names an archive which was not written (create_diff writes the     *)
(* archive before it rewrites set.log).                                    *)
DiffNamesArchive == \A i \in DOMAIN file : file[i].diff <= archives

(* Between requests the metadata file and the newest entry tell the same   *)
(* of the latest backup: whether it is finished, and whose it is - or      *)
(* nobody's, if rsync has deleted the file of that run, and                *)
(* BACKUP_COMPLETE made another without started_at (mark_backup_complete). *)
Tells(run, finished) ==
    /\ metadata.done = finished
    /\ metadata.by = run \/ (MirrorsRoot /\ metadata.by = 0)

MetadataMatchesLog ==
    Undisturbed /\ (\A t \in Threads : ~ Busy(t)) =>
        IF file = <<>> THEN metadata = NoMetadata
        ELSE Tells(file[1].started, Finished(file[1]))

(* As long as runs do not overlap, the three steps of a rewriting are one: *)
(* the log changes as in the model of the rotation (module SetLog), or is  *)
(* shortened by a failure.  A reader sees an emptied file only while a     *)
(* handler writes.                                                         *)
AtomicStep(old, new) ==
    \/ \E archive \in 1 .. archives : new = UpdateForDiff(old, archive)
    \/ \E run \in 1 .. runs : new \in {NewEntry(old, run), Finalize(old, run)}
    \/ harmed' /\ new \in Written(old)

StepsOfHistory == [][overlapped' \/ AtomicStep(History, History')]_History

(* The thread of a client that is gone ends: connections that were closed  *)
(* do not use up the daemon's threads.                                     *)
ThreadsFreed ==
    \A t \in Threads : worker[t].at # "none" /\ ~ link[t].peer ~> worker[t].at = "none"

-----------------------------------------------------------------------------
(* What the repository says of the program, and the program does not do.   *)

(* "Finalize the current (newest) set.log entry with finished time"        *)
(* (storage.py:320), by a server that "Handles multiple concurrent client  *)
(* connections" (daemon/README.md:7): the entry a finished run is stamped  *)
(* on is its own.                                                          *)
StampedByOwnRun ==
    \A i \in DOMAIN file : Finished(file[i]) => file[i].finished = file[i].started

=============================================================================
