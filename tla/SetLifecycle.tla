---------------------------- MODULE SetLifecycle ----------------------------
(***************************************************************************)
(* The life of one backup set name: the clients' commands set create, set  *)
(* delete, backup run and cron install / remove, the set's YAML file and   *)
(* cron file on each host, and the set's directory on the server, whose    *)
(* handlers are SetDirectory's.  The server comes first in every command,  *)
(* the local files after it; nothing undoes the one when the other fails.  *)
(***************************************************************************)
EXTENDS SetDirectory

CONSTANT MaxCommands  \* bound on the commands that are begun

ASSUME LifecycleAssumption == MaxCommands \in Nat

VARIABLES
    command,       \* per host, the command it runs
    config,        \* per host, the create that saved its YAML file, or NoCommand
    cron,          \* the hosts with a cron file for the set
    commands,      \* commands begun so far: names them
    acknowledged,  \* history: creates answered ok, no DELETE_SET sent since
    failed         \* history: creates that ended in an error

clientVars == <<command, config, cron, commands, acknowledged, failed>>
vars == <<serverVars, clientVars>>

NoneRunning == [op |-> "none", id |-> NoCommand, at |-> "none"]

Command ==
    [op : {"none", "create", "purge", "delete", "run"}, id : Nat,
     at : {"none", "wait", "config", "cron", "rsync"}]

(* purge is set delete --delete-remote                                     *)
RequestOf == [create |-> "create", purge |-> "delete", run |-> "prepare"]
AfterAnswer == [create |-> "config", purge |-> "config", run |-> "rsync"]

Init ==
    /\ disk = {}
    /\ madeBy = NoCommand
    /\ worker = [t \in Threads |-> Idle]
    /\ overlapped = FALSE /\ crossed = FALSE
    /\ command = [h \in Hosts |-> NoneRunning]
    /\ config = [h \in Hosts |-> NoCommand]
    /\ cron = {}
    /\ commands = 0
    /\ acknowledged = {}
    /\ failed = {}

Running(h) == command[h].op # "none"
At(h, at)  == Running(h) /\ command[h].at = at

End(h) == command' = [command EXCEPT ![h] = NoneRunning]
Proceed(h, at) == command' = [command EXCEPT ![h].at = at]

FailedIf(h, error) ==
    failed' = IF error /\ command[h].op = "create"
              THEN failed \cup {command[h].id} ELSE failed

-----------------------------------------------------------------------------
(* Commands begin                                                          *)

Begin(h, op, at) ==
    /\ ~ Running(h)
    /\ commands < MaxCommands
    /\ commands' = commands + 1
    /\ command' = [command EXCEPT ![h] = [op |-> op, id |-> commands + 1, at |-> at]]

(* A thread that is idle, no matter which.                                 *)
Send(h, op) ==
    /\ Begin(h, op, "wait")
    /\ \E t \in Threads : worker[t] = Idle
    /\ Accept(CHOOSE t \in Threads : worker[t] = Idle, RequestOf[op], commands + 1)

(* A name that has a YAML file here is refused before the server is asked. *)
SetCreate(h) ==
    /\ config[h] = NoCommand
    /\ Send(h, "create")
    /\ UNCHANGED <<config, cron, acknowledged, failed>>

SetDeleteRemote(h) ==
    /\ config[h] # NoCommand
    /\ Send(h, "purge")
    /\ acknowledged' = {}
    /\ UNCHANGED <<config, cron, failed>>

SetDelete(h) ==
    /\ config[h] # NoCommand
    /\ Begin(h, "delete", "config")
    /\ UNCHANGED <<serverVars, config, cron, acknowledged, failed>>

BackupRun(h) ==
    /\ config[h] # NoCommand
    /\ Send(h, "run")
    /\ UNCHANGED <<config, cron, acknowledged, failed>>

CronInstall(h) ==
    /\ ~ Running(h) /\ config[h] # NoCommand
    /\ cron' = cron \cup {h}
    /\ UNCHANGED <<serverVars, command, config, commands, acknowledged, failed>>

CronRemove(h) ==
    /\ ~ Running(h)
    /\ cron' = cron \ {h}
    /\ UNCHANGED <<serverVars, command, config, commands, acknowledged, failed>>

-----------------------------------------------------------------------------
(* Answers                                                                 *)

Reply(t) ==
    /\ worker[t].at = "answer"
    /\ worker' = [worker EXCEPT ![t] = Idle]
    /\ IF \E h \in Hosts : At(h, "wait") /\ command[h].id = worker[t].id
       THEN \E h \in Hosts :
              /\ At(h, "wait") /\ command[h].id = worker[t].id
              /\ IF worker[t].ok THEN Proceed(h, AfterAnswer[command[h].op]) ELSE End(h)
              /\ FailedIf(h, ~ worker[t].ok)
              /\ acknowledged' = IF worker[t].ok /\ command[h].op = "create"
                                 THEN acknowledged \cup {command[h].id}
                                 ELSE acknowledged
       ELSE UNCHANGED <<command, failed, acknowledged>>
    /\ UNCHANGED <<disk, madeBy, historyVars, config, cron, commands>>

Connected(h) == \E t \in Threads : worker[t].id = command[h].id

(* Mutant: the end of the connection is not noticed.                       *)
GiveUpInTime(h) ==
    /\ At(h, "wait")
    /\ MayFail("giveUp") /\ Connected(h)
    /\ End(h)
    /\ FailedIf(h, TRUE)
    /\ UNCHANGED <<serverVars, config, cron, commands, acknowledged>>

(* The timeout, or the connection closed by a daemon that stopped: both    *)
(* end the command with an error, whatever the server did.                 *)
GiveUp(h) ==
    /\ At(h, "wait")
    /\ MayFail("giveUp") \/ ~ Connected(h)
    /\ End(h)
    /\ FailedIf(h, TRUE)
    /\ UNCHANGED <<serverVars, config, cron, commands, acknowledged>>

-----------------------------------------------------------------------------
(* The local part of the commands                                          *)

SaveConfig(h) ==
    /\ At(h, "config") /\ command[h].op = "create"
    /\ config' = [config EXCEPT ![h] = command[h].id]
    /\ Proceed(h, "cron")
    /\ UNCHANGED <<serverVars, cron, commands, acknowledged, failed>>

DeleteConfig(h) ==
    /\ At(h, "config") /\ command[h].op \in {"purge", "delete"}
    /\ config' = [config EXCEPT ![h] = NoCommand]
    /\ Proceed(h, "cron")
    /\ UNCHANGED <<serverVars, cron, commands, acknowledged, failed>>

(* A cron file that cannot be written or removed is only warned about.     *)
UpdateCron(h) ==
    /\ At(h, "cron")
    /\ \/ cron' = IF command[h].op = "create" THEN cron \cup {h} ELSE cron \ {h}
       \/ MayFail("cron") /\ UNCHANGED cron
    /\ End(h)
    /\ UNCHANGED <<serverVars, config, commands, acknowledged, failed>>

(* rsync makes C itself, but not the directory above it; if it succeeds    *)
(* BACKUP_COMPLETE, in the same step here, writes into C and logs.         *)
Rsync(h) ==
    /\ At(h, "rsync")
    /\ \/ "set" \in disk /\ disk' = disk \cup {"C", "log"}
       \/ ("set" \notin disk \/ MayFail("io")) /\ UNCHANGED disk
    /\ End(h)
    /\ UNCHANGED <<madeBy, worker, historyVars, config, cron, commands, acknowledged, failed>>

-----------------------------------------------------------------------------
(* Interruptions                                                           *)

Crash(h) ==
    /\ MayFail("crash")
    /\ Running(h)
    /\ End(h)
    /\ UNCHANGED <<serverVars, config, cron, commands, acknowledged, failed>>

Stop ==
    /\ MayFail("stop")
    /\ \E t \in Threads : worker[t] # Idle
    /\ worker' = [t \in Threads |-> Idle]
    /\ UNCHANGED <<disk, madeBy, historyVars, clientVars>>

Work(t) == Handle(t) /\ UNCHANGED <<historyVars, clientVars>>

Start(h) ==
    \/ SetCreate(h)
    \/ SetDeleteRemote(h)
    \/ SetDelete(h)
    \/ BackupRun(h)
    \/ CronInstall(h)
    \/ CronRemove(h)

Continue(h) == GiveUp(h) \/ SaveConfig(h) \/ DeleteConfig(h)

(* rsync has no timeout, and the cron file may need the user, who is asked *)
(* whether to use sudo, and for the password.                              *)
Finish(h) == UpdateCron(h) \/ Rsync(h)

Next ==
    \/ \E t \in Threads : Work(t) \/ Reply(t)
    \/ \E h \in Hosts : Start(h) \/ Continue(h) \/ Finish(h) \/ Crash(h)
    \/ Stop

(* Worker threads run and sockets have timeouts; nobody has to begin a     *)
(* command or to answer a prompt, rsync need not end, and nothing has to   *)
(* fail.                                                                   *)
Fairness ==
    /\ \A t \in Threads : WF_vars(Work(t) \/ Reply(t))
    /\ \A h \in Hosts : WF_vars(Continue(h))

Spec == Init /\ [][Next]_vars /\ Fairness

-----------------------------------------------------------------------------
(* Properties                                                              *)

(* Every variable has its type, nothing is outside the set's directory,    *)
(* and the directory that is there was made by a command.                  *)
TypeOK ==
    /\ disk \subseteq Items
    /\ disk # {} => "set" \in disk
    /\ madeBy \in 0 .. commands
    /\ disk = {} <=> madeBy = NoCommand
    /\ worker \in [Threads -> Worker]
    /\ overlapped \in BOOLEAN /\ crossed \in BOOLEAN
    /\ command \in [Hosts -> Command]
    /\ config \in [Hosts -> 0 .. commands]
    /\ cron \subseteq Hosts
    /\ commands \in Nat
    /\ acknowledged \subseteq 1 .. commands
    /\ failed \subseteq 1 .. commands

(* A set whose creation was acknowledged is there, whole and made by that  *)
(* creation, until somebody asks for its deletion.                         *)
Kept == \A i \in acknowledged : madeBy = i /\ {"set", "C", "O", "metadata"} \subseteq disk

(* That is so as long as no two creations or deletions of the name are     *)
(* handled at once, whatever backups overlap with them: no other command,  *)
(* no failure and no late worker removes the set or takes it over          *)
(* (create_set raises FileExistsError for a name that exists).             *)
AcknowledgedKept == ~ crossed => Kept

(* A creation that is answered with an error has left nothing of its own   *)
(* on the server, unless removing it failed too, whichever requests are    *)
(* handled at the same time (create_set's clean-up).                       *)
RejectedLeavesNothing ==
    \A t \in Threads :
        /\ Handling(t, "create", "answer")
        /\ ~ worker[t].ok /\ ~ worker[t].errors
        => madeBy # worker[t].id

(* A deletion that is answered ok has left nothing at all, as long as      *)
(* requests for the set do not overlap: another handler would make the     *)
(* directory again (delete_set collects the errors of its parts).          *)
DeletedIsGone ==
    ~ overlapped =>
        \A t \in Threads :
            Handling(t, "delete", "answer") /\ worker[t].ok => disk = {}

(* No command waits for the server for ever, also when the daemon stops    *)
(* meanwhile: every command ends, or gets to where rsync or the user keeps *)
(* it (DaemonClient._recv_exactly and the socket's timeout).               *)
CommandsEnd ==
    \A h \in Hosts : Running(h) ~> ~ Running(h) \/ At(h, "rsync") \/ At(h, "cron")

-----------------------------------------------------------------------------
(* What the repository says of the program, and the program does not do.   *)
(* Besides, it says that a name that exists is refused, and Kept, which    *)
(* rests on it, is false of two creations at once.                         *)

AtRest ==
    /\ \A t \in Threads : worker[t] = Idle
    /\ \A h \in Hosts : ~ Running(h)

(* "If server creation fails: Server automatically cleans up any partially *)
(* created directories" (SERVERSIDE_METADATA.md:75-76): once everything    *)
(* is at rest the server has no set made by a creation that failed.        *)
FailedCreateLeavesNothing == AtRest => madeBy \notin failed \ {NoCommand}

=============================================================================
