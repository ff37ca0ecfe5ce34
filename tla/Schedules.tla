------------------------------ MODULE Schedules ------------------------------
(***************************************************************************)
(* One backup set on one host: the schedule in its YAML file and the job   *)
(* in /etc/cron.d, as set create, set delete, set edit and the cron        *)
(* commands change them - several at a time, each of them cut by a crash   *)
(* or a full disk.  (The server's part of the set commands is module       *)
(* SetLifecycle's.)                                                        *)
(*                                                                         *)
(* The YAML file is rewritten in place.  A job is written to a temporary   *)
(* file, the same for all commands, which then takes the job's name.       *)
(***************************************************************************)
EXTENDS Integers, FiniteSets

CONSTANTS
    Commands,   \* the command processes
    Times,      \* schedules
    Default,    \* the schedule of a set whose file has none
    Missing,    \* there is no such file
    Cut,        \* the file is empty, or a part of what was to be written
    MaxBegun    \* bound on the commands that are begun

ASSUME SchedulesAssumption ==
    /\ {Missing, Cut} \cap Times = {} /\ Missing # Cut
    /\ Default \in Times
    /\ MaxBegun \in Nat

VARIABLES
    yaml,       \* the set's file: its schedule, Missing or Cut
    job,        \* /etc/cron.d/blzbak-<set>
    temp,       \* /etc/cron.d/blzbak-<set>.tmp
    command,    \* per process, what it does
    begun,      \* commands begun so far: bounds the model
    disturbed,  \* history: a command was cut, or could not write a file
    overlapped, \* history: two commands have run at a time
    teed,       \* history: a job was written by sudo tee
    diverged,   \* history: the last schedule of the job or of the YAML file
                \* was given for that file only
    shared,     \* the commands whose file another has had open with them
    contended   \* history: two commands have had the same file of the job
                \* (the temporary one or itself) open at once

vars == <<yaml, job, temp, command, begun, disturbed, overlapped, teed, diverged,
          shared, contended>>

Contents == Times \cup {Missing, Cut}

(* time: the schedule the command works with; opened: what the file that   *)
(* it has opened is called by now, none when it was replaced or unlinked.  *)
Command ==
    [op : {"none", "create", "again", "delete", "install", "edit", "remove"},
     at : {"none", "open", "fill", "temp", "write", "replace", "tee", "teeing",
           "unlink", "rm"},
     time : Times \cup {Missing}, opened : {"none", "yaml", "temp", "job"}]

NoCommand == [op |-> "none", at |-> "none", time |-> Missing, opened |-> "none"]

Init ==
    /\ yaml = Missing /\ job = Missing /\ temp = Missing
    /\ command = [c \in Commands |-> NoCommand]
    /\ begun = 0
    /\ disturbed = FALSE /\ overlapped = FALSE /\ teed = FALSE /\ diverged = FALSE
    /\ shared = {} /\ contended = FALSE

Running(c) == command[c].op # "none"
At(c, at)  == command[c].at = at
GoTo(c, at) == command' = [command EXCEPT ![c].at = at]
End(c) == command' = [command EXCEPT ![c] = NoCommand]

Opens(c, at, name) ==
    command' = [command EXCEPT ![c].at = at, ![c].opened = name]

(* To open a file is to truncate it, for whoever has it open too.          *)
Holders(name) == {d \in Commands : command[d].opened = name}
Shares(c, name) ==
    shared' = IF Holders(name) = {} THEN shared \ {c} ELSE shared \cup Holders(name) \cup {c}

(* Each writes from the start, so that a shorter text of the one may end   *)
(* with the rest of a longer one of the other.                             *)
Written(c, name, content) ==
    IF command[c].opened # name THEN {content}
    ELSE IF c \in shared THEN {command[c].time, Cut} ELSE {command[c].time}

(* A part of the text, or nothing, is written.                             *)
Part(c, name, content) == {content} \cup (IF command[c].opened = name THEN {Cut} ELSE {})
Spoils(c) ==
    /\ yaml' \in Part(c, "yaml", yaml)
    /\ temp' \in Part(c, "temp", temp)
    /\ job' \in Part(c, "job", job)

(* The command goes on; what others have opened is called otherwise.       *)
Leaves(c, next, renamed) ==
    command' = [d \in Commands |->
        IF d = c THEN next
        ELSE [command[d] EXCEPT !.opened = IF @ \in DOMAIN renamed THEN renamed[@] ELSE @]]

files == <<yaml, job, temp>>
past  == <<begun, disturbed, overlapped, teed, shared, contended>>

-----------------------------------------------------------------------------
(* Commands begin: what they load and refuse                               *)

(* load_backup_set: what is left of a file that is cut may hold the name,  *)
(* and the rest is taken from the defaults; otherwise the command ends.    *)
Loaded == IF yaml \in Times THEN {yaml} ELSE IF yaml = Cut THEN {Default} ELSE {}

Begin(c, op, at, time) ==
    /\ ~ Running(c) /\ begun < MaxBegun
    /\ begun' = begun + 1
    /\ overlapped' = (overlapped \/ \E d \in Commands : Running(d))
    /\ command' = [command EXCEPT ![c] =
                      [op |-> op, at |-> at, time |-> time, opened |-> "none"]]
    /\ UNCHANGED <<files, disturbed, teed, shared, contended>>

SetCreate(c) ==
    /\ yaml = Missing
    /\ \E time \in Times : Begin(c, "create", "open", time)
    /\ diverged' = FALSE

SetDelete(c) ==
    /\ yaml # Missing
    /\ Begin(c, "delete", "unlink", Missing)
    /\ diverged' = FALSE

(* Mutant: the stored schedule is installed, whatever was read of it.      *)
CronInstallUnread(c) ==
    /\ yaml # Missing
    /\ Begin(c, "install", "temp", yaml)
    /\ diverged' = FALSE

(* The schedule that is given, or else the stored one.                     *)
CronInstall(c) ==
    \E stored \in Loaded, time \in Times :
        /\ Begin(c, "install", "temp", time)
        /\ diverged' = (time # stored)

(* The whole set is loaded here and saved after the job is installed.      *)
CronEdit(c) ==
    /\ Loaded # {}
    /\ \E time \in Times : Begin(c, "edit", "temp", time)
    /\ diverged' = FALSE

CronRemove(c) ==
    /\ Begin(c, "remove", "rm", Missing)
    /\ UNCHANGED diverged

(* The editor changes the schedule of the YAML file, and nothing else.     *)
SetEdit ==
    /\ Loaded # {}
    /\ \E time \in Times : yaml' = time
    /\ diverged' = TRUE
    /\ overlapped' = (overlapped \/ \E c \in Commands : Running(c))
    /\ shared' = shared \cup Holders("yaml")
    /\ UNCHANGED <<job, temp, command, begun, disturbed, teed, contended>>

-----------------------------------------------------------------------------
(* save_backup_set                                                         *)

OpenYaml(c) ==
    /\ At(c, "open")
    /\ yaml' = Cut
    /\ Opens(c, "fill", "yaml") /\ Shares(c, "yaml")
    /\ UNCHANGED <<job, temp, begun, disturbed, overlapped, teed, diverged, contended>>

AfterSave(c) ==
    IF command[c].op = "create" THEN Opens(c, "temp", "none") ELSE End(c)

(* Mutant: cron edit saves the set with a schedule it has loaded.          *)
FillYamlLoaded(c) ==
    /\ At(c, "fill")
    /\ yaml' \in IF command[c].op = "edit" THEN Times ELSE {command[c].time}
    /\ AfterSave(c)
    /\ UNCHANGED <<job, temp, past, diverged>>

FillYaml(c) ==
    /\ At(c, "fill")
    /\ yaml' \in Written(c, "yaml", yaml)
    /\ AfterSave(c)
    /\ UNCHANGED <<job, temp, past, diverged>>

-----------------------------------------------------------------------------
(* install_system_cron_job                                                 *)

(* Only root may write here; for others sudo does.                         *)
OpenTemp(c) ==
    /\ At(c, "temp")
    /\ \/ /\ temp' = Cut
          /\ Opens(c, "write", "temp") /\ Shares(c, "temp")
          /\ contended' = (contended \/ Holders("temp") # {})
       \/ GoTo(c, "tee") /\ UNCHANGED <<temp, shared, contended>>
    /\ UNCHANGED <<yaml, job, begun, disturbed, overlapped, teed, diverged>>

(* What was opened is written, whatever its name is by now.                *)
WriteTemp(c) ==
    /\ At(c, "write")
    /\ temp' \in Written(c, "temp", temp)
    /\ job' \in Written(c, "job", job)
    /\ Opens(c, "replace", "none")
    /\ UNCHANGED <<yaml, past, diverged>>

(* A part of it stays in the file, and sudo tee is to write the job.       *)
WriteTempFails(c) ==
    /\ At(c, "write")
    /\ Spoils(c)
    /\ Opens(c, "tee", "none")
    /\ disturbed' = TRUE
    /\ UNCHANGED <<begun, overlapped, teed, diverged, shared, contended>>

Installed(c) ==
    IF command[c].op = "edit" THEN [command[c] EXCEPT !.at = "open", !.opened = "none"]
    ELSE NoCommand

(* Mutant: the job is written in place.                                    *)
ReplaceInPlace(c) ==
    /\ At(c, "replace")
    /\ Opens(c, "teeing", "job")
    /\ job' = Cut
    /\ temp' = Missing
    /\ UNCHANGED <<yaml, past, diverged>>

(* Whoever still has the temporary file open has the job open from now on, *)
(* and whoever had the old job open, nothing.  Without a temporary file    *)
(* it is an error, and the job is written by sudo tee.                     *)
Replace(c) ==
    /\ At(c, "replace")
    /\ IF temp = Missing
       THEN GoTo(c, "tee") /\ UNCHANGED <<job, temp>>
       ELSE /\ job' = temp
            /\ temp' = Missing
            /\ Leaves(c, Installed(c), [temp |-> "job", job |-> "none"])
    /\ UNCHANGED <<yaml, past, diverged>>

OpenJob(c) ==
    /\ At(c, "tee")
    /\ job' = Cut
    /\ Opens(c, "teeing", "job") /\ Shares(c, "job")
    /\ teed' = TRUE
    /\ contended' = (contended \/ Holders("job") # {})
    /\ UNCHANGED <<yaml, temp, begun, disturbed, overlapped, diverged>>

Tee(c) ==
    /\ At(c, "teeing")
    /\ job' \in Written(c, "job", job)
    /\ command' = [command EXCEPT ![c] = Installed(c)]
    /\ UNCHANGED <<yaml, temp, past, diverged>>

-----------------------------------------------------------------------------
(* delete_backup_set, remove_system_cron_job                               *)

UnlinkYaml(c) ==
    /\ At(c, "unlink")
    /\ yaml' = Missing
    /\ LET next == IF yaml = Missing THEN NoCommand ELSE [command[c] EXCEPT !.at = "rm"]
       IN  Leaves(c, next, [yaml |-> "none"])
    /\ UNCHANGED <<job, temp, past, diverged>>

(* Mutant: like the other cron commands, it does nothing without a set.    *)
UnlinkJobOwned(c) ==
    /\ At(c, "rm")
    /\ job' = IF yaml = Missing THEN job ELSE Missing
    /\ End(c)
    /\ UNCHANGED <<yaml, temp, past, diverged>>

UnlinkJob(c) ==
    /\ At(c, "rm")
    /\ job' = Missing
    /\ Leaves(c, NoCommand, [job |-> "none"])
    /\ UNCHANGED <<yaml, temp, past, diverged>>

-----------------------------------------------------------------------------
(* Failures                                                                *)

(* A job that cannot be written is an error, and for set create a warning; *)
(* given a schedule, set create tries a second time.                       *)
InstallFails(c) ==
    /\ command[c].at \in {"temp", "tee", "teeing"}
    /\ Spoils(c)
    /\ \/ End(c)
       \/ /\ command[c].op = "create"
          /\ command' = [command EXCEPT ![c].op = "again", ![c].at = "temp",
                                        ![c].opened = "none"]
    /\ disturbed' = TRUE
    /\ UNCHANGED <<begun, overlapped, teed, diverged, shared, contended>>

(* The command is cut, or a file it has opened cannot be filled.           *)
Crash(c) ==
    /\ Running(c)
    /\ Spoils(c)
    /\ End(c)
    /\ disturbed' = TRUE
    /\ UNCHANGED <<begun, overlapped, teed, diverged, shared, contended>>

Fails(c) == WriteTempFails(c) \/ InstallFails(c) \/ Crash(c)

Start(c) ==
    \/ SetCreate(c)
    \/ SetDelete(c)
    \/ CronInstall(c)
    \/ CronEdit(c)
    \/ CronRemove(c)

Continue(c) ==
    \/ OpenYaml(c)
    \/ FillYaml(c)
    \/ OpenTemp(c)
    \/ WriteTemp(c)
    \/ Replace(c)
    \/ OpenJob(c)
    \/ Tee(c)
    \/ UnlinkYaml(c)
    \/ UnlinkJob(c)

Next ==
    \/ \E c \in Commands : Start(c) \/ Continue(c) \/ Fails(c)
    \/ SetEdit

Spec == Init /\ [][Next]_vars

-----------------------------------------------------------------------------
(* Properties                                                              *)

TypeOK ==
    /\ yaml \in Contents /\ job \in Contents /\ temp \in Contents
    /\ command \in [Commands -> Command]
    /\ begun \in Nat
    /\ {disturbed, overlapped, teed, diverged, contended} \subseteq BOOLEAN
    /\ shared \subseteq Commands

AtRest == \A c \in Commands : ~ Running(c)

(* Cron finds a whole job or none, once no command is at work: half a job  *)
(* is left only by commands that have one file of the job open at once, by *)
(* a cut of sudo tee, or by a command that is cut while another takes the  *)
(* temporary file away from it.  A command of root's that is cut anywhere  *)
(* does not leave it, and neither do commands that overlap otherwise       *)
(* (install_system_cron_job: "write file atomically").                     *)
JobWhole == AtRest /\ job = Cut => contended \/ (disturbed /\ (overlapped \/ teed))

(* The job runs a set that is there, at the time its YAML file tells,      *)
(* unless the one or the other was set alone: by cron install --schedule   *)
(* or by set edit (cmd_cron_edit keeps them in sync, cmd_set_delete        *)
(* removes both).                                                          *)
JobMatchesSet ==
    AtRest /\ ~ disturbed /\ ~ overlapped /\ ~ diverged /\ job # Missing => job = yaml

=============================================================================
