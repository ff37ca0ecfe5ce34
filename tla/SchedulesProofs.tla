--------------------------- MODULE SchedulesProofs ---------------------------
(***************************************************************************)
(* Theorems about Schedules, for any commands, any schedules and any       *)
(* number of commands that are begun.                                      *)
(***************************************************************************)
EXTENDS Schedules, TLAPS

Installing == {"temp", "write", "replace", "tee", "teeing"}
Saving     == {"open", "fill"}

(* Where the commands can be, and what they can have opened there.         *)
Proper ==
    {k \in Command :
        /\ k.op = "none" => k = NoCommand
        /\ k.op \in {"create", "edit"} => k.at \in Saving \cup Installing
        /\ k.op \in {"again", "install"} => k.at \in Installing
        /\ k.op = "delete" => k.at \in {"unlink", "rm"}
        /\ k.op = "remove" => k.at = "rm"
        /\ k.at \in Saving \cup Installing => k.time \in Times
        /\ k.opened = "yaml" => k.at = "fill"
        /\ k.opened = "temp" => k.at = "write"
        /\ k.opened = "job" => k.at \in {"write", "teeing"}}

CommandInv == command \in [Commands -> Proper]

(* As long as no two commands had a file of the job open at once, whoever  *)
(* has one open has it alone, whatever its name is by now; and without     *)
(* cuts a file that is half written is open: the command that has opened   *)
(* it, under whatever name, will still write all of it.                    *)
SharedInv ==
    ~ contended =>
        \A c \in Commands : command[c].opened \in {"temp", "job"} => c \notin shared

CutInv ==
    ~ disturbed /\ ~ contended =>
        /\ temp = Cut => \E c \in Commands : command[c].opened = "temp"
        /\ job = Cut => \E c \in Commands : command[c].opened = "job"

(* One command at a time finds its files as it has left them ...           *)
Undisputed(c) ==
    /\ At(c, "fill") => command[c].opened = "yaml" /\ yaml = Cut
    /\ At(c, "write") => command[c].opened = "temp"
    /\ At(c, "replace") => temp = command[c].time
    /\ At(c, "teeing") => command[c].opened = "job" /\ teed
    /\ command[c].opened # "none" => c \notin shared

(* ... and only sudo tee has the job itself open.                          *)
AloneInv ==
    ~ overlapped =>
        /\ \A c, d \in Commands : Running(c) /\ Running(d) => c = d
        /\ \A c \in Commands : Undisputed(c)
        /\ job = Cut => teed

(* What a command that is neither cut nor overlapped has done so far.      *)
Kept(c) ==
    /\ command[c].op = "create" /\ command[c].at \in Installing =>
          yaml = command[c].time
    /\ command[c].op = "install" /\ ~ diverged => yaml = command[c].time
    /\ command[c].op = "edit" /\ command[c].at \in Saving => job = command[c].time
    /\ command[c].op = "delete" => (At(c, "unlink") <=> yaml # Missing)
    /\ command[c].op # "again"

InSync == ~ diverged /\ job # Missing => job = yaml

QuietInv ==
    ~ disturbed /\ ~ overlapped =>
        /\ yaml = Cut => \E c \in Commands : At(c, "fill")
        /\ \A c \in Commands : Kept(c)
        /\ (\A c \in Commands : Running(c) => command[c].op = "remove") => InSync

IInv == TypeOK /\ CommandInv /\ SharedInv /\ CutInv /\ AloneInv /\ QuietInv

LEMMA InitInv == Init => IInv
<1> SUFFICES ASSUME Init PROVE IInv
    OBVIOUS
<1>1. NoCommand \in Command /\ NoCommand \in Proper
    BY DEF NoCommand, Command, Proper, Saving, Installing
<1>2. TypeOK
    BY <1>1 DEF Init, TypeOK, Contents
<1>3. CommandInv /\ \A c \in Commands : command[c] = NoCommand
    BY <1>1 DEF Init, CommandInv
<1>4. Missing # Cut
    BY SchedulesAssumption
<1>5. SharedInv /\ CutInv /\ AloneInv
    BY <1>3, <1>4 DEF Init, SharedInv, CutInv, AloneInv, Running, Undisputed, At, NoCommand
<1>6. QuietInv
    BY <1>3, <1>4 DEF Init, QuietInv, Kept, At, InSync, NoCommand
<1> QED
    BY <1>2, <1>3, <1>5, <1>6 DEF IInv

-----------------------------------------------------------------------------
(* Facts about steps of one command                                        *)

(* A command that runs alone: the others are at rest.                      *)
LEMMA OthersRest ==
    ASSUME CommandInv, AloneInv, ~ overlapped, NEW c \in Commands, Running(c),
           NEW d \in Commands \ {c}
    PROVE  command[d] = NoCommand /\ ~ Running(d)
BY DEF CommandInv, AloneInv, Running, Proper

(* What a command can have at a step.                                      *)
LEMMA AtStep ==
    ASSUME CommandInv, NEW c \in Commands, command[c].at # "none"
    PROVE  Running(c) /\ command[c] \in Proper
BY DEF CommandInv, Proper, Running, NoCommand

(* One command changes, the others stay ...                                *)
LEMMA OneChanges ==
    ASSUME CommandInv, NEW c \in Commands, NEW next \in Proper,
           command' = [command EXCEPT ![c] = next]
    PROVE  /\ CommandInv' /\ command' \in [Commands -> Command]
           /\ command'[c] = next
           /\ \A d \in Commands \ {c} : command'[d] = command[d]
BY DEF CommandInv, Proper

(* ... or what they have opened is called otherwise.                       *)
LEMMA OthersRenamed ==
    ASSUME CommandInv, NEW c \in Commands, NEW next \in Proper,
           NEW renamed \in {[temp |-> "job", job |-> "none"], [yaml |-> "none"],
                            [job |-> "none"]},
           Leaves(c, next, renamed)
    PROVE  /\ CommandInv' /\ command' \in [Commands -> Command]
           /\ command'[c] = next
           /\ \A d \in Commands \ {c} :
                 /\ command'[d].op = command[d].op
                 /\ command'[d].at = command[d].at
                 /\ command'[d].time = command[d].time
                 /\ command'[d].opened =
                      IF command[d].opened \in DOMAIN renamed
                      THEN renamed[command[d].opened] ELSE command[d].opened
<1> DEFINE opened(d) == IF command[d].opened \in DOMAIN renamed
                        THEN renamed[command[d].opened] ELSE command[d].opened
           other(d) == [op |-> command[d].op, at |-> command[d].at,
                        time |-> command[d].time, opened |-> opened(d)]
<1>1. \A d \in Commands : command[d] \in Proper /\ command[d] \in Command
    BY DEF CommandInv, Proper
<1>2. ASSUME NEW d \in Commands
      PROVE  /\ opened(d) \in {"none", "yaml", "temp", "job"}
             /\ opened(d) = "yaml" => command[d].opened = "yaml"
             /\ opened(d) = "temp" => command[d].opened = "temp"
             /\ opened(d) = "job" => command[d].opened \in {"temp", "job"}
             /\ command[d].opened = "none" => opened(d) = "none"
    BY <1>1 DEF Command
<1>3. command' = [d \in Commands |-> IF d = c THEN next ELSE other(d)]
    <2>1. ASSUME NEW d \in Commands
          PROVE  [command[d] EXCEPT !.opened = IF @ \in DOMAIN renamed THEN renamed[@] ELSE @]
                 = other(d)
        BY <1>1 DEF Command
    <2> QED
        BY <2>1 DEF Leaves
<1> HIDE DEF opened
<1>4. ASSUME NEW d \in Commands
      PROVE  other(d) \in Proper
    <2>1. other(d) \in Command
        BY <1>1, <1>2 DEF Command
    <2>2. command[d].op = "none" => other(d) = NoCommand
        BY <1>1, <1>2 DEF Proper, NoCommand
    <2> QED
        BY <1>1, <1>2, <2>1, <2>2 DEF Proper
<1> HIDE DEF other
<1>5. CommandInv' /\ command' \in [Commands -> Command] /\ command'[c] = next
    BY <1>3, <1>4 DEF CommandInv, Proper
<1>6. \A d \in Commands \ {c} : command'[d] = other(d)
    BY <1>3
<1> QED
    BY <1>5, <1>6 DEF other, opened

-----------------------------------------------------------------------------
(* Commands begin                                                          *)

LEMMA BeginStep ==
    ASSUME IInv, NEW c \in Commands, NEW op, NEW at, NEW time,
           Begin(c, op, at, time), diverged' \in BOOLEAN,
           op # "none", at \notin {"fill", "write", "replace", "teeing"},
           [op |-> op, at |-> at, time |-> time, opened |-> "none"] \in Proper
    PROVE  /\ TypeOK' /\ CommandInv' /\ SharedInv' /\ CutInv' /\ AloneInv'
           /\ command'[c] = [op |-> op, at |-> at, time |-> time, opened |-> "none"]
           /\ UNCHANGED <<yaml, job, temp, disturbed>>
           /\ ~ overlapped' =>
                 /\ ~ overlapped
                 /\ \A d \in Commands : ~ Running(d)
                 /\ \A d \in Commands \ {c} : command'[d] = NoCommand
<1> USE DEF IInv
<1> DEFINE new == [op |-> op, at |-> at, time |-> time, opened |-> "none"]
<1>1. /\ command' = [command EXCEPT ![c] = new]
      /\ UNCHANGED <<yaml, job, temp, disturbed, teed, shared, contended>>
      /\ begun' = begun + 1
      /\ ~ Running(c)
      /\ overlapped' = (overlapped \/ \E d \in Commands : Running(d))
    BY DEF Begin, files
<1>2. /\ CommandInv' /\ command' \in [Commands -> Command]
      /\ command'[c] = new
      /\ \A d \in Commands \ {c} : command'[d] = command[d]
    BY <1>1, OneChanges
<1>3. overlapped' \in BOOLEAN
    BY <1>1
<1>4. TypeOK'
    BY <1>1, <1>2, <1>3 DEF TypeOK
<1>5. command[c] = NoCommand
    BY <1>1 DEF CommandInv, Proper, Running
<1>6. CutInv' /\ SharedInv'
    <2>1. command[c].opened = "none"
        BY <1>5 DEF NoCommand
    <2> QED
        BY <1>1, <1>2, <2>1 DEF CutInv, SharedInv
<1>7. ~ overlapped' =>
          /\ ~ overlapped
          /\ \A d \in Commands : ~ Running(d)
          /\ \A d \in Commands \ {c} : command'[d] = NoCommand
    BY <1>1, <1>2 DEF CommandInv, Proper, Running
<1>8. AloneInv'
    <2>1. NoCommand.op = "none" /\ NoCommand.at = "none" /\ NoCommand.opened = "none"
        BY DEF NoCommand
    <2>2. new.at = at /\ new.opened = "none"
        OBVIOUS
    <2>3. ASSUME ~ overlapped', NEW d \in Commands
          PROVE  Undisputed(d)' /\ (Running(d)' => d = c)
        BY <1>2, <1>7, <2>1, <2>2, <2>3 DEF Undisputed, At, Running
    <2> QED
        BY <1>1, <1>7, <2>3 DEF AloneInv
<1> QED
    BY <1>1, <1>2, <1>4, <1>6, <1>7, <1>8

LEMMA StartStep ==
    ASSUME IInv, NEW c \in Commands, Start(c)
    PROVE  IInv'
<1> USE DEF IInv
<1> DEFINE new(op, at, time) == [op |-> op, at |-> at, time |-> time, opened |-> "none"]
<1>0. NoCommand.op = "none" /\ NoCommand.at = "none" /\ Missing # Cut
      /\ {Missing, Cut} \cap Times = {} /\ Default \in Times
    BY SchedulesAssumption DEF NoCommand
<1>1. CASE SetCreate(c)
    <2>1. PICK time \in Times : Begin(c, "create", "open", time)
        BY <1>1 DEF SetCreate
    <2>2. new("create", "open", time) \in Proper /\ diverged' = FALSE
        BY <1>1 DEF Proper, Command, Saving, Installing, SetCreate
    <2>3. /\ TypeOK' /\ CommandInv' /\ SharedInv' /\ CutInv' /\ AloneInv'
          /\ command'[c] = new("create", "open", time)
          /\ yaml' = yaml
          /\ ~ overlapped' => \A d \in Commands \ {c} : command'[d] = NoCommand
        BY <2>1, <2>2, BeginStep
    <2>4. QuietInv'
        BY <1>0, <1>1, <2>3 DEF QuietInv, Kept, Running, At, Installing, SetCreate
    <2> QED
        BY <2>3, <2>4
<1>2. CASE SetDelete(c)
    <2>1. Begin(c, "delete", "unlink", Missing) /\ yaml # Missing /\ diverged' = FALSE
        BY <1>2 DEF SetDelete
    <2>2. new("delete", "unlink", Missing) \in Proper
        BY DEF Proper, Command, Saving, Installing
    <2>3. /\ TypeOK' /\ CommandInv' /\ SharedInv' /\ CutInv' /\ AloneInv'
          /\ command'[c] = new("delete", "unlink", Missing)
          /\ UNCHANGED <<yaml, disturbed>>
          /\ ~ overlapped' =>
                /\ ~ overlapped
                /\ \A d \in Commands : ~ Running(d)
                /\ \A d \in Commands \ {c} : command'[d] = NoCommand
        BY <2>1, <2>2, BeginStep
    <2>4. ~ disturbed' /\ ~ overlapped' => yaml' # Cut
        BY <2>3 DEF QuietInv, At, Running, CommandInv, Proper, NoCommand
    <2>5. QuietInv'
        BY <1>0, <2>1, <2>3, <2>4 DEF QuietInv, Kept, Running, At
    <2> QED
        BY <2>3, <2>5
<1>3. CASE CronInstall(c)
    <2>1. PICK stored \in Loaded, time \in Times :
              Begin(c, "install", "temp", time) /\ diverged' = (time # stored)
        BY <1>3 DEF CronInstall
    <2>2. new("install", "temp", time) \in Proper /\ diverged' \in BOOLEAN
        BY <2>1 DEF Proper, Command, Saving, Installing
    <2>3. /\ TypeOK' /\ CommandInv' /\ SharedInv' /\ CutInv' /\ AloneInv'
          /\ command'[c] = new("install", "temp", time)
          /\ UNCHANGED <<yaml, disturbed>>
          /\ ~ overlapped' =>
                /\ ~ overlapped
                /\ \A d \in Commands : ~ Running(d)
                /\ \A d \in Commands \ {c} : command'[d] = NoCommand
        BY <2>1, <2>2, BeginStep
    <2>4. ~ disturbed' /\ ~ overlapped' => yaml' # Cut
        BY <2>3 DEF QuietInv, At, Running, CommandInv, Proper, NoCommand
    <2>5. ~ disturbed' /\ ~ overlapped' /\ ~ diverged' => yaml' = time
        BY <2>1, <2>3, <2>4 DEF Loaded
    <2>6. QuietInv'
        BY <1>0, <2>3, <2>4, <2>5 DEF QuietInv, Kept, Running, At
    <2> QED
        BY <2>3, <2>6
<1>4. CASE CronEdit(c)
    <2>1. PICK time \in Times : Begin(c, "edit", "temp", time)
        BY <1>4 DEF CronEdit
    <2>2. new("edit", "temp", time) \in Proper /\ diverged' = FALSE
        BY <1>4 DEF Proper, Command, Saving, Installing, CronEdit
    <2>3. /\ TypeOK' /\ CommandInv' /\ SharedInv' /\ CutInv' /\ AloneInv'
          /\ command'[c] = new("edit", "temp", time)
          /\ UNCHANGED <<yaml, disturbed>>
          /\ ~ overlapped' =>
                /\ ~ overlapped
                /\ \A d \in Commands : ~ Running(d)
                /\ \A d \in Commands \ {c} : command'[d] = NoCommand
        BY <2>1, <2>2, BeginStep
    <2>4. ~ disturbed' /\ ~ overlapped' => yaml' # Cut
        BY <2>3 DEF QuietInv, At, Running, CommandInv, Proper, NoCommand
    <2>5. QuietInv'
        BY <1>0, <2>3, <2>4 DEF QuietInv, Kept, Running, At, Saving
    <2> QED
        BY <2>3, <2>5
<1>5. CASE CronRemove(c)
    <2>1. Begin(c, "remove", "rm", Missing) /\ diverged' = diverged
        BY <1>5 DEF CronRemove
    <2>2. new("remove", "rm", Missing) \in Proper /\ diverged' \in BOOLEAN
        BY <2>1 DEF Proper, Command, Saving, Installing, TypeOK
    <2>3. /\ TypeOK' /\ CommandInv' /\ SharedInv' /\ CutInv' /\ AloneInv'
          /\ command'[c] = new("remove", "rm", Missing)
          /\ UNCHANGED <<yaml, job, disturbed>>
          /\ ~ overlapped' =>
                /\ ~ overlapped
                /\ \A d \in Commands : ~ Running(d)
                /\ \A d \in Commands \ {c} : command'[d] = NoCommand
        BY <2>1, <2>2, BeginStep
    <2>4. ~ disturbed' /\ ~ overlapped' => yaml' # Cut /\ InSync'
        BY <2>1, <2>3 DEF QuietInv, At, Running, CommandInv, Proper, NoCommand, InSync
    <2>5. QuietInv'
        BY <1>0, <2>3, <2>4 DEF QuietInv, Kept, Running, At
    <2> QED
        BY <2>3, <2>5
<1> QED
    BY <1>1, <1>2, <1>3, <1>4, <1>5 DEF Start

(* The editor.                                                             *)
LEMMA SetEditStep ==
    ASSUME IInv, SetEdit
    PROVE  IInv'
<1> USE DEF IInv
<1>1. /\ UNCHANGED <<job, temp, command, begun, disturbed, teed, contended>>
      /\ diverged' = TRUE /\ shared' = shared \cup Holders("yaml")
      /\ overlapped' = (overlapped \/ \E c \in Commands : Running(c))
    BY DEF SetEdit
<1>2. yaml' \in Times /\ yaml' # Cut
    BY SchedulesAssumption DEF SetEdit
<1>3. overlapped' \in BOOLEAN /\ diverged' \in BOOLEAN /\ Holders("yaml") \subseteq Commands
    BY <1>1 DEF Holders
<1>4. TypeOK'
    BY <1>1, <1>2, <1>3 DEF TypeOK, Contents
<1>5. CommandInv' /\ CutInv' /\ SharedInv'
    BY <1>1 DEF CommandInv, CutInv, SharedInv, Holders
<1>6. ~ overlapped' => ~ overlapped /\ \A c \in Commands : command[c] = NoCommand
    BY <1>1 DEF CommandInv, Proper, Running
<1>7. NoCommand.op = "none" /\ NoCommand.at = "none" /\ NoCommand.opened = "none"
    BY DEF NoCommand
<1>8. AloneInv' /\ QuietInv'
    BY <1>1, <1>2, <1>6, <1>7
    DEF AloneInv, QuietInv, Undisputed, Kept, Running, At, InSync
<1> QED
    BY <1>4, <1>5, <1>8

-----------------------------------------------------------------------------
(* Commands go on                                                          *)

(* A command that has nothing left to do.                                  *)
LEMMA NoCommandProper ==
    /\ NoCommand \in Proper /\ NoCommand.op = "none" /\ NoCommand.at = "none"
    /\ NoCommand.opened = "none"
BY DEF NoCommand, Proper, Command, Saving, Installing

(* What a step of one command has to leave so that it and the others find  *)
(* the files as they should.                                               *)
LEMMA GoesOn ==
    ASSUME IInv, CommandInv', NEW c \in Commands, Running(c), overlapped' = overlapped,
           \A d \in Commands \ {c} : /\ command'[d].op = command[d].op
                                     /\ command'[d].at = command[d].at,
           ~ overlapped => Undisputed(c)' /\ (job' = Cut => teed'),
           ~ disturbed' /\ ~ overlapped =>
                /\ yaml' = Cut => At(c, "fill")'
                /\ Kept(c)'
                /\ command'[c].op \in {"none", "remove"} => InSync'
    PROVE  AloneInv' /\ QuietInv'
<1> USE DEF IInv
<1>1. ASSUME ~ overlapped, NEW d \in Commands \ {c}
      PROVE  command'[d].op = "none" /\ command'[d].at = "none" /\ command'[d].opened = "none"
    BY <1>1, OthersRest, NoCommandProper DEF CommandInv, Proper
<1>2. ASSUME ~ overlapped, NEW d \in Commands \ {c}
      PROVE  ~ Running(d)' /\ Undisputed(d)' /\ Kept(d)'
    BY <1>1, <1>2 DEF Running, Undisputed, Kept, At
<1>3. AloneInv'
    BY <1>2 DEF AloneInv
<1>4. QuietInv'
    BY <1>2 DEF QuietInv, Running
<1> QED
    BY <1>3, <1>4

(* Who opens nothing, and has nothing new, shares nothing more.            *)
LEMMA SharedStays ==
    ASSUME SharedInv, NEW c \in Commands, UNCHANGED <<shared, contended>>,
           command'[c].opened \in {"none", command[c].opened},
           \A d \in Commands \ {c} :
              command'[d].opened \in {"temp", "job"} => command[d].opened \in {"temp", "job"}
    PROVE  SharedInv'
BY DEF SharedInv

(* A file that is opened is the command's alone, if the commands run one   *)
(* at a time; and if a file of the job is not, it is contended.            *)
LEMMA SharesStep ==
    ASSUME IInv, NEW c \in Commands, Running(c), command[c].opened = "none",
           NEW name \in {"yaml", "temp", "job"}, Shares(c, name),
           contended' \in BOOLEAN, contended => contended',
           name # "yaml" /\ Holders(name) # {} => contended',
           command'[c].opened = name,
           \A d \in Commands \ {c} : command'[d] = command[d]
    PROVE  /\ SharedInv' /\ shared' \subseteq Commands
           /\ ~ overlapped => c \notin shared'
<1>1. Holders(name) \subseteq Commands
    BY DEF Holders
<1>2. shared' \subseteq Commands
    BY <1>1 DEF IInv, TypeOK, Shares
<1>3. ~ overlapped => Holders(name) = {}
    BY OthersRest DEF IInv, NoCommand, Holders
<1>4. SharedInv'
    <2>1. CASE Holders(name) = {}
        BY <2>1 DEF IInv, SharedInv, Shares
    <2>2. CASE Holders(name) # {}
        BY <2>2 DEF IInv, SharedInv, Shares, Holders
    <2> QED
        BY <2>1, <2>2
<1> QED
    BY <1>2, <1>3, <1>4 DEF Shares

LEMMA OpensStep ==
    ASSUME CommandInv, NEW c \in Commands, NEW at, NEW name, Opens(c, at, name),
           [op |-> command[c].op, at |-> at, time |-> command[c].time, opened |-> name]
               \in Proper
    PROVE  /\ CommandInv' /\ command' \in [Commands -> Command]
           /\ command'[c] = [op |-> command[c].op, at |-> at, time |-> command[c].time,
                             opened |-> name]
           /\ \A d \in Commands \ {c} : command'[d] = command[d]
<1> DEFINE new == [op |-> command[c].op, at |-> at, time |-> command[c].time,
                   opened |-> name]
<1>1. command \in [Commands -> Command] /\ new \in Command
    BY DEF CommandInv, Proper
<1>2. /\ at \in {"none", "open", "fill", "temp", "write", "replace", "tee", "teeing",
                "unlink", "rm"}
      /\ name \in {"none", "yaml", "temp", "job"}
    BY <1>1 DEF Command
<1>3. /\ command' \in [Commands -> Command]
      /\ command'[c].op = command[c].op /\ command'[c].at = at
      /\ command'[c].time = command[c].time /\ command'[c].opened = name
      /\ \A d \in Commands \ {c} : command'[d] = command[d]
    BY <1>1, <1>2 DEF Opens, Command
<1>4. command'[c] = new
    BY <1>1, <1>3 DEF Command
<1> QED
    BY <1>3, <1>4 DEF CommandInv, Proper

LEMMA OpenYamlStep ==
    ASSUME IInv, NEW c \in Commands, OpenYaml(c)
    PROVE  IInv'
<1> USE DEF IInv
<1> DEFINE new == [op |-> command[c].op, at |-> "fill", time |-> command[c].time,
                   opened |-> "yaml"]
<1>1. /\ command[c].at = "open" /\ yaml' = Cut
      /\ Opens(c, "fill", "yaml") /\ Shares(c, "yaml")
      /\ UNCHANGED <<job, temp, begun, disturbed, overlapped, teed, diverged, contended>>
    BY DEF OpenYaml, At
<1>2. /\ Running(c) /\ command[c] \in Proper /\ command[c].op \in {"create", "edit"}
      /\ command[c].opened = "none"
    BY <1>1, AtStep DEF Proper, Command, Running, Installing
<1>3. new \in Proper
    BY <1>1, <1>2 DEF Proper, Command, Installing, Saving
<1>4. /\ CommandInv' /\ command' \in [Commands -> Command]
      /\ command'[c] = new
      /\ \A d \in Commands \ {c} : command'[d] = command[d]
    BY <1>1, <1>3, OpensStep
<1>8. /\ SharedInv' /\ contended' \in BOOLEAN /\ shared' \subseteq Commands
      /\ ~ overlapped => c \notin shared'
    <2>1. contended' \in BOOLEAN /\ contended' = contended
        BY <1>1 DEF TypeOK
    <2>2. command'[c].opened = "yaml"
        BY <1>4
    <2> QED
        BY <1>1, <1>2, <1>4, <2>1, <2>2, SharesStep
<1>5. TypeOK'
    BY <1>1, <1>4, <1>8 DEF TypeOK, Contents
<1>6. CutInv'
    BY <1>1, <1>2, <1>4 DEF CutInv
<1>7. AloneInv' /\ QuietInv'
    <2>1. ~ overlapped => Undisputed(c)' /\ (job' = Cut => teed')
        BY <1>1, <1>4, <1>8 DEF AloneInv, Undisputed, At
    <2>2. ~ disturbed /\ ~ overlapped => Kept(c)'
        BY <1>1, <1>2, <1>4 DEF QuietInv, Kept, Installing, Saving
    <2> QED
        BY <1>1, <1>2, <1>4, <2>1, <2>2, GoesOn DEF At
<1> QED
    BY <1>4, <1>5, <1>6, <1>7, <1>8

LEMMA FillYamlStep ==
    ASSUME IInv, NEW c \in Commands, FillYaml(c)
    PROVE  IInv'
<1> USE DEF IInv
<1> DEFINE time == command[c].time
           new == IF command[c].op = "create"
                  THEN [op |-> "create", at |-> "temp", time |-> time, opened |-> "none"]
                  ELSE NoCommand
<1>1. /\ command[c].at = "fill" /\ AfterSave(c)
      /\ yaml' \in Written(c, "yaml", yaml)
      /\ UNCHANGED <<job, temp, begun, disturbed, overlapped, teed, diverged, shared,
                     contended>>
    BY DEF FillYaml, At, past
<1>2. /\ Running(c) /\ command[c] \in Proper /\ command[c].op \in {"create", "edit"}
      /\ time \in Times /\ time \notin {Missing, Cut}
    BY <1>1, AtStep, SchedulesAssumption DEF Proper, Command, Running, Installing, Saving
<1>3. new \in Proper
    BY <1>2, NoCommandProper DEF Proper, Command, Installing, Saving
<1>4. /\ CommandInv' /\ command' \in [Commands -> Command]
      /\ command'[c] = new
      /\ \A d \in Commands \ {c} : command'[d] = command[d]
    <2>1. CASE command[c].op = "create"
        BY <1>1, <1>3, <2>1, OpensStep DEF AfterSave
    <2>2. CASE command[c].op # "create"
        <3>1. command' = [command EXCEPT ![c] = NoCommand]
            BY <1>1, <2>2 DEF AfterSave, End
        <3> QED
            BY <1>3, <2>2, <3>1, OneChanges
    <2> QED
        BY <2>1, <2>2
<1>5. TypeOK'
    BY <1>1, <1>2, <1>4 DEF TypeOK, Contents, Written
<1>6. CutInv' /\ SharedInv'
    <2>1. command[c].opened \notin {"temp", "job"} /\ command'[c].opened = "none"
        BY <1>1, <1>2, <1>4, NoCommandProper DEF Proper
    <2> QED
        BY <1>1, <1>4, <2>1, SharedStays DEF CutInv
<1>7. AloneInv' /\ QuietInv'
    <2>1. ~ overlapped => yaml' = time
        BY <1>1 DEF AloneInv, Undisputed, At, Written
    <2>2. ~ overlapped => Undisputed(c)' /\ (job' = Cut => teed')
        BY <1>1, <1>4, NoCommandProper DEF AloneInv, Undisputed, At
    <2>3. ~ disturbed /\ ~ overlapped => Kept(c)'
        BY <1>4, <2>1, NoCommandProper DEF Kept
    <2>4. ~ disturbed /\ ~ overlapped /\ command'[c].op \in {"none", "remove"} => InSync'
        <3>1. ~ disturbed /\ ~ overlapped /\ command[c].op = "edit" => job = time
            BY <1>1 DEF QuietInv, Kept, Saving
        <3> QED
            BY <1>1, <1>2, <1>4, <2>1, <3>1 DEF InSync
    <2> QED
        BY <1>1, <1>2, <1>4, <2>1, <2>2, <2>3, <2>4, GoesOn
<1> QED
    BY <1>4, <1>5, <1>6, <1>7

LEMMA GoToStep ==
    ASSUME CommandInv, NEW c \in Commands, NEW at, GoTo(c, at),
           command[c].opened = "none",
           [op |-> command[c].op, at |-> at, time |-> command[c].time, opened |-> "none"]
               \in Proper
    PROVE  /\ CommandInv' /\ command' \in [Commands -> Command]
           /\ command'[c] = [op |-> command[c].op, at |-> at, time |-> command[c].time,
                             opened |-> "none"]
           /\ \A d \in Commands \ {c} : command'[d] = command[d]
<1> DEFINE new == [op |-> command[c].op, at |-> at, time |-> command[c].time,
                   opened |-> "none"]
<1>1. command \in [Commands -> Command] /\ new \in Command
    BY DEF CommandInv, Proper
<1>2. at \in {"none", "open", "fill", "temp", "write", "replace", "tee", "teeing",
              "unlink", "rm"}
    BY <1>1 DEF Command
<1>3. /\ command' \in [Commands -> Command]
      /\ command'[c].op = command[c].op /\ command'[c].at = at
      /\ command'[c].time = command[c].time /\ command'[c].opened = "none"
      /\ \A d \in Commands \ {c} : command'[d] = command[d]
    BY <1>1, <1>2 DEF GoTo, Command
<1>4. command'[c] = new
    BY <1>1, <1>3 DEF Command
<1> QED
    BY <1>3, <1>4 DEF CommandInv, Proper

(* Which commands install a job, and with what schedule.                   *)
LEMMA InstallingCommand ==
    ASSUME CommandInv, NEW c \in Commands, command[c].at \in Installing
    PROVE  /\ Running(c) /\ command[c] \in Proper
           /\ command[c].op \in {"create", "again", "install", "edit"}
           /\ command[c].time \in Times /\ command[c].time \notin {Missing, Cut}
           /\ command[c].at \notin {"write", "teeing"} => command[c].opened = "none"
           /\ command[c].opened = "temp" => command[c].at = "write"
           /\ command[c].opened # "yaml"
<1>1. command[c] \in Proper /\ Running(c)
    BY AtStep DEF Installing
<1> QED
    BY <1>1, SchedulesAssumption DEF Proper, Command, Running, Installing, Saving

(* While a job is being installed and no other command runs, the YAML file *)
(* is whole.                                                               *)
LEMMA YamlWhole ==
    ASSUME IInv, NEW c \in Commands, Running(c), ~ At(c, "fill"), ~ disturbed, ~ overlapped
    PROVE  yaml # Cut
<1>1. \A d \in Commands : ~ At(d, "fill")
    BY OthersRest, NoCommandProper DEF At, IInv
<1> QED
    BY <1>1 DEF IInv, QuietInv

LEMMA OpenTempStep ==
    ASSUME IInv, NEW c \in Commands, OpenTemp(c)
    PROVE  IInv'
<1> USE DEF IInv
<1> DEFINE k == command[c]
           new(at, name) == [op |-> k.op, at |-> at, time |-> k.time, opened |-> name]
<1>1. /\ k.at = "temp"
      /\ UNCHANGED <<yaml, job, begun, disturbed, overlapped, teed, diverged>>
    BY DEF OpenTemp, At
<1>2. /\ Running(c) /\ k \in Proper /\ k.op \in {"create", "again", "install", "edit"}
      /\ k.time \in Times /\ k.opened = "none"
    BY <1>1, InstallingCommand DEF Installing
<1>3. new("write", "temp") \in Proper /\ new("tee", "none") \in Proper
    BY <1>2 DEF Proper, Command, Installing, Saving
<1>4. CASE /\ temp' = Cut /\ Opens(c, "write", "temp") /\ Shares(c, "temp")
           /\ contended' = (contended \/ Holders("temp") # {})
    <2>1. /\ CommandInv' /\ command' \in [Commands -> Command]
          /\ command'[c] = new("write", "temp")
          /\ \A d \in Commands \ {c} : command'[d] = command[d]
        BY <1>3, <1>4, OpensStep
    <2>7. contended' \in BOOLEAN /\ (contended => contended') /\ (Holders("temp") # {} => contended')
        BY <1>4
    <2>6. /\ SharedInv' /\ shared' \subseteq Commands
          /\ ~ overlapped => c \notin shared'
        <3>1. command'[c].opened = "temp"
            BY <2>1
        <3> QED
            BY <1>2, <1>4, <2>1, <2>7, <3>1, SharesStep
    <2>2. TypeOK'
        BY <1>1, <1>4, <2>1, <2>6, <2>7 DEF TypeOK, Contents
    <2>3. CutInv'
        BY <1>1, <1>2, <2>1, <2>7 DEF CutInv
    <2>4. ~ overlapped => Undisputed(c)' /\ (job' = Cut => teed')
        BY <1>1, <2>1, <2>6 DEF AloneInv, Undisputed, At
    <2>5. ~ disturbed /\ ~ overlapped => Kept(c)' /\ yaml' # Cut
        BY <1>1, <1>2, <2>1, YamlWhole DEF QuietInv, Kept, Installing, Saving, At
    <2> QED
        BY <1>1, <1>2, <2>1, <2>2, <2>3, <2>4, <2>5, <2>6, GoesOn
<1>5. CASE GoTo(c, "tee") /\ UNCHANGED <<temp, shared, contended>>
    <2>1. /\ CommandInv' /\ command' \in [Commands -> Command]
          /\ command'[c] = new("tee", "none")
          /\ \A d \in Commands \ {c} : command'[d] = command[d]
        BY <1>2, <1>3, <1>5, GoToStep
    <2>2. TypeOK'
        BY <1>1, <1>5, <2>1 DEF TypeOK
    <2>3. CutInv' /\ SharedInv'
        BY <1>1, <1>2, <1>5, <2>1, SharedStays DEF CutInv
    <2>4. ~ overlapped => Undisputed(c)' /\ (job' = Cut => teed')
        BY <1>1, <2>1 DEF AloneInv, Undisputed, At
    <2>5. ~ disturbed /\ ~ overlapped => Kept(c)' /\ yaml' # Cut
        BY <1>1, <1>2, <2>1, YamlWhole DEF QuietInv, Kept, Installing, Saving, At
    <2> QED
        BY <1>1, <1>2, <2>1, <2>2, <2>3, <2>4, <2>5, GoesOn
<1> QED
    BY <1>4, <1>5 DEF OpenTemp

LEMMA WriteTempStep ==
    ASSUME IInv, NEW c \in Commands, WriteTemp(c)
    PROVE  IInv'
<1> USE DEF IInv
<1> DEFINE k == command[c]
           new == [op |-> k.op, at |-> "replace", time |-> k.time, opened |-> "none"]
<1>1. /\ k.at = "write" /\ Opens(c, "replace", "none")
      /\ temp' \in Written(c, "temp", temp) /\ job' \in Written(c, "job", job)
      /\ UNCHANGED <<yaml, begun, disturbed, overlapped, teed, diverged, shared, contended>>
    BY DEF WriteTemp, At, past
<1>2. /\ Running(c) /\ k \in Proper /\ k.op \in {"create", "again", "install", "edit"}
      /\ k.time \in Times /\ k.time # Cut
    BY <1>1, InstallingCommand DEF Installing
<1>3. new \in Proper
    BY <1>2 DEF Proper, Command, Installing, Saving
<1>4. /\ CommandInv' /\ command' \in [Commands -> Command]
      /\ command'[c] = new
      /\ \A d \in Commands \ {c} : command'[d] = command[d]
    BY <1>1, <1>3, OpensStep
<1>5. TypeOK'
    BY <1>1, <1>2, <1>4 DEF TypeOK, Contents, Written
<1>6. CutInv' /\ SharedInv'
    <2>1. SharedInv'
        BY <1>1, <1>4, SharedStays
    <2>2. ~ contended /\ k.opened \in {"temp", "job"} => c \notin shared
        BY DEF SharedInv
    <2>3. ~ contended =>
              /\ temp' = IF k.opened = "temp" THEN k.time ELSE temp
              /\ job' = IF k.opened = "job" THEN k.time ELSE job
        BY <1>1, <2>2 DEF Written
    <2> QED
        BY <1>1, <1>2, <1>4, <2>1, <2>3 DEF CutInv
<1>7. AloneInv' /\ QuietInv'
    <2>1. ~ overlapped => Undisputed(c)' /\ (job' = Cut => teed')
        BY <1>1, <1>2, <1>4 DEF AloneInv, Undisputed, At, Written
    <2>2. ~ disturbed /\ ~ overlapped => Kept(c)' /\ yaml' # Cut
        BY <1>1, <1>2, <1>4, YamlWhole DEF QuietInv, Kept, Installing, Saving, At
    <2> QED
        BY <1>1, <1>2, <1>4, <2>1, <2>2, GoesOn
<1> QED
    BY <1>4, <1>5, <1>6, <1>7

(* What is left to do when the job is installed.                           *)
LEMMA InstalledIs ==
    ASSUME NEW c \in Commands, command[c] \in Proper, command[c].at \in Installing
    PROVE  /\ Installed(c) \in Proper
           /\ command[c].op = "edit" =>
                 Installed(c) = [op |-> "edit", at |-> "open", time |-> command[c].time,
                                 opened |-> "none"]
           /\ command[c].op # "edit" => Installed(c) = NoCommand
<1> DEFINE new == [op |-> "edit", at |-> "open", time |-> command[c].time, opened |-> "none"]
<1>1. CASE command[c].op = "edit"
    <2>1. command[c] \in Command
        BY DEF Proper
    <2>2. /\ Installed(c) \in Command
          /\ Installed(c).op = "edit" /\ Installed(c).at = "open"
          /\ Installed(c).time = command[c].time /\ Installed(c).opened = "none"
        BY <1>1, <2>1 DEF Installed, Command
    <2>3. Installed(c) = new
        BY <2>2 DEF Command
    <2>4. new \in Proper
        BY <2>1 DEF Proper, Command, Installing, Saving
    <2> QED
        BY <1>1, <2>3, <2>4
<1>2. CASE command[c].op # "edit"
    BY <1>2, NoCommandProper DEF Installed
<1> QED
    BY <1>1, <1>2

(* A command that has the schedule in the job ends, or goes on to save it. *)
LEMMA InstalledKept ==
    ASSUME IInv, NEW c \in Commands, command[c].at \in Installing,
           command'[c] = Installed(c), job' = command[c].time,
           UNCHANGED <<yaml, diverged>>, ~ disturbed, ~ overlapped
    PROVE  /\ yaml' # Cut
           /\ Kept(c)'
           /\ command'[c].op \in {"none", "remove"} => InSync'
<1> USE DEF IInv
<1>1. /\ Running(c) /\ command[c] \in Proper
      /\ command[c].op \in {"create", "again", "install", "edit"}
    BY InstallingCommand
<1>2. Kept(c) /\ yaml' # Cut
    BY <1>1, YamlWhole DEF QuietInv, At, Installing
<1>3. CASE command[c].op = "edit"
    BY <1>1, <1>2, <1>3, InstalledIs DEF Kept, Installing, At
<1>4. CASE command[c].op # "edit"
    BY <1>1, <1>2, <1>4, InstalledIs, NoCommandProper DEF Kept, InSync
<1> QED
    BY <1>2, <1>3, <1>4

LEMMA ReplaceStep ==
    ASSUME IInv, NEW c \in Commands, Replace(c)
    PROVE  IInv'
<1> USE DEF IInv
<1> DEFINE k == command[c]
           new == [op |-> k.op, at |-> "tee", time |-> k.time, opened |-> "none"]
<1>1. /\ k.at = "replace" /\ k.at \in Installing
      /\ UNCHANGED <<yaml, begun, disturbed, overlapped, teed, diverged, shared, contended>>
    BY DEF Replace, At, past, Installing
<1>2. /\ Running(c) /\ k \in Proper /\ k.op \in {"create", "again", "install", "edit"}
      /\ k.time \in Times /\ k.time \notin {Missing, Cut} /\ k.opened = "none"
    BY <1>1, InstallingCommand
<1>3. CASE temp = Missing
    <2>1. GoTo(c, "tee") /\ UNCHANGED <<job, temp>>
        BY <1>3 DEF Replace
    <2>2. new \in Proper
        BY <1>2 DEF Proper, Command, Installing, Saving
    <2>3. /\ CommandInv' /\ command' \in [Commands -> Command]
          /\ command'[c] = new
          /\ \A d \in Commands \ {c} : command'[d] = command[d]
        BY <1>2, <2>1, <2>2, GoToStep
    <2>4. TypeOK'
        BY <1>1, <2>1, <2>3 DEF TypeOK
    <2>5. CutInv' /\ SharedInv'
        BY <1>1, <1>2, <2>1, <2>3, SharedStays DEF CutInv
    <2>6. ~ overlapped => Undisputed(c)' /\ (job' = Cut => teed')
        BY <1>1, <2>1, <2>3 DEF AloneInv, Undisputed, At
    <2>7. ~ disturbed /\ ~ overlapped => Kept(c)' /\ yaml' # Cut
        BY <1>1, <1>2, <2>3, YamlWhole DEF QuietInv, Kept, Installing, Saving, At
    <2> QED
        BY <1>1, <1>2, <2>3, <2>4, <2>5, <2>6, <2>7, GoesOn
<1>4. CASE temp # Missing
    <2>1. /\ job' = temp /\ temp' = Missing
          /\ Leaves(c, Installed(c), [temp |-> "job", job |-> "none"])
        BY <1>4 DEF Replace
    <2>2. /\ Installed(c) \in Proper
          /\ Installed(c).at \in {"none", "open"} /\ Installed(c).opened = "none"
        BY <1>1, <1>2, InstalledIs, NoCommandProper
    <2>3. /\ CommandInv' /\ command' \in [Commands -> Command]
          /\ command'[c] = Installed(c)
          /\ \A d \in Commands \ {c} :
                /\ command'[d].op = command[d].op
                /\ command'[d].at = command[d].at
                /\ command[d].opened = "temp" => command'[d].opened = "job"
                /\ command'[d].opened \in {"temp", "job"} =>
                      command[d].opened \in {"temp", "job"}
        BY <2>1, <2>2, OthersRenamed
    <2>4. TypeOK'
        BY <1>1, <2>1, <2>3 DEF TypeOK, Contents
    <2>5. CutInv' /\ SharedInv'
        <3>1. SharedInv'
            BY <1>1, <2>2, <2>3, SharedStays
        <3> QED
            BY <1>1, <1>2, <2>1, <2>3, <3>1, SchedulesAssumption DEF CutInv
    <2>6. ~ overlapped => job' = k.time
        BY <1>1, <2>1 DEF AloneInv, Undisputed, At
    <2>7. ~ overlapped => Undisputed(c)' /\ (job' = Cut => teed')
        BY <1>2, <2>2, <2>3, <2>6 DEF Undisputed, At
    <2>8. ~ disturbed /\ ~ overlapped =>
              /\ yaml' # Cut
              /\ Kept(c)'
              /\ command'[c].op \in {"none", "remove"} => InSync'
        BY <1>1, <2>3, <2>6, InstalledKept
    <2>9. AloneInv' /\ QuietInv'
        BY <1>1, <1>2, <2>3, <2>7, <2>8, GoesOn
    <2> QED
        BY <2>3, <2>4, <2>5, <2>9
<1> QED
    BY <1>3, <1>4

LEMMA OpenJobStep ==
    ASSUME IInv, NEW c \in Commands, OpenJob(c)
    PROVE  IInv'
<1> USE DEF IInv
<1> DEFINE k == command[c]
           new == [op |-> k.op, at |-> "teeing", time |-> k.time, opened |-> "job"]
<1>1. /\ k.at = "tee" /\ job' = Cut /\ teed' = TRUE
      /\ Opens(c, "teeing", "job") /\ Shares(c, "job")
      /\ contended' = (contended \/ Holders("job") # {})
      /\ UNCHANGED <<yaml, temp, begun, disturbed, overlapped, diverged>>
    BY DEF OpenJob, At
<1>2. /\ Running(c) /\ k \in Proper /\ k.op \in {"create", "again", "install", "edit"}
      /\ k.time \in Times /\ k.opened = "none"
    BY <1>1, InstallingCommand DEF Installing
<1>3. new \in Proper
    BY <1>2 DEF Proper, Command, Installing, Saving
<1>4. /\ CommandInv' /\ command' \in [Commands -> Command]
      /\ command'[c] = new
      /\ \A d \in Commands \ {c} : command'[d] = command[d]
    BY <1>1, <1>3, OpensStep
<1>9. contended' \in BOOLEAN /\ (contended => contended') /\ (Holders("job") # {} => contended')
    BY <1>1
<1>8. /\ SharedInv' /\ shared' \subseteq Commands
      /\ ~ overlapped => c \notin shared'
    <2>1. command'[c].opened = "job"
        BY <1>4
    <2> QED
        BY <1>1, <1>2, <1>4, <1>9, <2>1, SharesStep
<1>5. TypeOK'
    <2>1. teed' \in BOOLEAN
        BY <1>1
    <2> QED
        BY <1>1, <1>4, <1>8, <1>9, <2>1 DEF TypeOK, Contents
<1>6. CutInv'
    BY <1>1, <1>2, <1>4, <1>9 DEF CutInv
<1>7. AloneInv' /\ QuietInv'
    <2>1. ~ overlapped => Undisputed(c)' /\ (job' = Cut => teed')
        BY <1>1, <1>4, <1>8 DEF Undisputed, At
    <2>2. ~ disturbed /\ ~ overlapped => Kept(c)' /\ yaml' # Cut
        BY <1>1, <1>2, <1>4, YamlWhole DEF QuietInv, Kept, Installing, Saving, At
    <2> QED
        BY <1>1, <1>2, <1>4, <2>1, <2>2, GoesOn
<1> QED
    BY <1>4, <1>5, <1>6, <1>7, <1>8

LEMMA TeeStep ==
    ASSUME IInv, NEW c \in Commands, Tee(c)
    PROVE  IInv'
<1> USE DEF IInv
<1> DEFINE k == command[c]
<1>1. /\ k.at = "teeing" /\ k.at \in Installing
      /\ job' \in Written(c, "job", job)
      /\ command' = [command EXCEPT ![c] = Installed(c)]
      /\ UNCHANGED <<yaml, temp, begun, disturbed, overlapped, teed, diverged, shared,
                     contended>>
    BY DEF Tee, At, past, Installing
<1>2. /\ Running(c) /\ k \in Proper
      /\ k.time \in Times /\ k.time \notin {Missing, Cut} /\ k.opened # "temp"
    BY <1>1, InstallingCommand
<1>3. /\ Installed(c) \in Proper
      /\ Installed(c).at \in {"none", "open"} /\ Installed(c).opened = "none"
    BY <1>1, <1>2, InstalledIs, NoCommandProper
<1>4. /\ CommandInv' /\ command' \in [Commands -> Command]
      /\ command'[c] = Installed(c)
      /\ \A d \in Commands \ {c} : command'[d] = command[d]
    BY <1>1, <1>3, OneChanges
<1>5. TypeOK'
    BY <1>1, <1>2, <1>4 DEF TypeOK, Contents, Written
<1>6. CutInv' /\ SharedInv'
    <2>1. SharedInv'
        BY <1>1, <1>3, <1>4, SharedStays
    <2>2. ~ contended => job' = IF k.opened = "job" THEN k.time ELSE job
        BY <1>1 DEF SharedInv, Written
    <2> QED
        BY <1>1, <1>2, <1>4, <2>1, <2>2 DEF CutInv
<1>7. AloneInv' /\ QuietInv'
    <2>1. ~ overlapped => job' = k.time
        BY <1>1 DEF AloneInv, Undisputed, At, Written
    <2>2. ~ overlapped => Undisputed(c)' /\ (job' = Cut => teed')
        BY <1>2, <1>3, <1>4, <2>1 DEF Undisputed, At
    <2>3. ~ disturbed /\ ~ overlapped =>
              /\ yaml' # Cut
              /\ Kept(c)'
              /\ command'[c].op \in {"none", "remove"} => InSync'
        BY <1>1, <1>4, <2>1, InstalledKept
    <2> QED
        BY <1>1, <1>2, <1>4, <2>2, <2>3, GoesOn
<1> QED
    BY <1>4, <1>5, <1>6, <1>7

LEMMA UnlinkYamlStep ==
    ASSUME IInv, NEW c \in Commands, UnlinkYaml(c)
    PROVE  IInv'
<1> USE DEF IInv
<1> DEFINE k == command[c]
           new == [op |-> k.op, at |-> "rm", time |-> k.time, opened |-> "none"]
           next == IF yaml = Missing THEN NoCommand ELSE new
<1>1. /\ k.at = "unlink" /\ yaml' = Missing
      /\ UNCHANGED <<job, temp, begun, disturbed, overlapped, teed, diverged, shared,
                     contended>>
      /\ Leaves(c, IF yaml = Missing THEN NoCommand ELSE [k EXCEPT !.at = "rm"],
                [yaml |-> "none"])
    BY DEF UnlinkYaml, At, past
<1>2. /\ Running(c) /\ k \in Proper /\ k \in Command
      /\ k.op = "delete" /\ k.opened = "none"
    BY <1>1, AtStep DEF Proper, Command, Running, Installing, Saving
<1>3. next \in Proper /\ next.opened = "none"
    BY <1>2, NoCommandProper DEF Proper, Command, Installing, Saving
<1>4. Leaves(c, next, [yaml |-> "none"])
    <2>1. [k EXCEPT !.at = "rm"] = new
        BY <1>2 DEF Command
    <2> QED
        BY <1>1, <2>1
<1>5. /\ CommandInv' /\ command' \in [Commands -> Command]
      /\ command'[c] = next
      /\ \A d \in Commands \ {c} :
            /\ command'[d].op = command[d].op
            /\ command'[d].at = command[d].at
            /\ command[d].opened \in {"temp", "job"} =>
                  command'[d].opened = command[d].opened
            /\ command'[d].opened \in {"temp", "job"} =>
                  command[d].opened \in {"temp", "job"}
    BY <1>3, <1>4, OthersRenamed
<1>6. TypeOK'
    BY <1>1, <1>5 DEF TypeOK, Contents
<1>7. CutInv' /\ SharedInv'
    <2>1. SharedInv'
        BY <1>1, <1>3, <1>5, SharedStays
    <2> QED
        BY <1>1, <1>2, <1>5, <2>1 DEF CutInv
<1>8. AloneInv' /\ QuietInv'
    <2>1. ~ overlapped => Undisputed(c)' /\ (job' = Cut => teed')
        BY <1>1, <1>3, <1>5, NoCommandProper DEF AloneInv, Undisputed, At
    <2>2. ~ disturbed /\ ~ overlapped => next = new
        BY <1>1, <1>2 DEF QuietInv, Kept, At
    <2>3. ~ disturbed /\ ~ overlapped => Kept(c)' /\ command'[c].op = "delete"
        BY <1>1, <1>2, <1>5, <2>2 DEF Kept, At
    <2>4. yaml' # Cut
        BY <1>1, SchedulesAssumption
    <2> QED
        BY <1>1, <1>2, <1>5, <2>1, <2>3, <2>4, GoesOn
<1> QED
    BY <1>5, <1>6, <1>7, <1>8

LEMMA UnlinkJobStep ==
    ASSUME IInv, NEW c \in Commands, UnlinkJob(c)
    PROVE  IInv'
<1> USE DEF IInv
<1> DEFINE k == command[c]
<1>1. /\ k.at = "rm" /\ job' = Missing
      /\ UNCHANGED <<yaml, temp, begun, disturbed, overlapped, teed, diverged, shared,
                     contended>>
      /\ Leaves(c, NoCommand, [job |-> "none"])
    BY DEF UnlinkJob, At, past
<1>2. Running(c) /\ k \in Proper /\ k.opened = "none" /\ Missing # Cut
    BY <1>1, AtStep, SchedulesAssumption DEF Proper, Command
<1>3. /\ CommandInv' /\ command' \in [Commands -> Command]
      /\ command'[c] = NoCommand
      /\ \A d \in Commands \ {c} :
            /\ command'[d].op = command[d].op
            /\ command'[d].at = command[d].at
            /\ command[d].opened = "temp" => command'[d].opened = "temp"
            /\ command'[d].opened \in {"temp", "job"} =>
                  command[d].opened \in {"temp", "job"}
    BY <1>1, NoCommandProper, OthersRenamed
<1>4. TypeOK'
    BY <1>1, <1>3 DEF TypeOK, Contents
<1>5. CutInv' /\ SharedInv'
    <2>1. SharedInv'
        BY <1>1, <1>3, NoCommandProper, SharedStays
    <2> QED
        BY <1>1, <1>2, <1>3, <2>1 DEF CutInv
<1>6. AloneInv' /\ QuietInv'
    <2>1. ~ overlapped => Undisputed(c)' /\ (job' = Cut => teed')
        BY <1>1, <1>2, <1>3, NoCommandProper DEF Undisputed, At
    <2>2. ~ disturbed /\ ~ overlapped => Kept(c)' /\ InSync' /\ yaml' # Cut
        BY <1>1, <1>2, <1>3, NoCommandProper, YamlWhole DEF Kept, InSync, At
    <2> QED
        BY <1>1, <1>2, <1>3, <2>1, <2>2, GoesOn
<1> QED
    BY <1>3, <1>4, <1>5, <1>6

-----------------------------------------------------------------------------
(* Failures                                                                *)

LEMMA FailureStep ==
    ASSUME IInv, NEW c \in Commands, Fails(c)
    PROVE  IInv'
<1> USE DEF IInv
<1> DEFINE k == command[c]
           to(op, at) == [op |-> op, at |-> at, time |-> k.time, opened |-> "none"]
<1>1. /\ disturbed' = TRUE /\ disturbed' \in BOOLEAN /\ Spoils(c)
      /\ UNCHANGED <<begun, overlapped, teed, diverged, shared, contended>>
    BY DEF Fails, WriteTempFails, InstallFails, Crash
<1>2. Running(c)
    BY AtStep DEF Fails, WriteTempFails, InstallFails, Crash, At
<1>3. PICK next \in Proper :
          /\ next.at \notin {"fill", "write", "replace", "teeing"} /\ next.opened = "none"
          /\ command'[c] = next
          /\ CommandInv' /\ command' \in [Commands -> Command]
          /\ \A d \in Commands \ {c} : command'[d] = command[d]
    <2>1. CASE End(c)
        BY <2>1, NoCommandProper, OneChanges DEF End
    <2>2. CASE /\ InstallFails(c)
               /\ command' = [command EXCEPT ![c].op = "again", ![c].at = "temp",
                                             ![c].opened = "none"]
        <3>1. k \in Proper /\ k \in Command /\ k.time \in Times
            BY <2>2, InstallingCommand DEF InstallFails, Installing, Proper
        <3>2. to("again", "temp") \in Proper
            BY <3>1 DEF Proper, Command, Installing, Saving
        <3>3. command \in [Commands -> Command]
            BY DEF TypeOK
        <3>4. /\ command' \in [Commands -> Command]
              /\ command'[c].op = "again" /\ command'[c].at = "temp"
              /\ command'[c].time = k.time /\ command'[c].opened = "none"
              /\ \A d \in Commands \ {c} : command'[d] = command[d]
            BY <2>2, <3>3 DEF Command
        <3>5. command'[c] = to("again", "temp")
            BY <3>4 DEF Command
        <3>6. to("again", "temp").at = "temp" /\ CommandInv'
            BY <3>2, <3>4, <3>5 DEF CommandInv, Proper
        <3> QED
            BY <3>2, <3>4, <3>5, <3>6
    <2>3. CASE WriteTempFails(c)
        <3>1. k.at = "write" /\ Opens(c, "tee", "none")
            BY <2>3 DEF WriteTempFails, At
        <3>2. k \in Proper /\ k \in Command /\ k.time \in Times
              /\ k.op \in {"create", "again", "install", "edit"}
            BY <3>1, InstallingCommand DEF Installing, Proper
        <3>3. to(k.op, "tee") \in Proper
            BY <3>1, <3>2 DEF Proper, Command, Installing, Saving
        <3>4. /\ CommandInv' /\ command' \in [Commands -> Command]
              /\ command'[c] = to(k.op, "tee")
              /\ \A d \in Commands \ {c} : command'[d] = command[d]
            BY <3>1, <3>3, OpensStep
        <3> QED
            BY <3>3, <3>4
    <2> QED
        BY <2>1, <2>2, <2>3 DEF Fails, InstallFails, Crash
<1>4. /\ yaml' \in {yaml, Cut} /\ temp' \in {temp, Cut} /\ job' \in {job, Cut}
      /\ job' # job => k.opened = "job"
    BY <1>1 DEF Spoils, Part
<1>5. TypeOK'
    <2>1. yaml' \in Contents /\ temp' \in Contents /\ job' \in Contents
        BY <1>4 DEF TypeOK, Contents
    <2>2. begun' = begun /\ shared' = shared /\ overlapped' = overlapped /\ teed' = teed
          /\ diverged' = diverged /\ contended' = contended
        BY <1>1
    <2>3. disturbed' \in BOOLEAN /\ command' \in [Commands -> Command]
        BY <1>1, <1>3
    <2> QED
        BY <2>1, <2>2, <2>3 DEF TypeOK
<1>6. CutInv' /\ SharedInv'
    BY <1>1, <1>3, SharedStays DEF CutInv
<1>7. AloneInv' /\ QuietInv'
    <2>1. ~ overlapped /\ k.opened = "job" => teed
        BY DEF CommandInv, AloneInv, Undisputed, Proper, At
    <2>2. Undisputed(c)'
        <3>1. command'[c].at \notin {"fill", "write", "replace", "teeing"}
              /\ command'[c].opened = "none"
            BY <1>3
        <3> QED
            BY <3>1 DEF Undisputed, At
    <2>3. ~ overlapped => (job' = Cut => teed')
        <3>1. ~ overlapped => (job = Cut => teed)
            BY DEF AloneInv
        <3>2. teed' = teed
            BY <1>1
        <3> QED
            BY <1>4, <2>1, <3>1, <3>2
    <2> QED
        BY <1>1, <1>2, <1>3, <2>2, <2>3, GoesOn
<1> QED
    BY <1>3, <1>5, <1>6, <1>7

-----------------------------------------------------------------------------
(* The theorems                                                            *)

LEMMA StepInv == IInv /\ [Next]_vars => IInv'
<1> SUFFICES ASSUME IInv, [Next]_vars PROVE IInv'
    OBVIOUS
<1>1. ASSUME NEW c \in Commands, Start(c)
      PROVE  IInv'
    BY <1>1, StartStep
<1>2. ASSUME NEW c \in Commands, Continue(c)
      PROVE  IInv'
    BY <1>2, OpenYamlStep, FillYamlStep, OpenTempStep, WriteTempStep, ReplaceStep,
       OpenJobStep, TeeStep, UnlinkYamlStep, UnlinkJobStep DEF Continue
<1>3. ASSUME NEW c \in Commands, Fails(c)
      PROVE  IInv'
    BY <1>3, FailureStep
<1>4. CASE SetEdit
    BY <1>4, SetEditStep
<1>5. CASE UNCHANGED vars
    BY <1>5 DEF IInv, TypeOK, CommandInv, SharedInv, CutInv, AloneInv, QuietInv, Undisputed, Kept,
       InSync, Running, At, vars
<1> QED
    BY <1>1, <1>2, <1>3, <1>4, <1>5 DEF Next

LEMMA Invariance == Spec => []IInv
BY InitInv, StepInv, PTL DEF Spec

(* The types of the variables.                                             *)
THEOREM TypeCorrect == Spec => []TypeOK
<1>1. IInv => TypeOK
    BY DEF IInv
<1> QED
    BY <1>1, Invariance, PTL

(* However many commands are begun and however they overlap: once none is  *)
(* at work, cron finds no half of a job unless two had one file of the job *)
(* open at once, or one was cut or could not write, and another overlapped *)
(* it or the job was written by sudo tee (install_system_cron_job).        *)
THEOREM JobsAreWhole == Spec => []JobWhole
<1>1. IInv => JobWhole
    BY DEF IInv, CutInv, AloneInv, JobWhole, AtRest, CommandInv, Proper, Running, NoCommand
<1> QED
    BY <1>1, Invariance, PTL

(* Commands that run one at a time to their end keep the job and the YAML  *)
(* file at the same schedule, unless one of them was set alone.            *)
THEOREM JobsMatch == Spec => []JobMatchesSet
<1>1. IInv => JobMatchesSet
    BY DEF IInv, QuietInv, JobMatchesSet, AtRest, InSync
<1> QED
    BY <1>1, Invariance, PTL
=============================================================================
