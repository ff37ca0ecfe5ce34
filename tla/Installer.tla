------------------------------ MODULE Installer ------------------------------
(***************************************************************************)
(* The installer of the daemon: the wizard, its worker thread, what the    *)
(* worker leaves on the host, and the daemon that systemd then starts.     *)
(*                                                                         *)
(* The worker goes through seven steps; the first that fails ends it.  The *)
(* user may go back and try again, with other settings or over an earlier  *)
(* installation, and the installer's process may be closed at any time.    *)
(* What os.system and stop_daemon return, nobody looks at.                 *)
(***************************************************************************)
EXTENDS Integers

CONSTANTS
    Settings,     \* what can be entered in the wizard
    Default,      \* the daemon's settings when it has no configuration
    Nobody,       \* "no settings"
    Path, Base,   \* the installation path and the storage of each settings
    Hidden,       \* directories under /home, /root or /tmp: not seen from the unit
    Unbindable,   \* settings whose host and port the user blzbak cannot bind
    MaxAttempts   \* bound on the installations that are begun

ASSUME InstallerAssumption ==
    /\ Default \notin Settings /\ Nobody \notin Settings \cup {Default}
    /\ DOMAIN Path = Settings /\ DOMAIN Base = Settings \cup {Default}
    /\ MaxAttempts \in Nat

Paths    == {Path[s] : s \in Settings}
Storages == {Base[s] : s \in Settings \cup {Default}}

VARIABLES
    wizard,    \* the page shown, and the settings entered
    worker,    \* the step of the worker thread
    account,   \* which of the group and the user "blzbak" exist
    code,      \* per path, what was copied there
    config,    \* per path, the configuration file
    storage,   \* per storage directory, its owner
    unit,      \* the unit file, what systemd has loaded of it, and "enabled"
    daemon,    \* the process
    temps,     \* temporary directories on the disk
    attempts,  \* installations begun: bounds the model
    ignored,   \* history: in the last attempt a failure was not looked at
    first,     \* history: the attempt that enabled the service
    lost,      \* history: temporary directories whose removal had no chance
    current    \* history: the settings of the last attempt, if it succeeded

host == <<account, code, config, storage, unit>>
history == <<attempts, ignored, first, lost, current>>
vars == <<wizard, worker, host, daemon, temps, history>>

Pages == {"paths", "installing", "failed", "complete", "closed"}
Steps == {"extract", "user", "files", "config", "dirs", "unit", "cleanup"}

(* text: the settings it holds, Default when it is empty, Nobody when      *)
(* there is no file; owned: by blzbak; open: to be read by all.            *)
Config   == [text : Settings \cup {Default, Nobody}, owned : BOOLEAN, open : BOOLEAN]
NoConfig == [text |-> Nobody, owned |-> FALSE, open |-> TRUE]

(* fresh: it was started after the last attempt had succeeded.             *)
Daemon == [state : {"down", "failing", "up"}, serves : Settings \cup {Default, Nobody},
           writes : BOOLEAN, fresh : BOOLEAN]
Down   == [state |-> "down", serves |-> Nobody, writes |-> FALSE, fresh |-> FALSE]

Init ==
    /\ wizard = [page |-> "paths", settings |-> Nobody]
    /\ worker = "none"
    /\ account = {}
    /\ code = [p \in Paths |-> "none"]
    /\ config = [p \in Paths |-> NoConfig]
    /\ storage = [b \in Storages |-> "none"]
    /\ unit = [file |-> Nobody, loaded |-> Nobody, enabled |-> FALSE]
    /\ daemon = Down
    /\ temps = 0 /\ attempts = 0 /\ lost = 0 /\ first = 0
    /\ ignored = FALSE
    /\ current = Nobody

-----------------------------------------------------------------------------
(* The wizard                                                              *)

(* PathConfigPage.validatePage has accepted the settings; the next page    *)
(* starts the worker and disables Back and Cancel.                         *)
Install(s) ==
    /\ wizard.page = "paths" /\ attempts < MaxAttempts
    /\ wizard' = [page |-> "installing", settings |-> s]
    /\ worker' = "extract"
    /\ attempts' = attempts + 1
    /\ ignored' = FALSE
    /\ current' = Nobody
    /\ daemon' = [daemon EXCEPT !.fresh = FALSE]
    /\ UNCHANGED <<host, temps, first, lost>>

Back ==
    /\ wizard.page = "failed"
    /\ wizard' = [wizard EXCEPT !.page = "paths"]
    /\ UNCHANGED <<worker, host, daemon, temps, history>>

(* The window is closed, or the process ends; another is started later.    *)
(* A step that is cut leaves what it can also leave when it fails.         *)
CloseWizard ==
    /\ wizard.page # "closed"
    /\ wizard' = [wizard EXCEPT !.page = "closed"]
    /\ worker' = "none"
    /\ lost' = IF worker \in Steps \ {"extract"} THEN lost + 1 ELSE lost
    /\ UNCHANGED <<host, daemon, temps, attempts, ignored, first, current>>

Reopen ==
    /\ wizard.page = "closed"
    /\ wizard' = [page |-> "paths", settings |-> Nobody]
    /\ UNCHANGED <<worker, host, daemon, temps, history>>

-----------------------------------------------------------------------------
(* InstallationWorker.run                                                  *)

Mine == wizard.settings
Here == Path[Mine]

Follows ==
    [extract |-> "user", user |-> "files", files |-> "config", config |-> "dirs",
     dirs |-> "unit", unit |-> "cleanup"]

(* Mutant: the service is enabled before there is a configuration.         *)
AdvanceUnitFirst(step) ==
    worker' = [extract |-> "user", user |-> "files", files |-> "unit", unit |-> "config",
               config |-> "dirs", dirs |-> "cleanup"][step]

Advance(step) == worker' = Follows[step]

Done(step) ==
    /\ Advance(step)
    /\ UNCHANGED <<wizard, temps, lost>>

(* cleanup_temp_files: a directory that cannot be removed is a line on the *)
(* terminal.                                                               *)
CleanTemps ==
    \/ temps' = temps - 1 /\ UNCHANGED lost
    \/ lost' = lost + 1 /\ UNCHANGED temps

(* Mutant: a failed step returns without emitting "finished".              *)
FailSilent ==
    /\ worker' = "none"
    /\ CleanTemps
    /\ UNCHANGED wizard

(* Mutant: the package is left behind.                                     *)
FailDirty ==
    /\ worker' = "none"
    /\ wizard' = [wizard EXCEPT !.page = "failed"]
    /\ UNCHANGED <<temps, lost>>

(* The package is removed, and the error is shown.                         *)
Fail ==
    /\ worker' = "none"
    /\ wizard' = [wizard EXCEPT !.page = "failed"]
    /\ CleanTemps

Rest == UNCHANGED <<attempts, current, daemon>>
Heed == Rest /\ UNCHANGED <<ignored, first>>

(* Mutant: a failed extraction removes the directory it has not made.      *)
ExtractRemoving ==
    /\ worker = "extract"
    /\ \/ /\ worker' = "user"
          /\ temps' = temps + 1
          /\ UNCHANGED <<wizard, lost>>
       \/ Fail
    /\ Heed
    /\ UNCHANGED host

(* There is no package; or a directory is made for it, into which it is    *)
(* unpacked - or not: then nobody knows the directory any more.            *)
Extract ==
    /\ worker = "extract"
    /\ \/ /\ worker' = "user"
          /\ temps' = temps + 1
          /\ UNCHANGED <<wizard, lost>>
       \/ /\ worker' = "none"
          /\ wizard' = [wizard EXCEPT !.page = "failed"]
          /\ \/ UNCHANGED <<temps, lost>>
             \/ temps' = temps + 1 /\ lost' = lost + 1
    /\ Heed
    /\ UNCHANGED host

CreateUser ==
    /\ worker = "user"
    /\ \/ account' = {"group", "user"} /\ Done("user")
       \/ account' = account \cup {"group"} /\ Fail
       \/ account' = account /\ Fail
    /\ Heed
    /\ UNCHANGED <<code, config, storage, unit>>

(* The files are copied over those of an earlier installation; then all of *)
(* the path, with the configuration that is there, is given to blzbak.     *)
InstallFiles ==
    /\ worker = "files"
    /\ \/ /\ code' = [code EXCEPT ![Here] = "whole"]
          /\ Done("files")
          /\ \/ config' = [config EXCEPT ![Here].owned = (@ \/ config[Here] # NoConfig)]
                /\ UNCHANGED ignored
             \/ ignored' = TRUE /\ UNCHANGED config
       \/ /\ code' \in {code, [code EXCEPT ![Here] = "partial"]}
          /\ Fail
          /\ UNCHANGED <<config, ignored>>
    /\ Rest
    /\ UNCHANGED <<account, storage, unit, first>>

(* Mutant: the file is left to root.                                       *)
CreateConfigOwned ==
    /\ worker = "config"
    /\ config' = [config EXCEPT ![Here].text = Mine, ![Here].open = FALSE]
    /\ Done("config")
    /\ Heed
    /\ UNCHANGED <<account, code, storage, unit>>

(* open(.., "w") keeps the owner and the mode of a file that exists, and   *)
(* empties it; chown, whose failure is ignored; chmod to 0640.             *)
CreateConfig ==
    /\ worker = "config"
    /\ \/ /\ config' = [config EXCEPT ![Here] =
                [text |-> Mine, owned |-> TRUE, open |-> FALSE]]
          /\ Done("config")
          /\ UNCHANGED ignored
       \/ /\ config' = [config EXCEPT ![Here].text = Mine, ![Here].open = FALSE]
          /\ Done("config")
          /\ ignored' = TRUE
       \/ /\ config' \in {config,
                          [config EXCEPT ![Here].text = Default],
                          [config EXCEPT ![Here].text = Mine],
                          [config EXCEPT ![Here].text = Mine, ![Here].owned = TRUE]}
          /\ Fail
          /\ UNCHANGED ignored
    /\ Rest
    /\ UNCHANGED <<account, code, storage, unit, first>>

CreateDirs ==
    /\ worker = "dirs"
    /\ LET b == Base[Mine]
           made == [storage EXCEPT ![b] = IF @ = "none" THEN "root" ELSE @]
       IN  \/ /\ storage' = [storage EXCEPT ![b] = "blzbak"]
              /\ Done("dirs")
              /\ UNCHANGED ignored
           \/ storage' = made /\ Done("dirs") /\ ignored' = TRUE
           \/ storage' \in {storage, made} /\ Fail /\ UNCHANGED ignored
    /\ Rest
    /\ UNCHANGED <<account, code, config, unit, first>>

(* Mutant: systemd is not told of the new unit file.                       *)
InstallUnitUnloaded ==
    /\ worker = "unit"
    /\ unit' = [file |-> Mine, loaded |-> IF unit.loaded = Nobody THEN Mine ELSE unit.loaded,
                enabled |-> TRUE]
    /\ first' = IF unit.enabled THEN first ELSE attempts
    /\ Done("unit")
    /\ Rest
    /\ UNCHANGED ignored
    /\ UNCHANGED <<account, code, config, storage>>

(* Write the unit file, reload, enable: the first that fails ends it.      *)
InstallUnit ==
    /\ worker = "unit"
    /\ \/ /\ unit' = [file |-> Mine, loaded |-> Mine, enabled |-> TRUE]
          /\ first' = IF unit.enabled THEN first ELSE attempts
          /\ Done("unit")
       \/ /\ unit' \in {unit, [unit EXCEPT !.file = Mine],
                        [unit EXCEPT !.file = Mine, !.loaded = Mine]}
          /\ Fail
          /\ UNCHANGED first
    /\ Rest
    /\ UNCHANGED ignored
    /\ UNCHANGED <<account, code, config, storage>>

Cleanup ==
    /\ worker = "cleanup"
    /\ worker' = "none"
    /\ wizard' = [wizard EXCEPT !.page = "complete"]
    /\ CleanTemps
    /\ current' = IF ignored THEN Nobody ELSE Mine
    /\ UNCHANGED <<host, daemon, attempts, ignored, first>>

Work ==
    \/ Extract
    \/ CreateUser
    \/ InstallFiles
    \/ CreateConfig
    \/ CreateDirs
    \/ InstallUnit
    \/ Cleanup

-----------------------------------------------------------------------------
(* The daemon's process, as systemd starts it from a unit                  *)

(* DaemonConfig.load: a file that is missing, unreadable for blzbak or     *)
(* empty is a warning, and the defaults are taken.                         *)
Loaded(u) ==
    LET file == config[Path[u]]
    IN  IF file.text # Nobody /\ (file.owned \/ file.open) THEN file.text ELSE Default

(* The unit names a user, an executable and a directory that is to be      *)
(* writable, and hides /home and /tmp; the daemon then makes its base      *)
(* directory, if there is none, in a system it may not write, and binds    *)
(* its port.                                                               *)
Startable(u) ==
    /\ account = {"group", "user"}
    /\ code[Path[u]] = "whole"
    /\ storage[Base[u]] # "none" /\ storage[Base[Loaded(u)]] # "none"
    /\ {Path[u], Base[u], Base[Loaded(u)]} \cap Hidden = {}
    /\ Loaded(u) \notin Unbindable

Started(u) ==
    IF Startable(u)
    THEN [state |-> "up", serves |-> Loaded(u), fresh |-> current # Nobody,
          writes |-> Base[Loaded(u)] = Base[u] /\ storage[Base[u]] = "blzbak"]
    ELSE [state |-> "failing", serves |-> Nobody, fresh |-> current # Nobody,
          writes |-> FALSE]

(* An active service is stopped, if that works; to start one that is still *)
(* active does nothing.                                                    *)
StopAndStart ==
    \/ daemon' = Started(unit.loaded)
    \/ daemon.state = "up" /\ UNCHANGED daemon

StartDaemon ==
    /\ wizard.page = "complete"
    /\ wizard' = [wizard EXCEPT !.page = "closed"]
    /\ StopAndStart
    /\ UNCHANGED <<worker, host, temps, history>>

(* The service ends without success, or did before, and is started again.  *)
Restart ==
    /\ daemon.state # "down"
    /\ daemon' = Started(unit.loaded)
    /\ UNCHANGED <<wizard, worker, host, temps, history>>

(* The host starts: the unit file is read, and the service started if it   *)
(* is enabled.                                                             *)
Boot ==
    /\ worker = "none"
    /\ unit' = [unit EXCEPT !.loaded = unit.file]
    /\ daemon' = IF unit.enabled THEN Started(unit.file) ELSE Down
    /\ wizard' = [wizard EXCEPT !.page = "closed"]
    /\ UNCHANGED <<worker, account, code, config, storage, temps, history>>

Next ==
    \/ \E s \in Settings : Install(s)
    \/ Back
    \/ CloseWizard
    \/ Reopen
    \/ Work
    \/ StartDaemon
    \/ Restart
    \/ Boot

(* The thread goes on, and the commands it calls end.                      *)
Spec == Init /\ [][Next]_vars /\ WF_vars(Work)

-----------------------------------------------------------------------------
(* Properties                                                              *)

TypeOK ==
    /\ wizard \in [page : Pages, settings : Settings \cup {Nobody}]
    /\ worker \in Steps \cup {"none"}
    /\ account \subseteq {"group", "user"}
    /\ code \in [Paths -> {"none", "partial", "whole"}]
    /\ config \in [Paths -> Config]
    /\ storage \in [Storages -> {"none", "root", "blzbak"}]
    /\ unit \in [file : Settings \cup {Nobody}, loaded : Settings \cup {Nobody},
                 enabled : BOOLEAN]
    /\ daemon \in Daemon
    /\ {temps, attempts, first, lost} \subseteq Nat
    /\ ignored \in BOOLEAN /\ current \in Settings \cup {Nobody}

(* What the service needs of the settings themselves; the wizard accepts   *)
(* others too (PathConfigPage.validatePage).                               *)
Servable(s) == {Path[s], Base[s]} \cap Hidden = {} /\ s \notin Unbindable

(* After an installation that reported success - over whatever earlier     *)
(* attempts, complete or cut short, have left - and of which no failure    *)
(* was ignored, every start of the daemon succeeds, with the settings that *)
(* were entered and a storage it may write, when a service can be run with *)
(* them; when none can, every start fails, and no older settings are       *)
(* served (create_daemon_config, install_systemd_service, start_daemon,    *)
(* DaemonConfig.load).                                                     *)
ServesConfigured ==
    current # Nobody /\ daemon.fresh =>
        IF Servable(current)
        THEN daemon.state = "up" /\ daemon.serves = current /\ daemon.writes
        ELSE daemon.state = "failing"

(* The attempt that enables the service, and however many failed or were   *)
(* interrupted before, with whatever settings: from then on all that the   *)
(* installer provides for the service is there, even when this attempt is  *)
(* cut as well.  No host tries at every boot to start half a daemon, until *)
(* a further installation is begun over it (the order of the steps in      *)
(* run()).                                                                 *)
EnabledStarts ==
    unit.enabled /\ attempts = first /\ ~ ignored =>
        /\ Loaded(unit.file) = unit.file
        /\ Servable(unit.file) => Startable(unit.file)

(* The directories left in /tmp are those that were made for a package     *)
(* which could not be unpacked, could not be removed, or were in use when  *)
(* the installer was closed.                                               *)
TempsRemoved == worker \in {"none", "extract"} => temps = lost

(* An installation that was begun ends for the user, who cannot cancel it: *)
(* every way out of run() emits "finished".                                *)
InstallationEnds == wizard.page = "installing" ~> wizard.page # "installing"

=============================================================================
