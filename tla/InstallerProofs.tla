--------------------------- MODULE InstallerProofs ---------------------------
(***************************************************************************)
(* Theorems about Installer, for any settings, paths and storages and any  *)
(* number of attempts.                                                     *)
(***************************************************************************)
EXTENDS Installer, TLAPS

Complete == {"group", "user"}

Whole(s) == [text |-> s, owned |-> TRUE, open |-> FALSE]

(* The page and the worker belong together, and a package is unpacked only *)
(* while the worker needs it.                                              *)
WizardInv ==
    /\ wizard.page = "installing" <=> worker # "none"
    /\ wizard.page \in {"installing", "failed", "complete"} => Mine \in Settings
    /\ temps = IF worker \in {"none", "extract"} THEN lost ELSE lost + 1

(* What the steps before the present one have left on the host, unless one *)
(* of them has failed and nobody has looked.                               *)
WorkerInv ==
    /\ worker \in {"files", "config", "dirs", "unit", "cleanup"} => account = Complete
    /\ worker \in {"config", "dirs", "unit", "cleanup"} => code[Here] = "whole"
    /\ worker \in {"dirs", "unit", "cleanup"} /\ ~ ignored => config[Here] = Whole(Mine)
    /\ worker \in {"unit", "cleanup"} =>
          /\ storage[Base[Mine]] # "none"
          /\ ~ ignored => storage[Base[Mine]] = "blzbak"
    /\ worker = "cleanup" => unit = [file |-> Mine, loaded |-> Mine, enabled |-> TRUE]

(* What systemd knows of the service; nothing is started before there is a *)
(* unit.                                                                   *)
UnitInv ==
    /\ unit.loaded # Nobody \/ unit.enabled => unit.file # Nobody
    /\ wizard.page = "complete" \/ daemon.state # "down" => unit.loaded # Nobody

(* All that the daemon needs to serve these settings.                      *)
Installed(s) ==
    /\ account = Complete
    /\ code[Path[s]] = "whole"
    /\ config[Path[s]] = Whole(s)
    /\ storage[Base[s]] = "blzbak"

(* Since the attempt that enabled the service no further one was begun.    *)
FirstInv ==
    /\ first <= attempts
    /\ unit.enabled /\ attempts = first =>
          /\ worker \in {"cleanup", "none"}
          /\ ~ ignored => Installed(unit.file)

(* The last attempt has succeeded, and what runs was started since.        *)
CurrentInv ==
    /\ worker # "none" => current = Nobody
    /\ daemon.fresh => current # Nobody
    /\ current # Nobody =>
          /\ unit = [file |-> current, loaded |-> current, enabled |-> TRUE]
          /\ Installed(current)
    /\ ServesConfigured

IInv == TypeOK /\ WizardInv /\ WorkerInv /\ UnitInv /\ FirstInv /\ CurrentInv

LEMMA InitInv == Init => IInv
<1> SUFFICES ASSUME Init PROVE IInv
    OBVIOUS
<1>1. Default \notin Settings /\ Nobody \notin Settings
    BY InstallerAssumption
<1>2. TypeOK
    <2>1. NoConfig \in Config /\ Down \in Daemon
        BY DEF NoConfig, Config, Down, Daemon
    <2>2. /\ wizard \in [page : Pages, settings : Settings \cup {Nobody}]
          /\ unit \in [file : Settings \cup {Nobody}, loaded : Settings \cup {Nobody},
                       enabled : BOOLEAN]
        BY DEF Init, Pages
    <2>3. /\ code \in [Paths -> {"none", "partial", "whole"}]
          /\ config \in [Paths -> Config]
          /\ storage \in [Storages -> {"none", "root", "blzbak"}]
        BY <2>1 DEF Init
    <2>4. {temps, attempts, first, lost} \subseteq Nat
        BY DEF Init
    <2>5. ignored \in BOOLEAN
        BY DEF Init
    <2> QED
        BY <2>1, <2>2, <2>3, <2>4, <2>5 DEF Init, TypeOK
<1>3. WizardInv /\ WorkerInv
    BY DEF Init, WizardInv, WorkerInv
<1>4. UnitInv /\ FirstInv
    BY DEF Init, UnitInv, FirstInv, Down
<1>5. CurrentInv
    BY DEF Init, CurrentInv, ServesConfigured, Down
<1> QED
    BY <1>2, <1>3, <1>4, <1>5 DEF IInv

-----------------------------------------------------------------------------
(* Steps of the wizard                                                     *)

LEMMA InstallInv ==
    ASSUME IInv, NEW s \in Settings, Install(s)
    PROVE  IInv'
<1> USE DEF IInv
<1>1. TypeOK'
    <2>1. wizard' \in [page : Pages, settings : Settings \cup {Nobody}]
        BY DEF Install, Pages
    <2>2. daemon' \in Daemon
        BY DEF Install, TypeOK, Daemon
    <2>3. {temps, attempts, first, lost}' \subseteq Nat
        BY DEF Install, TypeOK
    <2>4. ignored' \in BOOLEAN
        BY DEF Install
    <2> QED
        BY <2>1, <2>2, <2>3, <2>4 DEF TypeOK, Install, host, Steps
<1>2. WizardInv' /\ WorkerInv'
    BY DEF Install, WizardInv, WorkerInv, Mine
<1>3. UnitInv'
    BY DEF Install, UnitInv, host, TypeOK, Daemon
<1>4. FirstInv'
    BY DEF Install, FirstInv, TypeOK, host
<1>5. CurrentInv'
    BY DEF Install, CurrentInv, ServesConfigured, TypeOK, Daemon
<1> QED
    BY <1>1, <1>2, <1>3, <1>4, <1>5

LEMMA WizardSteps ==
    ASSUME IInv, Back \/ CloseWizard \/ Reopen
    PROVE  IInv'
<1> USE DEF IInv
<1> SUFFICES ASSUME Back \/ CloseWizard \/ Reopen PROVE IInv'
    OBVIOUS
<1>1. /\ UNCHANGED <<host, daemon, attempts, ignored, first, current>>
      /\ worker' \in {worker, "none"}
    BY DEF Back, CloseWizard, Reopen, history
<1>2. TypeOK'
    BY DEF TypeOK, Back, CloseWizard, Reopen, host, history, Pages
<1>3. WizardInv'
    BY DEF TypeOK, Back, CloseWizard, Reopen, WizardInv, history, Mine, Steps
<1>4. WorkerInv'
    BY DEF TypeOK, Back, CloseWizard, Reopen, WorkerInv, WizardInv, history, host, Mine, Here
<1>5. UnitInv'
    BY <1>1 DEF TypeOK, Back, CloseWizard, Reopen, UnitInv, host
<1>6. FirstInv'
    BY <1>1 DEF FirstInv, host, Installed
<1>7. CurrentInv'
    BY <1>1 DEF CurrentInv, ServesConfigured, host, Installed
<1> QED
    BY <1>2, <1>3, <1>4, <1>5, <1>6, <1>7

-----------------------------------------------------------------------------
(* Steps of the worker                                                     *)

(* How a step ends: the worker goes on, or gives up with the error shown.  *)
LEMMA EndOfStep ==
    ASSUME IInv, worker \in Steps \ {"extract", "cleanup"},
           Done(worker) \/ Fail
    PROVE  /\ WizardInv'
           /\ worker' \in Steps \cup {"none"}
           /\ wizard' \in [page : Pages, settings : Settings \cup {Nobody}]
           /\ temps' \in Nat /\ lost' \in Nat
           /\ Mine' = Mine /\ Mine \in Settings
           /\ wizard'.page # "complete"
<1> USE DEF IInv
<1>1. /\ DOMAIN Follows = {"extract", "user", "files", "config", "dirs", "unit"}
      /\ \A step \in {"user", "files", "config", "dirs", "unit"} :
            Follows[step] \in Steps \ {"extract"}
    BY DEF Follows, Steps
<1> QED
    BY <1>1 DEF Done, Advance, Fail, CleanTemps, WizardInv, TypeOK, Mine, Pages, Steps

LEMMA ExtractInv ==
    ASSUME IInv, Extract
    PROVE  IInv'
<1> USE DEF IInv
<1>2. TypeOK'
    BY DEF TypeOK, Extract, Heed, Rest, host, Pages, Steps
<1>3. WizardInv'
    BY DEF TypeOK, Extract, Heed, Rest, WizardInv, Mine
<1>4. WorkerInv'
    BY DEF TypeOK, Extract, WorkerInv
<1>5. UnitInv'
    BY DEF TypeOK, Extract, Heed, Rest, UnitInv, host
<1>6. FirstInv'
    BY DEF Extract, Heed, Rest, FirstInv, host, Installed
<1>7. CurrentInv'
    BY DEF Extract, Heed, Rest, CurrentInv, ServesConfigured, host, Installed
<1> QED
    BY <1>2, <1>3, <1>4, <1>5, <1>6, <1>7

LEMMA CreateUserInv ==
    ASSUME IInv, CreateUser
    PROVE  IInv'
<1> USE DEF IInv
<1>1. (Done("user") /\ account' = Complete) \/ Fail
    BY DEF CreateUser, Complete
<1>2. UNCHANGED <<code, config, storage, unit, daemon, attempts, ignored, first, current>>
    BY DEF CreateUser, Heed, Rest
<1>3. worker = "user" /\ account \subseteq account' /\ account' \subseteq Complete
    BY DEF CreateUser, TypeOK, Complete
<1>4. /\ WizardInv'
      /\ wizard' \in [page : Pages, settings : Settings \cup {Nobody}]
      /\ temps' \in Nat /\ lost' \in Nat
      /\ Mine' = Mine
      /\ wizard'.page # "complete"
    BY <1>1, <1>3, EndOfStep DEF Steps
<1>5. worker' \in {"files", "none"} /\ (worker' = "files" => account' = Complete)
    BY <1>1, <1>3 DEF Done, Advance, Fail, Follows
<1>6. TypeOK'
    BY <1>2, <1>3, <1>4, <1>5 DEF TypeOK, Steps, Complete
<1>7. WorkerInv'
    BY <1>5 DEF WorkerInv
<1>8. UnitInv'
    BY <1>2, <1>4 DEF UnitInv
<1>9. FirstInv'
    BY <1>2, <1>3 DEF FirstInv
<1>10. CurrentInv'
    BY <1>2, <1>3 DEF CurrentInv, ServesConfigured
<1> QED
    BY <1>4, <1>6, <1>7, <1>8, <1>9, <1>10

LEMMA InstallFilesInv ==
    ASSUME IInv, InstallFiles
    PROVE  IInv'
<1> USE DEF IInv
<1>1. /\ worker = "files"
      /\ (Done("files") /\ code' = [code EXCEPT ![Here] = "whole"]) \/ Fail
    BY DEF InstallFiles
<1>2. UNCHANGED <<account, storage, unit, daemon, attempts, first, current>>
    BY DEF InstallFiles, Rest
<1>3. /\ WizardInv'
      /\ wizard' \in [page : Pages, settings : Settings \cup {Nobody}]
      /\ temps' \in Nat /\ lost' \in Nat
      /\ Mine' = Mine /\ Mine \in Settings
      /\ wizard'.page # "complete"
    BY <1>1, EndOfStep DEF Steps
<1>4. Here \in Paths /\ Here' = Here
    BY <1>3 DEF Here, Paths
<1>5. /\ worker' \in {"config", "none"}
      /\ worker' = "config" => code'[Here] = "whole"
    BY <1>1, <1>4 DEF Done, Advance, Fail, Follows, TypeOK
<1>6. TypeOK'
    <2>1. code' \in [Paths -> {"none", "partial", "whole"}]
        BY <1>4 DEF InstallFiles, TypeOK
    <2>2. config' \in [Paths -> Config] /\ ignored' \in BOOLEAN
        <3>1. CASE config' = config /\ ignored' = ignored
            BY <3>1 DEF TypeOK
        <3>2. CASE config' = config /\ ignored' = TRUE
            BY <3>2 DEF TypeOK
        <3>3. CASE /\ config' = [config EXCEPT ![Here].owned =
                                    (@ \/ config[Here] # NoConfig)]
                   /\ ignored' = ignored
            <4>1. config[Here] \in Config
                BY <1>4 DEF TypeOK
            <4>2. [config[Here] EXCEPT !.owned = (@ \/ config[Here] # NoConfig)] \in Config
                BY <4>1 DEF Config
            <4> QED
                BY <1>4, <3>3, <4>2 DEF TypeOK
        <3> QED
            BY <3>1, <3>2, <3>3 DEF InstallFiles
    <2> QED
        BY <1>2, <1>3, <1>5, <2>1, <2>2 DEF TypeOK, Steps
<1>7. WorkerInv'
    BY <1>1, <1>2, <1>4, <1>5 DEF WorkerInv
<1>8. UnitInv'
    BY <1>2, <1>3 DEF UnitInv
<1>9. FirstInv'
    BY <1>1, <1>2 DEF FirstInv
<1>10. CurrentInv'
    BY <1>1, <1>2 DEF CurrentInv, ServesConfigured
<1> QED
    BY <1>3, <1>6, <1>7, <1>8, <1>9, <1>10

LEMMA CreateConfigInv ==
    ASSUME IInv, CreateConfig
    PROVE  IInv'
<1> USE DEF IInv
<1>1. worker = "config" /\ (Done("config") \/ Fail)
    BY DEF CreateConfig
<1>2. UNCHANGED <<account, code, storage, unit, daemon, attempts, first, current>>
    BY DEF CreateConfig, Rest
<1>3. /\ WizardInv'
      /\ wizard' \in [page : Pages, settings : Settings \cup {Nobody}]
      /\ temps' \in Nat /\ lost' \in Nat
      /\ Mine' = Mine /\ Mine \in Settings
      /\ wizard'.page # "complete"
    BY <1>1, EndOfStep DEF Steps
<1>4. Here \in Paths /\ Here' = Here
    BY <1>3 DEF Here, Paths
<1>5. worker' \in {"dirs", "none"}
    BY <1>1 DEF Done, Advance, Fail, Follows
<1>6. worker' = "dirs" => Done("config")
    BY <1>1 DEF Fail
<1>7. config' \in [Paths -> Config]
    <2>1. config[Here] \in Config
        BY <1>4 DEF TypeOK
    <2>2. \A f \in Config : [config EXCEPT ![Here] = f] \in [Paths -> Config]
        BY <1>4 DEF TypeOK
    <2>3. Whole(Mine) \in Config
        BY <1>3 DEF Whole, Config
    <2>4. CASE config' = [config EXCEPT ![Here] =
                             [text |-> Mine, owned |-> TRUE, open |-> FALSE]]
        BY <2>2, <2>3, <2>4 DEF Whole
    <2>5. CASE config' = [config EXCEPT ![Here].text = Mine, ![Here].open = FALSE]
        BY <1>3, <1>4, <2>1, <2>5 DEF TypeOK, Config
    <2>6. CASE config' = config
        BY <2>6 DEF TypeOK
    <2>7. CASE config' = [config EXCEPT ![Here].text = Default]
        BY <1>3, <1>4, <2>1, <2>7 DEF TypeOK, Config
    <2>8. CASE config' = [config EXCEPT ![Here].text = Mine]
        BY <1>3, <1>4, <2>1, <2>8 DEF TypeOK, Config
    <2>9. CASE config' = [config EXCEPT ![Here].text = Mine, ![Here].owned = TRUE]
        BY <1>3, <1>4, <2>1, <2>9 DEF TypeOK, Config
    <2> QED
        BY <2>4, <2>5, <2>6, <2>7, <2>8, <2>9 DEF CreateConfig
<1>8. ignored' \in BOOLEAN
    BY DEF CreateConfig, TypeOK
<1>9. TypeOK'
    BY <1>2, <1>3, <1>5, <1>7, <1>8 DEF TypeOK, Steps
<1>10. worker' = "dirs" /\ ~ ignored' => config'[Here] = Whole(Mine)
    <2>1. CASE config' = [config EXCEPT ![Here] =
                             [text |-> Mine, owned |-> TRUE, open |-> FALSE]]
        BY <1>4, <2>1 DEF TypeOK, Whole
    <2>2. CASE ignored' = TRUE
        BY <2>2
    <2>3. CASE Fail
        BY <2>3 DEF Fail
    <2> QED
        BY <2>1, <2>2, <2>3 DEF CreateConfig
<1>11. WorkerInv'
    BY <1>1, <1>2, <1>3, <1>4, <1>5, <1>10 DEF WorkerInv, Whole
<1>12. UnitInv'
    BY <1>2, <1>3 DEF UnitInv
<1>13. FirstInv'
    BY <1>1, <1>2 DEF FirstInv
<1>14. CurrentInv'
    BY <1>1, <1>2 DEF CurrentInv, ServesConfigured
<1> QED
    BY <1>3, <1>9, <1>11, <1>12, <1>13, <1>14

LEMMA CreateDirsInv ==
    ASSUME IInv, CreateDirs
    PROVE  IInv'
<1> USE DEF IInv
<1> DEFINE b == Base[Mine]
           made == [storage EXCEPT ![b] = IF @ = "none" THEN "root" ELSE @]
<1>1. worker = "dirs" /\ (Done("dirs") \/ Fail)
    BY DEF CreateDirs
<1>2. UNCHANGED <<account, code, config, unit, daemon, attempts, first, current>>
    BY DEF CreateDirs, Rest
<1>3. /\ WizardInv'
      /\ wizard' \in [page : Pages, settings : Settings \cup {Nobody}]
      /\ temps' \in Nat /\ lost' \in Nat
      /\ Mine' = Mine /\ Mine \in Settings
      /\ wizard'.page # "complete"
    BY <1>1, EndOfStep DEF Steps
<1>4. b \in Storages /\ Here' = Here
    BY <1>3 DEF Here, Storages
<1>5. worker' \in {"unit", "none"}
    BY <1>1 DEF Done, Advance, Fail, Follows
<1>6. /\ made \in [Storages -> {"none", "root", "blzbak"}]
      /\ made[b] # "none"
    BY <1>4 DEF TypeOK
<1>7. /\ storage' \in [Storages -> {"none", "root", "blzbak"}]
      /\ ignored' \in BOOLEAN
      /\ worker' = "unit" => storage'[b] # "none"
      /\ worker' = "unit" /\ ~ ignored' => ~ ignored /\ storage'[b] = "blzbak"
    <2>1. CASE storage' = [storage EXCEPT ![b] = "blzbak"] /\ ignored' = ignored
        BY <1>4, <2>1 DEF TypeOK
    <2>2. CASE storage' = made /\ ignored' = TRUE
        BY <1>6, <2>2 DEF TypeOK
    <2>3. CASE storage' \in {storage, made} /\ Fail /\ ignored' = ignored
        BY <1>6, <2>3 DEF Fail, TypeOK
    <2> QED
        BY <2>1, <2>2, <2>3 DEF CreateDirs
<1>8. TypeOK'
    BY <1>2, <1>3, <1>5, <1>7 DEF TypeOK, Steps
<1>9. WorkerInv'
    BY <1>1, <1>2, <1>3, <1>4, <1>5, <1>7 DEF WorkerInv, Whole
<1>10. UnitInv'
    BY <1>2, <1>3 DEF UnitInv
<1>11. FirstInv'
    BY <1>1, <1>2 DEF FirstInv
<1>12. CurrentInv'
    BY <1>1, <1>2 DEF CurrentInv, ServesConfigured
<1> QED
    BY <1>3, <1>8, <1>9, <1>10, <1>11, <1>12

(* What is installed for the settings that were entered, once the unit is. *)
LEMMA UnitInstalled ==
    ASSUME IInv, worker \in {"unit", "cleanup"}, ~ ignored
    PROVE  Installed(Mine)
BY DEF IInv, WorkerInv, Installed, Here

LEMMA InstallUnitInv ==
    ASSUME IInv, InstallUnit
    PROVE  IInv'
<1> USE DEF IInv
<1>1. worker = "unit" /\ (Done("unit") \/ Fail)
    BY DEF InstallUnit
<1>2. UNCHANGED <<account, code, config, storage, daemon, attempts, ignored, current>>
    BY DEF InstallUnit, Rest
<1>3. /\ WizardInv'
      /\ wizard' \in [page : Pages, settings : Settings \cup {Nobody}]
      /\ temps' \in Nat /\ lost' \in Nat
      /\ Mine' = Mine /\ Mine \in Settings
      /\ wizard'.page # "complete"
    BY <1>1, EndOfStep DEF Steps
<1>4. Here' = Here /\ Mine # Nobody
    BY <1>3, InstallerAssumption DEF Here
<1>5. worker' \in {"cleanup", "none"}
    BY <1>1 DEF Done, Advance, Fail, Follows
<1>6. CASE /\ unit' = [file |-> Mine, loaded |-> Mine, enabled |-> TRUE]
           /\ first' = IF unit.enabled THEN first ELSE attempts
    <2>1. TypeOK'
        BY <1>2, <1>3, <1>5, <1>6 DEF TypeOK, Steps
    <2>2. WorkerInv'
        BY <1>1, <1>2, <1>3, <1>4, <1>5, <1>6 DEF WorkerInv
    <2>3. UnitInv'
        BY <1>3, <1>4, <1>6 DEF UnitInv
    <2>4. FirstInv'
        BY <1>1, <1>2, <1>5, <1>6, UnitInstalled DEF FirstInv, Installed, TypeOK
    <2>5. CurrentInv'
        BY <1>1, <1>2 DEF CurrentInv, ServesConfigured
    <2> QED
        BY <1>3, <2>1, <2>2, <2>3, <2>4, <2>5
<1>7. CASE /\ unit' \in {unit, [unit EXCEPT !.file = Mine],
                         [unit EXCEPT !.file = Mine, !.loaded = Mine]}
           /\ first' = first
           /\ Fail
    <2>1. /\ unit' \in [file : Settings \cup {Nobody}, loaded : Settings \cup {Nobody},
                        enabled : BOOLEAN]
          /\ unit'.enabled = unit.enabled
          /\ unit'.file \in {unit.file, Mine}
          /\ unit'.loaded \in {unit.loaded, Mine}
          /\ unit'.loaded # unit.loaded => unit'.file = Mine
        BY <1>3, <1>7 DEF TypeOK
    <2>2. worker' = "none"
        BY <1>7 DEF Fail
    <2>3. TypeOK'
        BY <1>2, <1>3, <1>7, <2>1, <2>2 DEF TypeOK
    <2>4. WorkerInv'
        BY <2>2 DEF WorkerInv
    <2>5. UnitInv'
        BY <1>2, <1>3, <1>4, <2>1 DEF UnitInv
    <2>6. FirstInv'
        BY <1>1, <1>2, <1>7, <2>1 DEF FirstInv
    <2>7. CurrentInv'
        BY <1>1, <1>2 DEF CurrentInv, ServesConfigured
    <2> QED
        BY <1>3, <2>3, <2>4, <2>5, <2>6, <2>7
<1> QED
    BY <1>6, <1>7 DEF InstallUnit

LEMMA CleanupInv ==
    ASSUME IInv, Cleanup
    PROVE  IInv'
<1> USE DEF IInv
<1>1. /\ worker = "cleanup" /\ worker' = "none"
      /\ UNCHANGED <<host, daemon, attempts, ignored, first>>
      /\ current' = IF ignored THEN Nobody ELSE Mine
    BY DEF Cleanup
<1>2. /\ wizard' \in [page : Pages, settings : Settings \cup {Nobody}]
      /\ wizard'.page = "complete"
      /\ Mine' = Mine /\ Mine \in Settings /\ Mine # Nobody
    BY <1>1, InstallerAssumption DEF Cleanup, TypeOK, Pages, WizardInv, Mine
<1>3. temps' \in Nat /\ lost' \in Nat /\ temps' = lost'
    BY <1>1 DEF Cleanup, CleanTemps, WizardInv, TypeOK
<1>4. TypeOK'
    BY <1>1, <1>2, <1>3 DEF TypeOK, host
<1>5. WizardInv'
    BY <1>1, <1>2, <1>3 DEF WizardInv
<1>6. WorkerInv'
    BY <1>1 DEF WorkerInv
<1>7. UnitInv'
    BY <1>1, <1>2 DEF WorkerInv, UnitInv, host
<1>8. FirstInv'
    BY <1>1 DEF FirstInv, host, Installed
<1>9. CurrentInv'
    <2>1. current = Nobody /\ ~ daemon.fresh
        BY <1>1 DEF CurrentInv
    <2>2. ~ ignored => Installed(Mine)'
        BY <1>1, <1>2, UnitInstalled DEF Installed, host
    <2> QED
        BY <1>1, <1>2, <2>1, <2>2 DEF CurrentInv, ServesConfigured, WorkerInv, host
<1> QED
    BY <1>4, <1>5, <1>6, <1>7, <1>8, <1>9

-----------------------------------------------------------------------------
(* Steps of systemd                                                        *)

(* Where all is installed and no failure was ignored, the daemon starts    *)
(* with these settings, and may write the storage - if a service can at    *)
(* all be run with them; if not, it does not start.                        *)
LEMMA InstalledStarts ==
    ASSUME NEW s \in Settings, Installed(s)
    PROVE  /\ Loaded(s) = s
           /\ Servable(s) <=> Startable(s)
           /\ Servable(s) =>
                  Started(s) = [state |-> "up", serves |-> s, fresh |-> current # Nobody,
                                writes |-> TRUE]
           /\ ~ Servable(s) =>
                  Started(s) = [state |-> "failing", serves |-> Nobody,
                                fresh |-> current # Nobody, writes |-> FALSE]
<1>1. config[Path[s]].text = s /\ config[Path[s]].owned /\ s # Nobody
    BY InstallerAssumption DEF Installed, Whole
<1>2. Loaded(s) = s
    BY <1>1 DEF Loaded
<1>3. Servable(s) <=> Startable(s)
    BY <1>2 DEF Installed, Startable, Servable, Complete
<1> QED
    BY <1>2, <1>3 DEF Started, Installed

LEMMA StartedType ==
    ASSUME TypeOK, NEW s \in Settings
    PROVE  /\ Started(s) \in Daemon /\ Started(s).state # "down"
           /\ Started(s).fresh = (current # Nobody)
<1>1. config[Path[s]] \in Config
    BY DEF TypeOK, Paths
<1>2. Loaded(s) \in Settings \cup {Default, Nobody}
    BY <1>1 DEF Loaded, Config
<1>3. (current # Nobody) \in BOOLEAN
      /\ (Base[Loaded(s)] = Base[s] /\ storage[Base[s]] = "blzbak") \in BOOLEAN
    OBVIOUS
<1> QED
    BY <1>2, <1>3 DEF Started, Daemon

LEMMA StartStep ==
    ASSUME IInv, StartDaemon \/ Restart
    PROVE  IInv'
<1> USE DEF IInv
<1> SUFFICES ASSUME StartDaemon \/ Restart PROVE IInv'
    OBVIOUS
<1>1. /\ UNCHANGED <<worker, host, temps, history>>
      /\ wizard' \in {wizard, [wizard EXCEPT !.page = "closed"]}
      /\ wizard' # wizard => wizard.page = "complete"
    BY DEF StartDaemon, Restart
<1>2. unit.loaded \in Settings
    BY DEF StartDaemon, Restart, UnitInv, TypeOK
<1>3. daemon' \in {daemon, Started(unit.loaded)}
    BY DEF StartDaemon, StopAndStart, Restart
<1>4. TypeOK'
    BY <1>1, <1>2, <1>3, StartedType DEF TypeOK, host, history, Pages
<1>5. WizardInv' /\ WorkerInv'
    BY <1>1 DEF WizardInv, WorkerInv, TypeOK, Mine, Here, host, history
<1>6. UnitInv'
    BY <1>1, <1>2, <1>3, InstallerAssumption DEF UnitInv, TypeOK, host
<1>7. FirstInv'
    BY <1>1 DEF FirstInv, Installed, host, history
<1>8. CurrentInv'
    <2>1. ASSUME current # Nobody
          PROVE  unit.loaded = current /\ Installed(current)
        BY <2>1 DEF CurrentInv
    <2>2. ServesConfigured'
        BY <1>1, <1>2, <1>3, <2>1, InstalledStarts
        DEF CurrentInv, ServesConfigured, history
    <2> QED
        BY <1>1, <1>2, <1>3, <2>2, StartedType DEF CurrentInv, Installed, host, history
<1> QED
    BY <1>4, <1>5, <1>6, <1>7, <1>8

LEMMA BootStep ==
    ASSUME IInv, Boot
    PROVE  IInv'
<1> USE DEF IInv
<1>1. /\ worker = "none"
      /\ UNCHANGED <<worker, account, code, config, storage, temps, history>>
      /\ wizard' = [wizard EXCEPT !.page = "closed"]
      /\ unit' = [unit EXCEPT !.loaded = unit.file]
      /\ daemon' = IF unit.enabled THEN Started(unit.file) ELSE Down
    BY DEF Boot
<1>2. unit.enabled => unit.file \in Settings
    BY DEF UnitInv, TypeOK
<1>3. /\ unit'.file = unit.file /\ unit'.loaded = unit.file
      /\ unit'.enabled = unit.enabled
    BY <1>1 DEF TypeOK
<1>4. Down \in Daemon /\ Down.state = "down" /\ ~ Down.fresh
    BY DEF Down, Daemon
<1>5. TypeOK'
    <2>1. daemon' \in Daemon
        BY <1>1, <1>2, <1>4, StartedType
    <2> QED
        BY <1>1, <2>1 DEF TypeOK, history, Pages
<1>6. WizardInv' /\ WorkerInv'
    BY <1>1 DEF WizardInv, WorkerInv, TypeOK, Mine, Here, history
<1>7. UnitInv'
    BY <1>1, <1>2, <1>3, <1>4, InstallerAssumption DEF UnitInv, TypeOK
<1>8. FirstInv'
    BY <1>1, <1>3 DEF FirstInv, Installed, history
<1>9. CurrentInv'
    <2>1. ASSUME current # Nobody
          PROVE  /\ unit = [file |-> current, loaded |-> current, enabled |-> TRUE]
                 /\ Installed(current)
        BY <2>1 DEF CurrentInv
    <2>2. current # Nobody => unit' = unit
        BY <1>1, <2>1
    <2>3. ServesConfigured'
        BY <1>1, <1>2, <1>4, <2>1, InstalledStarts DEF ServesConfigured, history
    <2>4. daemon'.fresh => current # Nobody
        BY <1>1, <1>2, <1>4, StartedType
    <2> QED
        BY <1>1, <2>1, <2>2, <2>3, <2>4 DEF CurrentInv, Installed, history
<1> QED
    BY <1>5, <1>6, <1>7, <1>8, <1>9

-----------------------------------------------------------------------------
(* The theorems                                                            *)

LEMMA StepInv == IInv /\ [Next]_vars => IInv'
<1> SUFFICES ASSUME IInv, [Next]_vars PROVE IInv'
    OBVIOUS
<1>1. CASE \E s \in Settings : Install(s)
    BY <1>1, InstallInv
<1>2. CASE Back \/ CloseWizard \/ Reopen
    BY <1>2, WizardSteps
<1>3. CASE Work
    BY <1>3, ExtractInv, CreateUserInv, InstallFilesInv, CreateConfigInv, CreateDirsInv,
       InstallUnitInv, CleanupInv DEF Work
<1>4. CASE StartDaemon \/ Restart
    BY <1>4, StartStep
<1>5. CASE Boot
    BY <1>5, BootStep
<1>6. CASE UNCHANGED vars
    BY <1>6 DEF IInv, TypeOK, WizardInv, WorkerInv, UnitInv, FirstInv, CurrentInv,
       ServesConfigured, Installed, Mine, Here, vars, host, history
<1> QED
    BY <1>1, <1>2, <1>3, <1>4, <1>5, <1>6 DEF Next

LEMMA Invariance == Spec => []IInv
BY InitInv, StepInv, PTL DEF Spec

(* The types of the variables.                                             *)
THEOREM TypeCorrect == Spec => []TypeOK
<1>1. IInv => TypeOK
    BY DEF IInv
<1> QED
    BY <1>1, Invariance, PTL

(* However many attempts came before, with whatever settings, failed or    *)
(* cut short: after one that reported success, no failure of which was     *)
(* ignored, every start of the daemon serves what was entered - or fails,  *)
(* when the settings name a directory that the unit hides or a port that   *)
(* blzbak cannot bind.                                                     *)
THEOREM InstalledIsServed == Spec => []ServesConfigured
<1>1. IInv => ServesConfigured
    BY DEF IInv, CurrentInv
<1> QED
    BY <1>1, Invariance, PTL

(* The service is enabled last: from then on it can start, as far as the   *)
(* installer provides for it.                                              *)
THEOREM EnabledIsWhole == Spec => []EnabledStarts
<1>1. IInv => EnabledStarts
    <2> SUFFICES ASSUME IInv, unit.enabled, attempts = first, ~ ignored
                 PROVE  /\ Loaded(unit.file) = unit.file
                        /\ Servable(unit.file) => Startable(unit.file)
        BY DEF EnabledStarts
    <2>1. unit.file \in Settings /\ Installed(unit.file)
        BY DEF IInv, TypeOK, UnitInv, FirstInv
    <2> QED
        BY <2>1, InstalledStarts
<1> QED
    BY <1>1, Invariance, PTL

(* No directory is left in /tmp whose removal had a chance.                *)
THEOREM NoTempLeft == Spec => []TempsRemoved
<1>1. IInv => TempsRemoved
    BY DEF IInv, WizardInv, TempsRemoved
<1> QED
    BY <1>1, Invariance, PTL
=============================================================================
