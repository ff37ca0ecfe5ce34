# blzbak in TLA+

blzbak is a backup program: a command line client that mirrors directories to a server with rsync, and a
daemon (`blzbakd`) that keeps, for every *backup set*, the current copy `C`, the copy before it `O`, and
a chain of diff archives for everything older. This directory holds a formal model of it, the runs of
TLC that check the model and the proofs that TLAPS checks. `PROJECT.json` lists the components, the
runs, the source lines each definition stands for, the findings and the hazards.

## Inventory

| Component | State | Operations | What makes it correct |
|---|---|---|---|
| Rotation (`daemon/storage.py` 117-249, 361-426) | per set: directories `C`, `O`, `diffs/` | `PREPARE_BACKUP`: archive `O` as a patch against `C`, copy `C` over `O`; `BACKUP_COMPLETE` | whatever a finished backup held can be rebuilt from `C`, `O` and the patches, through failed runs and retries |
| Histories (`storage.py` 251-359) | per set: `set.log`, `C/.blzbak-metadata`, `backup.log` | new entry, archive of the second entry, stamp of the newest | an entry's `diff_path`, `location_type` and `finished_at` are those of its own backup; the file survives what cuts its rewriting |
| Set directory (`storage.py` 489-657) | the directory itself and `metadata.yaml` | `CREATE_SET`, `DELETE_SET`, mkdirs of the others | creation is exclusive and leaves nothing when it fails; deletion is complete when it says so |
| backup run (`commands/backup_cmd.py`, `rsync.py`, `client.py`) | none but the connection | prepare, rsync, complete | completion is reported only for a tree that was mirrored |
| Set and cron commands (`commands/set_cmd.py`, `cron_cmd.py`, `backup.py`, `cron.py`) | a YAML file per set, a file per set in `/etc/cron.d` | set create, delete, edit, cron install, remove, edit | local and remote state agree when a command ends; cron never finds half a job |
| Connections (`protocol.py`, `server.py`, `client.py`) | sockets, one thread per client | framing, dispatch, timeouts, stop | one answer per request, and it is the answer to that request |
| FILES_DIFF (`storage.py` 659-1023, `files_cmd.py`) | none | local files against `C`, `O` and the archives | each backup of the log is compared with its own tree |
| Installer (`src/installer/`, `daemon/config.py`, `daemon/cli.py`) | account, files, configuration, storage, unit, the wizard's pages | seven steps in a worker thread, start of the daemon | after success the daemon serves what was entered; what fails leaves nothing that starts |
| Requests that read, client configuration, restore, Docker | - | - | see "Not modelled" |

The client and the daemon talk over one TCP connection per command; rsync writes into `C` directly over
ssh, without the daemon's knowledge, between `PREPARE_BACKUP` and `BACKUP_COMPLETE`. Handlers of several
connections run in several threads on the same files, without any lock.

What is hard: a run can fail at any point between the two requests and the next one rotates whatever it
left; an archive and `set.log` are updated in separate steps, and `set.log` in three; `BACKUP_COMPLETE` does
not say which run it belongs to, and an answer not which request; the client's patience is shorter than the
daemon's work; a command's remote half and its local half fail independently; two workers handle requests for
one set at once; the daemon's threads are cut wherever they are when it stops; an installation is made over the
remains of another.

## Modules

| Module | What it is |
|---|---|
| `Snapshots` | contents, snapshot trees, what `diff -ruN` records and `patch -R` gives back |
| `SetLog` | `set.log` as a sequence, newest first, and the three functions that rewrite it |
| `Rotation` | one backup set and its clients: a state machine over `C`, `O`, the archives and the log |
| `BackupArchive` | what a set promises, in two variables; `Rotation` implements it (`PromiseKept`) |
| `FilesDiff` | the answer of FILES_DIFF as operators on the states of `Rotation` |
| `SetLogFile` | `set.log` and `.blzbak-metadata` as files, and the steps of the threads that rewrite them |
| `Daemon` | connections, requests, answers, timeouts, stop and start, on top of `SetLogFile` |
| `SetDirectory` | the set's directory and the worker threads that create, delete and prepare it, one file operation a step |
| `SetLifecycle` | the clients' set, cron and run commands on top of `SetDirectory`, with the local files |
| `Schedules` | the YAML file and the cron job of a set on one host, step by step |
| `Installer` | the wizard, its worker, what it leaves on the host, the daemon that systemd starts |
| `MCRotation`, `MCFilesDiff`, `MCDaemon`, `MCLifecycle`, `MCSchedules`, `MCInstaller` | the instances TLC checks |
| `SetLogProofs` | what the three rewritings of the log keep: types, numbering, pointers |
| `RotationProofs` | theorems about `Rotation`: types, chain, stamps, locations, nothing lost, the refinement |
| `FilesDiffProofs` | theorems about the answers of FILES_DIFF, on top of `RotationProofs` |
| `DaemonProofs`, `DaemonRecordProofs` | theorems about `Daemon`: answers, numbering, archives, atomicity; what is recorded |
| `LifecycleProofs`, `SchedulesProofs`, `InstallerProofs` | theorems about `SetLifecycle`, `Schedules`, `Installer` |

Three modules look at PREPARE_BACKUP, each at what the others leave out: `Rotation` at the trees (requests
atomic, one client), `SetLogFile` at the files of the bookkeeping (trees left out), `SetDirectory` at the directories. `Rotation`
and `SetLogFile` share `SetLog`; the property `StepsOfHistory` says that, as long as runs do not overlap, the steps of
`SetLogFile` add up to the atomic ones `Rotation` assumes. Handler threads use no lock, so with overlapping requests they do
not; that is why `Rotation` has the assumption `OneClient`, and the overlapping runs are in `Daemon`.

### Rotation and the code

`dirs` is which of `C` and `O` exist; `C` and `O` are functions from paths to contents, with
`.blzbak-metadata` as a path of its own because it is part of what diff and rsync see. Contents are tokens
in four classes, by what diff does with them: text, text that is not UTF-8, binary, zero-length. `archives`
is `diffs/` in the order of its timestamps and `log` is `set.log`; an entry's `started` and `finished` are the
runs behind `started_at` and `finished_at`, so that a stamp by the wrong run can be seen. `run` is, per
client, the tree rsync set out to mirror and the paths still to copy. `held` is history: it
records what `C` was when the next backup began, which is what "the backup of that entry" means in `Link`.

`PREPARE_BACKUP` is one action with the branches of `prepare_backup`: `PrepareFirst`, `PrepareNoO`,
`PrepareRotate`, and `RejectMkdir`, `RejectDiff`, `RejectSync` for the points at which it raises, with what
was done before that point kept. `Transfer` copies one path, in any order; `Fail` ends a run wherever it is;
`Complete` is `mark_backup_complete`. The two requests are atomic here, and the client is one (`OneClient`). With `lostReply` its
next request comes after the daemon has ended the one it gave up: that the two overlap is left to `Daemon`.
The constant `Faults` says what goes wrong: `transfer` (rsync or the client dies), `lostReply` (the client
gives up on `PREPARE_BACKUP`, the daemon does not), `diff`, `sync`, `mkdir` (that step fails),
`sameSecond` (two archives get one name) and `dryRun`. `MirrorsRoot` is whether a source
path ends in a slash: rsync `--delete` then owns `C`'s root and removes `.blzbak-metadata` from it.

Binary files that differ are a line of diff's output and nothing of their contents. GNU diffutils documents exit status 2 for
them, which the code takes for an error (the set is blocked until they are alike again); version 3.8 exits with 1, with `-r` and without, and
then the archive lacks them. Both may happen in the model (`BinaryDiffers` in `RejectDiff`; `Recorded`).

### SetDirectory, SetLifecycle and the code

`disk` is which items the set's directory has, `madeBy` the command whose request made the directory. A
worker is a program counter in `create_set`, `delete_set` or `prepare_backup`; each step is one mkdir, file or
rmtree, so that other workers get between the check of `create_set` and its mkdir, and between the rmtrees of
`delete_set`. The parents that mkdir makes are
made here too (`Make`): a file operation of a late worker can bring back the directory of a deleted set, as
in the code. An rmtree fails half way by a fault, or because another worker changes the tree meanwhile. `SetLifecycle` adds for each host the
command it runs, its YAML file (`config`, by the create that
saved it) and its cron file, in the order of `set_cmd.py`: server, YAML file, cron. `overlapped` and `crossed` are history: two
requests for the set were handled at once, and two of them were creations or deletions. Nothing in the code prevents either.

### FilesDiff and the code

`CurrentDiffs`, `PreviousDiffs` and `PatchDiffs` are the three parts of `compare_files_across_backups`, `Located`
the ways it maps the asked folder into `C`: under the source's name, as it was asked, or by the end of its name anywhere (the
first match in the order of the directory, so any). Paths are sequences of names, `Place` is where rsync puts
them. The texts of the answer are kept as far as they say which backup, which path and which kind of
difference; the time stamps are one bit per request, "touched". `Endings` and `Beginnings` say for which
names the code's `endswith` and `startswith`, which work on characters, find a name inside another. Directories are
entries of the code's lists too; here only files are, and a folder of which nothing but directories is left counts as empty. `Asked` is
what `cmd_files` sends a request for: a folder that exists and has something in it (the daemon refuses an empty list besides). `FilesAssumption` says what the model takes for granted: paths are
sequences of at least two names, and a file has size zero exactly when it is a zero-length file.

### SetLogFile, Daemon and the code

A thread's `at` is the next step in `prepare_backup` or `mark_backup_complete`; `load`, `open` and `write` are
the three steps of a rewriting of `set.log` (`_load_set_log`, `open(.., "w")`, the flush when the file is closed). `tool` makes diff,
the archive or rsync fail, `disk` a write of the bookkeeping, which leaves a part and is swallowed, as in the code:
`PREPARE_BACKUP` answers ok. `RsyncDeletes` is the client's rsync that removes the metadata file when a source ends in a slash;
BACKUP_COMPLETE then writes one without `started_at`. `EndThreads` is the end of the process with every thread where it is. What is lost
is what the interpreter had buffered; a file system that loses what was written is not modelled.

`link` is a connection by its two directions: requests sent and not read, answers sent and not taken, and whether the
client's end is open. `GiveUp` is the timeout of 300 s or 30 s: `TimeoutError` is no `DaemonError`, so it ends the
command, whose `finally` closes the connection; a thread finds out when it next reads or writes, and handles the request
before that. `Exit` is the end of `stop()`, which has waited two seconds for each thread; a crash is `Stop` and `Exit` in
succession. Frames of more than one message or less do not occur: the client sends a request and waits.

### Schedules and the code

A command is a program counter in `set_cmd.py` or `cron_cmd.py`. Files are opened, which empties them, and written, in
two steps. `opened` is what the file a command has open is called *by now*: `temp.replace(path)` renames the
one temporary file all commands use, so that a command which still writes it writes the job. `Cut` is an empty or partial
file, or the mixture two writers leave who had a file open at once (`shared`; `Written`): each writes from the start, and a shorter text may
end with the rest of a longer one. `contended` is history: two commands had the temporary file or the job open at once. A YAML file that is cut
after the name is loaded, with the default schedule (`Loaded`). When `/etc/cron.d` may not be written, or writing the temporary file
fails, the job is written by `sudo tee`, in place.

### Installer and the code

The worker's steps are those of `InstallationWorker.run`; each may fail with any part of what it does done. `Settings`
are what the user may enter, with an installation path and a storage each, so that attempts share a path, a storage or
nothing. `config` has the owner and mode that decide whether the daemon can read it: open for all until
`chmod 0640`, whose own it is by `chown`, whose result nobody looks at. `Startable` and `Started` are what systemd and
`blzbakd` do with a unit: user, executable and `ReadWritePaths` must exist; the base directory of the
configuration *as loaded* must exist or be made, which `ProtectSystem=strict` does not allow. The wizard accepts any absolute path, port and
host: `Hidden` are the directories the unit does not see (`ProtectHome`, `PrivateTmp`), `Unbindable` the settings whose host and
port the user blzbak cannot bind; with them every start fails (`Servable`). `CloseWizard` is also the end of the
installer's process in the middle of a step.

## Runs

| Run | Expect | Shows |
|---|---|---|
| `MCRotation_archive` | pass | one client, two files, two texts, four runs that fail, are given up or are rejected: `ChainInv`, the refinement `PromiseKept`; a run that is reported complete left a mirror of its tree (`CompleteMeansMirrored`) |
| `MCRotation_faults` | pass | `sync`, undecodable text, dry runs, rsync owning the root: no snapshot of the log leaves the disk (`StillOnDisk`), stamps are of the own run (`StampedByOwnRun`) |
| `MCFilesDiff_slashed` | pass | in every state of a set whose source ends in a slash, for any local files of a folder that has one left: the answer about the newest backup is exact (`CurrentExact`), that about older ones true (`HistoryTrue`) and complete (`HistoryComplete`) |
| `MCFilesDiff_plain` | pass | a source without a slash, binary files, archives made in one second: `CurrentExact`, and the locations in `set.log` are true when the newest backup is finished (`LocationsTrue`; it is about the log alone, and an archive that was replaced within a second is lost all the same) |
| `MCDaemon_daemon` | pass | answers are taken for the right request; `set.log` keeps its numbering, what was reported complete and no archive that does not exist, through crashes and full disks; the metadata file agrees with it; threads of clients that are gone end |
| `MCLifecycle_lifecycle` | pass | two hosts, one set name, two workers, every failure at every step: acknowledged sets are kept while backups overlap, rejected creations and answered deletions leave nothing, no command waits for the server for ever |
| `MCSchedules_schedules` | pass | four commands of two processes, cut anywhere: half a job only when two commands had one file of the job open at once, `sudo tee` is cut, or commands overlap *and* one is cut (`JobWhole`); a job has its set's schedule (`JobMatchesSet`) |
| `MCInstaller_installer` | pass | three attempts with four settings, one under `/home` and one with a port for root: success means that the daemon serves what was entered, or nothing when no service can (`ServesConfigured`), a unit enabled for the first time has what it needs (`EnabledStarts`), temporary directories are removed, every attempt ends |
| `MCRotation_blank` | violation | a zero-length file that appears cannot be recreated from the archives |
| `MCDaemon_shared_stamp` | violation | of two overlapping runs the first to finish stamps the other's entry |
| `MCLifecycle_create_race` | violation | the loser of two concurrent creations deletes the winner's set |
| `MCLifecycle_lost_answer` | violation | a creation whose answer is lost leaves a set no command can reach |

Several properties are withdrawn by a history variable, because the code promises nothing beyond: `RecordedWhenReported` and
`MetadataMatchesLog` once runs overlapped or the bookkeeping failed (and was swallowed), `Contiguous` and `StepsOfHistory` once runs overlapped,
`AcknowledgedKept` by two creations or deletions at once, `DeletedIsGone` by any overlap (that an absent set is answered ok it does not
see), `JobMatchesSet` by a cut, an overlap or a schedule set alone, `ServesConfigured` and `EnabledStarts` by a failure of chown. In
`faults` there is one client, so `StampedByOwnRun` there says only that its stamps do not go to older entries.

Further differences between the code and its documents, met while modelling and reproducible with these models
(by a fault the passing runs leave out, or by one more property), without a run of their own:

* A failed run and its retry: the half-transferred tree is moved into `O`, so that neither `C` nor `O` is a
  completed backup, where `notes/AI Build Notes.txt:50` has two full copies. It can still be rebuilt (`PromiseKept`).
* `backup run --dry-run` rotates the set and reports a completed backup (`backup_cmd.py:40`).
* The wizard accepts an installation path or a storage under `/home`, which its own unit hides, and ports below 1024, which the daemon's
  user cannot bind, and reports success (`installer_gui.py:309`).
* A changed text that is not UTF-8 makes `PREPARE_BACKUP` fail, at every retry (`storage.py:219`).
* For a source given without a slash FILES_DIFF looks into `O` and the archives under the folder as it was asked, without the source's
  name (`storage.py:730`, `:751`), so older differences are not found: `HistoryComplete` is about the others. A request for a single file is
  always answered "new".
* A run that gives up on `BACKUP_COMPLETE` (the answer waits for the size of all of `C`, the client 30 s) ends with an
  error though it is recorded as finished.
* `backup_cmd` uses no `--relative` and `restore_cmd` does: "restore to /" does not put files where they came from, and the
  "absolute path" of `restore file` (`cli.py:164`) is looked up below `C`.

Bounds. `MaxRuns = 4` of the archive run is the number of requests after which the oldest of four backups depends on two patches and has
gone through every location (C, O, first archive, archive behind an archive); with a failed run among them,
three backups and a gap. Two files suffice for a transfer that is half done. Two texts and absence make changes, deletions and
returns to an earlier content. `MCFilesDiff` has three runs, which give an entry in each of `C`, `O` and an archive, and two files in one
folder, so that one can be gone while the folder is asked about; contents of one size, so that only the hash tells them apart. `MCDaemon` begins
with one backup made (`Before = 1`) and begins two runs (`MaxRuns = 3`): the second `PREPARE_BACKUP` is the first with
two entries to archive from; two threads, because the one of a client that gave up may still work while its next run is
served. `MaxCommands = 3` of the lifecycle allows a creation, a failed or unanswered deletion and a creation by the other host, with the late
worker still at it; the theorems have no such bound. Four commands of
`MCSchedules` allow a set that is created, changed by two commands at a time and deleted. Three attempts of `MCInstaller` allow one
that is cut, one that succeeds over it and one with other settings over that; the settings are those proposed, another storage at the same path,
a path that is hidden and a port that cannot be bound.
Where a bound is reached the model stops, and so may the real system (nobody has to run a backup): deadlock is
not checked.

Fairness. `CommandsEnd`: worker threads are scheduled and the client's waiting and file steps are taken
(`WF` on each), because every socket of the client has a timeout and every handler ends in an answer or in the end
of its thread. Nothing is assumed of rsync, which has no timeout, or of the user who is asked for `sudo`: the property lets a command stay
there. `ThreadsFreed`: a thread that has something to do goes on (there is no lock to wait for, and diff and
the daemon's own rsync are local); nothing is assumed of clients, of `stop()`, nor that the daemon starts again.
`InstallationEnds`: the worker thread goes on (`WF` on its steps); the user need not do anything. No command has to begin and no failure
has to happen. The rotation has no liveness property: the client's rsync has no timeout.

## Proofs

Every safety property of every passing run, the action properties and the refinement are theorems. They are for any files,
contents, clients, hosts, threads, settings and schedules, for any faults and any bound on runs, commands or attempts; what a theorem
assumes beyond that is in the table, and is either something the code does not survive (the run, the hazard or the difference that
shows it is named) or a restriction of the claim. The assumptions on constants (`ContentAssumption`,
`FilesAssumption`, ...) say only that tokens are distinct, that `.blzbak-metadata` is a text file, that there is one
zero-length content, and what the bounds are. `OneClient` says more: all theorems about `Rotation` and `FilesDiff` are about a set whose
requests do not overlap.

| Theorem | Property | Assumed |
|---|---|---|
| `RotationProofs!TypeCorrect` | `TypeOK` | - |
| `ChainHolds` | `ChainInv` | `Sound`: text files, rsync does not own `C`'s root, no `sync`, no `sameSecond` |
| `StampsAreOwn` | `StampedByOwnRun` | - (for overlapping clients see run `shared_stamp`) |
| `ReportsAreTrue` | `CompleteMeansMirrored` | no dry run |
| `LocationsHold` | `LocationsTrue` | rsync does not own `C`'s root, no `sync` |
| `NothingIsLost` | `StillOnDisk` | text files, no `sameSecond` |
| `HistoryIsRecreated` | `RecreatedFromDiffs` | `Sound` (run `blank`) |
| `RotationImplementsArchive` | `PromiseKept` | `Sound`, no dry run |
| `OlderDiffsAreTrue` | `HistoryTrue` | no `sync`, no `sameSecond` |
| `OlderDiffsAreComplete` | `HistoryComplete` | the same, and text files |
| `CurrentIsExact` | `CurrentExact` | `Distinct`: no two files at one place of a snapshot; `Unmistaken`: no folder of `C` has the name of a source given with a slash |
| `DaemonProofs`, `DaemonRecordProofs` | `TypeOK`, `AnswersMatch`, `DiffNamesArchive`, `Contiguous`, `StepsOfHistory`, `RecordedWhenReported`, `MetadataMatchesLog` | - |
| `LifecycleProofs` | `TypeOK`, `AcknowledgedKept`, `RejectedLeavesNothing`, `DeletedIsGone` | - |
| `SchedulesProofs` | `TypeOK`, `JobWhole`, `JobMatchesSet` | - |
| `InstallerProofs` | `TypeOK`, `ServesConfigured`, `EnabledStarts`, `TempsRemoved` | - |

The instances of the passing runs satisfy what the theorems about the properties they check assume. The arguments:

* `TypeOK` of `Rotation` says, beyond types, that each `diff_path` names an archive that exists. It is not inductive alone:
  `max(numbers) + 1` of the new entry is a number only while the log is numbered without a gap, hence `IInv == TypeOK /\ Numbered(log)`.
* Chain: `Unbroken` adds to `ChainInv` what makes every rotation archive the tree it moves: once there are two entries `O` holds
  the metadata of a run, so it is not empty and `prepare_backup` does not skip the archive; and the two newest entries
  have no `diff_path` yet, so that the patch made for the second entry is the first and only one. The
  other faults may all happen. The lemma `PatchRestores` (a patch applied in reverse gives the old tree back, for text) carries it.
* What is restored: `Restored` is a recursion along the log, and the installed provers cannot instantiate the induction theorems. It is
  read back as its own defining equation, and the least entry at which it and `Version` differ gives the contradiction (`RestoredIsVersion`; that
  there is a least one is `LeastNumber` of `SetLogProofs`).
* Refinement: under `KeepsPromise` (`Unbroken`, `RunInv`, `MirrorInv`) the abstract archive is the trees of the finished
  entries (`Kept`); `PromiseStep` maps every step of `Rotation` to a step of `BackupArchive` or a stutter: an accepted request begins a
  run, `Complete` adds exactly its tree, all else changes nothing that can be restored.
* Stamps and mirrors: `RunInv` says that the run that is under way opened the newest entry, `MirrorInv` that what it has no longer to
  copy is already in `C` as in its tree.
* Locations: `MetaInv`. The metadata file of `C` is of a later run than that of `O`, so diff always finds something and no
  rotation leaves the second entry's location as it was. That rsync may delete this file is why the root is excluded.
* Nothing lost: `DiskInv` holds even after a copy of `C` over `O` that stopped half way: the archive was made before the copy, and what the
  second entry stood for is behind it or still in `O`.
* FILES_DIFF: `PatchInv` says that the archive of each entry is the difference between its snapshot and the next, or that there was nothing to
  tell; then lemmas on paths connect a folder of the source with its place in the snapshots (`SlashedPlace`, `FolderAndRest`). For the newest
  backup `CurrentInv` needs only that `C` has nothing but content of clients and that the newest entry has no archive.
* Daemon: `CoreInv` says where each thread can be and that a client's request is on its way, handled or answered, on a connection of its own
  (`ClientInv`); a late answer has no connection to be taken from. `SerialInv` says that, while handlers do not overlap, what one has read is
  still in the file when it opens it, which makes three steps one. `RecordInv` follows a run from its answer through rsync to
  its stamp; `MetadataInv` says when the metadata file is ahead of the log.
* Lifecycle: for any number of workers. `IInv` says at each program counter of `create_set` what has been made and, while the directory is
  its own, by whom; that no acknowledged creation is left while a deletion is handled, unless two crossed;
  and that the worker a client waits for handles that client's request: a late answer can then only be dropped.
* Schedules: `SharedInv` says that commands which have one file open are known to share it, and that sharing a file of the job was recorded;
  `CutInv` that without cuts and sharing a file that is half written is open in some command, under whatever name it has by now, and will be
  finished; `AloneInv` and `QuietInv` are for commands one at a time.
* Installer: `WorkerInv` says what the steps done so far have left unless a failure was not looked at, `FirstInv` and `CurrentInv` what of it is
  still there after later attempts.

Left to TLC: liveness (`CommandsEnd`, `ThreadsFreed`, `InstallationEnds`), which needs ENABLED.

## Not modelled, and why

* `backup.log`: written, never read.
* Bytes: a line of `set.log` is there or is not (a cut line is ignored when it is loaded), a message is whole.
* Restore: an rsync from `C` or `O`, without state. There is no code that applies an archive; `ReverseApply` models `patch -R`, which the
  design relies on, and is marked external.
* PING, TEST, LIST_*, SHOW_SET: they read one directory or one file and change nothing. They read without a lock, and
  so can find `set.log` emptied by a handler that is about to write it (`StepsOfHistory` says when).
* The accept loop's limits: `max_workers` is not read by the code, the number of threads and the backlog of `listen(5)` are not
  counted. A client whose host vanishes without closing its connection keeps its thread for ever: there is no keepalive, and
  `ThreadsFreed` is about connections that were closed.
* Two PREPARE_BACKUPs of one set at once in the trees `C` and `O`: diff and rsync of the one would work on trees the other changes. Nothing in
  the repository says what should come of it.
* Overlapping runs in `set.log`: `SetLogFile` has them (updates are lost, tails of longer texts stay), but most properties
  of the daemon run are stated for runs that do not overlap, because the code promises nothing else.
* FILES_DIFF: entries for directories (and folders that hold only directories), requests for a single file, files that cannot be read.
* Installer: making the package, the launcher, the introduction page, a port that is free at one start and in use at another, an exception that
  gets past the steps' own handlers; that Qt may enable Back again, and that the signal is sent shortly before the thread ends.
* Client configuration, ignore patterns, the exclude filter, argument parsing, logging; Docker files.

## Plan

1. Proofs: the hypotheses of the theorems about `Rotation` one by one, where the code allows a weaker one (`ChainHolds` and the
   refinement for a source with a slash after which every rotation has something to archive).
2. `Rotation` with the steps of the two requests apart, for clients that overlap.
3. `Daemon` composed with `SetLifecycle` in place of its atomic requests and answers.
4. FILES_DIFF for directories and single files.
