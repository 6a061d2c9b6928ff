# qBitrr: formal models

TLA+ modules of the parts of qBitrr where processes, threads, files and failures
meet, the TLC configurations that check them on small instances, and TLAPS proofs
of their main properties. `PROJECT.json` links each definition to the lines it is
translated from, names what each run checks, and lists the hazards the
properties are for.

## The system

qBitrr is one supervising Python process that forks a worker per job and shares
one SQLite file with all of them. The main thread watches the workers; further
threads of the same process do the slow start-up work, serve the WebUI, look for
updates and checkpoint the database. The workers talk to qBittorrent and to the
Arr applications over HTTP, to each other only through the database file, and
to the supervisor only through their exit codes and two events.

| component | state | operations | interacts by |
| --- | --- | --- | --- |
| database lock (`db_lock.py`) | per thread: depth, handle; per process: an RLock; in the kernel: a file lock | nested acquire, release, death of a process, fork | `database_lock` around repairs, start-up and the rows of torrents; the rows of the catalogue are written without it |
| database file, repair, schema (`db_recovery.py`, `database.py`) | the file at the path, the temporary file, open connections, `user_version` | start, migrate, write, reconnect, dump, verify, replace | the path, the lock |
| supervisor (`main.py`, `process_lifecycle.py`) | `child_processes`, `_process_registry`, each Arr's two processes, `_pending_spawns`, restart counts, two events | prepare, start, reap, restart, retry, coordinated restart, clean-up, replacement of the program | exit codes, events; shared lists |
| WebUI process routes (`webui/routes/process_routes.py`) | none of its own | restart one loop, both, or a category manager | changes the supervisor's lists without a lock |
| WebUI reload and lifecycle (`webui/lifecycle.py`, `config_reload_policy.py`) | `managed_objects`, the supervisor's lists | rebuild some or all Arr objects, start and stop their workers | the same |
| errors of the torrent loop (`arss/arr_base.py`, `database.py`) | error count and times, health check counter | one iteration, backoff, recovery | sets `database_restart_event` and exits |
| torrent batch, dispatch, inspection, side effects (`arss/torrent_*.py`, `arss/qbit_side_effects.py`) | buckets of torrents to pause, resume, delete, re-check, import; caches | fetch, decide, apply batch by batch | qBittorrent, Arr queue |
| limits, trackers (`torrent_limits.py`) | none | seeding limits, hit-and-run obligations | the decisions above |
| free space policy (`torrent_policy.py`) | the budget, queue positions | pause and resume for space, sort the queues | qBittorrent, beside the Arr loops |
| configuration (`config.py`, `config_class.py`, `gen_config/`, config routes) | `config.toml`, its backups, the shared copy, the workers' copies | migrate, fill, save, load, edit, roll back | start-up, WebUI, every worker |
| search (`search_handlers.py`, `db_update_handlers.py`, `db_queries.py`, `arr_base.py`) | rows of searched items, what is in memory of a pass, the command queue of the Arr | ingest, pick, search, mark, reset, switch profiles | Arr, database |
| category manager (`qbit_category_manager.py`) | managed categories | limits and hit-and-run for categories without an Arr | qBittorrent |
| updates (`auto_update.py`, `versioning.py`) | schedule, installed version | check, install, ask for a restart | supervisor |
| WebUI read side and frontend, logging, FFprobe, bundled data | caches | format answers | reads only |

What is hard here, and what makes each part correct:

* **Interleaving without locks.** Main, start-up, restart and WebUI threads edit
  the same list, dictionary and attributes. Correct means: no job has two
  workers, and no worker is unknown to the supervisor.
* **Fork.** Workers inherit locks and descriptors in whatever state another
  thread has them. Correct means: exclusion survives, and nobody waits for ever.
* **Partial failure.** `start()`, `open()`, `flock()`, the steps of a repair, a
  migration, each HTTP call can raise, and a call may have been carried out though
  its reply is lost. Correct means: what was taken is given back, what was to be
  started is queued, and what was noted agrees with what was done.
* **One file, many processes.** Repair replaces the database under other
  processes' open connections; a save truncates `config.toml` before it writes.
  Correct means: no committed row and no choice of the user is lost.
* **Rules in an order.** Some twenty rules compete for a torrent, two loops and the
  policy worker for its state. Correct means: nothing owed to a tracker is deleted,
  nothing is blocklisted that nobody condemned, nothing is paused and resumed in turn.
* **Two descriptions of one thing.** The reason a row shows and the condition it is
  picked by, a profile and its stand-in, a version number and the schema it stands
  for are each computed in different places and must agree.
* **Time.** Errors, backoff and window interact. Correct means: persisting
  errors lead to a coordinated restart, single errors never do.

## Modules

| module | models | proofs |
| --- | --- | --- |
| `Mutex` | abstract: at most one client inside | refined by `DbLock` |
| `DbLock` | `_InterProcessFileLock`, `database_lock` | `DbLockProofs` |
| `DbStore`, `DbStart` | `repair_database` and who runs it; `get_database` and the migrations of the schema | `DbStartProofs` |
| `Supervisor` | `qBitManager.run` and the threads beside it | `SupervisorProofs` |
| `SupervisorWeb` | `Supervisor` with the WebUI's restarts | `SupervisorProofs` |
| `Lifecycle` | `Supervisor` with the WebUI's reload of Arr instances | `LifecycleProofs` |
| `DbErrors` | the torrent loop's answer to database errors | `DbErrorsProofs` |
| `TorrentRules`, `TorrentDecision` | the rules for one torrent; one decision | `TorrentProofs` |
| `TorrentLoop` | three loops that share the instances, with `TorrentRules` inside | `TorrentProofs` |
| `TorrentPolicy` | the free space worker beside the Arr loops and the user | |
| `ConfigRules`, `ConfigFile` | the migrations of the configuration; its file and copies | `ConfigFileProofs` |
| `SearchRules`, `SearchEntry` | the rules for one entry; its life | `SearchProofs` |
| `SearchLoop` | `run_search_loop`, with `SearchRules` inside | `SearchProofs` |

The rules modules have no variables: they are operators that the state machines
share, so that what is proved of a rule is proved of the rule the loop runs. Each
`MC...` module gives the constants of its module small values; the `.cfg` file
beside it is the run. Definitions marked as variants in the modules are operations
with one plausible bug each; they belong to no specification and serve to see
that a property can fail.

### DbLock

`pc` says where a thread is in `acquire()` or `release()`, `depth` is its
`_local.depth`, `fds` the processes in which its handle is open, `gate` the
RLock of a process and `flock` the thread whose open file has the kernel lock.
Each action is the code between two points at which another thread can run:
`Acquire` decides that the lock is not yet held, `EnterGate` takes the RLock,
`OpenHandle` opens the file, `FlockGranted` is the return of `flock`, `Unlock`
and `FinishRelease` the two halves of `release()`. `OpenFails`, `FlockFails` and
`UnlockFails` are its three exceptional paths. `Fork` copies the gate and every
descriptor of the supervisor into a new worker; `Crash` closes the descriptors of
a process. Only the POSIX branch is modelled. A fork from inside a locked block
does not occur in the code and is excluded.

`ServedUnlessOrphaned` names an exception: a worker that is forked while another thread
of the supervisor is between taking the gate and giving it back inherits a taken RLock
that nobody in it owns. The first time it takes `database_lock` it waits for ever. The
exception is real (`multiprocessing` forks, and the WebUI and checkpoint threads use the
lock); without it the property does not hold.

### DbStore and DbStart

A file is a number, and `db` and `temp` are what the two paths name. A connection names
a file, so replacing the path leaves old connections on the unlinked file. Workers write
some rows under the lock (`Write`: the tags of torrents) and most without it
(`WriteUnlocked`: the ingests, the search marks, the queues). `late` is the history of
rows written without it to a file that a repair had already copied (`Copying`), which
are lost whoever repairs. The steps of `repair_database` are separate actions:
`OpenBoth` (backup copy and both connections), `Dump`, `Verify` (which re-creates a
temporary file that another repair has moved away), `Unlink`, `Move`; `Fails` is its
`except` branch. `StartMaintain` runs them under the lock; `StartRecover`, by a running
worker, and the ladder of a start (`DbStart`) run them without. The lock is used as
`Mutex` describes it. `DbStart` adds the integrity check, the checkpoint that may help,
the repair, the deletion of the file as the last resort, and the four migrations, each
of which raises `user_version` by one when it succeeded. A dump carries the rows and the
tables over but not `user_version`, so that after a repair every migration runs again:
`DurationsRight` is about the one that is not idempotent by nature (milliseconds to
seconds, told apart by size). VACUUM, the indexes and the deletion of rows without an
instance are left out.

### Supervisor

A job is a loop of an Arr category or the category manager of a qBittorrent
instance. A process object is in `phase` "made" (not started), "alive", or dead
with one of two kinds of exit code. The variables are the attributes of
`qBitManager`; `main` groups the locals of `run()`. Each action is a stretch of
the main thread's code between two points at which what it reads can change: the
waits, and the visit of each process in its copies of `child_processes`.
`Startup`, `Restarter` and `Workers` are the other threads and processes.

Garbage collection lets a finite set of process objects stand for any number:
constructing a process takes any object that nothing refers to (`Free`). `Spawned(a)` is
what `spawn_child_processes` can return. `budget` bounds the events that could happen
for ever: failed starts and spawns, restart signals, a start-up thread slower than the
60 s wait, a SIGTERM, a WebUI request to restart; each kind has its bound, and "any"
bounds them together. Times are abstracted: any wait may be long enough for anything,
and the restart window forgets a restart at any moment (`Forget`).

The exit path is step by step, beside the other threads. `Terminated` (the signal
handler, wherever the main thread is) and the end of the loop lead into `Cleanup`, which
sets the event and then joins and kills the children, and to `Exit`. A further signal
(`Interrupted`) finds the clean-up's flag set and only raises `SystemExit`: in the clean-up
it leaves the kill undone, and the interpreter then waits for the workers; there it ends
the wait. The restart thread sets the event (`RestarterSignals`), waits and kills
(`RestarterKills`), and replaces the program (`RestarterExecs`); between these steps the
main and the start-up thread go on and may start workers. `NoOrphans` exempts what such a
thread was "early" for, what an interrupted clean-up leaves, and the category managers of
a late start-up thread, and shows that there is nothing else. One window is closed in
the model: a signal between `start()` and the line that lists the process
(`main.py:1154-1156`, `process_lifecycle.py:133-145`) leaves a worker that the clean-up
does not see, and that only the interpreter's own wait would end.

### SupervisorWeb and Lifecycle

`SupervisorWeb` is the handler `_restart_process`, one action per visible step, for
any number of threads, beside every action of `Supervisor`: `Ask` reads the process
object, then `Kill`, `Remove`, `Pop`, `Make` (show, append, register), `Start`; a
category manager is started before it is tracked (`StartManager`,
`TrackManager`). `Lifecycle` is a save of the configuration: `Save`, `SaveKey` and
`SaveAll` make the plan, then each instance is stopped, built, spawned, started and
registered step by step, or refreshed in place, and `_reload_all` clears and builds
everything. `off` has the sections with `Managed = false`: they are stopped and not built,
like those that are gone, but not before the others. A rebuild may leave out sections whose
constructor raises (`bad` in `Rebuild`), or end with a category conflict after everything
was cleared (`RebuildFails`): the sections concerned count as failed starts (`missed`).

The safety properties of the supervisor do not survive either. `clash` is a
history variable that records a job when a request meets something else on it:
another request, an automatic restart, a queued or failed start, the initial
starts, a coordinated restart, the clean-up, or an Arr object that does not show
the job's worker, whether that is running or only listed still. The last matters with
two loops: a failing retry of the search loop's queued start builds both processes
anew and overwrites the object's torrent process, which `child_processes` still has;
when that worker crashes, a restart from the WebUI takes down the unstarted one the
object shows and starts a third, and the supervisor restarts the crashed one. The
properties say that these are the only ways to two workers on a job, to a worker
nobody tracks.

In `Lifecycle` fewer meetings suffice. A job enters `clash` when the main thread is about
to restart it, to try its queued start or to respawn it as the save comes
(`Disturbed`), or takes it on, starts it, gives its object another process or stops
everything while the save has it in hand (`Clashes`). Neither the clean-up nor a worker
that ends by itself is such a meeting, nor is a worker that is only listed still. Two
things happen without one: the failing retry above takes a running worker out of its
object's slot (`Hidden`), and the worker that a reload has just started, once its object
shows it no longer, is registered as a torrent worker whatever it is (`Note`). The
properties say that these are the only ways to a live worker that no managed object
shows, which is what the next reload goes by to stop it, and to a loop that shows no
started process. Which loops an instance has depends on its section for the search
loop and on settings of the whole program for the torrent loop (`arr_base.py:3700`), so
the objects have the torrent loop all or none (`LifecycleAssumption`).

In `Lifecycle` a save may itself be the clash: when a section takes the category of
another one in the same save, the first reload writes `managed_objects[category]` over
the object of the second, whose name and URI stay registered. The second then finds no
object to stop and counts as registered, so its old worker stays and no new one starts.
The reload stops deleted sections first to avoid this (`lifecycle.py:487`), which
does not help when both sections remain. `Contested` puts the jobs of such a
category into `clash`, and `Entangles` puts the sections, and those that take a
registered URI, into `entangled`. So does a later save that gives a section the URI of
an object that lost its category this way: nothing unregisters that URI (`Lost`).
All sections follow once a save comes while another one is carried out, and all jobs
are in `clash` then. Every other save is held to the properties. The program starts, and
everything is rebuilt, under configurations in which no two sections share a category
or a URI (`Unshared`); a save may bring any.

### DbErrors

Time is in whole minutes, so the code's 300 s are `Window` = 5 and its backoff
of 120 s doubling up to 1800 s is 2, 4, 8, 16, 30. `wake` is when the pause of
the last iteration ends and `now` when the current one ends. `Fails` is the whole
`except` handler: a gap longer than the window begins a new sequence, a sequence
older than the window sets the event and exits, anything else backs off; a health
check that was due before the error, or a recovery after it, may clear the
counters. `since` and `timely` are history.

### TorrentRules, TorrentDecision, TorrentLoop

A torrent is what the loop sees of it: qBittorrent's state, category, tags, progress,
ratio and seeding time, and a set `is` of flags for the comparisons the code makes (old,
slow, known to the Arr, ...). `FirstRule` is the chain of `elif`s of
`_process_single_torrent` in its order, the handlers' verdicts the bucket the handler of
that rule puts the hash in. `Judgement` adds what `process_files` makes of the rule
"files": a torrent of which every file is excluded is deleted, whatever its tags, if
`_hnr_allows_delete` lets it go. `TorrentDecision` is one call, for every combination of
its inputs.

`OwedKept` compares the decision with what is owed as the documentation tells it (`Owes`:
a ratio, a time, either or both, less for a partial download), which is written without the
operators of `_hnr_safe_to_remove`. It exempts the failed category's loop, and files that
are missing. `SpaceHeld` exempts the first look at the files: the rule asks for no tag.

`TorrentLoop` composes it: `Fetch`, the decisions, and the batches in their order
(resume, pause, recheck, files, imports, failed, queue, clean), for the loops of an
Arr, of the failed and of the recheck category. A call fails, or is carried out
though reported failed; a process dies and starts with empty memory; a torrent
changes. `mem` holds each process's buckets and caches, which have lives of their
own: copies are pairs of instance and hash, while several buckets hold hashes only.

### TorrentPolicy

One pass call by call: settings, the order of the queues, the free space, the list of
torrents, tags, resume and pause, with failing calls and clients, beside downloads
that write to the disk, the Arr loops' own resume rule, and the user. `stop` is the
state a stopped download shows, `pausedDL` up to qBittorrent 4 and `stoppedDL` from 5 on;
it is chosen with the start (`Starts`). `SpaceSettles` exempts `stoppedDL` with too little
space for all, where the downloads are resumed and stopped for ever (see the observations).

### ConfigRules and ConfigFile

A configuration is the record of what the nine migrations and the filling of defaults
tell apart: version, the keys moved or renamed, Arr sections with their kind of
profile lists and trackers, qBit sections. `Upgraded` is all of `apply_config_migrations`
and the filling of defaults (`_validate_and_fill_config`). `Choices` is what a
configuration *means*, not its keys; it is what has to survive. Two choices do not, and
`Choices` leaves them out by name: a clear mode replaces a HitAndRunMode that is not true
(`Overruled`), and the hit-and-run fields of an Arr's SeedingMode are deleted from files
older than 5.8.8 (`Dropped`). `ConfigFile` has the file (and its truncated state,
because `save()` opens for writing before it has made the text), the backups, the
shared copy of the main process, and the copies of the workers; requests edit,
save, roll back or merely load, and each of these steps can meet the others.

### SearchRules, SearchEntry, SearchLoop

`SearchRules` has what the four kinds of Arr do with a row: what is available, missing,
below quality or score, picked, in which order, on which profile. `SearchEntry` is the
life of one entry under every mode. The documented chains of profiles (4K to HD, HD to
SD) are among its settings: `Below` is where an entry can be led from its own profile,
and `HomeAgain` keeps it there and brings it up again. `SearchLoop` is the whole loop
for several entries: passes, years, reset, ingest, timeouts, requests, the limit of
commands, and the torrent loop that searches again, with failing and unanswered calls
and kills (rows are on disk, the rest is not).

## Runs

| run | instance | checks and shows |
| --- | --- | --- |
| `lock` | supervisor with two threads, one worker; nesting 2; one failed open, one failed unlock, one crash | exclusion; refinement of `Mutex`; every waiter is served, or orphaned by a fork |
| `store` | two workers, one of which may recover, a checkpoint thread; an old row whose seconds are exactly the threshold and a new row, written with the lock or without; files at version 0 or 2 or none; eight files; one damage, fault, repair | no row but a late one is lost while all repairs are led under the lock; the schema is what `user_version` says; a duration is divided once; all workers run in the end |
| `supervisor` | one Arr loop and a category manager; one restart per job; a late start-up thread, a request, a restart signal and a restart's failed `start()` once each, other events up to three times, three in all | one worker per job; a quiet checkpoint; no orphans; crashed, queued and respawned workers run again |
| `errors` | 34 minutes, a health check every ten iterations, pauses of 0 and 5 minutes | no false alarm; escalation in time |
| `web` | one request for a loop or a manager; five process objects; one failed start, one restart signal | uniqueness and tracking unless there was a clash |
| `lifecycle` | two sections, nine Arr objects, nine processes; two saves (a swap of two categories and `Managed = false` among them) or a rebuild, one fault | no stray worker; the instances follow the configuration; their loops are started |
| `rules` | all states, tags and categories, any two flags on top of what a completed torrent has, two modes; seven trackers, with every relation of progress, ratio and time to what they ask for; files with some or nothing to keep | nothing owed is deleted; held for space stays held; missing files are not blocklisted; no ping-pong between two iterations |
| `torrents` | three loops, two instances, two hashes, seven starting positions; one change, one fault, one crash | only the condemned is blocklisted; what is to go goes; what is condemned is blocklisted |
| `policy` | three downloads (sizes 2, 1, 1) on two clients, or two of them on one, room for 2 or 3, stopped ones shown as `pausedDL` or `stoppedDL`; one change by the user, one failure | the budget is kept; the downloads and the queues come to rest where they belong |
| `config` | ten releases' files, with contradictory keys and hit-and-run keys of an Arr among them, two requests, one worker; two edits, one fault, one kill | all choices but two survive; a cut-off upgrade has a backup; the program comes up; the workers follow |
| `entries` | all dates of a movie under plain settings, every kind of entry under every mode, two files, scores 0 and 1; profiles in two pairs, in a chain, and two with one temporary profile | reason and selection agree; profiles come home |
| `search` | two movies or two episodes and their series, or three movies of three years, six settings; two commands, two faults, one change, one crash | searched only for a reason; nothing but the years behind the loop is forgotten; requests are served; profiles are restored |

**Why the bounds are enough.** Exclusion and the RLock need two threads in one process
and one in another; nesting beyond two repeats the second level. Two starting workers
and a maintainer are what the shared temporary path, the version and the lock can
confuse; eight files are the original and those the steps create before the budgets end.
A job needs one process object more than can be in use (old, new, and one an earlier
step left behind). Two Arr sections are needed to rename, swap or share; more would
interact only through the lists, whose entries are independent. The clock of `errors` is
six times the window, past the point at which every sequence has ended. Two instances
and a hash on both are what buckets of hashes can confuse. Two requests are what one
shared copy can confuse, and two edits let one be undone by the other. Two entries in
two years, or of one series, are what the year, the series and the limit of commands
relate; three years are a first, a last and one between. Where a theorem exists, the
bounds matter only for the liveness properties of the run.

**Deadlock** is not checked: each bounded instance may end (budgets run out, the
program exits, the clock stops). That the interesting ends are reached is what
the liveness properties say.

**Fairness.** `lock`: a thread that has the gate or is in `release()` goes on; blocks
end because the context manager releases; the RLock and `flock` are granted to each
waiter that finds them free again and again (strong fairness: the kernel queues them,
Python's lock does not starve in practice). `store`: a start is retried by the
supervisor and gets the lock in the end (strong), a repair goes on (weak).
`supervisor`: the main and the start-up thread run; nothing is assumed of a worker or of
the restart thread. `torrents`: each loop goes
on, is restarted after it died, and sees its calls answered when the faults are used
up. `policy`: the worker's passes recur, and the Arr loops list and resume. `config`:
the main process boots again, the threads answer their requests, the worker's
check recurs. `search`: the loop goes on, the Arr works off its commands, the
period of requests recurs. None of it assumes that a download finishes, that an Arr
finds a release or that a user acts.

## Proofs

Proved by TLAPS for all values of the constants that satisfy the named assumptions of
the modules, thus for any number of workers, requests, instances, torrents, files
and settings. Each module below states an inductive invariant, proves that `Init`
implies it and that every action keeps it, and derives the properties. Each
invariant was first checked by TLC on the run of its module.

**DbLockProofs** (`TypeCorrect`, `MutualExclusionHolds`, `CrashReleases`,
`ImplementsMutexHolds`). `LockInv` adds to the types and to `FlockHasLivingHolder`: a
thread that uses a gate owns it and its depth agrees with the gate's count
(`Position`); handles are open only where their thread or a forked copy can be
(`Descriptors`); a thread at rest with a handle has the kernel lock unless an
unlock has failed (`Holder`, `Locked`). Exclusion alone is not inductive: it
follows because the kernel lock has one owner. Every step without a failed unlock
enters, leaves, or stutters in `Mutex`.

**DbStartProofs** (`StoreTypes`, `SchemaHolds`, `DurationsHold`, `RowsKeptHolds`).
`Base`: types, that unborn files are empty, and that whoever is inside a step has the
files open that it uses. `Versioned` adds that a client at a migration works on a file
that counts those before it. `Seconds` adds for each file which rows are still in
milliseconds, by its version, and that a file waiting for its last migration has every
old row or nothing. `Kept` is a disjunction: some repair ran without the lock or was
killed, or every step of the one maintainer is accounted for: it reads the live file
(`Led`), its copy has every row that counts (`Copied`), and `qbitrr.db` has them outside
the last two steps (`Present`). What counts (`Due`) are the rows committed but for the
late ones; the others may be written at any time, with the lock or without.
`DurationsHold` has the premise `ShortTracks`: no track lasts more than ten hours, which
is where the code's threshold stands; TLC shows the division of a longer one.

**SupervisorProofs** (`TypeCorrect`, `LiveTrackedHolds`, `QuietCheckpointHolds`,
`NoOrphansHolds`, `OneWorkerPerJobHolds`, `QueueKeptHolds`). Six layers. `TypeInv`;
`TrackInv`: both records agree, they cover every live worker, and the copies in use lie
inside them; `QuietInv`: the start-up thread has nothing left to start once the main
thread goes on in time, and what is `Stopped` stays so, because the main thread is past
its starts or sees the event before the next; `EmptyInv` and `ManagedInv`: where the
lists of starts are empty, and that all work in hand is for the managed Arr of a
category; `ClaimInv`: a job has at most one *claim*, where a claim is a tracked process
that runs, has run, or is still to be started, and a claimed job is neither queued nor
failed nor still to be respawned. `OneWorkerPerJob` needs the claims because an
unstarted process is a worker to be; `overlap` records the one transition that breaks
them (see the observations). `QueueKept` is an action property from the same invariant.
The run has one loop; the theorems cover both loops of any number of Arrs.
`NoOrphansHolds` is proved of the exit step by step, further signals and late starts
included, with the exceptions its statement names.

The module goes on with the WebUI's restarts (`TrackedUnlessClashHolds`,
`OneWorkerUnlessClashHolds`, about `WebSpec`: any number of threads and requests).
None of the layers survives them as it stands, and `WebInv` says what remains of
each. `JobsInv`: whatever the registry, an Arr object, a thread or the main thread
refers to has the job it is referred to for. `MetInv`: a job that two have in hand is
in `clash`. `RecordsInv`: the records cover what lives, but for the jobs in `clash`.
`DueInv` is `ClaimInv` with two changes: a process that a thread is about to start or
track has a claim too, and the jobs in `overlap` or `clash` are exempt. `ThreadInv`
says what a thread owes at each of its places: until it has removed its old process
no other one is due for the job, and from then on none is, so the process it makes
is the only one. `Quiet` and `Moving` divide the supervisor's actions into those that
leave the records alone and the eleven that do not.

**DbErrorsProofs** (`TypeCorrect`, `ShortBackoffHolds`, `NoFalseAlarmHolds`,
`EscalatesInTimeHolds`). `ErrorsInv` says how far apart the errors of a sequence are:
the second comes at least two minutes after the first and the third at least four
after the second, so the third is past the window. Hence the backoff never passes
its second step, an escalation is always preceded by more than five minutes of errors,
and iterations that fail within a minute each reach it within eight.

**TorrentProofs**, on `TorrentDecision` (`OwedKeptHolds`, `SpaceHeldHolds`,
`MissingNotBlocklistedHolds`, `NoPingPongHolds`, `ImportOnlyIgnoredHolds`). The state
is one decision, so the invariant is its definition; the work is in the lemmas about
the rules. Each follows the chain of rules to those that could decide otherwise and
shows that an earlier rule applies. `OwedKept` rests on `SafeOwesNothing`, the arithmetic:
what `_hnr_safe_to_remove` calls safe owes nothing by `Owes`, for any figures, minima,
modes and delays; and on `FilesVerdict`, that the look at the files replaces no other
verdict. `NoPingPong` compares two calls of the chain, with the state the first one causes.

Of `TorrentLoop` (`LoopInvariant`, `OnlyCondemnedBlockedHolds`,
`ErasedWasMarkedHolds`, `StillMarkedHolds`, `PendingIsMarkedHolds`). `Reasons`: every
mark in every memory has its reason in the history of verdicts. `Handover`: what was
surely deleted is remembered only between the two batches that hand it on.
`PendingIsMarked` and `Cached` relate the deletions pending on an instance to the
hashes the Arr is still to be told of; `StillMarked` says that a loop whose process did
not die has not lost one. `OnlyCondemnedBlocked` needs the reasons because between the
verdict and the Arr's blocklist lie three batches, in which any call may fail and be
repeated in a later iteration.

**LifecycleProofs** (`FollowsConfigHolds`, `NoStrayWorkerHolds`, `EveryLoopStartedHolds`),
for any sections, objects, saves, threads and bounds, and with no premise. First
`FollowsConfig`.
At rest the property needs `Settled` (a managed object has its section's settings) and
`Fulfilled` (a section has such an object, but for failed starts and entangled ones).
During a reload both hold of the sections that are not yet to be reloaded (`Waiting`),
and the work is in showing that a section can be built when its turn comes: `Clear`
says that its category and URI are free or held by a section that will leave; `Work`,
that those that leave go first; `ManagedInv`, that the names and URIs the manager has
registered are those of its objects, so that what a stopped object held becomes free;
`ConfigInv`, that sections share a setting only where a save entangled them. The
main thread's steps, of which there are many, only add failed starts. `ReloadInv` is
about the one thread that has a request, whichever it is. A request that comes before
the last one is carried out ends it (`Overlapping`): each of the two plans and builds
with a configuration that the other changes; one may register a URI while the other
still waits to build a section with it. From then on `entangled` has every section.

`WorkInv` says of the processes what `ReloadInv` says of the sections. It is about jobs
that the reload and the main thread have not met in (`Sound`): a live worker is
listed, and the managed object of its category shows it (`ChildInv`). That alone is not
inductive, as either thread starts, stops and lists processes by what it looked up
earlier. `MainInv` says what the main thread goes by: a registered worker has its job
(`MetaInv`), one that is still to be reaped is listed (`TodoInv`), and one that is to be
restarted, a queued start and an Arr still to be respawned are of managed objects
without a worker and not in hand of the reload (`CurInv`, `QueueInv`, `RespawnInv`).
`HeldInv` says what the reload does: it has the jobs of every section it waits for in
hand (`HandInv`), and no object of another section shares them (`ContestInv`); of the
object it stops, the loops it is through with have no live worker (`StopInv`); an object
whose loops are to be made shows none, and what is to be started is listed and not yet
started (`NewInv`, `SearchInv`); a rebuild begins when nothing lives (`RebuildInv`).
`StartInv` says that a loop of a managed object shows a started process unless its start
failed or the reload is about to make it (`Making`). The two threads do not disturb each
other because of `HandKept` (the main thread starts, lists and takes from the list no
sound job that is in hand) and `HandsOff` (the reload touches nothing else); then there
is one lemma for each action. With overlapping requests none of this holds: two reloads
may stop and build the same instance, and every job is in `clash` (`Met`).

**ConfigFileProofs** (`ChoicesKeptHolds`, `UpgradeBackedUpHolds`). `Kept` relates file,
shared copy and each request's copy to what the user last chose (`Up`, and, while
nothing harmful happened, `Alone`: whatever is loaded or about to be written keeps the
choices). The step that migrates rests on `UpgradedKeeps`, which follows the nine
migrations and the filling of defaults one lemma each (`ClearedKeeps` is about the fields an
Arr loses). `BackedUp` follows the backup from the moment it is made. The premise `FoundOk`
is about types: in the configuration found a second hit-and-run key is one of the modes,
and no section already has the name one is renamed to, as two sections would become one.
Keys that contradict each other are not excluded: `Choices` says what becomes of them.

**SearchProofs** (`ReasonToldHolds`, `HomeAgainHolds`, `HonestlySearchedHolds`). `Shape`
gives the row of each kind of entry its fields; `ReasonTold` is then a comparison of two
chains of conditions over five modes. `WayHome` says that an entry away from its profile
is below it, that the row knows the way back, unless a reply was lost, and that each
profile on the way leads back to the one above (`OnTheWay`; `BelowSteps`: a switch down
stays below, `SwitchedHome`: one up as well). There is no premise; the two cases without
a way back are named in the property. Of the loop, `LoopInv` says that entries keep
their kinds, that what the process knows of the queue is what it saw there (`QueueInv`),
that it picks works, and groups only where they are searched for (`TodoInv`), and that
rows have their fields. Rows are marked by number, hence the premise `Distinct`: numbers
tell apart the works and, in the modes that search by group, the groups from them.
Sonarr numbers series and episodes each for themselves, so there a series search can
mark an episode nobody searched for (see the observations); for Radarr, Lidarr, Readarr
and the episode mode the numbers are the Arr's keys.

**Only model-checked.** What rests on fairness is out of the prover's reach:
`ServedUnlessOrphaned`, `AllRun`, `CrashedReturns`, `PendingRuns`, `RespawnReaches`,
`DoomedLeave`, `CondemnedIsBlocked`, `SpaceSettles`, `QueueSettles`, `ComesUp`,
`WorkersFollow`, `NothingForgotten`, `RequestsServed`, `TimeoutRestores`. `BudgetKept`
speaks of sums over a sequence of torrents, and the facts about a sum that it needs are
inductions over data.

## Observations

What the code does that its documentation, or a reader, would not expect. Nearly all of
it is part of the models. Where it would violate a property, the property exempts it, by
name or through a history variable such as `clash`, `overlap` or `unguarded`.

*Lock.* A failed `open()` keeps the gate of the process. After a failed unlock a handle
inherited by a fork keeps the kernel lock until that worker ends.

*Supervisor.* A start that is still queued when a coordinated restart respawns its job
makes a second worker (`main.py:1131`; `docs/troubleshooting/database.md:426`).
`start()` raising in `_restart_process` loses the worker: it leaves both records and is
not queued (`process_lifecycle.py:133`; process-management.md:10, 42, 72-79). A second
signal in the clean-up leaves the workers running until they end by themselves, and a
third one also ends the program's wait for them (`main.py:1403`). A request to restart
that comes while the main thread starts workers replaces the program over those it has
started since (`main.py:309-364`). Category managers are not respawned. An Arr whose
preparation is late is skipped and never queued (`main.py:390`). Queued starts are
retried every five seconds whatever the announced backoff (`main.py:1250`). The program
ends with starts still queued when no child is left. The main thread may end the
interpreter before the restart thread reaches `execv` (`main.py:305`).

*WebUI restarts.* The request kills before it unlists, so the supervisor may restart
the worker as crashed (`process_routes.py:405`; `docs` process-management.md:228). A
`start()` that raises leaves the process registered and not running (443).

*Reload.* `_reload_all` clears `child_processes` first, and the supervisor may take the
empty list for its end (`lifecycle.py:175`). Two sections that swap their categories in
one save overwrite each other, although the deletions come first to prevent it (487): one
stays unstarted and its old worker alive. With swapped URIs one stays unstarted. A
rebuild that meets a category conflict (`manager.py:292`) has stopped every worker and
starts none. `_pending_spawns` keeps objects that were replaced. A process that dies between its start and its registration
is never restarted. `_rebuilding_arrs` is never looked at. ARR_RESET_DB reloads unlink a
`{name}.db` that nothing opens.

*Store.* Most rows are written without `database_lock` (`db_update_handlers.py:363`, 697,
`search_handlers.py:210`), so that one committed after a repair's dump is lost even when the
repair has the lock. A worker's repair without the lock can lose a row another one commits
meanwhile (`arr_base.py:2705`, `2777`; `docs/advanced/database.md:314`). Connections
open before a repair go on writing to the unlinked file. Running the migration of
durations again is safe only for tracks shorter than ten hours (`database.py:662-674`).
A failure of the second migration keeps the fourth from adding its columns. The
temporary file a killed repair left behind is merged into the next one.

*Errors.* The third error of a sequence always ends it, so the announced ladder of up to
thirty minutes stays at four; and iterations longer than one to three minutes put more
than the window between two errors, so each begins a new sequence and the restart
never comes.

*Torrents.* What is deleted from the failed category is never blocklisted
(`torrent_batch.py:213`; config-file.md:437), and a re-checked torrent's category never
restored (config-file.md:464). The import is reached only with the tag qBitrr-ignored or
when the idle time runs out between two looks (`ImportOnlyIgnored`;
instant-imports.md:18-23). An iteration without torrents starves the deletions pending in
the Arr's queue (`arr_base.py:2483`); an error there leaves the hash marked.
`_prune_instance_hash_map` prunes every instance. A download held for want of space is
deleted when all of its files are excluded, if nothing is owed (`torrent_inspect.py:705`):
the rule that looks at the files asks for no tag (`torrent_dispatch.py:334`). Once a stalled download has its tag, a
failed report to the Arr is not repeated. `arr.cache` keeps the last queue when the new
one is empty.

*Free space.* Under qBittorrent 5 a paused download shows `stoppedDL`, which the policy
does not look for (`torrent_policy.py:232`; docs/faq.md:23, disk-space.md:70): a pass takes
the tag off what the last one held, the Arr loop resumes it without space, the next pass
stops it again, for ever (`SpaceSettles` exempts just this). A download the user
paused gets the tag and is resumed later. Turning the policy off leaves the held ones held.

*Configuration.* On a file older than 5.8.8 with trackers of an Arr and a qBit section
without, the promotion of hit-and-run settings raises `NameError`
(`gen_config/migrations.py:512`) at every start. It gives the trackers to the first qBit
section only. `HitAndRunMode = false` with a clear mode becomes that mode
(`migrations.py:594`). What a release before 5.8.8 kept of hit-and-run in an Arr's
SeedingMode is deleted without a successor (446). `save()` truncates before it has its
text, so a load in between reads an empty file, and a request's load drops another's
edits. After one `OSError` the file is neither loaded nor saved again, and requests are
answered ok. Filling defaults at the current version saves without a backup.

*Search.* With SearchByYear the first of several years is never searched
(`arr_base.py:3509`; automated-search.md:317-322), each other one but the last once,
until the loop starts over, for which a quarter of an hour must pass after an ingest. In
a chain of profiles a completed entry comes up one step with each ingest. An entry whose
own profile stands in for another one is taken for switched and put on that; of two main
profiles with one temporary profile only the later is gone back to. A series search
marks episode rows by the series' number; the reset of series hides that of episodes;
the smart mode compares the numbers of episodes and of series. What is known of the
queue stays when the queue becomes empty. A completed episode erases the tracking of its
profile (automated-search.md:865-882). Quality-unmet modes and today's releases are
searched in every pass. Artists are never reset.

The observations that contradict a line of the documentation have no run of their own.
A property that exempts one does not catch it; what its run shows is that, on its
instance, nothing else violates the property. That is so of a failed unlock
(`MutualExclusion`, `ImplementsMutex`), repairs and rows without the lock (`RowsKept`), the
queue entry that survives a respawn (`OneWorkerPerJob`), the lost restart
(`CrashedReturns`), late category managers and the early replacement (`QuietCheckpoint`,
`NoOrphans`), the WebUI's clashes, files without anything to keep (`SpaceHeld`), `stoppedDL`
(`SpaceSettles`), the two choices and overlapping requests (`ChoicesKept`), the `NameError`
(`ComesUp`), profiles without a way back (`HomeAgain`), and the years behind the loop
(`NothingForgotten`). The hazards in `PROJECT.json` say so where they are listed.

## Not modelled, and why

* A SIGTERM before the handler is registered (`main.py:1442`); `Supervisor` starts after
  it. A signal between `start()` and the line that lists the process, and one in the first
  lines of `_cleanup`. The iteration of `managed_objects` during a reload (1129) would raise, and is
  taken as one step.
* What follows a failed `flock(LOCK_UN)`: exclusion is stated for runs without one.
* Which rows of a damaged file SQLite can still read; damage is total or none.
* Windows: `msvcrt` locking and spawned (not forked) workers.
* Trackers' edits and tags, the order of the seeding queue, subcategories, legacy
  buckets nothing fills; AutoDelete is off and AUTO_PAUSE_RESUME on.
* Environment overrides, generation of a new `config.toml`, validation of single values.
* The components with status `not_modelled` in `PROJECT.json`: the category manager's
  limits (they are those of `TorrentRules` with other inputs), read-only routes, the
  frontend, the updater (its request to restart is an event of `Supervisor`),
  logging, FFprobe and bundled data.

## What is left

1. State `BudgetKept` without a sum of a sequence, if the code's loop allows.
2. Several simultaneous WebUI requests in `Lifecycle`, with more than the fact that all may
   clash; the hot reload of qBit sections.
