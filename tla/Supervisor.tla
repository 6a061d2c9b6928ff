----------------------------- MODULE Supervisor -----------------------------
(***************************************************************************)
(* The supervisor of the worker processes: the main thread's loop          *)
(* (qBitManager.run), the startup thread, the restart thread and the       *)
(* exit path.                                                              *)
(*                                                                         *)
(* A worker does one job: the search or the torrent loop of one Arr        *)
(* category, or the category manager of one qBittorrent instance.  The     *)
(* supervisor keeps its processes in child_processes, their jobs in        *)
(* _process_registry, the current two of each Arr object in                *)
(* arr.process_search_loop and arr.process_torrent_loop, and the starts to *)
(* try again in _pending_spawns.                                           *)
(***************************************************************************)
EXTENDS Naturals, FiniteSets

CONSTANTS Arr,          \* Arr objects, of the configuration's managed instances
          CatOf,        \* the category of an Arr object
          RolesOf,      \* the loops spawn_child_processes() makes for it
          Qbit,         \* qBittorrent instances with managed categories
          Proc,         \* process objects
          JobOf,        \* the job a process object is made for
          AutoRestart,  \* Settings.AutoRestartProcesses
          MaxRestarts,  \* Settings.MaxProcessRestarts
          MaxEvents,    \* bounds on the events, of each kind and of "any"
          None          \* no process, no job, no Arr object

Role == {"search", "torrent"}
Category == {CatOf[a] : a \in Arr}
Slot == Arr \X Role
JobOfSlot(a, r) == <<CatOf[a], r>>
ManagerJob(q) == <<q, "category_manager">>
ArrJob == {JobOfSlot(a, r) : a \in Arr, r \in Role}
Job == ArrJob \cup {ManagerJob(q) : q \in Qbit}

Event == {"start", "restart", "spawn", "signal", "late", "ask", "term", "any"}

ASSUME SupervisorAssumption ==
    /\ RolesOf \in [Arr -> SUBSET Role]
    /\ Category \cap Qbit = {} /\ Arr \cap Qbit = {}
    /\ JobOf \in [Proc -> Job]
    /\ AutoRestart \in BOOLEAN
    /\ MaxRestarts \in Nat
    /\ MaxEvents \in [Event -> Nat]
    /\ None \notin Arr \cup Proc \cup Job

VARIABLES phase,     \* what a process object can tell of its process
          children,  \* child_processes
          registry,  \* _process_registry
          slot,      \* arr.process_search_loop and arr.process_torrent_loop
          managed,   \* arr_manager.managed_objects
          pending,   \* _pending_spawns; while retrying, retry_spawns
          recent,    \* restarts of a job inside the restart window
          dbEvent,   \* database_restart_event
          shutdown,  \* shutdown_event
          startup,   \* what the startup thread has still to prepare
          restarter, \* where the restart thread is
          pc,        \* where the main thread is
          todo,      \* the rest of its copy of child_processes
          failed,    \* failed_processes
          arrs,      \* the Arr objects it has still to respawn
          retry,     \* the pending starts it has still to try
          cur, meta, \* the crashed process it restarts, and its job
          anyAlive,  \* any_alive
          overlap,   \* history: jobs respawned although their start was pending
          budget     \* how many events of each kind are left

Ended == {"exited", "aborted", "execed"}
Over == pc \in Ended

tracked == <<children, registry>>
main == <<pc, todo, failed, arrs, retry, cur, meta, anyAlive>>
vars == <<phase, children, registry, slot, managed, pending, recent, dbEvent,
          shutdown, startup, restarter, main, overlap, budget>>

\* "made": not started; "clean": exit code 0; "crashed": another exit code.
Phase == {"made", "alive", "clean", "crashed"}
\* "stopping": the loop has ended; "cleaning" and "killing": inside _cleanup, before
\* and after the shutdown event is set; "joining": after it; "leaving": it was cut
\* short, and "aborted": so was the wait for the workers that were left.
PC == {"boot", "idle", "start", "loop", "checkpoint", "respawn", "reap", "delay", "retry",
       "rest", "nap", "stopping", "cleaning", "killing", "joining", "leaving"} \cup Ended

Alive == {p \in Proc : phase[p] = "alive"}
Dead(p) == phase[p] \in {"clean", "crashed"}

\* Process objects that nothing refers to: constructing one takes one of these.
Free == {p \in Proc : /\ phase[p] # "alive" /\ registry[p] = None
                      /\ p \notin children \cup todo \cup {cur}
                      /\ \A s \in Slot : slot[s] # p}

\* The process objects spawn_child_processes() can return for an Arr object.
Spawned(a) == {f \in [RolesOf[a] -> Free] : \A r \in RolesOf[a] : JobOf[f[r]] = JobOfSlot(a, r)}
Image(f, R) == {f[r] : r \in R}

\* Its effect on the loops of the Arr object.
FillSlots(a, f) ==
    slot' = [s \in Slot |-> IF s[1] = a /\ s[2] \in RolesOf[a] THEN f[s[2]] ELSE slot[s]]

\* Process objects are constructed, and those in `up' are started.
Construct(new, up) ==
    phase' = [p \in Proc |-> IF p \in up THEN "alive" ELSE IF p \in new THEN "made" ELSE phase[p]]

PendingJobs == {JobOfSlot(s[1], s[2]) : s \in pending}
ManagedArrs == {managed[c] : c \in Category} \ {None}

Init ==
    /\ phase = [p \in Proc |-> "made"]
    /\ children = {} /\ registry = [p \in Proc |-> None]
    /\ slot = [s \in Slot |-> None]
    /\ managed \in [Category -> Arr] /\ \A c \in Category : CatOf[managed[c]] = c
    /\ pending = {} /\ recent = [j \in Job |-> 0]
    /\ dbEvent = FALSE /\ shutdown = FALSE
    /\ startup = ManagedArrs \cup Qbit
    /\ restarter = "off"
    /\ pc = "boot" /\ todo = {} /\ failed = {} /\ arrs = {} /\ retry = {}
    /\ cur = None /\ meta = None /\ anyAlive = FALSE
    /\ overlap = {}
    /\ budget = MaxEvents

Spend(e, n) == /\ n <= budget[e] /\ n <= budget["any"]
               /\ budget' = [budget EXCEPT ![e] = @ - n, !["any"] = @ - n]
Goto(l) == pc' = l

\* _enqueue_failed_spawn for some loops of an Arr object: one entry per job.
Enqueue(a, R) == pending \cup {<<a, r>> : r \in {r \in R : JobOfSlot(a, r) \notin PendingJobs}}

\* A process and its meta leave both records.
Untrack(p) == /\ children' = children \ {p}
              /\ registry' = [registry EXCEPT ![p] = None]
\* A process joins them, with its meta.
Track(P) == /\ children' = children \cup P
            /\ registry' = [p \in Proc |-> IF p \in P THEN JobOf[p] ELSE registry[p]]

-----------------------------------------------------------------------------
(* Variants: operations below with one bug a change could bring in. *)

\* StopAll without its kill(): a worker that ignores SIGTERM lives on.
StopAllGently ==
    /\ pc = "loop" /\ ~shutdown /\ dbEvent
    /\ children' = {} /\ registry' = [p \in Proc |-> None]
    /\ dbEvent' = FALSE
    /\ pc' = "checkpoint"
    /\ UNCHANGED <<phase, slot, managed, pending, recent, shutdown, startup, restarter,
                   todo, failed, arrs, retry, cur, meta, anyAlive, overlap, budget>>

\* A retry that raises is not kept in retry_spawns.
RetryFailsForgets(a, r) ==
    /\ pc = "retry" /\ <<a, r>> \in retry /\ Spend("spawn", 1)
    /\ retry' = retry \ {<<a, r>>}
    /\ UNCHANGED <<phase, tracked, slot, managed, pending, recent, dbEvent, shutdown, startup,
                   restarter, pc, todo, failed, arrs, cur, meta, anyAlive, overlap>>

\* A respawn that raises is only logged.
RespawnFailsForgets(a) ==
    /\ pc = "respawn" /\ a \in arrs /\ Spend("spawn", 1)
    /\ arrs' = arrs \ {a}
    /\ UNCHANGED <<phase, tracked, slot, managed, pending, recent, dbEvent, shutdown, startup,
                   restarter, pc, todo, failed, retry, cur, meta, anyAlive, overlap>>

\* The exit code is tested the wrong way round.
RestartableClean(p) ==
    /\ ~dbEvent /\ AutoRestart /\ phase[p] = "clean"
    /\ registry[p] # None => recent[registry[p]] < MaxRestarts

\* The cleanup leaves the workers to their own reading of shutdown_event.
CleanupWaits ==
    /\ \/ pc = "stopping" /\ pc' = "cleaning" /\ UNCHANGED shutdown
       \/ pc = "cleaning" /\ pc' = "killing" /\ shutdown' = TRUE
       \/ pc = "killing" /\ pc' = "joining" /\ UNCHANGED shutdown
    /\ UNCHANGED <<phase, tracked, slot, managed, pending, recent, dbEvent, startup, restarter,
                   todo, failed, arrs, retry, cur, meta, anyAlive, overlap, budget>>

-----------------------------------------------------------------------------
(* The startup thread: _prepare_arr_processes for every Arr object, then the
   category managers, which it starts itself. *)

Ready == startup = {}

PrepareArr(a) ==
    /\ a \in startup
    /\ \E f \in Spawned(a) :
         /\ FillSlots(a, f)
         /\ Construct(Image(f, RolesOf[a]), {})
         /\ Track(Image(f, RolesOf[a]))
    /\ startup' = startup \ {a}
    /\ UNCHANGED <<managed, pending, recent, dbEvent, shutdown, restarter, main, overlap, budget>>

\* spawn_child_processes raises or takes too long: "skipping this instance".
SkipArr(a) ==
    /\ a \in startup /\ Spend("spawn", 1)
    /\ startup' = startup \ {a}
    /\ UNCHANGED <<phase, tracked, slot, managed, pending, recent, dbEvent, shutdown,
                   restarter, main, overlap>>

SpawnManager(q) ==
    /\ startup \subseteq Qbit /\ q \in startup
    /\ \/ /\ \E p \in Free : /\ JobOf[p] = ManagerJob(q)
                             /\ Construct({p}, {p})
                             /\ Track({p})
          /\ UNCHANGED budget
       \/ Spend("start", 1) /\ UNCHANGED <<phase, tracked>>
    /\ startup' = startup \ {q}
    /\ UNCHANGED <<slot, managed, pending, recent, dbEvent, shutdown, restarter, main, overlap>>

-----------------------------------------------------------------------------
(* Workers *)

\* A worker ends by itself, by a signal, or because shutdown_event is set.
WorkerExits(p, how) ==
    /\ phase[p] = "alive"
    /\ phase' = [phase EXCEPT ![p] = how]
    /\ UNCHANGED <<tracked, slot, managed, pending, recent, dbEvent, shutdown, startup,
                   restarter, main, overlap, budget>>

\* Database errors have persisted: the worker asks for a coordinated restart.
SignalRestart(p) ==
    /\ phase[p] = "alive" /\ JobOf[p] \in {JobOfSlot(a, "torrent") : a \in Arr}
    /\ Spend("signal", 1)
    /\ dbEvent' = TRUE
    /\ UNCHANGED <<phase, tracked, slot, managed, pending, recent, shutdown, startup,
                   restarter, main, overlap>>

\* The oldest restart of a job leaves the restart window.
Forget(j) ==
    /\ recent[j] > 0
    /\ recent' = [recent EXCEPT ![j] = @ - 1]
    /\ UNCHANGED <<phase, tracked, slot, managed, pending, dbEvent, shutdown, startup,
                   restarter, main, overlap, budget>>

-----------------------------------------------------------------------------
(* The main thread: the initial starts *)

\* The startup thread is ready, or the main thread has waited long enough.
Begin ==
    /\ pc = "boot"
    /\ IF Ready THEN UNCHANGED budget ELSE Spend("late", 1)
    /\ IF children = {} THEN Goto("idle") ELSE Goto("start")
    /\ todo' = children
    /\ UNCHANGED <<phase, tracked, slot, managed, pending, recent, dbEvent, shutdown, startup,
                   restarter, failed, arrs, retry, cur, meta, anyAlive, overlap>>

SkipStarted(p) ==
    /\ pc = "start" /\ p \in todo /\ phase[p] # "made"
    /\ todo' = todo \ {p}
    /\ UNCHANGED <<phase, tracked, slot, managed, pending, recent, dbEvent, shutdown, startup,
                   restarter, pc, failed, arrs, retry, cur, meta, anyAlive, overlap, budget>>

StartOne(p) ==
    /\ pc = "start" /\ p \in todo /\ phase[p] = "made"
    /\ phase' = [phase EXCEPT ![p] = "alive"]
    /\ todo' = todo \ {p}
    /\ UNCHANGED <<tracked, slot, managed, pending, recent, dbEvent, shutdown, startup,
                   restarter, pc, failed, arrs, retry, cur, meta, anyAlive, overlap, budget>>

\* start() raises, or the process is dead 0.1 s later.
StartOneFails(p) ==
    /\ pc = "start" /\ p \in todo /\ phase[p] = "made"
    /\ Spend("start", 1)
    /\ failed' = failed \cup ({registry[p]} \ {None})
    /\ Untrack(p)
    /\ todo' = todo \ {p}
    /\ UNCHANGED <<phase, slot, managed, pending, recent, dbEvent, shutdown, startup,
                   restarter, pc, arrs, retry, cur, meta, anyAlive, overlap>>

\* The failed starts are queued, for the managed Arr of the category.
QueueFailed ==
    /\ pc = "start" /\ todo = {}
    /\ pending' = pending \cup {s \in Slot : /\ managed[CatOf[s[1]]] = s[1]
                                             /\ JobOfSlot(s[1], s[2]) \in failed \ PendingJobs}
    /\ failed' = {}
    /\ Goto("loop")
    /\ UNCHANGED <<phase, tracked, slot, managed, recent, dbEvent, shutdown, startup,
                   restarter, todo, arrs, retry, cur, meta, anyAlive, overlap, budget>>

-----------------------------------------------------------------------------
(* The main thread: the coordinated restart *)

LoopShutdown ==
    /\ pc \in {"loop", "idle"} /\ shutdown
    /\ Goto("stopping")
    /\ UNCHANGED <<phase, tracked, slot, managed, pending, recent, dbEvent, shutdown, startup,
                   restarter, todo, failed, arrs, retry, cur, meta, anyAlive, overlap, budget>>

\* terminate(), two seconds, kill(); both records and the event are cleared.
StopAll ==
    /\ pc = "loop" /\ ~shutdown /\ dbEvent
    /\ phase' = [p \in Proc |-> IF p \in children /\ phase[p] = "alive" THEN "crashed" ELSE phase[p]]
    /\ children' = {} /\ registry' = [p \in Proc |-> None]
    /\ dbEvent' = FALSE
    /\ Goto("checkpoint")
    /\ UNCHANGED <<slot, managed, pending, recent, shutdown, startup, restarter,
                   todo, failed, arrs, retry, cur, meta, anyAlive, overlap, budget>>

\* The WAL checkpoint, whatever its result, and the loop over managed_objects.
Checkpoint ==
    /\ pc = "checkpoint"
    /\ arrs' = ManagedArrs
    /\ Goto("respawn")
    /\ UNCHANGED <<phase, tracked, slot, managed, pending, recent, dbEvent, shutdown, startup,
                   restarter, todo, failed, retry, cur, meta, anyAlive, overlap, budget>>

\* One Arr object: its new processes are started; `bad' are those that fail.
Respawn(a) ==
    /\ pc = "respawn" /\ a \in arrs
    /\ \E f \in Spawned(a), bad \in SUBSET RolesOf[a] :
         LET up == RolesOf[a] \ bad IN
         /\ Spend("start", Cardinality(bad))
         /\ FillSlots(a, f)
         /\ Construct(Image(f, bad), Image(f, up))
         /\ Track(Image(f, up))
         /\ pending' = Enqueue(a, bad)
         /\ overlap' = overlap \cup ({JobOfSlot(a, r) : r \in up} \cap PendingJobs)
    /\ arrs' = arrs \ {a}
    /\ UNCHANGED <<managed, recent, dbEvent, shutdown, startup, restarter,
                   pc, todo, failed, retry, cur, meta, anyAlive>>

\* spawn_child_processes raises: every expected loop is queued.
RespawnFails(a) ==
    /\ pc = "respawn" /\ a \in arrs /\ Spend("spawn", 1)
    /\ pending' = Enqueue(a, RolesOf[a])
    /\ arrs' = arrs \ {a}
    /\ UNCHANGED <<phase, tracked, slot, managed, recent, dbEvent, shutdown, startup,
                   restarter, pc, todo, failed, retry, cur, meta, anyAlive, overlap>>

Respawned ==
    /\ pc = "respawn" /\ arrs = {}
    /\ Goto("loop")
    /\ UNCHANGED <<phase, tracked, slot, managed, pending, recent, dbEvent, shutdown, startup,
                   restarter, todo, failed, arrs, retry, cur, meta, anyAlive, overlap, budget>>

-----------------------------------------------------------------------------
(* The main thread: dead workers *)

Look ==
    /\ pc = "loop" /\ ~shutdown /\ ~dbEvent
    /\ Goto("reap") /\ todo' = children /\ anyAlive' = FALSE
    /\ UNCHANGED <<phase, tracked, slot, managed, pending, recent, dbEvent, shutdown, startup,
                   restarter, failed, arrs, retry, cur, meta, overlap, budget>>

\* Alive, or never started: exitcode is None.
ReapOther(p) ==
    /\ pc = "reap" /\ p \in todo /\ ~Dead(p)
    /\ anyAlive' = (anyAlive \/ phase[p] = "alive")
    /\ todo' = todo \ {p}
    /\ UNCHANGED <<phase, tracked, slot, managed, pending, recent, dbEvent, shutdown, startup,
                   restarter, pc, failed, arrs, retry, cur, meta, overlap, budget>>

\* _should_restart_process; a process without meta has no restarts to count.
Restartable(p) ==
    /\ ~dbEvent /\ AutoRestart /\ phase[p] = "crashed"
    /\ registry[p] # None => recent[registry[p]] < MaxRestarts

ReapDead(p) ==
    /\ pc = "reap" /\ p \in todo /\ Dead(p) /\ ~Restartable(p)
    /\ Untrack(p)
    /\ todo' = todo \ {p}
    /\ UNCHANGED <<phase, slot, managed, pending, recent, dbEvent, shutdown, startup,
                   restarter, pc, failed, arrs, retry, cur, meta, anyAlive, overlap, budget>>

\* _restart_process starts with a delay, its meta in hand.
ReapCrashed(p) ==
    /\ pc = "reap" /\ p \in todo /\ Restartable(p)
    /\ cur' = p /\ meta' = registry[p]
    /\ todo' = todo \ {p}
    /\ Goto("delay")
    /\ UNCHANGED <<phase, tracked, slot, managed, pending, recent, dbEvent, shutdown, startup,
                   restarter, failed, arrs, retry, anyAlive, overlap, budget>>

\* The Arr object _restart_process finds for a job.
Target(j) == {a \in ManagedArrs : \E r \in Role : j = JobOfSlot(a, r)}

Restart(n) ==
    /\ pc = "delay" /\ n \in Free /\ JobOf[n] = meta
    /\ \E a \in Target(meta) : slot' = [slot EXCEPT ![<<a, meta[2]>>] = n]
    /\ phase' = [phase EXCEPT ![n] = "alive"]
    /\ recent' = [recent EXCEPT ![meta] = @ + 1]
    /\ children' = (children \ {cur}) \cup {n}
    /\ registry' = [registry EXCEPT ![cur] = None, ![n] = meta]
    /\ cur' = None /\ meta' = None
    /\ Goto("reap")
    /\ UNCHANGED <<managed, pending, dbEvent, shutdown, startup, restarter, todo, failed, arrs,
                   retry, anyAlive, overlap, budget>>

\* No Arr object has the job, or start() raises: the worker is given up.
GiveUp ==
    /\ pc = "delay"
    /\ \/ Target(meta) = {} /\ UNCHANGED <<slot, phase, budget>>
       \/ /\ Spend("restart", 1)
          /\ \E a \in Target(meta), n \in Free :
               /\ JobOf[n] = meta
               /\ slot' = [slot EXCEPT ![<<a, meta[2]>>] = n]
               /\ phase' = [phase EXCEPT ![n] = "made"]
    /\ Untrack(cur)
    /\ cur' = None /\ meta' = None
    /\ Goto("reap")
    /\ UNCHANGED <<managed, pending, recent, dbEvent, shutdown, startup, restarter, todo, failed,
                   arrs, retry, anyAlive, overlap>>

-----------------------------------------------------------------------------
(* The main thread: failed starts, and the end of a round *)

ReapDone ==
    /\ pc = "reap" /\ todo = {}
    /\ retry' = IF AutoRestart /\ ~dbEvent THEN pending ELSE {}
    /\ pending' = pending \ retry'
    /\ Goto("retry")
    /\ UNCHANGED <<phase, tracked, slot, managed, recent, dbEvent, shutdown, startup,
                   restarter, todo, failed, arrs, cur, meta, anyAlive, overlap, budget>>

\* spawn_child_processes makes all loops anew; only the one retried is started.
RetryOne(a, r) ==
    /\ pc = "retry" /\ <<a, r>> \in retry
    /\ \E f \in Spawned(a) :
         /\ FillSlots(a, f)
         /\ \/ /\ Construct(Image(f, RolesOf[a]), Image(f, {r} \cap RolesOf[a]))
               /\ Track(Image(f, {r} \cap RolesOf[a]))
               /\ UNCHANGED <<pending, budget>>
            \/ /\ r \in RolesOf[a] /\ Spend("start", 1)
               /\ Construct(Image(f, RolesOf[a]), {})
               /\ pending' = pending \cup {<<a, r>>}
               /\ UNCHANGED tracked
    /\ retry' = retry \ {<<a, r>>}
    /\ UNCHANGED <<managed, recent, dbEvent, shutdown, startup, restarter, pc, todo, failed, arrs,
                   cur, meta, anyAlive, overlap>>

RetryFails(a, r) ==
    /\ pc = "retry" /\ <<a, r>> \in retry /\ Spend("spawn", 1)
    /\ pending' = pending \cup {<<a, r>>}
    /\ retry' = retry \ {<<a, r>>}
    /\ UNCHANGED <<phase, tracked, slot, managed, recent, dbEvent, shutdown, startup, restarter,
                   pc, todo, failed, arrs, cur, meta, anyAlive, overlap>>

RetryDone ==
    /\ pc = "retry" /\ retry = {}
    /\ Goto("rest")
    /\ UNCHANGED <<phase, tracked, slot, managed, pending, recent, dbEvent, shutdown, startup,
                   restarter, todo, failed, arrs, retry, cur, meta, anyAlive, overlap, budget>>

\* The loop ends when there is nothing to supervise, before or after its pause.
Rest ==
    /\ pc \in {"rest", "nap"}
    /\ Goto(IF children = {} /\ (pc = "nap" \/ ~anyAlive) THEN "stopping"
            ELSE IF pc = "rest" THEN "nap" ELSE "loop")
    /\ UNCHANGED <<phase, tracked, slot, managed, pending, recent, dbEvent, shutdown, startup,
                   restarter, todo, failed, arrs, retry, cur, meta, anyAlive, overlap, budget>>

-----------------------------------------------------------------------------
(* The exit of the program *)

\* SIGTERM or SIGINT: the handler runs the cleanup wherever the main thread is.
Terminated ==
    /\ pc \notin {"boot", "cleaning", "killing", "joining", "leaving"} \cup Ended
    /\ Spend("term", 1)
    /\ Goto("cleaning")
    /\ UNCHANGED <<phase, tracked, slot, managed, pending, recent, dbEvent, shutdown, startup,
                   restarter, todo, failed, arrs, retry, cur, meta, anyAlive, overlap>>

\* Another one during the exit: _cleanup has its flag set and does nothing, and the
\* SystemExit the handler raises ends the cleanup, or the wait, that it interrupts.
Interrupted ==
    /\ Spend("term", 1)
    /\ \/ pc \in {"cleaning", "killing"} /\ Goto("leaving")
       \/ pc = "joining" /\ Goto("exited")
       \/ pc = "leaving" /\ Goto("aborted")
    /\ UNCHANGED <<phase, tracked, slot, managed, pending, recent, dbEvent, shutdown, startup,
                   restarter, todo, failed, arrs, retry, cur, meta, anyAlive, overlap>>

KillChildren ==
    phase' = [p \in Proc |-> IF p \in children /\ phase[p] = "alive" THEN "crashed" ELSE phase[p]]

\* _cleanup: signal the loops, wait for the processes, then kill them.
Cleanup ==
    /\ \/ pc = "stopping" /\ Goto("cleaning") /\ UNCHANGED <<phase, shutdown>>
       \/ pc = "cleaning" /\ Goto("killing") /\ shutdown' = TRUE /\ UNCHANGED phase
       \/ pc = "killing" /\ Goto("joining") /\ KillChildren /\ UNCHANGED shutdown
    /\ UNCHANGED <<tracked, slot, managed, pending, recent, dbEvent, startup, restarter,
                   todo, failed, arrs, retry, cur, meta, anyAlive, overlap, budget>>

\* The interpreter waits for the workers that are left, then ends.
Exit ==
    /\ pc \in {"joining", "leaving"} /\ Alive = {}
    /\ Goto("exited")
    /\ UNCHANGED <<phase, tracked, slot, managed, pending, recent, dbEvent, shutdown, startup,
                   restarter, todo, failed, arrs, retry, cur, meta, anyAlive, overlap, budget>>

\* request_restart: its thread sets the event, waits for the workers, kills what
\* is left of them and replaces the program, unless it has ended meanwhile.
RequestRestart ==
    /\ ~Over /\ restarter = "off" /\ Spend("ask", 1)
    /\ restarter' = "asked"
    /\ UNCHANGED <<phase, tracked, slot, managed, pending, recent, dbEvent, shutdown, startup,
                   main, overlap>>

RestarterSignals ==
    /\ ~Over /\ restarter = "asked"
    /\ restarter' = "signalled" /\ shutdown' = TRUE
    /\ UNCHANGED <<phase, tracked, slot, managed, pending, recent, dbEvent, startup,
                   main, overlap, budget>>

\* Where the main thread may start workers before it looks at shutdown_event.
Starting == {"boot", "start", "checkpoint", "respawn", "reap", "delay", "retry"}

\* The main and the startup thread go on; nothing waits for them.
RestarterKills ==
    /\ ~Over /\ restarter = "signalled"
    /\ KillChildren
    /\ restarter' = IF pc \in Starting THEN "early" ELSE "killed"
    /\ UNCHANGED <<tracked, slot, managed, pending, recent, dbEvent, shutdown, startup,
                   main, overlap, budget>>

RestarterExecs ==
    /\ ~Over /\ restarter \in {"killed", "early"}
    /\ Goto("execed")
    /\ UNCHANGED <<phase, tracked, slot, managed, pending, recent, dbEvent, shutdown, startup,
                   restarter, todo, failed, arrs, retry, cur, meta, anyAlive, overlap, budget>>

-----------------------------------------------------------------------------
Startup == ~Over /\ (\/ \E a \in Arr : PrepareArr(a) \/ SkipArr(a)
                              \/ \E q \in Qbit : SpawnManager(q))

MainLoop ==
    \/ Begin \/ QueueFailed
    \/ LoopShutdown \/ StopAll \/ Checkpoint \/ Respawned
    \/ Look \/ GiveUp \/ ReapDone \/ RetryDone \/ Rest \/ Cleanup \/ Exit
    \/ \E p \in Proc : \/ SkipStarted(p) \/ StartOne(p) \/ StartOneFails(p)
                       \/ ReapOther(p) \/ ReapDead(p) \/ ReapCrashed(p) \/ Restart(p)
    \/ \E a \in Arr : \/ Respawn(a) \/ RespawnFails(a)
                      \/ \E r \in Role : RetryOne(a, r) \/ RetryFails(a, r)

Restarter == RestarterSignals \/ RestarterKills \/ RestarterExecs

Workers ==
    \/ \E p \in Proc : SignalRestart(p) \/ \E how \in {"clean", "crashed"} : WorkerExits(p, how)
    \/ \E j \in Job : Forget(j)

Next == Startup \/ MainLoop \/ Restarter \/ Workers \/ RequestRestart \/ Terminated \/ Interrupted

Spec == Init /\ [][Next]_vars

\* The startup thread and the main thread run.
Fairness == WF_vars(Startup) /\ WF_vars(MainLoop)

FairSpec == Spec /\ Fairness

-----------------------------------------------------------------------------
(* Properties *)

\* Every variable keeps its type; among others, no job is restarted more than
\* MaxRestarts times within the window.
TypeOK ==
    /\ phase \in [Proc -> Phase]
    /\ children \subseteq Proc
    /\ registry \in [Proc -> Job \cup {None}]
    /\ slot \in [Slot -> Proc \cup {None}]
    /\ managed \in [Category -> Arr \cup {None}]
    /\ pending \subseteq Slot
    /\ recent \in [Job -> 0..MaxRestarts]
    /\ dbEvent \in BOOLEAN /\ shutdown \in BOOLEAN
    /\ startup \subseteq Arr \cup Qbit
    /\ restarter \in {"off", "asked", "signalled", "killed", "early"}
    /\ pc \in PC
    /\ todo \subseteq Proc /\ failed \subseteq Job
    /\ arrs \subseteq Arr /\ retry \subseteq Slot
    /\ cur \in Proc \cup {None} /\ meta \in Job \cup {None}
    /\ anyAlive \in BOOLEAN
    /\ overlap \subseteq Job
    /\ budget \in [Event -> Nat]

\* A live worker is in child_processes, and the registry names its job: whatever
\* path started it, the supervisor can notice its death and stop it.
LiveTracked == \A p \in Alive : p \in children /\ registry[p] = JobOf[p]

\* Two live workers share a job only if the coordinated restart has started it
\* while a failed start of it was still queued in _pending_spawns.
OneWorkerPerJob ==
    \A p, q \in Alive : p # q /\ JobOf[p] = JobOf[q] => JobOf[p] \in overlap

\* The startup thread was ready before the main thread went on.
StartedInTime == budget["late"] = MaxEvents["late"]

\* The supervisor's WAL checkpoint runs while all workers are stopped, but for a
\* category manager that a late startup thread has started since.
QuietCheckpoint ==
    pc = "checkpoint" => \A p \in Alive : JobOf[p] \notin ArrJob /\ ~StartedInTime

\* After a cleanup that was not cut short, and when the program is replaced, no
\* worker runs, but for such a category manager.  Two cases are excepted: a signal
\* during the cleanup ends it before the kill, and the restart thread may stop the
\* workers while the main thread is still to start some ("early").
NoOrphans ==
    pc \in {"joining", "exited"} \/ (pc = "execed" /\ restarter = "killed")
    => \A p \in Alive : JobOf[p] \notin ArrJob /\ ~StartedInTime

Running(j) == \E p \in Alive : JobOf[p] = j

\* A queued start leaves the queue only when a worker of its job runs.
KeepsQueue == \A s \in pending \cup retry : \/ s \in pending' \cup retry'
                                            \/ Running(JobOfSlot(s[1], s[2]))'
QueueKept == [][KeepsQueue]_vars

\* The exit of the program has begun; when it is cut short, shutdown may never be set.
Ending == pc \in {"cleaning", "killing", "joining", "leaving"} \cup Ended

\* While the program runs, a queued start is tried until its worker runs.
PendingRuns ==
    \A s \in Slot : s \in pending ~> (Running(JobOfSlot(s[1], s[2])) \/ shutdown \/ Ending)

\* An Arr worker that crashes runs again, with three exceptions: its job is at the
\* restart limit, the program is being ended, or the start() of a crashed worker's
\* successor has failed, which gives the job up.  Other starts may fail.
CrashedReturns ==
    \A p \in Proc :
        (p \in children /\ phase[p] = "crashed" /\ JobOf[p] \in ArrJob)
        ~> \/ Running(JobOf[p]) \/ recent[JobOf[p]] = MaxRestarts \/ shutdown \/ Ending
           \/ budget["restart"] < MaxEvents["restart"]

\* After the workers were stopped for the database, every job of a managed Arr runs again or
\* its start is queued, unless the program was asked to end; it does not end by itself.
RespawnReaches ==
    \A s \in Slot : pc = "checkpoint" /\ s[1] \in ManagedArrs /\ s[2] \in RolesOf[s[1]]
                    ~> \/ Running(JobOfSlot(s[1], s[2])) \/ s \in pending
                       \/ \E e \in {"term", "ask"} : budget[e] < MaxEvents[e]

=============================================================================
