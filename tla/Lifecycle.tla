----------------------------- MODULE Lifecycle -----------------------------
(***************************************************************************)
(* The supervisor together with the reload of Arr instances after a change *)
(* of the configuration in the WebUI: the plan config_routes.py makes of   *)
(* a save (with config_reload_policy.py), and webui/lifecycle.py, which    *)
(* carries it out.                                                         *)
(*                                                                         *)
(* A save stops and starts the instances it changes, one after the other,  *)
(* and refreshes others in place; or it rebuilds all of them.  It runs in  *)
(* the thread of its request, changes managed_objects, child_processes and *)
(* _process_registry one operation at a time, and takes no lock.           *)
(***************************************************************************)
EXTENDS Supervisor, FiniteSetsExt

CONSTANTS Thread,   \* threads that serve WebUI requests
          Name,     \* configuration sections of Arr instances, in sorted order
          NameOf,   \* the section an Arr object is built from
          UriOf,    \* the URI in it
          Starts,   \* configurations the program may have been started with
          Updates,  \* the changes a save may make: a configuration, the next, and the
                    \* sections that the next one has with Managed = false
          Rebuilds, \* configurations under which everything may be rebuilt
          MaxTurns, \* bounds on the saves and the workers that end by themselves
          MaxFaults \* together, and on what fails in a reload

\* What an Arr object takes from its section: Category and URI, and the loops it
\* runs, which follow from SearchMissing.
Profile(a) == <<CatOf[a], UriOf[a], RolesOf[a]>>
Config == [Name -> {Profile(a) : a \in Arr} \cup {None}]

\* What building all instances at once is modelled for: no two sections share a
\* category or a URI.
Unshared == {c \in Config : \A m, n \in Name : m # n /\ None \notin {c[m], c[n]}
                                            => c[m][1] # c[n][1] /\ c[m][2] # c[n][2]}

ASSUME LifecycleAssumption ==
    /\ Thread # {} /\ Name \subseteq Nat /\ NameOf \in [Arr -> Name] /\ DOMAIN UriOf = Arr
    /\ MaxTurns \in Nat /\ MaxFaults \in Nat
    /\ \A a, b \in Arr : "torrent" \in RolesOf[a] => "torrent" \in RolesOf[b]
    /\ Starts \subseteq Unshared /\ Rebuilds \subseteq Unshared
    /\ Updates \subseteq Config \X Config \X SUBSET Name

VARIABLES config,    \* the managed sections of CONFIG, as saved
          off,       \* its sections with Managed = false
          groups,    \* arr_manager.groups
          uris,      \* arr_manager.uris
          task,      \* what a thread does
          saves,     \* saves so far
          exits,     \* workers that have ended by themselves so far
          faults,    \* failures of a reload so far
          clash,     \* history: jobs whose reload met another operation on them, or
                     \* whose worker its object no longer shows
          entangled, \* history: sections whose reload met another section's settings
          missed     \* history: jobs whose start has failed

reload == <<config, off, groups, uris, task, saves, exits, faults>>
history == <<clash, entangled, missed>>
lifeVars == <<vars, reload, history>>

Idle == [at |-> "idle", names |-> {}, gone |-> {}, live |-> {}, full |-> FALSE, name |-> None,
         arr |-> None, roles |-> {}, proc |-> None, procs |-> {}, arrs |-> {}, qbits |-> {}, jobs |-> {}]

Busy == {t \in Thread : task[t].at # "idle"}
BusyJobs == UNION {task[t].jobs : t \in Busy}
InHand == UNION {task[t].procs \cup {task[t].proc} : t \in Thread}

\* Process objects and Arr objects that nothing refers to: constructing one
\* takes one of these.
Unused == Free \ InHand
FreeArr == {a \in Arr : /\ a \notin ManagedArrs \cup startup \cup arrs
                        /\ \A r \in Role : /\ <<a, r>> \notin pending \cup retry
                                           /\ slot[<<a, r>>] = None
                        /\ \A t \in Thread : a \notin task[t].arrs \cup {task[t].arr}}

Named(n) == {a \in ManagedArrs : NameOf[a] = n}
FromSection(n, a) == NameOf[a] = n /\ config[n] = Profile(a)
JobsOf(N, c) == {<<c[n][1], r>> : n \in {n \in N : c[n] # None}, r \in Role}

\* The program runs: every loop of the configured instances has its worker.
LifeInit ==
    /\ config \in Starts /\ off = {}
    /\ \E obj \in [{n \in Name : config[n] # None} -> Arr] :
         /\ \A n \in DOMAIN obj : FromSection(n, obj[n])
         /\ managed = [c \in Category |-> IF \E n \in DOMAIN obj : config[n][1] = c
                                         THEN obj[CHOOSE n \in DOMAIN obj : config[n][1] = c] ELSE None]
    /\ \E f \in [{s \in Slot : s[1] \in ManagedArrs /\ s[2] \in RolesOf[s[1]]} -> Proc], m \in [Qbit -> Proc] :
         /\ \A s \in DOMAIN f : JobOf[f[s]] = JobOfSlot(s[1], s[2])
         /\ \A q \in Qbit : JobOf[m[q]] = ManagerJob(q)
         /\ slot = [s \in Slot |-> IF s \in DOMAIN f THEN f[s] ELSE None]
         /\ children = {f[s] : s \in DOMAIN f} \cup {m[q] : q \in Qbit}
    /\ phase = [p \in Proc |-> IF p \in children THEN "alive" ELSE "made"]
    /\ registry = [p \in Proc |-> IF p \in children THEN JobOf[p] ELSE None]
    /\ pending = {} /\ recent = [j \in Job |-> 0]
    /\ dbEvent = FALSE /\ shutdown = FALSE /\ startup = {} /\ restarter = "off"
    /\ pc = "loop" /\ todo = {} /\ failed = {} /\ arrs = {} /\ retry = {}
    /\ cur = None /\ meta = None /\ anyAlive = FALSE
    /\ overlap = {} /\ budget = MaxEvents
    /\ groups = {n \in Name : config[n] # None}
    /\ uris = {config[n][2] : n \in groups}
    /\ task = [t \in Thread |-> Idle]
    /\ saves = 0 /\ exits = 0 /\ faults = 0 /\ clash = {} /\ entangled = {} /\ missed = {}

supervised == <<managed, pending, recent, dbEvent, shutdown, startup, restarter, main, overlap>>

\* What a thread goes on with.
Go(t, u) == task' = [task EXCEPT ![t] = u]
At(t, l) == ~Over /\ task[t].at = l
Then(t, l) == Go(t, [task[t] EXCEPT !.at = l])

-----------------------------------------------------------------------------
(* Variants: operations below with one bug a change could bring in. *)

\* The sections are reloaded in their sorted order.
NextNameSorted(N, gone) == Min(N)

\* Only the torrent loop of an instance is stopped.
TakeTorrent(t, n, a) ==
    Go(t, [task[t] EXCEPT !.at = "stop", !.names = @ \ {n}, !.name = n, !.arr = a, !.roles = {"torrent"}])

\* The workers of a rebuilt instance are prepared and not started.
SpawnOnly(t) ==
    /\ At(t, "spawn")
    /\ \E f \in [RolesOf[task[t].arr] -> Unused] :
         /\ \A r \in DOMAIN f : JobOf[f[r]] = JobOfSlot(task[t].arr, r)
         /\ FillSlots(task[t].arr, f)
         /\ LET new == Image(f, DOMAIN f) IN
            /\ Construct(new, {})
            /\ children' = children \cup new
            /\ Go(t, [task[t] EXCEPT !.at = "run", !.procs = {}])
    /\ UNCHANGED <<registry, supervised, budget, config, off, groups, uris, saves, exits, faults, history>>

Fail == faults < MaxFaults /\ faults' = faults + 1

\* The section to reload next: those that are gone come first.
NextName(N, gone) == Min(IF N \cap gone # {} THEN N \cap gone ELSE N)

-----------------------------------------------------------------------------
(* A save: the plan of what to reload *)

\* A section takes the category (1) or the URI (2) that another one takes as well, has,
\* or had before the save, unless that one is gone.
TakesOver(m, n, i, c, d, gone) ==
    /\ m # n /\ d[m] # None /\ d[m] # c[m]
    /\ \/ d[n] # None /\ d[m][i] = d[n][i]
       \/ c[n] # None /\ n \notin gone /\ d[m][i] = c[n][i]

\* One of two reloads then finds the other's settings in the manager: a registered URI keeps
\* the first from being built; a category is taken away from the object that holds it, and
\* its section counts as registered still.
Entangles(c, d, gone) ==
    {m \in Name : \E n \in Name : \/ \E i \in {1, 2} : TakesOver(m, n, i, c, d, gone)
                                 \/ TakesOver(n, m, 1, c, d, gone)}

\* The URI of an object that lost its category in this way stays registered.
Lost == uris \ {UriOf[a] : a \in ManagedArrs}

Contested(c, d, gone) ==
    {<<d[m][1], r>> : m \in {m \in Name : \E n \in Name : TakesOver(m, n, 1, c, d, gone)}, r \in Role}

\* What the reload of a job may meet in the main thread: that is about to restart it, to
\* try its queued start or to respawn it.
Disturbed(j) ==
    \/ meta = j \/ (cur # None /\ JobOf[cur] = j)
    \/ j \in PendingJobs \cup {JobOfSlot(s[1], s[2]) : s \in retry}
    \/ pc \in {"checkpoint", "respawn"}

\* Two reloads at the same time may meet in any section and job, as each plans and builds
\* with the settings that the other one changes.
Accept(t, u, met) ==
    /\ At(t, "idle") /\ saves + exits < MaxTurns
    /\ saves' = saves + 1
    /\ Go(t, u)
    /\ entangled' = entangled \cup (IF Busy = {} THEN met ELSE Name)
    /\ clash' = clash \cup (IF Busy # {} THEN Job
                           ELSE {j \in u.jobs : Disturbed(j)} \cup Contested(config, config', u.gone))
    /\ UNCHANGED <<vars, groups, uris, exits, faults, missed>>

\* Sections that are new, gone, managed no longer or again, or that differ in category
\* or URI are reloaded; those that are new, or in which SearchMissing differs, are
\* refreshed.  Only those that are gone are stopped before the others.
Save(t, d, o) ==
    LET changed == {n \in Name : config[n] # d[n]}
        gone == {n \in Name : d[n] = None} \ o
        rekeyed == {n \in changed : \/ None \in {config[n], d[n]}
                                    \/ config[n][1] # d[n][1] \/ config[n][2] # d[n][2]}
        toggled == {n \in changed : d[n] # None /\ IF config[n] = None THEN n \notin off
                                                   ELSE config[n][3] # d[n][3]}
    IN
    /\ changed # {}
    /\ <<config, d, o>> \in Updates /\ config' = d /\ off' = o
    /\ Accept(t, [Idle EXCEPT !.at = "next", !.names = rekeyed, !.gone = gone, !.live = toggled,
                              !.jobs = JobsOf(changed, config) \cup JobsOf(changed, d)],
              Entangles(config, d, gone) \cup {n \in changed : d[n] # None /\ d[n][2] \in Lost})

\* A change the Arr object keeps nothing of here (its API key, a profile).
SaveKey(t, n) ==
    /\ config[n] # None /\ <<config, config, off>> \in Updates
    /\ UNCHANGED <<config, off>>
    /\ Accept(t, [Idle EXCEPT !.at = "next", !.names = {n}, !.gone = {m \in Name : config[m] = None} \ off,
                              !.jobs = JobsOf({n}, config)], {})

\* A change that needs everything rebuilt, or restart_all.
SaveAll(t) ==
    /\ config \in Rebuilds
    /\ UNCHANGED <<config, off>>
    /\ Accept(t, [Idle EXCEPT !.at = "all", !.full = TRUE, !.jobs = Job], {})

-----------------------------------------------------------------------------
(* Stopping an instance: _reload_arr_instance and _stop_arr_instance *)

Take(t, n, a) ==
    Go(t, [task[t] EXCEPT !.at = "stop", !.names = @ \ {n}, !.name = n, !.arr = a, !.roles = Role])

\* The next section: its object is looked up by name.
Pick(t) ==
    /\ At(t, "next") /\ task[t].names # {}
    /\ LET n == NextName(task[t].names, task[t].gone) IN
       \/ \E a \in Named(n) : Take(t, n, a)
       \/ Named(n) = {} /\ Go(t, [task[t] EXCEPT !.names = @ \ {n}, !.name = n,
                                      !.at = IF n \in task[t].gone THEN "next" ELSE "build"])
    /\ UNCHANGED <<vars, config, off, groups, uris, saves, exits, faults, history>>

\* The process of a loop, if the object shows one, is killed; the search loop first.
Stop(t) ==
    /\ At(t, "stop") /\ task[t].roles # {}
    /\ LET r == IF "search" \in task[t].roles THEN "search" ELSE "torrent"
           p == slot[<<task[t].arr, r>>]
           rest == [task[t] EXCEPT !.roles = @ \ {r}]
       IN  IF p = None
           THEN Go(t, rest) /\ UNCHANGED phase
           ELSE /\ phase' = [phase EXCEPT ![p] = IF @ = "alive" THEN "crashed" ELSE @]
                /\ Go(t, [rest EXCEPT !.at = "remove", !.proc = p])
    /\ UNCHANGED <<tracked, slot, supervised, budget, config, off, groups, uris, saves, exits, faults, history>>

Remove(t) ==
    /\ \/ At(t, "remove") /\ Then(t, "pop")
       \/ At(t, "remove search") /\ Then(t, "pop search")
    /\ children' = children \ {task[t].proc}
    /\ UNCHANGED <<phase, registry, slot, supervised, budget, config, off, groups, uris, saves, exits, faults, history>>

Pop(t) ==
    /\ \/ At(t, "pop") /\ Go(t, [task[t] EXCEPT !.at = "stop", !.proc = None])
       \/ At(t, "pop search") /\ Go(t, [task[t] EXCEPT !.at = "search", !.proc = None])
    /\ registry' = [registry EXCEPT ![task[t].proc] = None]
    /\ slot' = IF task[t].at = "pop" THEN slot ELSE [slot EXCEPT ![<<task[t].arr, "search">>] = None]
    /\ UNCHANGED <<phase, children, supervised, budget, config, off, groups, uris, saves, exits, faults, history>>

\* The instance leaves the manager, with whatever object holds its category.
\* (Nothing reads the loops of an object the manager does not hold.)
Drop(t) ==
    /\ At(t, "stop") /\ task[t].roles = {}
    /\ LET a == task[t].arr IN
       /\ managed' = [managed EXCEPT ![CatOf[a]] = None]
       /\ slot' = [s \in Slot |-> IF s[1] = a THEN None ELSE slot[s]]
       /\ groups' = groups \ {NameOf[a]} /\ uris' = uris \ {UriOf[a]}
    /\ Go(t, [task[t] EXCEPT !.at = IF task[t].name \in task[t].gone THEN "next" ELSE "build", !.arr = None])
    /\ UNCHANGED <<phase, tracked, pending, recent, dbEvent, shutdown, startup, restarter, main,
                   overlap, budget, config, off, saves, exits, faults, history>>

-----------------------------------------------------------------------------
(* Starting an instance: _start_arr_instance *)

\* A section that is not managed is skipped; a name or URI that is already
\* registered, or a failing constructor, leaves the instance unbuilt.
BuildNothing(t) ==
    /\ At(t, "build")
    /\ LET n == task[t].name IN
       \/ /\ config[n] # None => n \in groups \/ config[n][2] \in uris
          /\ UNCHANGED <<faults, missed>>
       \/ /\ config[n] # None /\ Fail
          /\ missed' = missed \cup JobsOf({n}, config)
    /\ Then(t, "next")
    /\ UNCHANGED <<phase, tracked, slot, supervised, config, off, groups, uris, saves, exits, clash, entangled, budget>>

\* The object is registered, in place of the one its category may have.
Build(t) ==
    /\ At(t, "build")
    /\ LET n == task[t].name IN
       /\ config[n] # None /\ n \notin groups /\ config[n][2] \notin uris
       /\ \E a \in FreeArr :
            /\ FromSection(n, a)
            /\ groups' = groups \cup {n} /\ uris' = uris \cup {UriOf[a]}
            /\ managed' = [managed EXCEPT ![CatOf[a]] = a]
            /\ Go(t, [task[t] EXCEPT !.at = "spawn", !.arr = a])
    /\ UNCHANGED <<phase, tracked, slot, pending, recent, dbEvent, shutdown, startup, restarter,
                   main, overlap, budget, config, off, saves, exits, faults, history>>

\* spawn_child_processes: the new processes are shown and listed.
Spawn(t) ==
    /\ At(t, "spawn")
    /\ \E f \in [RolesOf[task[t].arr] -> Unused] :
         /\ \A r \in DOMAIN f : JobOf[f[r]] = JobOfSlot(task[t].arr, r)
         /\ FillSlots(task[t].arr, f)
         /\ LET new == Image(f, DOMAIN f) IN
            /\ Construct(new, {})
            /\ children' = children \cup new
            /\ Go(t, [task[t] EXCEPT !.at = "run", !.procs = new])
    /\ UNCHANGED <<registry, supervised, budget, config, off, groups, uris, saves, exits, faults, history>>

\* They are started one after the other, a failing start() is only logged ...
Run(t) ==
    /\ At(t, "run")
    /\ \E p \in task[t].procs :
         /\ JobOf[p][2] = "search" \/ \A q \in task[t].procs : JobOf[q][2] # "search"
         /\ \/ /\ phase[p] = "made"
               /\ phase' = [phase EXCEPT ![p] = "alive"]
               /\ Go(t, [task[t] EXCEPT !.at = "note", !.procs = @ \ {p}, !.proc = p])
               /\ UNCHANGED <<faults, missed>>
            \/ /\ IF phase[p] = "made" THEN Fail ELSE UNCHANGED faults
               /\ missed' = missed \cup {JobOf[p]}
               /\ Go(t, [task[t] EXCEPT !.procs = @ \ {p}])
               /\ UNCHANGED phase
    /\ UNCHANGED <<tracked, slot, supervised, config, off, groups, uris, saves, exits, clash, entangled, budget>>

\* ... and each is registered after its start, in the role the object shows it in: one it
\* shows no longer, as a torrent worker.
Note(t) ==
    /\ At(t, "note")
    /\ LET p == task[t].proc  a == task[t].arr
           j == JobOfSlot(a, IF slot[<<a, "search">>] = p THEN "search" ELSE "torrent")
       IN  /\ registry' = [registry EXCEPT ![p] = j]
           /\ clash' = clash \cup ({j} \ {JobOf[p]})
    /\ Go(t, [task[t] EXCEPT !.at = "run", !.proc = None])
    /\ UNCHANGED <<phase, children, slot, supervised, budget, config, off, groups, uris, saves, exits, faults,
                   entangled, missed>>

\* The instance is done: the next one, or the next object of a rebuild.
RunDone(t) ==
    /\ At(t, "run") /\ task[t].procs = {}
    /\ Go(t, [task[t] EXCEPT !.at = IF task[t].full THEN "each" ELSE "next", !.arr = None])
    /\ UNCHANGED <<vars, config, off, groups, uris, saves, exits, faults, history>>

-----------------------------------------------------------------------------
(* Refreshing an instance in place: _apply_arr_live_refresh *)

\* After the reloads, each object to refresh takes its new settings.  (An object
\* whose search_missing has changed is another element of Arr, which replaces it
\* wherever it is referred to.)
Refresh(t) ==
    /\ At(t, "next") /\ task[t].names = {} /\ task[t].live # {}
    /\ LET n == Min(task[t].live)  rest == [task[t] EXCEPT !.live = @ \ {n}, !.name = n] IN
       \/ /\ Named(n) = {} /\ Go(t, rest)
          /\ UNCHANGED <<slot, managed, pending, arrs, retry>>
       \/ \E a \in Named(n), b \in Arr :
            /\ IF config[n] = None \/ Profile(a)[3] = config[n][3] THEN b = a
               ELSE b \in FreeArr /\ NameOf[b] = n /\ Profile(b) = <<CatOf[a], UriOf[a], config[n][3]>>
            /\ LET New(x) == IF x = a THEN b ELSE x
                   Move(S) == {<<New(s[1]), s[2]>> : s \in S}
               IN  /\ managed' = [c \in Category |-> New(managed[c])]
                   /\ pending' = Move(pending) /\ retry' = Move(retry)
                   /\ arrs' = {New(x) : x \in arrs}
                   /\ slot' = [s \in Slot |-> IF s[1] = b THEN slot[<<a, s[2]>>]
                                              ELSE IF s[1] = a THEN None ELSE slot[s]]
            /\ Go(t, [rest EXCEPT !.at = "reconcile", !.arr = b])
    /\ UNCHANGED <<phase, tracked, recent, dbEvent, shutdown, startup, restarter, pc, todo, failed,
                   cur, meta, anyAlive, overlap, budget, config, off, groups, uris, saves, exits, faults, history>>

\* _reconcile_arr_search_worker: a live search worker is kept if it is wanted;
\* otherwise what the object shows is killed, removed and forgotten.
Reconcile(t) ==
    /\ At(t, "reconcile")
    /\ LET a == task[t].arr  p == slot[<<a, "search">>] IN
       IF p # None /\ ~("search" \in RolesOf[a] /\ phase[p] = "alive")
       THEN /\ phase' = [phase EXCEPT ![p] = IF @ = "alive" THEN "crashed" ELSE @]
            /\ Go(t, [task[t] EXCEPT !.at = "remove search", !.proc = p])
       ELSE UNCHANGED phase /\ Then(t, IF p = None THEN "search" ELSE "next")
    /\ UNCHANGED <<tracked, slot, supervised, budget, config, off, groups, uris, saves, exits, faults, history>>

\* Without a process the search loop gets one, if it is wanted: shown, listed,
\* registered, and then started.
MakeSearch(t) ==
    /\ At(t, "search")
    /\ LET a == task[t].arr IN
       IF "search" \in RolesOf[a]
       THEN \E p \in Unused :
              /\ JobOf[p] = JobOfSlot(a, "search")
              /\ slot' = [slot EXCEPT ![<<a, "search">>] = p]
              /\ Construct({p}, {}) /\ Track({p})
              /\ Go(t, [task[t] EXCEPT !.at = "start search", !.proc = p])
       ELSE Then(t, "next") /\ UNCHANGED <<phase, tracked, slot>>
    /\ UNCHANGED <<supervised, budget, config, off, groups, uris, saves, exits, faults, history>>

\* A failing start is undone.
StartSearch(t) ==
    /\ At(t, "start search")
    /\ LET p == task[t].proc IN
       \/ /\ phase[p] = "made"
          /\ phase' = [phase EXCEPT ![p] = "alive"]
          /\ UNCHANGED <<tracked, slot, faults, missed>>
       \/ /\ IF phase[p] = "made" THEN Fail ELSE UNCHANGED faults
          /\ Untrack(p)
          /\ slot' = [slot EXCEPT ![<<task[t].arr, "search">>] = None]
          /\ missed' = missed \cup {JobOf[p]}
          /\ UNCHANGED phase
    /\ Go(t, [task[t] EXCEPT !.at = "next", !.arr = None, !.proc = None])
    /\ UNCHANGED <<supervised, config, off, groups, uris, saves, exits, clash, entangled, budget>>

\* Nothing is left to do.
Done(t) ==
    /\ \/ At(t, "next") /\ task[t].names = {} /\ task[t].live = {}
       \/ At(t, "managers") /\ task[t].qbits = {}
    /\ Go(t, Idle)
    /\ UNCHANGED <<vars, config, off, groups, uris, saves, exits, faults, history>>

-----------------------------------------------------------------------------
(* Rebuilding everything: _reload_all *)

KillAll(t) ==
    /\ At(t, "all")
    /\ KillChildren
    /\ Then(t, "clear")
    /\ UNCHANGED <<tracked, slot, supervised, budget, config, off, groups, uris, saves, exits, faults, history>>

ClearAll(t) ==
    /\ At(t, "clear")
    /\ children' = {} /\ registry' = [p \in Proc |-> None]
    /\ Then(t, "rebuild")
    /\ UNCHANGED <<phase, slot, supervised, budget, config, off, groups, uris, saves, exits, faults, history>>

\* A new ArrManager with an object for every section, built beside the old one; a
\* section whose constructor raises (`bad') is left out.
Rebuild(t) ==
    /\ At(t, "rebuild")
    /\ \E new \in SUBSET FreeArr, bad \in SUBSET {n \in Name : config[n] # None} :
         /\ {NameOf[a] : a \in new} = {n \in Name : config[n] # None} \ bad
         /\ \A a, b \in new : NameOf[a] = NameOf[b] => a = b
         /\ \A a \in new : FromSection(NameOf[a], a)
         /\ IF bad = {} THEN UNCHANGED faults ELSE Fail
         /\ missed' = missed \cup JobsOf(bad, config)
         /\ groups' = {NameOf[a] : a \in new} /\ uris' = {UriOf[a] : a \in new}
         /\ managed' = [c \in Category |->
                          IF \E a \in new : CatOf[a] = c THEN CHOOSE a \in new : CatOf[a] = c ELSE None]
         /\ slot' = [s \in Slot |-> None]
         /\ Go(t, [task[t] EXCEPT !.at = "each", !.arrs = new, !.qbits = Qbit])
    /\ UNCHANGED <<phase, tracked, pending, recent, dbEvent, shutdown, startup, restarter, main,
                   overlap, budget, config, off, saves, exits, clash, entangled>>

\* A category that an Arr and a qBittorrent instance both claim, or another exception,
\* ends the reload: the manager keeps the old objects, whose workers are dead.
RebuildFails(t) ==
    /\ At(t, "rebuild") /\ Fail
    /\ missed' = missed \cup Job
    /\ Go(t, Idle)
    /\ UNCHANGED <<vars, config, off, groups, uris, saves, exits, clash, entangled>>

EachArr(t) ==
    /\ At(t, "each")
    /\ \/ \E a \in task[t].arrs : Go(t, [task[t] EXCEPT !.at = "spawn", !.arr = a, !.arrs = @ \ {a}])
       \/ task[t].arrs = {} /\ Then(t, "managers")
    /\ UNCHANGED <<vars, config, off, groups, uris, saves, exits, faults, history>>

\* _spawn_qbit_category_workers: started, then listed and registered.
RunManager(t) ==
    /\ At(t, "managers")
    /\ \E q \in task[t].qbits :
         \/ /\ \E p \in Unused : /\ JobOf[p] = ManagerJob(q)
                                 /\ Construct({p}, {p})
                                 /\ Go(t, [task[t] EXCEPT !.at = "join", !.qbits = @ \ {q}, !.proc = p])
            /\ UNCHANGED <<faults, missed>>
         \/ /\ Fail
            /\ missed' = missed \cup {ManagerJob(q)}
            /\ Go(t, [task[t] EXCEPT !.qbits = @ \ {q}])
            /\ UNCHANGED phase
    /\ UNCHANGED <<tracked, slot, supervised, config, off, groups, uris, saves, exits, clash, entangled, budget>>

JoinManager(t) ==
    /\ At(t, "join")
    /\ Track({task[t].proc})
    /\ Go(t, [task[t] EXCEPT !.at = "managers", !.proc = None])
    /\ UNCHANGED <<phase, slot, supervised, budget, config, off, groups, uris, saves, exits, faults, history>>

-----------------------------------------------------------------------------
Requests == \E t \in Thread : \/ \E u \in Updates : Save(t, u[2], u[3])
                              \/ \E n \in Name : SaveKey(t, n)
                              \/ SaveAll(t)

Handler(t) ==
    \/ Pick(t) \/ Stop(t) \/ Remove(t) \/ Pop(t) \/ Drop(t)
    \/ BuildNothing(t) \/ Build(t) \/ Spawn(t) \/ Run(t) \/ Note(t) \/ RunDone(t)
    \/ Refresh(t) \/ Reconcile(t) \/ MakeSearch(t) \/ StartSearch(t) \/ Done(t)
    \/ KillAll(t) \/ ClearAll(t) \/ Rebuild(t) \/ RebuildFails(t) \/ EachArr(t) \/ RunManager(t) \/ JoinManager(t)

\* An object that a thread still refers to is not made again.
KeepsInHand == {s \in Slot : slot'[s] # slot[s] /\ slot'[s] \in InHand} = {}

\* The main thread takes on, starts or stops a job while a thread reloads it.
Clashes == {j \in BusyJobs : \/ meta' = j /\ meta # j
                             \/ cur' # cur /\ cur' # None /\ JobOf[cur'] = j
                             \/ \E p \in Proc : JobOf[p] = j /\ p \notin Alive /\ phase'[p] = "alive"
                             \/ \E s \in Slot : JobOfSlot(s[1], s[2]) = j /\ slot'[s] # slot[s]
                             \/ pc' = "checkpoint" /\ pc # "checkpoint"}

\* A retry makes an Arr object show another process than the worker it has, or had, for
\* its other loop.
Hidden == {JobOfSlot(s[1], s[2]) : s \in {s \in Slot \ (retry \ retry') :
             pc = "retry" /\ slot'[s] # slot[s] /\ slot[s] \in Alive' \cup children'}}

\* It shows a process it did not start.
Misses == {JobOfSlot(s[1], s[2]) : s \in {s \in Slot : slot'[s] # slot[s] /\ phase'[slot'[s]] = "made"}}

Beside(A) == /\ A /\ KeepsInHand
             /\ clash' = clash \cup Clashes \cup Hidden /\ missed' = missed \cup Misses
             /\ UNCHANGED <<config, off, groups, uris, task, saves, faults, entangled>>

Supervised ==
    \/ /\ MainLoop \/ Restarter \/ RequestRestart \/ Terminated \/ Interrupted
          \/ (\E p \in Proc : SignalRestart(p)) \/ (\E j \in Job : Forget(j))
       /\ UNCHANGED exits
    \/ /\ shutdown \/ saves + exits < MaxTurns
       /\ \E p \in Proc : WorkerExits(p, IF shutdown THEN "clean" ELSE "crashed")
       /\ exits' = IF shutdown THEN exits ELSE exits + 1

LifeNext == Beside(Supervised) \/ Requests \/ \E t \in Thread : Handler(t)

LifeSpec == LifeInit /\ [][LifeNext]_lifeVars

-----------------------------------------------------------------------------
(* Properties *)

Excused(j) == j \in clash \cup overlap

\* Every live worker is shown by an object the manager holds, so that the next reload
\* can stop it: none of an instance that was reloaded, renamed or removed is left.  Only
\* a reload that met another operation on the job, or a retry for the other loop of the
\* object, may leave one.
NoStrayWorker ==
    \A p \in Alive :
        \/ JobOf[p] \notin ArrJob \/ Excused(JobOf[p])
        \/ \E s \in Slot : slot[s] = p /\ s[1] \in ManagedArrs

\* When no reload is under way, the managed objects are those of the configuration,
\* except for sections that took over settings of another one, for failed starts, and
\* after a save that came while another one was carried out.
FollowsConfig ==
    Busy = {} => \A n \in Name \ entangled :
                    IF config[n] = None THEN Named(n) = {}
                    ELSE \/ JobsOf({n}, config) \cap missed # {}
                         \/ \E a \in Named(n) : Profile(a) = config[n]

\* When no reload is under way, every loop of a managed object shows a process that
\* was started.
EveryLoopStarted ==
    Busy = {} => \A a \in ManagedArrs, r \in Role :
                    r \in RolesOf[a] /\ JobOfSlot(a, r) \notin missed /\ ~Excused(JobOfSlot(a, r))
                    => slot[<<a, r>>] # None /\ phase[slot[<<a, r>>]] # "made"

=============================================================================
