-------------------------- MODULE LifecycleProofs --------------------------
(***************************************************************************)
(* After a reload the manager holds the objects of the configuration       *)
(* (FollowsConfig), for any sections, objects, changes, threads and        *)
(* bounds.  ReloadInv holds of the thread that serves the last request,    *)
(* until another one comes before that is carried out (Overlapping).       *)
(*                                                                         *)
(* At rest this needs that each managed object has its section's settings  *)
(* (Settled) and that each section has such an object (Fulfilled).  While  *)
(* a reload is under way both hold of the sections it does not wait for.   *)
(* That a section it waits for can then be built needs that its category   *)
(* and URI are free, or held by a section that is stopped first (Clear),   *)
(* which is why sections that are gone come first (Work), and that what    *)
(* the manager registers is what its objects have (ManagedInv).            *)
(*                                                                         *)
(* WorkInv is what holds of the processes besides: for a job that a reload *)
(* and the main thread have not met in (Sound), a live worker is listed,   *)
(* and the managed object shows it (NoStrayWorker); a loop that is not     *)
(* about to be made shows a started one (EveryLoopStarted).  MainInv says  *)
(* what the main thread goes by, HeldInv what the reload does, and that    *)
(* neither touches what the other one is about to.                         *)
(***************************************************************************)
EXTENDS Lifecycle, FiniteSetTheorems, WellFoundedInduction, TLAPS

\* The sections that are still to be reloaded, the one in hand included.
Reloading == {"stop", "remove", "pop", "build"}
Waiting(t) == task[t].names \cup (IF task[t].at \in Reloading THEN {task[t].name} ELSE {})
Leaving(t, n) == config[n] = None /\ n \notin off /\ n \in Waiting(t)

\* A start of a section's instance has failed; an object has a section's settings.
Late(n) == \E r \in Role : <<config[n][1], r>> \in missed
Fits(a, n) == CatOf[a] = config[n][1] /\ UriOf[a] = config[n][2]

\* Names and URIs of the managed objects are registered and differ; a registered name
\* without an object was entangled.
ManagedInv ==
    /\ managed \in [Category -> Arr \cup {None}]
    /\ \A c \in Category : managed[c] # None => CatOf[managed[c]] = c
    /\ \A a, b \in ManagedArrs : NameOf[a] = NameOf[b] \/ UriOf[a] = UriOf[b] => a = b
    /\ \A a \in ManagedArrs : NameOf[a] \in groups /\ UriOf[a] \in uris
    /\ \A n \in groups \ entangled : Named(n) # {}

\* Sections share a setting only if that has entangled them.
ConfigInv ==
    /\ config \in Config
    /\ \A m, n \in Name : m # n /\ config[m] # None /\ config[n] # None =>
          /\ config[m][1] = config[n][1] => n \in entangled
          /\ config[m][2] = config[n][2] => m \in entangled \/ n \in entangled

\* What a thread has in hand: sections that are gone are stopped before any is built.
Work(t) ==
    LET u == task[t] IN
    /\ DOMAIN u = DOMAIN Idle
    /\ u.names \subseteq Name
    /\ u.at \in Reloading => u.name \in Name \ u.names
    /\ u.at \in Reloading \ {"build"} => u.arr \in Named(u.name)
    /\ u.at = "build" => Named(u.name) = {} /\ u.name \notin u.gone
    /\ u.at \in Reloading /\ u.name \notin u.gone => u.names \cap u.gone = {}
    /\ u.at \in Reloading \/ u.names # {} => u.gone = {n \in Name : config[n] = None} \ off
    /\ u.at = "idle" => u = Idle
    /\ u.at \in {"all", "clear", "rebuild", "each", "managers", "join"} => u.full
    /\ u.full => u.names = {} /\ u.live = {} /\ u.at \notin Reloading
    /\ u.at \in {"all", "clear", "rebuild"} => config \in Unshared

\* A managed object has the settings of its section, or is to be reloaded.
Settled(t) ==
    \A a \in ManagedArrs : \/ NameOf[a] \in Waiting(t)
                           \/ config[NameOf[a]] # None /\ Fits(a, NameOf[a])

\* A section that is not to be reloaded has its object, but for what is to be refreshed.
Fulfilled(t) ==
    \A n \in Name \ (entangled \cup Waiting(t)) :
        config[n] # None /\ ~Late(n) =>
            \E a \in Named(n) : Fits(a, n) /\ (Profile(a) = config[n] \/ n \in task[t].live)

\* A section to be reloaded finds its settings free, or held by a section that will leave.
Clear(t) ==
    \A n \in Waiting(t) : config[n] # None =>
        /\ \A b \in ManagedArrs : NameOf[b] # n /\ ~Leaving(t, NameOf[b]) =>
              /\ CatOf[b] = config[n][1] => NameOf[b] \in entangled
              /\ n \in entangled \/ Late(n) \/ UriOf[b] # config[n][2]
        /\ n \in entangled \/ Late(n) \/ config[n][2] \notin Lost
        /\ \A m \in Waiting(t) : m # n /\ config[m] # None /\ config[m][2] = config[n][2]
                                 => n \in entangled

\* The other threads have nothing to do.
Others(t) == DOMAIN task = Thread /\ \A u \in Thread \ {t} : task[u] = Idle

\* The invariant while no two requests overlap.
ReloadInv(t) == /\ ManagedInv /\ ConfigInv
                /\ Others(t) /\ Work(t) /\ Settled(t) /\ Fulfilled(t) /\ Clear(t)

-----------------------------------------------------------------------------
(* Facts about the operators *)

\* A set of natural numbers that is not empty has a least one.
LEMMA LeastNumber ==
  ASSUME NEW M \in SUBSET Nat, M # {}
  PROVE  Min(M) \in M
  <1> DEFINE Upto == {0 .. x : x \in M}
  <1>1. Upto \subseteq FiniteSubsetsOf(Nat) /\ Upto # {}
    <2>1. ASSUME NEW x \in M PROVE 0 .. x \subseteq Nat /\ IsFiniteSet(0 .. x)
      BY FS_Interval
    <2> QED
      BY <2>1 DEF FiniteSubsetsOf
  <1>2. PICK U \in Upto : \A V \in Upto : <<V, U>> \notin StrictSubsetOrdering(Nat)
    <2> HIDE DEF Upto
    <2> QED
      BY <1>1, FS_StrictSubsetOrderingWellFounded, WFMin
  <1>3. PICK x \in M : U = 0 .. x
    BY <1>2
  <1>4. ASSUME NEW y \in M, ~(x <= y) PROVE FALSE
    <2>1. 0 .. y \subseteq 0 .. x /\ x \in 0 .. x /\ x \notin 0 .. y
      BY <1>4
    <2>2. <<0 .. y, 0 .. x>> \in StrictSubsetOrdering(Nat)
      BY <2>1 DEF StrictSubsetOrdering
    <2> QED
      BY <1>2, <1>3, <2>2
  <1> QED
    BY <1>4 DEF Min

\* The section to reload next is one of those that are left, and one that is gone while
\* there are such.
LEMMA NextSection ==
  ASSUME NEW N, N \subseteq Name, N # {}, NEW gone
  PROVE  /\ NextName(N, gone) \in N
         /\ N \cap gone # {} => NextName(N, gone) \in gone
  <1> DEFINE M == IF N \cap gone # {} THEN N \cap gone ELSE N
  <1>1. M \subseteq Nat /\ M # {} /\ M \subseteq N
    BY LifecycleAssumption
  <1>2. Min(M) \in M
    BY <1>1, LeastNumber
  <1> QED
    BY <1>1, <1>2 DEF NextName

\* The main loop, the restarter and the workers leave the managed objects alone.
LEMMA SupervisorKeepsManaged ==
  ASSUME Supervised
  PROVE  managed' = managed
  <1>1. ASSUME MainLoop PROVE managed' = managed
    BY <1>1, Zenon DEF MainLoop, Begin, QueueFailed, LoopShutdown, StopAll, Checkpoint, Respawned,
       Look, GiveUp,
       ReapDone, RetryDone, Rest, Cleanup, Exit, SkipStarted, StartOne, StartOneFails, ReapOther,
       ReapDead, ReapCrashed, Restart, Respawn, RespawnFails, RetryOne, RetryFails
  <1>2. ASSUME ~MainLoop PROVE managed' = managed
    BY <1>2 DEF Supervised, Restarter, RestarterSignals, RestarterKills, RestarterExecs, RequestRestart, Terminated, Interrupted,
       SignalRestart, Forget, WorkerExits
  <1> QED
    BY <1>1, <1>2

\* Arr objects have a category, a name and jobs.
LEMMA ArrFacts ==
  /\ \A a \in Arr : CatOf[a] \in Category /\ NameOf[a] \in Name
  /\ None \notin Arr /\ Role # {}
  BY SupervisorAssumption, LifecycleAssumption DEF Category, Role

\* An object is managed exactly where its category is looked up.
LEMMA ManagedFacts ==
  ASSUME ManagedInv
  PROVE  /\ \A a \in ManagedArrs : a \in Arr /\ managed[CatOf[a]] = a
         /\ \A c \in Category : managed[c] # None => managed[c] \in ManagedArrs
         /\ \A n : \A a \in Named(n) : a \in ManagedArrs /\ NameOf[a] = n
         /\ \A a \in ManagedArrs : a \in Named(NameOf[a])
  BY DEF ManagedInv, ManagedArrs, Named

-----------------------------------------------------------------------------
(* Steps that leave the managed objects and the sections to reload alone. *)

\* A failed start can only add to the excuses.
LEMMA QuietStep ==
  ASSUME NEW t \in Thread, ReloadInv(t),
         UNCHANGED <<config, off, groups, uris, managed, entangled>>, missed \subseteq missed',
         Others(t)', Work(t)', task'[t].live = task[t].live, Waiting(t)' = Waiting(t)
  PROVE  ReloadInv(t)'
  <1>2. ManagedInv' /\ ConfigInv'
    BY DEF ReloadInv, ManagedInv, ConfigInv, ManagedArrs, Named
  <1>3. \A n : Late(n) => Late(n)'
    BY DEF Late
  <1>4. Settled(t)'
    BY DEF ReloadInv, Settled, ManagedArrs, Fits
  <1>5. Fulfilled(t)'
    BY <1>3 DEF ReloadInv, Fulfilled, ManagedArrs, Fits, Named
  <1>6. Clear(t)'
    BY <1>3 DEF ReloadInv, Clear, ManagedArrs, Leaving, Lost
  <1> QED
    BY <1>2, <1>4, <1>5, <1>6 DEF ReloadInv

\* The steps of _stop_arr_instance before the object leaves the manager.
Stopping == {"stop", "remove", "pop"}

\* A thread goes on, with the same sections.
Onward(t) ==
    LET u == task[t]  v == task'[t] IN
    /\ DOMAIN v = DOMAIN Idle /\ u.at # "idle"
    /\ v.names = u.names /\ v.live = u.live /\ v.gone = u.gone /\ v.full = u.full
    /\ \/ v.at = u.at
       \/ u.at \in Stopping /\ v.at \in Stopping
       \/ /\ u.at \notin Reloading \cup {"idle"} /\ v.at \notin Reloading \cup {"idle"}
          /\ v.at \in {"clear", "rebuild"} => u.at \in {"all", "clear"}
    /\ v.at = "all" => u.at = "all"
    /\ v.at \in {"each", "managers", "join"} => u.full
    /\ u.at \in Reloading => v.name = u.name /\ v.arr = u.arr

\* Going on with the same sections keeps the invariant.
LEMMA OnwardStep ==
  ASSUME NEW t \in Thread, ReloadInv(t),
         UNCHANGED <<config, off, groups, uris, managed, entangled>>, missed \subseteq missed',
         Others(t)', Onward(t)
  PROVE  ReloadInv(t)'
  <1>1. Work(t)
    BY DEF ReloadInv
  <1>2. \A n : Named(n)' = Named(n)
    BY DEF Named, ManagedArrs
  <1>3. Work(t)'
    BY <1>1, <1>2 DEF Work, Onward, Reloading, Stopping
  <1>4. task'[t].live = task[t].live /\ Waiting(t)' = Waiting(t)
    BY DEF Onward, Waiting, Reloading, Stopping
  <1> QED
    BY <1>3, <1>4, QuietStep

\* The fields of a task.
LEMMA Fields ==
  DOMAIN Idle = {"at", "names", "gone", "live", "full", "name", "arr", "roles", "proc", "procs",
                 "arrs", "qbits", "jobs"}
  BY DEF Idle

\* Steps that stop, make and start processes go on with the same sections.
LEMMA QuietSteps ==
  ASSUME NEW t \in Thread, ReloadInv(t),
         \/ Stop(t) \/ Remove(t) \/ Pop(t) \/ Spawn(t) \/ Run(t) \/ Note(t) \/ RunDone(t)
         \/ Reconcile(t) \/ MakeSearch(t) \/ StartSearch(t) \/ KillAll(t) \/ ClearAll(t)
         \/ EachArr(t) \/ RunManager(t) \/ JoinManager(t)
  PROVE  ReloadInv(t)'
  <1> USE DEF history
  <1>1. Others(t) /\ DOMAIN task[t] = DOMAIN Idle /\ Work(t)
    BY DEF ReloadInv, Work
  <1>2. CASE Stop(t)
    <2>1. /\ UNCHANGED <<config, off, groups, uris, managed, entangled>>
          /\ missed \subseteq missed' /\ Others(t)'
      BY <1>1, <1>2 DEF Stop, Go, At, supervised, Others
    <2>2. Onward(t)
      <3> DEFINE r == IF "search" \in task[t].roles THEN "search" ELSE "torrent"
                 p == slot[<<task[t].arr, r>>]
                 rest == [task[t] EXCEPT !.roles = @ \ {r}]
      <3>1. /\ task[t].at = "stop"
            /\ task'[t] = IF p = None THEN rest ELSE [rest EXCEPT !.at = "remove", !.proc = p]
        BY <1>1, <1>2 DEF Stop, Go, At, Others
      <3>2. /\ DOMAIN task'[t] = DOMAIN Idle /\ task'[t].names = task[t].names
            /\ task'[t].live = task[t].live /\ task'[t].gone = task[t].gone /\ task'[t].full = task[t].full
        BY <1>1, <3>1, Fields
      <3>3. task'[t].at \in {"stop", "remove"} /\ task'[t].name = task[t].name /\ task'[t].arr = task[t].arr
        BY <1>1, <3>1, Fields
      <3> QED
        BY <1>1, <3>1, <3>2, <3>3 DEF Onward, Reloading, Stopping
    <2> QED
      BY <2>1, <2>2, OnwardStep
  <1>3. CASE Remove(t)
    <2>1. /\ UNCHANGED <<config, off, groups, uris, managed, entangled>>
          /\ missed \subseteq missed' /\ Others(t)'
      BY <1>1, <1>3 DEF Remove, Go, Then, At, supervised, Others
    <2>2. Onward(t)
      <3>1. \/ task[t].at = "remove" /\ task'[t] = [task[t] EXCEPT !.at = "pop"]
            \/ task[t].at = "remove search" /\ task'[t] = [task[t] EXCEPT !.at = "pop search"]
        BY <1>1, <1>3 DEF Remove, Go, Then, At, Others
      <3>2. /\ DOMAIN task'[t] = DOMAIN Idle /\ task'[t].names = task[t].names
            /\ task'[t].live = task[t].live /\ task'[t].gone = task[t].gone /\ task'[t].full = task[t].full
        <4>1. \E l : task'[t] = [task[t] EXCEPT !.at = l]
          BY <3>1
        <4> QED
          BY <1>1, <4>1, Fields
      <3>3. \/ task[t].at = "remove" /\ task'[t].at = "pop"
            \/ task[t].at = "remove search" /\ task'[t].at = "pop search"
        BY <1>1, <3>1, Fields
      <3>4. task'[t].name = task[t].name /\ task'[t].arr = task[t].arr
        BY <1>1, <3>1, Fields
      <3> QED
        BY <1>1, <3>1, <3>2, <3>3, <3>4 DEF Onward, Reloading, Stopping
    <2> QED
      BY <2>1, <2>2, OnwardStep
  <1>4. CASE Pop(t)
    <2>1. /\ UNCHANGED <<config, off, groups, uris, managed, entangled>>
          /\ missed \subseteq missed' /\ Others(t)'
      BY <1>1, <1>4 DEF Pop, Go, At, supervised, Others
    <2>2. Onward(t)
      <3>1. \/ task[t].at = "pop" /\ task'[t] = [task[t] EXCEPT !.at = "stop", !.proc = None]
            \/ task[t].at = "pop search" /\ task'[t] = [task[t] EXCEPT !.at = "search", !.proc = None]
        BY <1>1, <1>4 DEF Pop, Go, At, Others
      <3>2. /\ DOMAIN task'[t] = DOMAIN Idle /\ task'[t].names = task[t].names
            /\ task'[t].live = task[t].live /\ task'[t].gone = task[t].gone /\ task'[t].full = task[t].full
        BY <1>1, <3>1, Fields
      <3>3. \/ task[t].at = "pop" /\ task'[t].at = "stop"
            \/ task[t].at = "pop search" /\ task'[t].at = "search"
        BY <1>1, <3>1, Fields
      <3>4. task'[t].name = task[t].name /\ task'[t].arr = task[t].arr
        BY <1>1, <3>1, Fields
      <3> QED
        BY <1>1, <3>1, <3>2, <3>3, <3>4 DEF Onward, Reloading, Stopping
    <2> QED
      BY <2>1, <2>2, OnwardStep
  <1>5. CASE Spawn(t)
    <2>1. /\ UNCHANGED <<config, off, groups, uris, managed, entangled>>
          /\ missed \subseteq missed' /\ Others(t)'
      BY <1>1, <1>5 DEF Spawn, Go, At, supervised, Others
    <2>2. Onward(t)
      <3>1. PICK P : task[t].at = "spawn" /\ task'[t] = [task[t] EXCEPT !.at = "run", !.procs = P]
        BY <1>1, <1>5 DEF Spawn, Go, At, Others
      <3>2. /\ DOMAIN task'[t] = DOMAIN Idle /\ task'[t].names = task[t].names
            /\ task'[t].live = task[t].live /\ task'[t].gone = task[t].gone /\ task'[t].full = task[t].full
        BY <1>1, <3>1, Fields
      <3>3. task'[t].at = "run"
        BY <1>1, <3>1, Fields
      <3> QED
        BY <1>1, <3>1, <3>2, <3>3 DEF Onward, Reloading, Stopping
    <2> QED
      BY <2>1, <2>2, OnwardStep
  <1>6. CASE Run(t)
    <2>1. /\ UNCHANGED <<config, off, groups, uris, managed, entangled>>
          /\ missed \subseteq missed' /\ Others(t)'
      BY <1>1, <1>6 DEF Run, Go, At, supervised, Others
    <2>2. Onward(t)
      <3>1. PICK p : /\ task[t].at = "run"
                     /\ \/ task'[t] = [task[t] EXCEPT !.at = "note", !.procs = @ \ {p}, !.proc = p]
                        \/ task'[t] = [task[t] EXCEPT !.procs = @ \ {p}]
        BY <1>1, <1>6 DEF Run, Go, At, Others
      <3>2. /\ DOMAIN task'[t] = DOMAIN Idle /\ task'[t].names = task[t].names
            /\ task'[t].live = task[t].live /\ task'[t].gone = task[t].gone /\ task'[t].full = task[t].full
        BY <1>1, <3>1, Fields
      <3>3. task'[t].at \in {"run", "note"}
        BY <1>1, <3>1, Fields
      <3> QED
        BY <1>1, <3>1, <3>2, <3>3 DEF Onward, Reloading, Stopping
    <2> QED
      BY <2>1, <2>2, OnwardStep
  <1>7. CASE Note(t)
    <2>1. /\ UNCHANGED <<config, off, groups, uris, managed, entangled>>
          /\ missed \subseteq missed' /\ Others(t)'
      BY <1>1, <1>7 DEF Note, Go, At, supervised, Others
    <2>2. Onward(t)
      <3>1. task[t].at = "note" /\ task'[t] = [task[t] EXCEPT !.at = "run", !.proc = None]
        BY <1>1, <1>7 DEF Note, Go, At, Others
      <3>2. /\ DOMAIN task'[t] = DOMAIN Idle /\ task'[t].names = task[t].names
            /\ task'[t].live = task[t].live /\ task'[t].gone = task[t].gone /\ task'[t].full = task[t].full
        BY <1>1, <3>1, Fields
      <3>3. task'[t].at = "run"
        BY <1>1, <3>1, Fields
      <3> QED
        BY <1>1, <3>1, <3>2, <3>3 DEF Onward, Reloading, Stopping
    <2> QED
      BY <2>1, <2>2, OnwardStep
  <1>8. CASE RunDone(t)
    <2>1. /\ UNCHANGED <<config, off, groups, uris, managed, entangled>>
          /\ missed \subseteq missed' /\ Others(t)'
      BY <1>1, <1>8 DEF RunDone, Go, At, vars, Others
    <2>2. Onward(t)
      <3>1. task[t].at = "run" /\ task'[t] = [task[t] EXCEPT !.at = IF task[t].full THEN "each" ELSE "next", !.arr = None]
        BY <1>1, <1>8 DEF RunDone, Go, At, Others
      <3>2. /\ DOMAIN task'[t] = DOMAIN Idle /\ task'[t].names = task[t].names
            /\ task'[t].live = task[t].live /\ task'[t].gone = task[t].gone /\ task'[t].full = task[t].full
        BY <1>1, <3>1, Fields
      <3>3. task'[t].at = IF task[t].full THEN "each" ELSE "next"
        BY <1>1, <3>1, Fields
      <3> QED
        BY <1>1, <3>1, <3>2, <3>3 DEF Onward, Reloading, Stopping, Work
    <2> QED
      BY <2>1, <2>2, OnwardStep
  <1>9. CASE Reconcile(t)
    <2>1. /\ UNCHANGED <<config, off, groups, uris, managed, entangled>>
          /\ missed \subseteq missed' /\ Others(t)'
      BY <1>1, <1>9 DEF Reconcile, Go, Then, At, supervised, Others
    <2>2. Onward(t)
      <3>1. /\ task[t].at = "reconcile"
            /\ \/ \E p : task'[t] = [task[t] EXCEPT !.at = "remove search", !.proc = p]
               \/ \E l \in {"search", "next"} : task'[t] = [task[t] EXCEPT !.at = l]
        BY <1>1, <1>9 DEF Reconcile, Go, Then, At, Others
      <3>2. /\ DOMAIN task'[t] = DOMAIN Idle /\ task'[t].names = task[t].names
            /\ task'[t].live = task[t].live /\ task'[t].gone = task[t].gone /\ task'[t].full = task[t].full
        BY <1>1, <3>1, Fields
      <3>3. task'[t].at \in {"remove search", "search", "next"}
        BY <1>1, <3>1, Fields
      <3> QED
        BY <1>1, <3>1, <3>2, <3>3 DEF Onward, Reloading, Stopping
    <2> QED
      BY <2>1, <2>2, OnwardStep
  <1>10. CASE MakeSearch(t)
    <2>1. /\ UNCHANGED <<config, off, groups, uris, managed, entangled>>
          /\ missed \subseteq missed' /\ Others(t)'
      BY <1>1, <1>10 DEF MakeSearch, Go, Then, At, supervised, Others
    <2>2. Onward(t)
      <3>1. /\ task[t].at = "search"
            /\ \/ \E p : task'[t] = [task[t] EXCEPT !.at = "start search", !.proc = p]
               \/ task'[t] = [task[t] EXCEPT !.at = "next"]
        BY <1>1, <1>10 DEF MakeSearch, Go, Then, At, Others
      <3>2. /\ DOMAIN task'[t] = DOMAIN Idle /\ task'[t].names = task[t].names
            /\ task'[t].live = task[t].live /\ task'[t].gone = task[t].gone /\ task'[t].full = task[t].full
        BY <1>1, <3>1, Fields
      <3>3. task'[t].at \in {"start search", "next"}
        BY <1>1, <3>1, Fields
      <3> QED
        BY <1>1, <3>1, <3>2, <3>3 DEF Onward, Reloading, Stopping
    <2> QED
      BY <2>1, <2>2, OnwardStep
  <1>11. CASE StartSearch(t)
    <2>1. /\ UNCHANGED <<config, off, groups, uris, managed, entangled>>
          /\ missed \subseteq missed' /\ Others(t)'
      BY <1>1, <1>11 DEF StartSearch, Go, At, supervised, Others
    <2>2. Onward(t)
      <3>1. task[t].at = "start search" /\ task'[t] = [task[t] EXCEPT !.at = "next", !.arr = None, !.proc = None]
        BY <1>1, <1>11 DEF StartSearch, Go, At, Others
      <3>2. /\ DOMAIN task'[t] = DOMAIN Idle /\ task'[t].names = task[t].names
            /\ task'[t].live = task[t].live /\ task'[t].gone = task[t].gone /\ task'[t].full = task[t].full
        BY <1>1, <3>1, Fields
      <3>3. task'[t].at = "next"
        BY <1>1, <3>1, Fields
      <3> QED
        BY <1>1, <3>1, <3>2, <3>3 DEF Onward, Reloading, Stopping
    <2> QED
      BY <2>1, <2>2, OnwardStep
  <1>12. CASE KillAll(t)
    <2>1. /\ UNCHANGED <<config, off, groups, uris, managed, entangled>>
          /\ missed \subseteq missed' /\ Others(t)'
      BY <1>1, <1>12 DEF KillAll, Go, Then, At, supervised, Others
    <2>2. Onward(t)
      <3>1. task[t].at = "all" /\ task'[t] = [task[t] EXCEPT !.at = "clear"]
        BY <1>1, <1>12 DEF KillAll, Go, Then, At, Others
      <3>2. /\ DOMAIN task'[t] = DOMAIN Idle /\ task'[t].names = task[t].names
            /\ task'[t].live = task[t].live /\ task'[t].gone = task[t].gone /\ task'[t].full = task[t].full
        BY <1>1, <3>1, Fields
      <3>3. task'[t].at = "clear"
        BY <1>1, <3>1, Fields
      <3> QED
        BY <1>1, <3>1, <3>2, <3>3 DEF Onward, Reloading, Stopping
    <2> QED
      BY <2>1, <2>2, OnwardStep
  <1>13. CASE ClearAll(t)
    <2>1. /\ UNCHANGED <<config, off, groups, uris, managed, entangled>>
          /\ missed \subseteq missed' /\ Others(t)'
      BY <1>1, <1>13 DEF ClearAll, Go, Then, At, supervised, Others
    <2>2. Onward(t)
      <3>1. task[t].at = "clear" /\ task'[t] = [task[t] EXCEPT !.at = "rebuild"]
        BY <1>1, <1>13 DEF ClearAll, Go, Then, At, Others
      <3>2. /\ DOMAIN task'[t] = DOMAIN Idle /\ task'[t].names = task[t].names
            /\ task'[t].live = task[t].live /\ task'[t].gone = task[t].gone /\ task'[t].full = task[t].full
        BY <1>1, <3>1, Fields
      <3>3. task'[t].at = "rebuild"
        BY <1>1, <3>1, Fields
      <3> QED
        BY <1>1, <3>1, <3>2, <3>3 DEF Onward, Reloading, Stopping
    <2> QED
      BY <2>1, <2>2, OnwardStep
  <1>14. CASE EachArr(t)
    <2>1. /\ UNCHANGED <<config, off, groups, uris, managed, entangled>>
          /\ missed \subseteq missed' /\ Others(t)'
      BY <1>1, <1>14 DEF EachArr, Go, Then, At, vars, Others
    <2>2. Onward(t)
      <3>1. /\ task[t].at = "each"
            /\ \/ \E a : task'[t] = [task[t] EXCEPT !.at = "spawn", !.arr = a, !.arrs = @ \ {a}]
               \/ task'[t] = [task[t] EXCEPT !.at = "managers"]
        BY <1>1, <1>14 DEF EachArr, Go, Then, At, Others
      <3>2. /\ DOMAIN task'[t] = DOMAIN Idle /\ task'[t].names = task[t].names
            /\ task'[t].live = task[t].live /\ task'[t].gone = task[t].gone /\ task'[t].full = task[t].full
        BY <1>1, <3>1, Fields
      <3>3. task'[t].at \in {"spawn", "managers"}
        BY <1>1, <3>1, Fields
      <3> QED
        BY <1>1, <3>1, <3>2, <3>3 DEF Onward, Reloading, Stopping, Work
    <2> QED
      BY <2>1, <2>2, OnwardStep
  <1>15. CASE RunManager(t)
    <2>1. /\ UNCHANGED <<config, off, groups, uris, managed, entangled>>
          /\ missed \subseteq missed' /\ Others(t)'
      BY <1>1, <1>15 DEF RunManager, Go, At, supervised, Others
    <2>2. Onward(t)
      <3>1. /\ task[t].at = "managers"
            /\ \E q : \/ \E p : task'[t] = [task[t] EXCEPT !.at = "join", !.qbits = @ \ {q}, !.proc = p]
                      \/ task'[t] = [task[t] EXCEPT !.qbits = @ \ {q}]
        <4>1. /\ task[t].at = "managers"
              /\ \E q : \/ \E p : Go(t, [task[t] EXCEPT !.at = "join", !.qbits = @ \ {q}, !.proc = p])
                        \/ Go(t, [task[t] EXCEPT !.qbits = @ \ {q}])
          BY <1>15, Zenon DEF RunManager, At
        <4>2. PICK q, p : \/ Go(t, [task[t] EXCEPT !.at = "join", !.qbits = @ \ {q}, !.proc = p])
                         \/ Go(t, [task[t] EXCEPT !.qbits = @ \ {q}])
          BY <4>1
        <4>3. \/ task'[t] = [task[t] EXCEPT !.at = "join", !.qbits = @ \ {q}, !.proc = p]
              \/ task'[t] = [task[t] EXCEPT !.qbits = @ \ {q}]
          BY <1>1, <4>2 DEF Go, Others
        <4> QED
          BY <4>1, <4>3
      <3>2. /\ DOMAIN task'[t] = DOMAIN Idle /\ task'[t].names = task[t].names
            /\ task'[t].live = task[t].live /\ task'[t].gone = task[t].gone /\ task'[t].full = task[t].full
        BY <1>1, <3>1, Fields
      <3>3. task'[t].at \in {"managers", "join"}
        BY <1>1, <3>1, Fields
      <3> QED
        BY <1>1, <3>1, <3>2, <3>3 DEF Onward, Reloading, Stopping, Work
    <2> QED
      BY <2>1, <2>2, OnwardStep
  <1>16. CASE JoinManager(t)
    <2>1. /\ UNCHANGED <<config, off, groups, uris, managed, entangled>>
          /\ missed \subseteq missed' /\ Others(t)'
      BY <1>1, <1>16 DEF JoinManager, Go, At, supervised, Others
    <2>2. Onward(t)
      <3>1. task[t].at = "join" /\ task'[t] = [task[t] EXCEPT !.at = "managers", !.proc = None]
        BY <1>1, <1>16 DEF JoinManager, Go, At, Others
      <3>2. /\ DOMAIN task'[t] = DOMAIN Idle /\ task'[t].names = task[t].names
            /\ task'[t].live = task[t].live /\ task'[t].gone = task[t].gone /\ task'[t].full = task[t].full
        BY <1>1, <3>1, Fields
      <3>3. task'[t].at = "managers"
        BY <1>1, <3>1, Fields
      <3> QED
        BY <1>1, <3>1, <3>2, <3>3 DEF Onward, Reloading, Stopping, Work
    <2> QED
      BY <2>1, <2>2, OnwardStep
  <1> QED
    BY <1>2, <1>3, <1>4, <1>5, <1>6, <1>7, <1>8, <1>9, <1>10, <1>11,
       <1>12, <1>13, <1>14, <1>15, <1>16

-----------------------------------------------------------------------------
(* Sections that are left as they are. *)

\* A section leaves the sections to reload: it is gone, or may do without an object.
LEMMA SkipStep ==
  ASSUME NEW t \in Thread, ReloadInv(t), NEW n \in Name,
         UNCHANGED <<config, off, groups, uris, managed, entangled>>, missed \subseteq missed',
         Others(t)', Work(t)', task'[t].live = task[t].live,
         Waiting(t)' = Waiting(t) \ {n}, Named(n) = {},
         config[n] = None \/ n \in entangled \/ Late(n)'
  PROVE  ReloadInv(t)'
  <1>2. ManagedInv' /\ ConfigInv'
    BY DEF ReloadInv, ManagedInv, ConfigInv, ManagedArrs, Named
  <1>3. /\ \A m : Late(m) => Late(m)'
        /\ \A b \in ManagedArrs : NameOf[b] # n
    BY DEF Late, Named
  <1>4. Settled(t)'
    BY <1>3 DEF ReloadInv, Settled, ManagedArrs, Fits
  <1>5. Fulfilled(t)'
    BY <1>3 DEF ReloadInv, Fulfilled, ManagedArrs, Fits, Named
  <1>6. Clear(t)'
    BY <1>3 DEF ReloadInv, Clear, ManagedArrs, Leaving, Lost
  <1> QED
    BY <1>2, <1>4, <1>5, <1>6 DEF ReloadInv

\* The next section: those that are gone come first.
LEMMA PickStep ==
  ASSUME NEW t \in Thread, ReloadInv(t), Pick(t)
  PROVE  ReloadInv(t)'
  <1> DEFINE u == task[t]
             n == NextName(u.names, u.gone)
  <1>1. /\ u.at = "next" /\ u.names # {}
        /\ UNCHANGED <<config, off, groups, uris, managed, entangled, missed>>
        /\ Others(t)'
    BY DEF Pick, At, Go, Take, vars, history, ReloadInv, Others
  <1>2. Work(t) /\ Others(t)
    BY DEF ReloadInv
  <1>3. n \in u.names /\ n \in Name /\ (n \notin u.gone => u.names \cap u.gone = {})
    BY <1>1, <1>2, NextSection DEF Work
  <1>4. /\ u.gone = {m \in Name : config[m] = None} \ off /\ DOMAIN u = DOMAIN Idle
        /\ ~u.full /\ u.names \subseteq Name
    BY <1>1, <1>2 DEF Work
  <1>5. \A m : Named(m)' = Named(m)
    BY <1>1 DEF Named, ManagedArrs
  <1>6. CASE \E a \in Named(n) : Take(t, n, a)
    <2>1. PICK a \in Named(n) : task'[t] = [u EXCEPT !.at = "stop", !.names = @ \ {n}, !.name = n,
                                                     !.arr = a, !.roles = Role]
      BY <1>2, <1>6 DEF Take, Go, Others
    <2>2. Work(t)'
      BY <1>1, <1>2, <1>3, <1>5, <2>1, Fields DEF Work, Reloading
    <2>3. task'[t].live = u.live /\ Waiting(t)' = Waiting(t)
      BY <1>1, <1>2, <1>3, <2>1, Fields DEF Waiting, Reloading, Work
    <2> QED
      BY <1>1, <2>2, <2>3, QuietStep
  <1>7. CASE ~\E a \in Named(n) : Take(t, n, a)
    <2>1. /\ Named(n) = {}
          /\ task'[t] = [u EXCEPT !.names = @ \ {n}, !.name = n,
                                  !.at = IF n \in u.gone THEN "next" ELSE "build"]
      BY <1>2, <1>7 DEF Pick, Go, Others
    <2>2. Work(t)'
      BY <1>1, <1>2, <1>3, <1>5, <2>1, Fields DEF Work, Reloading
    <2>3. /\ task'[t].live = u.live
          /\ Waiting(t)' = IF n \in u.gone THEN Waiting(t) \ {n} ELSE Waiting(t)
      BY <1>1, <1>2, <1>3, <2>1, Fields DEF Waiting, Reloading, Work
    <2>4. n \in u.gone => config[n] = None
      BY <1>4
    <2>5. CASE n \in u.gone
      BY <1>1, <1>3, <2>1, <2>2, <2>3, <2>4, <2>5, SkipStep
    <2>6. CASE n \notin u.gone
      BY <1>1, <2>2, <2>3, <2>6, QuietStep
    <2> QED
      BY <2>5, <2>6
  <1> QED
    BY <1>6, <1>7

\* A section whose name or URI is registered is entangled or late already.
LEMMA BuildNothingStep ==
  ASSUME NEW t \in Thread, ReloadInv(t), BuildNothing(t)
  PROVE  ReloadInv(t)'
  <1> DEFINE u == task[t]
  <1> PICK n : n = u.name
    OBVIOUS
  <1>1. /\ u.at = "build" /\ task'[t] = [u EXCEPT !.at = "next"] /\ Others(t)'
        /\ UNCHANGED <<config, off, groups, uris, managed, entangled>>
        /\ missed \subseteq missed'
    BY DEF BuildNothing, At, Then, Go, supervised, ReloadInv, Others
  <1>2. Work(t) /\ Clear(t) /\ ManagedInv
    BY DEF ReloadInv
  <1>3. /\ n \in Name \ u.names /\ n \in Waiting(t) /\ Named(n) = {}
        /\ DOMAIN u = DOMAIN Idle /\ u.names \cap u.gone = {} /\ n \notin u.gone
        /\ u.gone = {m \in Name : config[m] = None} \ off
    BY <1>1, <1>2 DEF Work, Waiting, Reloading
  <1>4. \A b \in ManagedArrs : NameOf[b] # n /\ ~Leaving(t, NameOf[b])
    BY <1>1, <1>2, <1>3, ArrFacts, ManagedFacts DEF Leaving, Waiting, Named, Work
  <1>5. Work(t)'
    BY <1>1, <1>2, <1>3, Fields DEF Work, Reloading, Named, ManagedArrs
  <1>6. task'[t].live = u.live /\ Waiting(t)' = Waiting(t) \ {n}
    BY <1>1, <1>3, Fields DEF Waiting, Reloading
  <1>7. config[n] = None \/ n \in entangled \/ Late(n)'
    <2> SUFFICES ASSUME config[n] # None PROVE n \in entangled \/ Late(n)'
      OBVIOUS
    <2>1. CASE n \in groups
      BY <1>2, <1>3, <2>1 DEF ManagedInv
    <2>2. CASE config[n][2] \in uris
      <3>1. n \in entangled \/ Late(n) \/ config[n][2] \notin Lost
        BY <1>2, <1>3 DEF Clear
      <3>2. config[n][2] \in {UriOf[b] : b \in ManagedArrs} => n \in entangled \/ Late(n)
        BY <1>2, <1>3, <1>4 DEF Clear
      <3>3. Late(n) => Late(n)'
        BY <1>1 DEF Late
      <3> QED
        BY <2>2, <3>1, <3>2, <3>3 DEF Lost
    <2>3. CASE missed' = missed \cup JobsOf({n}, config)
      <3>1. \A r \in Role : <<config[n][1], r>> \in JobsOf({n}, config)
        BY DEF JobsOf
      <3> QED
        BY <1>1, <2>3, <3>1, ArrFacts DEF Late
    <2> QED
      BY <1>3, <2>1, <2>2, <2>3 DEF BuildNothing
  <1> QED
    BY <1>1, <1>3, <1>5, <1>6, <1>7, SkipStep

-----------------------------------------------------------------------------
(* Steps that change the managed objects. *)

\* The object in hand is managed still, so it is the one that leaves.
LEMMA DropStep ==
  ASSUME NEW t \in Thread, ReloadInv(t), Drop(t)
  PROVE  ReloadInv(t)'
  <1> DEFINE u == task[t]
  <1> PICK n, a : n = u.name /\ a = u.arr
    OBVIOUS
  <1>1. /\ u.at = "stop" /\ Others(t)'
        /\ task'[t] = [u EXCEPT !.at = IF n \in u.gone THEN "next" ELSE "build", !.arr = None]
        /\ managed' = [managed EXCEPT ![CatOf[a]] = None]
        /\ groups' = groups \ {NameOf[a]} /\ uris' = uris \ {UriOf[a]}
        /\ UNCHANGED <<config, off, entangled, missed>>
    BY DEF Drop, At, Go, history, ReloadInv, Others
  <1>2. Work(t) /\ Clear(t) /\ Settled(t) /\ Fulfilled(t) /\ ManagedInv /\ ConfigInv
    BY DEF ReloadInv
  <1>3. /\ n \in Name \ u.names /\ n \in Waiting(t) /\ a \in Named(n)
        /\ DOMAIN u = DOMAIN Idle /\ n \notin u.gone => u.names \cap u.gone = {}
        /\ u.gone = {m \in Name : config[m] = None} \ off /\ ~u.full /\ u.names \subseteq Name
    BY <1>1, <1>2 DEF Work, Waiting, Reloading
  <1>4. a \in ManagedArrs /\ a \in Arr /\ NameOf[a] = n /\ CatOf[a] \in Category
    BY <1>2, <1>3, ManagedFacts, ArrFacts
  <1>5. ManagedArrs' = ManagedArrs \ {a}
    <2>1. \A c \in Category : managed'[c] = IF c = CatOf[a] THEN None ELSE managed[c]
      BY <1>1, <1>2 DEF ManagedInv
    <2>2. \A c \in Category : managed[c] = a => c = CatOf[a]
      BY <1>2, <1>4, ArrFacts DEF ManagedInv
    <2>3. managed[CatOf[a]] = a
      BY <1>2, <1>4, ManagedFacts
    <2> QED
      BY <1>4, <2>1, <2>2, <2>3, ArrFacts DEF ManagedArrs
  <1>6. /\ Named(n)' = {}
        /\ \A m : m # n => Named(m)' = Named(m)
    BY <1>2, <1>4, <1>5 DEF Named, ManagedInv
  <1>7. Waiting(t)' = IF n \in u.gone THEN Waiting(t) \ {n} ELSE Waiting(t)
    BY <1>1, <1>3, Fields DEF Waiting, Reloading
  <1>8. Lost' \subseteq Lost
    BY <1>1, <1>5 DEF Lost
  <1>9. ManagedInv'
    <2>1. /\ managed' \in [Category -> Arr \cup {None}]
          /\ \A c \in Category : managed'[c] # None => CatOf[managed'[c]] = c
      BY <1>1, <1>2 DEF ManagedInv
    <2> QED
      BY <1>1, <1>2, <1>4, <1>5, <1>6, <2>1 DEF ManagedInv
  <1>10. ConfigInv'
    BY <1>1, <1>2 DEF ConfigInv
  <1>11. Work(t)'
    BY <1>1, <1>2, <1>3, <1>6, Fields DEF Work, Reloading
  <1>12. Settled(t)'
    BY <1>1, <1>2, <1>3, <1>4, <1>5, <1>6, <1>7 DEF Settled, Fits, ManagedInv
  <1>13. Fulfilled(t)'
    <2>1. task'[t].live = u.live /\ \A m : Late(m)' = Late(m)
      BY <1>1, <1>3, Fields DEF Late
    <2>2. \A m : config'[m] # None /\ m \notin Waiting(t)' => m \notin Waiting(t) /\ m # n
      BY <1>1, <1>3, <1>7
    <2> QED
      BY <1>1, <1>2, <1>6, <2>1, <2>2 DEF Fulfilled, Fits
  <1>14. Clear(t)'
    <2>1. \A m : Late(m)' = Late(m) /\ (m # n => Leaving(t, m)' = Leaving(t, m))
      BY <1>1, <1>7 DEF Late, Leaving
    <2>2. Waiting(t)' \subseteq Waiting(t) /\ \A b \in ManagedArrs' : b \in ManagedArrs /\ NameOf[b] # n
      BY <1>2, <1>4, <1>5, <1>7 DEF ManagedInv
    <2> QED
      BY <1>1, <1>2, <1>8, <2>1, <2>2 DEF Clear
  <1> QED
    BY <1>1, <1>9, <1>10, <1>11, <1>12, <1>13, <1>14 DEF ReloadInv

\* An object that loses its category was entangled, and the new one takes nobody's URI.
LEMMA BuildStep ==
  ASSUME NEW t \in Thread, ReloadInv(t), Build(t)
  PROVE  ReloadInv(t)'
  <1> DEFINE u == task[t]
  <1> PICK n : n = u.name
    OBVIOUS
  <1>1. PICK a \in FreeArr :
        /\ FromSection(n, a)
        /\ groups' = groups \cup {n} /\ uris' = uris \cup {UriOf[a]}
        /\ managed' = [managed EXCEPT ![CatOf[a]] = a]
        /\ task' = [task EXCEPT ![t] = [u EXCEPT !.at = "spawn", !.arr = a]]
    BY DEF Build, Go, Others
  <1>2. /\ u.at = "build" /\ Others(t)' /\ task'[t] = [u EXCEPT !.at = "spawn", !.arr = a]
        /\ config[n] # None /\ n \notin groups /\ config[n][2] \notin uris
        /\ UNCHANGED <<config, off, entangled, missed>>
    BY <1>1 DEF Build, At, history, ReloadInv, Others
  <1>3. Work(t) /\ Clear(t) /\ Settled(t) /\ Fulfilled(t) /\ ManagedInv /\ ConfigInv
    BY DEF ReloadInv
  <1>4. /\ n \in Name \ u.names /\ n \in Waiting(t) /\ Named(n) = {}
        /\ DOMAIN u = DOMAIN Idle /\ u.names \cap u.gone = {}
        /\ u.gone = {m \in Name : config[m] = None} \ off /\ u.names \subseteq Name
    BY <1>2, <1>3 DEF Work, Waiting, Reloading
  <1>5. /\ a \in Arr \ ManagedArrs /\ CatOf[a] \in Category /\ NameOf[a] = n
        /\ config[n] = Profile(a) /\ CatOf[a] = config[n][1] /\ UriOf[a] = config[n][2]
    BY <1>1, ArrFacts DEF FreeArr, FromSection, Profile
  <1>6. \A b \in ManagedArrs : NameOf[b] # n /\ ~Leaving(t, NameOf[b])
    BY <1>2, <1>3, <1>4, ArrFacts, ManagedFacts DEF Leaving, Waiting, Named, Work
  <1>7. PICK old : old = managed[CatOf[a]]
    OBVIOUS
  <1>8. ManagedArrs' = (ManagedArrs \ {old}) \cup {a}
    <2>1. \A c \in Category : managed'[c] = IF c = CatOf[a] THEN a ELSE managed[c]
      BY <1>1, <1>3 DEF ManagedInv
    <2>2. \A c \in Category : managed[c] = old /\ old # None => c = CatOf[a]
      BY <1>3, <1>5, <1>7 DEF ManagedInv
    <2> QED
      BY <1>5, <1>7, <2>1, <2>2, ArrFacts DEF ManagedArrs
  <1>9. old \in ManagedArrs => NameOf[old] \in entangled
    <2> SUFFICES ASSUME old \in ManagedArrs PROVE NameOf[old] \in entangled
      OBVIOUS
    <2>1. CatOf[old] = config[n][1]
      BY <1>3, <1>5, <1>7, ArrFacts DEF ManagedInv, ManagedArrs
    <2> QED
      BY <1>2, <1>3, <1>4, <1>6, <2>1 DEF Clear
  <1>10. Waiting(t)' = u.names /\ Waiting(t) = u.names \cup {n} /\ task'[t].live = u.live
    BY <1>2, <1>4, Fields DEF Waiting, Reloading
  <1>11. ManagedInv'
    <2>1. /\ managed' \in [Category -> Arr \cup {None}]
          /\ \A c \in Category : managed'[c] # None => CatOf[managed'[c]] = c
      BY <1>1, <1>3, <1>5 DEF ManagedInv
    <2>2. \A b, c \in ManagedArrs' : NameOf[b] = NameOf[c] \/ UriOf[b] = UriOf[c] => b = c
      BY <1>2, <1>3, <1>5, <1>6, <1>8 DEF ManagedInv
    <2>3. \A b \in ManagedArrs' : NameOf[b] \in groups' /\ UriOf[b] \in uris'
      BY <1>1, <1>3, <1>5, <1>8 DEF ManagedInv
    <2>4. \A m \in groups' \ entangled' : Named(m)' # {}
      BY <1>1, <1>2, <1>3, <1>5, <1>8, <1>9 DEF ManagedInv, Named
    <2> QED
      BY <2>1, <2>2, <2>3, <2>4 DEF ManagedInv
  <1>12. ConfigInv'
    BY <1>2, <1>3 DEF ConfigInv
  <1>13. Work(t)'
    BY <1>2, <1>3, <1>4, Fields DEF Work, Reloading
  <1>14. Settled(t)'
    BY <1>2, <1>3, <1>5, <1>6, <1>8, <1>10 DEF Settled, Fits
  <1>15. Fulfilled(t)'
    <2>1. a \in Named(n)' /\ Profile(a) = config'[n] /\ CatOf[a] = config'[n][1] /\ UriOf[a] = config'[n][2]
      BY <1>2, <1>5, <1>8 DEF Named
    <2>2. \A m \in Name \ (entangled \cup {n}) : Named(m)' = Named(m)
      BY <1>3, <1>5, <1>8, <1>9 DEF Named
    <2>3. \A m : Late(m)' = Late(m)
      BY <1>2 DEF Late
    <2> QED
      BY <1>2, <1>3, <1>10, <2>1, <2>2, <2>3 DEF Fulfilled, Fits
  <1>16. Clear(t)'
    <2>1. \A m : Late(m)' = Late(m)
      BY <1>2 DEF Late
    <2>2. \A m : ~Leaving(t, m)' /\ m \in Waiting(t)' => ~Leaving(t, m)
      BY <1>2, <1>4, <1>10 DEF Leaving
    <2> SUFFICES ASSUME NEW m \in Waiting(t)', config'[m] # None
                 PROVE  /\ \A b \in ManagedArrs' : NameOf[b] # m /\ ~Leaving(t, NameOf[b])' =>
                              /\ CatOf[b] = config'[m][1] => NameOf[b] \in entangled'
                              /\ m \in entangled' \/ Late(m)' \/ UriOf[b] # config'[m][2]
                        /\ m \in entangled' \/ Late(m)' \/ config'[m][2] \notin Lost'
                        /\ \A l \in Waiting(t)' : l # m /\ config'[l] # None /\ config'[l][2] = config'[m][2]
                                                  => m \in entangled'
      BY DEF Clear
    <2>3. m \in Waiting(t) /\ m # n /\ m \in Name /\ config[m] # None
      BY <1>2, <1>4, <1>10
    <2>4. /\ CatOf[a] = config[m][1] => n \in entangled
          /\ m \in entangled \/ UriOf[a] # config[m][2]
      BY <1>2, <1>3, <1>4, <1>5, <2>3 DEF ConfigInv, Clear
    <2>5. \A b \in ManagedArrs : NameOf[b] # m =>
             /\ CatOf[b] = config[m][1] => NameOf[b] \in entangled
             /\ m \in entangled \/ Late(m) \/ UriOf[b] # config[m][2]
      BY <1>3, <1>6, <2>3 DEF Clear
    <2>6. m \in entangled \/ Late(m) \/ config[m][2] \notin Lost'
      <3>1. Lost' \subseteq Lost \cup (IF old \in ManagedArrs THEN {UriOf[old]} ELSE {})
        BY <1>1, <1>8 DEF Lost
      <3>2. m \in entangled \/ Late(m) \/ config[m][2] \notin Lost
        BY <1>3, <2>3 DEF Clear
      <3>3. old \in ManagedArrs => m \in entangled \/ Late(m) \/ UriOf[old] # config[m][2]
        BY <1>9, <2>5
      <3> QED
        BY <3>1, <3>2, <3>3
    <2>7. \A l \in Waiting(t)' : l # m /\ config[l] # None /\ config[l][2] = config[m][2] => m \in entangled
      BY <1>3, <1>10, <2>3 DEF Clear
    <2> QED
      BY <1>2, <1>5, <1>8, <2>1, <2>4, <2>5, <2>6, <2>7
  <1> QED
    BY <1>2, <1>11, <1>12, <1>13, <1>14, <1>15, <1>16 DEF ReloadInv

\* A refreshed object is replaced by one with the loops its section asks for.
LEMMA RefreshStep ==
  ASSUME NEW t \in Thread, ReloadInv(t), Refresh(t)
  PROVE  ReloadInv(t)'
  <1> DEFINE u == task[t]
  <1> PICK n : n = Min(u.live)
    OBVIOUS
  <1>1. /\ u.at = "next" /\ u.names = {} /\ Others(t)'
        /\ UNCHANGED <<config, off, groups, uris, entangled, missed>>
    BY DEF Refresh, At, Go, history, ReloadInv, Others
  <1>2. Work(t) /\ Settled(t) /\ Fulfilled(t) /\ ManagedInv /\ ConfigInv /\ DOMAIN u = DOMAIN Idle
    BY DEF ReloadInv, Work
  <1>3. \/ /\ Named(n) = {} /\ managed' = managed
           /\ task' = [task EXCEPT ![t] = [u EXCEPT !.live = @ \ {n}, !.name = n]]
        \/ \E a \in Named(n), b \in Arr :
             /\ IF config[n] = None \/ Profile(a)[3] = config[n][3] THEN b = a
                ELSE /\ b \in FreeArr /\ NameOf[b] = n
                     /\ Profile(b) = <<CatOf[a], UriOf[a], config[n][3]>>
             /\ managed' = [c \in Category |-> IF managed[c] = a THEN b ELSE managed[c]]
             /\ task' = [task EXCEPT ![t] = [[u EXCEPT !.live = @ \ {n}, !.name = n]
                                                  EXCEPT !.at = "reconcile", !.arr = b]]
    <2> DEFINE Replaced(a, b) ==
                 /\ IF config[n] = None \/ Profile(a)[3] = config[n][3] THEN b = a
                    ELSE /\ b \in FreeArr /\ NameOf[b] = n
                         /\ Profile(b) = <<CatOf[a], UriOf[a], config[n][3]>>
                 /\ managed' = [c \in Category |-> IF managed[c] = a THEN b ELSE managed[c]]
                 /\ task' = [task EXCEPT ![t] = [[u EXCEPT !.live = @ \ {n}, !.name = n]
                                                      EXCEPT !.at = "reconcile", !.arr = b]]
    <2>1. CASE Named(n) = {}
      BY <2>1 DEF Refresh, Go, Others
    <2>2. CASE Named(n) # {}
      <3>1. \E a, b : a \in Named(n) /\ b \in Arr /\ Replaced(a, b)
        BY <2>2 DEF Refresh, Go, Others
      <3> QED
        BY <3>1
    <2> QED
      BY <2>1, <2>2
  <1>4. /\ Waiting(t) = {} /\ Waiting(t)' = {} /\ task'[t].live = u.live \ {n}
        /\ task'[t].at \in {"next", "reconcile"} /\ task'[t].names = {}
        /\ task'[t].full = u.full /\ DOMAIN task'[t] = DOMAIN Idle
    <2>1. \/ task'[t] = [u EXCEPT !.live = @ \ {n}, !.name = n]
          \/ \E b : task'[t] = [[u EXCEPT !.live = @ \ {n}, !.name = n] EXCEPT !.at = "reconcile", !.arr = b]
      <3>1. DOMAIN task = Thread
        BY DEF ReloadInv, Others
      <3> DEFINE rest == [u EXCEPT !.live = @ \ {n}, !.name = n]
      <3>2. \/ task' = [task EXCEPT ![t] = rest]
            \/ \E b : task' = [task EXCEPT ![t] = [rest EXCEPT !.at = "reconcile", !.arr = b]]
        BY <1>3, Zenon
      <3>3. \A v : task' = [task EXCEPT ![t] = v] => task'[t] = v
        BY <3>1
      <3> HIDE DEF rest
      <3>4. task'[t] = rest \/ \E b : task'[t] = [rest EXCEPT !.at = "reconcile", !.arr = b]
        BY <3>2, <3>3, Zenon
      <3> QED
        BY <3>4, Zenon DEF rest
    <2>2. /\ task'[t].live = u.live \ {n} /\ task'[t].at \in {"next", "reconcile"}
          /\ task'[t].names = {} /\ task'[t].full = u.full /\ DOMAIN task'[t] = DOMAIN Idle
      <3>1. CASE task'[t] = [u EXCEPT !.live = @ \ {n}, !.name = n]
        BY <1>1, <1>2, <3>1, Fields
      <3>2. ASSUME NEW b, task'[t] = [[u EXCEPT !.live = @ \ {n}, !.name = n] EXCEPT !.at = "reconcile", !.arr = b]
            PROVE  /\ task'[t].live = u.live \ {n} /\ task'[t].at \in {"next", "reconcile"}
                   /\ task'[t].names = {} /\ task'[t].full = u.full /\ DOMAIN task'[t] = DOMAIN Idle
        BY <1>1, <1>2, <3>2, Fields
      <3> QED
        BY <2>1, <3>1, <3>2
    <2> QED
      BY <1>1, <2>2 DEF Waiting, Reloading
  <1>5. Work(t)' /\ Clear(t)' /\ ConfigInv'
    BY <1>1, <1>2, <1>4 DEF Work, Clear, ConfigInv, Reloading
  <1>6. \A m : Late(m)' = Late(m)
    BY <1>1 DEF Late
  <1>7. CASE Named(n) = {} /\ managed' = managed
    <2>1. ManagedInv' /\ Settled(t)'
      BY <1>1, <1>2, <1>4, <1>7 DEF ManagedInv, Settled, ManagedArrs, Named, Fits
    <2>2. Fulfilled(t)'
      BY <1>1, <1>2, <1>4, <1>6, <1>7 DEF Fulfilled, ManagedArrs, Named, Fits
    <2> QED
      BY <1>1, <1>5, <2>1, <2>2 DEF ReloadInv
  <1>8. ASSUME NEW a \in Named(n), NEW b \in Arr,
               IF config[n] = None \/ Profile(a)[3] = config[n][3] THEN b = a
               ELSE /\ b \in FreeArr /\ NameOf[b] = n
                    /\ Profile(b) = <<CatOf[a], UriOf[a], config[n][3]>>,
               managed' = [c \in Category |-> IF managed[c] = a THEN b ELSE managed[c]]
        PROVE  ReloadInv(t)'
    <2>1. a \in ManagedArrs /\ a \in Arr /\ NameOf[a] = n /\ n \in Name /\ CatOf[a] \in Category
      BY <1>2, ManagedFacts, ArrFacts
    <2>2. NameOf[b] = n /\ CatOf[b] = CatOf[a] /\ UriOf[b] = UriOf[a] /\ (b = a \/ b \notin ManagedArrs)
      BY <1>8, <2>1 DEF FreeArr, Profile
    <2>3. config[n] # None /\ Fits(a, n) => Profile(b) = config[n]
      <3>1. config[n] # None => \E x \in Arr : config[n] = Profile(x)
        BY <1>2, <2>1 DEF ConfigInv, Config
      <3> QED
        BY <1>8, <3>1 DEF Profile, Fits
    <2>4. ManagedArrs' = (ManagedArrs \ {a}) \cup {b}
      <3>1. \A c \in Category : managed'[c] = IF managed[c] = a THEN b ELSE managed[c]
        BY <1>8
      <3> QED
        BY <2>1, <3>1, ArrFacts DEF ManagedArrs
    <2>5. ManagedInv'
      <3>1. /\ managed' \in [Category -> Arr \cup {None}]
            /\ \A c \in Category : managed'[c] # None => CatOf[managed'[c]] = c
        BY <1>2, <1>8, <2>1, <2>2, ArrFacts DEF ManagedInv
      <3> QED
        BY <1>1, <1>2, <2>1, <2>2, <2>4, <3>1 DEF ManagedInv, Named
    <2>6. Settled(t)'
      BY <1>1, <1>2, <1>4, <2>1, <2>2, <2>4 DEF Settled, Fits
    <2>7. Fulfilled(t)'
      <3> SUFFICES ASSUME NEW m \in Name \ (entangled' \cup Waiting(t)'), config'[m] # None, ~Late(m)'
                   PROVE  \E x \in Named(m)' : Fits(x, m)' /\ (Profile(x) = config'[m] \/ m \in task'[t].live)
        BY DEF Fulfilled
      <3>1. PICK x \in Named(m) : Fits(x, m) /\ (Profile(x) = config[m] \/ m \in u.live)
        BY <1>1, <1>2, <1>4, <1>6 DEF Fulfilled
      <3>2. CASE m = n
        <4>1. x = a
          BY <1>2, <2>1, <3>1, <3>2 DEF ManagedInv, Named
        <4> QED
          BY <1>1, <2>2, <2>3, <2>4, <3>1, <3>2, <4>1 DEF Fits, Named
      <3>3. CASE m # n
        BY <1>1, <1>4, <2>1, <2>4, <3>1, <3>3 DEF Fits, Named
      <3> QED
        BY <3>2, <3>3
    <2> QED
      BY <1>1, <1>5, <2>5, <2>6, <2>7 DEF ReloadInv
  <1> QED
    BY <1>3, <1>7, <1>8

\* A thread is done, or a refresh ends.
LEMMA DoneStep ==
  ASSUME NEW t \in Thread, ReloadInv(t), Done(t)
  PROVE  ReloadInv(t)'
  <1>1. /\ UNCHANGED <<config, off, groups, uris, managed, entangled, missed>>
        /\ Others(t)' /\ task'[t] = Idle
        /\ task[t].at \in {"next", "managers"}
        /\ task[t].at = "next" => task[t].names = {} /\ task[t].live = {}
    BY DEF Done, At, Go, vars, history, ReloadInv, Others
  <1>2. Work(t)
    BY DEF ReloadInv
  <1>3. Idle.at = "idle" /\ Idle.names = {} /\ Idle.live = {} /\ ~Idle.full
    BY DEF Idle
  <1>4. task[t].names = {} /\ task[t].live = {}
    BY <1>1, <1>2 DEF Work
  <1>5. Work(t)'
    BY <1>1, <1>3 DEF Work, Reloading
  <1>6. task'[t].live = task[t].live /\ Waiting(t)' = Waiting(t)
    BY <1>1, <1>3, <1>4 DEF Waiting, Reloading
  <1> QED
    BY <1>1, <1>5, <1>6, QuietStep

\* A new manager has an object for every section.
LEMMA RebuildStep ==
  ASSUME NEW t \in Thread, ReloadInv(t), Rebuild(t)
  PROVE  ReloadInv(t)'
  <1> DEFINE u == task[t]
  <1>1. PICK new \in SUBSET FreeArr, bad \in SUBSET {n \in Name : config[n] # None} :
         /\ {NameOf[a] : a \in new} = {n \in Name : config[n] # None} \ bad
         /\ missed' = missed \cup JobsOf(bad, config)
         /\ \A a, b \in new : NameOf[a] = NameOf[b] => a = b
         /\ \A a \in new : FromSection(NameOf[a], a)
         /\ groups' = {NameOf[a] : a \in new} /\ uris' = {UriOf[a] : a \in new}
         /\ managed' = [c \in Category |->
                          IF \E a \in new : CatOf[a] = c THEN CHOOSE a \in new : CatOf[a] = c ELSE None]
         /\ task' = [task EXCEPT ![t] = [u EXCEPT !.at = "each", !.arrs = new, !.qbits = Qbit]]
    BY DEF Rebuild, Go, Others
  <1>2. /\ u.at = "rebuild" /\ Others(t)'
        /\ task'[t] = [u EXCEPT !.at = "each", !.arrs = new, !.qbits = Qbit]
        /\ UNCHANGED <<config, off, entangled>>
    BY <1>1 DEF Rebuild, At, ReloadInv, Others
  <1>3. Work(t) /\ ConfigInv /\ DOMAIN u = DOMAIN Idle
    BY DEF ReloadInv, Work
  <1>4. /\ u.names = {} /\ u.live = {} /\ u.full /\ config \in Unshared
    BY <1>2, <1>3 DEF Work
  <1>5. /\ task'[t].names = {} /\ task'[t].live = {} /\ task'[t].full /\ task'[t].at = "each"
        /\ DOMAIN task'[t] = DOMAIN Idle /\ Waiting(t)' = {}
    BY <1>2, <1>3, <1>4, Fields DEF Waiting, Reloading
  <1>6. Work(t)' /\ Clear(t)' /\ ConfigInv'
    BY <1>2, <1>3, <1>5 DEF Work, Clear, ConfigInv, Reloading
  <1>7. \A a \in new : /\ a \in Arr /\ NameOf[a] \in Name /\ CatOf[a] \in Category
                       /\ config[NameOf[a]] # None /\ config[NameOf[a]] = Profile(a)
                       /\ CatOf[a] = config[NameOf[a]][1] /\ UriOf[a] = config[NameOf[a]][2]
    <2>1. \A a \in new : NameOf[a] \in {n \in Name : config[n] # None} \ bad
      BY <1>1
    <2> QED
      <3>1. \A a \in new : a \in Arr /\ NameOf[a] \in Name /\ CatOf[a] \in Category
        BY ArrFacts DEF FreeArr
      <3>2. \A a \in new : config[NameOf[a]] = Profile(a)
        BY <1>1 DEF FromSection
      <3> QED
        BY <2>1, <3>1, <3>2 DEF Profile
  <1>8. \A a, b \in new : CatOf[a] = CatOf[b] \/ UriOf[a] = UriOf[b] => a = b
    <2> SUFFICES ASSUME NEW a \in new, NEW b \in new, a # b
                 PROVE  CatOf[a] # CatOf[b] /\ UriOf[a] # UriOf[b]
      OBVIOUS
    <2>1. NameOf[a] # NameOf[b]
      BY <1>1
    <2> QED
      BY <1>4, <1>7, <2>1 DEF Unshared
  <1>9. \A c \in Category : \/ managed'[c] = None /\ \A a \in new : CatOf[a] # c
                            \/ managed'[c] \in new /\ CatOf[managed'[c]] = c
    BY <1>1
  <1>10. ManagedArrs' = new
    BY <1>7, <1>8, <1>9, ArrFacts DEF ManagedArrs
  <1>11. ManagedInv'
    <2>1. managed' \in [Category -> Arr \cup {None}]
      BY <1>1, <1>7, <1>9
    <2> QED
      BY <1>1, <1>8, <1>9, <1>10, <2>1 DEF ManagedInv, Named
  <1>12. Settled(t)'
    BY <1>2, <1>7, <1>10 DEF Settled, Fits
  <1>13. \A n \in bad : Late(n)'
    <2>1. \A n \in bad, r \in Role : <<config[n][1], r>> \in JobsOf(bad, config)
      BY DEF JobsOf
    <2> QED
      BY <1>1, <1>2, <2>1, ArrFacts DEF Late
  <1>14. Fulfilled(t)'
    BY <1>1, <1>2, <1>7, <1>10, <1>13 DEF Fulfilled, Fits, Named
  <1> QED
    BY <1>2, <1>6, <1>11, <1>12, <1>14 DEF ReloadInv

\* One that fails leaves the old objects where they are.
LEMMA RebuildFailsStep ==
  ASSUME NEW t \in Thread, ReloadInv(t), RebuildFails(t)
  PROVE  ReloadInv(t)'
  <1> DEFINE u == task[t]
  <1>1. /\ u.at = "rebuild" /\ task'[t] = Idle /\ Others(t)' /\ Job \subseteq missed'
        /\ UNCHANGED <<config, off, groups, uris, managed, entangled>>
    BY DEF RebuildFails, At, Go, vars, ReloadInv, Others
  <1>2. Work(t) /\ ManagedInv /\ ConfigInv /\ Settled(t)
    BY DEF ReloadInv
  <1>3. /\ u.names = {} /\ u.live = {}
    BY <1>1, <1>2 DEF Work
  <1>4. Idle.at = "idle" /\ Idle.names = {} /\ Idle.live = {} /\ ~Idle.full
    BY DEF Idle
  <1>5. Waiting(t) = {} /\ Waiting(t)' = {}
    BY <1>1, <1>3, <1>4 DEF Waiting, Reloading
  <1>6. Work(t)' /\ Clear(t)'
    BY <1>1, <1>4, <1>5 DEF Work, Clear, Reloading
  <1>7. ManagedInv' /\ ConfigInv' /\ Settled(t)'
    BY <1>1, <1>2, <1>5 DEF ManagedInv, ConfigInv, Settled, ManagedArrs, Named, Fits
  <1>8. Fulfilled(t)'
    <2>1. \A n \in Name : config[n] # None => Late(n)'
      <3> SUFFICES ASSUME NEW n \in Name, config[n] # None PROVE Late(n)'
        OBVIOUS
      <3>1. PICK a \in Arr : config[n] = Profile(a)
        BY <1>2 DEF ConfigInv, Config
      <3>2. \A r \in Role : <<config[n][1], r>> \in Job
        BY <3>1 DEF Job, ArrJob, JobOfSlot, Profile
      <3> QED
        BY <1>1, <3>2, ArrFacts DEF Late
    <2> QED
      BY <1>1, <2>1 DEF Fulfilled
  <1> QED
    BY <1>1, <1>6, <1>7, <1>8 DEF ReloadInv

-----------------------------------------------------------------------------
(* The requests. *)

\* Without a request there is nothing to reload.
LEMMA AtRest ==
  ASSUME NEW t \in Thread, ReloadInv(t), task[t].at = "idle"
  PROVE  Waiting(t) = {} /\ task[t].live = {} /\ Busy = {}
  <1>1. Idle.at = "idle" /\ Idle.names = {} /\ Idle.live = {}
    BY DEF Idle
  <1>2. \A u \in Thread : task[u] = Idle
    BY DEF ReloadInv, Work, Others
  <1> QED
    BY <1>1, <1>2 DEF Waiting, Reloading, Busy

\* The plan of a save is clear: what it takes over from others is entangled by it.
LEMMA SaveStep ==
  ASSUME NEW t \in Thread, ReloadInv(t), NEW d, NEW o, Save(t, d, o)
  PROVE  ReloadInv(t)'
  <1> DEFINE Rekeyed(n) == /\ config[n] # d[n]
                           /\ \/ None \in {config[n], d[n]}
                              \/ config[n][1] # d[n][1] \/ config[n][2] # d[n][2]
             Toggled(n) == config[n] # d[n] /\ d[n] # None /\ IF config[n] = None THEN n \notin off
                                                               ELSE config[n][3] # d[n][3]
             gone == {n \in Name : d[n] = None} \ o
  <1>1. /\ <<config, d, o>> \in Updates /\ config' = d /\ off' = o
        /\ entangled' = entangled \cup Entangles(config, d, gone)
                          \cup {n \in {n \in Name : config[n] # d[n]} : d[n] # None /\ d[n][2] \in Lost}
    <2>1. task[t].at = "idle"
      BY DEF Save, Accept, At
    <2> QED
      BY <2>1, AtRest DEF Save, Accept
  <1>2. /\ task[t].at = "idle" /\ Others(t)'
        /\ UNCHANGED <<managed, groups, uris, missed>>
    BY DEF Save, Accept, At, Go, vars, ReloadInv, Others
  <1>3. PICK jobs : task'[t] = [Idle EXCEPT !.at = "next",
                         !.names = {n \in {n \in Name : config[n] # d[n]} :
                                      \/ None \in {config[n], d[n]}
                                      \/ config[n][1] # d[n][1] \/ config[n][2] # d[n][2]},
                         !.gone = gone,
                         !.live = {n \in {n \in Name : config[n] # d[n]} :
                                     d[n] # None /\ IF config[n] = None THEN n \notin off
                                                    ELSE config[n][3] # d[n][3]},
                         !.jobs = jobs]
    BY DEF Save, Accept, Go, ReloadInv, Others
  <1>4. /\ ManagedInv /\ ConfigInv /\ Settled(t) /\ Fulfilled(t) /\ Waiting(t) = {}
        /\ task[t].live = {}
    BY <1>2, AtRest DEF ReloadInv
  <1>5. /\ task'[t].at = "next" /\ DOMAIN task'[t] = DOMAIN Idle /\ ~task'[t].full
        /\ task'[t].names = {n \in Name : Rekeyed(n)}
        /\ task'[t].live = {n \in Name : Toggled(n)}
        /\ task'[t].gone = gone
    BY <1>3 DEF Idle
  <1> HIDE DEF Rekeyed, Toggled
  <1>6. Waiting(t)' = {n \in Name : Rekeyed(n)}
    BY <1>5 DEF Waiting, Reloading
  <1>7. d \in Config
    BY <1>1, LifecycleAssumption
  <1>8. Work(t)'
    BY <1>1, <1>5 DEF Work, Reloading
  <1>9. \A m, n \in Name : m # n /\ d[m] # None /\ d[m] # config[m] =>
          /\ \/ d[n] # None /\ d[m][1] = d[n][1]
             \/ config[n] # None /\ n \notin gone /\ d[m][1] = config[n][1]
             => m \in entangled' /\ n \in entangled'
          /\ \/ d[n] # None /\ d[m][2] = d[n][2]
             \/ config[n] # None /\ n \notin gone /\ d[m][2] = config[n][2]
             => m \in entangled'
    <2>1. \A m, n \in Name : /\ TakesOver(m, n, 1, config, d, gone) => {m, n} \subseteq entangled'
                             /\ TakesOver(m, n, 2, config, d, gone) => m \in entangled'
      BY <1>1 DEF Entangles
    <2> HIDE DEF gone
    <2> QED
      BY <2>1 DEF TakesOver
  <1>10. \A n \in Name : d[n] # None /\ d[n] # config[n] => n \in entangled' \/ d[n][2] \notin Lost
    BY <1>1
  <1>11. entangled \subseteq entangled'
    BY <1>1
  <1>12. ManagedInv'
    BY <1>2, <1>4, <1>11 DEF ManagedInv, ManagedArrs, Named
  <1>13. ConfigInv'
    <2> SUFFICES ASSUME NEW m \in Name, NEW n \in Name, m # n, d[m] # None, d[n] # None
                 PROVE  /\ d[m][1] = d[n][1] => n \in entangled'
                        /\ d[m][2] = d[n][2] => m \in entangled' \/ n \in entangled'
      BY <1>1, <1>7 DEF ConfigInv
    <2>1. CASE d[m] # config[m] \/ d[n] # config[n]
      BY <1>9, <2>1
    <2>2. CASE d[m] = config[m] /\ d[n] = config[n]
      BY <1>4, <1>11, <2>2 DEF ConfigInv
    <2> QED
      BY <2>1, <2>2
  <1>14. \A a \in ManagedArrs : /\ NameOf[a] \in Name /\ config[NameOf[a]] # None
                                /\ Fits(a, NameOf[a])
    BY <1>4, ArrFacts, ManagedFacts DEF Settled
  <1>15. \A n \in Name : /\ ~Rekeyed(n) => \/ config[n] = d[n]
                                           \/ /\ config[n] # None /\ d[n] # None
                                              /\ config[n][1] = d[n][1] /\ config[n][2] = d[n][2]
                         /\ Rekeyed(n) => config[n] # d[n]
                         /\ config[n] # None /\ d[n] = None => Rekeyed(n)
                         /\ ~Rekeyed(n) /\ ~Toggled(n) => config[n] = d[n]
    <2> TAKE n \in Name
    <2>1. \A c \in Config : c[n] # None => \E x \in Arr : c[n] = Profile(x)
      BY DEF Config
    <2>2. config[n] # None /\ d[n] # None /\ config[n][1] = d[n][1] /\ config[n][2] = d[n][2]
            /\ config[n][3] = d[n][3] => config[n] = d[n]
      BY <1>4, <1>7, <2>1 DEF ConfigInv, Profile
    <2> QED
      BY <2>2 DEF Rekeyed, Toggled
  <1>16. Settled(t)'
    BY <1>1, <1>2, <1>6, <1>14, <1>15 DEF Settled, Fits, ManagedArrs
  <1>17. Fulfilled(t)'
    <2> SUFFICES ASSUME NEW n \in Name \ (entangled' \cup Waiting(t)'), d[n] # None, ~Late(n)'
                 PROVE  \E a \in Named(n)' : Fits(a, n)' /\ (Profile(a) = d[n] \/ n \in task'[t].live)
      BY <1>1 DEF Fulfilled
    <2>1. /\ ~Rekeyed(n) /\ config[n] # None
          /\ config[n][1] = d[n][1] /\ config[n][2] = d[n][2]
          /\ config[n] = d[n] \/ n \in task'[t].live
      BY <1>5, <1>6, <1>15
    <2>2. ~Late(n)
      BY <1>1, <1>2, <2>1 DEF Late
    <2>3. PICK a \in Named(n) : Fits(a, n) /\ Profile(a) = config[n]
      BY <1>4, <1>11, <2>1, <2>2 DEF Fulfilled
    <2> QED
      BY <1>1, <1>2, <2>1, <2>3 DEF Fits, Named, ManagedArrs
  <1>18. Clear(t)'
    <2>1. \A n \in Waiting(t)' : n \in Name /\ config[n] # d[n]
      BY <1>6, <1>15
    <2>2. \A b \in ManagedArrs : /\ NameOf[b] \in gone => NameOf[b] \in Waiting(t)'
                                 /\ NameOf[b] \in Name /\ config[NameOf[b]] # None
                                 /\ CatOf[b] = config[NameOf[b]][1] /\ UriOf[b] = config[NameOf[b]][2]
      BY <1>6, <1>14, <1>15 DEF Fits
    <2>3. ManagedArrs' = ManagedArrs /\ Lost' = Lost
      BY <1>2 DEF ManagedArrs, Lost
    <2>4. \A b \in ManagedArrs : ~Leaving(t, NameOf[b])' => NameOf[b] \notin gone
      BY <1>1, <2>2 DEF Leaving
    <2> SUFFICES ASSUME NEW n \in Waiting(t)', d[n] # None
                 PROVE  /\ \A b \in ManagedArrs : NameOf[b] # n /\ NameOf[b] \notin gone =>
                              /\ CatOf[b] = d[n][1] => NameOf[b] \in entangled'
                              /\ n \in entangled' \/ UriOf[b] # d[n][2]
                        /\ n \in entangled' \/ d[n][2] \notin Lost
                        /\ \A m \in Waiting(t)' : m # n /\ d[m] # None /\ d[m][2] = d[n][2]
                                                  => n \in entangled'
      BY <1>1, <2>3, <2>4 DEF Clear
    <2>5. \A b \in ManagedArrs : NameOf[b] # n /\ NameOf[b] \notin gone =>
                              /\ CatOf[b] = d[n][1] => NameOf[b] \in entangled'
                              /\ n \in entangled' \/ UriOf[b] # d[n][2]
      BY <1>9, <2>1, <2>2
    <2>6. n \in entangled' \/ d[n][2] \notin Lost
      BY <1>10, <2>1
    <2>7. \A m \in Waiting(t)' : m # n /\ d[m] # None /\ d[m][2] = d[n][2] => n \in entangled'
      BY <1>9, <2>1
    <2> QED
      BY <2>5, <2>6, <2>7
  <1> QED
    BY <1>2, <1>8, <1>12, <1>13, <1>16, <1>17, <1>18 DEF ReloadInv

\* A section that is reloaded with its own settings has them already.
LEMMA SaveKeyStep ==
  ASSUME NEW t \in Thread, ReloadInv(t), NEW n \in Name, SaveKey(t, n)
  PROVE  ReloadInv(t)'
  <1>1. /\ config[n] # None /\ task[t].at = "idle" /\ Others(t)'
        /\ UNCHANGED <<config, off, entangled, managed, groups, uris, missed>>
    <2>1. config[n] # None /\ task[t].at = "idle" /\ Others(t)'
      BY DEF SaveKey, Accept, At, Go, ReloadInv, Others
    <2> QED
      BY <2>1, AtRest DEF SaveKey, Accept, vars
  <1>2. PICK jobs : task'[t] = [Idle EXCEPT !.at = "next", !.names = {n},
                                !.gone = {m \in Name : config[m] = None} \ off, !.jobs = jobs]
    BY DEF SaveKey, Accept, Go, ReloadInv, Others
  <1>3. /\ ManagedInv /\ ConfigInv /\ Settled(t) /\ Fulfilled(t) /\ Waiting(t) = {}
        /\ task[t].live = {}
    BY <1>1, AtRest DEF ReloadInv
  <1>4. /\ task'[t].at = "next" /\ DOMAIN task'[t] = DOMAIN Idle /\ ~task'[t].full
        /\ task'[t].names = {n} /\ task'[t].live = {}
        /\ task'[t].gone = {m \in Name : config[m] = None} \ off
    BY <1>2 DEF Idle
  <1>5. Waiting(t)' = {n}
    BY <1>4 DEF Waiting, Reloading
  <1>6. Work(t)'
    BY <1>1, <1>4 DEF Work, Reloading
  <1>7. ManagedInv' /\ ConfigInv' /\ Settled(t)'
    BY <1>1, <1>3 DEF ManagedInv, ConfigInv, Settled, ManagedArrs, Named, Fits
  <1>8. \A m : Late(m)' = Late(m)
    BY <1>1 DEF Late
  <1>9. Fulfilled(t)'
    BY <1>1, <1>3, <1>8 DEF Fulfilled, ManagedArrs, Named, Fits
  <1>10. Clear(t)'
    <2>1. ManagedArrs' = ManagedArrs /\ Lost' = Lost
      BY <1>1 DEF ManagedArrs, Lost
    <2>2. \A b \in ManagedArrs : NameOf[b] \in Name /\ config[NameOf[b]] # None /\ Fits(b, NameOf[b])
      BY <1>3, ArrFacts, ManagedFacts DEF Settled
    <2>3. n \notin entangled /\ ~Late(n) => \E a \in ManagedArrs : NameOf[a] = n /\ UriOf[a] = config[n][2]
      BY <1>1, <1>3 DEF Fulfilled, Named, Fits
    <2>4. \A b \in ManagedArrs : NameOf[b] # n =>
                              /\ CatOf[b] = config[n][1] => NameOf[b] \in entangled
                              /\ n \in entangled \/ Late(n) \/ UriOf[b] # config[n][2]
      BY <1>1, <1>3, <2>2, <2>3 DEF ConfigInv, ManagedInv, Fits
    <2>5. n \in entangled \/ Late(n) \/ config[n][2] \notin Lost
      BY <2>3 DEF Lost
    <2> QED
      BY <1>1, <1>5, <1>8, <2>1, <2>4, <2>5 DEF Clear
  <1> QED
    BY <1>1, <1>6, <1>7, <1>9, <1>10 DEF ReloadInv

\* A rebuild of everything has no section to reload.
LEMMA SaveAllStep ==
  ASSUME NEW t \in Thread, ReloadInv(t), SaveAll(t)
  PROVE  ReloadInv(t)'
  <1>1. /\ config \in Rebuilds /\ task[t].at = "idle" /\ Others(t)'
        /\ UNCHANGED <<config, off, entangled, managed, groups, uris, missed>>
        /\ task'[t] = [Idle EXCEPT !.at = "all", !.full = TRUE, !.jobs = Job]
    <2>1. /\ config \in Rebuilds /\ task[t].at = "idle" /\ Others(t)'
          /\ task'[t] = [Idle EXCEPT !.at = "all", !.full = TRUE, !.jobs = Job]
      BY DEF SaveAll, Accept, At, Go, ReloadInv, Others
    <2> QED
      BY <2>1, AtRest DEF SaveAll, Accept, vars
  <1>2. /\ task'[t].at = "all" /\ task'[t].full /\ DOMAIN task'[t] = DOMAIN Idle
        /\ task'[t].names = {} /\ task'[t].live = {}
    BY <1>1 DEF Idle
  <1>3. Work(t)'
    BY <1>1, <1>2, LifecycleAssumption DEF Work, Reloading
  <1>4. task'[t].live = task[t].live /\ Waiting(t)' = Waiting(t)
    BY <1>1, <1>2, AtRest DEF Waiting, Reloading
  <1> QED
    BY <1>1, <1>3, <1>4, QuietStep

-----------------------------------------------------------------------------
(* The invariant. *)

\* The program starts with an object for every section, and without a request.
LEMMA ReloadInit ==
  ASSUME LifeInit, NEW t \in Thread
  PROVE  ReloadInv(t)
  <1>1. PICK obj \in [{n \in Name : config[n] # None} -> Arr] :
         /\ \A n \in DOMAIN obj : FromSection(n, obj[n])
         /\ managed = [c \in Category |-> IF \E n \in DOMAIN obj : config[n][1] = c
                                         THEN obj[CHOOSE n \in DOMAIN obj : config[n][1] = c] ELSE None]
    BY DEF LifeInit
  <1>2. /\ config \in Unshared /\ config \in Config
        /\ groups = {n \in Name : config[n] # None} /\ uris = {config[n][2] : n \in groups}
        /\ task = [u \in Thread |-> Idle]
    BY LifecycleAssumption DEF LifeInit, Unshared
  <1>3. DOMAIN obj = groups /\ groups \subseteq Name
    BY <1>2
  <1>4. \A n \in groups : /\ obj[n] \in Arr /\ NameOf[obj[n]] = n /\ config[n] = Profile(obj[n])
                          /\ CatOf[obj[n]] = config[n][1] /\ UriOf[obj[n]] = config[n][2]
                          /\ config[n] # None /\ config[n][1] \in Category
    BY <1>1, <1>2, <1>3, ArrFacts DEF FromSection, Profile
  <1>5. \A m, n \in groups : m # n => config[m][1] # config[n][1] /\ config[m][2] # config[n][2]
    BY <1>2, <1>3, <1>4 DEF Unshared
  <1>6. \A n \in groups : managed[config[n][1]] = obj[n]
    <2> SUFFICES ASSUME NEW n \in groups PROVE managed[config[n][1]] = obj[n]
      OBVIOUS
    <2>1. (CHOOSE m \in groups : config[m][1] = config[n][1]) = n
      BY <1>5
    <2> QED
      BY <1>1, <1>3, <1>4, <2>1
  <1>7. \A c \in Category : managed[c] # None => \E n \in groups : config[n][1] = c /\ managed[c] = obj[n]
    BY <1>1, <1>3, <1>6
  <1>8. managed \in [Category -> Arr \cup {None}]
    <2>1. \A c \in Category : managed[c] \in Arr \cup {None}
      BY <1>4, <1>7
    <2> QED
      BY <1>1, <2>1
  <1>9. \A a \in ManagedArrs : \E n \in groups : a = obj[n]
    BY <1>7 DEF ManagedArrs
  <1>10. \A n \in groups : obj[n] \in ManagedArrs
    BY <1>4, <1>6, ArrFacts DEF ManagedArrs
  <1>11. ManagedInv
    BY <1>2, <1>4, <1>5, <1>7, <1>8, <1>9, <1>10 DEF ManagedInv, Named
  <1>12. ConfigInv
    BY <1>2, <1>4, <1>5 DEF ConfigInv
  <1>13. Idle.at = "idle" /\ Idle.names = {} /\ Idle.live = {} /\ ~Idle.full /\ task[t] = Idle
    BY <1>2 DEF Idle
  <1>14. Work(t) /\ Clear(t)
    BY <1>13 DEF Work, Clear, Waiting, Reloading
  <1>15. Settled(t)
    BY <1>4, <1>9 DEF Settled, Fits
  <1>16. Fulfilled(t)
    BY <1>2, <1>4, <1>10 DEF Fulfilled, Fits, Named
  <1> QED
    BY <1>2, <1>11, <1>12, <1>14, <1>15, <1>16 DEF ReloadInv, Others

\* The main thread does not touch what the WebUI's threads go by.
LEMMA BesideStep ==
  ASSUME NEW t \in Thread, ReloadInv(t), Beside(Supervised)
  PROVE  ReloadInv(t)'
  <1>1. /\ UNCHANGED <<config, off, groups, uris, task, managed, entangled>>
        /\ missed \subseteq missed'
    BY SupervisorKeepsManaged DEF Beside
  <1>2. Work(t)'
    BY <1>1 DEF ReloadInv, Work, Named, ManagedArrs
  <1>3. Others(t)' /\ task'[t].live = task[t].live /\ Waiting(t)' = Waiting(t)
    BY <1>1 DEF ReloadInv, Others, Waiting
  <1> QED
    BY <1>1, <1>2, <1>3, QuietStep

\* A thread without a request does nothing ...
LEMMA IdleThread ==
  ASSUME NEW t \in Thread, task[t] = Idle
  PROVE  ~Handler(t)
  <1>1. task[t].at = "idle"
    BY DEF Idle
  <1> QED
    BY <1>1 DEF Handler, At, Pick, Stop, Remove, Pop, Drop, BuildNothing, Build, Spawn, Run, Note,
       RunDone, Refresh, Reconcile, MakeSearch, StartSearch, Done, KillAll, ClearAll, Rebuild, RebuildFails,
       EachArr, RunManager, JoinManager

\* ... and any of them may take the next one.
LEMMA NextThread ==
  ASSUME NEW t \in Thread, ReloadInv(t), task[t].at = "idle", NEW u \in Thread
  PROVE  ReloadInv(u)
  <1>1. task[t] = Idle /\ task[u] = Idle /\ DOMAIN task = Thread
    BY DEF ReloadInv, Work, Others
  <1>2. Others(u) /\ Work(u)
    BY <1>1 DEF ReloadInv, Work, Others
  <1>3. Waiting(t) = Waiting(u)
    BY <1>1 DEF Waiting
  <1>4. Settled(u) /\ Fulfilled(u)
    BY <1>1, <1>3 DEF ReloadInv, Settled, Fulfilled
  <1>5. Clear(u)
    BY <1>1, AtRest, <1>3 DEF Clear
  <1> QED
    BY <1>2, <1>4, <1>5 DEF ReloadInv

\* A request that does not wait for the last one to end.
Overlapping == Name \subseteq entangled

LEMMA OverlappingKept ==
  ASSUME Overlapping, [LifeNext]_lifeVars
  PROVE  Overlapping'
  <1>1. ASSUME NEW t \in Thread, Handler(t) PROVE entangled' = entangled
    BY <1>1 DEF Handler, history, Pick, Stop, Remove, Pop, Drop, BuildNothing, Build, Spawn, Run,
       Note, RunDone, Refresh, Reconcile, MakeSearch, StartSearch, Done, KillAll, ClearAll,
       Rebuild, RebuildFails, EachArr, RunManager, JoinManager
  <1>2. CASE Requests
    BY <1>2 DEF Requests, Save, SaveKey, SaveAll, Accept, Overlapping
  <1>3. CASE UNCHANGED lifeVars
    BY <1>3 DEF lifeVars, history, Overlapping
  <1> QED
    BY <1>1, <1>2, <1>3 DEF LifeNext, Beside, Overlapping

\* Every step of the thread keeps the invariant ...
LEMMA HandlerStep ==
  ASSUME NEW t \in Thread, ReloadInv(t), Handler(t)
  PROVE  ReloadInv(t)'
  <1>1. CASE Pick(t)
    BY <1>1, PickStep
  <1>2. CASE BuildNothing(t)
    BY <1>2, BuildNothingStep
  <1>3. CASE Drop(t)
    BY <1>3, DropStep
  <1>4. CASE Build(t)
    BY <1>4, BuildStep
  <1>5. CASE Refresh(t)
    BY <1>5, RefreshStep
  <1>6. CASE Done(t)
    BY <1>6, DoneStep
  <1>7. CASE Rebuild(t) \/ RebuildFails(t)
    BY <1>7, RebuildStep, RebuildFailsStep
  <1>8. CASE \/ Stop(t) \/ Remove(t) \/ Pop(t) \/ Spawn(t) \/ Run(t) \/ Note(t) \/ RunDone(t)
             \/ Reconcile(t) \/ MakeSearch(t) \/ StartSearch(t) \/ KillAll(t) \/ ClearAll(t)
             \/ EachArr(t) \/ RunManager(t) \/ JoinManager(t)
    BY <1>8, QuietSteps
  <1> QED
    BY <1>1, <1>2, <1>3, <1>4, <1>5, <1>6, <1>7, <1>8 DEF Handler

LEMMA ReloadStutter ==
  ASSUME NEW t \in Thread, ReloadInv(t), UNCHANGED lifeVars
  PROVE  ReloadInv(t)'
  <1>1. UNCHANGED <<managed, config, off, groups, uris, task, entangled, missed>>
    BY DEF lifeVars, vars, reload, history
  <1>2. ManagedArrs' = ManagedArrs /\ \A n : Named(n)' = Named(n)
    BY <1>1 DEF ManagedArrs, Named
  <1>3. Waiting(t)' = Waiting(t) /\ Others(t)' /\ Work(t)'
    BY <1>1, <1>2 DEF ReloadInv, Waiting, Others, Work
  <1> QED
    BY <1>1, <1>3, QuietStep

\* ... and so does every other step, until two requests overlap.
LEMMA ReloadNext ==
  ASSUME NEW t \in Thread, ReloadInv(t), [LifeNext]_lifeVars
  PROVE  Overlapping' \/ \E u \in Thread : ReloadInv(u)'
  <1>1. CASE Beside(Supervised)
    BY <1>1, BesideStep
  <1>2. ASSUME NEW u \in Thread,
               \/ \E d, o : Save(u, d, o)
               \/ \E n \in Name : SaveKey(u, n)
               \/ SaveAll(u)
        PROVE  Overlapping' \/ ReloadInv(u)'
    <2>1. CASE task[t].at = "idle"
      <3>1. ReloadInv(u)
        BY <2>1, NextThread
      <3> QED
        BY <1>2, <3>1, SaveStep, SaveKeyStep, SaveAllStep
    <2>2. CASE task[t].at # "idle"
      <3>1. Busy # {}
        BY <2>2 DEF Busy
      <3> QED
        BY <1>2, <3>1 DEF Save, SaveKey, SaveAll, Accept, Overlapping
    <2> QED
      BY <2>1, <2>2
  <1>3. Handler(t) => ReloadInv(t)'
    BY HandlerStep
  <1>4. ASSUME NEW u \in Thread, Handler(u)
        PROVE  u = t
    BY <1>4, IdleThread DEF ReloadInv, Others
  <1>5. CASE UNCHANGED lifeVars
    BY <1>5, ReloadStutter
  <1> QED
    BY <1>1, <1>2, <1>3, <1>4, <1>5 DEF LifeNext, Requests

\* At rest, every section has its object and no other.
LEMMA ReloadFollows ==
  ASSUME NEW t \in Thread, ReloadInv(t)
  PROVE  FollowsConfig
  <1> SUFFICES ASSUME Busy = {}, NEW n \in Name \ entangled
               PROVE  IF config[n] = None THEN Named(n) = {}
                      ELSE \/ JobsOf({n}, config) \cap missed # {}
                           \/ \E a \in Named(n) : Profile(a) = config[n]
    BY DEF FollowsConfig
  <1>1. Waiting(t) = {} /\ task[t].live = {} /\ Settled(t) /\ Fulfilled(t)
    BY AtRest DEF Busy, ReloadInv
  <1>2. CASE config[n] = None
    BY <1>1, <1>2 DEF Settled, Named
  <1>3. CASE config[n] # None /\ Late(n)
    <2>1. PICK r \in Role : <<config[n][1], r>> \in missed
      BY <1>3 DEF Late
    <2>2. <<config[n][1], r>> \in JobsOf({n}, config)
      BY <1>3 DEF JobsOf
    <2> QED
      BY <1>3, <2>1, <2>2
  <1>4. CASE config[n] # None /\ ~Late(n)
    BY <1>1, <1>4 DEF Fulfilled
  <1> QED
    BY <1>2, <1>3, <1>4

\* When a reload is over, the manager holds the objects of the configuration, whatever
\* sections a save adds, removes, renames or changes: all but those that took over another
\* section's settings or failed to start, as long as no save came while another one was
\* carried out.
THEOREM FollowsConfigHolds == LifeSpec => []FollowsConfig
  <1> DEFINE Inv == Overlapping \/ \E t \in Thread : ReloadInv(t)
  <1>1. LifeInit => Inv
    BY ReloadInit, LifecycleAssumption
  <1>2. Inv /\ [LifeNext]_lifeVars => Inv'
    BY ReloadNext, OverlappingKept
  <1>3. Inv => FollowsConfig
    <2>1. Overlapping => FollowsConfig
      BY DEF Overlapping, FollowsConfig
    <2> QED
      BY <2>1, ReloadFollows
  <1> QED
    BY <1>1, <1>2, <1>3, PTL DEF LifeSpec

-----------------------------------------------------------------------------
(* The workers of the Arr jobs. *)

\* A job whose workers the main thread and a reload have not both dealt with.
Sound(j) == j \in ArrJob /\ j \notin clash /\ j \notin overlap

ArrJobs(a) == {JobOfSlot(a, r) : r \in Role}

\* The main thread is ending, or about to.
Closing == {"stopping", "cleaning", "killing", "joining", "leaving"} \cup Ended

WorkTypes(t) ==
    /\ phase \in [Proc -> Phase] /\ children \subseteq Proc
    /\ registry \in [Proc -> Job \cup {None}] /\ slot \in [Slot -> Proc \cup {None}]
    /\ pending \subseteq Slot /\ retry \subseteq Slot
    /\ todo \subseteq Proc /\ arrs \subseteq Arr /\ cur \in Proc \cup {None} /\ meta \in Job \cup {None}
    /\ pc \in {"loop", "checkpoint", "respawn", "reap", "delay", "retry", "rest", "nap"} \cup Closing
    /\ task[t].jobs \subseteq Job /\ task[t].live \subseteq Name
    /\ task[t].procs \subseteq Proc /\ task[t].proc \in Proc \cup {None}
    /\ task[t].arr \in Arr \cup {None} /\ task[t].roles \subseteq Role /\ task[t].arrs \subseteq Arr

\* An object shows a process made for its loop; a live worker is listed, and the managed
\* object of its category shows it.
SlotInv ==
    \A a \in Arr, r \in Role : slot[<<a, r>>] # None => JobOf[slot[<<a, r>>]] = JobOfSlot(a, r)

ChildInv ==
    /\ \A p \in Alive : Sound(JobOf[p]) => p \in children
    /\ \A p \in children : Sound(JobOf[p]) =>
          /\ \E a \in ManagedArrs : JobOf[p] \in ArrJobs(a)
          /\ \A a \in ManagedArrs, r \in Role : JobOf[p] = JobOfSlot(a, r) => slot[<<a, r>>] = p

\* What the main thread restarts a worker by: its registered job, while it is listed.
MetaInv == \A p \in Proc : Sound(registry[p]) => registry[p] = JobOf[p]

TodoInv(t) ==
    \A p \in todo : Sound(JobOf[p]) /\ registry[p] # None =>
        p \in children \/ (task[t].at \in {"pop", "pop search"} /\ p = task[t].proc)

CurInv(t) ==
    /\ cur # None => phase[cur] = "crashed" /\ cur \notin todo
    /\ pc = "delay" => cur # None
    /\ cur # None \/ meta # None => pc \in {"delay"} \cup Closing
    /\ Sound(meta) => cur # None /\ meta = JobOf[cur] /\ cur \in children /\ meta \notin task[t].jobs

\* A queued start is of a managed object whose loop has no worker, and that no reload has
\* in hand.
QueueInv(t) ==
    /\ \A a \in Arr, r \in Role : <<a, r>> \in pending \cup retry /\ Sound(JobOfSlot(a, r)) =>
          /\ a \in ManagedArrs /\ JobOfSlot(a, r) \notin task[t].jobs
          /\ slot[<<a, r>>] \notin children
    /\ pending \cap retry = {}
    /\ retry # {} => pc \in {"retry"} \cup Closing

\* During a coordinated restart no reload has a sound job in hand, and what has still to be
\* started is managed and has no worker.
RespawnInv(t) ==
    /\ pc \in {"checkpoint", "respawn"} => \A j \in task[t].jobs : ~Sound(j)
    /\ pc = "checkpoint" => \A p \in children : ~Sound(JobOf[p])
    /\ pc = "respawn" => \A a \in arrs, r \in Role : Sound(JobOfSlot(a, r)) =>
                            a \in ManagedArrs /\ \A p \in children : JobOf[p] # JobOfSlot(a, r)

MainInv(t) == /\ WorkTypes(t) /\ SlotInv /\ ChildInv /\ MetaInv
              /\ TodoInv(t) /\ CurInv(t) /\ QueueInv(t) /\ RespawnInv(t)

\* A reload has the jobs of all that it stops, builds or refreshes in hand.
HandInv(t) ==
    LET u == task[t] IN
    /\ \A a \in ManagedArrs : NameOf[a] \in Waiting(t) \cup u.live => ArrJobs(a) \subseteq u.jobs
    /\ \A n \in Waiting(t) \cup u.live : config[n] # None => \A r \in Role : <<config[n][1], r>> \in u.jobs
    /\ u.full => ArrJob \subseteq u.jobs
    /\ u.arr # None => ArrJobs(u.arr) \subseteq u.jobs
    /\ u.arrs # {} => u.full /\ u.at \in {"each", "spawn", "run", "note"}

\* Jobs of a category that two sections have, or have had in turn, are not sound.
ContestInv(t) ==
    /\ \A n \in Waiting(t), b \in ManagedArrs, r \in Role :
          config[n] # None /\ NameOf[b] # n /\ CatOf[b] = config[n][1]
          /\ (config[NameOf[b]] # None \/ NameOf[b] \in off)
          => ~Sound(JobOfSlot(b, r))
    /\ \A m, n \in Name, r \in Role :
          m # n /\ config[m] # None /\ config[n] # None /\ config[m][1] = config[n][1]
          => ~Sound(<<config[n][1], r>>)

\* The loops of an object that is stopped have been killed and removed, but for the one in hand.
StopInv(t) ==
    LET u == task[t] IN
    /\ u.at \in Stopping => \A r \in Role \ u.roles : Sound(JobOfSlot(u.arr, r)) =>
          /\ slot[<<u.arr, r>>] \notin Alive
          /\ slot[<<u.arr, r>>] \in children => u.at = "remove" /\ slot[<<u.arr, r>>] = u.proc
    /\ u.at \in {"remove", "pop", "remove search", "pop search"} =>
          /\ u.proc # None /\ u.arr # None /\ JobOf[u.proc] \in ArrJobs(u.arr)
          /\ Sound(JobOf[u.proc]) => u.proc \notin Alive

\* Objects whose loops are still to be made show none; new processes wait for their start.
NewInv(t) ==
    LET u == task[t] IN
    /\ u.at = "spawn" => /\ u.arr \in ManagedArrs /\ u.arr \notin u.arrs
                         /\ \A r \in Role : Sound(JobOfSlot(u.arr, r)) => slot[<<u.arr, r>>] = None
    /\ \A a \in u.arrs : /\ a \in ManagedArrs
                         /\ \A r \in Role : Sound(JobOfSlot(a, r)) => slot[<<a, r>>] = None
    /\ u.at \in {"run", "note"} =>
          \A p \in u.procs : /\ JobOf[p] \in ArrJobs(u.arr)
                             /\ Sound(JobOf[p]) => phase[p] = "made" /\ p \in children
    /\ u.at = "note" => /\ u.proc # None /\ u.arr # None /\ JobOf[u.proc] \in ArrJobs(u.arr)
                        /\ Sound(JobOf[u.proc]) /\ u.proc \in todo => u.proc \in children
    /\ u.at = "run" => u.arr # None
    /\ u.at = "join" => u.proc # None /\ JobOf[u.proc] \notin ArrJob

\* The steps of _reconcile_arr_search_worker.
Search == {"reconcile", "remove search", "pop search", "search", "start search"}

SearchInv(t) ==
    LET u == task[t]  p == slot[<<u.arr, "search">>] IN
    u.at \in Search =>
       /\ u.arr \in ManagedArrs
       /\ u.at = "start search" => u.proc # None /\ JobOf[u.proc] = JobOfSlot(u.arr, "search")
       /\ Sound(JobOfSlot(u.arr, "search")) =>
             /\ u.at \in {"remove search", "pop search", "start search"} => p = u.proc
             /\ u.at = "pop search" => p \notin children
             /\ u.at = "search" => p = None
             /\ u.at = "start search" => phase[p] = "made" /\ p \in children

RebuildInv(t) ==
    /\ task[t].at = "clear" => \A p \in Alive : ~Sound(JobOf[p])
    /\ task[t].at = "rebuild" => \A p \in children : ~Sound(JobOf[p])

HeldInv(t) == HandInv(t) /\ ContestInv(t) /\ StopInv(t) /\ NewInv(t) /\ SearchInv(t) /\ RebuildInv(t)

\* A loop of a managed object runs or has run, or its worker is about to be made and started.
Making(t, a, r) ==
    LET u == task[t] IN
    \/ a = u.arr /\ u.at = "spawn"
    \/ slot[<<a, r>>] \in u.procs /\ u.at \in {"run", "note"}
    \/ a = u.arr /\ r = "search" /\ u.at \in Search
    \/ a \in u.arrs

StartInv(t) ==
    \A a \in ManagedArrs, r \in Role :
        r \in RolesOf[a] /\ Sound(JobOfSlot(a, r)) /\ JobOfSlot(a, r) \notin missed /\ ~Making(t, a, r)
        => slot[<<a, r>>] # None /\ phase[slot[<<a, r>>]] # "made"

WorkInv(t) == MainInv(t) /\ HeldInv(t) /\ StartInv(t)

-----------------------------------------------------------------------------
(* Facts about jobs *)

LEMMA JobFacts ==
  /\ \A a \in Arr, r \in Role : JobOfSlot(a, r) \in ArrJob /\ CatOf[a] \in Category /\ <<a, r>> \in Slot
  /\ \A a, b \in Arr : \A q, r \in Role : JobOfSlot(a, q) = JobOfSlot(b, r) <=> CatOf[a] = CatOf[b] /\ q = r
  /\ \A j \in ArrJob : \E a \in Arr, r \in Role : j = JobOfSlot(a, r)
  /\ \A q \in Qbit : ManagerJob(q) \notin ArrJob
  /\ ArrJob \subseteq Job
  /\ \A p \in Proc : JobOf[p] \in Job
  /\ None \notin Arr /\ None \notin Proc /\ None \notin Job /\ None \notin ArrJob
  /\ \A a \in Arr : RolesOf[a] \subseteq Role
  <1>1. \A a \in Arr, r \in Role : JobOfSlot(a, r) \in ArrJob /\ CatOf[a] \in Category /\ <<a, r>> \in Slot
    BY DEF ArrJob, Category, Slot
  <1>2. \A a, b \in Arr : \A q, r \in Role : JobOfSlot(a, q) = JobOfSlot(b, r) <=> CatOf[a] = CatOf[b] /\ q = r
    BY DEF JobOfSlot
  <1>3. \A j \in ArrJob : \E a \in Arr, r \in Role : j = JobOfSlot(a, r)
    BY DEF ArrJob
  <1>4. \A q \in Qbit : ManagerJob(q) \notin ArrJob
    BY SupervisorAssumption DEF ManagerJob, ArrJob, JobOfSlot, Role
  <1>5. ArrJob \subseteq Job
    BY DEF Job
  <1> QED
    BY <1>1, <1>2, <1>3, <1>4, <1>5, SupervisorAssumption

\* A slot is that of an object and a loop.
LEMMA SlotFacts ==
  /\ \A s \in Slot : \E a \in Arr, r \in Role : s = <<a, r>> /\ s[1] = a /\ s[2] = r
  /\ \A a, b, q, r : <<a, q>> = <<b, r>> <=> a = b /\ q = r
  BY DEF Slot

\* A job that is sound after a step was so before.
LEMMA SoundKept ==
  ASSUME clash \subseteq clash', overlap \subseteq overlap'
  PROVE  \A j : Sound(j)' => Sound(j)
  BY DEF Sound

\* Loops with the same job that managed objects have are the same.
LEMMA OneHolder ==
  ASSUME ManagedInv, NEW a \in ManagedArrs, NEW b \in ManagedArrs, NEW q \in Role, NEW r \in Role,
         JobOfSlot(a, q) = JobOfSlot(b, r)
  PROVE  a = b /\ q = r
  BY JobFacts, ManagedFacts

-----------------------------------------------------------------------------
(* The main thread, beside a reload. *)

\* What a step that leaves a job in hand sound does not do.
Undisturbed(j) ==
    /\ meta' = j => meta = j
    /\ cur' = cur \/ cur' = None \/ JobOf[cur'] # j
    /\ \A p \in Proc : JobOf[p] = j /\ p \notin Alive => p \notin Alive'
    /\ \A a \in Arr, r \in Role : JobOfSlot(a, r) = j => slot'[<<a, r>>] = slot[<<a, r>>]
    /\ pc' = "checkpoint" => pc = "checkpoint"

\* A step of the main thread and the processes leaves the reload to its thread.
Apart(t) ==
    /\ UNCHANGED <<task, managed, config, off>> /\ clash \subseteq clash' /\ overlap \subseteq overlap'
    /\ \A j \in task[t].jobs : Sound(j)' => Undisturbed(j)

\* Of a sound job in hand it starts and lists no process, and takes none that may run from
\* the list.
HandKept(t) ==
    \A p \in Proc : JobOf[p] \in task[t].jobs /\ Sound(JobOf[p])' =>
        /\ p \in Alive' => p \in Alive
        /\ p \in children' => p \in children
        /\ p \in children /\ phase[p] = "made" => p \in children'
        /\ phase'[p] = "made" <=> phase[p] = "made"
        /\ p \in todo' => p \in children' \/ (p \in todo /\ p \notin children)

\* Wherever it has an object show another process, and it prepares none that is shown.
SlotsKept ==
    \A a \in Arr, r \in Role :
        \/ slot'[<<a, r>>] \in Proc
        \/ slot'[<<a, r>>] = slot[<<a, r>>]

ShownKept ==
    \A a \in Arr, r \in Role :
        slot'[<<a, r>>] = slot[<<a, r>>] /\ slot[<<a, r>>] # None /\ phase'[slot[<<a, r>>]] = "made"
        => phase[slot[<<a, r>>]] = "made"

LEMMA ApartFacts ==
  ASSUME NEW t \in Thread, ReloadInv(t), Beside(Supervised), overlap \subseteq overlap'
  PROVE  Apart(t)
  <1>1. UNCHANGED <<task, managed, config, off>> /\ clash' = clash \cup Clashes \cup Hidden
    BY SupervisorKeepsManaged DEF Beside
  <1>2. ASSUME NEW j \in task[t].jobs, Sound(j)'
        PROVE  Undisturbed(j)
    <2>1. task[t].at # "idle"
      BY <1>2 DEF ReloadInv, Work, Idle
    <2>2. j \in BusyJobs /\ j \notin Clashes
      BY <1>1, <1>2, <2>1 DEF Sound, BusyJobs, Busy
    <2>3. /\ ~(meta' = j /\ meta # j)
          /\ ~(cur' # cur /\ cur' # None /\ JobOf[cur'] = j)
          /\ ~\E p \in Proc : JobOf[p] = j /\ p \notin Alive /\ phase'[p] = "alive"
          /\ ~\E s \in Slot : JobOfSlot(s[1], s[2]) = j /\ slot'[s] # slot[s]
          /\ ~(pc' = "checkpoint" /\ pc # "checkpoint")
      BY <2>2 DEF Clashes
    <2>4. \A a \in Arr, r \in Role : JobOfSlot(a, r) = j => slot'[<<a, r>>] = slot[<<a, r>>]
      BY <2>3, JobFacts
    <2> QED
      BY <2>3, <2>4 DEF Undisturbed, Alive
  <1> QED
    BY <1>1, <1>2 DEF Apart

\* Processes that end, and moves of the main thread that change nothing else.
LEMMA PcStep ==
  ASSUME NEW t, MainInv(t), Apart(t),
         UNCHANGED <<children, registry, slot, pending, retry, arrs, todo, cur, meta>>,
         phase' \in [Proc -> Phase], Alive' \subseteq Alive,
         \A p \in Proc : /\ phase[p] = "crashed" => phase'[p] = "crashed"
                         /\ phase'[p] = "made" <=> phase[p] = "made",
         \/ pc' = pc
         \/ pc' \in Closing
         \/ pc' \in {"loop", "rest", "nap"} /\ pc \in {"respawn", "retry", "rest", "nap"} /\ retry = {}
  PROVE  MainInv(t)' /\ HandKept(t) /\ SlotsKept /\ ShownKept
  <1> USE DEF MainInv
  <1>1. /\ task' = task /\ managed' = managed /\ ManagedArrs' = ManagedArrs
        /\ \A j : Sound(j)' => Sound(j)
    BY SoundKept DEF Apart, ManagedArrs
  <1>2. WorkTypes(t)'
    BY <1>1 DEF WorkTypes, Closing, Ended
  <1>3. SlotInv' /\ ChildInv'
    BY <1>1 DEF SlotInv, ChildInv
  <1>4. MetaInv' /\ TodoInv(t)'
    BY <1>1 DEF MetaInv, TodoInv, Sound, Apart
  <1>5. CurInv(t)'
    BY <1>1 DEF CurInv, WorkTypes, Closing, Ended, Sound, Apart
  <1>6. QueueInv(t)'
    BY <1>1 DEF QueueInv, WorkTypes, Closing, Ended
  <1>7. RespawnInv(t)'
    BY <1>1 DEF RespawnInv, Closing, Ended
  <1>8. HandKept(t)
    BY DEF HandKept
  <1>9. SlotsKept /\ ShownKept
    BY DEF SlotsKept, ShownKept, WorkTypes, Slot
  <1> QED
    BY <1>2, <1>3, <1>4, <1>5, <1>6, <1>7, <1>8, <1>9

\* What stays when the main thread moves.
LEMMA ApartKeeps ==
  ASSUME NEW t, Apart(t)
  PROVE  /\ task' = task /\ managed' = managed /\ ManagedArrs' = ManagedArrs
         /\ clash \subseteq clash' /\ overlap \subseteq overlap'
         /\ \A j : Sound(j)' => Sound(j)
  BY SoundKept DEF Apart, ManagedArrs

\* The coordinated restart stops what is listed, and leaves no sound job in hand.
LEMMA StopAllStep ==
  ASSUME NEW t, MainInv(t), Apart(t), StopAll
  PROVE  MainInv(t)' /\ HandKept(t) /\ SlotsKept /\ ShownKept
  <1> USE DEF MainInv
  <1>0. /\ task' = task /\ managed' = managed /\ ManagedArrs' = ManagedArrs
        /\ clash \subseteq clash' /\ overlap \subseteq overlap'
        /\ \A j : Sound(j)' => Sound(j)
    BY ApartKeeps
  <1>1. /\ pc = "loop" /\ pc' = "checkpoint" /\ children' = {}
        /\ phase' = [p \in Proc |-> IF p \in children /\ phase[p] = "alive" THEN "crashed" ELSE phase[p]]
        /\ registry' = [p \in Proc |-> None]
        /\ UNCHANGED <<slot, pending, arrs, retry, todo, cur, meta>>
    BY DEF StopAll, Goto
  <1>2. Alive' = Alive \ children
    BY <1>1 DEF Alive, WorkTypes
  <1>3. \A j \in task[t].jobs : ~Sound(j)'
    BY <1>0, <1>1 DEF Apart, Undisturbed
  <1>4. WorkTypes(t)'
    BY <1>0, <1>1 DEF WorkTypes, Phase
  <1>5. SlotInv' /\ ChildInv'
    BY <1>0, <1>1, <1>2 DEF SlotInv, ChildInv
  <1>6. MetaInv' /\ TodoInv(t)'
    BY <1>0, <1>1, JobFacts DEF MetaInv, TodoInv, Sound, WorkTypes
  <1>7. CurInv(t)'
    BY <1>0, <1>1, JobFacts DEF CurInv, WorkTypes, Closing, Ended, Sound
  <1>8. QueueInv(t)'
    BY <1>0, <1>1 DEF QueueInv, Closing, Ended
  <1>9. RespawnInv(t)'
    BY <1>0, <1>1, <1>3 DEF RespawnInv
  <1>10. HandKept(t)
    BY <1>3 DEF HandKept
  <1>11. SlotsKept /\ ShownKept
    BY <1>0, <1>1 DEF SlotsKept, ShownKept, WorkTypes, Slot
  <1> QED
    BY <1>4, <1>5, <1>6, <1>7, <1>8, <1>9, <1>10, <1>11

LEMMA CheckpointStep ==
  ASSUME NEW t, ManagedInv, MainInv(t), Apart(t), Checkpoint
  PROVE  MainInv(t)' /\ HandKept(t) /\ SlotsKept /\ ShownKept
  <1> USE DEF MainInv
  <1>0. /\ task' = task /\ managed' = managed /\ ManagedArrs' = ManagedArrs
        /\ clash \subseteq clash' /\ overlap \subseteq overlap'
        /\ \A j : Sound(j)' => Sound(j)
    BY ApartKeeps
  <1>1. /\ pc = "checkpoint" /\ pc' = "respawn" /\ arrs' = ManagedArrs
        /\ UNCHANGED <<phase, children, registry, slot, pending, retry, todo, cur, meta>>
    BY DEF Checkpoint, Goto, tracked
  <1>2. Alive' = Alive
    BY <1>0, <1>1 DEF Alive
  <1>3. WorkTypes(t)'
    BY <1>0, <1>1, ManagedFacts DEF WorkTypes
  <1>4. SlotInv' /\ ChildInv' /\ MetaInv' /\ TodoInv(t)'
    <2>1. SlotInv' /\ ChildInv'
      BY <1>0, <1>1, <1>2 DEF SlotInv, ChildInv
    <2>2. MetaInv'
      BY <1>0, <1>1 DEF MetaInv, Sound
    <2>3. TodoInv(t)'
      BY <1>0, <1>1 DEF TodoInv
    <2> QED
      BY <2>1, <2>2, <2>3
  <1>5. CurInv(t)' /\ QueueInv(t)'
    BY <1>0, <1>1 DEF CurInv, QueueInv, Closing, Ended, Sound
  <1>6. RespawnInv(t)'
    BY <1>0, <1>1, JobFacts DEF RespawnInv
  <1>7. HandKept(t) /\ SlotsKept /\ ShownKept
    BY <1>0, <1>1, <1>2 DEF HandKept, SlotsKept, ShownKept
  <1> QED
    BY <1>3, <1>4, <1>5, <1>6, <1>7

\* Looking at a worker that needs nothing.
LEMMA LookStep ==
  ASSUME NEW t, MainInv(t), Apart(t), Look \/ \E p \in Proc : ReapOther(p)
  PROVE  MainInv(t)' /\ HandKept(t) /\ SlotsKept /\ ShownKept
  <1> USE DEF MainInv
  <1>0. /\ task' = task /\ managed' = managed /\ ManagedArrs' = ManagedArrs
        /\ clash \subseteq clash' /\ overlap \subseteq overlap'
        /\ \A j : Sound(j)' => Sound(j)
    BY ApartKeeps
  <1>1. /\ pc \in {"loop", "reap"} /\ pc' = "reap" /\ (todo' = children \/ todo' \subseteq todo)
        /\ UNCHANGED <<phase, children, registry, slot, pending, retry, arrs, cur, meta>>
    BY DEF Look, ReapOther, Goto, tracked
  <1>2. Alive' = Alive
    BY <1>0, <1>1 DEF Alive
  <1>3. WorkTypes(t)'
    BY <1>0, <1>1 DEF WorkTypes
  <1>4. SlotInv' /\ ChildInv' /\ MetaInv' /\ TodoInv(t)'
    <2>1. SlotInv' /\ ChildInv'
      BY <1>0, <1>1, <1>2 DEF SlotInv, ChildInv
    <2>2. MetaInv'
      BY <1>0, <1>1 DEF MetaInv, Sound
    <2>3. TodoInv(t)'
      BY <1>0, <1>1 DEF TodoInv
    <2> QED
      BY <2>1, <2>2, <2>3
  <1>5. CurInv(t)' /\ QueueInv(t)' /\ RespawnInv(t)'
    BY <1>0, <1>1 DEF CurInv, QueueInv, RespawnInv, Closing, Ended, Sound
  <1>6. HandKept(t) /\ SlotsKept /\ ShownKept
    BY <1>0, <1>1, <1>2 DEF HandKept, SlotsKept, ShownKept
  <1> QED
    BY <1>3, <1>4, <1>5, <1>6

\* A dead worker is forgotten.
LEMMA ReapDeadStep ==
  ASSUME NEW t, MainInv(t), Apart(t), NEW p \in Proc, ReapDead(p)
  PROVE  MainInv(t)' /\ HandKept(t) /\ SlotsKept /\ ShownKept
  <1> USE DEF MainInv
  <1>0. /\ task' = task /\ managed' = managed /\ ManagedArrs' = ManagedArrs
        /\ clash \subseteq clash' /\ overlap \subseteq overlap'
        /\ \A j : Sound(j)' => Sound(j)
    BY ApartKeeps
  <1>1. /\ pc = "reap" /\ todo' = todo \ {p} /\ phase[p] \in {"clean", "crashed"}
        /\ children' = children \ {p} /\ registry' = [registry EXCEPT ![p] = None]
        /\ UNCHANGED <<phase, slot, pending, retry, arrs, cur, meta, pc>>
    BY DEF ReapDead, Untrack, Dead
  <1>2. Alive' = Alive /\ p \notin Alive
    BY <1>0, <1>1 DEF Alive
  <1>3. WorkTypes(t)'
    BY <1>0, <1>1 DEF WorkTypes
  <1>4. SlotInv' /\ ChildInv'
    BY <1>0, <1>1, <1>2 DEF SlotInv, ChildInv
  <1>5. MetaInv'
    BY <1>0, <1>1, JobFacts DEF MetaInv, Sound, WorkTypes
  <1>8. TodoInv(t)'
    BY <1>0, <1>1 DEF TodoInv, WorkTypes
  <1>6. CurInv(t)' /\ QueueInv(t)' /\ RespawnInv(t)'
    BY <1>0, <1>1, JobFacts DEF CurInv, QueueInv, RespawnInv, Closing, Ended, Sound
  <1>7. HandKept(t) /\ SlotsKept /\ ShownKept
    BY <1>0, <1>1, <1>2 DEF HandKept, SlotsKept, ShownKept
  <1> QED
    BY <1>3, <1>4, <1>5, <1>6, <1>7, <1>8

\* A crashed one is taken on, with its registered job.
LEMMA ReapCrashedStep ==
  ASSUME NEW t, MainInv(t), HeldInv(t), Apart(t), NEW p \in Proc, ReapCrashed(p)
  PROVE  MainInv(t)' /\ HandKept(t) /\ SlotsKept /\ ShownKept
  <1> USE DEF MainInv
  <1>0. /\ task' = task /\ managed' = managed /\ ManagedArrs' = ManagedArrs
        /\ clash \subseteq clash' /\ overlap \subseteq overlap'
        /\ \A j : Sound(j)' => Sound(j)
    BY ApartKeeps
  <1>1. /\ pc = "reap" /\ pc' = "delay" /\ p \in todo /\ todo' = todo \ {p}
        /\ phase[p] = "crashed" /\ cur' = p /\ meta' = registry[p]
        /\ UNCHANGED <<phase, children, registry, slot, pending, retry, arrs>>
    BY DEF ReapCrashed, Restartable, Goto, tracked
  <1>2. Alive' = Alive /\ cur = None
    BY <1>1 DEF Alive, CurInv, Closing, Ended
  <1>3. WorkTypes(t)'
    BY <1>0, <1>1 DEF WorkTypes
  <1>4. SlotInv' /\ ChildInv' /\ MetaInv' /\ TodoInv(t)'
    <2>1. SlotInv' /\ ChildInv'
      BY <1>0, <1>1, <1>2 DEF SlotInv, ChildInv
    <2>2. MetaInv'
      BY <1>0, <1>1 DEF MetaInv, Sound
    <2>3. TodoInv(t)'
      BY <1>0, <1>1 DEF TodoInv
    <2> QED
      BY <2>1, <2>2, <2>3
  <1>5. CurInv(t)'
    <2>1. ASSUME Sound(registry[p]), registry[p] \notin clash' \cup overlap'
          PROVE  registry[p] = JobOf[p] /\ p \in children /\ registry[p] \notin task[t].jobs
      <3>1. registry[p] = JobOf[p] /\ Sound(JobOf[p])' /\ Sound(JobOf[p]) /\ registry[p] # None
        BY <2>1, JobFacts DEF MetaInv, Sound
      <3>2. JobOf[p] \notin task[t].jobs
        BY <1>0, <1>1, <1>2, <3>1, JobFacts DEF Apart, Undisturbed
      <3>3. ~(task[t].at \in {"pop", "pop search"} /\ p = task[t].proc)
        BY <3>2 DEF HeldInv, StopInv, HandInv
      <3> QED
        BY <1>0, <1>1, <3>1, <3>2, <3>3 DEF TodoInv
    <2> QED
      BY <1>0, <1>1, <2>1, JobFacts DEF CurInv, Sound, Closing, Ended
  <1>6. QueueInv(t)' /\ RespawnInv(t)'
    BY <1>0, <1>1 DEF QueueInv, RespawnInv, Closing, Ended
  <1>7. HandKept(t) /\ SlotsKept /\ ShownKept
    BY <1>0, <1>1, <1>2 DEF HandKept, SlotsKept, ShownKept
  <1> QED
    BY <1>3, <1>4, <1>5, <1>6, <1>7

\* A process object that is free.
LEMMA FreeFacts ==
  ASSUME NEW n \in Free
  PROVE  /\ n \in Proc /\ n \notin Alive /\ registry[n] = None
         /\ n \notin children /\ n \notin todo /\ n # cur
         /\ \A a \in Arr, r \in Role : slot[<<a, r>>] # n
  BY JobFacts DEF Free, Alive

\* The object of the job that is to be restarted.
LEMMA TargetFacts ==
  ASSUME ManagedInv, NEW a \in Target(meta)
  PROVE  /\ a \in ManagedArrs /\ a \in Arr
         /\ \E r \in Role : meta = JobOfSlot(a, r) /\ meta[2] = r
  BY ManagedFacts DEF Target, JobOfSlot

\* The worker that takes the place of a crashed one is shown by the managed object.
LEMMA RestartStep ==
  ASSUME NEW t, ManagedInv, MainInv(t), Apart(t), NEW n \in Proc, Restart(n)
  PROVE  MainInv(t)' /\ HandKept(t) /\ SlotsKept /\ ShownKept
  <1> USE DEF MainInv
  <1>0. /\ task' = task /\ managed' = managed /\ ManagedArrs' = ManagedArrs
        /\ clash \subseteq clash' /\ overlap \subseteq overlap'
        /\ \A j : Sound(j)' => Sound(j)
    BY ApartKeeps
  <1>1. /\ pc = "delay" /\ pc' = "reap" /\ n \in Free /\ JobOf[n] = meta
        /\ phase' = [phase EXCEPT ![n] = "alive"]
        /\ children' = (children \ {cur}) \cup {n}
        /\ registry' = [registry EXCEPT ![cur] = None, ![n] = meta]
        /\ cur' = None /\ meta' = None
        /\ UNCHANGED <<pending, retry, arrs, todo>>
    BY DEF Restart, Goto
  <1>2. PICK a \in Target(meta) : slot' = [slot EXCEPT ![<<a, meta[2]>>] = n]
    BY DEF Restart
  <1>3. PICK r \in Role : meta = JobOfSlot(a, r) /\ meta[2] = r
    BY TargetFacts
  <1>4. /\ a \in ManagedArrs /\ a \in Arr
        /\ n \notin Alive /\ n \notin children /\ n \notin todo /\ n # cur
        /\ \A b \in Arr, q \in Role : slot[<<b, q>>] # n
    BY <1>1, FreeFacts, TargetFacts
  <1>5. /\ cur \in Proc /\ phase[cur] = "crashed" /\ cur \notin todo /\ retry = {}
        /\ Sound(meta) => meta = JobOf[cur] /\ cur \in children /\ meta \notin task[t].jobs
    BY <1>1 DEF CurInv, WorkTypes, QueueInv, Closing, Ended
  <1>6. \A b \in Arr, q \in Role : slot'[<<b, q>>] = IF b = a /\ q = r THEN n ELSE slot[<<b, q>>]
    <2>1. slot' = [slot EXCEPT ![<<a, r>>] = n] /\ WorkTypes(t)
      BY <1>2, <1>3
    <2> QED
      BY <1>4, <2>1 DEF WorkTypes, Slot
  <1>7. Alive' = Alive \cup {n} /\ cur \notin Alive
    BY <1>1, <1>5 DEF Alive, WorkTypes
  <1>8. WorkTypes(t)'
    BY <1>0, <1>1, <1>2 DEF WorkTypes, Phase
  <1>9. SlotInv'
    BY <1>1, <1>3, <1>4, <1>6 DEF SlotInv
  <1>10. ChildInv'
    <2>1. \A p \in Alive' : Sound(JobOf[p])' => p \in children'
      BY <1>0, <1>1, <1>7 DEF ChildInv
    <2>2. ASSUME NEW p \in children', Sound(JobOf[p])'
          PROVE  /\ \E b \in ManagedArrs : JobOf[p] \in ArrJobs(b)
                 /\ \A b \in ManagedArrs, q \in Role : JobOf[p] = JobOfSlot(b, q) => slot'[<<b, q>>] = p
      <3>1. CASE p = n
        <4>1. JobOf[p] \in ArrJobs(a)
          BY <1>1, <1>3, <3>1 DEF ArrJobs
        <4>2. \A b \in ManagedArrs, q \in Role : JobOf[p] = JobOfSlot(b, q) => b = a /\ q = r
          BY <1>1, <1>3, <1>4, <3>1, OneHolder
        <4> QED
          BY <1>4, <1>6, <3>1, <4>1, <4>2
      <3>2. CASE p # n
        <4>1. p \in children /\ p # cur /\ Sound(JobOf[p])
          BY <1>0, <1>1, <2>2, <3>2
        <4>2. \A b \in ManagedArrs, q \in Role : JobOf[p] = JobOfSlot(b, q) => slot[<<b, q>>] = p
          BY <4>1 DEF ChildInv
        <4>3. JobOf[p] # JobOfSlot(a, r)
          <5> SUFFICES ASSUME JobOf[p] = JobOfSlot(a, r) PROVE FALSE
            OBVIOUS
          <5>1. slot[<<a, r>>] = p
            BY <1>4, <4>2
          <5>2. JobOf[cur] = JobOfSlot(a, r) /\ cur \in children /\ Sound(JobOf[cur])
            BY <1>3, <1>5, <4>1
          <5>3. slot[<<a, r>>] = cur
            BY <1>4, <5>2 DEF ChildInv
          <5> QED
            BY <4>1, <5>1, <5>3
        <4> QED
          BY <1>6, <4>1, <4>2, <4>3, ManagedFacts DEF ChildInv
      <3> QED
        BY <3>1, <3>2
    <2> QED
      BY <1>0, <2>1, <2>2 DEF ChildInv
  <1>11. MetaInv'
    BY <1>0, <1>1, <1>4, <1>5, JobFacts DEF MetaInv, Sound, WorkTypes
  <1>12. TodoInv(t)'
    BY <1>0, <1>1, <1>4, <1>5 DEF TodoInv, WorkTypes
  <1>13. CurInv(t)' /\ RespawnInv(t)'
    BY <1>0, <1>1, JobFacts DEF CurInv, RespawnInv, Sound
  <1>14. QueueInv(t)'
    <2>1. ASSUME NEW b \in Arr, NEW q \in Role, <<b, q>> \in pending, Sound(JobOfSlot(b, q))
          PROVE  /\ b \in ManagedArrs /\ JobOfSlot(b, q) \notin task[t].jobs /\ slot[<<b, q>>] \notin children
                 /\ ~(b = a /\ q = r)
      <3>1. b \in ManagedArrs /\ JobOfSlot(b, q) \notin task[t].jobs /\ slot[<<b, q>>] \notin children
        BY <2>1 DEF QueueInv
      <3>2. b = a /\ q = r => slot[<<b, q>>] = cur /\ cur \in children
        BY <1>3, <1>4, <1>5, <2>1 DEF ChildInv
      <3> QED
        BY <3>1, <3>2
    <2> QED
      BY <1>0, <1>1, <1>4, <1>5, <1>6, <2>1 DEF QueueInv
  <1>15. HandKept(t)
    <2>1. Sound(meta) => meta \notin task[t].jobs
      BY <1>5
    <2> QED
      BY <1>0, <1>1, <1>5, <1>7, <2>1 DEF HandKept, WorkTypes
  <1>16. SlotsKept /\ ShownKept
    BY <1>1, <1>4, <1>6 DEF SlotsKept, ShownKept, WorkTypes
  <1> QED
    BY <1>8, <1>9, <1>10, <1>11, <1>12, <1>13, <1>14, <1>15, <1>16

\* A worker that is given up leaves the list; its successor, if one was made, is shown.
LEMMA GiveUpStep ==
  ASSUME NEW t, ManagedInv, MainInv(t), Apart(t), GiveUp
  PROVE  MainInv(t)' /\ HandKept(t) /\ SlotsKept /\ ShownKept
  <1> USE DEF MainInv
  <1>0. /\ task' = task /\ managed' = managed /\ ManagedArrs' = ManagedArrs
        /\ clash \subseteq clash' /\ overlap \subseteq overlap'
        /\ \A j : Sound(j)' => Sound(j)
    BY ApartKeeps
  <1>1. /\ pc = "delay" /\ pc' = "reap"
        /\ children' = children \ {cur} /\ registry' = [registry EXCEPT ![cur] = None]
        /\ cur' = None /\ meta' = None
        /\ UNCHANGED <<pending, retry, arrs, todo>>
    BY DEF GiveUp, Goto, Untrack
  <1>2. /\ cur \in Proc /\ phase[cur] = "crashed" /\ cur \notin todo /\ retry = {}
        /\ Sound(meta) => meta = JobOf[cur] /\ cur \in children /\ meta \notin task[t].jobs
    BY <1>1 DEF CurInv, WorkTypes, QueueInv, Closing, Ended
  <1>3. \/ UNCHANGED <<slot, phase>>
        \/ \E a, r, n : /\ a \in ManagedArrs /\ a \in Arr /\ r \in Role /\ n \in Free
                        /\ JobOf[n] = meta /\ meta = JobOfSlot(a, r)
                        /\ slot' = [slot EXCEPT ![<<a, r>>] = n]
                        /\ phase' = [phase EXCEPT ![n] = "made"]
    <2>1. \/ UNCHANGED <<slot, phase>>
          \/ \E a, n : /\ a \in Target(meta) /\ n \in Free /\ JobOf[n] = meta
                       /\ slot' = [slot EXCEPT ![<<a, meta[2]>>] = n]
                       /\ phase' = [phase EXCEPT ![n] = "made"]
      BY DEF GiveUp
    <2>2. CASE ~UNCHANGED <<slot, phase>>
      <3>1. PICK a, n : /\ a \in Target(meta) /\ n \in Free /\ JobOf[n] = meta
                        /\ slot' = [slot EXCEPT ![<<a, meta[2]>>] = n]
                        /\ phase' = [phase EXCEPT ![n] = "made"]
        BY <2>1, <2>2
      <3>2. PICK r \in Role : meta = JobOfSlot(a, r) /\ meta[2] = r
        BY <3>1, TargetFacts
      <3>3. a \in ManagedArrs /\ a \in Arr /\ slot' = [slot EXCEPT ![<<a, r>>] = n]
        BY <3>1, <3>2, TargetFacts
      <3> QED
        BY <3>1, <3>2, <3>3
    <2> QED
      BY <2>2
  <1>4. /\ WorkTypes(t)' /\ SlotInv' /\ SlotsKept /\ ShownKept
        /\ Alive' = Alive /\ phase' \in [Proc -> Phase]
        /\ \A p \in Proc : JobOf[p] # meta \/ p \in children => phase'[p] = phase[p]
        /\ \A b \in Arr, q \in Role : \/ slot'[<<b, q>>] = slot[<<b, q>>]
                                      \/ JobOfSlot(b, q) = meta /\ slot'[<<b, q>>] \notin children
    <2>1. CASE UNCHANGED <<slot, phase>>
      BY <1>0, <1>1, <2>1 DEF WorkTypes, SlotInv, SlotsKept, ShownKept, Alive
    <2>2. CASE ~UNCHANGED <<slot, phase>>
      <3>0. PICK a, r, n : /\ a \in ManagedArrs /\ a \in Arr /\ r \in Role /\ n \in Free
                           /\ JobOf[n] = meta /\ meta = JobOfSlot(a, r)
                           /\ slot' = [slot EXCEPT ![<<a, r>>] = n]
                           /\ phase' = [phase EXCEPT ![n] = "made"]
        BY <1>3, <2>2
      <3>1. /\ n \in Proc /\ n \notin Alive /\ n \notin children
            /\ \A b \in Arr, q \in Role : slot[<<b, q>>] # n
        BY <3>0, FreeFacts
      <3>2. \A b \in Arr, q \in Role : slot'[<<b, q>>] = IF b = a /\ q = r THEN n ELSE slot[<<b, q>>]
        BY <3>0 DEF WorkTypes, Slot
      <3>3. WorkTypes(t)'
        BY <1>0, <1>1, <3>0, <3>1 DEF WorkTypes, Phase
      <3>4. SlotInv' /\ SlotsKept /\ ShownKept
        BY <3>0, <3>1, <3>2 DEF SlotInv, SlotsKept, ShownKept, WorkTypes
      <3>5. Alive' = Alive
        BY <3>0, <3>1 DEF Alive, WorkTypes
      <3> QED
        BY <3>0, <3>1, <3>2, <3>3, <3>4, <3>5 DEF WorkTypes
    <2> QED
      BY <2>1, <2>2
  <1>5. ChildInv'
    <2>1. \A p \in Alive' : Sound(JobOf[p])' => p \in children'
      BY <1>0, <1>1, <1>2, <1>4 DEF ChildInv, Alive
    <2>2. ASSUME NEW p \in children', Sound(JobOf[p])', NEW b \in ManagedArrs, NEW q \in Role,
                 JobOf[p] = JobOfSlot(b, q)
          PROVE  slot'[<<b, q>>] = p
      <3>1. p \in children /\ p # cur /\ Sound(JobOf[p]) /\ slot[<<b, q>>] = p /\ b \in Arr
        BY <1>0, <1>1, <2>2, ManagedFacts DEF ChildInv
      <3>2. meta = JobOfSlot(b, q) => slot[<<b, q>>] = cur
        BY <1>2, <2>2, <3>1 DEF ChildInv
      <3> QED
        BY <1>4, <3>1, <3>2
    <2> QED
      BY <1>0, <1>1, <2>1, <2>2 DEF ChildInv
  <1>6. MetaInv'
    BY <1>0, <1>1, <1>2, JobFacts DEF MetaInv, Sound, WorkTypes
  <1>7. TodoInv(t)'
    BY <1>0, <1>1, <1>2 DEF TodoInv, WorkTypes
  <1>8. CurInv(t)' /\ RespawnInv(t)'
    BY <1>0, <1>1, JobFacts DEF CurInv, RespawnInv, Sound
  <1>9. QueueInv(t)'
    BY <1>0, <1>1, <1>2, <1>4 DEF QueueInv
  <1>10. HandKept(t)
    BY <1>0, <1>1, <1>2, <1>4 DEF HandKept, WorkTypes
  <1> QED
    BY <1>4, <1>5, <1>6, <1>7, <1>8, <1>9, <1>10

\* The starts to try again are taken from the queue, and those that raise go back there.
LEMMA ReapDoneStep ==
  ASSUME NEW t, MainInv(t), Apart(t),
         ReapDone \/ \E a \in Arr, r \in Role : RetryFails(a, r)
  PROVE  MainInv(t)' /\ HandKept(t) /\ SlotsKept /\ ShownKept
  <1> USE DEF MainInv
  <1>0. /\ task' = task /\ managed' = managed /\ ManagedArrs' = ManagedArrs
        /\ clash \subseteq clash' /\ overlap \subseteq overlap'
        /\ \A j : Sound(j)' => Sound(j)
    BY ApartKeeps
  <1>1. /\ pc \in {"reap", "retry"} /\ pc' = "retry"
        /\ pending' \cup retry' \subseteq pending \cup retry /\ pending' \cap retry' = {}
        /\ UNCHANGED <<phase, children, registry, slot, todo, arrs, cur, meta>>
    <2>1. CASE ReapDone
      BY <2>1 DEF ReapDone, Goto, tracked
    <2>2. CASE \E a \in Arr, r \in Role : RetryFails(a, r)
      BY <2>2 DEF RetryFails, tracked, QueueInv
    <2> QED
      BY <2>1, <2>2
  <1>2. Alive' = Alive
    BY <1>1 DEF Alive
  <1>3. WorkTypes(t)'
    BY <1>0, <1>1 DEF WorkTypes
  <1>4. SlotInv' /\ ChildInv'
    BY <1>0, <1>1, <1>2 DEF SlotInv, ChildInv
  <1>5. MetaInv'
    BY <1>0, <1>1 DEF MetaInv, Sound
  <1>6. TodoInv(t)' /\ RespawnInv(t)'
    BY <1>0, <1>1 DEF TodoInv, RespawnInv
  <1>7. CurInv(t)'
    BY <1>0, <1>1 DEF CurInv, Sound, Closing, Ended
  <1>8. QueueInv(t)'
    BY <1>0, <1>1 DEF QueueInv
  <1>9. HandKept(t) /\ SlotsKept /\ ShownKept
    BY <1>1, <1>2 DEF HandKept, SlotsKept, ShownKept
  <1> QED
    BY <1>3, <1>4, <1>5, <1>6, <1>7, <1>8, <1>9

\* Every loop of an object that could not be respawned is queued.
LEMMA RespawnFailsStep ==
  ASSUME NEW t, MainInv(t), Apart(t), NEW a \in Arr, RespawnFails(a)
  PROVE  MainInv(t)' /\ HandKept(t) /\ SlotsKept /\ ShownKept
  <1> USE DEF MainInv
  <1>0. /\ task' = task /\ managed' = managed /\ ManagedArrs' = ManagedArrs
        /\ clash \subseteq clash' /\ overlap \subseteq overlap'
        /\ \A j : Sound(j)' => Sound(j)
    BY ApartKeeps
  <1>1. /\ pc = "respawn" /\ pc' = "respawn" /\ a \in arrs /\ arrs' = arrs \ {a}
        /\ pending' \subseteq pending \cup {<<a, r>> : r \in Role}
        /\ UNCHANGED <<phase, children, registry, slot, todo, retry, cur, meta>>
    BY JobFacts DEF RespawnFails, tracked, Enqueue
  <1>2. Alive' = Alive /\ retry = {}
    BY <1>1 DEF Alive, QueueInv, Closing, Ended
  <1>3. WorkTypes(t)'
    BY <1>0, <1>1, JobFacts DEF WorkTypes
  <1>4. SlotInv' /\ ChildInv'
    BY <1>0, <1>1, <1>2 DEF SlotInv, ChildInv
  <1>5. MetaInv'
    BY <1>0, <1>1 DEF MetaInv, Sound
  <1>6. TodoInv(t)' /\ RespawnInv(t)'
    BY <1>0, <1>1 DEF TodoInv, RespawnInv
  <1>7. CurInv(t)'
    BY <1>0, <1>1 DEF CurInv, Sound, Closing, Ended
  <1>8. QueueInv(t)'
    <2>1. ASSUME NEW r \in Role, Sound(JobOfSlot(a, r))
          PROVE  /\ a \in ManagedArrs /\ JobOfSlot(a, r) \notin task[t].jobs
                 /\ slot[<<a, r>>] \notin children
      <3>1. /\ a \in ManagedArrs /\ JobOfSlot(a, r) \notin task[t].jobs
            /\ \A p \in children : JobOf[p] # JobOfSlot(a, r)
        BY <1>1, <2>1 DEF RespawnInv
      <3>2. slot[<<a, r>>] \in children => JobOf[slot[<<a, r>>]] = JobOfSlot(a, r)
        BY JobFacts DEF SlotInv, WorkTypes
      <3> QED
        BY <3>1, <3>2
    <2>2. \A b \in Arr, q \in Role : <<b, q>> \in pending' => <<b, q>> \in pending \/ b = a
      BY <1>1
    <2> QED
      BY <1>0, <1>1, <1>2, <2>1, <2>2 DEF QueueInv
  <1>9. HandKept(t) /\ SlotsKept /\ ShownKept
    BY <1>1, <1>2 DEF HandKept, SlotsKept, ShownKept
  <1> QED
    BY <1>3, <1>4, <1>5, <1>6, <1>7, <1>8, <1>9

\* The processes made for the loops of an object.
LEMMA SpawnedFacts ==
  ASSUME NEW a \in Arr, NEW f \in Spawned(a)
  PROVE  \A r \in RolesOf[a] : /\ f[r] \in Free /\ JobOf[f[r]] = JobOfSlot(a, r) /\ r \in Role
                               /\ f[r] \in Proc /\ f[r] \notin Alive /\ f[r] \notin children
                               /\ f[r] \notin todo /\ f[r] # cur /\ registry[f[r]] = None
                               /\ \A b \in Arr, q \in Role : slot[<<b, q>>] # f[r]
  <1>1. \A r \in RolesOf[a] : f[r] \in Free /\ JobOf[f[r]] = JobOfSlot(a, r) /\ r \in Role
    BY JobFacts DEF Spawned
  <1> QED
    BY <1>1, FreeFacts

\* An object is respawned after its workers were stopped: one worker for every loop.
LEMMA RespawnStep ==
  ASSUME NEW t, ManagedInv, MainInv(t), Apart(t), NEW a \in Arr, Respawn(a)
  PROVE  MainInv(t)' /\ HandKept(t) /\ SlotsKept /\ ShownKept
  <1> USE DEF MainInv
  <1>0. /\ task' = task /\ managed' = managed /\ ManagedArrs' = ManagedArrs
        /\ clash \subseteq clash' /\ overlap \subseteq overlap'
        /\ \A j : Sound(j)' => Sound(j)
    BY ApartKeeps
  <1>1. PICK f \in Spawned(a), bad \in SUBSET RolesOf[a] :
          LET up == RolesOf[a] \ bad IN
          /\ FillSlots(a, f)
          /\ Construct(Image(f, bad), Image(f, up))
          /\ Track(Image(f, up))
          /\ pending' = Enqueue(a, bad)
          /\ overlap' = overlap \cup ({JobOfSlot(a, r) : r \in up} \cap PendingJobs)
    BY DEF Respawn
  <1> DEFINE up == RolesOf[a] \ bad
             U == {f[r] : r \in up}
             B == {f[r] : r \in bad}
  <1>2. /\ pc = "respawn" /\ pc' = "respawn" /\ a \in arrs /\ arrs' = arrs \ {a}
        /\ UNCHANGED <<todo, retry, cur, meta>>
    BY DEF Respawn
  <1>3. /\ phase' = [p \in Proc |-> IF p \in U THEN "alive" ELSE IF p \in B THEN "made" ELSE phase[p]]
        /\ children' = children \cup U
        /\ registry' = [p \in Proc |-> IF p \in U THEN JobOf[p] ELSE registry[p]]
    BY <1>1 DEF Construct, Track, Image
  <1>4. \A r \in RolesOf[a] : /\ JobOf[f[r]] = JobOfSlot(a, r) /\ r \in Role
                              /\ f[r] \in Proc /\ f[r] \notin Alive /\ f[r] \notin children
                              /\ f[r] \notin todo /\ f[r] # cur
                              /\ \A b \in Arr, q \in Role : slot[<<b, q>>] # f[r]
    BY SpawnedFacts
  <1>5. \A b \in Arr, q \in Role :
           slot'[<<b, q>>] = IF b = a /\ q \in RolesOf[a] THEN f[q] ELSE slot[<<b, q>>]
    <2>1. FillSlots(a, f)
      BY <1>1
    <2> QED
      BY <2>1 DEF FillSlots, Slot
  <1>6. \A r \in RolesOf[a] : Sound(JobOfSlot(a, r)) =>
           a \in ManagedArrs /\ JobOfSlot(a, r) \notin task[t].jobs
           /\ \A p \in children : JobOf[p] # JobOfSlot(a, r)
    BY <1>2, <1>4 DEF RespawnInv
  <1>7. \A j \in task[t].jobs : ~Sound(j)
    BY <1>2 DEF RespawnInv
  <1>8. U \subseteq Proc /\ B \subseteq Proc /\ U \cap children = {} /\ U \cap todo = {} /\ cur \notin U \cup B
    BY <1>4
  <1>9. Alive' = Alive \cup U
    BY <1>3, <1>4 DEF Alive, WorkTypes
  <1>10. retry = {} /\ cur = None /\ meta = None
    BY <1>2 DEF QueueInv, CurInv, Closing, Ended
  <1>11. WorkTypes(t)'
    <2>1. phase' \in [Proc -> Phase]
      BY <1>3 DEF WorkTypes, Phase
    <2>2. registry' \in [Proc -> Job \cup {None}]
      BY <1>3, JobFacts DEF WorkTypes
    <2>3. slot' \in [Slot -> Proc \cup {None}]
      <3>1. slot' = [s \in Slot |-> IF s[1] = a /\ s[2] \in RolesOf[a] THEN f[s[2]] ELSE slot[s]]
        BY <1>1 DEF FillSlots
      <3> QED
        BY <1>4, <3>1 DEF WorkTypes
    <2>4. pending' \subseteq Slot
      BY <1>1, <1>4, JobFacts DEF Enqueue, WorkTypes
    <2> QED
      BY <1>0, <1>2, <1>3, <1>8, <2>1, <2>2, <2>3, <2>4 DEF WorkTypes
  <1>12. SlotInv'
    BY <1>4, <1>5 DEF SlotInv
  <1>13. ChildInv'
    <2>1. \A p \in Alive' : Sound(JobOf[p])' => p \in children'
      BY <1>0, <1>3, <1>9 DEF ChildInv
    <2>2. ASSUME NEW p \in children', Sound(JobOf[p])'
          PROVE  /\ \E b \in ManagedArrs : JobOf[p] \in ArrJobs(b)
                 /\ \A b \in ManagedArrs, q \in Role : JobOf[p] = JobOfSlot(b, q) => slot'[<<b, q>>] = p
      <3>1. CASE p \in U
        <4>1. PICK r \in RolesOf[a] : p = f[r]
          BY <3>1
        <4>2. JobOf[p] = JobOfSlot(a, r) /\ r \in Role /\ a \in ManagedArrs
          BY <1>0, <1>4, <1>6, <2>2, <4>1
        <4>3. \A b \in ManagedArrs, q \in Role : JobOf[p] = JobOfSlot(b, q) => b = a /\ q = r
          BY <4>2, OneHolder
        <4> QED
          BY <1>5, <4>1, <4>2, <4>3 DEF ArrJobs
      <3>2. CASE p \notin U
        <4>1. p \in children /\ Sound(JobOf[p])
          BY <1>0, <1>3, <2>2, <3>2
        <4>2. \A q \in RolesOf[a] : JobOf[p] # JobOfSlot(a, q)
          BY <1>6, <4>1
        <4> QED
          BY <1>5, <4>1, <4>2, ManagedFacts DEF ChildInv
      <3> QED
        BY <3>1, <3>2
    <2> QED
      BY <1>0, <2>1, <2>2 DEF ChildInv
  <1>14. MetaInv'
    BY <1>0, <1>3 DEF MetaInv, Sound
  <1>15. TodoInv(t)'
    BY <1>0, <1>2, <1>3, <1>8 DEF TodoInv, WorkTypes
  <1>16. CurInv(t)'
    BY <1>2, <1>10, JobFacts DEF CurInv, Sound
  <1>17. QueueInv(t)'
    <2>1. ASSUME NEW b \in Arr, NEW q \in Role, <<b, q>> \in pending', Sound(JobOfSlot(b, q))'
          PROVE  /\ b \in ManagedArrs /\ JobOfSlot(b, q) \notin task[t].jobs
                 /\ slot'[<<b, q>>] \notin children'
      <3>1. CASE b = a /\ q \in bad
        <4>1. f[q] \notin U
          BY <1>4, <3>1, JobFacts
        <4> QED
          BY <1>0, <1>3, <1>4, <1>5, <1>6, <2>1, <3>1, <4>1
      <3>2. CASE ~(b = a /\ q \in bad)
        <4>1. <<b, q>> \in pending
          BY <1>1, <2>1, <3>2, SlotFacts DEF Enqueue
        <4>2. JobOfSlot(b, q) \in PendingJobs
          BY <4>1 DEF PendingJobs
        <4>3. ~(b = a /\ q \in up)
          BY <1>1, <2>1, <4>2 DEF Sound
        <4>4. slot'[<<b, q>>] = slot[<<b, q>>]
          BY <1>5, <3>2, <4>3
        <4> QED
          BY <1>0, <1>3, <1>4, <2>1, <4>1, <4>4 DEF QueueInv
      <3> QED
        BY <3>1, <3>2
    <2> QED
      BY <1>0, <1>2, <1>10, <2>1 DEF QueueInv
  <1>18. RespawnInv(t)'
    <2>1. ASSUME NEW b \in arrs', NEW q \in Role, Sound(JobOfSlot(b, q))'
          PROVE  b \in ManagedArrs /\ \A p \in children' : JobOf[p] # JobOfSlot(b, q)
      <3>1. b \in ManagedArrs /\ \A p \in children : JobOf[p] # JobOfSlot(b, q)
        BY <1>0, <1>2, <2>1 DEF RespawnInv
      <3>2. ASSUME NEW r \in up, JobOf[f[r]] = JobOfSlot(b, q) PROVE FALSE
        BY <1>0, <1>2, <1>4, <1>6, <2>1, <3>1, <3>2, OneHolder
      <3> QED
        BY <1>3, <3>1, <3>2
    <2> QED
      BY <1>0, <1>2, <1>7, <2>1 DEF RespawnInv
  <1>19. HandKept(t)
    BY <1>0, <1>7 DEF HandKept
  <1>20. SlotsKept /\ ShownKept
    BY <1>3, <1>4, <1>5 DEF SlotsKept, ShownKept, WorkTypes, Slot
  <1> QED
    BY <1>11, <1>12, <1>13, <1>14, <1>15, <1>16, <1>17, <1>18, <1>19, <1>20

\* A retry makes all loops of its object anew and starts only its own: a worker of the other
\* one that is listed is no longer shown, which is recorded (Hidden).
LEMMA RetryOneStep ==
  ASSUME NEW t, ManagedInv, MainInv(t), Apart(t), Hidden \subseteq clash',
         NEW a \in Arr, NEW r \in Role, RetryOne(a, r)
  PROVE  MainInv(t)' /\ HandKept(t) /\ SlotsKept /\ ShownKept
  <1> USE DEF MainInv
  <1>0. /\ task' = task /\ managed' = managed /\ ManagedArrs' = ManagedArrs
        /\ clash \subseteq clash' /\ overlap \subseteq overlap'
        /\ \A j : Sound(j)' => Sound(j)
    BY ApartKeeps
  <1>1. PICK f \in Spawned(a), up \in SUBSET ({r} \cap RolesOf[a]) :
          /\ FillSlots(a, f)
          /\ Construct(Image(f, RolesOf[a]), Image(f, up))
          /\ Track(Image(f, up))
          /\ \/ pending' = pending
             \/ pending' = pending \cup {<<a, r>>} /\ up = {}
    <2>1. PICK f \in Spawned(a) :
            /\ FillSlots(a, f)
            /\ \/ /\ Construct(Image(f, RolesOf[a]), Image(f, {r} \cap RolesOf[a]))
                  /\ Track(Image(f, {r} \cap RolesOf[a]))
                  /\ pending' = pending
               \/ /\ Construct(Image(f, RolesOf[a]), {})
                  /\ pending' = pending \cup {<<a, r>>}
                  /\ UNCHANGED tracked
      BY DEF RetryOne
    <2>2. CASE UNCHANGED tracked
               /\ Construct(Image(f, RolesOf[a]), {}) /\ pending' = pending \cup {<<a, r>>}
      <3>1. Image(f, {}) = {}
        BY DEF Image
      <3>2. Track({})
        BY <2>2 DEF Track, tracked, WorkTypes
      <3> QED
        BY <2>1, <2>2, <3>1, <3>2
    <2>3. CASE ~(UNCHANGED tracked
               /\ Construct(Image(f, RolesOf[a]), {}) /\ pending' = pending \cup {<<a, r>>})
      BY <2>1, <2>3
    <2> QED
      BY <2>2, <2>3
  <1> DEFINE U == {f[q] : q \in up}
             N == {f[q] : q \in RolesOf[a]}
  <1>2. /\ pc = "retry" /\ pc' = "retry" /\ <<a, r>> \in retry /\ retry' = retry \ {<<a, r>>}
        /\ UNCHANGED <<todo, arrs, cur, meta>>
    BY DEF RetryOne
  <1>3. /\ phase' = [p \in Proc |-> IF p \in U THEN "alive" ELSE IF p \in N THEN "made" ELSE phase[p]]
        /\ children' = children \cup U
        /\ registry' = [p \in Proc |-> IF p \in U THEN JobOf[p] ELSE registry[p]]
    BY <1>1 DEF Construct, Track, Image
  <1>4. \A q \in RolesOf[a] : /\ JobOf[f[q]] = JobOfSlot(a, q) /\ q \in Role
                              /\ f[q] \in Proc /\ f[q] \notin Alive /\ f[q] \notin children
                              /\ f[q] \notin todo /\ f[q] # cur
                              /\ \A b \in Arr, s \in Role : slot[<<b, s>>] # f[q]
    BY SpawnedFacts
  <1>5. \A b \in Arr, q \in Role :
           slot'[<<b, q>>] = IF b = a /\ q \in RolesOf[a] THEN f[q] ELSE slot[<<b, q>>]
    <2>1. FillSlots(a, f)
      BY <1>1
    <2> QED
      BY <2>1 DEF FillSlots, Slot
  <1>6. Sound(JobOfSlot(a, r)) => /\ a \in ManagedArrs /\ JobOfSlot(a, r) \notin task[t].jobs
                                  /\ slot[<<a, r>>] \notin children
    BY <1>2 DEF QueueInv
  <1>7. \A q \in RolesOf[a] : JobOfSlot(a, q) \in task[t].jobs => ~Sound(JobOfSlot(a, q))'
    <2> SUFFICES ASSUME NEW q \in RolesOf[a], JobOfSlot(a, q) \in task[t].jobs,
                        Sound(JobOfSlot(a, q))'
                 PROVE  FALSE
      OBVIOUS
    <2>1. q \in Role /\ slot'[<<a, q>>] # slot[<<a, q>>]
      BY <1>4, <1>5
    <2> QED
      BY <2>1 DEF Apart, Undisturbed
  <1>8. \A q \in RolesOf[a] \ {r} : slot[<<a, q>>] \in children => ~Sound(JobOfSlot(a, q))'
    <2> SUFFICES ASSUME NEW q \in RolesOf[a] \ {r}, slot[<<a, q>>] \in children,
                        Sound(JobOfSlot(a, q))'
                 PROVE  FALSE
      OBVIOUS
    <2>1. q \in Role /\ slot'[<<a, q>>] # slot[<<a, q>>] /\ slot[<<a, q>>] \in children'
      BY <1>3, <1>4, <1>5
    <2>2. <<a, q>> \in Slot \ (retry \ retry') /\ <<a, q>>[1] = a /\ <<a, q>>[2] = q
      BY <1>2, <2>1, JobFacts
    <2>3. JobOfSlot(a, q) \in Hidden
      BY <1>2, <2>1, <2>2 DEF Hidden
    <2> QED
      BY <2>3 DEF Sound
  <1>9. U \subseteq N /\ N \subseteq Proc /\ N \cap children = {} /\ N \cap todo = {} /\ cur \notin N
    BY <1>4
  <1>10. Alive' = Alive \cup U
    BY <1>3, <1>4 DEF Alive, WorkTypes
  <1>11. cur = None /\ meta = None
    BY <1>2 DEF CurInv, Closing, Ended
  <1>12. WorkTypes(t)'
    <2>1. phase' \in [Proc -> Phase]
      BY <1>3 DEF WorkTypes, Phase
    <2>2. registry' \in [Proc -> Job \cup {None}]
      BY <1>3, JobFacts DEF WorkTypes
    <2>3. slot' \in [Slot -> Proc \cup {None}]
      <3>1. slot' = [s \in Slot |-> IF s[1] = a /\ s[2] \in RolesOf[a] THEN f[s[2]] ELSE slot[s]]
        BY <1>1 DEF FillSlots
      <3> QED
        BY <1>4, <3>1 DEF WorkTypes
    <2>4. pending' \subseteq Slot /\ retry' \subseteq Slot
      BY <1>1, <1>2, JobFacts DEF WorkTypes
    <2> QED
      BY <1>0, <1>2, <1>3, <1>9, <2>1, <2>2, <2>3, <2>4 DEF WorkTypes
  <1>13. SlotInv'
    BY <1>4, <1>5 DEF SlotInv
  <1>14. ChildInv'
    <2>1. \A p \in Alive' : Sound(JobOf[p])' => p \in children'
      BY <1>0, <1>3, <1>10 DEF ChildInv
    <2>2. ASSUME NEW p \in children', Sound(JobOf[p])'
          PROVE  /\ \E b \in ManagedArrs : JobOf[p] \in ArrJobs(b)
                 /\ \A b \in ManagedArrs, q \in Role : JobOf[p] = JobOfSlot(b, q) => slot'[<<b, q>>] = p
      <3>1. CASE p \in U
        <4>1. p = f[r] /\ r \in RolesOf[a]
          BY <3>1
        <4>2. JobOf[p] = JobOfSlot(a, r) /\ a \in ManagedArrs
          BY <1>0, <1>4, <1>6, <2>2, <4>1
        <4>3. \A b \in ManagedArrs, q \in Role : JobOf[p] = JobOfSlot(b, q) => b = a /\ q = r
          BY <4>2, OneHolder
        <4> QED
          BY <1>5, <4>1, <4>2, <4>3 DEF ArrJobs
      <3>2. CASE p \notin U
        <4>1. p \in children /\ Sound(JobOf[p])
          BY <1>0, <1>3, <2>2, <3>2
        <4>2. ASSUME NEW b \in ManagedArrs, NEW q \in Role, JobOf[p] = JobOfSlot(b, q)
              PROVE  slot'[<<b, q>>] = p
          <5>1. slot[<<b, q>>] = p /\ b \in Arr
            BY <4>1, <4>2, ManagedFacts DEF ChildInv
          <5>2. ~(b = a /\ q \in RolesOf[a])
            BY <1>6, <1>8, <2>2, <4>1, <4>2, <5>1
          <5> QED
            BY <1>5, <5>1, <5>2
        <4> QED
          BY <4>1, <4>2 DEF ChildInv
      <3> QED
        BY <3>1, <3>2
    <2> QED
      BY <1>0, <2>1, <2>2 DEF ChildInv
  <1>15. MetaInv'
    BY <1>0, <1>3 DEF MetaInv, Sound
  <1>16. TodoInv(t)'
    BY <1>0, <1>2, <1>3, <1>9 DEF TodoInv, WorkTypes
  <1>17. CurInv(t)'
    BY <1>2, <1>11, JobFacts DEF CurInv, Sound
  <1>18. QueueInv(t)'
    <2>0. pending' \cup retry' \subseteq pending \cup retry /\ pending' \cap retry' = {}
      BY <1>1, <1>2 DEF QueueInv
    <2>1. ASSUME NEW b \in Arr, NEW q \in Role, <<b, q>> \in pending' \cup retry', Sound(JobOfSlot(b, q))'
          PROVE  /\ b \in ManagedArrs /\ JobOfSlot(b, q) \notin task[t].jobs
                 /\ slot'[<<b, q>>] \notin children'
      <3>1. /\ b \in ManagedArrs /\ JobOfSlot(b, q) \notin task[t].jobs
            /\ slot[<<b, q>>] \notin children
        BY <1>0, <2>0, <2>1 DEF QueueInv
      <3>2. CASE b = a /\ q \in RolesOf[a]
        <4>0. \A x, y \in RolesOf[a] : f[x] = f[y] => x = y
          <5>1. \A x, y \in RolesOf[a] : JobOfSlot(a, x) = JobOfSlot(a, y) => x = y
            BY JobFacts
          <5> QED
            BY <1>4, <5>1
        <4>1. f[q] \in U => q = r /\ up # {}
          BY <3>2, <4>0
        <4>2. <<a, r>> \in pending' \cup retry' => up = {}
          BY <1>1, <1>2 DEF QueueInv
        <4> QED
          BY <1>3, <1>4, <1>5, <2>1, <3>1, <3>2, <4>1, <4>2
      <3>3. CASE ~(b = a /\ q \in RolesOf[a])
        BY <1>3, <1>4, <1>5, <3>1, <3>3
      <3> QED
        BY <3>1, <3>2, <3>3
    <2> QED
      BY <1>0, <1>2, <2>0, <2>1 DEF QueueInv
  <1>19. RespawnInv(t)'
    BY <1>2 DEF RespawnInv
  <1>20. HandKept(t)
    <2>1. \A p \in N : JobOf[p] \in task[t].jobs => ~Sound(JobOf[p])'
      BY <1>4, <1>7
    <2> QED
      BY <1>0, <1>2, <1>3, <1>9, <1>10, <2>1 DEF HandKept, WorkTypes
  <1>21. SlotsKept /\ ShownKept
    BY <1>3, <1>4, <1>5, <1>9 DEF SlotsKept, ShownKept, WorkTypes, Slot
  <1> QED
    BY <1>12, <1>13, <1>14, <1>15, <1>16, <1>17, <1>18, <1>19, <1>20, <1>21

\* The supervisor forgets no overlap.
LEMMA OverlapKept ==
  ASSUME Supervised
  PROVE  overlap \subseteq overlap'
  <1>1. ASSUME NEW a \in Arr, Respawn(a) PROVE overlap \subseteq overlap'
    BY <1>1 DEF Respawn
  <1>2. ASSUME MainLoop, ~\E a \in Arr : Respawn(a) PROVE overlap' = overlap
    BY <1>2, Zenon DEF MainLoop, Begin, QueueFailed, LoopShutdown, StopAll, Checkpoint, Respawned,
       Look, GiveUp,
       ReapDone, RetryDone, Rest, Cleanup, Exit, SkipStarted, StartOne, StartOneFails, ReapOther,
       ReapDead, ReapCrashed, Restart, RespawnFails, RetryOne, RetryFails
  <1>3. ASSUME ~MainLoop PROVE overlap' = overlap
    BY <1>3 DEF Supervised, Restarter, RestarterSignals, RestarterKills, RestarterExecs, RequestRestart, Terminated, Interrupted,
       SignalRestart, Forget, WorkerExits
  <1> QED
    BY <1>1, <1>2, <1>3

\* Moves of the main thread, the exit path and the ends of workers.
LEMMA MoveStep ==
  ASSUME NEW t, MainInv(t), Apart(t),
         \/ LoopShutdown \/ Respawned \/ RetryDone \/ Rest \/ Cleanup \/ Exit
         \/ Restarter \/ RequestRestart \/ Terminated \/ Interrupted
         \/ \E p \in Proc : SignalRestart(p)
         \/ \E j \in Job : Forget(j)
         \/ \E p \in Proc : \E how \in {"clean", "crashed"} : WorkerExits(p, how)
  PROVE  MainInv(t)' /\ HandKept(t) /\ SlotsKept /\ ShownKept
  <1>1. WorkTypes(t) /\ QueueInv(t)
    BY DEF MainInv
  <1>2. /\ UNCHANGED <<children, registry, slot, pending, retry, arrs, todo, cur, meta>>
        /\ \/ pc' = pc
           \/ pc' \in Closing
           \/ pc' \in {"loop", "rest", "nap"} /\ pc \in {"respawn", "retry", "rest", "nap"} /\ retry = {}
    <2>1. CASE LoopShutdown \/ Respawned \/ RetryDone
      BY <1>1, <2>1 DEF LoopShutdown, Respawned, RetryDone, Goto, tracked, Closing, Ended, QueueInv
    <2>2. CASE Rest
      BY <1>1, <2>2 DEF Rest, Goto, tracked, Closing, Ended, QueueInv
    <2>3. CASE Cleanup \/ Exit
      BY <2>3 DEF Cleanup, Exit, Goto, tracked, Closing, Ended
    <2>4. CASE Restarter \/ RequestRestart \/ Terminated \/ Interrupted
      BY <2>4 DEF Restarter, RestarterSignals, RestarterKills, RestarterExecs, RequestRestart, Terminated, Interrupted, Goto,
         tracked, main, Closing, Ended
    <2>5. CASE \/ \E p \in Proc : SignalRestart(p)
               \/ \E j \in Job : Forget(j)
               \/ \E p \in Proc : \E how \in {"clean", "crashed"} : WorkerExits(p, how)
      BY <2>5 DEF SignalRestart, Forget, WorkerExits, tracked, main
    <2> QED
      BY <2>1, <2>2, <2>3, <2>4, <2>5
  <1>3. \/ phase' = phase \/ KillChildren
        \/ \E p \in Proc : \E how \in {"clean", "crashed"} : WorkerExits(p, how)
    <2>1. CASE LoopShutdown \/ Respawned \/ RetryDone \/ Rest \/ Cleanup \/ Exit
      BY <2>1 DEF LoopShutdown, Respawned, RetryDone, Rest, Cleanup, Exit
    <2>2. CASE Restarter \/ RequestRestart \/ Terminated \/ Interrupted
      BY <2>2 DEF Restarter, RestarterSignals, RestarterKills, RestarterExecs, RequestRestart, Terminated, Interrupted
    <2>3. CASE \/ \E p \in Proc : SignalRestart(p)
               \/ \E j \in Job : Forget(j)
      BY <2>3 DEF SignalRestart, Forget
    <2> QED
      BY <2>1, <2>2, <2>3
  <1>4. /\ phase' \in [Proc -> Phase] /\ Alive' \subseteq Alive
        /\ \A p \in Proc : /\ phase[p] = "crashed" => phase'[p] = "crashed"
                           /\ phase'[p] = "made" <=> phase[p] = "made"
    <2>1. CASE phase' = phase
      BY <1>1, <2>1 DEF WorkTypes, Alive
    <2>2. CASE KillChildren
      BY <1>1, <2>2 DEF WorkTypes, Alive, KillChildren, Phase
    <2>3. ASSUME NEW p \in Proc, NEW how \in {"clean", "crashed"}, WorkerExits(p, how)
          PROVE  /\ phase' \in [Proc -> Phase] /\ Alive' \subseteq Alive
                 /\ \A q \in Proc : /\ phase[q] = "crashed" => phase'[q] = "crashed"
                                    /\ phase'[q] = "made" <=> phase[q] = "made"
      <3>1. phase[p] = "alive" /\ phase' = [phase EXCEPT ![p] = how]
        BY <2>3 DEF WorkerExits
      <3> QED
        BY <1>1, <3>1 DEF WorkTypes, Alive, Phase
    <2> QED
      BY <1>3, <2>1, <2>2, <2>3
  <1> QED
    BY <1>2, <1>4, PcStep

\* Every step of the supervisor keeps the invariant, and leaves what a reload has in hand.
LEMMA SupervisorStep ==
  ASSUME NEW t \in Thread, ReloadInv(t), MainInv(t), HeldInv(t), Beside(Supervised)
  PROVE  /\ Apart(t) /\ MainInv(t)' /\ HandKept(t) /\ SlotsKept /\ ShownKept
         /\ missed' = missed \cup Misses
  <1>1. /\ Supervised /\ Hidden \subseteq clash' /\ missed' = missed \cup Misses
    BY DEF Beside
  <1>2. Apart(t) /\ ManagedInv /\ WorkTypes(t)
    BY <1>1, OverlapKept, ApartFacts DEF ReloadInv, MainInv
  <1>3. pc \notin {"boot", "start"}
    BY <1>2 DEF WorkTypes, Closing, Ended
  <1> DEFINE Good == MainInv(t)' /\ HandKept(t) /\ SlotsKept /\ ShownKept
  <1>4. CASE \/ LoopShutdown \/ Respawned \/ RetryDone \/ Rest \/ Cleanup \/ Exit
             \/ Restarter \/ RequestRestart \/ Terminated \/ Interrupted
             \/ \E p \in Proc : SignalRestart(p)
             \/ \E j \in Job : Forget(j)
             \/ \E p \in Proc : \E how \in {"clean", "crashed"} : WorkerExits(p, how)
    BY <1>1, <1>2, <1>4, MoveStep
  <1>5. CASE StopAll
    BY <1>1, <1>2, <1>5, StopAllStep
  <1>6. CASE Checkpoint
    BY <1>1, <1>2, <1>6, CheckpointStep
  <1>7. CASE Look \/ \E p \in Proc : ReapOther(p)
    BY <1>1, <1>2, <1>7, LookStep
  <1>8. CASE GiveUp
    BY <1>1, <1>2, <1>8, GiveUpStep
  <1>9. CASE ReapDone \/ \E a \in Arr, r \in Role : RetryFails(a, r)
    BY <1>1, <1>2, <1>9, ReapDoneStep
  <1>10. ASSUME NEW p \in Proc, ReapDead(p) \/ ReapCrashed(p) \/ Restart(p) PROVE Good
    BY <1>1, <1>2, <1>10, ReapDeadStep, ReapCrashedStep, RestartStep
  <1>11. ASSUME NEW a \in Arr, \/ Respawn(a) \/ RespawnFails(a)
                               \/ \E r \in Role : RetryOne(a, r)
         PROVE  Good
    BY <1>1, <1>2, <1>11, RespawnStep, RespawnFailsStep, RetryOneStep
  <1>12. /\ ~Begin /\ ~QueueFailed
         /\ \A p \in Proc : ~SkipStarted(p) /\ ~StartOne(p) /\ ~StartOneFails(p)
    BY <1>3 DEF Begin, QueueFailed, SkipStarted, StartOne, StartOneFails
  <1>13. CASE MainLoop
    <2>1. PICK p \in Proc \cup {None}, a \in Arr \cup {None} :
            \/ LoopShutdown \/ StopAll \/ Checkpoint \/ Respawned
            \/ Look \/ GiveUp \/ ReapDone \/ RetryDone \/ Rest \/ Cleanup \/ Exit
            \/ p \in Proc /\ (ReapOther(p) \/ ReapDead(p) \/ ReapCrashed(p) \/ Restart(p))
            \/ /\ a \in Arr
               /\ \/ Respawn(a) \/ RespawnFails(a)
                  \/ \E r \in Role : RetryOne(a, r) \/ RetryFails(a, r)
      BY <1>12, <1>13 DEF MainLoop
    <2> QED
      BY <1>1, <1>2, <1>4, <1>5, <1>6, <1>7, <1>8, <1>9, <1>10, <1>11, <2>1
  <1>14. CASE ~MainLoop
    BY <1>1, <1>2, <1>4, <1>14 DEF Supervised
  <1> QED
    BY <1>1, <1>2, <1>13, <1>14

\* What a thread has in hand stays as it is beside the main thread ...
LEMMA HeldBeside ==
  ASSUME NEW t \in Thread, ReloadInv(t), MainInv(t), MainInv(t)', HeldInv(t), Apart(t), HandKept(t)
  PROVE  HeldInv(t)'
  <1>0. /\ task' = task /\ managed' = managed /\ ManagedArrs' = ManagedArrs
        /\ config' = config /\ off' = off /\ \A j : Sound(j)' => Sound(j)
    BY ApartKeeps DEF Apart
  <1>1. /\ HandInv(t) /\ ContestInv(t) /\ StopInv(t) /\ NewInv(t) /\ SearchInv(t) /\ RebuildInv(t)
        /\ SlotInv /\ WorkTypes(t) /\ Work(t)
    BY DEF HeldInv, MainInv, ReloadInv
  <1>2. \A a \in Arr, r \in Role : JobOfSlot(a, r) \in task[t].jobs /\ Sound(JobOfSlot(a, r))' =>
           /\ slot'[<<a, r>>] = slot[<<a, r>>]
           /\ slot[<<a, r>>] # None => slot[<<a, r>>] \in Proc /\ JobOf[slot[<<a, r>>]] = JobOfSlot(a, r)
    BY <1>1, JobFacts DEF Apart, Undisturbed, SlotInv, WorkTypes
  <1>3. /\ task[t].arr # None => task[t].arr \in Arr /\ ArrJobs(task[t].arr) \subseteq task[t].jobs
        /\ task[t].at \in Stopping => task[t].arr # None
        /\ task[t].at \in {"run", "note"} => task[t].arr # None
        /\ \A p \in Proc : task[t].full /\ Sound(JobOf[p]) => JobOf[p] \in task[t].jobs
        /\ \A a \in ManagedArrs : a \in Arr /\ a # None
        /\ task[t].at \in {"clear", "rebuild"} => task[t].full
    <2>1. task[t].at \in Stopping => task[t].arr \in ManagedArrs
      BY <1>1 DEF Work, Stopping, Reloading, Named
    <2>2. \A a \in ManagedArrs : a \in Arr /\ a # None
      BY ManagedFacts, JobFacts DEF ReloadInv
    <2> QED
      BY <1>1, <2>1, <2>2 DEF WorkTypes, HandInv, NewInv, Work, Sound
  <1>4. HandInv(t)'
    BY <1>0, <1>1 DEF HandInv, Waiting
  <1>5. ContestInv(t)'
    BY <1>0, <1>1 DEF ContestInv, Waiting, Leaving
  <1>6. \A a, r : a = task[t].arr /\ a # None /\ r \in Role => a \in Arr /\ JobOfSlot(a, r) \in task[t].jobs
    BY <1>3 DEF ArrJobs
  <1>7. None \notin Alive' /\ None \notin children'
    BY JobFacts DEF Alive, MainInv, WorkTypes
  <1>8. \A a, r : a = task[t].arr /\ a # None /\ r \in Role /\ Sound(JobOfSlot(a, r))' =>
           /\ Sound(JobOfSlot(a, r))
           /\ slot'[<<a, r>>] = slot[<<a, r>>]
           /\ slot[<<a, r>>] \in Alive' => slot[<<a, r>>] \in Alive
           /\ slot[<<a, r>>] \in children' => slot[<<a, r>>] \in children
           /\ slot[<<a, r>>] \in children /\ phase[slot[<<a, r>>]] = "made"
              => slot[<<a, r>>] \in children' /\ phase'[slot[<<a, r>>]] = "made"
    BY <1>0, <1>2, <1>6, <1>7, JobFacts DEF HandKept, WorkTypes, MainInv
  <1>9. StopInv(t)'
    <2>1. task[t].at \in Stopping => \A r \in Role \ task[t].roles : Sound(JobOfSlot(task[t].arr, r))' =>
            /\ slot'[<<task[t].arr, r>>] \notin Alive'
            /\ slot'[<<task[t].arr, r>>] \in children'
               => task[t].at = "remove" /\ slot'[<<task[t].arr, r>>] = task[t].proc
      BY <1>0, <1>1, <1>3, <1>8 DEF StopInv
    <2>2. task[t].at \in {"remove", "pop", "remove search", "pop search"} =>
            /\ task[t].proc # None /\ task[t].arr # None /\ JobOf[task[t].proc] \in ArrJobs(task[t].arr)
            /\ Sound(JobOf[task[t].proc])' => task[t].proc \notin Alive'
      BY <1>0, <1>1, <1>3 DEF StopInv, HandKept, WorkTypes
    <2> QED
      BY <1>0, <2>1, <2>2 DEF StopInv
  <1>10. NewInv(t)'
    <2>1. \A a \in task[t].arrs : a \in ManagedArrs /\ \A r \in Role : Sound(JobOfSlot(a, r))' => slot'[<<a, r>>] = None
      <3>1. task[t].arrs # {} => ArrJob \subseteq task[t].jobs
        BY <1>1 DEF HandInv
      <3> QED
        BY <1>0, <1>1, <1>2, <3>1, JobFacts DEF NewInv, WorkTypes
    <2>2. task[t].at = "spawn" => /\ task[t].arr \in ManagedArrs
             /\ \A r \in Role : Sound(JobOfSlot(task[t].arr, r))' => slot'[<<task[t].arr, r>>] = None
      BY <1>0, <1>1, <1>3, <1>8 DEF NewInv
    <2>3. task[t].at \in {"run", "note"} =>
             \A p \in task[t].procs : /\ JobOf[p] \in ArrJobs(task[t].arr)
                                      /\ Sound(JobOf[p])' => phase'[p] = "made" /\ p \in children'
      BY <1>0, <1>1, <1>3 DEF NewInv, HandKept, WorkTypes
    <2>4. task[t].at = "note" =>
             /\ task[t].proc # None /\ task[t].arr # None /\ JobOf[task[t].proc] \in ArrJobs(task[t].arr)
             /\ Sound(JobOf[task[t].proc])' /\ task[t].proc \in todo' => task[t].proc \in children'
      BY <1>0, <1>1, <1>3 DEF NewInv, HandKept, WorkTypes
    <2> QED
      BY <1>0, <1>1, <2>1, <2>2, <2>3, <2>4 DEF NewInv
  <1>11. SearchInv(t)'
    <2>1. task[t].at \in Search => task[t].arr \in ManagedArrs /\ task[t].arr # None
      BY <1>1, <1>3 DEF SearchInv
    <2>2. "search" \in Role
      BY DEF Role
    <2> QED
      <3> SUFFICES ASSUME task[t].at \in Search
                   PROVE  SearchInv(t)'
        BY <1>0 DEF SearchInv
      <3> PICK a : a = task[t].arr
        OBVIOUS
      <3> DEFINE j == JobOfSlot(a, "search")
                 q == slot[<<a, "search">>]
      <3>1. /\ a \in ManagedArrs
            /\ task[t].at = "start search" => task[t].proc # None /\ JobOf[task[t].proc] = j
        BY <1>1 DEF SearchInv
      <3>2. ASSUME Sound(j)'
            PROVE  /\ task[t].at \in {"remove search", "pop search", "start search"} => q' = task[t].proc
                   /\ task[t].at = "pop search" => q' \notin children'
                   /\ task[t].at = "search" => q' = None
                   /\ task[t].at = "start search" => phase'[q'] = "made" /\ q' \in children'
        <4>1. /\ Sound(j) /\ slot'[<<a, "search">>] = q
              /\ q \in children' => q \in children
              /\ q \in children /\ phase[q] = "made" => q \in children' /\ phase'[q] = "made"
          BY <1>8, <2>1, <2>2, <3>2
        <4>2. q' = q
          BY <1>0, <4>1
        <4> QED
          BY <1>1, <4>1, <4>2 DEF SearchInv
      <3> QED
        BY <1>0, <3>1, <3>2 DEF SearchInv
  <1>12. RebuildInv(t)'
    BY <1>0, <1>1, <1>3 DEF RebuildInv, HandKept, Alive, MainInv, WorkTypes
  <1> QED
    BY <1>4, <1>5, <1>9, <1>10, <1>11, <1>12 DEF HeldInv

\* ... and so does what has been started; that a start fails is recorded (Misses).
LEMMA StartBeside ==
  ASSUME NEW t \in Thread, ReloadInv(t), MainInv(t), StartInv(t), Apart(t), SlotsKept, ShownKept,
         missed' = missed \cup Misses
  PROVE  StartInv(t)'
  <1>0. /\ task' = task /\ ManagedArrs' = ManagedArrs
        /\ \A j : Sound(j)' => Sound(j)
    BY ApartKeeps
  <1> SUFFICES ASSUME NEW a \in ManagedArrs, NEW r \in Role, r \in RolesOf[a],
                      Sound(JobOfSlot(a, r))', JobOfSlot(a, r) \notin missed', ~Making(t, a, r)'
               PROVE  slot'[<<a, r>>] # None /\ phase'[slot'[<<a, r>>]] # "made"
    BY <1>0 DEF StartInv
  <1>1. a \in Arr /\ <<a, r>> \in Slot /\ <<a, r>>[1] = a /\ <<a, r>>[2] = r
    BY ManagedFacts, JobFacts DEF ReloadInv
  <1>2. CASE slot'[<<a, r>>] # slot[<<a, r>>]
    <2>1. slot'[<<a, r>>] \in Proc
      BY <1>1, <1>2 DEF SlotsKept
    <2>2. phase'[slot'[<<a, r>>]] = "made" => JobOfSlot(a, r) \in Misses
      BY <1>1, <1>2 DEF Misses
    <2> QED
      BY <2>1, <2>2, JobFacts
  <1>3. CASE slot'[<<a, r>>] = slot[<<a, r>>]
    <2>1. ~Making(t, a, r)
      BY <1>0, <1>3 DEF Making
    <2>2. slot[<<a, r>>] # None /\ phase[slot[<<a, r>>]] # "made"
      BY <1>0, <2>1 DEF StartInv
    <2> QED
      BY <1>1, <1>3, <2>2 DEF ShownKept
  <1> QED
    BY <1>2, <1>3

\* The main thread keeps the invariant.
LEMMA WorkBeside ==
  ASSUME NEW t \in Thread, ReloadInv(t), WorkInv(t), Beside(Supervised)
  PROVE  WorkInv(t)'
  <1>1. MainInv(t) /\ HeldInv(t) /\ StartInv(t)
    BY DEF WorkInv
  <1>2. /\ Apart(t) /\ MainInv(t)' /\ HandKept(t) /\ SlotsKept /\ ShownKept
        /\ missed' = missed \cup Misses
    BY <1>1, SupervisorStep
  <1> QED
    BY <1>1, <1>2, HeldBeside, StartBeside DEF WorkInv

-----------------------------------------------------------------------------
(* The threads of the WebUI, beside the main thread. *)

\* Its thread has the processes and the loops of the jobs in hand to itself: a listed one is
\* shown by the managed object.
InHandInv(t) ==
    \A p \in Proc : JobOf[p] \in task[t].jobs /\ Sound(JobOf[p]) =>
        /\ p \in Alive => p \in children
        /\ p \in children =>
              /\ \E a \in ManagedArrs : JobOf[p] \in ArrJobs(a)
              /\ \A a \in ManagedArrs, r \in Role : JobOf[p] = JobOfSlot(a, r) => slot[<<a, r>>] = p

LEMMA InHandChildren ==
  ASSUME NEW t, ChildInv
  PROVE  InHandInv(t)
  BY DEF ChildInv, InHandInv

\* It leaves alone what is not in hand.
HandsOff(t) ==
    LET J == task[t].jobs IN
    /\ UNCHANGED <<pc, todo, cur, meta, overlap>> /\ clash \subseteq clash' /\ task'[t].jobs = J
    /\ \A p \in Proc : phase[p] = "crashed" /\ p = cur => phase'[p] = "crashed"
    /\ \A a \in Arr, r \in Role : JobOfSlot(a, r) \in J \/ slot'[<<a, r>>] = slot[<<a, r>>]
    /\ \A p \in Proc : \/ JobOf[p] \in J \/ JobOf[p] \notin ArrJob
                       \/ (p \in Alive' => p \in Alive) /\ (p \in children' <=> p \in children)
    /\ \A a \in ManagedArrs : \/ a \in ManagedArrs'
                              \/ \A r \in Role : Sound(JobOfSlot(a, r)) => JobOfSlot(a, r) \in J
    /\ \A a \in ManagedArrs' : a \in ManagedArrs \/ ArrJobs(a) \subseteq J

\* So the main thread finds what it goes by as it was.
LEMMA HandsOffMain ==
  ASSUME NEW t \in Thread, ReloadInv(t), ReloadInv(t)', MainInv(t), HandsOff(t),
         UNCHANGED <<pending, retry, arrs>>,
         WorkTypes(t)', SlotInv', InHandInv(t)', MetaInv', TodoInv(t)'
  PROVE  MainInv(t)'
  <1> USE DEF MainInv
  <1>0. /\ \A j : Sound(j)' => Sound(j)
        /\ UNCHANGED <<pc, todo, cur, meta>> /\ task'[t].jobs = task[t].jobs
    BY SoundKept DEF HandsOff
  <1>1. \A p \in Proc : JobOf[p] \notin task[t].jobs /\ Sound(JobOf[p])' =>
           (p \in Alive' => p \in Alive) /\ (p \in children' <=> p \in children)
    BY DEF HandsOff, Sound
  <1>2. \A a \in ManagedArrs, r \in Role :
           Sound(JobOfSlot(a, r)) /\ JobOfSlot(a, r) \notin task[t].jobs => a \in ManagedArrs'
    BY DEF HandsOff
  <1>3. \A a \in Arr, r \in Role : JobOfSlot(a, r) \notin task[t].jobs => slot'[<<a, r>>] = slot[<<a, r>>]
    BY DEF HandsOff
  <1>4. ManagedArrs \subseteq Arr /\ ManagedArrs' \subseteq Arr
    <2>1. ManagedArrs \subseteq Arr
      BY ManagedFacts DEF ReloadInv
    <2>2. managed' \in [Category -> Arr \cup {None}]
      BY DEF ReloadInv, ManagedInv
    <2> QED
      BY <2>1, <2>2 DEF ManagedArrs
  <1>5. children \subseteq Proc /\ children' \subseteq Proc /\ Alive' \subseteq Proc
    BY DEF WorkTypes, Alive
  <1>6. ChildInv'
    <2>1. ASSUME NEW p \in Proc, JobOf[p] \notin task[t].jobs, Sound(JobOf[p])'
          PROVE  /\ p \in Alive' => p \in children'
                 /\ p \in children' => \E a \in ManagedArrs' : JobOf[p] \in ArrJobs(a)
                 /\ p \in children' => \A a \in ManagedArrs', r \in Role :
                                          JobOf[p] = JobOfSlot(a, r) => slot'[<<a, r>>] = p
      <3>1. /\ Sound(JobOf[p]) /\ (p \in Alive' => p \in Alive) /\ (p \in children' <=> p \in children)
        BY <1>0, <1>1, <2>1
      <3>2. p \in Alive => p \in children
        BY <3>1 DEF ChildInv
      <3>3. ASSUME p \in children
            PROVE  \E a \in ManagedArrs' : JobOf[p] \in ArrJobs(a)
        <4>1. PICK a \in ManagedArrs, r \in Role : JobOf[p] = JobOfSlot(a, r)
          BY <3>1, <3>3 DEF ChildInv, ArrJobs
        <4>2. a \in ManagedArrs'
          BY <1>2, <2>1, <3>1, <4>1
        <4> QED
          BY <4>1, <4>2 DEF ArrJobs
      <3>4. ASSUME p \in children, NEW a \in ManagedArrs', NEW r \in Role, JobOf[p] = JobOfSlot(a, r)
            PROVE  slot'[<<a, r>>] = p
        <4>1. a \in ManagedArrs
          BY <2>1, <3>4 DEF HandsOff, ArrJobs
        <4>2. slot[<<a, r>>] = p
          BY <3>1, <3>4, <4>1 DEF ChildInv
        <4> QED
          BY <1>3, <1>4, <2>1, <3>4, <4>1, <4>2
      <3> QED
        BY <3>1, <3>2, <3>3, <3>4
    <2>2. ASSUME NEW p \in Proc, JobOf[p] \in task[t].jobs, Sound(JobOf[p])'
          PROVE  /\ p \in Alive' => p \in children'
                 /\ p \in children' => \E a \in ManagedArrs' : JobOf[p] \in ArrJobs(a)
                 /\ p \in children' => \A a \in ManagedArrs', r \in Role :
                                          JobOf[p] = JobOfSlot(a, r) => slot'[<<a, r>>] = p
      BY <1>0, <2>2 DEF InHandInv
    <2> QED
      BY <1>5, <2>1, <2>2 DEF ChildInv
  <1>7. CurInv(t)'
    <2>1. cur # None => phase'[cur] = "crashed" /\ cur \notin todo
      BY DEF CurInv, HandsOff, WorkTypes
    <2>2. Sound(meta)' => cur # None /\ meta = JobOf[cur] /\ cur \in children' /\ meta \notin task[t].jobs
      BY <1>0, <1>1, <1>5 DEF CurInv
    <2> QED
      BY <1>0, <2>1, <2>2 DEF CurInv
  <1>8. QueueInv(t)'
    <2>1. ASSUME NEW a \in Arr, NEW r \in Role, <<a, r>> \in pending \cup retry, Sound(JobOfSlot(a, r))'
          PROVE  a \in ManagedArrs' /\ JobOfSlot(a, r) \notin task[t].jobs /\ slot'[<<a, r>>] \notin children'
      <3>1. /\ a \in ManagedArrs /\ JobOfSlot(a, r) \notin task[t].jobs /\ slot[<<a, r>>] \notin children
            /\ Sound(JobOfSlot(a, r))
        BY <1>0, <2>1 DEF QueueInv
      <3>2. slot'[<<a, r>>] = slot[<<a, r>>] /\ a \in ManagedArrs'
        BY <1>2, <1>3, <3>1
      <3>3. slot[<<a, r>>] \in children' => JobOf[slot[<<a, r>>]] = JobOfSlot(a, r)
        BY <1>5, JobFacts DEF SlotInv
      <3> QED
        BY <1>1, <1>5, <2>1, <3>1, <3>2, <3>3
    <2> QED
      BY <1>0, <2>1 DEF QueueInv
  <1>9. RespawnInv(t)'
    <2>1. pc \in {"checkpoint", "respawn"} => \A j \in task[t].jobs : ~Sound(j)'
      BY <1>0 DEF RespawnInv
    <2>2. pc = "checkpoint" => \A p \in children' : ~Sound(JobOf[p])'
      BY <1>0, <1>1, <1>5, <2>1 DEF RespawnInv
    <2>3. pc = "respawn" => \A a \in arrs, r \in Role : Sound(JobOfSlot(a, r))' =>
             a \in ManagedArrs' /\ \A p \in children' : JobOf[p] # JobOfSlot(a, r)
      BY <1>0, <1>1, <1>2, <1>5, <2>1 DEF RespawnInv
    <2> QED
      BY <1>0, <2>1, <2>2, <2>3 DEF RespawnInv
  <1> QED
    BY <1>6, <1>7, <1>8, <1>9

\* What holds of a thread and the sections it goes by.
LEMMA WorkParts ==
  ASSUME NEW t \in Thread, ReloadInv(t), WorkInv(t)
  PROVE  /\ MainInv(t) /\ HeldInv(t)
         /\ WorkTypes(t) /\ SlotInv /\ ChildInv /\ MetaInv /\ TodoInv(t) /\ CurInv(t) /\ QueueInv(t)
         /\ HandInv(t) /\ ContestInv(t) /\ StopInv(t) /\ NewInv(t) /\ SearchInv(t) /\ RebuildInv(t)
         /\ StartInv(t)
         /\ DOMAIN task = Thread /\ DOMAIN task[t] = DOMAIN Idle /\ Work(t)
         /\ ManagedInv /\ ManagedArrs \subseteq Arr
  <1>1. ManagedArrs \subseteq Arr
    BY ManagedFacts DEF ReloadInv
  <1> QED
    BY <1>1 DEF WorkInv, MainInv, HeldInv, ReloadInv, Others, Work

\* With no further section or object, a thread has in hand what it had.
LEMMA SameSections ==
  ASSUME NEW t \in Thread, HandInv(t), ContestInv(t), config' = config, off' = off,
         clash \subseteq clash', overlap \subseteq overlap', ManagedArrs' \subseteq ManagedArrs,
         Waiting(t)' \subseteq Waiting(t), task'[t].live \subseteq task[t].live,
         task'[t].jobs = task[t].jobs, task'[t].full = task[t].full,
         \/ task'[t].arr = None \/ task'[t].arr = task[t].arr
         \/ ArrJobs(task'[t].arr) \subseteq task[t].jobs,
         task'[t].arrs # {} => task'[t].full /\ task'[t].at \in {"each", "spawn", "run", "note"}
  PROVE  HandInv(t)' /\ ContestInv(t)'
  <1>1. HandInv(t)'
    BY DEF HandInv
  <1>2. ContestInv(t)'
    BY SoundKept DEF ContestInv
  <1> QED
    BY <1>1, <1>2

\* What has been started stays so.
LEMMA StartKept ==
  ASSUME NEW t \in Thread, StartInv(t), clash \subseteq clash', overlap \subseteq overlap',
         missed \subseteq missed', slot' = slot, ManagedArrs' \subseteq ManagedArrs,
         ManagedArrs \subseteq Arr, WorkTypes(t),
         \A p \in Proc : phase'[p] = "made" => phase[p] = "made",
         \A a \in ManagedArrs, r \in Role :
            r \in RolesOf[a] /\ Making(t, a, r) => Making(t, a, r)'
  PROVE  StartInv(t)'
  <1> SUFFICES ASSUME NEW a \in ManagedArrs', NEW r \in Role, r \in RolesOf[a],
                      Sound(JobOfSlot(a, r))', JobOfSlot(a, r) \notin missed', ~Making(t, a, r)'
               PROVE  slot[<<a, r>>] # None /\ phase'[slot[<<a, r>>]] # "made"
    BY DEF StartInv
  <1>1. slot[<<a, r>>] # None /\ phase[slot[<<a, r>>]] # "made"
    BY SoundKept DEF StartInv
  <1>2. slot[<<a, r>>] \in Proc
    BY <1>1, JobFacts DEF WorkTypes
  <1> QED
    BY <1>1, <1>2

\* A step that changes nothing but what its thread does next.
LEMMA TaskStep ==
  ASSUME NEW t \in Thread, ReloadInv(t), WorkInv(t),
         UNCHANGED <<phase, children, registry, slot, managed, pending, retry, arrs, todo, cur, meta,
                     pc, clash, overlap, config, off>>,
         missed \subseteq missed', WorkTypes(t)', task'[t].jobs \subseteq task[t].jobs,
         task[t].at \notin {"pop", "pop search"}, Waiting(t)' \subseteq Waiting(t),
         HandInv(t)', StopInv(t)', NewInv(t)', SearchInv(t)', RebuildInv(t)',
         \A a \in ManagedArrs, r \in Role :
            r \in RolesOf[a] /\ Making(t, a, r) => Making(t, a, r)'
  PROVE  WorkInv(t)'
  <1>1. /\ WorkTypes(t) /\ SlotInv /\ ChildInv /\ MetaInv /\ TodoInv(t) /\ CurInv(t) /\ QueueInv(t)
        /\ RespawnInv(t) /\ ContestInv(t) /\ StartInv(t) /\ ManagedArrs \subseteq Arr
    BY WorkParts DEF MainInv
  <1>2. Alive' = Alive /\ ManagedArrs' = ManagedArrs /\ \A j : Sound(j)' <=> Sound(j)
    BY DEF Alive, ManagedArrs, Sound
  <1>3. SlotInv' /\ ChildInv' /\ MetaInv'
    <2>1. SlotInv'
      BY <1>1 DEF SlotInv
    <2>2. ChildInv'
      BY <1>1, <1>2 DEF ChildInv
    <2>3. MetaInv'
      BY <1>1, <1>2 DEF MetaInv
    <2> QED
      BY <2>1, <2>2, <2>3
  <1>4. TodoInv(t)'
    BY <1>1, <1>2 DEF TodoInv
  <1>5. CurInv(t)'
    BY <1>1, <1>2 DEF CurInv
  <1>6. QueueInv(t)' /\ RespawnInv(t)'
    BY <1>1, <1>2 DEF QueueInv, RespawnInv
  <1>7. ContestInv(t)'
    BY <1>1, <1>2 DEF ContestInv
  <1>8. StartInv(t)'
    BY <1>1, <1>2, StartKept
  <1> QED
    BY <1>3, <1>4, <1>5, <1>6, <1>7, <1>8 DEF WorkInv, MainInv, HeldInv

\* The section's object, if it has one, is in hand with its loops still to be stopped.
LEMMA PickWork ==
  ASSUME NEW t \in Thread, ReloadInv(t), ReloadInv(t)', WorkInv(t), Pick(t)
  PROVE  WorkInv(t)'
  <1> DEFINE u == task[t]
  <1> PICK n : n = NextName(u.names, u.gone)
    OBVIOUS
  <1>1. /\ WorkTypes(t) /\ HandInv(t) /\ ContestInv(t) /\ NewInv(t) /\ Work(t)
        /\ DOMAIN task = Thread /\ DOMAIN u = DOMAIN Idle /\ ManagedInv /\ ManagedArrs \subseteq Arr
    BY WorkParts
  <1>2. /\ u.at = "next" /\ u.names # {}
        /\ UNCHANGED <<phase, children, registry, slot, managed, pending, retry, arrs, todo, cur, meta,
                       pc, clash, overlap, config, off, missed>>
    BY DEF Pick, At, vars, tracked, main, history
  <1>3. \/ \E a \in Named(n) : task'[t] = [u EXCEPT !.at = "stop", !.names = @ \ {n}, !.name = n,
                                                    !.arr = a, !.roles = Role]
        \/ \E l \in {"next", "build"} : task'[t] = [u EXCEPT !.names = @ \ {n}, !.name = n, !.at = l]
    BY <1>1 DEF Pick, Take, Go
  <1>4. n \in u.names
    BY <1>1, <1>2, NextSection DEF Work
  <1>5. /\ task'[t].jobs = u.jobs /\ task'[t].live = u.live /\ task'[t].full = u.full
        /\ task'[t].arrs = u.arrs /\ task'[t].procs = u.procs /\ task'[t].proc = u.proc
        /\ task'[t].at \in {"stop", "next", "build"}
        /\ task'[t].names = u.names \ {n} /\ task'[t].name = n
        /\ task'[t].roles \in {u.roles, Role}
        /\ task'[t].at = "stop" => task'[t].roles = Role
        /\ task'[t].arr = u.arr \/ task'[t].arr \in Named(n)
    <2>1. CASE \E b \in Named(n) : task'[t] = [u EXCEPT !.at = "stop", !.names = @ \ {n}, !.name = n,
                                                       !.arr = b, !.roles = Role]
      BY <1>1, <2>1, Fields
    <2>2. CASE \E l \in {"next", "build"} :
                 task'[t] = [u EXCEPT !.names = @ \ {n}, !.name = n, !.at = l]
      BY <1>1, <2>2, Fields
    <2> QED
      BY <1>3, <2>1, <2>2
  <1>6. \A a \in Named(n) : a \in Arr /\ ArrJobs(a) \subseteq u.jobs
    BY <1>1, <1>4, ManagedFacts DEF HandInv, Waiting
  <1>7. WorkTypes(t)'
    BY <1>1, <1>2, <1>5, <1>6 DEF WorkTypes
  <1>8. Waiting(t)' \subseteq Waiting(t)
    BY <1>4, <1>5 DEF Waiting
  <1>9. u.arrs = {}
    BY <1>1, <1>2 DEF HandInv
  <1>10. HandInv(t)'
    <2>1. ManagedArrs' = ManagedArrs
      BY <1>2 DEF ManagedArrs
    <2> QED
      BY <1>1, <1>2, <1>5, <1>6, <1>8, <1>9, <2>1, SameSections
  <1>11. StopInv(t)' /\ SearchInv(t)' /\ RebuildInv(t)'
    BY <1>5 DEF StopInv, SearchInv, RebuildInv, Search, Stopping
  <1>12. NewInv(t)'
    BY <1>5, <1>9 DEF NewInv
  <1>13. \A a \in ManagedArrs, r \in Role : ~Making(t, a, r)
    BY <1>2, <1>9 DEF Making, Search
  <1> QED
    BY <1>2, <1>5, <1>7, <1>8, <1>10, <1>11, <1>12, <1>13, TaskStep

\* A section that is left unbuilt.
LEMMA BuildNothingWork ==
  ASSUME NEW t \in Thread, ReloadInv(t), ReloadInv(t)', WorkInv(t), BuildNothing(t)
  PROVE  WorkInv(t)'
  <1> DEFINE u == task[t]
  <1>1. /\ WorkTypes(t) /\ HandInv(t) /\ ContestInv(t)
        /\ DOMAIN task = Thread /\ DOMAIN u = DOMAIN Idle
    BY WorkParts
  <1>2. /\ u.at = "build" /\ task'[t] = [u EXCEPT !.at = "next"] /\ missed \subseteq missed'
        /\ UNCHANGED <<phase, children, registry, slot, managed, pending, retry, arrs, todo, cur, meta,
                       pc, clash, overlap, config, off>>
    BY <1>1 DEF BuildNothing, At, Then, Go, supervised, tracked, main
  <1>3. /\ task'[t].jobs = u.jobs /\ task'[t].live = u.live /\ task'[t].full = u.full
        /\ task'[t].arrs = u.arrs /\ task'[t].procs = u.procs /\ task'[t].proc = u.proc
        /\ task'[t].names = u.names /\ task'[t].arr = u.arr /\ task'[t].roles = u.roles
        /\ task'[t].at = "next"
    BY <1>1, <1>2, Fields
  <1>4. u.arrs = {}
    BY <1>1, <1>2 DEF HandInv
  <1>5. WorkTypes(t)' /\ Waiting(t)' \subseteq Waiting(t)
    BY <1>1, <1>2, <1>3 DEF WorkTypes, Waiting, Reloading
  <1>6. HandInv(t)'
    <2>1. ManagedArrs' = ManagedArrs
      BY <1>2 DEF ManagedArrs
    <2> QED
      BY <1>1, <1>2, <1>3, <1>4, <1>5, <2>1, SameSections
  <1>7. StopInv(t)' /\ SearchInv(t)' /\ RebuildInv(t)'
    BY <1>3 DEF StopInv, SearchInv, RebuildInv, Search, Stopping
  <1>8. NewInv(t)'
    BY <1>3, <1>4 DEF NewInv
  <1>9. \A a \in ManagedArrs, r \in Role : ~Making(t, a, r)
    BY <1>2, <1>4 DEF Making, Search
  <1> QED
    BY <1>2, <1>3, <1>5, <1>6, <1>7, <1>8, <1>9, TaskStep

\* The loops of an object are dealt with, or the objects of a rebuild are.
LEMMA RunDoneWork ==
  ASSUME NEW t \in Thread, ReloadInv(t), ReloadInv(t)', WorkInv(t), RunDone(t) \/ EachArr(t)
  PROVE  WorkInv(t)'
  <1> DEFINE u == task[t]
  <1>1. /\ WorkTypes(t) /\ HandInv(t) /\ ContestInv(t) /\ NewInv(t)
        /\ DOMAIN task = Thread /\ DOMAIN u = DOMAIN Idle /\ Work(t) /\ ManagedArrs \subseteq Arr
    BY WorkParts
  <1>2. UNCHANGED <<phase, children, registry, slot, managed, pending, retry, arrs, todo, cur, meta,
                    pc, clash, overlap, config, off, missed>>
    BY DEF RunDone, EachArr, vars, tracked, main, history
  <1>3. \/ /\ u.at = "run" /\ u.procs = {}
           /\ task'[t] = [u EXCEPT !.at = IF u.full THEN "each" ELSE "next", !.arr = None]
        \/ /\ u.at = "each"
           /\ \/ \E a \in u.arrs : task'[t] = [u EXCEPT !.at = "spawn", !.arr = a, !.arrs = @ \ {a}]
              \/ u.arrs = {} /\ task'[t] = [u EXCEPT !.at = "managers"]
    BY <1>1 DEF RunDone, EachArr, At, Then, Go
  <1>4. /\ task'[t].jobs = u.jobs /\ task'[t].live = u.live /\ task'[t].full = u.full
        /\ task'[t].procs = u.procs /\ task'[t].proc = u.proc
        /\ task'[t].names = u.names /\ task'[t].roles = u.roles
        /\ \/ /\ u.at = "run" /\ u.procs = {} /\ task'[t].at = IF u.full THEN "each" ELSE "next"
              /\ task'[t].arr = None /\ task'[t].arrs = u.arrs
           \/ /\ u.at = "each" /\ task'[t].at = "spawn" /\ task'[t].arr \in u.arrs
              /\ task'[t].arrs = u.arrs \ {task'[t].arr}
           \/ /\ u.at = "each" /\ task'[t].at = "managers" /\ u.arrs = {}
              /\ task'[t].arr = u.arr /\ task'[t].arrs = u.arrs
    <2>1. CASE u.at = "run" /\ u.procs = {}
               /\ task'[t] = [u EXCEPT !.at = IF u.full THEN "each" ELSE "next", !.arr = None]
      BY <1>1, <2>1, Fields
    <2>2. ASSUME u.at = "each", NEW a \in u.arrs, task'[t] = [u EXCEPT !.at = "spawn", !.arr = a, !.arrs = @ \ {a}]
          PROVE  /\ task'[t].jobs = u.jobs /\ task'[t].live = u.live /\ task'[t].full = u.full
                 /\ task'[t].procs = u.procs /\ task'[t].proc = u.proc
                 /\ task'[t].names = u.names /\ task'[t].roles = u.roles
                 /\ task'[t].at = "spawn" /\ task'[t].arr = a /\ task'[t].arrs = u.arrs \ {a}
      BY <1>1, <2>2, Fields
    <2>3. CASE u.at = "each" /\ u.arrs = {} /\ task'[t] = [u EXCEPT !.at = "managers"]
      BY <1>1, <2>3, Fields
    <2> QED
      BY <1>3, <2>1, <2>2, <2>3
  <1>5. \A a \in u.arrs : a \in Arr /\ ArrJobs(a) \subseteq u.jobs /\ u.full
    <2>1. u.arrs # {} => ArrJob \subseteq u.jobs /\ u.full
      BY <1>1 DEF HandInv
    <2>2. \A a \in Arr : ArrJobs(a) \subseteq ArrJob
      BY DEF ArrJobs, ArrJob
    <2> QED
      BY <1>1, <2>1, <2>2 DEF WorkTypes
  <1>6. WorkTypes(t)' /\ Waiting(t)' \subseteq Waiting(t)
    BY <1>1, <1>2, <1>4, <1>5 DEF WorkTypes, Waiting, Reloading
  <1>7. ManagedArrs' = ManagedArrs /\ \A j : Sound(j)' <=> Sound(j)
    BY <1>2 DEF ManagedArrs, Sound
  <1>8. HandInv(t)'
    BY <1>1, <1>2, <1>4, <1>5, <1>6, <1>7, SameSections
  <1>9. StopInv(t)' /\ SearchInv(t)' /\ RebuildInv(t)'
    BY <1>4 DEF StopInv, SearchInv, RebuildInv, Search, Stopping
  <1>10. NewInv(t)'
    BY <1>1, <1>2, <1>4, <1>7 DEF NewInv
  <1>11. \A a \in ManagedArrs, r \in Role : Making(t, a, r) => Making(t, a, r)'
    BY <1>2, <1>4 DEF Making, Search
  <1>12. u.at \notin {"pop", "pop search"}
    BY <1>4
  <1> QED
    BY <1>2, <1>4, <1>6, <1>8, <1>9, <1>10, <1>11, <1>12, TaskStep

\* With nothing left to do, nothing is in hand.
LEMMA DoneWork ==
  ASSUME NEW t \in Thread, ReloadInv(t), ReloadInv(t)', WorkInv(t), Done(t)
  PROVE  WorkInv(t)'
  <1> DEFINE u == task[t]
  <1>1. /\ WorkTypes(t) /\ HandInv(t) /\ DOMAIN task = Thread
    BY WorkParts
  <1>2. /\ u.at \in {"next", "managers"} /\ task'[t] = Idle
        /\ UNCHANGED <<phase, children, registry, slot, managed, pending, retry, arrs, todo, cur, meta,
                       pc, clash, overlap, config, off, missed>>
    BY <1>1 DEF Done, At, Go, vars, tracked, main, history
  <1>3. /\ Idle.at = "idle" /\ Idle.names = {} /\ Idle.live = {} /\ ~Idle.full /\ Idle.arr = None
        /\ Idle.roles = {} /\ Idle.proc = None /\ Idle.procs = {} /\ Idle.arrs = {} /\ Idle.jobs = {}
    BY DEF Idle
  <1>4. u.arrs = {}
    BY <1>1, <1>2 DEF HandInv
  <1>5. WorkTypes(t)'
    BY <1>1, <1>2, <1>3 DEF WorkTypes
  <1>6. Waiting(t)' = {}
    BY <1>2, <1>3 DEF Waiting, Reloading
  <1>7. HandInv(t)'
    BY <1>2, <1>3, <1>6 DEF HandInv
  <1>8. StopInv(t)' /\ SearchInv(t)' /\ RebuildInv(t)'
    BY <1>2, <1>3 DEF StopInv, SearchInv, RebuildInv, Search, Stopping
  <1>9. NewInv(t)'
    BY <1>2, <1>3 DEF NewInv
  <1>10. \A a \in ManagedArrs, r \in Role : ~Making(t, a, r)
    BY <1>2, <1>4 DEF Making, Search
  <1> QED
    BY <1>2, <1>3, <1>5, <1>6, <1>7, <1>8, <1>9, <1>10, TaskStep

\* Processes are killed that the jobs in hand have.
LEMMA KillWork ==
  ASSUME NEW t \in Thread, ReloadInv(t), ReloadInv(t)', WorkInv(t),
         UNCHANGED <<children, registry, slot, managed, pending, retry, arrs, todo, cur, meta,
                     pc, clash, overlap, config, off, missed>>,
         phase' \in [Proc -> Phase],
         \A p \in Proc : \/ phase'[p] = phase[p]
                         \/ phase[p] = "alive" /\ phase'[p] = "crashed",
         \A p \in Proc : phase'[p] # phase[p] => JobOf[p] \in task[t].jobs \/ JobOf[p] \notin ArrJob,
         WorkTypes(t)', task'[t].jobs = task[t].jobs, task[t].at \notin {"pop", "pop search"},
         HandInv(t)', ContestInv(t)', StopInv(t)', NewInv(t)', SearchInv(t)', RebuildInv(t)',
         \A a \in ManagedArrs, r \in Role :
            \/ Making(t, a, r) => Making(t, a, r)'
            \/ r \in RolesOf[a] => slot[<<a, r>>] # None /\ phase[slot[<<a, r>>]] # "made"
  PROVE  WorkInv(t)'
  <1>1. /\ MainInv(t) /\ WorkTypes(t) /\ SlotInv /\ ChildInv /\ MetaInv /\ TodoInv(t) /\ CurInv(t)
        /\ StartInv(t) /\ ManagedArrs \subseteq Arr
    BY WorkParts
  <1>2. /\ ManagedArrs' = ManagedArrs /\ \A j : Sound(j)' <=> Sound(j)
        /\ Alive' \subseteq Alive
    BY <1>1 DEF ManagedArrs, Sound, Alive
  <1>3. SlotInv' /\ MetaInv'
    BY <1>1, <1>2 DEF SlotInv, MetaInv
  <1>4. TodoInv(t)'
    BY <1>1, <1>2 DEF TodoInv
  <1>5. InHandInv(t)'
    BY <1>1, <1>2 DEF ChildInv, InHandInv
  <1>6. HandsOff(t)
    BY <1>1, <1>2 DEF HandsOff, Alive
  <1>7. MainInv(t)'
    BY <1>1, <1>3, <1>4, <1>5, <1>6, HandsOffMain
  <1>8. StartInv(t)'
    <2> SUFFICES ASSUME NEW a \in ManagedArrs, NEW r \in Role, r \in RolesOf[a],
                        Sound(JobOfSlot(a, r)), JobOfSlot(a, r) \notin missed, ~Making(t, a, r)'
                 PROVE  slot[<<a, r>>] # None /\ phase'[slot[<<a, r>>]] # "made"
      BY <1>2 DEF StartInv
    <2>1. slot[<<a, r>>] # None /\ phase[slot[<<a, r>>]] # "made"
      BY <1>1 DEF StartInv
    <2>2. a \in Arr /\ <<a, r>> \in Slot
      BY <1>1, JobFacts
    <2>3. slot \in [Slot -> Proc \cup {None}]
      BY <1>1 DEF WorkTypes
    <2>4. slot[<<a, r>>] \in Proc
      BY <2>1, <2>2, <2>3
    <2> QED
      BY <2>1, <2>4
  <1> QED
    BY <1>7, <1>8 DEF WorkInv, HeldInv

\* A loop of the object in hand is stopped.
LEMMA StopWork ==
  ASSUME NEW t \in Thread, ReloadInv(t), ReloadInv(t)', WorkInv(t), Stop(t)
  PROVE  WorkInv(t)'
  <1> DEFINE u == task[t]
  <1> PICK r : r = IF "search" \in u.roles THEN "search" ELSE "torrent"
    OBVIOUS
  <1> PICK a : a = u.arr
    OBVIOUS
  <1> PICK p : p = slot[<<a, r>>]
    OBVIOUS
  <1>1. /\ WorkTypes(t) /\ SlotInv /\ HandInv(t) /\ ContestInv(t) /\ StopInv(t) /\ NewInv(t) /\ Work(t)
        /\ DOMAIN task = Thread /\ DOMAIN u = DOMAIN Idle /\ ManagedArrs \subseteq Arr
    BY WorkParts
  <1>2. /\ u.at = "stop" /\ u.roles # {}
        /\ UNCHANGED <<children, registry, slot, managed, pending, retry, arrs, todo, cur, meta,
                       pc, clash, overlap, config, off, missed>>
    BY DEF Stop, At, supervised, tracked, main, history
  <1>3. r \in u.roles /\ r \in Role /\ a \in Arr /\ a # None /\ ArrJobs(a) \subseteq u.jobs /\ u.arrs = {}
    <2>1. a \in ManagedArrs
      BY <1>1, <1>2 DEF Work, Reloading, Named
    <2>2. r \in u.roles /\ r \in Role
      BY <1>1, <1>2 DEF WorkTypes, Role
    <2>3. a # None
      BY <1>1, <2>1, JobFacts
    <2> QED
      BY <1>1, <1>2, <2>1, <2>2, <2>3 DEF HandInv
  <1>4. \/ /\ p = None /\ phase' = phase /\ task'[t] = [u EXCEPT !.roles = @ \ {r}]
        \/ /\ p # None /\ phase' = [phase EXCEPT ![p] = IF @ = "alive" THEN "crashed" ELSE @]
           /\ task'[t] = [[u EXCEPT !.roles = @ \ {r}] EXCEPT !.at = "remove", !.proc = p]
    BY <1>1 DEF Stop, Go
  <1>5. /\ task'[t].jobs = u.jobs /\ task'[t].live = u.live /\ task'[t].full = u.full
        /\ task'[t].arrs = u.arrs /\ task'[t].procs = u.procs
        /\ task'[t].names = u.names /\ task'[t].name = u.name /\ task'[t].arr = a
        /\ task'[t].roles = u.roles \ {r}
        /\ \/ p = None /\ task'[t].at = "stop" /\ task'[t].proc = u.proc
           \/ p # None /\ task'[t].at = "remove" /\ task'[t].proc = p
    <2>1. CASE p = None /\ task'[t] = [u EXCEPT !.roles = @ \ {r}]
      BY <1>1, <1>2, <2>1, Fields
    <2>2. CASE p # None /\ task'[t] = [[u EXCEPT !.roles = @ \ {r}] EXCEPT !.at = "remove", !.proc = p]
      BY <1>1, <1>2, <2>2, Fields
    <2> QED
      BY <1>4, <2>1, <2>2
  <1>6. p # None => p \in Proc /\ JobOf[p] = JobOfSlot(a, r)
    BY <1>1, <1>3, JobFacts DEF WorkTypes, SlotInv
  <1>7. /\ phase' \in [Proc -> Phase]
        /\ \A q \in Proc : phase'[q] = IF q = p /\ phase[q] = "alive" THEN "crashed" ELSE phase[q]
    BY <1>1, <1>4, <1>6, JobFacts DEF WorkTypes, Phase
  <1>8. /\ ManagedArrs' = ManagedArrs /\ \A j : Sound(j)' <=> Sound(j)
        /\ Alive' \subseteq Alive /\ p \notin Alive' /\ None \notin Alive /\ None \notin children
    BY <1>1, <1>2, <1>7, JobFacts DEF ManagedArrs, Sound, Alive, WorkTypes
  <1>9. JobOfSlot(a, r) \in ArrJobs(a)
    BY <1>3 DEF ArrJobs
  <1>10. WorkTypes(t)' /\ Waiting(t)' \subseteq Waiting(t)
    BY <1>1, <1>2, <1>3, <1>5, <1>6, <1>7 DEF WorkTypes, Waiting, Reloading
  <1>11. HandInv(t)' /\ ContestInv(t)'
    BY <1>1, <1>2, <1>3, <1>5, <1>8, <1>10, SameSections
  <1>12. StopInv(t)'
    <2>1. \A q \in Role \ task'[t].roles : Sound(JobOfSlot(a, q)) =>
            /\ slot[<<a, q>>] \notin Alive'
            /\ slot[<<a, q>>] \in children => task'[t].at = "remove" /\ slot[<<a, q>>] = task'[t].proc
      BY <1>1, <1>2, <1>5, <1>8 DEF StopInv, Stopping
    <2>2. task'[t].at = "remove" => /\ task'[t].proc # None /\ a # None /\ JobOf[task'[t].proc] \in ArrJobs(a)
                                    /\ task'[t].proc \notin Alive'
      BY <1>3, <1>5, <1>6, <1>8, <1>9
    <2> QED
      BY <1>2, <1>5, <1>8, <2>1, <2>2 DEF StopInv
  <1>13. NewInv(t)' /\ SearchInv(t)' /\ RebuildInv(t)'
    BY <1>3, <1>5 DEF NewInv, SearchInv, RebuildInv, Search
  <1>14. \A b \in ManagedArrs, q \in Role : ~Making(t, b, q)
    BY <1>2, <1>3 DEF Making, Search
  <1>15. \A q \in Proc : phase'[q] # phase[q] => JobOf[q] \in u.jobs
    <2>1. p \in Proc => JobOf[p] \in u.jobs
      BY <1>3, <1>6, <1>9, JobFacts
    <2> QED
      BY <1>7, <2>1
  <1>16. \A q \in Proc : phase'[q] = phase[q] \/ (phase[q] = "alive" /\ phase'[q] = "crashed")
    BY <1>7
  <1> QED
    BY <1>2, <1>5, <1>7, <1>10, <1>11, <1>12, <1>13, <1>14, <1>15, <1>16, KillWork

\* The killed process leaves child_processes.
LEMMA RemoveWork ==
  ASSUME NEW t \in Thread, ReloadInv(t), ReloadInv(t)', WorkInv(t), Remove(t)
  PROVE  WorkInv(t)'
  <1> DEFINE u == task[t]
  <1> PICK p : p = u.proc
    OBVIOUS
  <1>1. /\ MainInv(t) /\ WorkTypes(t) /\ SlotInv /\ ChildInv /\ MetaInv /\ TodoInv(t) /\ HandInv(t)
        /\ ContestInv(t) /\ StopInv(t) /\ SearchInv(t) /\ StartInv(t)
        /\ DOMAIN task = Thread /\ DOMAIN u = DOMAIN Idle /\ ManagedArrs \subseteq Arr
    BY WorkParts
  <1>2. /\ \/ u.at = "remove" /\ task'[t] = [u EXCEPT !.at = "pop"]
           \/ u.at = "remove search" /\ task'[t] = [u EXCEPT !.at = "pop search"]
        /\ children' = children \ {p}
        /\ UNCHANGED <<phase, registry, slot, managed, pending, retry, arrs, todo, cur, meta,
                       pc, clash, overlap, config, off, missed>>
    BY <1>1 DEF Remove, At, Then, Go, supervised, main, history
  <1>3. /\ task'[t].jobs = u.jobs /\ task'[t].live = u.live /\ task'[t].full = u.full
        /\ task'[t].arrs = u.arrs /\ task'[t].procs = u.procs /\ task'[t].proc = u.proc
        /\ task'[t].names = u.names /\ task'[t].name = u.name /\ task'[t].arr = u.arr
        /\ task'[t].roles = u.roles
        /\ \/ u.at = "remove" /\ task'[t].at = "pop"
           \/ u.at = "remove search" /\ task'[t].at = "pop search"
    <2>1. CASE u.at = "remove" /\ task'[t] = [u EXCEPT !.at = "pop"]
      BY <1>1, <2>1, Fields
    <2>2. CASE u.at = "remove search" /\ task'[t] = [u EXCEPT !.at = "pop search"]
      BY <1>1, <2>2, Fields
    <2> QED
      BY <1>2, <2>1, <2>2
  <1>4. /\ ManagedArrs' = ManagedArrs /\ Alive' = Alive /\ \A j : Sound(j)' <=> Sound(j)
    <2>1. UNCHANGED <<managed, phase, clash, overlap>>
      BY <1>2
    <2> QED
      BY <2>1 DEF ManagedArrs, Alive, Sound
  <1>5. /\ u.arrs = {} /\ p # None /\ p \in Proc /\ u.arr # None
        /\ JobOf[p] \in ArrJobs(u.arr) /\ JobOf[p] \in u.jobs
        /\ Sound(JobOf[p]) => p \notin Alive
    BY <1>1, <1>2 DEF HandInv, StopInv, WorkTypes
  <1>6. WorkTypes(t)' /\ Waiting(t)' \subseteq Waiting(t)
    BY <1>1, <1>2, <1>3 DEF WorkTypes, Waiting, Reloading
  <1>7. SlotInv' /\ MetaInv'
    <2>1. SlotInv'
      BY <1>1, <1>2 DEF SlotInv
    <2>2. MetaInv'
      BY <1>1, <1>2, <1>4 DEF MetaInv
    <2> QED
      BY <2>1, <2>2
  <1>8. TodoInv(t)'
    BY <1>1, <1>2, <1>3, <1>4 DEF TodoInv
  <1>9. InHandInv(t)'
    <2> SUFFICES ASSUME NEW q \in Proc, JobOf[q] \in u.jobs, Sound(JobOf[q])
                 PROVE  /\ q \in Alive => q \in children'
                        /\ q \in children' =>
                              /\ \E b \in ManagedArrs : JobOf[q] \in ArrJobs(b)
                              /\ \A b \in ManagedArrs, r \in Role : JobOf[q] = JobOfSlot(b, r) => slot'[<<b, r>>] = q
      BY <1>3, <1>4 DEF InHandInv
    <2>1. q \in Alive => q \in children /\ q # p
      BY <1>1, <1>5 DEF ChildInv
    <2>2. q \in children' => q \in children
      BY <1>2
    <2>3. q \in children =>
             /\ \E b \in ManagedArrs : JobOf[q] \in ArrJobs(b)
             /\ \A b \in ManagedArrs, r \in Role : JobOf[q] = JobOfSlot(b, r) => slot[<<b, r>>] = q
      BY <1>1 DEF ChildInv
    <2>4. slot' = slot /\ (q \in children /\ q # p => q \in children')
      BY <1>2
    <2> QED
      BY <2>1, <2>2, <2>3, <2>4
  <1>10. HandsOff(t)
    BY <1>1, <1>2, <1>3, <1>4, <1>5 DEF HandsOff
  <1>11. MainInv(t)'
    BY <1>1, <1>2, <1>6, <1>7, <1>8, <1>9, <1>10, HandsOffMain
  <1>12. HandInv(t)' /\ ContestInv(t)'
    BY <1>1, <1>2, <1>3, <1>4, <1>5, <1>6, SameSections
  <1>13. StopInv(t)'
    <2>1. task'[t].at \in Stopping => u.at \in Stopping
      BY <1>3 DEF Stopping
    <2> QED
      <3>0. CASE u.at = "remove search" /\ task'[t].at = "pop search"
        <4>1. task'[t].proc = p /\ task'[t].arr = u.arr
          BY <1>3
        <4> QED
          BY <1>4, <1>5, <3>0, <4>1 DEF StopInv, Stopping
      <3> SUFFICES ASSUME u.at = "remove", task'[t].at = "pop"
                   PROVE  StopInv(t)'
        BY <1>3, <3>0
      <3>1. /\ task'[t].roles = u.roles /\ task'[t].arr = u.arr /\ task'[t].proc = p
            /\ Alive' = Alive /\ slot' = slot /\ children' = children \ {p}
        BY <1>2, <1>3, <1>4
      <3>2. \A r \in Role \ u.roles : Sound(JobOfSlot(u.arr, r)) =>
               /\ slot[<<u.arr, r>>] \notin Alive
               /\ slot[<<u.arr, r>>] \in children => slot[<<u.arr, r>>] = p
        BY <1>1 DEF StopInv, Stopping
      <3> QED
        BY <1>4, <1>5, <3>1, <3>2 DEF StopInv
  <1>14. NewInv(t)' /\ RebuildInv(t)'
    BY <1>3, <1>5 DEF NewInv, RebuildInv
  <1>15. SearchInv(t)'
    BY <1>1, <1>2, <1>3, <1>4 DEF SearchInv, Search
  <1>16. \A a \in ManagedArrs, r \in Role : Making(t, a, r) => Making(t, a, r)'
    BY <1>2, <1>3, <1>5 DEF Making, Search
  <1>17. StartInv(t)'
    BY <1>1, <1>2, <1>4, <1>16, StartKept
  <1> QED
    BY <1>11, <1>12, <1>13, <1>14, <1>15, <1>17 DEF WorkInv, HeldInv

\* ... and the registry; a search loop that is reconciled is no longer shown either.
LEMMA PopWork ==
  ASSUME NEW t \in Thread, ReloadInv(t), ReloadInv(t)', WorkInv(t), Pop(t)
  PROVE  WorkInv(t)'
  <1> DEFINE u == task[t]
  <1> PICK p, a : p = u.proc /\ a = u.arr
    OBVIOUS
  <1>1. /\ MainInv(t) /\ WorkTypes(t) /\ SlotInv /\ ChildInv /\ MetaInv /\ TodoInv(t) /\ HandInv(t)
        /\ ContestInv(t) /\ StopInv(t) /\ SearchInv(t) /\ StartInv(t)
        /\ DOMAIN task = Thread /\ DOMAIN u = DOMAIN Idle /\ ManagedArrs \subseteq Arr
    BY WorkParts
  <1>2. /\ \/ /\ u.at = "pop" /\ task'[t] = [u EXCEPT !.at = "stop", !.proc = None] /\ slot' = slot
           \/ /\ u.at = "pop search" /\ task'[t] = [u EXCEPT !.at = "search", !.proc = None]
              /\ slot' = [slot EXCEPT ![<<a, "search">>] = None]
        /\ registry' = [registry EXCEPT ![p] = None]
        /\ UNCHANGED <<phase, children, managed, pending, retry, arrs, todo, cur, meta,
                       pc, clash, overlap, config, off, missed>>
    BY <1>1 DEF Pop, At, Go, supervised, main, history
  <1>3. /\ task'[t].jobs = u.jobs /\ task'[t].live = u.live /\ task'[t].full = u.full
        /\ task'[t].arrs = u.arrs /\ task'[t].procs = u.procs /\ task'[t].proc = None
        /\ task'[t].names = u.names /\ task'[t].name = u.name /\ task'[t].arr = u.arr
        /\ task'[t].roles = u.roles
        /\ \/ u.at = "pop" /\ task'[t].at = "stop"
           \/ u.at = "pop search" /\ task'[t].at = "search"
    <2>1. CASE u.at = "pop" /\ task'[t] = [u EXCEPT !.at = "stop", !.proc = None]
      BY <1>1, <2>1, Fields
    <2>2. CASE u.at = "pop search" /\ task'[t] = [u EXCEPT !.at = "search", !.proc = None]
      BY <1>1, <2>2, Fields
    <2> QED
      BY <1>2, <2>1, <2>2
  <1>4. /\ ManagedArrs' = ManagedArrs /\ Alive' = Alive /\ \A j : Sound(j)' <=> Sound(j)
    <2>1. UNCHANGED <<managed, phase, clash, overlap>>
      BY <1>2
    <2> QED
      BY <2>1 DEF ManagedArrs, Alive, Sound
  <1>5. /\ u.arrs = {} /\ p \in Proc /\ a \in Arr /\ a # None /\ ArrJobs(a) \subseteq u.jobs
    BY <1>1, <1>2 DEF HandInv, StopInv, WorkTypes
  <1>6. /\ \A q \in Proc : registry'[q] = IF q = p THEN None ELSE registry[q]
        /\ \A b \in Arr, r \in Role :
              slot'[<<b, r>>] = IF u.at = "pop search" /\ b = a /\ r = "search" THEN None ELSE slot[<<b, r>>]
    <2>1. \A q \in Proc : registry'[q] = IF q = p THEN None ELSE registry[q]
      BY <1>1, <1>2, <1>5 DEF WorkTypes
    <2>2. slot \in [Slot -> Proc \cup {None}]
      BY <1>1 DEF WorkTypes
    <2>3. \A b \in Arr, r \in Role :
              slot'[<<b, r>>] = IF u.at = "pop search" /\ b = a /\ r = "search" THEN None ELSE slot[<<b, r>>]
      <3>1. \A s \in Slot : slot'[s] = IF u.at = "pop search" /\ s = <<a, "search">> THEN None ELSE slot[s]
        BY <1>2, <2>2
      <3> QED
        BY <3>1, JobFacts, SlotFacts
    <2> QED
      BY <2>1, <2>3
  <1>7. "search" \in Role /\ JobOfSlot(a, "search") \in ArrJobs(a) /\ <<a, "search">> \in Slot
    BY <1>5 DEF Role, ArrJobs, Slot
  <1>8. WorkTypes(t)' /\ Waiting(t)' \subseteq Waiting(t)
    <2>1. slot' \in [Slot -> Proc \cup {None}] /\ registry' \in [Proc -> Job \cup {None}]
      BY <1>1, <1>2 DEF WorkTypes
    <2> QED
      BY <1>1, <1>2, <1>3, <2>1 DEF WorkTypes, Waiting, Reloading
  <1>9. SlotInv' /\ MetaInv'
    <2>1. SlotInv'
      <3>1. SlotInv
        BY <1>1
      <3>2. \A b \in Arr, r \in Role : slot'[<<b, r>>] \in {None, slot[<<b, r>>]}
        BY <1>6
      <3> QED
        BY <3>1, <3>2 DEF SlotInv
    <2>2. MetaInv'
      BY <1>1, <1>4, <1>6, JobFacts DEF MetaInv, Sound
    <2> QED
      BY <2>1, <2>2
  <1>10. TodoInv(t)'
    BY <1>1, <1>2, <1>3, <1>4, <1>6 DEF TodoInv, WorkTypes
  <1>11. u.at = "pop search" => \A q \in children : Sound(JobOf[q]) => JobOf[q] # JobOfSlot(a, "search")
    BY <1>1, <1>7 DEF ChildInv, SearchInv, Search
  <1>12. InHandInv(t)'
    <2> SUFFICES ASSUME NEW q \in Proc, JobOf[q] \in u.jobs, Sound(JobOf[q])
                 PROVE  /\ q \in Alive => q \in children
                        /\ q \in children =>
                              /\ \E b \in ManagedArrs : JobOf[q] \in ArrJobs(b)
                              /\ \A b \in ManagedArrs, r \in Role : JobOf[q] = JobOfSlot(b, r) => slot'[<<b, r>>] = q
      BY <1>2, <1>3, <1>4 DEF InHandInv
    <2>1. ASSUME q \in children, NEW b \in ManagedArrs, NEW r \in Role, JobOf[q] = JobOfSlot(b, r)
          PROVE  slot'[<<b, r>>] = q
      <3>1. slot[<<b, r>>] = q
        BY <1>1, <2>1 DEF ChildInv
      <3>2. ~(u.at = "pop search" /\ b = a /\ r = "search")
        BY <1>11, <2>1
      <3> QED
        BY <1>1, <1>6, <3>1, <3>2
    <2> QED
      BY <1>1, <2>1 DEF ChildInv
  <1>13. HandsOff(t)
    <2>1. \A b \in Arr, r \in Role : JobOfSlot(b, r) \in u.jobs \/ slot'[<<b, r>>] = slot[<<b, r>>]
      BY <1>5, <1>6, <1>7
    <2> QED
      BY <1>1, <1>2, <1>3, <1>4, <2>1 DEF HandsOff
  <1>14. MainInv(t)'
    BY <1>1, <1>2, <1>8, <1>9, <1>10, <1>12, <1>13, HandsOffMain
  <1>15. HandInv(t)' /\ ContestInv(t)'
    BY <1>1, <1>2, <1>3, <1>4, <1>5, <1>8, SameSections
  <1>16. StopInv(t)'
    <2>1. task'[t].at \in Stopping => u.at = "pop" /\ u.at \in Stopping
      BY <1>3 DEF Stopping
    <2> QED
      BY <1>1, <1>2, <1>3, <1>4, <1>5, <2>1 DEF StopInv
  <1>17. NewInv(t)' /\ RebuildInv(t)'
    BY <1>3, <1>5 DEF NewInv, RebuildInv
  <1>18. SearchInv(t)'
    <2>1. task'[t].at \in Search => u.at = "pop search" /\ a \in ManagedArrs
      BY <1>1, <1>3 DEF Search, SearchInv
    <2> QED
      BY <1>3, <1>4, <1>5, <1>6, <1>7, <2>1 DEF SearchInv
  <1>19. StartInv(t)'
    <2> SUFFICES ASSUME NEW b \in ManagedArrs, NEW r \in Role, r \in RolesOf[b],
                        Sound(JobOfSlot(b, r)), JobOfSlot(b, r) \notin missed, ~Making(t, b, r)'
                 PROVE  slot'[<<b, r>>] # None /\ phase[slot'[<<b, r>>]] # "made"
      BY <1>2, <1>4 DEF StartInv
    <2>1. ~(b = a /\ r = "search" /\ u.at = "pop search")
      BY <1>3 DEF Making, Search
    <2>2. slot'[<<b, r>>] = slot[<<b, r>>]
      BY <1>1, <1>6, <2>1
    <2>3. ~Making(t, b, r)
      BY <1>3, <1>5, <2>1 DEF Making, Search
    <2> QED
      BY <1>1, <2>2, <2>3 DEF StartInv
  <1> QED
    BY <1>14, <1>15, <1>16, <1>17, <1>18, <1>19 DEF WorkInv, HeldInv

\* A search loop that is wanted and runs is kept; otherwise its process is stopped.
LEMMA ReconcileWork ==
  ASSUME NEW t \in Thread, ReloadInv(t), ReloadInv(t)', WorkInv(t), Reconcile(t)
  PROVE  WorkInv(t)'
  <1> DEFINE u == task[t]
  <1> PICK a : a = u.arr
    OBVIOUS
  <1> PICK p : p = slot[<<a, "search">>]
    OBVIOUS
  <1>1. /\ WorkTypes(t) /\ SlotInv /\ HandInv(t) /\ ContestInv(t) /\ SearchInv(t)
        /\ DOMAIN task = Thread /\ DOMAIN u = DOMAIN Idle /\ ManagedArrs \subseteq Arr
    BY WorkParts
  <1>2. /\ u.at = "reconcile"
        /\ UNCHANGED <<children, registry, slot, managed, pending, retry, arrs, todo, cur, meta,
                       pc, clash, overlap, config, off, missed>>
    BY DEF Reconcile, At, supervised, tracked, main, history
  <1>3. a \in ManagedArrs /\ a \in Arr /\ a # None /\ ArrJobs(a) \subseteq u.jobs /\ u.arrs = {}
    <2>1. a \in ManagedArrs /\ a \in Arr
      BY <1>1, <1>2 DEF SearchInv, Search
    <2>2. a # None
      BY <2>1, JobFacts
    <2> QED
      BY <1>1, <1>2, <2>1, <2>2 DEF HandInv
  <1>4. "search" \in Role /\ <<a, "search">> \in Slot /\ JobOfSlot(a, "search") \in ArrJobs(a)
    BY <1>3 DEF Role, Slot, ArrJobs
  <1>5. p # None => p \in Proc /\ JobOf[p] = JobOfSlot(a, "search")
    BY <1>1, <1>3, <1>4, JobFacts DEF WorkTypes, SlotInv
  <1>6. \/ /\ p # None /\ phase' = [phase EXCEPT ![p] = IF @ = "alive" THEN "crashed" ELSE @]
           /\ task'[t] = [u EXCEPT !.at = "remove search", !.proc = p]
        \/ p = None /\ phase' = phase /\ task'[t] = [u EXCEPT !.at = "search"]
        \/ /\ p # None /\ phase[p] = "alive" /\ phase' = phase /\ task'[t] = [u EXCEPT !.at = "next"]
    BY <1>1 DEF Reconcile, Then, Go
  <1>7. /\ task'[t].jobs = u.jobs /\ task'[t].live = u.live /\ task'[t].full = u.full
        /\ task'[t].arrs = u.arrs /\ task'[t].procs = u.procs
        /\ task'[t].names = u.names /\ task'[t].name = u.name /\ task'[t].arr = a
        /\ task'[t].roles = u.roles
        /\ \/ /\ p # None /\ phase' = [phase EXCEPT ![p] = IF @ = "alive" THEN "crashed" ELSE @]
              /\ task'[t].at = "remove search" /\ task'[t].proc = p
           \/ p = None /\ phase' = phase /\ task'[t].at = "search" /\ task'[t].proc = u.proc
           \/ p # None /\ phase[p] = "alive" /\ phase' = phase /\ task'[t].at = "next" /\ task'[t].proc = u.proc
    <2>1. CASE task'[t] = [u EXCEPT !.at = "remove search", !.proc = p] /\ p # None
               /\ phase' = [phase EXCEPT ![p] = IF @ = "alive" THEN "crashed" ELSE @]
      BY <1>1, <2>1, Fields
    <2>2. CASE task'[t] = [u EXCEPT !.at = "search"] /\ p = None /\ phase' = phase
      BY <1>1, <2>2, Fields
    <2>3. CASE task'[t] = [u EXCEPT !.at = "next"] /\ p # None /\ phase[p] = "alive" /\ phase' = phase
      BY <1>1, <2>3, Fields
    <2> QED
      BY <1>6, <2>1, <2>2, <2>3
  <1>8. /\ phase' \in [Proc -> Phase]
        /\ \A q \in Proc : phase'[q] = phase[q] \/ (q = p /\ phase[q] = "alive" /\ phase'[q] = "crashed")
        /\ task'[t].at = "remove search" => phase'[p] # "alive"
    <2>1. phase \in [Proc -> Phase]
      BY <1>1 DEF WorkTypes
    <2>2. CASE p # None /\ phase' = [phase EXCEPT ![p] = IF @ = "alive" THEN "crashed" ELSE @]
      BY <1>5, <2>1, <2>2 DEF Phase
    <2>3. CASE phase' = phase /\ task'[t].at # "remove search"
      BY <2>1, <2>3
    <2> QED
      BY <1>7, <2>2, <2>3
  <1>9. /\ ManagedArrs' = ManagedArrs /\ \A j : Sound(j)' <=> Sound(j)
        /\ task'[t].at = "remove search" => p \notin Alive'
    BY <1>2, <1>8 DEF ManagedArrs, Sound, Alive
  <1>10. WorkTypes(t)' /\ Waiting(t)' \subseteq Waiting(t)
    BY <1>1, <1>2, <1>3, <1>5, <1>7, <1>8 DEF WorkTypes, Waiting, Reloading
  <1>11. HandInv(t)' /\ ContestInv(t)'
    BY <1>1, <1>2, <1>3, <1>7, <1>9, <1>10, SameSections
  <1>12. StopInv(t)'
    BY <1>3, <1>4, <1>5, <1>7, <1>9 DEF StopInv, Stopping
  <1>13. NewInv(t)' /\ RebuildInv(t)'
    BY <1>3, <1>7 DEF NewInv, RebuildInv
  <1>14. SearchInv(t)'
    BY <1>2, <1>3, <1>7, <1>9 DEF SearchInv, Search
  <1>15. \A b \in ManagedArrs, r \in Role :
            \/ Making(t, b, r) => Making(t, b, r)'
            \/ r \in RolesOf[b] => slot[<<b, r>>] # None /\ phase[slot[<<b, r>>]] # "made"
    BY <1>2, <1>3, <1>7 DEF Making, Search
  <1>16. \A q \in Proc : phase'[q] # phase[q] => JobOf[q] \in u.jobs
    <2>1. p \in Proc => JobOf[p] \in u.jobs
      BY <1>3, <1>4, <1>5, JobFacts
    <2> QED
      BY <1>8, <2>1
  <1>17. \A q \in Proc : phase'[q] = phase[q] \/ (phase[q] = "alive" /\ phase'[q] = "crashed")
    BY <1>8
  <1> QED
    BY <1>2, <1>7, <1>8, <1>10, <1>11, <1>12, <1>13, <1>14, <1>15, <1>16, <1>17, KillWork

\* Everything that is listed is killed.
LEMMA KillAllWork ==
  ASSUME NEW t \in Thread, ReloadInv(t), ReloadInv(t)', WorkInv(t), KillAll(t)
  PROVE  WorkInv(t)'
  <1> DEFINE u == task[t]
  <1>1. /\ WorkTypes(t) /\ ChildInv /\ HandInv(t) /\ ContestInv(t) /\ Work(t)
        /\ DOMAIN task = Thread /\ DOMAIN u = DOMAIN Idle /\ ManagedArrs \subseteq Arr
    BY WorkParts
  <1>2. /\ u.at = "all" /\ task'[t] = [u EXCEPT !.at = "clear"]
        /\ phase' = [p \in Proc |-> IF p \in children /\ phase[p] = "alive" THEN "crashed" ELSE phase[p]]
        /\ UNCHANGED <<children, registry, slot, managed, pending, retry, arrs, todo, cur, meta,
                       pc, clash, overlap, config, off, missed>>
    BY <1>1 DEF KillAll, KillChildren, At, Then, Go, supervised, tracked, main, history
  <1>3. /\ task'[t].jobs = u.jobs /\ task'[t].live = u.live /\ task'[t].full = u.full
        /\ task'[t].arrs = u.arrs /\ task'[t].procs = u.procs /\ task'[t].proc = u.proc
        /\ task'[t].names = u.names /\ task'[t].name = u.name /\ task'[t].arr = u.arr
        /\ task'[t].roles = u.roles /\ task'[t].at = "clear"
    BY <1>1, <1>2, Fields
  <1>4. u.full /\ u.arrs = {} /\ ArrJob \subseteq u.jobs
    BY <1>1, <1>2 DEF Work, HandInv
  <1>5. /\ phase' \in [Proc -> Phase]
        /\ \A q \in Proc : phase'[q] = phase[q] \/ (phase[q] = "alive" /\ phase'[q] = "crashed")
        /\ \A q \in Proc : phase'[q] # phase[q] => JobOf[q] \in u.jobs \/ JobOf[q] \notin ArrJob
    BY <1>1, <1>2, <1>4 DEF WorkTypes, Phase
  <1>6. /\ ManagedArrs' = ManagedArrs /\ \A j : Sound(j)' <=> Sound(j)
    BY <1>2 DEF ManagedArrs, Sound
  <1>7. \A q \in Alive' : ~Sound(JobOf[q])
    BY <1>1, <1>2 DEF Alive, ChildInv
  <1>8. WorkTypes(t)' /\ Waiting(t)' \subseteq Waiting(t)
    BY <1>1, <1>2, <1>3, <1>5 DEF WorkTypes, Waiting, Reloading
  <1>9. HandInv(t)' /\ ContestInv(t)'
    BY <1>1, <1>2, <1>3, <1>4, <1>6, <1>8, SameSections
  <1>10. StopInv(t)' /\ NewInv(t)' /\ SearchInv(t)'
    BY <1>3, <1>4 DEF StopInv, NewInv, SearchInv, Search, Stopping
  <1>11. RebuildInv(t)'
    BY <1>3, <1>6, <1>7 DEF RebuildInv
  <1>12. \A b \in ManagedArrs, r \in Role : ~Making(t, b, r)
    BY <1>2, <1>4 DEF Making, Search
  <1> QED
    BY <1>2, <1>3, <1>5, <1>8, <1>9, <1>10, <1>11, <1>12, KillWork

\* ... and forgotten.
LEMMA ClearAllWork ==
  ASSUME NEW t \in Thread, ReloadInv(t), ReloadInv(t)', WorkInv(t), ClearAll(t)
  PROVE  WorkInv(t)'
  <1> DEFINE u == task[t]
  <1>1. /\ MainInv(t) /\ WorkTypes(t) /\ SlotInv /\ ChildInv /\ HandInv(t) /\ ContestInv(t) /\ Work(t)
        /\ RebuildInv(t) /\ StartInv(t)
        /\ DOMAIN task = Thread /\ DOMAIN u = DOMAIN Idle /\ ManagedArrs \subseteq Arr
    BY WorkParts
  <1>2. /\ u.at = "clear" /\ task'[t] = [u EXCEPT !.at = "rebuild"]
        /\ children' = {} /\ registry' = [p \in Proc |-> None]
        /\ UNCHANGED <<phase, slot, managed, pending, retry, arrs, todo, cur, meta,
                       pc, clash, overlap, config, off, missed>>
    BY <1>1 DEF ClearAll, At, Then, Go, supervised, main, history
  <1>3. /\ task'[t].jobs = u.jobs /\ task'[t].live = u.live /\ task'[t].full = u.full
        /\ task'[t].arrs = u.arrs /\ task'[t].procs = u.procs /\ task'[t].proc = u.proc
        /\ task'[t].names = u.names /\ task'[t].name = u.name /\ task'[t].arr = u.arr
        /\ task'[t].roles = u.roles /\ task'[t].at = "rebuild"
    BY <1>1, <1>2, Fields
  <1>4. u.full /\ u.arrs = {} /\ ArrJob \subseteq u.jobs
    BY <1>1, <1>2 DEF Work, HandInv
  <1>5. ManagedArrs' = ManagedArrs /\ Alive' = Alive /\ \A j : Sound(j)' <=> Sound(j)
    BY <1>2 DEF ManagedArrs, Alive, Sound
  <1>6. \A q \in Alive : ~Sound(JobOf[q])
    BY <1>1, <1>2 DEF RebuildInv
  <1>7. WorkTypes(t)' /\ Waiting(t)' \subseteq Waiting(t)
    BY <1>1, <1>2, <1>3 DEF WorkTypes, Waiting, Reloading
  <1>8. SlotInv' /\ MetaInv' /\ TodoInv(t)'
    <2>1. SlotInv'
      BY <1>1, <1>2 DEF SlotInv
    <2>2. MetaInv'
      BY <1>2, JobFacts DEF MetaInv, Sound
    <2>3. TodoInv(t)'
      BY <1>1, <1>2 DEF TodoInv, WorkTypes
    <2> QED
      BY <2>1, <2>2, <2>3
  <1>9. InHandInv(t)'
    BY <1>2, <1>5, <1>6 DEF InHandInv
  <1>10. HandsOff(t)
    <2>1. \A q \in Proc : JobOf[q] \in u.jobs \/ JobOf[q] \notin ArrJob
      BY <1>4
    <2> QED
      BY <1>2, <1>3, <1>5, <2>1 DEF HandsOff
  <1>11. MainInv(t)'
    BY <1>1, <1>2, <1>7, <1>8, <1>9, <1>10, HandsOffMain
  <1>12. HandInv(t)' /\ ContestInv(t)'
    BY <1>1, <1>2, <1>3, <1>4, <1>5, <1>7, SameSections
  <1>13. StopInv(t)' /\ NewInv(t)' /\ SearchInv(t)' /\ RebuildInv(t)'
    BY <1>2, <1>3, <1>4 DEF StopInv, NewInv, SearchInv, RebuildInv, Search, Stopping
  <1>14. \A b \in ManagedArrs, r \in Role : ~Making(t, b, r)
    BY <1>2, <1>4 DEF Making, Search
  <1>15. StartInv(t)'
    BY <1>1, <1>2, <1>5, <1>14, StartKept
  <1> QED
    BY <1>11, <1>12, <1>13, <1>15 DEF WorkInv, HeldInv

\* The object that leaves the manager has no worker.
LEMMA DropWork ==
  ASSUME NEW t \in Thread, ReloadInv(t), ReloadInv(t)', WorkInv(t), Drop(t)
  PROVE  WorkInv(t)'
  <1> DEFINE u == task[t]
  <1> PICK n, a : n = u.name /\ a = u.arr
    OBVIOUS
  <1>1. /\ MainInv(t) /\ WorkTypes(t) /\ SlotInv /\ ChildInv /\ MetaInv /\ TodoInv(t) /\ HandInv(t)
        /\ ContestInv(t) /\ StopInv(t) /\ StartInv(t) /\ Work(t) /\ ManagedInv
        /\ DOMAIN task = Thread /\ DOMAIN u = DOMAIN Idle /\ ManagedArrs \subseteq Arr
    BY WorkParts
  <1>2. /\ u.at = "stop" /\ u.roles = {}
        /\ task'[t] = [u EXCEPT !.at = IF n \in u.gone THEN "next" ELSE "build", !.arr = None]
        /\ managed' = [managed EXCEPT ![CatOf[a]] = None]
        /\ slot' = [s \in Slot |-> IF s[1] = a THEN None ELSE slot[s]]
        /\ UNCHANGED <<phase, children, registry, pending, retry, arrs, todo, cur, meta,
                       pc, clash, overlap, config, off, missed>>
    BY <1>1 DEF Drop, At, Go, tracked, main, history
  <1>3. /\ task'[t].jobs = u.jobs /\ task'[t].live = u.live /\ task'[t].full = u.full
        /\ task'[t].arrs = u.arrs /\ task'[t].procs = u.procs /\ task'[t].proc = u.proc
        /\ task'[t].names = u.names /\ task'[t].name = u.name /\ task'[t].arr = None
        /\ task'[t].roles = u.roles /\ task'[t].at \in {"next", "build"}
    BY <1>1, <1>2, Fields
  <1>4. a \in ManagedArrs /\ a \in Arr /\ a # None /\ CatOf[a] \in Category /\ ArrJobs(a) \subseteq u.jobs
    <2>1. a \in ManagedArrs
      BY <1>1, <1>2 DEF Work, Reloading, Named
    <2> QED
      BY <1>1, <2>1, JobFacts, ArrFacts DEF HandInv
  <1>5. ManagedArrs' = ManagedArrs \ {a}
    <2>1. \A c \in Category : managed'[c] = IF c = CatOf[a] THEN None ELSE managed[c]
      BY <1>1, <1>2 DEF ManagedInv
    <2>2. \A c \in Category : managed[c] = a => c = CatOf[a]
      BY <1>1, <1>4 DEF ManagedInv
    <2>3. managed[CatOf[a]] = a
      BY <1>1, <1>4, ManagedFacts
    <2> QED
      BY <1>4, <2>1, <2>2, <2>3 DEF ManagedArrs
  <1>6. Alive' = Alive /\ \A j : Sound(j)' <=> Sound(j)
    BY <1>2 DEF Alive, Sound
  <1>7. /\ \A b \in Arr, r \in Role : slot'[<<b, r>>] = IF b = a THEN None ELSE slot[<<b, r>>]
        /\ slot' \in [Slot -> Proc \cup {None}]
    <2>1. \A s \in Slot : slot'[s] = IF s[1] = a THEN None ELSE slot[s]
      BY <1>2
    <2>2. slot \in [Slot -> Proc \cup {None}]
      BY <1>1 DEF WorkTypes
    <2>3. \A b \in Arr, r \in Role : <<b, r>> \in Slot /\ <<b, r>>[1] = b
      BY DEF Slot
    <2> QED
      BY <1>2, <2>1, <2>2, <2>3
  <1>8. u.arrs = {}
    BY <1>1, <1>2 DEF HandInv
  <1>9. WorkTypes(t)' /\ Waiting(t)' \subseteq Waiting(t)
    BY <1>1, <1>2, <1>3, <1>7 DEF WorkTypes, Waiting, Reloading
  <1>10. SlotInv' /\ MetaInv' /\ TodoInv(t)'
    <2>1. SlotInv'
      BY <1>1, <1>7 DEF SlotInv
    <2>2. MetaInv'
      BY <1>1, <1>2, <1>6 DEF MetaInv
    <2>3. TodoInv(t)'
      BY <1>1, <1>2, <1>6 DEF TodoInv
    <2> QED
      BY <2>1, <2>2, <2>3
  <1>11. \A p \in children : Sound(JobOf[p]) => JobOf[p] \notin ArrJobs(a)
    <2> SUFFICES ASSUME NEW p \in children, Sound(JobOf[p]), NEW r \in Role, JobOf[p] = JobOfSlot(a, r)
                 PROVE  FALSE
      BY DEF ArrJobs
    <2>1. slot[<<a, r>>] = p
      BY <1>1, <1>4 DEF ChildInv
    <2> QED
      BY <1>1, <1>2, <2>1 DEF StopInv, Stopping
  <1>12. InHandInv(t)'
    <2> SUFFICES ASSUME NEW p \in Proc, Sound(JobOf[p])
                 PROVE  /\ p \in Alive => p \in children
                        /\ p \in children =>
                              /\ \E b \in ManagedArrs' : JobOf[p] \in ArrJobs(b)
                              /\ \A b \in ManagedArrs', r \in Role : JobOf[p] = JobOfSlot(b, r) => slot'[<<b, r>>] = p
      BY <1>2, <1>6 DEF InHandInv
    <2>1. p \in Alive => p \in children
      BY <1>1 DEF ChildInv
    <2>2. ASSUME p \in children
          PROVE  \E b \in ManagedArrs' : JobOf[p] \in ArrJobs(b)
      <3>1. PICK b \in ManagedArrs : JobOf[p] \in ArrJobs(b)
        BY <1>1, <2>2 DEF ChildInv
      <3>2. b # a
        BY <1>11, <2>2, <3>1
      <3> QED
        BY <1>5, <3>1, <3>2
    <2>3. ASSUME p \in children, NEW b \in ManagedArrs', NEW r \in Role, JobOf[p] = JobOfSlot(b, r)
          PROVE  slot'[<<b, r>>] = p
      <3>1. b \in ManagedArrs /\ b # a /\ b \in Arr
        BY <1>1, <1>5
      <3>2. slot[<<b, r>>] = p
        BY <1>1, <2>3, <3>1 DEF ChildInv
      <3> QED
        BY <1>7, <3>1, <3>2
    <2> QED
      BY <2>1, <2>2, <2>3
  <1>13. HandsOff(t)
    <2>1. \A b \in Arr, r \in Role : JobOfSlot(b, r) \in u.jobs \/ slot'[<<b, r>>] = slot[<<b, r>>]
      BY <1>4, <1>7 DEF ArrJobs
    <2>2. \A b \in ManagedArrs : \/ b \in ManagedArrs'
                                 \/ \A r \in Role : Sound(JobOfSlot(b, r)) => JobOfSlot(b, r) \in u.jobs
      BY <1>4, <1>5 DEF ArrJobs
    <2>3. \A b \in ManagedArrs' : b \in ManagedArrs
      BY <1>5
    <2> QED
      BY <1>2, <1>3, <1>6, <2>1, <2>2, <2>3 DEF HandsOff
  <1>14. MainInv(t)'
    BY <1>1, <1>2, <1>9, <1>10, <1>12, <1>13, HandsOffMain
  <1>15. HandInv(t)' /\ ContestInv(t)'
    BY <1>1, <1>2, <1>3, <1>5, <1>8, <1>9, SameSections
  <1>16. StopInv(t)' /\ NewInv(t)' /\ SearchInv(t)' /\ RebuildInv(t)'
    BY <1>3, <1>8 DEF StopInv, NewInv, SearchInv, RebuildInv, Search, Stopping
  <1>17. StartInv(t)'
    <2> SUFFICES ASSUME NEW b \in ManagedArrs', NEW r \in Role, r \in RolesOf[b],
                        Sound(JobOfSlot(b, r)), JobOfSlot(b, r) \notin missed
                 PROVE  slot'[<<b, r>>] # None /\ phase[slot'[<<b, r>>]] # "made"
      BY <1>2, <1>6 DEF StartInv
    <2>1. b \in ManagedArrs /\ b # a /\ b \in Arr
      BY <1>1, <1>5
    <2>2. ~Making(t, b, r)
      BY <1>2, <1>8 DEF Making, Search
    <2> QED
      BY <1>1, <1>7, <2>1, <2>2 DEF StartInv
  <1> QED
    BY <1>14, <1>15, <1>16, <1>17 DEF WorkInv, HeldInv

\* A category manager is made ...
LEMMA RunManagerWork ==
  ASSUME NEW t \in Thread, ReloadInv(t), ReloadInv(t)', WorkInv(t), RunManager(t)
  PROVE  WorkInv(t)'
  <1> DEFINE u == task[t]
  <1>1. /\ MainInv(t) /\ WorkTypes(t) /\ SlotInv /\ ChildInv /\ MetaInv /\ TodoInv(t) /\ HandInv(t)
        /\ ContestInv(t) /\ StartInv(t) /\ CurInv(t)
        /\ DOMAIN task = Thread /\ DOMAIN u = DOMAIN Idle /\ ManagedArrs \subseteq Arr
    BY WorkParts
  <1>2. /\ u.at = "managers" /\ missed \subseteq missed'
        /\ UNCHANGED <<children, registry, slot, managed, pending, retry, arrs, todo, cur, meta,
                       pc, clash, overlap, config, off>>
    BY DEF RunManager, At, tracked, supervised, main
  <1>3. \/ \E q : \E p \in Unused :
              /\ JobOf[p] = ManagerJob(q) /\ Construct({p}, {p})
              /\ task'[t] = [u EXCEPT !.at = "join", !.qbits = @ \ {q}, !.proc = p]
        \/ /\ phase' = phase
           /\ \E q : task'[t] = [u EXCEPT !.qbits = @ \ {q}]
    <2>1. \/ \E q : \E p \in Unused :
              /\ JobOf[p] = ManagerJob(q) /\ Construct({p}, {p})
              /\ Go(t, [u EXCEPT !.at = "join", !.qbits = @ \ {q}, !.proc = p])
          \/ phase' = phase /\ \E q : Go(t, [u EXCEPT !.qbits = @ \ {q}])
      BY Zenon DEF RunManager
    <2> QED
      BY <1>1, <2>1 DEF Go
  <1>4. /\ task'[t].jobs = u.jobs /\ task'[t].live = u.live /\ task'[t].full = u.full
        /\ task'[t].arrs = u.arrs /\ task'[t].procs = u.procs
        /\ task'[t].names = u.names /\ task'[t].name = u.name /\ task'[t].arr = u.arr
        /\ task'[t].roles = u.roles
        /\ \/ /\ task'[t].at = "join" /\ task'[t].proc \in Proc
              /\ JobOf[task'[t].proc] \notin ArrJob /\ task'[t].proc # cur
              /\ phase' = [p \in Proc |-> IF p = task'[t].proc THEN "alive" ELSE phase[p]]
           \/ task'[t].at = "managers" /\ task'[t].proc = u.proc /\ phase' = phase
    <2>1. CASE \E q : \E p \in Unused :
              /\ JobOf[p] = ManagerJob(q) /\ Construct({p}, {p})
              /\ task'[t] = [u EXCEPT !.at = "join", !.qbits = @ \ {q}, !.proc = p]
      <3>1. PICK q, p : /\ p \in Unused /\ JobOf[p] = ManagerJob(q) /\ Construct({p}, {p})
                        /\ task'[t] = [u EXCEPT !.at = "join", !.qbits = @ \ {q}, !.proc = p]
        BY <2>1
      <3>2. p \in Proc /\ p # cur /\ JobOf[p] \notin ArrJob
        <4>1. ManagerJob(q) \notin ArrJob
          BY DEF ManagerJob, ArrJob, JobOfSlot, Role
        <4> QED
          BY <3>1, <4>1 DEF Unused, Free
      <3>3. phase' = [x \in Proc |-> IF x = p THEN "alive" ELSE phase[x]]
        BY <3>1 DEF Construct
      <3> QED
        BY <1>1, <3>1, <3>2, <3>3, Fields
    <2>2. CASE phase' = phase /\ \E q : task'[t] = [u EXCEPT !.qbits = @ \ {q}]
      BY <1>1, <1>2, <2>2, Fields
    <2> QED
      BY <1>3, <2>1, <2>2
  <1>5. /\ phase' \in [Proc -> Phase]
        /\ \A p \in Proc : JobOf[p] \in ArrJob \/ p = cur => phase'[p] = phase[p]
        /\ \A p \in Proc : phase'[p] = "made" => phase[p] = "made"
    <2>1. phase \in [Proc -> Phase] /\ "alive" \in Phase
      BY <1>1 DEF WorkTypes, Phase
    <2> QED
      BY <1>4, <2>1
  <1>6. ManagedArrs' = ManagedArrs /\ \A j : Sound(j)' <=> Sound(j)
    BY <1>2 DEF ManagedArrs, Sound
  <1>7. u.arrs = {}
    BY <1>1, <1>2 DEF HandInv
  <1>8. WorkTypes(t)' /\ Waiting(t)' \subseteq Waiting(t)
    BY <1>1, <1>2, <1>4, <1>5 DEF WorkTypes, Waiting, Reloading
  <1>9. SlotInv' /\ MetaInv' /\ TodoInv(t)'
    <2>1. SlotInv'
      BY <1>1, <1>2 DEF SlotInv
    <2>2. MetaInv'
      BY <1>1, <1>2, <1>6 DEF MetaInv
    <2>3. TodoInv(t)'
      BY <1>1, <1>2, <1>6 DEF TodoInv
    <2> QED
      BY <2>1, <2>2, <2>3
  <1>10. \A p \in Proc : JobOf[p] \in ArrJob => (p \in Alive' <=> p \in Alive)
    BY <1>5 DEF Alive
  <1>11. InHandInv(t)'
    BY <1>1, <1>2, <1>6, <1>10 DEF ChildInv, InHandInv, Sound
  <1>12. HandsOff(t)
    BY <1>2, <1>4, <1>5, <1>6, <1>10 DEF HandsOff
  <1>13. MainInv(t)'
    BY <1>1, <1>2, <1>8, <1>9, <1>11, <1>12, HandsOffMain
  <1>14. HandInv(t)' /\ ContestInv(t)'
    BY <1>1, <1>2, <1>4, <1>6, <1>7, <1>8, SameSections
  <1>15. StopInv(t)' /\ SearchInv(t)' /\ RebuildInv(t)'
    BY <1>4 DEF StopInv, SearchInv, RebuildInv, Search, Stopping
  <1>16. NewInv(t)'
    BY <1>4, <1>7, JobFacts DEF NewInv
  <1>17. \A b \in ManagedArrs, r \in Role : ~Making(t, b, r)
    BY <1>2, <1>7 DEF Making, Search
  <1>18. StartInv(t)'
    BY <1>1, <1>2, <1>5, <1>6, <1>17, StartKept
  <1> QED
    BY <1>13, <1>14, <1>15, <1>16, <1>18 DEF WorkInv, HeldInv

\* ... and listed.
LEMMA JoinManagerWork ==
  ASSUME NEW t \in Thread, ReloadInv(t), ReloadInv(t)', WorkInv(t), JoinManager(t)
  PROVE  WorkInv(t)'
  <1> DEFINE u == task[t]
  <1> PICK p : p = u.proc
    OBVIOUS
  <1>1. /\ MainInv(t) /\ WorkTypes(t) /\ SlotInv /\ ChildInv /\ MetaInv /\ TodoInv(t) /\ HandInv(t)
        /\ ContestInv(t) /\ NewInv(t) /\ StartInv(t)
        /\ DOMAIN task = Thread /\ DOMAIN u = DOMAIN Idle /\ ManagedArrs \subseteq Arr
    BY WorkParts
  <1>2. /\ u.at = "join" /\ task'[t] = [u EXCEPT !.at = "managers", !.proc = None]
        /\ children' = children \cup {p}
        /\ registry' = [q \in Proc |-> IF q \in {p} THEN JobOf[q] ELSE registry[q]]
        /\ UNCHANGED <<phase, slot, managed, pending, retry, arrs, todo, cur, meta,
                       pc, clash, overlap, config, off, missed>>
    BY <1>1 DEF JoinManager, Track, At, Go, supervised, main, history
  <1>3. /\ task'[t].jobs = u.jobs /\ task'[t].live = u.live /\ task'[t].full = u.full
        /\ task'[t].arrs = u.arrs /\ task'[t].procs = u.procs /\ task'[t].proc = None
        /\ task'[t].names = u.names /\ task'[t].name = u.name /\ task'[t].arr = u.arr
        /\ task'[t].roles = u.roles /\ task'[t].at = "managers"
    BY <1>1, <1>2, Fields
  <1>4. /\ u.arrs = {} /\ p \in Proc /\ JobOf[p] \notin ArrJob /\ JobOf[p] \in Job /\ ~Sound(JobOf[p])
    BY <1>1, <1>2, JobFacts DEF HandInv, NewInv, WorkTypes, Sound
  <1>5. ManagedArrs' = ManagedArrs /\ Alive' = Alive /\ \A j : Sound(j)' <=> Sound(j)
    BY <1>2 DEF ManagedArrs, Alive, Sound
  <1>6. WorkTypes(t)' /\ Waiting(t)' \subseteq Waiting(t)
    <2>1. registry' \in [Proc -> Job \cup {None}] /\ children' \subseteq Proc
      BY <1>1, <1>2, <1>4 DEF WorkTypes
    <2> QED
      BY <1>1, <1>2, <1>3, <2>1 DEF WorkTypes, Waiting, Reloading
  <1>7. SlotInv' /\ MetaInv' /\ TodoInv(t)'
    <2>1. SlotInv'
      BY <1>1, <1>2 DEF SlotInv
    <2>2. MetaInv'
      BY <1>1, <1>2, <1>4, <1>5 DEF MetaInv
    <2>3. TodoInv(t)'
      BY <1>1, <1>2, <1>4, <1>5 DEF TodoInv, WorkTypes
    <2> QED
      BY <2>1, <2>2, <2>3
  <1>8. InHandInv(t)'
    BY <1>1, <1>2, <1>4, <1>5 DEF ChildInv, InHandInv
  <1>9. HandsOff(t)
    BY <1>2, <1>3, <1>4, <1>5 DEF HandsOff
  <1>10. MainInv(t)'
    BY <1>1, <1>2, <1>6, <1>7, <1>8, <1>9, HandsOffMain
  <1>11. HandInv(t)' /\ ContestInv(t)'
    BY <1>1, <1>2, <1>3, <1>4, <1>5, <1>6, SameSections
  <1>12. StopInv(t)' /\ NewInv(t)' /\ SearchInv(t)' /\ RebuildInv(t)'
    BY <1>3, <1>4 DEF StopInv, NewInv, SearchInv, RebuildInv, Search, Stopping
  <1>13. \A b \in ManagedArrs, r \in Role : ~Making(t, b, r)
    BY <1>2, <1>4 DEF Making, Search
  <1>14. StartInv(t)'
    BY <1>1, <1>2, <1>5, <1>13, StartKept
  <1> QED
    BY <1>10, <1>11, <1>12, <1>14 DEF WorkInv, HeldInv

\* A new process is started, or fails to.
LEMMA RunWork ==
  ASSUME NEW t \in Thread, ReloadInv(t), ReloadInv(t)', WorkInv(t), Run(t)
  PROVE  WorkInv(t)'
  <1> DEFINE u == task[t]
  <1>1. /\ MainInv(t) /\ WorkTypes(t) /\ SlotInv /\ ChildInv /\ MetaInv /\ TodoInv(t) /\ CurInv(t)
        /\ HandInv(t) /\ ContestInv(t) /\ NewInv(t) /\ StartInv(t)
        /\ DOMAIN task = Thread /\ DOMAIN u = DOMAIN Idle /\ ManagedArrs \subseteq Arr
    BY WorkParts
  <1>2. /\ u.at = "run"
        /\ UNCHANGED <<children, registry, slot, managed, pending, retry, arrs, todo, cur, meta,
                       pc, clash, overlap, config, off>>
    BY DEF Run, At, tracked, supervised, main
  <1>3. PICK p \in u.procs :
          \/ /\ phase[p] = "made" /\ phase' = [phase EXCEPT ![p] = "alive"] /\ missed' = missed
             /\ task'[t] = [u EXCEPT !.at = "note", !.procs = @ \ {p}, !.proc = p]
          \/ /\ phase' = phase /\ missed' = missed \cup {JobOf[p]}
             /\ task'[t] = [u EXCEPT !.procs = @ \ {p}]
    BY <1>1 DEF Run, Go
  <1>4. /\ task'[t].jobs = u.jobs /\ task'[t].live = u.live /\ task'[t].full = u.full
        /\ task'[t].arrs = u.arrs /\ task'[t].procs = u.procs \ {p}
        /\ task'[t].names = u.names /\ task'[t].name = u.name /\ task'[t].arr = u.arr
        /\ task'[t].roles = u.roles
        /\ \/ /\ phase[p] = "made" /\ phase' = [phase EXCEPT ![p] = "alive"] /\ missed' = missed
              /\ task'[t].at = "note" /\ task'[t].proc = p
           \/ /\ phase' = phase /\ missed' = missed \cup {JobOf[p]}
              /\ task'[t].at = "run" /\ task'[t].proc = u.proc
    <2>1. CASE task'[t] = [u EXCEPT !.at = "note", !.procs = @ \ {p}, !.proc = p]
               /\ phase[p] = "made" /\ phase' = [phase EXCEPT ![p] = "alive"] /\ missed' = missed
      BY <1>1, <1>2, <2>1, Fields
    <2>2. CASE task'[t] = [u EXCEPT !.procs = @ \ {p}] /\ phase' = phase /\ missed' = missed \cup {JobOf[p]}
      BY <1>1, <1>2, <2>2, Fields
    <2> QED
      BY <1>3, <2>1, <2>2
  <1>5. /\ p \in Proc /\ JobOf[p] \in ArrJobs(u.arr) /\ JobOf[p] \in u.jobs /\ u.arr # None
        /\ Sound(JobOf[p]) => phase[p] = "made" /\ p \in children
    BY <1>1, <1>2, JobFacts DEF NewInv, HandInv, WorkTypes
  <1>6. /\ phase' \in [Proc -> Phase] /\ phase \in [Proc -> Phase]
        /\ \A q \in Proc : phase'[q] = phase[q] \/ (q = p /\ phase[q] = "made" /\ phase'[q] = "alive")
        /\ missed \subseteq missed'
    <2>1. phase \in [Proc -> Phase] /\ "alive" \in Phase
      BY <1>1 DEF WorkTypes, Phase
    <2> QED
      BY <1>4, <1>5, <2>1
  <1>7. /\ ManagedArrs' = ManagedArrs /\ \A j : Sound(j)' <=> Sound(j)
        /\ Alive' \subseteq Alive \cup {p}
    BY <1>2, <1>6 DEF ManagedArrs, Sound, Alive
  <1>8. WorkTypes(t)' /\ Waiting(t)' \subseteq Waiting(t)
    <2>1. task'[t].proc \in Proc \cup {None} /\ task'[t].procs \subseteq Proc
      BY <1>1, <1>4, <1>5 DEF WorkTypes
    <2> QED
      BY <1>1, <1>2, <1>4, <1>6, <2>1 DEF WorkTypes, Waiting, Reloading
  <1>9. SlotInv' /\ MetaInv' /\ TodoInv(t)'
    <2>1. SlotInv'
      BY <1>1, <1>2 DEF SlotInv
    <2>2. MetaInv'
      BY <1>1, <1>2, <1>7 DEF MetaInv
    <2>3. TodoInv(t)'
      BY <1>1, <1>2, <1>7 DEF TodoInv
    <2> QED
      BY <2>1, <2>2, <2>3
  <1>10. InHandInv(t)'
    <2> SUFFICES ASSUME NEW q \in Proc, Sound(JobOf[q])
                 PROVE  /\ q \in Alive' => q \in children
                        /\ q \in children =>
                              /\ \E b \in ManagedArrs : JobOf[q] \in ArrJobs(b)
                              /\ \A b \in ManagedArrs, r \in Role : JobOf[q] = JobOfSlot(b, r) => slot[<<b, r>>] = q
      BY <1>2, <1>7 DEF InHandInv
    <2> QED
      BY <1>1, <1>5, <1>7 DEF ChildInv
  <1>11. HandsOff(t)
    <2>1. \A q \in Proc : JobOf[q] \in u.jobs \/ (q \in Alive' => q \in Alive)
      BY <1>5, <1>7
    <2>2. \A q \in Proc : phase[q] = "crashed" /\ q = cur => phase'[q] = "crashed"
      BY <1>6
    <2> QED
      BY <1>2, <1>4, <1>7, <2>1, <2>2 DEF HandsOff
  <1>12. MainInv(t)'
    BY <1>1, <1>2, <1>8, <1>9, <1>10, <1>11, HandsOffMain
  <1>13. HandInv(t)' /\ ContestInv(t)'
    <2>1. task'[t].arrs # {} => task'[t].full /\ task'[t].at \in {"each", "spawn", "run", "note"}
      BY <1>1, <1>4 DEF HandInv
    <2> QED
      BY <1>1, <1>2, <1>4, <1>7, <1>8, <2>1, SameSections
  <1>14. StopInv(t)' /\ SearchInv(t)' /\ RebuildInv(t)'
    BY <1>4 DEF StopInv, SearchInv, RebuildInv, Search, Stopping
  <1>15. NewInv(t)'
    <2>1. \A q \in task'[t].procs : /\ JobOf[q] \in ArrJobs(u.arr)
                                    /\ Sound(JobOf[q]) => phase'[q] = "made" /\ q \in children
      <3>1. \A q \in task'[t].procs : q \in u.procs /\ q # p /\ q \in Proc
        BY <1>1, <1>4 DEF WorkTypes
      <3> QED
        BY <1>1, <1>2, <1>6, <3>1 DEF NewInv
    <2>2. \A a \in u.arrs : /\ a \in ManagedArrs
                            /\ \A r \in Role : Sound(JobOfSlot(a, r)) => slot[<<a, r>>] = None
      BY <1>1 DEF NewInv
    <2>3. p # None
      BY <1>5, JobFacts
    <2> QED
      BY <1>2, <1>4, <1>5, <1>7, <2>1, <2>2, <2>3 DEF NewInv
  <1>16. StartInv(t)'
    <2> SUFFICES ASSUME NEW b \in ManagedArrs, NEW r \in Role, r \in RolesOf[b],
                        Sound(JobOfSlot(b, r)), JobOfSlot(b, r) \notin missed', ~Making(t, b, r)'
                 PROVE  slot[<<b, r>>] # None /\ phase'[slot[<<b, r>>]] # "made"
      BY <1>2, <1>7 DEF StartInv
    <2>1. b \in Arr /\ <<b, r>> \in Slot /\ JobOfSlot(b, r) \notin missed
      BY <1>1, <1>6, JobFacts
    <2>2. slot \in [Slot -> Proc \cup {None}]
      BY <1>1 DEF WorkTypes
    <2>3. CASE slot[<<b, r>>] = p
      <3>1. JobOf[p] = JobOfSlot(b, r)
        BY <1>1, <1>5, <2>1, <2>3, JobFacts DEF SlotInv
      <3>2. phase'[p] = "alive"
        BY <1>4, <1>5, <1>6, <3>1
      <3> QED
        BY <1>5, <2>3, <3>2, JobFacts
    <2>4. CASE slot[<<b, r>>] # p
      <3>1. ~Making(t, b, r)
        BY <1>2, <1>4, <2>4 DEF Making, Search
      <3>2. slot[<<b, r>>] # None /\ phase[slot[<<b, r>>]] # "made"
        BY <1>1, <2>1, <3>1 DEF StartInv
      <3> QED
        BY <1>6, <2>1, <2>2, <3>2
    <2> QED
      BY <2>3, <2>4
  <1> QED
    BY <1>12, <1>13, <1>14, <1>15, <1>16 DEF WorkInv, HeldInv

\* A process that its object shows no longer is registered as what it is not.
LEMMA NoteWork ==
  ASSUME NEW t \in Thread, ReloadInv(t), ReloadInv(t)', WorkInv(t), Note(t)
  PROVE  WorkInv(t)'
  <1> DEFINE u == task[t]
  <1> PICK p, a : p = u.proc /\ a = u.arr
    OBVIOUS
  <1> PICK j : j = JobOfSlot(a, IF slot[<<a, "search">>] = p THEN "search" ELSE "torrent")
    OBVIOUS
  <1>1. /\ MainInv(t) /\ WorkTypes(t) /\ SlotInv /\ ChildInv /\ MetaInv /\ TodoInv(t)
        /\ HandInv(t) /\ ContestInv(t) /\ NewInv(t) /\ StartInv(t)
        /\ DOMAIN task = Thread /\ DOMAIN u = DOMAIN Idle /\ ManagedArrs \subseteq Arr
    BY WorkParts
  <1>2. /\ u.at = "note" /\ task'[t] = [u EXCEPT !.at = "run", !.proc = None]
        /\ registry' = [registry EXCEPT ![p] = j] /\ clash' = clash \cup ({j} \ {JobOf[p]})
        /\ UNCHANGED <<phase, children, slot, managed, pending, retry, arrs, todo, cur, meta,
                       pc, overlap, config, off, missed>>
    BY <1>1 DEF Note, At, Go, supervised, main
  <1>3. /\ task'[t].jobs = u.jobs /\ task'[t].live = u.live /\ task'[t].full = u.full
        /\ task'[t].arrs = u.arrs /\ task'[t].procs = u.procs /\ task'[t].proc = None
        /\ task'[t].names = u.names /\ task'[t].name = u.name /\ task'[t].arr = u.arr
        /\ task'[t].roles = u.roles /\ task'[t].at = "run"
    BY <1>1, <1>2, Fields
  <1>4. /\ p \in Proc /\ a \in Arr /\ a # None /\ j \in Job
        /\ Sound(JobOf[p]) /\ p \in todo => p \in children
    <2>1. /\ p \in Proc /\ a \in Arr /\ a # None
          /\ Sound(JobOf[p]) /\ p \in todo => p \in children
      BY <1>1, <1>2 DEF NewInv, WorkTypes
    <2> QED
      BY <2>1, JobFacts DEF Role
  <1>5. /\ ManagedArrs' = ManagedArrs /\ Alive' = Alive /\ \A i : Sound(i)' => Sound(i)
        /\ Sound(j)' => j = JobOf[p]
        /\ clash \subseteq clash' /\ overlap \subseteq overlap'
    BY <1>2 DEF ManagedArrs, Sound, Alive
  <1>6. /\ \A q \in Proc : registry'[q] = IF q = p THEN j ELSE registry[q]
        /\ registry' \in [Proc -> Job \cup {None}]
    <2>1. registry \in [Proc -> Job \cup {None}]
      BY <1>1 DEF WorkTypes
    <2> QED
      BY <1>2, <1>4, <2>1
  <1>7. WorkTypes(t)' /\ Waiting(t)' \subseteq Waiting(t)
    BY <1>1, <1>2, <1>3, <1>6 DEF WorkTypes, Waiting, Reloading
  <1>8. SlotInv' /\ MetaInv' /\ TodoInv(t)'
    <2>1. SlotInv'
      BY <1>1, <1>2 DEF SlotInv
    <2>2. MetaInv'
      BY <1>1, <1>5, <1>6 DEF MetaInv
    <2>3. TodoInv(t)'
      <3> SUFFICES ASSUME NEW q \in todo, Sound(JobOf[q])', registry'[q] # None
                   PROVE  q \in children
        BY <1>2 DEF TodoInv
      <3>1. q \in Proc /\ Sound(JobOf[q])
        BY <1>1, <1>5 DEF WorkTypes
      <3>2. CASE q = p
        BY <1>4, <3>1, <3>2
      <3>3. CASE q # p
        <4>1. registry[q] # None /\ u.at \notin {"pop", "pop search"}
          BY <1>2, <1>6, <3>1, <3>3
        <4> QED
          BY <1>1, <3>1, <4>1 DEF TodoInv
      <3> QED
        BY <3>2, <3>3
    <2> QED
      BY <2>1, <2>2, <2>3
  <1>9. InHandInv(t)'
    BY <1>1, <1>2, <1>5 DEF ChildInv, InHandInv
  <1>10. HandsOff(t)
    BY <1>2, <1>3, <1>5 DEF HandsOff
  <1>11. MainInv(t)'
    BY <1>1, <1>2, <1>7, <1>8, <1>9, <1>10, HandsOffMain
  <1>12. HandInv(t)' /\ ContestInv(t)'
    <2>1. task'[t].arrs # {} => task'[t].full /\ task'[t].at \in {"each", "spawn", "run", "note"}
      BY <1>1, <1>3 DEF HandInv
    <2> QED
      BY <1>1, <1>2, <1>3, <1>5, <1>7, <2>1, SameSections
  <1>13. StopInv(t)' /\ SearchInv(t)' /\ RebuildInv(t)'
    BY <1>3 DEF StopInv, SearchInv, RebuildInv, Search, Stopping
  <1>14. NewInv(t)'
    BY <1>1, <1>2, <1>3, <1>4, <1>5 DEF NewInv
  <1>15. \A b \in ManagedArrs, r \in Role : Making(t, b, r) => Making(t, b, r)'
    BY <1>2, <1>3 DEF Making, Search
  <1>16. StartInv(t)'
    BY <1>1, <1>2, <1>5, <1>15, StartKept
  <1> QED
    BY <1>11, <1>12, <1>13, <1>14, <1>16 DEF WorkInv, HeldInv

\* What a process object that nothing refers to is not.
LEMMA UnusedFacts ==
  ASSUME NEW p \in Unused
  PROVE  /\ p \in Proc /\ p \notin Alive /\ registry[p] = None
         /\ p \notin children /\ p \notin todo /\ p # cur
         /\ \A s \in Slot : slot[s] # p
  BY DEF Unused, Free, Alive

\* A new object's loops get their processes.
LEMMA SpawnWork ==
  ASSUME NEW t \in Thread, ReloadInv(t), ReloadInv(t)', WorkInv(t), Spawn(t)
  PROVE  WorkInv(t)'
  <1> DEFINE u == task[t]
  <1> PICK a : a = u.arr
    OBVIOUS
  <1>1. /\ MainInv(t) /\ WorkTypes(t) /\ SlotInv /\ ChildInv /\ MetaInv /\ TodoInv(t)
        /\ HandInv(t) /\ ContestInv(t) /\ NewInv(t) /\ StartInv(t) /\ ManagedInv
        /\ DOMAIN task = Thread /\ DOMAIN u = DOMAIN Idle /\ ManagedArrs \subseteq Arr
    BY WorkParts
  <1>2. /\ u.at = "spawn"
        /\ UNCHANGED <<registry, managed, pending, retry, arrs, todo, cur, meta,
                       pc, clash, overlap, config, off, missed>>
    BY DEF Spawn, At, supervised, main, history
  <1>3. PICK f \in [RolesOf[a] -> Unused] :
         /\ \A r \in DOMAIN f : JobOf[f[r]] = JobOfSlot(a, r)
         /\ FillSlots(a, f)
         /\ Construct(Image(f, DOMAIN f), {})
         /\ children' = children \cup Image(f, DOMAIN f)
         /\ task' = [task EXCEPT ![t] = [u EXCEPT !.at = "run", !.procs = Image(f, DOMAIN f)]]
    BY DEF Spawn, Go
  <1> PICK new : new = Image(f, DOMAIN f)
    OBVIOUS
  <1>4. /\ task'[t].jobs = u.jobs /\ task'[t].live = u.live /\ task'[t].full = u.full
        /\ task'[t].arrs = u.arrs /\ task'[t].procs = new /\ task'[t].proc = u.proc
        /\ task'[t].names = u.names /\ task'[t].name = u.name /\ task'[t].arr = a
        /\ task'[t].roles = u.roles /\ task'[t].at = "run"
    <2>1. task'[t] = [u EXCEPT !.at = "run", !.procs = new]
      BY <1>1, <1>3
    <2> QED
      BY <1>1, <2>1, Fields
  <1>5. /\ a \in ManagedArrs /\ a \in Arr /\ a # None /\ a \notin u.arrs /\ ArrJobs(a) \subseteq u.jobs
        /\ \A r \in Role : Sound(JobOfSlot(a, r)) => slot[<<a, r>>] = None
    <2>1. a \in ManagedArrs /\ a \in Arr /\ a # None /\ a \notin u.arrs
      BY <1>1, <1>2, JobFacts DEF NewInv
    <2> QED
      BY <1>1, <1>2, <2>1 DEF NewInv, HandInv
  <1>6. /\ \A r \in RolesOf[a] : f[r] \in new /\ f[r] \in Unused /\ JobOf[f[r]] = JobOfSlot(a, r)
        /\ \A p \in new : \E r \in RolesOf[a] : p = f[r]
        /\ RolesOf[a] \subseteq Role
    BY <1>3, <1>5, JobFacts DEF Image
  <1>7. /\ \A p \in new : /\ p \in Proc /\ p \notin Alive /\ p \notin children /\ p # cur
                          /\ JobOf[p] \in ArrJobs(a) /\ JobOf[p] \in u.jobs
        /\ \A p \in new, s \in Slot : slot[s] # p
    BY <1>5, <1>6, UnusedFacts DEF ArrJobs
  <1>8. /\ phase' \in [Proc -> Phase]
        /\ \A p \in Proc : phase'[p] = IF p \in new THEN "made" ELSE phase[p]
    <2>1. phase \in [Proc -> Phase] /\ "made" \in Phase
      BY <1>1 DEF WorkTypes, Phase
    <2>2. phase' = [p \in Proc |-> IF p \in new THEN "made" ELSE phase[p]]
      BY <1>3 DEF Construct
    <2> QED
      BY <2>1, <2>2
  <1>9. /\ slot' \in [Slot -> Proc \cup {None}]
        /\ \A b \in Arr, r \in Role :
              slot'[<<b, r>>] = IF b = a /\ r \in RolesOf[a] THEN f[r] ELSE slot[<<b, r>>]
    <2>1. slot' = [s \in Slot |-> IF s[1] = a /\ s[2] \in RolesOf[a] THEN f[s[2]] ELSE slot[s]]
      BY <1>3 DEF FillSlots
    <2>2. slot \in [Slot -> Proc \cup {None}]
      BY <1>1 DEF WorkTypes
    <2>3. \A r \in RolesOf[a] : f[r] \in Proc
      BY <1>6, <1>7
    <2>4. \A b \in Arr, r \in Role : <<b, r>> \in Slot /\ <<b, r>>[1] = b /\ <<b, r>>[2] = r
      BY DEF Slot
    <2>5. slot' \in [Slot -> Proc \cup {None}]
      BY <2>1, <2>2, <2>3
    <2>6. \A b \in Arr, r \in Role :
              slot'[<<b, r>>] = IF b = a /\ r \in RolesOf[a] THEN f[r] ELSE slot[<<b, r>>]
      BY <2>1, <2>4
    <2> QED
      BY <2>5, <2>6
  <1>10. /\ ManagedArrs' = ManagedArrs /\ \A j : Sound(j)' <=> Sound(j)
         /\ Alive' = Alive
    BY <1>2, <1>7, <1>8 DEF ManagedArrs, Sound, Alive
  <1>11. WorkTypes(t)' /\ Waiting(t)' \subseteq Waiting(t)
    <2>1. children' \subseteq Proc /\ new \subseteq Proc
      BY <1>1, <1>3, <1>7 DEF WorkTypes
    <2> QED
      BY <1>1, <1>2, <1>4, <1>5, <1>8, <1>9, <2>1 DEF WorkTypes, Waiting, Reloading
  <1>12. SlotInv' /\ MetaInv' /\ TodoInv(t)'
    <2>1. SlotInv'
      BY <1>1, <1>6, <1>9 DEF SlotInv
    <2>2. MetaInv'
      BY <1>1, <1>2, <1>10 DEF MetaInv
    <2>3. TodoInv(t)'
      BY <1>1, <1>2, <1>3, <1>10 DEF TodoInv
    <2> QED
      BY <2>1, <2>2, <2>3
  <1>13. InHandInv(t)'
    <2> SUFFICES ASSUME NEW q \in Proc, Sound(JobOf[q])
                 PROVE  /\ q \in Alive => q \in children'
                        /\ q \in children' =>
                              /\ \E b \in ManagedArrs : JobOf[q] \in ArrJobs(b)
                              /\ \A b \in ManagedArrs, r \in Role : JobOf[q] = JobOfSlot(b, r) => slot'[<<b, r>>] = q
      BY <1>10 DEF InHandInv
    <2>1. q \in Alive => q \in children'
      BY <1>1, <1>3 DEF ChildInv
    <2>2. CASE q \in children
      <3>1. \E b \in ManagedArrs : JobOf[q] \in ArrJobs(b)
        BY <1>1, <2>2 DEF ChildInv
      <3>2. ASSUME NEW b \in ManagedArrs, NEW r \in Role, JobOf[q] = JobOfSlot(b, r)
            PROVE  slot'[<<b, r>>] = q
        <4>1. slot[<<b, r>>] = q
          BY <1>1, <2>2, <3>2 DEF ChildInv
        <4>2. b # a
          BY <1>5, <3>2, <4>1, JobFacts
        <4> QED
          BY <1>1, <1>9, <4>1, <4>2
      <3> QED
        BY <2>1, <3>1, <3>2
    <2>3. CASE q \in new
      <3>1. PICK r0 \in RolesOf[a] : q = f[r0] /\ JobOf[q] = JobOfSlot(a, r0) /\ r0 \in Role
        BY <1>6, <2>3
      <3>2. JobOf[q] \in ArrJobs(a)
        BY <1>7, <2>3
      <3>3. ASSUME NEW b \in ManagedArrs, NEW r \in Role, JobOf[q] = JobOfSlot(b, r)
            PROVE  slot'[<<b, r>>] = q
        <4>1. JobOfSlot(a, r0) = JobOfSlot(b, r)
          BY <3>1, <3>3
        <4>2. a = b /\ r0 = r
          BY <1>1, <1>5, <3>1, <4>1, OneHolder
        <4> QED
          BY <1>5, <1>9, <3>1, <4>2
      <3> QED
        BY <1>5, <2>1, <3>2, <3>3
    <2> QED
      BY <1>3, <2>1, <2>2, <2>3
  <1>14. HandsOff(t)
    <2>1. \A b \in Arr, r \in Role : JobOfSlot(b, r) \in u.jobs \/ slot'[<<b, r>>] = slot[<<b, r>>]
      BY <1>5, <1>9 DEF ArrJobs
    <2>2. \A q \in Proc : JobOf[q] \in u.jobs \/ (q \in children' <=> q \in children)
      BY <1>3, <1>7
    <2>3. \A q \in Proc : phase[q] = "crashed" /\ q = cur => phase'[q] = "crashed"
      BY <1>7, <1>8
    <2> QED
      BY <1>2, <1>4, <1>10, <2>1, <2>2, <2>3 DEF HandsOff
  <1>15. MainInv(t)'
    BY <1>1, <1>2, <1>11, <1>12, <1>13, <1>14, HandsOffMain
  <1>16. HandInv(t)' /\ ContestInv(t)'
    <2>1. task'[t].arrs # {} => task'[t].full /\ task'[t].at \in {"each", "spawn", "run", "note"}
      BY <1>1, <1>4 DEF HandInv
    <2> QED
      BY <1>1, <1>2, <1>4, <1>10, <1>11, <2>1, SameSections
  <1>17. StopInv(t)' /\ SearchInv(t)' /\ RebuildInv(t)'
    BY <1>4 DEF StopInv, SearchInv, RebuildInv, Search, Stopping
  <1>18. NewInv(t)'
    <2>1. \A b \in u.arrs : /\ b \in ManagedArrs
                            /\ \A r \in Role : Sound(JobOfSlot(b, r)) => slot'[<<b, r>>] = None
      BY <1>1, <1>5, <1>9 DEF NewInv
    <2>2. \A p \in new : JobOf[p] \in ArrJobs(a) /\ phase'[p] = "made" /\ p \in children'
      BY <1>3, <1>7, <1>8
    <2> QED
      BY <1>4, <1>5, <1>10, <2>1, <2>2 DEF NewInv
  <1>19. StartInv(t)'
    <2> SUFFICES ASSUME NEW b \in ManagedArrs, NEW r \in Role, r \in RolesOf[b],
                        Sound(JobOfSlot(b, r)), JobOfSlot(b, r) \notin missed, ~Making(t, b, r)'
                 PROVE  slot'[<<b, r>>] # None /\ phase'[slot'[<<b, r>>]] # "made"
      BY <1>2, <1>10 DEF StartInv
    <2>1. b \in Arr /\ <<b, r>> \in Slot
      BY <1>1, JobFacts
    <2>2. slot'[<<b, r>>] \notin new /\ b \notin u.arrs
      BY <1>4 DEF Making
    <2>3. b # a /\ slot'[<<b, r>>] = slot[<<b, r>>]
      BY <1>6, <1>9, <2>1, <2>2
    <2>4. ~Making(t, b, r)
      BY <1>2, <2>2, <2>3 DEF Making, Search
    <2>5. slot[<<b, r>>] # None /\ phase[slot[<<b, r>>]] # "made"
      BY <1>1, <2>4 DEF StartInv
    <2>6. slot[<<b, r>>] \in Proc
      BY <1>9, <2>1, <2>3, <2>5
    <2> QED
      BY <1>8, <2>2, <2>3, <2>5, <2>6
  <1> QED
    BY <1>15, <1>16, <1>17, <1>18, <1>19 DEF WorkInv, HeldInv

\* A search loop that is wanted gets its process.
LEMMA MakeSearchWork ==
  ASSUME NEW t \in Thread, ReloadInv(t), ReloadInv(t)', WorkInv(t), MakeSearch(t)
  PROVE  WorkInv(t)'
  <1> DEFINE u == task[t]
  <1> PICK a : a = u.arr
    OBVIOUS
  <1>1. /\ MainInv(t) /\ WorkTypes(t) /\ SlotInv /\ ChildInv /\ MetaInv /\ TodoInv(t)
        /\ HandInv(t) /\ ContestInv(t) /\ SearchInv(t) /\ StartInv(t) /\ ManagedInv
        /\ DOMAIN task = Thread /\ DOMAIN u = DOMAIN Idle /\ ManagedArrs \subseteq Arr
    BY WorkParts
  <1>2. /\ u.at = "search"
        /\ UNCHANGED <<managed, pending, retry, arrs, todo, cur, meta, pc, clash, overlap, config, off, missed>>
    BY DEF MakeSearch, At, supervised, main, history
  <1>3. /\ a \in ManagedArrs /\ a \in Arr /\ a # None /\ u.arrs = {} /\ ArrJobs(a) \subseteq u.jobs
        /\ Sound(JobOfSlot(a, "search")) => slot[<<a, "search">>] = None
    <2>1. a \in ManagedArrs /\ a \in Arr /\ a # None
      BY <1>1, <1>2, JobFacts DEF SearchInv, Search
    <2> QED
      BY <1>1, <1>2, <2>1 DEF SearchInv, Search, HandInv
  <1>4. "search" \in Role /\ <<a, "search">> \in Slot /\ JobOfSlot(a, "search") \in ArrJobs(a)
    BY <1>3 DEF Role, Slot, ArrJobs
  <1>5. ManagedArrs' = ManagedArrs /\ \A j : Sound(j)' <=> Sound(j)
    BY <1>2 DEF ManagedArrs, Sound
  <1>6. \A b \in ManagedArrs, r \in Role : Making(t, b, r) => b = a /\ r = "search"
    BY <1>2, <1>3 DEF Making, Search
  <1>7. CASE "search" \notin RolesOf[a]
    <2>1. task'[t] = [u EXCEPT !.at = "next"] /\ UNCHANGED <<phase, children, registry, slot>>
      BY <1>1, <1>7 DEF MakeSearch, Then, Go, tracked
    <2>2. /\ task'[t].jobs = u.jobs /\ task'[t].live = u.live /\ task'[t].full = u.full
          /\ task'[t].arrs = u.arrs /\ task'[t].procs = u.procs /\ task'[t].proc = u.proc
          /\ task'[t].names = u.names /\ task'[t].name = u.name /\ task'[t].arr = a
          /\ task'[t].roles = u.roles /\ task'[t].at = "next"
      BY <1>1, <2>1, Fields
    <2>3. WorkTypes(t)' /\ Waiting(t)' \subseteq Waiting(t)
      BY <1>1, <1>2, <1>3, <2>1, <2>2 DEF WorkTypes, Waiting, Reloading
    <2>4. HandInv(t)'
      BY <1>1, <1>2, <1>3, <1>5, <2>2, <2>3, SameSections
    <2>5. StopInv(t)' /\ NewInv(t)' /\ SearchInv(t)' /\ RebuildInv(t)'
      BY <1>3, <2>2 DEF StopInv, NewInv, SearchInv, RebuildInv, Search, Stopping
    <2>6. \A b \in ManagedArrs, r \in Role : r \in RolesOf[b] => ~Making(t, b, r)
      BY <1>6, <1>7
    <2> QED
      BY <1>2, <2>1, <2>2, <2>3, <2>4, <2>5, <2>6, TaskStep
  <1>8. CASE "search" \in RolesOf[a]
    <2>1. PICK p \in Unused :
              /\ JobOf[p] = JobOfSlot(a, "search")
              /\ slot' = [slot EXCEPT ![<<a, "search">>] = p]
              /\ Construct({p}, {}) /\ Track({p})
              /\ task'[t] = [u EXCEPT !.at = "start search", !.proc = p]
      BY <1>1, <1>8 DEF MakeSearch, Go
    <2>2. /\ task'[t].jobs = u.jobs /\ task'[t].live = u.live /\ task'[t].full = u.full
          /\ task'[t].arrs = u.arrs /\ task'[t].procs = u.procs /\ task'[t].proc = p
          /\ task'[t].names = u.names /\ task'[t].name = u.name /\ task'[t].arr = a
          /\ task'[t].roles = u.roles /\ task'[t].at = "start search"
      BY <1>1, <2>1, Fields
    <2>3. /\ p \in Proc /\ p \notin Alive /\ p \notin children /\ p \notin todo /\ p # cur /\ p # None
          /\ JobOf[p] \in ArrJobs(a) /\ JobOf[p] \in u.jobs /\ \A s \in Slot : slot[s] # p
      BY <1>3, <1>4, <2>1, UnusedFacts, JobFacts
    <2>4. /\ phase' \in [Proc -> Phase]
          /\ \A q \in Proc : phase'[q] = IF q = p THEN "made" ELSE phase[q]
      <3>1. phase \in [Proc -> Phase] /\ "made" \in Phase
        BY <1>1 DEF WorkTypes, Phase
      <3>2. phase' = [q \in Proc |-> IF q = p THEN "made" ELSE phase[q]]
        BY <2>1 DEF Construct
      <3> QED
        BY <3>1, <3>2
    <2>5. /\ children' = children \cup {p} /\ registry' \in [Proc -> Job \cup {None}]
          /\ \A q \in Proc : registry'[q] = IF q = p THEN JobOf[p] ELSE registry[q]
      <3>1. registry \in [Proc -> Job \cup {None}] /\ JobOf[p] \in Job
        BY <1>1, <2>3, JobFacts DEF WorkTypes
      <3>2. registry' = [q \in Proc |-> IF q \in {p} THEN JobOf[q] ELSE registry[q]]
        BY <2>1 DEF Track
      <3> QED
        BY <2>1, <3>1, <3>2 DEF Track
    <2>6. /\ slot' \in [Slot -> Proc \cup {None}]
          /\ \A b \in Arr, r \in Role :
                slot'[<<b, r>>] = IF b = a /\ r = "search" THEN p ELSE slot[<<b, r>>]
      <3>1. slot \in [Slot -> Proc \cup {None}]
        BY <1>1 DEF WorkTypes
      <3>2. \A s \in Slot : slot'[s] = IF s = <<a, "search">> THEN p ELSE slot[s]
        BY <2>1, <3>1
      <3>3. slot' \in [Slot -> Proc \cup {None}]
        BY <2>1, <2>3, <3>1
      <3> QED
        BY <3>2, <3>3, JobFacts, SlotFacts
    <2>7. Alive' = Alive
      BY <2>3, <2>4 DEF Alive
    <2>8. WorkTypes(t)' /\ Waiting(t)' \subseteq Waiting(t)
      BY <1>1, <1>2, <1>3, <2>2, <2>3, <2>4, <2>5, <2>6 DEF WorkTypes, Waiting, Reloading
    <2>9. SlotInv' /\ MetaInv' /\ TodoInv(t)'
      <3>1. SlotInv'
        BY <1>1, <2>1, <2>6 DEF SlotInv
      <3>2. MetaInv'
        BY <1>1, <1>5, <2>5 DEF MetaInv
      <3>3. TodoInv(t)'
        BY <1>1, <1>2, <1>5, <2>3, <2>5 DEF TodoInv, WorkTypes
      <3> QED
        BY <3>1, <3>2, <3>3
    <2>10. InHandInv(t)'
      <3> SUFFICES ASSUME NEW q \in Proc, Sound(JobOf[q])
                   PROVE  /\ q \in Alive => q \in children'
                          /\ q \in children' =>
                              /\ \E b \in ManagedArrs : JobOf[q] \in ArrJobs(b)
                              /\ \A b \in ManagedArrs, r \in Role : JobOf[q] = JobOfSlot(b, r) => slot'[<<b, r>>] = q
        BY <1>5, <2>7 DEF InHandInv
      <3>1. q \in Alive => q \in children'
        BY <1>1, <2>5 DEF ChildInv
      <3>2. CASE q \in children
        <4>1. \E b \in ManagedArrs : JobOf[q] \in ArrJobs(b)
          BY <1>1, <3>2 DEF ChildInv
        <4>2. ASSUME NEW b \in ManagedArrs, NEW r \in Role, JobOf[q] = JobOfSlot(b, r)
              PROVE  slot'[<<b, r>>] = q
          <5>1. slot[<<b, r>>] = q
            BY <1>1, <3>2, <4>2 DEF ChildInv
          <5>2. ~(b = a /\ r = "search")
            BY <1>3, <4>2, <5>1, JobFacts
          <5> QED
            BY <1>1, <2>6, <5>1, <5>2
        <4> QED
          BY <3>1, <4>1, <4>2
      <3>3. CASE q = p
        <4>1. ASSUME NEW b \in ManagedArrs, NEW r \in Role, JobOf[q] = JobOfSlot(b, r)
              PROVE  slot'[<<b, r>>] = q
          <5>1. JobOfSlot(a, "search") = JobOfSlot(b, r)
            BY <2>1, <3>3, <4>1
          <5>2. a = b /\ r = "search"
            BY <1>1, <1>3, <1>4, <5>1, OneHolder
          <5> QED
            BY <1>3, <1>4, <2>6, <3>3, <5>2
        <4> QED
          BY <1>3, <2>3, <3>1, <3>3, <4>1
      <3> QED
        BY <2>5, <3>1, <3>2, <3>3
    <2>11. HandsOff(t)
      <3>1. \A b \in Arr, r \in Role : JobOfSlot(b, r) \in u.jobs \/ slot'[<<b, r>>] = slot[<<b, r>>]
        BY <1>3, <1>4, <2>6
      <3>2. \A q \in Proc : JobOf[q] \in u.jobs \/ (q \in children' <=> q \in children)
        BY <2>3, <2>5
      <3>3. \A q \in Proc : phase[q] = "crashed" /\ q = cur => phase'[q] = "crashed"
        BY <2>3, <2>4
      <3> QED
        BY <1>2, <1>5, <2>2, <2>7, <3>1, <3>2, <3>3 DEF HandsOff
    <2>12. MainInv(t)'
      BY <1>1, <1>2, <2>8, <2>9, <2>10, <2>11, HandsOffMain
    <2>13. HandInv(t)' /\ ContestInv(t)'
      BY <1>1, <1>2, <1>3, <1>5, <2>2, <2>8, SameSections
    <2>14. StopInv(t)' /\ NewInv(t)' /\ RebuildInv(t)'
      BY <1>3, <2>2 DEF StopInv, NewInv, RebuildInv, Stopping
    <2>15. SearchInv(t)'
      <3>1. slot'[<<a, "search">>] = p /\ phase'[p] = "made" /\ p \in children'
        BY <1>3, <1>4, <2>3, <2>4, <2>5, <2>6
      <3> QED
        <4>1. task'[t].at = "start search" /\ task'[t].arr = a /\ task'[t].proc = p
          BY <2>2
        <4>2. a \in ManagedArrs' /\ p # None /\ JobOf[p] = JobOfSlot(a, "search")
          BY <1>3, <1>5, <2>1, <2>3
        <4> QED
          BY <3>1, <4>1, <4>2 DEF SearchInv
    <2>16. StartInv(t)'
      <3> SUFFICES ASSUME NEW b \in ManagedArrs, NEW r \in Role, r \in RolesOf[b],
                          Sound(JobOfSlot(b, r)), JobOfSlot(b, r) \notin missed, ~Making(t, b, r)'
                   PROVE  slot'[<<b, r>>] # None /\ phase'[slot'[<<b, r>>]] # "made"
        BY <1>2, <1>5 DEF StartInv
      <3>1. b \in Arr /\ <<b, r>> \in Slot /\ ~(b = a /\ r = "search")
        BY <1>1, <2>2, JobFacts DEF Making, Search
      <3>2. slot[<<b, r>>] # None /\ phase[slot[<<b, r>>]] # "made"
        BY <1>1, <1>6, <3>1 DEF StartInv
      <3>3. slot'[<<b, r>>] = slot[<<b, r>>] /\ slot[<<b, r>>] # p
        BY <2>3, <2>6, <3>1
      <3>4. slot[<<b, r>>] \in Proc
        BY <2>6, <3>1, <3>2, <3>3
      <3> QED
        BY <2>4, <3>2, <3>3, <3>4
    <2> QED
      BY <2>12, <2>13, <2>14, <2>15, <2>16 DEF WorkInv, HeldInv
  <1> QED
    BY <1>7, <1>8

\* It is started, or its record is undone.
LEMMA StartSearchWork ==
  ASSUME NEW t \in Thread, ReloadInv(t), ReloadInv(t)', WorkInv(t), StartSearch(t)
  PROVE  WorkInv(t)'
  <1> DEFINE u == task[t]
  <1> PICK a, p : a = u.arr /\ p = u.proc
    OBVIOUS
  <1>1. /\ MainInv(t) /\ WorkTypes(t) /\ SlotInv /\ ChildInv /\ MetaInv /\ TodoInv(t) /\ CurInv(t)
        /\ HandInv(t) /\ ContestInv(t) /\ SearchInv(t) /\ StartInv(t) /\ ManagedInv
        /\ DOMAIN task = Thread /\ DOMAIN u = DOMAIN Idle /\ ManagedArrs \subseteq Arr
    BY WorkParts
  <1>2. /\ u.at = "start search" /\ task'[t] = [u EXCEPT !.at = "next", !.arr = None, !.proc = None]
        /\ UNCHANGED <<managed, pending, retry, arrs, todo, cur, meta, pc, clash, overlap, config, off>>
    BY <1>1 DEF StartSearch, At, Go, supervised, main
  <1>3. /\ a \in ManagedArrs /\ a \in Arr /\ a # None /\ u.arrs = {} /\ ArrJobs(a) \subseteq u.jobs
        /\ p \in Proc /\ JobOf[p] = JobOfSlot(a, "search")
        /\ Sound(JobOf[p]) => slot[<<a, "search">>] = p /\ phase[p] = "made" /\ p \in children
    <2>1. a \in ManagedArrs /\ a \in Arr /\ a # None
      <3>1. a \in ManagedArrs
        BY <1>1, <1>2 DEF SearchInv, Search
      <3> QED
        BY <1>1, <3>1, JobFacts
    <2> QED
      BY <1>1, <1>2, <2>1 DEF SearchInv, Search, HandInv, WorkTypes
  <1>4. /\ "search" \in Role /\ <<a, "search">> \in Slot /\ JobOf[p] \in ArrJobs(a) /\ JobOf[p] \in u.jobs
    BY <1>3 DEF Role, Slot, ArrJobs
  <1>5. \/ /\ phase[p] = "made" /\ phase' = [phase EXCEPT ![p] = "alive"]
           /\ UNCHANGED <<children, registry, slot, missed>>
        \/ /\ children' = children \ {p} /\ registry' = [registry EXCEPT ![p] = None]
           /\ slot' = [slot EXCEPT ![<<a, "search">>] = None]
           /\ missed' = missed \cup {JobOf[p]} /\ phase' = phase
    BY DEF StartSearch, Untrack, tracked
  <1>6. /\ task'[t].jobs = u.jobs /\ task'[t].live = u.live /\ task'[t].full = u.full
        /\ task'[t].arrs = u.arrs /\ task'[t].procs = u.procs /\ task'[t].proc = None
        /\ task'[t].names = u.names /\ task'[t].name = u.name /\ task'[t].arr = None
        /\ task'[t].roles = u.roles /\ task'[t].at = "next"
    BY <1>1, <1>2, Fields
  <1>7. ManagedArrs' = ManagedArrs /\ \A j : Sound(j)' <=> Sound(j)
    <2>1. managed' = managed /\ clash' = clash /\ overlap' = overlap
      BY <1>2
    <2> QED
      BY <2>1 DEF ManagedArrs, Sound
  <1>8. /\ phase' \in [Proc -> Phase]
        /\ \A q \in Proc : phase'[q] = phase[q] \/ (q = p /\ phase[q] = "made" /\ phase'[q] = "alive")
        /\ Alive' \subseteq Alive \cup {p} /\ (phase' = phase => Alive' = Alive)
    <2>1. phase \in [Proc -> Phase] /\ "alive" \in Phase
      BY <1>1 DEF WorkTypes, Phase
    <2>2. /\ phase' \in [Proc -> Phase]
          /\ \A q \in Proc : phase'[q] = phase[q] \/ (q = p /\ phase[q] = "made" /\ phase'[q] = "alive")
      BY <1>3, <1>5, <2>1
    <2> QED
      BY <2>2 DEF Alive
  <1>9. /\ slot' \in [Slot -> Proc \cup {None}] /\ registry' \in [Proc -> Job \cup {None}]
        /\ children' \subseteq children /\ children \ {p} \subseteq children'
        /\ \A b \in Arr, r \in Role : ~(b = a /\ r = "search") => slot'[<<b, r>>] = slot[<<b, r>>]
        /\ \A b \in Arr, r \in Role : slot'[<<b, r>>] \in {None, slot[<<b, r>>]}
        /\ \A q \in Proc : registry'[q] = registry[q] \/ (q = p /\ registry'[q] = None)
        /\ \/ slot' = slot /\ children' = children /\ registry' = registry
           \/ Alive' = Alive /\ registry'[p] = None /\ children' = children \ {p}
              /\ missed' = missed \cup {JobOf[p]}
    <2>1. slot \in [Slot -> Proc \cup {None}] /\ registry \in [Proc -> Job \cup {None}]
      BY <1>1 DEF WorkTypes
    <2>2. CASE UNCHANGED <<children, registry, slot>>
      BY <2>1, <2>2
    <2>3. CASE /\ children' = children \ {p} /\ registry' = [registry EXCEPT ![p] = None]
               /\ slot' = [slot EXCEPT ![<<a, "search">>] = None]
               /\ missed' = missed \cup {JobOf[p]} /\ phase' = phase
      <3>1. /\ slot' \in [Slot -> Proc \cup {None}] /\ registry' \in [Proc -> Job \cup {None}]
            /\ \A q \in Proc : registry'[q] = IF q = p THEN None ELSE registry[q]
            /\ \A s \in Slot : slot'[s] = IF s = <<a, "search">> THEN None ELSE slot[s]
        BY <2>1, <2>3
      <3>2. \A b \in Arr, r \in Role : slot'[<<b, r>>] = IF b = a /\ r = "search" THEN None ELSE slot[<<b, r>>]
        BY <3>1, JobFacts, SlotFacts
      <3> QED
        BY <1>3, <1>8, <2>3, <3>1, <3>2
    <2> QED
      BY <1>5, <2>2, <2>3
  <1>10. WorkTypes(t)' /\ Waiting(t)' \subseteq Waiting(t)
    BY <1>1, <1>2, <1>6, <1>8, <1>9 DEF WorkTypes, Waiting, Reloading
  <1>11. SlotInv' /\ MetaInv' /\ TodoInv(t)'
    <2>1. SlotInv'
      BY <1>1, <1>9 DEF SlotInv
    <2>2. MetaInv'
      BY <1>1, <1>7, <1>9, JobFacts DEF MetaInv, Sound
    <2>3. TodoInv(t)'
      BY <1>1, <1>2, <1>7, <1>9 DEF TodoInv, WorkTypes
    <2> QED
      BY <2>1, <2>2, <2>3
  <1>12. InHandInv(t)'
    <2> SUFFICES ASSUME NEW q \in Proc, Sound(JobOf[q])
                 PROVE  /\ q \in Alive' => q \in children'
                        /\ q \in children' =>
                              /\ \E b \in ManagedArrs : JobOf[q] \in ArrJobs(b)
                              /\ \A b \in ManagedArrs, r \in Role : JobOf[q] = JobOfSlot(b, r) => slot'[<<b, r>>] = q
      BY <1>7 DEF InHandInv
    <2>1. q \in Alive' => q \in children'
      <3>1. q \in Alive => q \in children
        BY <1>1 DEF ChildInv
      <3>2. p \in Alive => ~Sound(JobOf[p])
        BY <1>3 DEF Alive
      <3> QED
        BY <1>3, <1>8, <1>9, <3>1, <3>2
    <2>2. ASSUME q \in children'
          PROVE  \E b \in ManagedArrs : JobOf[q] \in ArrJobs(b)
      BY <1>1, <1>9, <2>2 DEF ChildInv
    <2>3. ASSUME q \in children', NEW b \in ManagedArrs, NEW r \in Role, JobOf[q] = JobOfSlot(b, r)
          PROVE  slot'[<<b, r>>] = q
      <3>1. slot[<<b, r>>] = q /\ b \in Arr
        BY <1>1, <1>9, <2>3 DEF ChildInv
      <3>2. CASE b = a /\ r = "search"
        <4>1. q = p
          BY <1>3, <2>3, <3>1, <3>2
        <4>2. slot' = slot
          BY <1>9, <2>3, <4>1
        <4> QED
          BY <3>1, <4>2
      <3>3. CASE ~(b = a /\ r = "search")
        <4>1. slot'[<<b, r>>] = slot[<<b, r>>]
          BY <1>9, <3>1, <3>3
        <4> QED
          BY <3>1, <4>1
      <3> QED
        BY <3>2, <3>3
    <2> QED
      BY <2>1, <2>2, <2>3
  <1>13. HandsOff(t)
    <2>1. \A b \in Arr, r \in Role : JobOfSlot(b, r) \in u.jobs \/ slot'[<<b, r>>] = slot[<<b, r>>]
      <3>1. \A b \in Arr, r \in Role : ~(b = a /\ r = "search") => slot'[<<b, r>>] = slot[<<b, r>>]
        BY <1>9
      <3>2. JobOfSlot(a, "search") \in u.jobs
        BY <1>3, <1>4
      <3> HIDE DEF u
      <3> QED
        BY <3>1, <3>2
    <2>2. \A q \in Proc : \/ JobOf[q] \in u.jobs
                          \/ (q \in Alive' => q \in Alive) /\ (q \in children' <=> q \in children)
      BY <1>4, <1>8, <1>9
    <2>3. \A q \in Proc : phase[q] = "crashed" /\ q = cur => phase'[q] = "crashed"
      BY <1>8
    <2> QED
      BY <1>2, <1>6, <1>7, <2>1, <2>2, <2>3 DEF HandsOff
  <1>14. MainInv(t)'
    BY <1>1, <1>2, <1>10, <1>11, <1>12, <1>13, HandsOffMain
  <1>15. HandInv(t)' /\ ContestInv(t)'
    BY <1>1, <1>2, <1>3, <1>6, <1>7, <1>10, SameSections
  <1>16. StopInv(t)' /\ NewInv(t)' /\ SearchInv(t)' /\ RebuildInv(t)'
    BY <1>3, <1>6 DEF StopInv, NewInv, SearchInv, RebuildInv, Search, Stopping
  <1>17. StartInv(t)'
    <2> SUFFICES ASSUME NEW b \in ManagedArrs, NEW r \in Role, r \in RolesOf[b],
                        Sound(JobOfSlot(b, r)), JobOfSlot(b, r) \notin missed'
                 PROVE  slot'[<<b, r>>] # None /\ phase'[slot'[<<b, r>>]] # "made"
      BY <1>7 DEF StartInv
    <2>1. b \in Arr /\ <<b, r>> \in Slot
      BY <1>1, JobFacts
    <2>2. CASE b = a /\ r = "search"
      <3>1. slot' = slot /\ slot[<<b, r>>] = p /\ phase'[p] = "alive"
        BY <1>1, <1>3, <1>5, <2>2 DEF WorkTypes
      <3> QED
        BY <1>3, <3>1, JobFacts
    <2>3. CASE ~(b = a /\ r = "search")
      <3>1. ~Making(t, b, r) /\ JobOfSlot(b, r) \notin missed
        BY <1>2, <1>3, <1>5, <2>3 DEF Making, Search
      <3>2. slot[<<b, r>>] # None /\ phase[slot[<<b, r>>]] # "made"
        BY <1>1, <3>1 DEF StartInv
      <3>3. slot'[<<b, r>>] = slot[<<b, r>>]
        BY <1>9, <2>1, <2>3
      <3>4. slot[<<b, r>>] \in Proc
        BY <1>9, <2>1, <3>2, <3>3
      <3> QED
        BY <1>8, <3>2, <3>3, <3>4
    <2> QED
      BY <2>2, <2>3
  <1> QED
    BY <1>14, <1>15, <1>16, <1>17 DEF WorkInv, HeldInv

\* The object that loses its category to a new one has had no sound job.
LEMMA BuildWork ==
  ASSUME NEW t \in Thread, ReloadInv(t), ReloadInv(t)', WorkInv(t), Build(t)
  PROVE  WorkInv(t)'
  <1> DEFINE u == task[t]
  <1> PICK n : n = u.name
    OBVIOUS
  <1>1. /\ MainInv(t) /\ WorkTypes(t) /\ SlotInv /\ ChildInv /\ MetaInv /\ TodoInv(t)
        /\ HandInv(t) /\ ContestInv(t) /\ StartInv(t) /\ ManagedInv /\ Work(t) /\ Settled(t)
        /\ DOMAIN task = Thread /\ DOMAIN u = DOMAIN Idle /\ ManagedArrs \subseteq Arr
    BY WorkParts DEF ReloadInv
  <1>2. PICK a \in FreeArr :
        /\ FromSection(n, a)
        /\ managed' = [managed EXCEPT ![CatOf[a]] = a]
        /\ task' = [task EXCEPT ![t] = [u EXCEPT !.at = "spawn", !.arr = a]]
    BY DEF Build, Go
  <1>3. /\ u.at = "build" /\ config[n] # None
        /\ UNCHANGED <<phase, children, registry, slot, pending, retry, arrs, todo, cur, meta,
                       pc, clash, overlap, config, off, missed>>
    BY DEF Build, At, tracked, main, history
  <1>4. /\ task'[t].jobs = u.jobs /\ task'[t].live = u.live /\ task'[t].full = u.full
        /\ task'[t].arrs = u.arrs /\ task'[t].procs = u.procs /\ task'[t].proc = u.proc
        /\ task'[t].names = u.names /\ task'[t].name = u.name /\ task'[t].arr = a
        /\ task'[t].roles = u.roles /\ task'[t].at = "spawn"
    <2>1. task'[t] = [u EXCEPT !.at = "spawn", !.arr = a]
      BY <1>1, <1>2
    <2> QED
      BY <1>1, <2>1, Fields
  <1>5. /\ a \in Arr \ ManagedArrs /\ CatOf[a] \in Category /\ NameOf[a] = n /\ CatOf[a] = config[n][1]
        /\ a # None /\ \A r \in Role : slot[<<a, r>>] = None
    BY <1>2, ArrFacts DEF FreeArr, FromSection, Profile
  <1>6. /\ n \in Name \ u.names /\ n \in Waiting(t) /\ Named(n) = {}
        /\ Waiting(t)' \subseteq Waiting(t) /\ n \notin Waiting(t)' /\ Waiting(t)' \subseteq Name
        /\ u.arrs = {} /\ u.names \cap u.gone = {} /\ u.gone = {m \in Name : config[m] = None} \ off
    <2>1. /\ n \in Name \ u.names /\ Named(n) = {} /\ u.names \subseteq Name
          /\ u.names \cap u.gone = {} /\ u.gone = {m \in Name : config[m] = None} \ off
      BY <1>1, <1>3 DEF Work, Reloading
    <2>2. Waiting(t) = u.names \cup {n} /\ Waiting(t)' = u.names
      BY <1>3, <1>4 DEF Waiting, Reloading
    <2>3. u.arrs = {}
      BY <1>1, <1>3 DEF HandInv
    <2> QED
      BY <2>1, <2>2, <2>3
  <1>7. ArrJobs(a) \subseteq u.jobs
    BY <1>1, <1>3, <1>5, <1>6 DEF HandInv, ArrJobs, JobOfSlot
  <1>8. PICK old : old = managed[CatOf[a]]
    OBVIOUS
  <1>9. ManagedArrs' = (ManagedArrs \ {old}) \cup {a}
    <2>1. \A c \in Category : managed'[c] = IF c = CatOf[a] THEN a ELSE managed[c]
      BY <1>1, <1>2 DEF ManagedInv
    <2>2. \A c \in Category : managed[c] = old /\ old # None => c = CatOf[a]
      BY <1>1, <1>5, <1>8 DEF ManagedInv
    <2> QED
      BY <1>5, <1>8, <2>1, <2>2 DEF ManagedArrs
  <1>10. \A b \in ManagedArrs : /\ NameOf[b] # n /\ NameOf[b] \in Name
                               /\ (config[NameOf[b]] # None \/ NameOf[b] \in off)
    <2>1. \A b \in ManagedArrs : NameOf[b] # n /\ NameOf[b] \in Name
      BY <1>1, <1>6, ArrFacts, ManagedFacts
    <2>2. \A m \in Waiting(t) : m \in u.names \/ m = n
      BY DEF Waiting
    <2> QED
      BY <1>1, <1>3, <1>6, <2>1, <2>2 DEF Settled
  <1>11. \A b \in ManagedArrs : CatOf[b] = CatOf[a] =>
            b = old /\ \A r \in Role : ~Sound(JobOfSlot(b, r)) /\ ~Sound(JobOfSlot(a, r))
    <2> SUFFICES ASSUME NEW b \in ManagedArrs, CatOf[b] = CatOf[a]
                 PROVE  b = old /\ \A r \in Role : ~Sound(JobOfSlot(b, r)) /\ ~Sound(JobOfSlot(a, r))
      OBVIOUS
    <2>1. b = old
      BY <1>1, <1>8, ManagedFacts
    <2>2. \A r \in Role : ~Sound(JobOfSlot(b, r))
      <3>1. /\ n \in Waiting(t) /\ config[n] # None /\ NameOf[b] # n /\ CatOf[b] = config[n][1]
            /\ config[NameOf[b]] # None \/ NameOf[b] \in off
        BY <1>3, <1>5, <1>6, <1>10
      <3> QED
        BY <1>1, <3>1 DEF ContestInv
    <2> QED
      BY <2>1, <2>2 DEF JobOfSlot
  <1>12. old \in ManagedArrs => \A r \in Role : ~Sound(JobOfSlot(old, r))
    <2>1. old \in ManagedArrs => CatOf[old] = CatOf[a]
      BY <1>1, <1>5, <1>8, ArrFacts DEF ManagedInv, ManagedArrs
    <2> QED
      BY <1>11, <2>1
  <1>13. Alive' = Alive /\ \A j : Sound(j)' <=> Sound(j)
    BY <1>3 DEF Alive, Sound
  <1>14. WorkTypes(t)'
    BY <1>1, <1>3, <1>4, <1>5 DEF WorkTypes
  <1>15. SlotInv' /\ MetaInv' /\ TodoInv(t)'
    <2>1. SlotInv'
      BY <1>1, <1>3 DEF SlotInv
    <2>2. MetaInv'
      BY <1>1, <1>3, <1>13 DEF MetaInv
    <2>3. TodoInv(t)'
      BY <1>1, <1>3, <1>13 DEF TodoInv
    <2> QED
      BY <2>1, <2>2, <2>3
  <1>16. InHandInv(t)'
    <2> SUFFICES ASSUME NEW q \in Proc, Sound(JobOf[q])
                 PROVE  /\ q \in Alive => q \in children
                        /\ q \in children =>
                              /\ \E b \in ManagedArrs' : JobOf[q] \in ArrJobs(b)
                              /\ \A b \in ManagedArrs', r \in Role : JobOf[q] = JobOfSlot(b, r) => slot[<<b, r>>] = q
      BY <1>3, <1>13 DEF InHandInv
    <2>1. q \in Alive => q \in children
      BY <1>1 DEF ChildInv
    <2>2. ASSUME q \in children
          PROVE  /\ \E b \in ManagedArrs' : JobOf[q] \in ArrJobs(b)
                 /\ \A b \in ManagedArrs', r \in Role : JobOf[q] = JobOfSlot(b, r) => slot[<<b, r>>] = q
      <3>1. PICK b0 \in ManagedArrs, r0 \in Role : JobOf[q] = JobOfSlot(b0, r0)
        BY <1>1, <2>2 DEF ChildInv, ArrJobs
      <3>2. b0 # old /\ CatOf[b0] # CatOf[a]
        BY <1>11, <1>12, <3>1
      <3>3. ASSUME NEW b \in ManagedArrs', NEW r \in Role, JobOf[q] = JobOfSlot(b, r)
            PROVE  slot[<<b, r>>] = q
        <4>1. CatOf[b] = CatOf[b0]
          BY <3>1, <3>3 DEF JobOfSlot
        <4>2. b \in ManagedArrs
          BY <1>9, <3>2, <4>1
        <4> QED
          BY <1>1, <2>2, <3>3, <4>2 DEF ChildInv
      <3>4. b0 \in ManagedArrs' /\ JobOf[q] \in ArrJobs(b0)
        BY <1>9, <3>1, <3>2 DEF ArrJobs
      <3> QED
        BY <3>3, <3>4
    <2> QED
      BY <2>1, <2>2
  <1>17. HandsOff(t)
    <2>1. \A b \in ManagedArrs : \/ b \in ManagedArrs'
                                 \/ \A r \in Role : Sound(JobOfSlot(b, r)) => JobOfSlot(b, r) \in u.jobs
      BY <1>9, <1>12
    <2>2. \A b \in ManagedArrs' : b \in ManagedArrs \/ ArrJobs(b) \subseteq u.jobs
      BY <1>7, <1>9
    <2> QED
      BY <1>3, <1>4, <1>13, <2>1, <2>2 DEF HandsOff
  <1>18. MainInv(t)'
    BY <1>1, <1>3, <1>14, <1>15, <1>16, <1>17, HandsOffMain
  <1>19. HandInv(t)'
    BY <1>1, <1>3, <1>4, <1>5, <1>6, <1>7, <1>9 DEF HandInv
  <1>20. ContestInv(t)'
    <2>1. ASSUME NEW m \in Waiting(t)', NEW b \in ManagedArrs', NEW r \in Role,
                 config[m] # None, NameOf[b] # m, CatOf[b] = config[m][1],
                 config[NameOf[b]] # None \/ NameOf[b] \in off
          PROVE  ~Sound(JobOfSlot(b, r))
      <3>1. CASE b \in ManagedArrs
        BY <1>1, <1>6, <2>1, <3>1 DEF ContestInv
      <3>2. CASE b = a
        <4>1. m \in Name /\ m # n /\ config[n][1] = config[m][1]
          BY <1>5, <1>6, <2>1, <3>2
        <4>2. ~Sound(<<config[n][1], r>>)
          BY <1>1, <1>3, <1>6, <2>1, <4>1 DEF ContestInv
        <4> QED
          BY <1>5, <3>2, <4>2 DEF JobOfSlot
      <3> QED
        BY <1>9, <3>1, <3>2
    <2>2. \A m, l \in Name, r \in Role :
            m # l /\ config[m] # None /\ config[l] # None /\ config[m][1] = config[l][1]
            => ~Sound(<<config[l][1], r>>)
      BY <1>1 DEF ContestInv
    <2> QED
      BY <1>3, <1>13, <2>1, <2>2 DEF ContestInv
  <1>21. StopInv(t)' /\ SearchInv(t)' /\ RebuildInv(t)'
    BY <1>4 DEF StopInv, SearchInv, RebuildInv, Search, Stopping
  <1>22. NewInv(t)'
    BY <1>3, <1>4, <1>5, <1>6, <1>9 DEF NewInv
  <1>23. StartInv(t)'
    <2> SUFFICES ASSUME NEW b \in ManagedArrs', NEW r \in Role, r \in RolesOf[b],
                        Sound(JobOfSlot(b, r)), JobOfSlot(b, r) \notin missed, ~Making(t, b, r)'
                 PROVE  slot[<<b, r>>] # None /\ phase[slot[<<b, r>>]] # "made"
      BY <1>3, <1>13 DEF StartInv
    <2>1. b # a
      BY <1>4 DEF Making
    <2>2. b \in ManagedArrs /\ ~Making(t, b, r)
      BY <1>3, <1>6, <1>9, <2>1 DEF Making, Search
    <2> QED
      BY <1>1, <2>2 DEF StartInv
  <1> QED
    BY <1>18, <1>19, <1>20, <1>21, <1>22, <1>23 DEF WorkInv, HeldInv

\* A rebuild starts without a worker.
LEMMA RebuildWork ==
  ASSUME NEW t \in Thread, ReloadInv(t), ReloadInv(t)', WorkInv(t), Rebuild(t)
  PROVE  WorkInv(t)'
  <1> DEFINE u == task[t]
  <1>1. /\ MainInv(t) /\ WorkTypes(t) /\ SlotInv /\ ChildInv /\ MetaInv /\ TodoInv(t)
        /\ HandInv(t) /\ ContestInv(t) /\ RebuildInv(t) /\ Work(t)
        /\ DOMAIN task = Thread /\ DOMAIN u = DOMAIN Idle /\ ManagedArrs \subseteq Arr
    BY WorkParts
  <1>2. PICK new \in SUBSET FreeArr, bad \in SUBSET {n \in Name : config[n] # None} :
         /\ \A a, b \in new : NameOf[a] = NameOf[b] => a = b
         /\ {NameOf[a] : a \in new} = {n \in Name : config[n] # None} \ bad
         /\ \A a \in new : FromSection(NameOf[a], a)
         /\ managed' = [c \in Category |->
                          IF \E a \in new : CatOf[a] = c THEN CHOOSE a \in new : CatOf[a] = c ELSE None]
         /\ slot' = [s \in Slot |-> None]
         /\ task' = [task EXCEPT ![t] = [u EXCEPT !.at = "each", !.arrs = new, !.qbits = Qbit]]
    BY DEF Rebuild, Go
  <1>3. /\ u.at = "rebuild"
        /\ UNCHANGED <<phase, children, registry, pending, retry, arrs, todo, cur, meta,
                       pc, clash, overlap, config, off>>
    BY DEF Rebuild, At, tracked, main
  <1>4. /\ task'[t].jobs = u.jobs /\ task'[t].live = u.live /\ task'[t].full = u.full
        /\ task'[t].arrs = new /\ task'[t].procs = u.procs /\ task'[t].proc = u.proc
        /\ task'[t].names = u.names /\ task'[t].name = u.name /\ task'[t].arr = u.arr
        /\ task'[t].roles = u.roles /\ task'[t].at = "each"
    <2>1. task'[t] = [u EXCEPT !.at = "each", !.arrs = new, !.qbits = Qbit]
      BY <1>1, <1>2
    <2> QED
      BY <1>1, <2>1, Fields
  <1>5. u.full /\ u.names = {} /\ u.live = {} /\ ArrJob \subseteq u.jobs /\ config \in Unshared
    BY <1>1, <1>3 DEF Work, HandInv
  <1>6. new \subseteq Arr /\ ManagedArrs' = new
    <2>1. \A a \in new : a \in Arr /\ NameOf[a] \in Name /\ CatOf[a] \in Category /\ a # None
      BY <1>2, ArrFacts DEF FreeArr
    <2>2. \A a \in new : config[NameOf[a]] # None /\ CatOf[a] = config[NameOf[a]][1]
      <3>1. \A a \in new : NameOf[a] \in {n \in Name : config[n] # None} \ bad
        BY <1>2
      <3>2. \A a \in new : config[NameOf[a]] = Profile(a)
        BY <1>2 DEF FromSection
      <3> QED
        BY <3>1, <3>2 DEF Profile
    <2>3. \A a, b \in new : CatOf[a] = CatOf[b] => a = b
      BY <1>2, <1>5, <2>1, <2>2 DEF Unshared
    <2>4. \A c \in Category : \/ managed'[c] = None /\ \A a \in new : CatOf[a] # c
                              \/ managed'[c] \in new /\ CatOf[managed'[c]] = c
      BY <1>2
    <2> QED
      BY <2>1, <2>3, <2>4 DEF ManagedArrs
  <1>7. \A a \in Arr : ArrJobs(a) \subseteq u.jobs
    BY <1>5 DEF ArrJobs, ArrJob
  <1>8. /\ \A a \in Arr, r \in Role : slot'[<<a, r>>] = None
        /\ slot' \in [Slot -> Proc \cup {None}]
    BY <1>2, JobFacts
  <1>9. Alive' = Alive /\ \A j : Sound(j)' <=> Sound(j)
    BY <1>3 DEF Alive, Sound
  <1>10. WorkTypes(t)'
    BY <1>1, <1>3, <1>4, <1>6, <1>8 DEF WorkTypes
  <1>11. SlotInv' /\ MetaInv' /\ TodoInv(t)'
    <2>1. SlotInv'
      BY <1>8 DEF SlotInv
    <2>2. MetaInv'
      BY <1>1, <1>3, <1>9 DEF MetaInv
    <2>3. TodoInv(t)'
      BY <1>1, <1>3, <1>9 DEF TodoInv
    <2> QED
      BY <2>1, <2>2, <2>3
  <1>12. InHandInv(t)'
    <2>1. \A q \in Proc : Sound(JobOf[q]) => q \notin Alive /\ q \notin children
      BY <1>1, <1>3 DEF RebuildInv, ChildInv
    <2> QED
      BY <1>3, <1>9, <2>1 DEF InHandInv
  <1>13. HandsOff(t)
    <2>1. /\ \A a \in Arr, r \in Role : JobOfSlot(a, r) \in u.jobs
          /\ \A a \in ManagedArrs, r \in Role : JobOfSlot(a, r) \in u.jobs
          /\ \A a \in ManagedArrs' : ArrJobs(a) \subseteq u.jobs
      BY <1>1, <1>6, <1>7 DEF ArrJobs
    <2> QED
      BY <1>3, <1>4, <1>9, <2>1 DEF HandsOff
  <1>14. MainInv(t)'
    BY <1>1, <1>3, <1>10, <1>11, <1>12, <1>13, HandsOffMain
  <1>15. Waiting(t)' = {}
    BY <1>4, <1>5 DEF Waiting, Reloading
  <1>16. HandInv(t)'
    BY <1>1, <1>4, <1>5, <1>6, <1>7, <1>15 DEF HandInv
  <1>17. ContestInv(t)'
    BY <1>1, <1>3, <1>9, <1>15 DEF ContestInv
  <1>18. StopInv(t)' /\ SearchInv(t)' /\ RebuildInv(t)'
    BY <1>4 DEF StopInv, SearchInv, RebuildInv, Search, Stopping
  <1>19. NewInv(t)'
    BY <1>4, <1>6, <1>8 DEF NewInv
  <1>20. StartInv(t)'
    BY <1>4, <1>6 DEF StartInv, Making
  <1> QED
    BY <1>14, <1>16, <1>17, <1>18, <1>19, <1>20 DEF WorkInv, HeldInv

\* One that fails leaves no worker, and no start that is not excused.
LEMMA RebuildFailsWork ==
  ASSUME NEW t \in Thread, ReloadInv(t), ReloadInv(t)', WorkInv(t), RebuildFails(t)
  PROVE  WorkInv(t)'
  <1> DEFINE u == task[t]
  <1>1. /\ WorkTypes(t) /\ HandInv(t) /\ DOMAIN task = Thread
    BY WorkParts
  <1>2. /\ u.at = "rebuild" /\ task'[t] = Idle /\ missed \subseteq missed'
        /\ UNCHANGED <<phase, children, registry, slot, managed, pending, retry, arrs, todo, cur, meta,
                       pc, clash, overlap, config, off>>
    BY <1>1 DEF RebuildFails, At, Go, vars, tracked, main
  <1>3. /\ Idle.at = "idle" /\ Idle.names = {} /\ Idle.live = {} /\ ~Idle.full /\ Idle.arr = None
        /\ Idle.roles = {} /\ Idle.proc = None /\ Idle.procs = {} /\ Idle.arrs = {} /\ Idle.jobs = {}
    BY DEF Idle
  <1>4. u.arrs = {}
    BY <1>1, <1>2 DEF HandInv
  <1>5. WorkTypes(t)'
    BY <1>1, <1>2, <1>3 DEF WorkTypes
  <1>6. Waiting(t)' = {}
    BY <1>2, <1>3 DEF Waiting, Reloading
  <1>7. HandInv(t)'
    BY <1>2, <1>3, <1>6 DEF HandInv
  <1>8. StopInv(t)' /\ SearchInv(t)' /\ RebuildInv(t)'
    BY <1>2, <1>3 DEF StopInv, SearchInv, RebuildInv, Search, Stopping
  <1>9. NewInv(t)'
    BY <1>2, <1>3 DEF NewInv
  <1>10. \A a \in ManagedArrs, r \in Role : ~Making(t, a, r)
    BY <1>2, <1>4 DEF Making, Search
  <1> QED
    BY <1>2, <1>3, <1>5, <1>6, <1>7, <1>8, <1>9, <1>10, TaskStep

\* A refreshed object keeps its jobs, and what is queued for it is of no sound job.
LEMMA RefreshWork ==
  ASSUME NEW t \in Thread, ReloadInv(t), ReloadInv(t)', WorkInv(t), Refresh(t)
  PROVE  WorkInv(t)'
  <1> DEFINE u == task[t]
  <1> PICK n : n = Min(u.live)
    OBVIOUS
  <1>1. /\ MainInv(t) /\ WorkTypes(t) /\ SlotInv /\ ChildInv /\ MetaInv /\ TodoInv(t) /\ CurInv(t)
        /\ QueueInv(t) /\ RespawnInv(t) /\ HandInv(t) /\ ContestInv(t) /\ StartInv(t) /\ ManagedInv
        /\ DOMAIN task = Thread /\ DOMAIN u = DOMAIN Idle /\ ManagedArrs \subseteq Arr
    BY WorkParts DEF MainInv
  <1>2. /\ u.at = "next" /\ u.names = {} /\ u.live # {}
        /\ UNCHANGED <<phase, children, registry, todo, cur, meta, pc, clash, overlap, config, off, missed>>
    BY DEF Refresh, At, tracked, history
  <1>3. n \in u.live /\ u.live \subseteq Name
    BY <1>1, <1>2, LeastNumber, LifecycleAssumption DEF WorkTypes
  <1>4. /\ u.arrs = {} /\ Waiting(t) = {}
        /\ \A a \in Named(n) : a \in ManagedArrs /\ a \in Arr /\ NameOf[a] = n /\ ArrJobs(a) \subseteq u.jobs
    BY <1>1, <1>2, <1>3, ManagedFacts DEF HandInv, Waiting, Reloading
  <1>5. Alive' = Alive /\ \A j : Sound(j)' <=> Sound(j)
    BY <1>2 DEF Alive, Sound
  <1>6. \A c \in ManagedArrs, r \in Role : ~Making(t, c, r)
    BY <1>2, <1>4 DEF Making, Search
  <1> DEFINE rest == [u EXCEPT !.live = @ \ {n}, !.name = n]
             New(a, b, x) == IF x = a THEN b ELSE x
             Move(a, b, S) == {<<New(a, b, s[1]), s[2]>> : s \in S}
             Replaced(a, b) ==
               /\ IF config[n] = None \/ Profile(a)[3] = config[n][3] THEN b = a
                  ELSE b \in FreeArr /\ NameOf[b] = n /\ Profile(b) = <<CatOf[a], UriOf[a], config[n][3]>>
               /\ managed' = [c \in Category |-> New(a, b, managed[c])]
               /\ pending' = Move(a, b, pending) /\ retry' = Move(a, b, retry)
               /\ arrs' = {New(a, b, x) : x \in arrs}
               /\ slot' = [s \in Slot |-> IF s[1] = b THEN slot[<<a, s[2]>>]
                                          ELSE IF s[1] = a THEN None ELSE slot[s]]
               /\ task' = [task EXCEPT ![t] = [rest EXCEPT !.at = "reconcile", !.arr = b]]
  <1>7. \/ /\ Named(n) = {} /\ task' = [task EXCEPT ![t] = rest]
           /\ UNCHANGED <<slot, managed, pending, arrs, retry>>
        \/ \E a, b : a \in Named(n) /\ b \in Arr /\ Replaced(a, b)
    <2>1. CASE Named(n) = {}
      BY <2>1 DEF Refresh, Go
    <2>2. CASE Named(n) # {}
      BY <2>2 DEF Refresh, Go
    <2> QED
      BY <2>1, <2>2
  <1>8. CASE Named(n) = {} /\ task' = [task EXCEPT ![t] = rest] /\ UNCHANGED <<slot, managed, pending, arrs, retry>>
    <2>1. /\ task'[t].jobs = u.jobs /\ task'[t].live = u.live \ {n} /\ task'[t].full = u.full
          /\ task'[t].arrs = u.arrs /\ task'[t].procs = u.procs /\ task'[t].proc = u.proc
          /\ task'[t].names = u.names /\ task'[t].name = n /\ task'[t].arr = u.arr
          /\ task'[t].roles = u.roles /\ task'[t].at = "next"
      <3>1. task'[t] = rest
        BY <1>1, <1>8
      <3> QED
        BY <1>1, <1>2, <3>1, Fields
    <2>2. WorkTypes(t)'
      BY <1>1, <1>2, <1>8, <2>1 DEF WorkTypes
    <2>3. Waiting(t)' = {} /\ ManagedArrs' = ManagedArrs
      BY <1>2, <1>8, <2>1 DEF Waiting, Reloading, ManagedArrs
    <2>4. HandInv(t)'
      BY <1>1, <1>2, <1>4, <2>1, <2>3, SameSections
    <2>5. StopInv(t)' /\ NewInv(t)' /\ SearchInv(t)' /\ RebuildInv(t)'
      BY <1>4, <2>1 DEF StopInv, NewInv, SearchInv, RebuildInv, Search, Stopping
    <2> QED
      BY <1>2, <1>4, <1>6, <1>8, <2>1, <2>2, <2>3, <2>4, <2>5, TaskStep
  <1>9. ASSUME NEW a \in Named(n), NEW b \in Arr, Replaced(a, b)
        PROVE  WorkInv(t)'
    <2>1. /\ task'[t].jobs = u.jobs /\ task'[t].live = u.live \ {n} /\ task'[t].full = u.full
          /\ task'[t].arrs = u.arrs /\ task'[t].procs = u.procs /\ task'[t].proc = u.proc
          /\ task'[t].names = u.names /\ task'[t].name = n /\ task'[t].arr = b
          /\ task'[t].roles = u.roles /\ task'[t].at = "reconcile"
      <3>1. task'[t] = [rest EXCEPT !.at = "reconcile", !.arr = b]
        BY <1>1, <1>9
      <3> QED
        BY <1>1, <3>1, Fields
    <2>2. /\ a \in ManagedArrs /\ a \in Arr /\ NameOf[a] = n /\ ArrJobs(a) \subseteq u.jobs
          /\ CatOf[a] \in Category
      BY <1>4, ArrFacts
    <2>3. /\ b = a \/ b \in FreeArr
          /\ NameOf[b] = n /\ CatOf[b] = CatOf[a]
      BY <1>9, <2>2 DEF Profile
    <2>4. /\ \A r \in Role : JobOfSlot(b, r) = JobOfSlot(a, r) /\ JobOfSlot(a, r) \in u.jobs
          /\ ArrJobs(b) = ArrJobs(a)
      BY <2>2, <2>3 DEF JobOfSlot, ArrJobs
    <2>5. ManagedArrs' = (ManagedArrs \ {a}) \cup {b}
      <3>1. \A c \in Category : managed'[c] = IF managed[c] = a THEN b ELSE managed[c]
        BY <1>9
      <3> QED
        BY <1>1, <2>2, <3>1, ArrFacts, ManagedFacts DEF ManagedArrs
    <2>6. \A x \in Arr, r \in Role :
             slot'[<<x, r>>] = IF x = b THEN slot[<<a, r>>] ELSE IF x = a THEN None ELSE slot[<<x, r>>]
      <3>1. slot' = [s \in Slot |-> IF s[1] = b THEN slot[<<a, s[2]>>]
                                    ELSE IF s[1] = a THEN None ELSE slot[s]]
        BY <1>9
      <3> QED
        BY <3>1, JobFacts
    <2>7. slot \in [Slot -> Proc \cup {None}] /\ slot' \in [Slot -> Proc \cup {None}]
      <3>1. slot \in [Slot -> Proc \cup {None}]
        BY <1>1 DEF WorkTypes
      <3>2. \A x \in Arr, r \in Role : slot'[<<x, r>>] \in Proc \cup {None}
        <4>1. \A x \in Arr, r \in Role : slot[<<x, r>>] \in Proc \cup {None}
          BY <3>1, JobFacts
        <4> QED
          BY <2>2, <2>6, <4>1
      <3>3. \A s \in Slot : slot'[s] \in Proc \cup {None}
        BY <3>2, SlotFacts
      <3>4. slot' = [s \in Slot |-> slot'[s]]
        BY <1>9
      <3> HIDE DEF Replaced
      <3> QED
        BY <3>1, <3>3, <3>4
    <2>8. /\ \A x, r : <<x, r>> \in pending' => \E y : <<y, r>> \in pending /\ x = New(a, b, y)
          /\ \A x, r : <<x, r>> \in retry' => \E y : <<y, r>> \in retry /\ x = New(a, b, y)
          /\ pending' \subseteq Slot /\ retry' \subseteq Slot /\ (retry' # {} => retry # {})
      <3>1. pending \subseteq Slot /\ retry \subseteq Slot
        BY <1>1 DEF WorkTypes
      <3>2. \A S \in SUBSET Slot : /\ \A x, r : <<x, r>> \in Move(a, b, S) => \E y : <<y, r>> \in S /\ x = New(a, b, y)
                                   /\ Move(a, b, S) \subseteq Slot /\ (Move(a, b, S) # {} => S # {})
        BY <2>2 DEF Slot
      <3>3. pending' = Move(a, b, pending) /\ retry' = Move(a, b, retry)
        BY <1>9
      <3> HIDE DEF Move, New
      <3> QED
        BY <3>1, <3>2, <3>3
    <2>9. \A x \in arrs' : \E y \in arrs : x = New(a, b, y)
      BY <1>9
    <2> HIDE DEF Replaced, Move
    <2>10. WorkTypes(t)'
      <3>1. arrs' \subseteq Arr
        BY <1>1, <2>9 DEF WorkTypes
      <3> QED
        BY <1>1, <1>2, <2>1, <2>7, <2>8, <3>1 DEF WorkTypes
    <2>11. SlotInv' /\ MetaInv' /\ TodoInv(t)' /\ CurInv(t)'
      <3>1. SlotInv'
        BY <1>1, <2>2, <2>4, <2>6 DEF SlotInv
      <3>2. MetaInv'
        BY <1>1, <1>2, <1>5 DEF MetaInv
      <3>3. TodoInv(t)'
        BY <1>1, <1>2, <1>5, <2>1 DEF TodoInv
      <3>4. CurInv(t)'
        BY <1>1, <1>2, <1>5, <2>1 DEF CurInv
      <3> QED
        BY <3>1, <3>2, <3>3, <3>4
    <2>12. ChildInv'
      <3> SUFFICES ASSUME NEW p \in Proc, Sound(JobOf[p])
                   PROVE  /\ p \in Alive => p \in children
                          /\ p \in children =>
                                /\ \E x \in ManagedArrs' : JobOf[p] \in ArrJobs(x)
                                /\ \A x \in ManagedArrs', r \in Role : JobOf[p] = JobOfSlot(x, r) => slot'[<<x, r>>] = p
        BY <1>1, <1>2, <1>5 DEF ChildInv, Alive, WorkTypes
      <3>1. p \in Alive => p \in children
        BY <1>1 DEF ChildInv
      <3>2. ASSUME p \in children
            PROVE  /\ \E x \in ManagedArrs' : JobOf[p] \in ArrJobs(x)
                   /\ \A x \in ManagedArrs', r \in Role : JobOf[p] = JobOfSlot(x, r) => slot'[<<x, r>>] = p
        <4>1. PICK y \in ManagedArrs : JobOf[p] \in ArrJobs(y)
          BY <1>1, <3>2 DEF ChildInv
        <4>2. \E x \in ManagedArrs' : JobOf[p] \in ArrJobs(x)
          BY <2>4, <2>5, <4>1
        <4>3. \A y2 \in ManagedArrs, r \in Role : JobOf[p] = JobOfSlot(y2, r) => slot[<<y2, r>>] = p
          BY <1>1, <3>2 DEF ChildInv
        <4>4. \A x \in ManagedArrs', r \in Role : JobOf[p] = JobOfSlot(x, r) => slot'[<<x, r>>] = p
          <5> SUFFICES ASSUME NEW x \in ManagedArrs', NEW r \in Role, JobOf[p] = JobOfSlot(x, r)
                       PROVE  slot'[<<x, r>>] = p
            OBVIOUS
          <5>1. CASE x = b
            BY <2>2, <2>4, <2>6, <4>3, <5>1
          <5>2. CASE x # b
            <6>1. x \in ManagedArrs /\ x # a /\ x \in Arr
              BY <1>1, <2>5, <5>2
            <6> QED
              BY <2>6, <4>3, <5>2, <6>1
          <5> QED
            BY <5>1, <5>2
        <4> QED
          BY <4>2, <4>4
      <3> QED
        BY <3>1, <3>2
    <2>13. QueueInv(t)'
      <3>1. ASSUME NEW x \in Arr, NEW r \in Role, <<x, r>> \in pending' \cup retry', Sound(JobOfSlot(x, r))
            PROVE  x \in ManagedArrs' /\ JobOfSlot(x, r) \notin u.jobs /\ slot'[<<x, r>>] \notin children
        <4>1. PICK y : <<y, r>> \in pending \cup retry /\ x = New(a, b, y)
          BY <2>8, <3>1
        <4>2. y \in Arr /\ JobOfSlot(y, r) = JobOfSlot(x, r)
          BY <1>1, <2>4, <4>1 DEF WorkTypes, Slot
        <4>3. y \in ManagedArrs /\ JobOfSlot(y, r) \notin u.jobs /\ slot[<<y, r>>] \notin children
          BY <1>1, <3>1, <4>1, <4>2 DEF QueueInv
        <4>4. y # a /\ y # b /\ x = y
          BY <2>4, <4>1, <4>3
        <4> QED
          BY <2>5, <2>6, <4>3, <4>4
      <3>2. ASSUME NEW s \in pending', s \in retry' PROVE FALSE
        <4>1. PICK x \in Arr, r \in Role : s = <<x, r>>
          BY <2>8, <3>2, SlotFacts
        <4>2. PICK y : <<y, r>> \in pending /\ x = New(a, b, y)
          BY <2>8, <3>2, <4>1
        <4>3. PICK z : <<z, r>> \in retry /\ x = New(a, b, z)
          BY <2>8, <3>2, <4>1
        <4>4. b = a \/ (<<b, r>> \notin pending /\ <<b, r>> \notin retry)
          BY <2>3 DEF FreeArr
        <4>5. y = z
          BY <4>2, <4>3, <4>4
        <4> QED
          BY <1>1, <4>2, <4>3, <4>5 DEF QueueInv
      <3>3. retry' # {} => pc \in {"retry"} \cup Closing
        BY <1>1, <2>8 DEF QueueInv
      <3> QED
        BY <1>2, <1>5, <2>1, <3>1, <3>2, <3>3 DEF QueueInv
    <2>14. RespawnInv(t)'
      <3>1. /\ pc \in {"checkpoint", "respawn"} => \A j \in u.jobs : ~Sound(j)
            /\ pc = "checkpoint" => \A p \in children : ~Sound(JobOf[p])
        BY <1>1 DEF RespawnInv
      <3>2. ASSUME pc = "respawn", NEW x \in arrs', NEW r \in Role, Sound(JobOfSlot(x, r))
            PROVE  x \in ManagedArrs' /\ \A p \in children : JobOf[p] # JobOfSlot(x, r)
        <4>1. PICK y \in arrs : x = New(a, b, y)
          BY <2>9, <3>2
        <4>2. y # a /\ x = y
          BY <2>4, <3>1, <3>2, <4>1
        <4>3. y \in ManagedArrs /\ \A p \in children : JobOf[p] # JobOfSlot(y, r)
          BY <1>1, <3>2, <4>2 DEF RespawnInv
        <4> QED
          BY <2>5, <4>2, <4>3
      <3> QED
        BY <1>2, <1>5, <2>1, <3>1, <3>2 DEF RespawnInv
    <2>15. Waiting(t)' = {}
      BY <1>2, <2>1 DEF Waiting, Reloading
    <2>16. HandInv(t)' /\ ContestInv(t)'
      <3>1. HandInv(t)'
        BY <1>1, <1>2, <1>3, <1>4, <2>1, <2>2, <2>4, <2>5, <2>15 DEF HandInv
      <3>2. ContestInv(t)'
        BY <1>1, <1>2, <1>5, <2>15 DEF ContestInv
      <3> QED
        BY <3>1, <3>2
    <2>17. StopInv(t)' /\ NewInv(t)' /\ SearchInv(t)' /\ RebuildInv(t)'
      BY <1>4, <2>1, <2>5 DEF StopInv, NewInv, SearchInv, RebuildInv, Search, Stopping
    <2>18. StartInv(t)'
      <3> SUFFICES ASSUME NEW c \in ManagedArrs', NEW r \in Role, r \in RolesOf[c],
                          Sound(JobOfSlot(c, r)), JobOfSlot(c, r) \notin missed, ~Making(t, c, r)'
                   PROVE  slot'[<<c, r>>] # None /\ phase[slot'[<<c, r>>]] # "made"
        BY <1>2, <1>5 DEF StartInv
      <3>1. CASE c = b
        <4>1. r = "torrent"
          BY <2>1, <3>1 DEF Making, Search, Role
        <4>2. "torrent" \in RolesOf[a]
          BY <2>2, <3>1, <4>1, LifecycleAssumption
        <4>3. JobOfSlot(a, r) = JobOfSlot(c, r)
          BY <2>4, <3>1
        <4>4. slot[<<a, r>>] # None /\ phase[slot[<<a, r>>]] # "made"
          BY <1>1, <1>6, <2>2, <4>1, <4>2, <4>3 DEF StartInv
        <4> QED
          BY <2>6, <3>1, <4>4
      <3>2. CASE c # b
        <4>1. c \in ManagedArrs /\ c # a /\ c \in Arr
          BY <1>1, <2>5, <3>2
        <4>2. slot[<<c, r>>] # None /\ phase[slot[<<c, r>>]] # "made"
          BY <1>1, <1>6, <4>1 DEF StartInv
        <4> QED
          BY <2>6, <3>2, <4>1, <4>2
      <3> QED
        BY <3>1, <3>2
    <2> QED
      BY <2>10, <2>11, <2>12, <2>13, <2>14, <2>16, <2>17, <2>18 DEF WorkInv, MainInv, HeldInv
  <1> HIDE DEF Replaced
  <1> QED
    BY <1>7, <1>8, <1>9

-----------------------------------------------------------------------------
(* The requests. *)

\* Sound jobs that a request takes in hand are those the main thread is not about to touch.
LEMMA AcceptWork ==
  ASSUME NEW t \in Thread, ReloadInv(t), WorkInv(t), task[t].at = "idle",
         UNCHANGED <<phase, children, registry, slot, managed, pending, retry, arrs, todo, cur, meta,
                     pc, overlap, missed>>,
         clash \subseteq clash', \A j \in task'[t].jobs : Disturbed(j) => j \in clash',
         task'[t].at \in {"next", "all"}, task'[t].jobs \subseteq Job, task'[t].live \subseteq Name,
         task'[t].arr = None, task'[t].proc = None, task'[t].procs = {}, task'[t].roles = {},
         task'[t].arrs = {}, HandInv(t)', ContestInv(t)'
  PROVE  WorkInv(t)'
  <1>1. /\ WorkTypes(t) /\ SlotInv /\ ChildInv /\ MetaInv /\ TodoInv(t) /\ CurInv(t) /\ QueueInv(t)
        /\ RespawnInv(t) /\ StartInv(t)
    BY WorkParts DEF MainInv
  <1>2. /\ Alive' = Alive /\ ManagedArrs' = ManagedArrs /\ \A j : Sound(j)' => Sound(j)
        /\ \A j \in task'[t].jobs : Sound(j)' => ~Disturbed(j)
    BY SoundKept DEF Alive, ManagedArrs, Sound
  <1>3. WorkTypes(t)'
    BY <1>1 DEF WorkTypes
  <1>4. SlotInv' /\ ChildInv'
    BY <1>1, <1>2 DEF SlotInv, ChildInv
  <1>5. MetaInv' /\ TodoInv(t)'
    <2>1. MetaInv'
      BY <1>1, <1>2 DEF MetaInv
    <2>2. TodoInv(t)'
      BY <1>1, <1>2 DEF TodoInv
    <2> QED
      BY <2>1, <2>2
  <1>6. CurInv(t)'
    <2>1. Sound(meta)' => meta \notin task'[t].jobs
      BY <1>2 DEF Disturbed
    <2> QED
      BY <1>1, <1>2, <2>1 DEF CurInv
  <1>7. QueueInv(t)'
    <2>1. ASSUME NEW a \in Arr, NEW r \in Role, <<a, r>> \in pending \cup retry
          PROVE  Disturbed(JobOfSlot(a, r))
      <3>1. JobOfSlot(<<a, r>>[1], <<a, r>>[2]) = JobOfSlot(a, r)
        OBVIOUS
      <3> QED
        BY <2>1, <3>1 DEF Disturbed, PendingJobs
    <2> QED
      BY <1>1, <1>2, <2>1 DEF QueueInv
  <1>8. RespawnInv(t)'
    <2>1. pc \in {"checkpoint", "respawn"} => \A j \in task'[t].jobs : ~Sound(j)'
      BY <1>2 DEF Disturbed
    <2> QED
      BY <1>1, <1>2, <2>1 DEF RespawnInv
  <1>9. StopInv(t)' /\ NewInv(t)' /\ SearchInv(t)' /\ RebuildInv(t)'
    BY DEF StopInv, NewInv, SearchInv, RebuildInv, Search, Stopping
  <1>10. StartInv(t)'
    <2>1. task[t].arrs = {}
      BY DEF ReloadInv, Work, Idle
    <2>2. \A a, r : ~Making(t, a, r)
      BY <2>1 DEF Making, Search
    <2> QED
      BY <1>1, <1>2, <2>2 DEF StartInv
  <1> QED
    BY <1>3, <1>4, <1>5, <1>6, <1>7, <1>8, <1>9, <1>10 DEF WorkInv, MainInv, HeldInv

\* The jobs of a set of sections.
LEMMA SectionJobs ==
  ASSUME NEW c \in Config, NEW N \in SUBSET Name
  PROVE  /\ JobsOf(N, c) \subseteq Job
         /\ \A n \in N, r \in Role : c[n] # None => <<c[n][1], r>> \in JobsOf(N, c)
  <1>1. \A n \in N, r \in Role : c[n] # None => <<c[n][1], r>> \in Job
    <2> SUFFICES ASSUME NEW n \in N, NEW r \in Role, c[n] # None
                 PROVE  <<c[n][1], r>> \in Job
      OBVIOUS
    <2>1. PICK a \in Arr : c[n] = Profile(a)
      BY DEF Config
    <2>2. <<c[n][1], r>> = JobOfSlot(a, r)
      BY <2>1 DEF Profile, JobOfSlot
    <2>3. JobOfSlot(a, r) \in Job
      BY JobFacts
    <2> QED
      BY <2>2, <2>3
  <1> QED
    BY <1>1 DEF JobsOf

\* At rest a managed object has its section's category.
LEMMA RestFits ==
  ASSUME NEW t \in Thread, ReloadInv(t), task[t].at = "idle"
  PROVE  \A a \in ManagedArrs : /\ NameOf[a] \in Name /\ config[NameOf[a]] # None
                                /\ CatOf[a] = config[NameOf[a]][1]
  BY AtRest, ArrFacts, ManagedFacts DEF ReloadInv, Settled, Fits

\* A save has the jobs of the sections it changes in hand, under their old categories and
\* their new ones.
LEMMA SaveWork ==
  ASSUME NEW t \in Thread, ReloadInv(t), ReloadInv(t)', WorkInv(t), NEW d, NEW o, Save(t, d, o)
  PROVE  WorkInv(t)'
  <1> DEFINE changed == {n \in Name : config[n] # d[n]}
             jobs == JobsOf(changed, config) \cup JobsOf(changed, d)
             left == {n \in Name : d[n] = None} \ o
  <1>1. /\ task[t].at = "idle" /\ config' = d /\ off' = o /\ <<config, d, o>> \in Updates
        /\ UNCHANGED <<phase, children, registry, slot, managed, pending, retry, arrs, todo, cur, meta,
                       pc, overlap, missed>>
    BY DEF Save, Accept, At, vars, tracked, main
  <1>2. \E names, live \in SUBSET changed :
           task'[t] = [Idle EXCEPT !.at = "next", !.names = names, !.gone = left, !.live = live, !.jobs = jobs]
    BY DEF Save, Accept, Go, ReloadInv, Others
  <1>3. clash' = clash \cup {j \in jobs : Disturbed(j)} \cup Contested(config, d, left)
    <2>1. Busy = {}
      BY <1>1, AtRest
    <2>2. \E names, live :
             LET u == [Idle EXCEPT !.at = "next", !.names = names, !.gone = left, !.live = live, !.jobs = jobs]
             IN  clash' = clash \cup {j \in u.jobs : Disturbed(j)} \cup Contested(config, d, u.gone)
      BY <1>1, <2>1 DEF Save, Accept
    <2> HIDE DEF jobs, left
    <2> QED
      BY <2>2 DEF Idle
  <1>4. /\ task'[t].at = "next" /\ task'[t].names \subseteq changed /\ task'[t].live \subseteq changed
        /\ task'[t].jobs = jobs /\ ~task'[t].full
        /\ task'[t].arr = None /\ task'[t].proc = None /\ task'[t].procs = {} /\ task'[t].roles = {}
        /\ task'[t].arrs = {}
    BY <1>2 DEF Idle
  <1>5. /\ config \in Config /\ d \in Config /\ changed \subseteq Name
        /\ jobs \subseteq Job
        /\ \A n \in changed, r \in Role : /\ config[n] # None => <<config[n][1], r>> \in jobs
                                          /\ d[n] # None => <<d[n][1], r>> \in jobs
    <2>1. config \in Config /\ d \in Config
      BY <1>1, LifecycleAssumption DEF ReloadInv, ConfigInv
    <2> QED
      BY <2>1, SectionJobs
  <1>6. ManagedArrs' = ManagedArrs /\ Waiting(t)' \subseteq changed
    BY <1>1, <1>4 DEF ManagedArrs, Waiting, Reloading
  <1>7. \A a \in ManagedArrs : /\ NameOf[a] \in Name /\ config[NameOf[a]] # None
                               /\ CatOf[a] = config[NameOf[a]][1]
    BY <1>1, RestFits
  <1> HIDE DEF jobs
  <1>8. HandInv(t)'
    <2>1. \A a \in ManagedArrs : NameOf[a] \in changed => ArrJobs(a) \subseteq jobs
      BY <1>5, <1>7 DEF ArrJobs, JobOfSlot
    <2> QED
      BY <1>1, <1>4, <1>5, <1>6, <2>1 DEF HandInv
  <1>9. \A m, n \in Name, r \in Role : m # n /\ d[m] # None /\ d[m] # config[m]
           /\ \/ d[n] # None /\ d[m][1] = d[n][1]
              \/ config[n] # None /\ n \notin left /\ d[m][1] = config[n][1]
           => ~Sound(<<d[m][1], r>>)'
    <2> HIDE DEF left
    <2> SUFFICES ASSUME NEW m \in Name, NEW n \in Name, NEW r \in Role,
                        m # n, d[m] # None, d[m] # config[m],
                        \/ d[n] # None /\ d[m][1] = d[n][1]
                        \/ config[n] # None /\ n \notin left /\ d[m][1] = config[n][1]
                 PROVE  <<d[m][1], r>> \in Contested(config, d, left)
      BY <1>3 DEF Sound
    <2>1. TakesOver(m, n, 1, config, d, left)
      BY DEF TakesOver
    <2> QED
      BY <2>1 DEF Contested
  <1>10. ContestInv(t)'
    <2>1. ASSUME NEW n \in Waiting(t)', NEW b \in ManagedArrs, NEW r \in Role,
                 d[n] # None, NameOf[b] # n, CatOf[b] = d[n][1],
                 d[NameOf[b]] # None \/ NameOf[b] \in o
          PROVE  ~Sound(JobOfSlot(b, r))'
      <3>1. n \in Name /\ d[n] # config[n]
        BY <1>6
      <3>2. ~Sound(<<d[n][1], r>>)'
        BY <1>7, <1>9, <2>1, <3>1
      <3> QED
        BY <2>1, <3>2 DEF JobOfSlot
    <2>2. ASSUME NEW m \in Name, NEW n \in Name, NEW r \in Role,
                 m # n, d[m] # None, d[n] # None, d[m][1] = d[n][1]
          PROVE  ~Sound(<<d[n][1], r>>)'
      <3>1. CASE d[m] # config[m] \/ d[n] # config[n]
        BY <1>9, <2>2, <3>1
      <3>2. CASE d[m] = config[m] /\ d[n] = config[n]
        <4>1. ContestInv(t) /\ clash \subseteq clash'
          BY <1>3, WorkParts
        <4>2. ~Sound(<<config[n][1], r>>)
          BY <2>2, <3>2, <4>1 DEF ContestInv
        <4> QED
          BY <1>1, <3>2, <4>1, <4>2 DEF Sound
      <3> QED
        BY <3>1, <3>2
    <2> QED
      BY <1>1, <1>6, <2>1, <2>2 DEF ContestInv
  <1>11. clash \subseteq clash' /\ \A j \in task'[t].jobs : Disturbed(j) => j \in clash'
    BY <1>3, <1>4
  <1> QED
    BY <1>1, <1>4, <1>5, <1>8, <1>10, <1>11, AcceptWork

\* So has a save of what an object keeps nothing of ...
LEMMA SaveKeyWork ==
  ASSUME NEW t \in Thread, ReloadInv(t), ReloadInv(t)', WorkInv(t), NEW n \in Name, SaveKey(t, n)
  PROVE  WorkInv(t)'
  <1> DEFINE jobs == JobsOf({n}, config)
  <1>1. /\ task[t].at = "idle" /\ config' = config /\ config[n] # None
        /\ UNCHANGED <<phase, children, registry, slot, managed, pending, retry, arrs, todo, cur, meta,
                       pc, overlap, missed>>
    BY DEF SaveKey, Accept, At, vars, tracked, main
  <1>2. \E gone : task'[t] = [Idle EXCEPT !.at = "next", !.names = {n}, !.gone = gone, !.jobs = jobs]
    BY DEF SaveKey, Accept, Go, ReloadInv, Others
  <1>3. clash \subseteq clash' /\ \A j \in jobs : Disturbed(j) => j \in clash'
    <2>1. Busy = {}
      BY <1>1, AtRest
    <2>2. \E gone :
             LET u == [Idle EXCEPT !.at = "next", !.names = {n}, !.gone = gone, !.jobs = jobs]
             IN  clash' = clash \cup {j \in u.jobs : Disturbed(j)} \cup Contested(config, config', u.gone)
      BY <2>1 DEF SaveKey, Accept
    <2> HIDE DEF jobs
    <2> QED
      BY <2>2 DEF Idle
  <1>4. /\ task'[t].at = "next" /\ task'[t].names = {n} /\ task'[t].live = {}
        /\ task'[t].jobs = jobs /\ ~task'[t].full
        /\ task'[t].arr = None /\ task'[t].proc = None /\ task'[t].procs = {} /\ task'[t].roles = {}
        /\ task'[t].arrs = {}
    BY <1>2 DEF Idle
  <1>5. jobs \subseteq Job /\ \A r \in Role : <<config[n][1], r>> \in jobs
    <2>1. config \in Config
      BY DEF ReloadInv, ConfigInv
    <2> QED
      BY <1>1, <2>1, SectionJobs
  <1>6. ManagedArrs' = ManagedArrs /\ Waiting(t)' = {n}
    BY <1>1, <1>4 DEF ManagedArrs, Waiting, Reloading
  <1>7. \A a \in ManagedArrs : /\ NameOf[a] \in Name /\ config[NameOf[a]] # None
                               /\ CatOf[a] = config[NameOf[a]][1]
    BY <1>1, RestFits
  <1> HIDE DEF jobs
  <1>8. HandInv(t)'
    <2>1. \A a \in ManagedArrs : NameOf[a] = n => ArrJobs(a) \subseteq jobs
      BY <1>5, <1>7 DEF ArrJobs, JobOfSlot
    <2> QED
      BY <1>1, <1>4, <1>5, <1>6, <2>1 DEF HandInv
  <1>9. ContestInv(t)'
    <2>1. ContestInv(t) /\ \A j : Sound(j)' => Sound(j)
      BY <1>1, <1>3, WorkParts, SoundKept
    <2>2. ASSUME NEW b \in ManagedArrs, NEW r \in Role, NameOf[b] # n, CatOf[b] = config[n][1]
          PROVE  ~Sound(JobOfSlot(b, r))
      <3>1. ~Sound(<<config[n][1], r>>)
        BY <1>1, <1>7, <2>1, <2>2 DEF ContestInv
      <3> QED
        BY <2>2, <3>1 DEF JobOfSlot
    <2> QED
      BY <1>1, <1>6, <2>1, <2>2 DEF ContestInv
  <1> QED
    BY <1>1, <1>3, <1>4, <1>5, <1>8, <1>9, AcceptWork

\* ... and a rebuild has all.
LEMMA SaveAllWork ==
  ASSUME NEW t \in Thread, ReloadInv(t), ReloadInv(t)', WorkInv(t), SaveAll(t)
  PROVE  WorkInv(t)'
  <1>1. /\ task[t].at = "idle" /\ config' = config
        /\ UNCHANGED <<phase, children, registry, slot, managed, pending, retry, arrs, todo, cur, meta,
                       pc, overlap, missed>>
    BY DEF SaveAll, Accept, At, vars, tracked, main
  <1>2. task'[t] = [Idle EXCEPT !.at = "all", !.full = TRUE, !.jobs = Job]
    BY DEF SaveAll, Accept, Go, ReloadInv, Others
  <1>3. clash \subseteq clash' /\ \A j \in Job : Disturbed(j) => j \in clash'
    <2>1. Busy = {}
      BY <1>1, AtRest
    <2>2. LET u == [Idle EXCEPT !.at = "all", !.full = TRUE, !.jobs = Job]
          IN  clash' = clash \cup {j \in u.jobs : Disturbed(j)} \cup Contested(config, config', u.gone)
      BY <2>1 DEF SaveAll, Accept
    <2> QED
      BY <2>2 DEF Idle
  <1>4. /\ task'[t].at = "all" /\ task'[t].names = {} /\ task'[t].live = {}
        /\ task'[t].jobs = Job
        /\ task'[t].arr = None /\ task'[t].proc = None /\ task'[t].procs = {} /\ task'[t].roles = {}
        /\ task'[t].arrs = {}
    BY <1>2 DEF Idle
  <1>5. Waiting(t)' = {} /\ ManagedArrs' = ManagedArrs
    BY <1>1, <1>4 DEF Waiting, Reloading, ManagedArrs
  <1>6. HandInv(t)'
    BY <1>4, <1>5, JobFacts DEF HandInv
  <1>7. ContestInv(t)'
    <2>1. ContestInv(t) /\ \A j : Sound(j)' => Sound(j)
      BY <1>1, <1>3, WorkParts, SoundKept
    <2> QED
      BY <1>1, <1>5, <2>1 DEF ContestInv
  <1> QED
    BY <1>1, <1>3, <1>4, <1>6, <1>7, AcceptWork

-----------------------------------------------------------------------------
(* The invariant of the workers. *)

\* The program starts with a listed worker for every loop of a managed object.
LEMMA WorkInit ==
  ASSUME LifeInit, NEW t \in Thread, ReloadInv(t)
  PROVE  WorkInv(t)
  <1> DEFINE Loops == {s \in Slot : s[1] \in ManagedArrs /\ s[2] \in RolesOf[s[1]]}
  <1>1. PICK f \in [Loops -> Proc], m \in [Qbit -> Proc] :
         /\ \A s \in DOMAIN f : JobOf[f[s]] = JobOfSlot(s[1], s[2])
         /\ \A q \in Qbit : JobOf[m[q]] = ManagerJob(q)
         /\ slot = [s \in Slot |-> IF s \in DOMAIN f THEN f[s] ELSE None]
         /\ children = {f[s] : s \in DOMAIN f} \cup {m[q] : q \in Qbit}
    BY DEF LifeInit
  <1>2. /\ config \in Unshared
        /\ phase = [p \in Proc |-> IF p \in children THEN "alive" ELSE "made"]
        /\ registry = [p \in Proc |-> IF p \in children THEN JobOf[p] ELSE None]
        /\ pending = {} /\ pc = "loop" /\ todo = {} /\ arrs = {} /\ retry = {}
        /\ cur = None /\ meta = None /\ task[t] = Idle
    BY LifecycleAssumption DEF LifeInit
  <1>3. ManagedInv /\ ManagedArrs \subseteq Arr
    BY ManagedFacts DEF ReloadInv
  <1>4. /\ Idle.at = "idle" /\ Idle.names = {} /\ Idle.live = {} /\ ~Idle.full /\ Idle.arr = None
        /\ Idle.roles = {} /\ Idle.proc = None /\ Idle.procs = {} /\ Idle.arrs = {} /\ Idle.jobs = {}
    BY DEF Idle
  <1>5. /\ \A a \in Arr, r \in Role : slot[<<a, r>>] = IF <<a, r>> \in Loops THEN f[<<a, r>>] ELSE None
        /\ \A a \in Arr, r \in Role : <<a, r>> \in Loops =>
              f[<<a, r>>] \in Proc /\ f[<<a, r>>] \in children /\ JobOf[f[<<a, r>>]] = JobOfSlot(a, r)
        /\ slot \in [Slot -> Proc \cup {None}] /\ children \subseteq Proc
    <2>1. DOMAIN f = Loops
      BY <1>1
    <2>2. \A a \in Arr, r \in Role : <<a, r>> \in Loops => JobOf[f[<<a, r>>]] = JobOfSlot(a, r)
      <3>1. \A s \in Loops : JobOf[f[s]] = JobOfSlot(s[1], s[2])
        BY <1>1, <2>1
      <3> HIDE DEF Loops
      <3> QED
        BY <3>1, SlotFacts, JobFacts
    <2> HIDE DEF Loops
    <2> QED
      BY <1>1, <2>1, <2>2, JobFacts
  <1>6. \A a \in Arr, r \in Role : <<a, r>> \in Loops <=> a \in ManagedArrs /\ r \in RolesOf[a]
    BY JobFacts
  <1>7. \A p \in children : JobOf[p] \in ArrJob =>
           \E a \in ManagedArrs, r \in Role : JobOf[p] = JobOfSlot(a, r) /\ slot[<<a, r>>] = p
    <2> SUFFICES ASSUME NEW p \in children, JobOf[p] \in ArrJob
                 PROVE  \E a \in ManagedArrs, r \in Role : JobOf[p] = JobOfSlot(a, r) /\ slot[<<a, r>>] = p
      OBVIOUS
    <2>1. PICK s \in Loops : p = f[s]
      BY <1>1, JobFacts
    <2>2. PICK a \in Arr, r \in Role : s = <<a, r>>
      BY SlotFacts
    <2> QED
      BY <1>5, <1>6, <2>1, <2>2
  <1> HIDE DEF Loops
  <1>8. Alive = children
    BY <1>2, <1>5 DEF Alive
  <1>9. WorkTypes(t)
    <2>1. phase \in [Proc -> Phase] /\ registry \in [Proc -> Job \cup {None}]
      BY <1>2, JobFacts DEF Phase
    <2> QED
      BY <1>2, <1>4, <1>5, <2>1 DEF WorkTypes
  <1>10. SlotInv
    BY <1>5 DEF SlotInv
  <1>11. ChildInv
    <2> SUFFICES ASSUME NEW p \in children, Sound(JobOf[p])
                 PROVE  /\ \E a \in ManagedArrs : JobOf[p] \in ArrJobs(a)
                        /\ \A a \in ManagedArrs, r \in Role : JobOf[p] = JobOfSlot(a, r) => slot[<<a, r>>] = p
      BY <1>8 DEF ChildInv
    <2>1. PICK b \in ManagedArrs, q \in Role : JobOf[p] = JobOfSlot(b, q) /\ slot[<<b, q>>] = p
      BY <1>7 DEF Sound
    <2>2. ASSUME NEW a \in ManagedArrs, NEW r \in Role, JobOf[p] = JobOfSlot(a, r)
          PROVE  slot[<<a, r>>] = p
      <3>1. JobOfSlot(a, r) = JobOfSlot(b, q)
        BY <2>1, <2>2
      <3>2. a = b /\ r = q
        BY <1>3, <3>1, OneHolder
      <3> QED
        BY <2>1, <3>2
    <2> QED
      BY <2>1, <2>2 DEF ArrJobs
  <1>12. MetaInv /\ TodoInv(t) /\ CurInv(t) /\ QueueInv(t) /\ RespawnInv(t)
    <2>1. MetaInv
      BY <1>2, JobFacts DEF MetaInv, Sound
    <2>2. ~Sound(None)
      BY JobFacts DEF Sound
    <2> QED
      BY <1>2, <2>1, <2>2 DEF TodoInv, CurInv, QueueInv, RespawnInv
  <1>13. Waiting(t) = {}
    BY <1>2, <1>4 DEF Waiting, Reloading
  <1>14. HandInv(t)
    BY <1>2, <1>4, <1>13 DEF HandInv
  <1>15. ContestInv(t)
    BY <1>2, <1>13 DEF ContestInv, Unshared
  <1>16. StopInv(t) /\ NewInv(t) /\ SearchInv(t) /\ RebuildInv(t)
    BY <1>2, <1>4 DEF StopInv, NewInv, SearchInv, RebuildInv, Search, Stopping
  <1>17. StartInv(t)
    <2> SUFFICES ASSUME NEW a \in ManagedArrs, NEW r \in Role, r \in RolesOf[a]
                 PROVE  slot[<<a, r>>] # None /\ phase[slot[<<a, r>>]] # "made"
      BY DEF StartInv
    <2>1. slot[<<a, r>>] \in Proc /\ slot[<<a, r>>] \in children
      BY <1>3, <1>5, <1>6
    <2> QED
      BY <1>2, <2>1, JobFacts
  <1> QED
    BY <1>9, <1>10, <1>11, <1>12, <1>14, <1>15, <1>16, <1>17 DEF WorkInv, MainInv, HeldInv

\* At rest it holds of any thread.
LEMMA NextThreadWork ==
  ASSUME NEW t \in Thread, ReloadInv(t), WorkInv(t), task[t].at = "idle", NEW u \in Thread
  PROVE  WorkInv(u)
  <1>1. task[u] = task[t]
    BY DEF ReloadInv, Work, Others
  <1>2. Waiting(u) = Waiting(t)
    BY <1>1 DEF Waiting
  <1>3. WorkTypes(u) /\ SlotInv /\ ChildInv /\ MetaInv /\ TodoInv(u)
    BY <1>1, WorkParts DEF WorkTypes, TodoInv
  <1>4. CurInv(u) /\ QueueInv(u) /\ RespawnInv(u)
    BY <1>1, WorkParts DEF MainInv, CurInv, QueueInv, RespawnInv
  <1>5. HandInv(u) /\ ContestInv(u)
    BY <1>1, <1>2, WorkParts DEF HandInv, ContestInv
  <1>6. StopInv(u) /\ NewInv(u) /\ SearchInv(u) /\ RebuildInv(u)
    <2>1. task[u].at = "idle" /\ task[u].arrs = {}
      BY <1>1 DEF ReloadInv, Work, Idle
    <2> QED
      BY <2>1 DEF StopInv, NewInv, SearchInv, RebuildInv, Search, Stopping
  <1>7. StartInv(u)
    BY <1>1, WorkParts DEF StartInv, Making
  <1> QED
    BY <1>3, <1>4, <1>5, <1>6, <1>7 DEF WorkInv, MainInv, HeldInv

\* It speaks of nothing but the variables.
LEMMA WorkStutter ==
  ASSUME NEW t \in Thread, ReloadInv(t), WorkInv(t), UNCHANGED lifeVars
  PROVE  WorkInv(t)'
  <1>1. /\ UNCHANGED <<phase, children, registry, slot, managed, pending, retry, arrs, todo, cur, meta,
                       pc, clash, overlap, config, off, missed, task>>
    BY DEF lifeVars, vars, reload, history, tracked, main
  <1>2. /\ Alive' = Alive /\ ManagedArrs' = ManagedArrs /\ Waiting(t)' = Waiting(t)
        /\ \A j : Sound(j)' <=> Sound(j)
    BY <1>1 DEF Alive, ManagedArrs, Waiting, Sound
  <1>3. WorkTypes(t)' /\ SlotInv' /\ ChildInv' /\ MetaInv' /\ TodoInv(t)'
    <2>1. WorkTypes(t)' /\ SlotInv'
      BY <1>1, WorkParts DEF WorkTypes, SlotInv
    <2>2. ChildInv'
      BY <1>1, <1>2, WorkParts DEF ChildInv
    <2>3. MetaInv' /\ TodoInv(t)'
      BY <1>1, <1>2, WorkParts DEF MetaInv, TodoInv
    <2> QED
      BY <2>1, <2>2, <2>3
  <1>4. CurInv(t)' /\ QueueInv(t)' /\ RespawnInv(t)'
    BY <1>1, <1>2, WorkParts DEF MainInv, CurInv, QueueInv, RespawnInv
  <1>5. HandInv(t)' /\ ContestInv(t)'
    BY <1>1, <1>2, WorkParts DEF HandInv, ContestInv
  <1>6. StopInv(t)' /\ NewInv(t)' /\ SearchInv(t)' /\ RebuildInv(t)'
    <2>1. StopInv(t)'
      BY <1>1, <1>2, WorkParts DEF StopInv
    <2>2. NewInv(t)'
      BY <1>1, <1>2, WorkParts DEF NewInv
    <2>3. SearchInv(t)'
      BY <1>1, <1>2, WorkParts DEF SearchInv
    <2>4. RebuildInv(t)'
      BY <1>1, <1>2, WorkParts DEF RebuildInv
    <2> QED
      BY <2>1, <2>2, <2>3, <2>4
  <1>7. StartInv(t)'
    BY <1>1, <1>2, WorkParts DEF StartInv, Making
  <1> QED
    BY <1>3, <1>4, <1>5, <1>6, <1>7 DEF WorkInv, MainInv, HeldInv

\* Once two requests have overlapped, any job may have been met.
ManagedType == managed \in [Category -> Arr \cup {None}]
Met == Job \subseteq clash /\ ManagedType

LEMMA HandlerMet ==
  ASSUME Met, NEW t \in Thread, Handler(t)
  PROVE  Met'
  <1>1. Job \subseteq clash'
    <2>1. CASE Note(t)
      BY <2>1 DEF Note, Met
    <2>2. CASE ~Note(t)
      BY <2>2 DEF Met, Handler, history, Pick, Stop, Remove, Pop, Drop, BuildNothing, Build, Spawn, Run,
         RunDone, Refresh, Reconcile, MakeSearch, StartSearch, Done, KillAll, ClearAll,
         Rebuild, RebuildFails, EachArr, RunManager, JoinManager
    <2> QED
      BY <2>1, <2>2
  <1>2. ManagedType'
    <2>1. CASE Drop(t)
      BY <2>1 DEF Drop, Met, ManagedType
    <2>2. CASE Build(t)
      <3>1. PICK a \in Arr : managed' = [managed EXCEPT ![CatOf[a]] = a]
        BY <2>2 DEF Build, FreeArr
      <3> QED
        BY <3>1 DEF Met, ManagedType
    <2>3. CASE Refresh(t)
      <3>1. \/ managed' = managed
            \/ \E a, b : b \in Arr /\ managed' = [c \in Category |-> IF managed[c] = a THEN b ELSE managed[c]]
        <4> PICK n : n = Min(task[t].live)
          OBVIOUS
        <4>1. CASE Named(n) = {}
          BY <2>3, <4>1 DEF Refresh
        <4>2. CASE Named(n) # {}
          <5>1. PICK a \in Named(n), b \in Arr :
                   managed' = [c \in Category |-> IF managed[c] = a THEN b ELSE managed[c]]
            BY <2>3, <4>2, ZenonT(30) DEF Refresh
          <5> QED
            BY <5>1
        <4> QED
          BY <4>1, <4>2
      <3> QED
        BY <3>1 DEF Met, ManagedType
    <2>4. CASE Rebuild(t)
      <3>1. PICK new \in SUBSET Arr :
               managed' = [c \in Category |-> IF \E a \in new : CatOf[a] = c
                                              THEN CHOOSE a \in new : CatOf[a] = c ELSE None]
        BY <2>4 DEF Rebuild, FreeArr
      <3> QED
        BY <3>1 DEF ManagedType
    <2>5. CASE ~(Drop(t) \/ Build(t) \/ Refresh(t) \/ Rebuild(t))
      <3>1. managed' = managed
        BY <2>5 DEF Handler, vars, supervised, Pick, Stop, Remove, Pop, BuildNothing, Spawn, Run, Note,
           RunDone, Reconcile, MakeSearch, StartSearch, Done, KillAll, ClearAll, RebuildFails, EachArr,
           RunManager, JoinManager
      <3> QED
        BY <3>1 DEF Met, ManagedType
    <2> QED
      BY <2>1, <2>2, <2>3, <2>4, <2>5
  <1> QED
    BY <1>1, <1>2 DEF Met

LEMMA MetKept ==
  ASSUME Met, [LifeNext]_lifeVars
  PROVE  Met'
  <1>1. CASE Beside(Supervised)
    BY <1>1, SupervisorKeepsManaged DEF Beside, Met, ManagedType
  <1>2. CASE Requests
    <2>1. ASSUME NEW t \in Thread, NEW u, NEW met, Accept(t, u, met) PROVE Met'
      BY <2>1 DEF Accept, vars, Met, ManagedType
    <2>2. \E t \in Thread : \E u, met : Accept(t, u, met)
      BY <1>2, Zenon DEF Requests, Save, SaveKey, SaveAll
    <2> QED
      BY <2>1, <2>2
  <1>3. CASE UNCHANGED lifeVars
    BY <1>3 DEF lifeVars, vars, history, Met, ManagedType
  <1> QED
    BY <1>1, <1>2, <1>3, HandlerMet DEF LifeNext

\* Every step of the thread keeps the invariant.
LEMMA HandlerWork ==
  ASSUME NEW t \in Thread, ReloadInv(t), ReloadInv(t)', WorkInv(t), Handler(t)
  PROVE  WorkInv(t)'
  <1>1. CASE \/ Pick(t) \/ Drop(t) \/ BuildNothing(t) \/ Build(t) \/ Refresh(t) \/ Done(t)
             \/ Rebuild(t) \/ RebuildFails(t)
    BY <1>1, PickWork, DropWork, BuildNothingWork, BuildWork, RefreshWork, DoneWork, RebuildWork,
       RebuildFailsWork
  <1>2. CASE Stop(t) \/ Remove(t) \/ Pop(t) \/ Spawn(t) \/ Run(t) \/ Note(t) \/ RunDone(t) \/ EachArr(t)
    BY <1>2, StopWork, RemoveWork, PopWork, SpawnWork, RunWork, NoteWork, RunDoneWork
  <1>3. CASE \/ Reconcile(t) \/ MakeSearch(t) \/ StartSearch(t) \/ KillAll(t) \/ ClearAll(t)
             \/ RunManager(t) \/ JoinManager(t)
    BY <1>3, ReconcileWork, MakeSearchWork, StartSearchWork, KillAllWork, ClearAllWork,
       RunManagerWork, JoinManagerWork
  <1> QED
    BY <1>1, <1>2, <1>3 DEF Handler

LEMMA WorkNext ==
  ASSUME NEW t \in Thread, ReloadInv(t), WorkInv(t), [LifeNext]_lifeVars
  PROVE  Met' \/ \E u \in Thread : ReloadInv(u)' /\ WorkInv(u)'
  <1>1. CASE Beside(Supervised)
    BY <1>1, BesideStep, WorkBeside
  <1>2. ASSUME NEW u \in Thread,
               \/ \E d, o : Save(u, d, o)
               \/ \E n \in Name : SaveKey(u, n)
               \/ SaveAll(u)
        PROVE  Met' \/ (ReloadInv(u)' /\ WorkInv(u)')
    <2>1. CASE task[t].at = "idle"
      <3>1. ReloadInv(u) /\ WorkInv(u)
        BY <2>1, NextThread, NextThreadWork
      <3>2. ReloadInv(u)'
        BY <1>2, <3>1, SaveStep, SaveKeyStep, SaveAllStep
      <3> QED
        BY <1>2, <3>1, <3>2, SaveWork, SaveKeyWork, SaveAllWork
    <2>2. CASE task[t].at # "idle"
      <3>1. Busy # {}
        BY <2>2 DEF Busy
      <3> QED
        BY <1>2, <3>1 DEF Save, SaveKey, SaveAll, Accept, vars, Met, ManagedType, ReloadInv, ManagedInv
    <2> QED
      BY <2>1, <2>2
  <1>3. ASSUME NEW u \in Thread, Handler(u)
        PROVE  ReloadInv(t)' /\ WorkInv(t)'
    <2>1. u = t
      BY <1>3, IdleThread DEF ReloadInv, Others
    <2>2. ReloadInv(t)'
      BY <1>3, <2>1, HandlerStep
    <2> QED
      BY <1>3, <2>1, <2>2, HandlerWork
  <1>4. CASE UNCHANGED lifeVars
    BY <1>4, ReloadStutter, WorkStutter
  <1> QED
    BY <1>1, <1>2, <1>3, <1>4 DEF LifeNext, Requests

\* A live worker of a sound job is listed, and so shown by the managed object.
LEMMA WorkShown ==
  ASSUME NEW t \in Thread, ReloadInv(t), WorkInv(t)
  PROVE  NoStrayWorker /\ EveryLoopStarted
  <1>1. NoStrayWorker
    <2> SUFFICES ASSUME NEW p \in Alive, JobOf[p] \in ArrJob, ~Excused(JobOf[p])
                 PROVE  \E s \in Slot : slot[s] = p /\ s[1] \in ManagedArrs
      BY DEF NoStrayWorker
    <2>1. Sound(JobOf[p]) /\ ChildInv /\ ManagedArrs \subseteq Arr
      BY WorkParts DEF Sound, Excused
    <2>2. p \in children
      BY <2>1 DEF ChildInv
    <2>3. PICK a \in ManagedArrs, r \in Role : JobOf[p] = JobOfSlot(a, r)
      BY <2>1, <2>2 DEF ChildInv, ArrJobs
    <2>4. slot[<<a, r>>] = p
      BY <2>1, <2>2, <2>3 DEF ChildInv
    <2>5. <<a, r>> \in Slot /\ <<a, r>>[1] = a
      BY <2>1, JobFacts
    <2> QED
      BY <2>4, <2>5
  <1>2. EveryLoopStarted
    <2> SUFFICES ASSUME Busy = {}, NEW a \in ManagedArrs, NEW r \in Role, r \in RolesOf[a],
                        JobOfSlot(a, r) \notin missed, ~Excused(JobOfSlot(a, r))
                 PROVE  slot[<<a, r>>] # None /\ phase[slot[<<a, r>>]] # "made"
      BY DEF EveryLoopStarted
    <2>1. task[t].at = "idle" /\ task[t].arrs = {}
      BY DEF Busy, ReloadInv, Work, Idle
    <2>2. ~Making(t, a, r)
      BY <2>1 DEF Making, Search
    <2>3. Sound(JobOfSlot(a, r))
      BY WorkParts, JobFacts DEF Sound, Excused
    <2> QED
      BY <2>2, <2>3, WorkParts DEF StartInv
  <1> QED
    BY <1>1, <1>2

LEMMA WorkHolds ==
  LifeSpec => [](Met \/ \E t \in Thread : ReloadInv(t) /\ WorkInv(t))
  <1> DEFINE Inv == Met \/ \E t \in Thread : ReloadInv(t) /\ WorkInv(t)
  <1>1. LifeInit => Inv
    BY ReloadInit, WorkInit, LifecycleAssumption
  <1>2. Inv /\ [LifeNext]_lifeVars => Inv'
    BY WorkNext, MetKept
  <1> QED
    BY <1>1, <1>2, PTL DEF LifeSpec

\* Every live worker of an Arr instance is shown by an object the manager holds, so that
\* the next reload can stop it, whatever the main thread, the workers and a reload do in
\* between.  Only a job that the two did meet in may leave one that is not.
THEOREM NoStrayWorkerHolds == LifeSpec => []NoStrayWorker
  <1>1. (Met \/ \E t \in Thread : ReloadInv(t) /\ WorkInv(t)) => NoStrayWorker
    <2>1. Met => NoStrayWorker
      BY JobFacts DEF Met, NoStrayWorker, Excused
    <2> QED
      BY <2>1, WorkShown
  <1> QED
    BY <1>1, WorkHolds, PTL

\* After a reload every loop of a managed object shows a process that was started, unless
\* its start failed.
THEOREM EveryLoopStartedHolds == LifeSpec => []EveryLoopStarted
  <1>1. (Met \/ \E t \in Thread : ReloadInv(t) /\ WorkInv(t)) => EveryLoopStarted
    <2>1. Met => EveryLoopStarted
      <3> SUFFICES ASSUME Met, NEW a \in ManagedArrs, NEW r \in Role
                   PROVE  Excused(JobOfSlot(a, r))
        BY DEF EveryLoopStarted
      <3>1. a \in Arr
        BY DEF Met, ManagedType, ManagedArrs
      <3>2. JobOfSlot(a, r) \in Job
        BY <3>1, JobFacts
      <3> QED
        BY <3>2 DEF Met, Excused
    <2> QED
      BY <2>1, WorkShown
  <1> QED
    BY <1>1, WorkHolds, PTL

=============================================================================
