--------------------------- MODULE SupervisorProofs ---------------------------
(***************************************************************************)
(* Proofs about the supervisor, alone and beside the WebUI's restarts.     *)
(* The supervisor's invariant Inv has four layers: types and what the main *)
(* thread has in hand while it restarts a worker; the agreement of         *)
(* child_processes with the registry and with what runs; where the startup *)
(* thread is done and where the lists are empty; and the claims on a job.  *)
(* A job is claimed by a tracked process that has been started, and by one *)
(* that the initial loop will start; a queued or failed start stands for a *)
(* claim to come.  Unless the coordinated restart has respawned it over    *)
(* its queue entry, a job has one of these at most, and whoever starts a   *)
(* worker has it in hand.  WebInv, in the second half, says of each of     *)
(* these what remains of it while threads of the WebUI restart workers: it *)
(* fails only for the jobs in clash, and a thread's progress tells what it *)
(* has already undone and what it still owes.                              *)
(***************************************************************************)
EXTENDS SupervisorWeb, FiniteSetTheorems, TLAPS

\* The types, and the worker being restarted: it is dead, and below its limit.
TypeInv ==
    /\ TypeOK
    /\ pc = "delay" => /\ cur \in Proc /\ cur \notin todo /\ Dead(cur)
                       /\ meta # None => recent[meta] < MaxRestarts

\* Both records agree, cover every live worker, and the snapshots lie in them.
TrackInv ==
    /\ \A p \in children : registry[p] = JobOf[p]
    /\ Alive \subseteq children
    /\ pc \in {"start", "reap", "delay"} => todo \subseteq children
    /\ pc = "delay" => cur \in children /\ meta = JobOf[cur]

Stopped == \A p \in Alive : JobOf[p] \notin ArrJob /\ ~StartedInTime

\* Once the main thread goes on in time, the startup thread has nothing to start; and
\* what is stopped stays so, as the main thread is past the starts or sees shutdown.
QuietInv ==
    /\ budget["late"] <= MaxEvents["late"]
    /\ StartedInTime /\ pc \notin {"boot", "execed"} => Ready
    /\ pc \in {"checkpoint", "joining", "exited"} \/ restarter = "killed" => Stopped
    /\ restarter = "killed" => shutdown /\ pc \notin Starting
    /\ restarter \in {"signalled", "early"} => shutdown

Claims(p) == /\ p \in children
             /\ \/ phase[p] # "made" \/ pc = "boot"
                \/ pc = "start" /\ p \in todo

Queue == pending \cup retry
QueuedJobs == {JobOfSlot(s[1], s[2]) : s \in Queue}

\* A queued start is in one of the two lists; and where the lists are empty.
EmptyInv ==
    /\ pending \cap retry = {}
    /\ pc \in {"boot", "idle", "start"} => pending = {}
    /\ pc \notin {"retry", "stopping", "cleaning", "killing", "joining", "leaving", "exited",
               "aborted", "execed"} => retry = {}
    /\ pc \notin {"start", "stopping", "cleaning", "killing", "joining", "leaving", "exited",
               "aborted", "execed"} => failed = {}

\* The Arr object of a category has the loop of a job.
Wanted(j) == j \in ArrJob => j[2] \in RolesOf[managed[j[1]]]

\* A category has one managed Arr object; the threads work on managed ones, and
\* all jobs in hand are loops that these have.
ManagedInv ==
    /\ \A c \in Category : managed[c] = None \/ CatOf[managed[c]] = c
    /\ startup \cap Arr \subseteq ManagedArrs
    /\ arrs \subseteq ManagedArrs
    /\ \A p \in children : Wanted(JobOf[p])
    /\ \A j \in failed : Wanted(j)
    /\ \A s \in Queue : s[1] \in ManagedArrs /\ s[2] \in RolesOf[s[1]]

\* A job has one claim, and none while its start is queued, has failed or is still
\* to come; overlap records the one exception.
ClaimInv ==
    /\ \A p, q \in Proc : Claims(p) /\ Claims(q) /\ JobOf[p] = JobOf[q] /\ p # q
                          => JobOf[p] \in overlap
    /\ \A p \in Proc : Claims(p) /\ JobOf[p] \in QueuedJobs \cup failed => JobOf[p] \in overlap
    /\ \A p \in Proc, q \in startup \cap Qbit : Claims(p) => JobOf[p] # ManagerJob(q)
    /\ \A q \in startup \cap Qbit : ManagerJob(q) \notin failed
    /\ pc = "boot" => \A p \in Proc, a \in startup \cap Arr : Claims(p) => JobOf[p][1] # CatOf[a]
    /\ pc = "checkpoint" => \A p \in Proc : Claims(p) => JobOf[p] \notin ArrJob
    /\ pc = "respawn" => \A p \in Proc, a \in arrs : Claims(p) => JobOf[p][1] # CatOf[a]

Inv == TypeInv /\ TrackInv /\ QuietInv /\ EmptyInv /\ ManagedInv /\ ClaimInv

-----------------------------------------------------------------------------
(* Facts about the operators *)

\* The jobs of two slots agree exactly when category and loop do, and no slot has
\* the job of a category manager.
LEMMA JobFacts ==
  /\ \A a, b \in Arr, r, q \in Role :
       /\ JobOfSlot(a, r) \in ArrJob /\ JobOfSlot(a, r) \in Job
       /\ JobOfSlot(a, r)[1] = CatOf[a] /\ JobOfSlot(a, r)[2] = r
       /\ JobOfSlot(a, r) = JobOfSlot(b, q) => CatOf[a] = CatOf[b] /\ r = q
       /\ CatOf[a] = CatOf[b] => JobOfSlot(a, r) = JobOfSlot(b, r)
  /\ \A x \in Qbit : ManagerJob(x) \in Job /\ ManagerJob(x) \notin ArrJob
  /\ \A x, y \in Qbit : ManagerJob(x) = ManagerJob(y) => x = y
  <1>1. \A a \in Arr : CatOf[a] \in Category
    BY DEF Category
  <1> QED
    BY <1>1, SupervisorAssumption DEF JobOfSlot, ManagerJob, ArrJob, Job

\* A number of events is taken from its budget only.
LEMMA SpendFacts ==
  ASSUME TypeOK, NEW e \in Event \ {"any"}, NEW n \in Nat, Spend(e, n)
  PROVE  /\ budget' \in [Event -> Nat]
         /\ \A x \in Event : x \notin {e, "any"} => budget'[x] = budget[x]
         /\ budget'[e] = budget[e] - n
  BY DEF TypeOK, Spend, Event

\* What spawn_child_processes returns is free, and one object for each loop.
LEMMA SpawnedFacts ==
  ASSUME NEW a \in Arr, NEW f \in Spawned(a)
  PROVE  /\ RolesOf[a] \subseteq Role
         /\ \A r \in RolesOf[a] : f[r] \in Free /\ f[r] \in Proc /\ JobOf[f[r]] = JobOfSlot(a, r)
         /\ \A R \in SUBSET RolesOf[a] : /\ Image(f, R) \subseteq Free
                                         /\ Image(f, R) \subseteq Proc
  <1>1. RolesOf[a] \subseteq Role
    BY SupervisorAssumption
  <1>2. \A r \in RolesOf[a] : f[r] \in Free /\ JobOf[f[r]] = JobOfSlot(a, r)
    BY DEF Spawned
  <1>3. Free \subseteq Proc
    BY DEF Free
  <1> QED
    BY <1>1, <1>2, <1>3 DEF Image

\* The variables that the construction of process objects sets keep their types.
LEMMA ConstructType ==
  ASSUME TypeOK, NEW fresh, NEW up, Construct(fresh, up)
  PROVE  phase' \in [Proc -> Phase]
  BY DEF TypeOK, Construct, Phase

LEMMA FillType ==
  ASSUME TypeOK, NEW a \in Arr, NEW f \in Spawned(a), FillSlots(a, f)
  PROVE  slot' \in [Slot -> Proc \cup {None}]
  BY SpawnedFacts DEF TypeOK, FillSlots, Slot

LEMMA TrackType ==
  ASSUME TypeOK, NEW P \in SUBSET Proc, Track(P)
  PROVE  children' \subseteq Proc /\ registry' \in [Proc -> Job \cup {None}]
  BY SupervisorAssumption DEF TypeOK, Track

LEMMA UntrackType ==
  ASSUME TypeOK, NEW p, Untrack(p)
  PROVE  children' \subseteq Proc /\ registry' \in [Proc -> Job \cup {None}]
  BY DEF TypeOK, Untrack

LEMMA RolesCount ==
  ASSUME NEW a \in Arr, NEW R \in SUBSET RolesOf[a]
  PROVE  Cardinality(R) \in Nat
  <1>1. IsFiniteSet({"search", "torrent"})
    <2>1. IsFiniteSet({} \cup {"search"})
      BY FS_EmptySet, FS_AddElement
    <2>2. IsFiniteSet(({} \cup {"search"}) \cup {"torrent"})
      BY <2>1, FS_AddElement
    <2> QED
      BY <2>2, {"search", "torrent"} = ({} \cup {"search"}) \cup {"torrent"}
  <1>2. R \subseteq {"search", "torrent"}
    BY SupervisorAssumption DEF Role
  <1> QED
    BY <1>1, <1>2, FS_Subset, FS_CardinalityType

LEMMA EnqueueType ==
  ASSUME TypeOK, NEW a \in Arr, NEW R \in SUBSET Role
  PROVE  Enqueue(a, R) \subseteq Slot
  BY DEF TypeOK, Enqueue, Slot

-----------------------------------------------------------------------------
(* Types *)

LEMMA InitType == Init => TypeInv
  <1> SUFFICES ASSUME Init PROVE TypeInv
    OBVIOUS
  <1>1. startup \subseteq Arr \cup Qbit
    BY DEF Init, ManagedArrs
  <1>2. /\ phase \in [Proc -> Phase] /\ recent \in [Job -> 0..MaxRestarts]
        /\ managed \in [Category -> Arr \cup {None}] /\ budget \in [Event -> Nat]
    BY SupervisorAssumption DEF Init, Phase
  <1> QED
    BY <1>1, <1>2 DEF Init, TypeInv, TypeOK, PC

LEMMA StepType == TypeInv /\ [Next]_vars => TypeInv'
  <1> SUFFICES ASSUME TypeInv, [Next]_vars PROVE TypeInv'
    OBVIOUS
  <1> USE SupervisorAssumption DEF TypeInv, TypeOK, PC, Ended, Goto, Dead
  <1>1. ASSUME NEW a \in Arr, PrepareArr(a) PROVE TypeInv'
    <2>1. PICK f \in Spawned(a) : /\ FillSlots(a, f)
                                  /\ Construct(Image(f, RolesOf[a]), {})
                                  /\ Track(Image(f, RolesOf[a]))
      BY <1>1 DEF PrepareArr
    <2>2. /\ phase' \in [Proc -> Phase] /\ slot' \in [Slot -> Proc \cup {None}]
          /\ children' \subseteq Proc /\ registry' \in [Proc -> Job \cup {None}]
      BY <2>1, SpawnedFacts, ConstructType, FillType, TrackType
    <2>3. pc = "delay" => phase'[cur] = phase[cur]
      BY <2>1, SpawnedFacts DEF Construct, Free
    <2> QED
      BY <1>1, <2>2, <2>3 DEF PrepareArr, main
  <1>2. ASSUME NEW a \in Arr, SkipArr(a) PROVE TypeInv'
    BY <1>2, SpendFacts DEF SkipArr, main, tracked, Event
  <1>3. ASSUME NEW q \in Qbit, SpawnManager(q) PROVE TypeInv'
    <2>1. CASE \E p \in Free : /\ JobOf[p] = ManagerJob(q)
                               /\ Construct({p}, {p}) /\ Track({p}) /\ UNCHANGED budget
      <3>1. PICK p \in Free : Construct({p}, {p}) /\ Track({p}) /\ UNCHANGED budget
        BY <2>1
      <3>2. /\ phase' \in [Proc -> Phase] /\ children' \subseteq Proc
            /\ registry' \in [Proc -> Job \cup {None}]
        BY <3>1, ConstructType, TrackType DEF Free
      <3>3. pc = "delay" => phase'[cur] = phase[cur]
        BY <3>1 DEF Construct, Free
      <3> QED
        BY <1>3, <3>1, <3>2, <3>3 DEF SpawnManager, main
    <2>2. CASE Spend("start", 1) /\ UNCHANGED <<phase, tracked>>
      BY <1>3, <2>2, SpendFacts DEF SpawnManager, main, tracked, Event
    <2> QED
      BY <1>3, <2>1, <2>2 DEF SpawnManager
  <1>4. ASSUME NEW p \in Proc, NEW how \in {"clean", "crashed"}, WorkerExits(p, how) PROVE TypeInv'
    BY <1>4 DEF WorkerExits, main, tracked, Phase
  <1>5. ASSUME NEW p \in Proc, SignalRestart(p) PROVE TypeInv'
    BY <1>5, SpendFacts DEF SignalRestart, main, tracked, Event
  <1>6. ASSUME NEW j \in Job, Forget(j) PROVE TypeInv'
    BY <1>6 DEF Forget, main, tracked
  <1>7. CASE Begin
    BY <1>7, SpendFacts DEF Begin, main, tracked, Event
  <1>8. ASSUME NEW p \in Proc, SkipStarted(p) PROVE TypeInv'
    BY <1>8 DEF SkipStarted, main, tracked
  <1>9. ASSUME NEW p \in Proc, StartOne(p) PROVE TypeInv'
    BY <1>9 DEF StartOne, main, tracked, Phase
  <1>10. ASSUME NEW p \in Proc, StartOneFails(p) PROVE TypeInv'
    BY <1>10, SpendFacts, UntrackType DEF StartOneFails, Event
  <1>11. CASE QueueFailed
    BY <1>11 DEF QueueFailed, main, tracked, Slot
  <1>12. CASE LoopShutdown
    BY <1>12 DEF LoopShutdown, main, tracked
  <1>13. CASE StopAll
    BY <1>13 DEF StopAll, main, tracked, Phase
  <1>14. CASE Checkpoint
    BY <1>14 DEF Checkpoint, main, tracked, ManagedArrs
  <1>15. ASSUME NEW a \in Arr, Respawn(a) PROVE TypeInv'
    <2>1. PICK f \in Spawned(a), bad \in SUBSET RolesOf[a] :
            LET up == RolesOf[a] \ bad IN
            /\ Spend("start", Cardinality(bad))
            /\ FillSlots(a, f)
            /\ Construct(Image(f, bad), Image(f, up))
            /\ Track(Image(f, up))
            /\ pending' = Enqueue(a, bad)
            /\ overlap' = overlap \cup ({JobOfSlot(a, r) : r \in up} \cap PendingJobs)
      BY <1>15 DEF Respawn
    <2>2. /\ phase' \in [Proc -> Phase] /\ slot' \in [Slot -> Proc \cup {None}]
          /\ children' \subseteq Proc /\ registry' \in [Proc -> Job \cup {None}]
      BY <2>1, SpawnedFacts, ConstructType, FillType, TrackType
    <2>3. budget' \in [Event -> Nat]
      BY <2>1, SpendFacts, RolesCount DEF Event
    <2>4. pending' \subseteq Slot
      BY <2>1, EnqueueType, SpawnedFacts
    <2>5. overlap' \subseteq Job
      BY <2>1, JobFacts, SpawnedFacts
    <2> QED
      BY <1>15, <2>2, <2>3, <2>4, <2>5 DEF Respawn
  <1>16. ASSUME NEW a \in Arr, RespawnFails(a) PROVE TypeInv'
    BY <1>16, SpendFacts, EnqueueType DEF RespawnFails, tracked, Event
  <1>17. CASE Respawned
    BY <1>17 DEF Respawned, main, tracked
  <1>18. CASE Look
    BY <1>18 DEF Look, main, tracked
  <1>19. ASSUME NEW p \in Proc, ReapOther(p) PROVE TypeInv'
    BY <1>19 DEF ReapOther, main, tracked
  <1>20. ASSUME NEW p \in Proc, ReapDead(p) PROVE TypeInv'
    BY <1>20, UntrackType DEF ReapDead, main
  <1>21. ASSUME NEW p \in Proc, ReapCrashed(p) PROVE TypeInv'
    <2>1. /\ cur' = p /\ meta' = registry[p] /\ todo' = todo \ {p} /\ Restartable(p)
          /\ UNCHANGED <<phase, recent>>
      BY <1>21 DEF ReapCrashed
    <2>2. meta' # None => recent'[meta'] < MaxRestarts
      BY <2>1 DEF Restartable
    <2>3. cur' \in Proc /\ cur' \notin todo' /\ phase'[cur'] = "crashed"
      BY <2>1 DEF Restartable
    <2> QED
      BY <1>21, <2>1, <2>2, <2>3 DEF ReapCrashed, tracked
  <1>22. ASSUME NEW n \in Proc, Restart(n) PROVE TypeInv'
    <2>1. meta \in Job /\ recent[meta] < MaxRestarts /\ pc = "delay"
      BY <1>22 DEF Restart
    <2>2. recent' \in [Job -> 0..MaxRestarts]
      BY <1>22, <2>1 DEF Restart
    <2>3. /\ phase' \in [Proc -> Phase] /\ slot' \in [Slot -> Proc \cup {None}]
          /\ children' \subseteq Proc /\ registry' \in [Proc -> Job \cup {None}]
      BY <1>22, <2>1 DEF Restart, Phase
    <2> QED
      BY <1>22, <2>2, <2>3 DEF Restart
  <1>23. CASE GiveUp
    <2>1. children' \subseteq Proc /\ registry' \in [Proc -> Job \cup {None}]
      BY <1>23, UntrackType DEF GiveUp
    <2>2. /\ phase' \in [Proc -> Phase] /\ slot' \in [Slot -> Proc \cup {None}]
          /\ budget' \in [Event -> Nat]
      <3>1. CASE UNCHANGED <<slot, phase, budget>>
        BY <3>1
      <3>2. ASSUME Spend("restart", 1), NEW a, NEW n \in Free,
                   slot' = [slot EXCEPT ![<<a, meta[2]>>] = n], phase' = [phase EXCEPT ![n] = "made"]
            PROVE  /\ phase' \in [Proc -> Phase] /\ slot' \in [Slot -> Proc \cup {None}]
                   /\ budget' \in [Event -> Nat]
        BY <3>2, SpendFacts DEF Event, Free, Phase
      <3> QED
        BY <1>23, <3>1, <3>2 DEF GiveUp
    <2> QED
      BY <1>23, <2>1, <2>2 DEF GiveUp
  <1>24. CASE ReapDone
    BY <1>24 DEF ReapDone, main, tracked
  <1>25. ASSUME NEW a \in Arr, NEW r \in Role, RetryOne(a, r) PROVE TypeInv'
    <2>1. PICK f \in Spawned(a) :
            /\ FillSlots(a, f)
            /\ \/ /\ Construct(Image(f, RolesOf[a]), Image(f, {r} \cap RolesOf[a]))
                  /\ Track(Image(f, {r} \cap RolesOf[a]))
                  /\ UNCHANGED <<pending, budget>>
               \/ /\ Spend("start", 1)
                  /\ Construct(Image(f, RolesOf[a]), {})
                  /\ pending' = pending \cup {<<a, r>>}
                  /\ UNCHANGED tracked
      BY <1>25 DEF RetryOne
    <2>2. phase' \in [Proc -> Phase] /\ slot' \in [Slot -> Proc \cup {None}]
      BY <2>1, ConstructType, FillType
    <2>3. /\ children' \subseteq Proc /\ registry' \in [Proc -> Job \cup {None}]
          /\ budget' \in [Event -> Nat] /\ pending' \subseteq Slot
      <3>1. CASE Track(Image(f, {r} \cap RolesOf[a])) /\ UNCHANGED <<pending, budget>>
        BY <3>1, SpawnedFacts, TrackType
      <3>2. CASE Spend("start", 1) /\ pending' = pending \cup {<<a, r>>} /\ UNCHANGED tracked
        BY <3>2, SpendFacts DEF Event, Slot, tracked
      <3> QED
        BY <2>1, <3>1, <3>2
    <2> QED
      BY <1>25, <2>2, <2>3 DEF RetryOne
  <1>26. ASSUME NEW a \in Arr, NEW r \in Role, RetryFails(a, r) PROVE TypeInv'
    BY <1>26, SpendFacts DEF RetryFails, main, tracked, Event, Slot
  <1>27. CASE RetryDone
    BY <1>27 DEF RetryDone, main, tracked
  <1>28. CASE Rest
    BY <1>28 DEF Rest, main, tracked
  <1>29. CASE Terminated \/ Interrupted
    BY <1>29, SpendFacts DEF Terminated, Interrupted, main, tracked, Event
  <1>30. CASE Cleanup
    BY <1>30 DEF Cleanup, main, tracked, Phase, KillChildren
  <1>31. CASE Exit
    BY <1>31 DEF Exit, main, tracked
  <1>32. CASE RequestRestart
    BY <1>32, SpendFacts DEF RequestRestart, main, tracked, Event
  <1>33. CASE RestarterSignals
    BY <1>33 DEF RestarterSignals, main, tracked
  <1>34. CASE RestarterKills \/ RestarterExecs
    BY <1>34 DEF RestarterKills, RestarterExecs, main, tracked, Phase, KillChildren
  <1>35. CASE UNCHANGED vars
    BY <1>35 DEF vars, main, tracked
  <1> HIDE DEF TypeInv, TypeOK, PC, Ended, Goto, Dead
  <1> QED
    BY <1>1, <1>2, <1>3, <1>4, <1>5, <1>6, <1>7, <1>8, <1>9, <1>10, <1>11, <1>12, <1>13,
       <1>14, <1>15, <1>16, <1>17, <1>18, <1>19, <1>20, <1>21, <1>22, <1>23, <1>24, <1>25,
       <1>26, <1>27, <1>28, <1>29, <1>30, <1>31, <1>32, <1>33, <1>34, <1>35 DEF Next,
       Startup, MainLoop, Restarter, Workers

-----------------------------------------------------------------------------
(* The records *)

LEMMA StepTrack == TypeInv /\ TrackInv /\ [Next]_vars => TrackInv'
  <1> SUFFICES ASSUME TypeInv, TrackInv, [Next]_vars PROVE TrackInv'
    OBVIOUS
  <1> USE SupervisorAssumption DEF TypeInv, TypeOK, TrackInv, Goto, Dead, Alive
  <1>1. ASSUME NEW a \in Arr, PrepareArr(a) PROVE TrackInv'
    <2>1. PICK f \in Spawned(a) : /\ Construct(Image(f, RolesOf[a]), {})
                                  /\ Track(Image(f, RolesOf[a]))
      BY <1>1 DEF PrepareArr
    <2>2. Image(f, RolesOf[a]) \subseteq Proc
      BY SpawnedFacts
    <2>3. /\ UNCHANGED <<pc, todo, cur, meta>>
          /\ \A p \in Proc : phase'[p] = "alive" => phase[p] = "alive"
      BY <1>1, <2>1 DEF PrepareArr, main, Construct
    <2>4. children \subseteq children' /\ \A p \in children' : registry'[p] = JobOf[p]
      BY <2>1, <2>2 DEF Track
    <2> QED
      BY <2>3, <2>4
  <1>2. ASSUME NEW a \in Arr, SkipArr(a) PROVE TrackInv'
    BY <1>2 DEF SkipArr, main, tracked
  <1>3. ASSUME NEW q \in Qbit, SpawnManager(q) PROVE TrackInv'
    <2>1. CASE \E p \in Free : Construct({p}, {p}) /\ Track({p})
      BY <1>3, <2>1 DEF SpawnManager, main, Construct, Track, Free
    <2>2. CASE UNCHANGED <<phase, tracked>>
      BY <1>3, <2>2 DEF SpawnManager, main, tracked
    <2> QED
      BY <1>3, <2>1, <2>2 DEF SpawnManager
  <1>4. ASSUME NEW p \in Proc, NEW how \in {"clean", "crashed"}, WorkerExits(p, how) PROVE TrackInv'
    BY <1>4 DEF WorkerExits, main, tracked
  <1>5. ASSUME NEW p \in Proc, SignalRestart(p) PROVE TrackInv'
    BY <1>5 DEF SignalRestart, main, tracked
  <1>6. ASSUME NEW j \in Job, Forget(j) PROVE TrackInv'
    BY <1>6 DEF Forget, main, tracked
  <1>7. CASE Begin
    BY <1>7 DEF Begin, main, tracked
  <1>8. ASSUME NEW p \in Proc, SkipStarted(p) PROVE TrackInv'
    BY <1>8 DEF SkipStarted, main, tracked
  <1>9. ASSUME NEW p \in Proc, StartOne(p) PROVE TrackInv'
    BY <1>9 DEF StartOne, main, tracked
  <1>10. ASSUME NEW p \in Proc, StartOneFails(p) PROVE TrackInv'
    BY <1>10 DEF StartOneFails, Untrack
  <1>11. CASE QueueFailed
    BY <1>11 DEF QueueFailed, main, tracked
  <1>12. CASE LoopShutdown
    BY <1>12 DEF LoopShutdown, main, tracked
  <1>13. CASE StopAll
    BY <1>13 DEF StopAll, main, tracked
  <1>14. CASE Checkpoint
    BY <1>14 DEF Checkpoint, main, tracked
  <1>15. ASSUME NEW a \in Arr, Respawn(a) PROVE TrackInv'
    <2>1. PICK f \in Spawned(a), bad \in SUBSET RolesOf[a] :
            /\ Construct(Image(f, bad), Image(f, RolesOf[a] \ bad))
            /\ Track(Image(f, RolesOf[a] \ bad))
      BY <1>15 DEF Respawn
    <2>2. Image(f, RolesOf[a] \ bad) \subseteq Proc
      BY SpawnedFacts
    <2> QED
      BY <1>15, <2>1, <2>2 DEF Respawn, Construct, Track
  <1>16. ASSUME NEW a \in Arr, RespawnFails(a) PROVE TrackInv'
    BY <1>16 DEF RespawnFails, main, tracked
  <1>17. CASE Respawned
    BY <1>17 DEF Respawned, main, tracked
  <1>18. CASE Look
    BY <1>18 DEF Look, main, tracked
  <1>19. ASSUME NEW p \in Proc, ReapOther(p) PROVE TrackInv'
    BY <1>19 DEF ReapOther, main, tracked
  <1>20. ASSUME NEW p \in Proc, ReapDead(p) PROVE TrackInv'
    BY <1>20 DEF ReapDead, Untrack
  <1>21. ASSUME NEW p \in Proc, ReapCrashed(p) PROVE TrackInv'
    BY <1>21 DEF ReapCrashed, main, tracked
  <1>22. ASSUME NEW n \in Proc, Restart(n) PROVE TrackInv'
    <2>1. n # cur /\ pc = "delay" /\ cur \notin Alive /\ n \notin todo /\ n \in Proc
      BY <1>22 DEF Restart, Free
    <2> QED
      BY <1>22, <2>1 DEF Restart
  <1>23. CASE GiveUp
    <2>1. Alive' \subseteq Alive
      <3>1. CASE UNCHANGED phase
        BY <3>1
      <3>2. CASE \E n \in Free : phase' = [phase EXCEPT ![n] = "made"]
        BY <3>2 DEF Free
      <3> QED
        BY <1>23, <3>1, <3>2 DEF GiveUp
    <2>2. cur \notin Alive /\ pc = "delay" /\ cur \notin todo
      BY <1>23 DEF GiveUp
    <2> QED
      BY <1>23, <2>1, <2>2 DEF GiveUp, Untrack
  <1>24. CASE ReapDone
    BY <1>24 DEF ReapDone, main, tracked
  <1>25. ASSUME NEW a \in Arr, NEW r \in Role, RetryOne(a, r) PROVE TrackInv'
    <2>1. PICK f \in Spawned(a) :
            \/ /\ Construct(Image(f, RolesOf[a]), Image(f, {r} \cap RolesOf[a]))
               /\ Track(Image(f, {r} \cap RolesOf[a]))
            \/ /\ Construct(Image(f, RolesOf[a]), {})
               /\ UNCHANGED tracked
      BY <1>25 DEF RetryOne
    <2>2. Image(f, {r} \cap RolesOf[a]) \subseteq Proc
      BY SpawnedFacts
    <2>3. CASE /\ Construct(Image(f, RolesOf[a]), Image(f, {r} \cap RolesOf[a]))
               /\ Track(Image(f, {r} \cap RolesOf[a]))
      BY <1>25, <2>2, <2>3 DEF RetryOne, Construct, Track
    <2>4. CASE Construct(Image(f, RolesOf[a]), {}) /\ UNCHANGED tracked
      BY <1>25, <2>4 DEF RetryOne, Construct, tracked
    <2> QED
      BY <2>1, <2>3, <2>4
  <1>26. ASSUME NEW a \in Arr, NEW r \in Role, RetryFails(a, r) PROVE TrackInv'
    BY <1>26 DEF RetryFails, main, tracked
  <1>27. CASE RetryDone
    BY <1>27 DEF RetryDone, main, tracked
  <1>28. CASE Rest
    BY <1>28 DEF Rest, main, tracked
  <1>29. CASE Terminated \/ Interrupted
    BY <1>29 DEF Terminated, Interrupted, main, tracked
  <1>30. CASE Cleanup
    BY <1>30 DEF Cleanup, main, tracked, KillChildren
  <1>31. CASE Exit
    BY <1>31 DEF Exit, main, tracked
  <1>32. CASE RequestRestart
    BY <1>32 DEF RequestRestart, main, tracked
  <1>33. CASE RestarterSignals
    BY <1>33 DEF RestarterSignals, main, tracked
  <1>34. CASE RestarterKills \/ RestarterExecs
    BY <1>34 DEF RestarterKills, RestarterExecs, main, tracked, KillChildren
  <1>35. CASE UNCHANGED vars
    BY <1>35 DEF vars, main, tracked
  <1> HIDE DEF TypeInv, TypeOK, TrackInv, Goto, Dead, Alive
  <1> QED
    BY <1>1, <1>2, <1>3, <1>4, <1>5, <1>6, <1>7, <1>8, <1>9, <1>10, <1>11, <1>12, <1>13,
       <1>14, <1>15, <1>16, <1>17, <1>18, <1>19, <1>20, <1>21, <1>22, <1>23, <1>24, <1>25,
       <1>26, <1>27, <1>28, <1>29, <1>30, <1>31, <1>32, <1>33, <1>34, <1>35 DEF Next,
       Startup, MainLoop, Restarter, Workers

-----------------------------------------------------------------------------
(* The checkpoint and the exit *)

LEMMA StepQuiet == TypeInv /\ TrackInv /\ QuietInv /\ [Next]_vars => QuietInv'
  <1> SUFFICES ASSUME TypeInv, TrackInv, QuietInv, [Next]_vars PROVE QuietInv'
    OBVIOUS
  <1> USE SupervisorAssumption DEF TypeInv, TypeOK, QuietInv, Goto, Alive, StartedInTime, Stopped, Ready, Event, Over, Ended, Starting
  <1>1. ASSUME NEW a \in Arr, ~Over, PrepareArr(a) PROVE QuietInv'
    <2>1. \A p \in Proc : phase'[p] = "alive" => phase[p] = "alive"
      BY <1>1 DEF PrepareArr, Construct
    <2> QED
      BY <1>1, <2>1 DEF PrepareArr, main
  <1>2. ASSUME NEW a \in Arr, ~Over, SkipArr(a) PROVE QuietInv'
    BY <1>2, SpendFacts DEF SkipArr, main, tracked, Event
  <1>3. ASSUME NEW q \in Qbit, ~Over, SpawnManager(q) PROVE QuietInv'
    <2>1. budget'["late"] = budget["late"]
      BY <1>3, SpendFacts DEF SpawnManager, Event
    <2>2. ~(StartedInTime /\ pc \notin {"boot", "execed"})
      BY <1>3 DEF SpawnManager
    <2>3. ~(StartedInTime /\ pc # "boot")
      BY <1>3, <2>2
    <2>4. \A p \in Proc : phase'[p] = "alive" => phase[p] = "alive" \/ JobOf[p] \notin ArrJob
      <3>1. CASE UNCHANGED <<phase, tracked>>
        BY <3>1
      <3>2. ASSUME NEW n \in Free, JobOf[n] = ManagerJob(q), Construct({n}, {n})
            PROVE  \A p \in Proc : phase'[p] = "alive" => phase[p] = "alive" \/ JobOf[p] \notin ArrJob
        BY <3>2, JobFacts DEF Construct
      <3> QED
        BY <1>3, <3>1, <3>2 DEF SpawnManager
    <2> QED
      BY <1>3, <2>1, <2>3, <2>4 DEF SpawnManager, main
  <1>4. ASSUME NEW p \in Proc, NEW how \in {"clean", "crashed"}, WorkerExits(p, how) PROVE QuietInv'
    BY <1>4 DEF WorkerExits, main, tracked
  <1>5. ASSUME NEW p \in Proc, SignalRestart(p) PROVE QuietInv'
    BY <1>5, SpendFacts DEF SignalRestart, main, tracked, Event
  <1>6. ASSUME NEW j \in Job, Forget(j) PROVE QuietInv'
    BY <1>6 DEF Forget, main, tracked
  <1>7. CASE Begin
    BY <1>7, SpendFacts DEF Begin, main, tracked, Event
  <1>8. ASSUME NEW p \in Proc, SkipStarted(p) PROVE QuietInv'
    BY <1>8 DEF SkipStarted, main, tracked
  <1>9. ASSUME NEW p \in Proc, StartOne(p) PROVE QuietInv'
    BY <1>9 DEF StartOne, main, tracked
  <1>10. ASSUME NEW p \in Proc, StartOneFails(p) PROVE QuietInv'
    BY <1>10, SpendFacts DEF StartOneFails, main, tracked, Event
  <1>11. CASE QueueFailed
    BY <1>11 DEF QueueFailed, main, tracked
  <1>12. CASE LoopShutdown
    BY <1>12 DEF LoopShutdown, main, tracked
  <1>13. CASE StopAll
    BY <1>13 DEF StopAll, main, tracked, TrackInv
  <1>14. CASE Checkpoint
    BY <1>14 DEF Checkpoint, main, tracked
  <1>15. ASSUME NEW a \in Arr, Respawn(a) PROVE QuietInv'
    <2>1. PICK bad \in SUBSET RolesOf[a] : Spend("start", Cardinality(bad))
      BY <1>15 DEF Respawn
    <2>2. budget'["late"] = budget["late"]
      BY <2>1, SpendFacts, RolesCount DEF Event
    <2> QED
      BY <1>15, <2>2 DEF Respawn
  <1>16. ASSUME NEW a \in Arr, RespawnFails(a) PROVE QuietInv'
    BY <1>16, SpendFacts DEF RespawnFails, main, tracked, Event
  <1>17. CASE Respawned
    BY <1>17 DEF Respawned, main, tracked
  <1>18. CASE Look
    BY <1>18 DEF Look, main, tracked
  <1>19. ASSUME NEW p \in Proc, ReapOther(p) PROVE QuietInv'
    BY <1>19 DEF ReapOther, main, tracked
  <1>20. ASSUME NEW p \in Proc, ReapDead(p) PROVE QuietInv'
    BY <1>20 DEF ReapDead, main, tracked
  <1>21. ASSUME NEW p \in Proc, ReapCrashed(p) PROVE QuietInv'
    BY <1>21 DEF ReapCrashed, main, tracked
  <1>22. ASSUME NEW n \in Proc, Restart(n) PROVE QuietInv'
    BY <1>22 DEF Restart, main, tracked
  <1>23. CASE GiveUp
    <2>1. budget'["late"] = budget["late"]
      BY <1>23, SpendFacts DEF GiveUp, Event
    <2> QED
      BY <1>23, <2>1 DEF GiveUp
  <1>24. CASE ReapDone
    BY <1>24 DEF ReapDone, main, tracked
  <1>25. ASSUME NEW a \in Arr, NEW r \in Role, RetryOne(a, r) PROVE QuietInv'
    <2>1. budget'["late"] = budget["late"]
      BY <1>25, SpendFacts DEF RetryOne, Event
    <2> QED
      BY <1>25, <2>1 DEF RetryOne
  <1>26. ASSUME NEW a \in Arr, NEW r \in Role, RetryFails(a, r) PROVE QuietInv'
    BY <1>26, SpendFacts DEF RetryFails, main, tracked, Event
  <1>27. CASE RetryDone
    BY <1>27 DEF RetryDone, main, tracked
  <1>28. CASE Rest
    BY <1>28 DEF Rest, main, tracked
  <1>29. CASE Terminated \/ Interrupted
    BY <1>29, SpendFacts DEF Terminated, Interrupted, main, tracked, Event
  <1>30. CASE Cleanup
    BY <1>30 DEF Cleanup, main, tracked, TrackInv, KillChildren
  <1>31. CASE Exit
    BY <1>31 DEF Exit, main, tracked
  <1>32. CASE RequestRestart
    BY <1>32, SpendFacts DEF RequestRestart, main, tracked, Event
  <1>33. CASE RestarterSignals
    BY <1>33 DEF RestarterSignals, main, tracked
  <1>34. CASE RestarterKills \/ RestarterExecs
    BY <1>34 DEF RestarterKills, RestarterExecs, main, tracked, TrackInv, KillChildren
  <1>35. CASE UNCHANGED vars
    BY <1>35 DEF vars, main, tracked
  <1> HIDE DEF TypeInv, TypeOK, QuietInv, Goto, Alive, StartedInTime, Stopped, Ready, Event, Over, Ended, Starting
  <1> QED
    BY <1>1, <1>2, <1>3, <1>4, <1>5, <1>6, <1>7, <1>8, <1>9, <1>10, <1>11, <1>12, <1>13,
       <1>14, <1>15, <1>16, <1>17, <1>18, <1>19, <1>20, <1>21, <1>22, <1>23, <1>24, <1>25,
       <1>26, <1>27, <1>28, <1>29, <1>30, <1>31, <1>32, <1>33, <1>34, <1>35 DEF Next,
       Startup, MainLoop, Restarter, Workers

-----------------------------------------------------------------------------
(* Where the lists are empty *)

LEMMA StepEmpty == EmptyInv /\ [Next]_vars => EmptyInv'
  <1> SUFFICES ASSUME EmptyInv, [Next]_vars PROVE EmptyInv'
    OBVIOUS
  <1> USE DEF EmptyInv, Goto
  <1>1. ASSUME NEW a \in Arr, PrepareArr(a) PROVE EmptyInv'
    BY <1>1 DEF PrepareArr, main
  <1>2. ASSUME NEW a \in Arr, SkipArr(a) PROVE EmptyInv'
    BY <1>2 DEF SkipArr, main
  <1>3. ASSUME NEW q \in Qbit, SpawnManager(q) PROVE EmptyInv'
    BY <1>3 DEF SpawnManager, main
  <1>4. ASSUME NEW p \in Proc, NEW how \in {"clean", "crashed"}, WorkerExits(p, how) PROVE EmptyInv'
    BY <1>4 DEF WorkerExits, main
  <1>5. ASSUME NEW p \in Proc, SignalRestart(p) PROVE EmptyInv'
    BY <1>5 DEF SignalRestart, main
  <1>6. ASSUME NEW j \in Job, Forget(j) PROVE EmptyInv'
    BY <1>6 DEF Forget, main
  <1>7. CASE Begin
    BY <1>7 DEF Begin, main
  <1>8. ASSUME NEW p \in Proc, SkipStarted(p) PROVE EmptyInv'
    BY <1>8 DEF SkipStarted, main
  <1>9. ASSUME NEW p \in Proc, StartOne(p) PROVE EmptyInv'
    BY <1>9 DEF StartOne, main
  <1>10. ASSUME NEW p \in Proc, StartOneFails(p) PROVE EmptyInv'
    BY <1>10 DEF StartOneFails, main
  <1>11. CASE QueueFailed
    BY <1>11 DEF QueueFailed, main
  <1>12. CASE LoopShutdown
    BY <1>12 DEF LoopShutdown, main
  <1>13. CASE StopAll
    BY <1>13 DEF StopAll, main
  <1>14. CASE Checkpoint
    BY <1>14 DEF Checkpoint, main
  <1>15. ASSUME NEW a \in Arr, Respawn(a) PROVE EmptyInv'
    BY <1>15 DEF Respawn
  <1>16. ASSUME NEW a \in Arr, RespawnFails(a) PROVE EmptyInv'
    BY <1>16 DEF RespawnFails, main
  <1>17. CASE Respawned
    BY <1>17 DEF Respawned, main
  <1>18. CASE Look
    BY <1>18 DEF Look, main
  <1>19. ASSUME NEW p \in Proc, ReapOther(p) PROVE EmptyInv'
    BY <1>19 DEF ReapOther, main
  <1>20. ASSUME NEW p \in Proc, ReapDead(p) PROVE EmptyInv'
    BY <1>20 DEF ReapDead, main
  <1>21. ASSUME NEW p \in Proc, ReapCrashed(p) PROVE EmptyInv'
    BY <1>21 DEF ReapCrashed, main
  <1>22. ASSUME NEW n \in Proc, Restart(n) PROVE EmptyInv'
    BY <1>22 DEF Restart, main
  <1>23. CASE GiveUp
    BY <1>23 DEF GiveUp, main
  <1>24. CASE ReapDone
    BY <1>24 DEF ReapDone, main
  <1>25. ASSUME NEW a \in Arr, NEW r \in Role, RetryOne(a, r) PROVE EmptyInv'
    BY <1>25 DEF RetryOne, main
  <1>26. ASSUME NEW a \in Arr, NEW r \in Role, RetryFails(a, r) PROVE EmptyInv'
    BY <1>26 DEF RetryFails, main
  <1>27. CASE RetryDone
    BY <1>27 DEF RetryDone, main
  <1>28. CASE Rest
    BY <1>28 DEF Rest, main
  <1>29. CASE Terminated \/ Interrupted
    BY <1>29 DEF Terminated, Interrupted, main
  <1>30. CASE Cleanup
    BY <1>30 DEF Cleanup, main
  <1>31. CASE Exit
    BY <1>31 DEF Exit, main
  <1>32. CASE RequestRestart
    BY <1>32 DEF RequestRestart, main
  <1>33. CASE RestarterSignals
    BY <1>33 DEF RestarterSignals, main
  <1>34. CASE RestarterKills \/ RestarterExecs
    BY <1>34 DEF RestarterKills, RestarterExecs, main
  <1>35. CASE UNCHANGED vars
    BY <1>35 DEF vars, main
  <1> HIDE DEF EmptyInv, Goto
  <1> QED
    BY <1>1, <1>2, <1>3, <1>4, <1>5, <1>6, <1>7, <1>8, <1>9, <1>10, <1>11, <1>12, <1>13,
       <1>14, <1>15, <1>16, <1>17, <1>18, <1>19, <1>20, <1>21, <1>22, <1>23, <1>24, <1>25,
       <1>26, <1>27, <1>28, <1>29, <1>30, <1>31, <1>32, <1>33, <1>34, <1>35 DEF Next,
       Startup, MainLoop, Restarter, Workers

-----------------------------------------------------------------------------
(* The managed Arr objects *)

\* The loops spawned for a managed Arr object are wanted.
LEMMA SpawnedWanted ==
  ASSUME TypeOK, ManagedInv, NEW a \in ManagedArrs, NEW f \in Spawned(a)
  PROVE  \A R \in SUBSET RolesOf[a] : \A p \in Image(f, R) : Wanted(JobOf[p])
  <1>1. a \in Arr /\ managed[CatOf[a]] = a
    BY DEF ManagedArrs, ManagedInv, TypeOK
  <1>2. \A r \in RolesOf[a] : JobOf[f[r]] = <<CatOf[a], r>>
    BY <1>1, SpawnedFacts DEF JobOfSlot
  <1> QED
    BY <1>1, <1>2 DEF Image, Wanted

LEMMA StepManaged == TypeInv /\ TrackInv /\ ManagedInv /\ [Next]_vars => ManagedInv'
  <1> SUFFICES ASSUME TypeInv, TrackInv, ManagedInv, [Next]_vars PROVE ManagedInv'
    OBVIOUS
  <1>a. TypeOK
    BY DEF TypeInv
  <1> USE <1>a DEF ManagedInv, Wanted, ManagedArrs, Queue, Goto
  <1>1. ASSUME NEW a \in Arr, PrepareArr(a) PROVE ManagedInv'
    <2>1. PICK f \in Spawned(a) : Track(Image(f, RolesOf[a]))
      BY <1>1 DEF PrepareArr
    <2>2. \A p \in children' : Wanted(JobOf[p])
      BY <1>1, <2>1, SpawnedWanted DEF PrepareArr, Track
    <2> QED
      BY <1>1, <2>2 DEF PrepareArr, main
  <1>2. ASSUME NEW a \in Arr, SkipArr(a) PROVE ManagedInv'
    BY <1>2 DEF SkipArr, main, tracked
  <1>3. ASSUME NEW q \in Qbit, SpawnManager(q) PROVE ManagedInv'
    <2>1. \A p \in children' : Wanted(JobOf[p])
      <3>1. CASE UNCHANGED tracked
        BY <1>3, <3>1 DEF SpawnManager, tracked
      <3>2. ASSUME NEW m \in Free, JobOf[m] = ManagerJob(q), Track({m})
            PROVE  \A p \in children' : Wanted(JobOf[p])
        BY <3>2, JobFacts DEF Track
      <3> QED
        BY <1>3, <3>1, <3>2 DEF SpawnManager, tracked
    <2> QED
      BY <1>3, <2>1 DEF SpawnManager, main
  <1>4. ASSUME NEW p \in Proc, NEW how \in {"clean", "crashed"}, WorkerExits(p, how) PROVE ManagedInv'
    BY <1>4 DEF WorkerExits, main, tracked
  <1>5. ASSUME NEW p \in Proc, SignalRestart(p) PROVE ManagedInv'
    BY <1>5 DEF SignalRestart, main, tracked
  <1>6. ASSUME NEW j \in Job, Forget(j) PROVE ManagedInv'
    BY <1>6 DEF Forget, main, tracked
  <1>7. CASE Begin
    BY <1>7 DEF Begin, main, tracked
  <1>8. ASSUME NEW p \in Proc, SkipStarted(p) PROVE ManagedInv'
    BY <1>8 DEF SkipStarted, main, tracked
  <1>9. ASSUME NEW p \in Proc, StartOne(p) PROVE ManagedInv'
    BY <1>9 DEF StartOne, main, tracked
  <1>10. ASSUME NEW p \in Proc, StartOneFails(p) PROVE ManagedInv'
    <2>1. children' \subseteq children /\ failed' \subseteq failed \cup {JobOf[p]} /\ p \in children
      BY <1>10 DEF StartOneFails, Untrack, TrackInv
    <2>2. UNCHANGED <<startup, managed, arrs, pending, retry>>
      BY <1>10 DEF StartOneFails
    <2> QED
      BY <2>1, <2>2
  <1>11. CASE QueueFailed
    <2>1. ASSUME NEW s \in Slot, managed[CatOf[s[1]]] = s[1], JobOfSlot(s[1], s[2]) \in failed
          PROVE  s[1] \in ManagedArrs /\ s[2] \in RolesOf[s[1]]
      <3>1. s[1] \in Arr /\ s[2] \in Role
        BY DEF Slot
      <3>2. CatOf[s[1]] \in Category
        BY <3>1 DEF Category
      <3>3. s[1] # None
        BY <3>1, SupervisorAssumption
      <3> QED
        BY <2>1, <3>1, <3>2, <3>3, JobFacts
    <2> QED
      BY <1>11, <2>1 DEF QueueFailed, main, tracked
  <1>12. CASE LoopShutdown
    BY <1>12 DEF LoopShutdown, main, tracked
  <1>13. CASE StopAll
    BY <1>13 DEF StopAll, main, tracked
  <1>14. CASE Checkpoint
    BY <1>14 DEF Checkpoint, main, tracked
  <1>15. ASSUME NEW a \in Arr, Respawn(a) PROVE ManagedInv'
    <2>1. PICK f \in Spawned(a), bad \in SUBSET RolesOf[a] :
            /\ Track(Image(f, RolesOf[a] \ bad))
            /\ pending' = Enqueue(a, bad)
      BY <1>15 DEF Respawn
    <2>2. \A p \in children' : Wanted(JobOf[p])
      BY <1>15, <2>1, SpawnedWanted DEF Respawn, Track
    <2>3. \A s \in pending' : s[1] \in ManagedArrs /\ s[2] \in RolesOf[s[1]]
      BY <1>15, <2>1 DEF Respawn, Enqueue
    <2> QED
      BY <1>15, <2>2, <2>3 DEF Respawn
  <1>16. ASSUME NEW a \in Arr, RespawnFails(a) PROVE ManagedInv'
    BY <1>16 DEF RespawnFails, tracked, Enqueue
  <1>17. CASE Respawned
    BY <1>17 DEF Respawned, main, tracked
  <1>18. CASE Look
    BY <1>18 DEF Look, main, tracked
  <1>19. ASSUME NEW p \in Proc, ReapOther(p) PROVE ManagedInv'
    BY <1>19 DEF ReapOther, main, tracked
  <1>20. ASSUME NEW p \in Proc, ReapDead(p) PROVE ManagedInv'
    BY <1>20 DEF ReapDead, Untrack, TrackInv, TypeInv, TypeOK
  <1>21. ASSUME NEW p \in Proc, ReapCrashed(p) PROVE ManagedInv'
    BY <1>21 DEF ReapCrashed, main, tracked
  <1>22. ASSUME NEW n \in Proc, Restart(n) PROVE ManagedInv'
    BY <1>22 DEF Restart, TrackInv
  <1>23. CASE GiveUp
    BY <1>23 DEF GiveUp, Untrack, TrackInv, TypeInv, TypeOK
  <1>24. CASE ReapDone
    BY <1>24 DEF ReapDone, main, tracked
  <1>25. ASSUME NEW a \in Arr, NEW r \in Role, RetryOne(a, r) PROVE ManagedInv'
    <2>1. a \in ManagedArrs /\ r \in RolesOf[a]
      BY <1>25 DEF RetryOne
    <2>2. PICK f \in Spawned(a) : Track(Image(f, {r} \cap RolesOf[a])) \/ UNCHANGED tracked
      BY <1>25 DEF RetryOne
    <2>3. \A p \in children' : Wanted(JobOf[p])
      BY <2>1, <2>2, SpawnedWanted DEF Track, tracked
    <2>4. \A s \in Queue' : s \in Queue
      BY <1>25 DEF RetryOne
    <2> QED
      BY <1>25, <2>3, <2>4 DEF RetryOne
  <1>26. ASSUME NEW a \in Arr, NEW r \in Role, RetryFails(a, r) PROVE ManagedInv'
    BY <1>26 DEF RetryFails, main, tracked
  <1>27. CASE RetryDone
    BY <1>27 DEF RetryDone, main, tracked
  <1>28. CASE Rest
    BY <1>28 DEF Rest, main, tracked
  <1>29. CASE Terminated \/ Interrupted
    BY <1>29 DEF Terminated, Interrupted, main, tracked
  <1>30. CASE Cleanup
    BY <1>30 DEF Cleanup, main, tracked
  <1>31. CASE Exit
    BY <1>31 DEF Exit, main, tracked
  <1>32. CASE RequestRestart
    BY <1>32 DEF RequestRestart, main, tracked
  <1>33. CASE RestarterSignals
    BY <1>33 DEF RestarterSignals, main, tracked
  <1>34. CASE RestarterKills \/ RestarterExecs
    BY <1>34 DEF RestarterKills, RestarterExecs, main, tracked
  <1>35. CASE UNCHANGED vars
    BY <1>35 DEF vars, main, tracked
  <1> HIDE DEF ManagedInv, Wanted, ManagedArrs, Queue, Goto
  <1> QED
    BY <1>1, <1>2, <1>3, <1>4, <1>5, <1>6, <1>7, <1>8, <1>9, <1>10, <1>11, <1>12, <1>13,
       <1>14, <1>15, <1>16, <1>17, <1>18, <1>19, <1>20, <1>21, <1>22, <1>23, <1>24, <1>25,
       <1>26, <1>27, <1>28, <1>29, <1>30, <1>31, <1>32, <1>33, <1>34, <1>35 DEF Next,
       Startup, MainLoop, Restarter, Workers

-----------------------------------------------------------------------------
(* The claims *)

\* A category has at most one managed Arr object.
LEMMA OneArrPerCategory ==
  ASSUME TypeOK, ManagedInv, NEW a \in ManagedArrs, NEW b \in ManagedArrs, CatOf[a] = CatOf[b]
  PROVE  a = b
  <1>1. PICK c, d \in Category : managed[c] = a /\ managed[d] = b /\ a # None /\ b # None
    BY DEF ManagedArrs
  <1> QED
    BY <1>1 DEF ManagedInv

\* The processes spawned for an Arr object are free and do its jobs, one each.
LEMMA SpawnedJobs ==
  ASSUME NEW a \in Arr, NEW f \in Spawned(a), NEW R \in SUBSET RolesOf[a]
  PROVE  /\ Image(f, R) \subseteq Free /\ Image(f, R) \subseteq Proc
         /\ \A p \in Image(f, R) : /\ JobOf[p] \in ArrJob /\ JobOf[p][1] = CatOf[a]
                                   /\ \E r \in R : JobOf[p] = JobOfSlot(a, r)
         /\ \A p, q \in Image(f, R) : JobOf[p] = JobOf[q] => p = q
  <1>1. \A r \in R : JobOf[f[r]] = JobOfSlot(a, r) /\ r \in Role
    BY SpawnedFacts
  <1>2. \A p \in Image(f, R) : \E r \in R : p = f[r]
    BY DEF Image
  <1>3. \A p \in Image(f, R) : /\ JobOf[p] \in ArrJob /\ JobOf[p][1] = CatOf[a]
                               /\ \E r \in R : JobOf[p] = JobOfSlot(a, r)
    BY <1>1, <1>2, JobFacts
  <1>4. \A p, q \in Image(f, R) : JobOf[p] = JobOf[q] => p = q
    BY <1>1, <1>2, JobFacts
  <1> QED
    BY <1>3, <1>4, SpawnedFacts

\* A step that adds no claim and nothing to do keeps the claims apart.
LEMMA FewerClaims ==
  ASSUME ClaimInv, \A p \in Proc : Claims(p)' => Claims(p),
         Queue' \subseteq Queue, failed' \subseteq failed, overlap \subseteq overlap',
         startup' \subseteq startup,
         pc' = "boot" => pc = "boot", pc' = "checkpoint" => pc = "checkpoint",
         pc' = "respawn" => pc = "respawn" /\ arrs' \subseteq arrs
  PROVE  ClaimInv'
  <1>1. QueuedJobs' \subseteq QueuedJobs
    BY DEF QueuedJobs
  <1> QED
    BY <1>1 DEF ClaimInv

LEMMA StepClaim ==
  TypeInv /\ TrackInv /\ EmptyInv /\ ManagedInv /\ ClaimInv /\ [Next]_vars => ClaimInv'
  <1> SUFFICES ASSUME TypeInv, TrackInv, EmptyInv, ManagedInv, ClaimInv, [Next]_vars
               PROVE  ClaimInv'
    OBVIOUS
  <1>a. TypeOK /\ (pc = "delay" => cur \in Proc /\ Dead(cur))
    BY DEF TypeInv
  <1> USE <1>a DEF ClaimInv, Claims, Queue, QueuedJobs, Goto, Dead
  <1>1. ASSUME NEW a \in Arr, PrepareArr(a) PROVE ClaimInv'
    <2>1. PICK f \in Spawned(a) : /\ Construct(Image(f, RolesOf[a]), {})
                                  /\ Track(Image(f, RolesOf[a]))
      BY <1>1 DEF PrepareArr
    <2> DEFINE New == Image(f, RolesOf[a])
    <2>2. /\ New \subseteq Proc /\ New \cap children = {} /\ New \cap todo = {}
          /\ \A p \in New : JobOf[p] \in ArrJob /\ JobOf[p][1] = CatOf[a]
          /\ \A p, q \in New : JobOf[p] = JobOf[q] => p = q
      BY SpawnedJobs DEF Free
    <2>3. /\ children' = children \cup New
          /\ \A p \in Proc : phase'[p] = IF p \in New THEN "made" ELSE phase[p]
          /\ UNCHANGED <<pending, retry, failed, overlap, pc, todo, arrs, managed>>
          /\ startup' = startup \ {a} /\ a \in startup
      BY <1>1, <2>1 DEF PrepareArr, main, Construct, Track
    <2>4. \A p \in Proc : Claims(p)' => Claims(p) \/ (p \in New /\ pc = "boot")
      BY <2>2, <2>3
    <2>5. CASE pc # "boot"
      BY <2>3, <2>4, <2>5, FewerClaims
    <2>6. CASE pc = "boot"
      <3>1. QueuedJobs = {} /\ failed = {}
        BY <2>6 DEF EmptyInv
      <3>2. \A p \in Proc : Claims(p) => JobOf[p][1] # CatOf[a]
        BY <2>3, <2>6
      <3>3. \A p, q \in Proc : Claims(p)' /\ Claims(q)' /\ JobOf[p] = JobOf[q] /\ p # q
                               => JobOf[p] \in overlap'
        BY <2>2, <2>3, <2>4, <3>2
      <3>4. QueuedJobs' = {} /\ failed' = {}
        BY <2>3, <3>1
      <3>5. \A p \in Proc, q \in startup' \cap Qbit : Claims(p)' => JobOf[p] # ManagerJob(q)
        BY <2>2, <2>3, <2>4, JobFacts
      <3>6. \A p \in Proc, b \in startup' \cap Arr : Claims(p)' => JobOf[p][1] # CatOf[b]
        <4>1. \A b \in startup' \cap Arr : CatOf[b] # CatOf[a]
          BY <2>3, OneArrPerCategory DEF ManagedInv
        <4> QED
          BY <2>2, <2>3, <2>4, <2>6, <4>1
      <3> QED
        BY <2>3, <2>6, <3>3, <3>4, <3>5, <3>6
    <2> QED
      BY <2>5, <2>6
  <1>2. ASSUME NEW a \in Arr, SkipArr(a) PROVE ClaimInv'
    BY <1>2, FewerClaims DEF SkipArr, main, tracked
  <1>3. ASSUME NEW q \in Qbit, SpawnManager(q) PROVE ClaimInv'
    <2>0. UNCHANGED main /\ UNCHANGED <<pending, overlap>> /\ startup' = startup \ {q} /\ q \in startup
      BY <1>3 DEF SpawnManager
    <2>1. CASE UNCHANGED <<phase, tracked>>
      BY <2>0, <2>1, FewerClaims DEF main, tracked
    <2>2. ASSUME NEW m \in Free, JobOf[m] = ManagerJob(q), Construct({m}, {m}), Track({m})
          PROVE  ClaimInv'
      <3>1. \A p \in Proc : Claims(p)' => Claims(p) \/ p = m
        BY <2>0, <2>2 DEF main, Construct, Track
      <3>2. ManagerJob(q) \notin QueuedJobs \cup failed /\ ManagerJob(q) \notin ArrJob
        BY <2>0, JobFacts DEF TypeOK, Slot
      <3>3. ManagerJob(q)[1] = q /\ q \notin Category
        BY SupervisorAssumption DEF ManagerJob
      <3>4. /\ \A p \in Proc : Claims(p) => JobOf[p] # ManagerJob(q)
            /\ \A x \in (startup \ {q}) \cap Qbit : ManagerJob(x) # ManagerJob(q)
            /\ \A b \in Arr : CatOf[b] # q
        BY <2>0, <3>3, JobFacts DEF Category
      <3>5. pc \in {"boot", "respawn", "checkpoint"} \/ pc \notin {"boot", "respawn", "checkpoint"}
        OBVIOUS
      <3> QED
        BY <2>0, <2>2, <3>1, <3>2, <3>3, <3>4 DEF main, TypeOK
    <2> QED
      BY <1>3, <2>1, <2>2 DEF SpawnManager
  <1>4. ASSUME NEW p \in Proc, NEW how \in {"clean", "crashed"}, WorkerExits(p, how) PROVE ClaimInv'
    BY <1>4, FewerClaims DEF WorkerExits, main, tracked
  <1>5. ASSUME NEW p \in Proc, SignalRestart(p) PROVE ClaimInv'
    BY <1>5, FewerClaims DEF SignalRestart, main, tracked
  <1>6. ASSUME NEW j \in Job, Forget(j) PROVE ClaimInv'
    BY <1>6, FewerClaims DEF Forget, main, tracked
  <1>7. CASE Begin
    BY <1>7, FewerClaims DEF Begin, main, tracked
  <1>8. ASSUME NEW p \in Proc, SkipStarted(p) PROVE ClaimInv'
    BY <1>8, FewerClaims DEF SkipStarted, main, tracked
  <1>9. ASSUME NEW p \in Proc, StartOne(p) PROVE ClaimInv'
    BY <1>9, FewerClaims DEF StartOne, main, tracked
  <1>10. ASSUME NEW p \in Proc, StartOneFails(p) PROVE ClaimInv'
    <2>1. /\ pc = "start" /\ p \in todo /\ p \in children /\ registry[p] = JobOf[p]
          /\ children' = children \ {p} /\ todo' = todo \ {p} /\ failed' \subseteq failed \cup {JobOf[p]}
          /\ UNCHANGED <<phase, pending, retry, startup, overlap, pc, arrs>>
      BY <1>10 DEF StartOneFails, Untrack, TrackInv
    <2>2. Claims(p) /\ \A q \in Proc : Claims(q)' => Claims(q) /\ q # p
      BY <2>1
    <2> QED
      BY <2>1, <2>2
  <1>11. CASE QueueFailed
    <2>1. /\ pc = "start" /\ pc' = "loop" /\ todo = {} /\ failed' = {} /\ retry = {} /\ pending = {}
          /\ UNCHANGED <<phase, children, todo, retry, startup, overlap, arrs>>
          /\ \A s \in pending' : JobOfSlot(s[1], s[2]) \in failed
      BY <1>11 DEF QueueFailed, tracked, EmptyInv
    <2>2. QueuedJobs' \subseteq failed
      BY <2>1
    <2> QED
      BY <2>1, <2>2
  <1>12. CASE LoopShutdown
    BY <1>12, FewerClaims DEF LoopShutdown, main, tracked
  <1>13. CASE StopAll
    <2>1. \A p \in Proc : ~Claims(p)'
      BY <1>13 DEF StopAll
    <2> QED
      BY <1>13, <2>1 DEF StopAll
  <1>14. CASE Checkpoint
    <2>1. \A p \in Proc, a \in Arr : JobOf[p] \notin ArrJob => JobOf[p][1] # CatOf[a]
      BY SupervisorAssumption DEF Job, ManagerJob, Category
    <2>2. ManagedArrs \subseteq Arr
      BY DEF ManagedArrs, TypeOK
    <2> QED
      BY <1>14, <2>1, <2>2 DEF Checkpoint, tracked
  <1>15. ASSUME NEW a \in Arr, Respawn(a) PROVE ClaimInv'
    <2>1. PICK f \in Spawned(a), bad \in SUBSET RolesOf[a] :
            LET up == RolesOf[a] \ bad IN
            /\ Construct(Image(f, bad), Image(f, up))
            /\ Track(Image(f, up))
            /\ pending' = Enqueue(a, bad)
            /\ overlap' = overlap \cup ({JobOfSlot(a, r) : r \in up} \cap PendingJobs)
      BY <1>15 DEF Respawn
    <2> DEFINE New == Image(f, RolesOf[a] \ bad)
    <2>2. /\ \A p \in New : /\ JobOf[p] \in ArrJob /\ JobOf[p][1] = CatOf[a]
                            /\ \E r \in RolesOf[a] \ bad : JobOf[p] = JobOfSlot(a, r)
          /\ \A p, q \in New : JobOf[p] = JobOf[q] => p = q
      BY SpawnedJobs
    <2>3. /\ pc = "respawn" /\ a \in arrs /\ retry = {} /\ failed = {}
          /\ arrs' = arrs \ {a} /\ arrs \subseteq Arr
          /\ UNCHANGED <<retry, failed, pc, startup>>
          /\ overlap \subseteq overlap'
      BY <1>15, <2>1 DEF Respawn, EmptyInv, TypeOK
    <2>4. \A p \in Proc : Claims(p)' => Claims(p) \/ p \in New
      <3>1. \A p \in children : p \notin Image(f, bad) /\ p \notin New
        BY SpawnedJobs DEF Free
      <3> QED
        BY <2>1, <2>3, <3>1 DEF Construct, Track
    <2>5. \A p \in Proc : Claims(p) => JobOf[p][1] # CatOf[a]
      BY <2>3
    <2>6. \A j \in QueuedJobs' : j \in PendingJobs \/ \E r \in bad : j = JobOfSlot(a, r)
      BY <2>1, <2>3 DEF Enqueue, PendingJobs
    <2>7. PendingJobs \subseteq QueuedJobs
      BY DEF PendingJobs
    <2>8. \A p \in New : JobOf[p] \in QueuedJobs' => JobOf[p] \in overlap'
      <3> SUFFICES ASSUME NEW p \in New, JobOf[p] \in QueuedJobs' PROVE JobOf[p] \in overlap'
        OBVIOUS
      <3>1. PICK r \in RolesOf[a] \ bad : JobOf[p] = JobOfSlot(a, r)
        BY <2>2
      <3>2. JobOf[p] \in PendingJobs
        BY <2>3, <2>6, <3>1, JobFacts, SpawnedFacts
      <3> QED
        BY <2>1, <3>1, <3>2
    <2>9. \A p \in Proc : Claims(p) /\ JobOf[p] \in QueuedJobs' => JobOf[p] \in overlap'
      <3> SUFFICES ASSUME NEW p \in Proc, Claims(p), JobOf[p] \in QueuedJobs' PROVE JobOf[p] \in overlap'
        OBVIOUS
      <3>1. JobOf[p] \in PendingJobs
        BY <2>3, <2>5, <2>6, JobFacts, SpawnedFacts
      <3> QED
        BY <2>3, <2>7, <3>1
    <2>10. \A b \in arrs' : CatOf[b] # CatOf[a]
      BY <2>3, OneArrPerCategory DEF ManagedInv
    <2>11. \A p, q \in Proc : Claims(p)' /\ Claims(q)' /\ JobOf[p] = JobOf[q] /\ p # q
                              => JobOf[p] \in overlap'
      BY <2>2, <2>3, <2>4, <2>5
    <2>12. \A p \in Proc, q \in startup' \cap Qbit : Claims(p)' => JobOf[p] # ManagerJob(q)
      <3>1. \A p \in New, q \in Qbit : JobOf[p] # ManagerJob(q)
        BY <2>2, JobFacts
      <3>2. \A p \in Proc, q \in startup \cap Qbit : Claims(p) => JobOf[p] # ManagerJob(q)
        OBVIOUS
      <3>3. startup' = startup
        BY <2>3
      <3> HIDE DEF Claims, ClaimInv, New
      <3> QED
        BY <2>4, <3>1, <3>2, <3>3
    <2>13. \A p \in Proc, b \in arrs' : Claims(p)' => JobOf[p][1] # CatOf[b]
      BY <2>2, <2>3, <2>4, <2>10
    <2>14. \A p \in Proc : Claims(p)' /\ JobOf[p] \in QueuedJobs' => JobOf[p] \in overlap'
      BY <2>4, <2>8, <2>9
    <2> QED
      BY <2>3, <2>11, <2>12, <2>13, <2>14
  <1>16. ASSUME NEW a \in Arr, RespawnFails(a) PROVE ClaimInv'
    <2>1. /\ pc = "respawn" /\ a \in arrs /\ retry = {} /\ failed = {}
          /\ pending' = Enqueue(a, RolesOf[a])
          /\ UNCHANGED <<phase, tracked, retry, failed, pc, todo, startup, overlap>>
          /\ arrs' \subseteq arrs
      BY <1>16 DEF RespawnFails, EmptyInv
    <2>2. \A j \in QueuedJobs' : j \in QueuedJobs \/ \E r \in RolesOf[a] : j = JobOfSlot(a, r)
      BY <2>1 DEF Enqueue
    <2>3. \A p \in Proc : Claims(p)' => Claims(p)
      BY <2>1 DEF tracked
    <2>4. \A r \in RolesOf[a] : JobOfSlot(a, r)[1] = CatOf[a]
      BY DEF JobOfSlot
    <2>5. \A p \in Proc : Claims(p) => JobOf[p][1] # CatOf[a]
      BY <2>1
    <2>6. \A p \in Proc : Claims(p) /\ JobOf[p] \in QueuedJobs' => JobOf[p] \in overlap
      BY <2>2, <2>4, <2>5
    <2> QED
      BY <2>1, <2>3, <2>6
  <1>17. CASE Respawned
    BY <1>17, FewerClaims DEF Respawned, main, tracked
  <1>18. CASE Look
    BY <1>18, FewerClaims DEF Look, main, tracked
  <1>19. ASSUME NEW p \in Proc, ReapOther(p) PROVE ClaimInv'
    BY <1>19, FewerClaims DEF ReapOther, main, tracked
  <1>20. ASSUME NEW p \in Proc, ReapDead(p) PROVE ClaimInv'
    BY <1>20, FewerClaims DEF ReapDead, Untrack, main
  <1>21. ASSUME NEW p \in Proc, ReapCrashed(p) PROVE ClaimInv'
    BY <1>21, FewerClaims DEF ReapCrashed, main, tracked
  <1>22. ASSUME NEW n \in Proc, Restart(n) PROVE ClaimInv'
    <2>1. /\ pc = "delay" /\ pc' = "reap" /\ n # cur /\ JobOf[n] = JobOf[cur] /\ Claims(cur) /\ cur \in Proc
          /\ UNCHANGED <<pending, retry, failed, startup, overlap, arrs>>
      BY <1>22 DEF Restart, Free, TrackInv
    <2>2. \A p \in Proc : Claims(p)' => (Claims(p) /\ p # cur) \/ p = n
      BY <1>22, <2>1 DEF Restart, TypeOK
    <2> QED
      BY <2>1, <2>2
  <1>23. CASE GiveUp
    <2>1. \A p \in Proc : Claims(p)' => Claims(p)
      <3>1. children' \subseteq children /\ pc = "delay" /\ pc' = "reap"
        BY <1>23 DEF GiveUp, Untrack
      <3>2. phase' = phase \/ \E n \in Proc \ children : phase' = [phase EXCEPT ![n] = "made"]
        BY <1>23 DEF GiveUp, Free
      <3>3. \A p \in children' : phase'[p] = phase[p]
        BY <3>1, <3>2 DEF TypeOK
      <3> QED
        BY <3>1, <3>3
    <2> QED
      BY <1>23, <2>1, FewerClaims DEF GiveUp
  <1>24. CASE ReapDone
    <2>1. retry = {}
      BY <1>24 DEF ReapDone, EmptyInv
    <2>2. Queue' \subseteq Queue
      BY <1>24, <2>1 DEF ReapDone
    <2> QED
      BY <1>24, <2>2, FewerClaims DEF ReapDone, tracked
  <1>25. ASSUME NEW a \in Arr, NEW r \in Role, RetryOne(a, r) PROVE ClaimInv'
    <2>1. PICK f \in Spawned(a) :
            \/ /\ Construct(Image(f, RolesOf[a]), Image(f, {r} \cap RolesOf[a]))
               /\ Track(Image(f, {r} \cap RolesOf[a]))
               /\ UNCHANGED pending
            \/ /\ Construct(Image(f, RolesOf[a]), {})
               /\ pending' = pending \cup {<<a, r>>}
               /\ UNCHANGED tracked
      BY <1>25 DEF RetryOne
    <2>2. /\ pc = "retry" /\ <<a, r>> \in retry /\ retry' = retry \ {<<a, r>>} /\ failed = {}
          /\ UNCHANGED <<failed, pc, todo, startup, overlap, arrs>>
      BY <1>25 DEF RetryOne, EmptyInv
    <2>3. \A p \in children : p \notin Image(f, RolesOf[a])
      BY SpawnedJobs DEF Free
    <2>4. CASE Construct(Image(f, RolesOf[a]), {}) /\ pending' = pending \cup {<<a, r>>} /\ UNCHANGED tracked
      <3>1. \A p \in Proc : Claims(p)' => Claims(p)
        BY <2>2, <2>3, <2>4 DEF Construct, tracked
      <3>2. Queue' \subseteq Queue
        BY <2>2, <2>4
      <3> QED
        BY <2>2, <3>1, <3>2, FewerClaims
    <2>5. CASE /\ Construct(Image(f, RolesOf[a]), Image(f, {r} \cap RolesOf[a]))
               /\ Track(Image(f, {r} \cap RolesOf[a])) /\ UNCHANGED pending
      <3> DEFINE job == JobOfSlot(a, r)
      <3>1. \A p \in Proc : Claims(p)' => Claims(p) \/ p \in Image(f, {r} \cap RolesOf[a])
        BY <2>2, <2>3, <2>5 DEF Construct, Track
      <3>2. /\ \A p \in Image(f, {r} \cap RolesOf[a]) : JobOf[p] = job
            /\ \A p, q \in Image(f, {r} \cap RolesOf[a]) : p = q
        BY SpawnedFacts DEF Image
      <3>3. job \in QueuedJobs /\ job \in ArrJob
        BY <2>2, JobFacts
      <3>4. \A t \in Queue' : JobOfSlot(t[1], t[2]) # job
        <4> SUFFICES ASSUME NEW t \in Queue', JobOfSlot(t[1], t[2]) = job PROVE FALSE
          OBVIOUS
        <4>1. t \in Queue /\ t # <<a, r>> /\ <<a, r>> \in Queue
          BY <2>2, <2>5 DEF EmptyInv
        <4>2. t \in Slot /\ t[1] \in Arr /\ t[2] \in Role /\ t = <<t[1], t[2]>>
          BY <4>1 DEF TypeOK, Slot
        <4>3. CatOf[t[1]] = CatOf[a] /\ t[2] = r
          BY <4>2, JobFacts
        <4>4. t[1] \in ManagedArrs /\ a \in ManagedArrs
          BY <4>1 DEF ManagedInv
        <4>5. t[1] = a
          BY <4>3, <4>4, OneArrPerCategory
        <4> QED
          BY <4>1, <4>2, <4>3, <4>5
      <3>5. QueuedJobs' \subseteq QueuedJobs /\ job \notin QueuedJobs'
        BY <2>2, <2>5, <3>4
      <3>6. \A p, q \in Proc : Claims(p)' /\ Claims(q)' /\ JobOf[p] = JobOf[q] /\ p # q
                               => JobOf[p] \in overlap'
        <4>1. /\ \A p, q \in Proc : Claims(p) /\ Claims(q) /\ JobOf[p] = JobOf[q] /\ p # q
                                     => JobOf[p] \in overlap
              /\ \A p \in Proc : Claims(p) /\ JobOf[p] = job => job \in overlap
              /\ overlap' = overlap
          BY <2>2, <3>3
        <4> DEFINE New == Image(f, {r} \cap RolesOf[a])
        <4>2. /\ \A p \in Proc : Claims(p)' => Claims(p) \/ p \in New
              /\ \A p, q \in New : JobOf[p] = job /\ p = q
          BY <3>1, <3>2
        <4> HIDE DEF Claims, ClaimInv, New, job
        <4> QED
          BY <4>1, <4>2
      <3>7. \A p \in Proc : Claims(p)' /\ JobOf[p] \in QueuedJobs' \cup failed' => JobOf[p] \in overlap'
        BY <2>2, <3>1, <3>2, <3>5
      <3>8. \A p \in Proc, q \in startup' \cap Qbit : Claims(p)' => JobOf[p] # ManagerJob(q)
        <4>1. \A q \in Qbit : ManagerJob(q) # job
          BY <3>3, JobFacts
        <4> QED
          BY <2>2, <3>1, <3>2, <4>1
      <3> QED
        BY <2>2, <3>6, <3>7, <3>8
    <2> QED
      BY <2>1, <2>4, <2>5
  <1>26. ASSUME NEW a \in Arr, NEW r \in Role, RetryFails(a, r) PROVE ClaimInv'
    BY <1>26, FewerClaims DEF RetryFails, main, tracked
  <1>27. CASE RetryDone
    BY <1>27, FewerClaims DEF RetryDone, main, tracked
  <1>28. CASE Rest
    BY <1>28, FewerClaims DEF Rest, main, tracked
  <1>29. CASE Terminated \/ Interrupted
    BY <1>29, FewerClaims DEF Terminated, Interrupted, main, tracked
  <1>30. CASE Cleanup
    BY <1>30, FewerClaims DEF Cleanup, KillChildren, tracked
  <1>31. CASE Exit
    BY <1>31, FewerClaims DEF Exit, main, tracked
  <1>32. CASE RequestRestart
    BY <1>32, FewerClaims DEF RequestRestart, main, tracked
  <1>33. CASE RestarterSignals
    BY <1>33, FewerClaims DEF RestarterSignals, main, tracked
  <1>34. CASE RestarterKills \/ RestarterExecs
    BY <1>34, FewerClaims DEF RestarterKills, RestarterExecs, KillChildren, main, tracked
  <1>35. CASE UNCHANGED vars
    BY <1>35, FewerClaims DEF vars, main, tracked
  <1> HIDE DEF ClaimInv, Claims, Queue, QueuedJobs, Goto, Dead
  <1> QED
    BY <1>1, <1>2, <1>3, <1>4, <1>5, <1>6, <1>7, <1>8, <1>9, <1>10, <1>11, <1>12, <1>13,
       <1>14, <1>15, <1>16, <1>17, <1>18, <1>19, <1>20, <1>21, <1>22, <1>23, <1>24, <1>25,
       <1>26, <1>27, <1>28, <1>29, <1>30, <1>31, <1>32, <1>33, <1>34, <1>35 DEF Next,
       Startup, MainLoop, Restarter, Workers

LEMMA InvHolds == Spec => []Inv
  <1>1. Init => Inv
    <2>1. Init => TypeInv /\ TrackInv /\ QuietInv
      BY InitType, SupervisorAssumption DEF Init, TrackInv, QuietInv, Alive, Event
    <2>2. Init => EmptyInv /\ ClaimInv
      BY DEF Init, EmptyInv, ClaimInv, Claims, Queue, QueuedJobs
    <2>3. Init => ManagedInv
      BY SupervisorAssumption DEF Init, ManagedInv, ManagedArrs, Queue, Wanted, Category
    <2> QED
      BY <2>1, <2>2, <2>3 DEF Inv
  <1>2. Inv /\ [Next]_vars => Inv'
    BY StepType, StepTrack, StepQuiet, StepEmpty, StepManaged, StepClaim DEF Inv
  <1> QED
    BY <1>1, <1>2, PTL DEF Spec

LEMMA StepKeepsQueue == Inv /\ [Next]_vars => KeepsQueue
  <1> SUFFICES ASSUME Inv, [Next]_vars PROVE KeepsQueue
    OBVIOUS
  <1> USE DEF KeepsQueue
  <1>1. ASSUME NEW a \in Arr, PrepareArr(a) PROVE KeepsQueue
    BY <1>1 DEF PrepareArr, main
  <1>2. ASSUME NEW a \in Arr, SkipArr(a) PROVE KeepsQueue
    BY <1>2 DEF SkipArr, main
  <1>3. ASSUME NEW q \in Qbit, SpawnManager(q) PROVE KeepsQueue
    BY <1>3 DEF SpawnManager, main
  <1>4. ASSUME NEW p \in Proc, NEW how \in {"clean", "crashed"}, WorkerExits(p, how) PROVE KeepsQueue
    BY <1>4 DEF WorkerExits, main
  <1>5. ASSUME NEW p \in Proc, SignalRestart(p) PROVE KeepsQueue
    BY <1>5 DEF SignalRestart, main
  <1>6. ASSUME NEW j \in Job, Forget(j) PROVE KeepsQueue
    BY <1>6 DEF Forget, main
  <1>7. CASE Begin
    BY <1>7 DEF Begin, main
  <1>8. ASSUME NEW p \in Proc, SkipStarted(p) PROVE KeepsQueue
    BY <1>8 DEF SkipStarted, main
  <1>9. ASSUME NEW p \in Proc, StartOne(p) PROVE KeepsQueue
    BY <1>9 DEF StartOne, main
  <1>10. ASSUME NEW p \in Proc, StartOneFails(p) PROVE KeepsQueue
    BY <1>10 DEF StartOneFails, main
  <1>11. CASE QueueFailed
    BY <1>11 DEF QueueFailed, main
  <1>12. CASE LoopShutdown
    BY <1>12 DEF LoopShutdown, main
  <1>13. CASE StopAll
    BY <1>13 DEF StopAll, main
  <1>14. CASE Checkpoint
    BY <1>14 DEF Checkpoint, main
  <1>15. ASSUME NEW a \in Arr, Respawn(a) PROVE KeepsQueue
    BY <1>15 DEF Respawn, Enqueue
  <1>16. ASSUME NEW a \in Arr, RespawnFails(a) PROVE KeepsQueue
    BY <1>16 DEF RespawnFails, Enqueue
  <1>17. CASE Respawned
    BY <1>17 DEF Respawned, main
  <1>18. CASE Look
    BY <1>18 DEF Look, main
  <1>19. ASSUME NEW p \in Proc, ReapOther(p) PROVE KeepsQueue
    BY <1>19 DEF ReapOther, main
  <1>20. ASSUME NEW p \in Proc, ReapDead(p) PROVE KeepsQueue
    BY <1>20 DEF ReapDead, main
  <1>21. ASSUME NEW p \in Proc, ReapCrashed(p) PROVE KeepsQueue
    BY <1>21 DEF ReapCrashed, main
  <1>22. ASSUME NEW n \in Proc, Restart(n) PROVE KeepsQueue
    BY <1>22 DEF Restart, main
  <1>23. CASE GiveUp
    BY <1>23 DEF GiveUp, main
  <1>24. CASE ReapDone
    BY <1>24 DEF ReapDone, Inv, EmptyInv
  <1>25. ASSUME NEW a \in Arr, NEW r \in Role, RetryOne(a, r) PROVE KeepsQueue
    <2>1. a \in Arr /\ r \in RolesOf[a]
      BY <1>25 DEF RetryOne, Inv, ManagedInv, Queue
    <2>2. PICK f \in Spawned(a) :
            \/ Construct(Image(f, RolesOf[a]), Image(f, {r} \cap RolesOf[a]))
            \/ pending' = pending \cup {<<a, r>>}
      BY <1>25 DEF RetryOne
    <2>3. CASE Construct(Image(f, RolesOf[a]), Image(f, {r} \cap RolesOf[a]))
      <3>1. f[r] \in Proc /\ JobOf[f[r]] = JobOfSlot(a, r)
        BY <2>1, SpawnedFacts
      <3>2. f[r] \in Alive'
        BY <2>1, <2>3, <3>1 DEF Construct, Image, Alive
      <3>3. Running(JobOfSlot(a, r))'
        BY <3>1, <3>2 DEF Running
      <3>4. \A s \in pending \cup retry : s \in pending' \cup retry' \/ s = <<a, r>>
        BY <1>25 DEF RetryOne
      <3>5. <<a, r>>[1] = a /\ <<a, r>>[2] = r
        OBVIOUS
      <3> QED
        BY <3>3, <3>4, <3>5
    <2>4. CASE pending' = pending \cup {<<a, r>>}
      BY <1>25, <2>4 DEF RetryOne
    <2> QED
      BY <2>2, <2>3, <2>4
  <1>26. ASSUME NEW a \in Arr, NEW r \in Role, RetryFails(a, r) PROVE KeepsQueue
    BY <1>26 DEF RetryFails, main
  <1>27. CASE RetryDone
    BY <1>27 DEF RetryDone, main
  <1>28. CASE Rest
    BY <1>28 DEF Rest, main
  <1>29. CASE Terminated \/ Interrupted
    BY <1>29 DEF Terminated, Interrupted, main
  <1>30. CASE Cleanup
    BY <1>30 DEF Cleanup, main
  <1>31. CASE Exit
    BY <1>31 DEF Exit, main
  <1>32. CASE RequestRestart
    BY <1>32 DEF RequestRestart, main
  <1>33. CASE RestarterSignals
    BY <1>33 DEF RestarterSignals, main
  <1>34. CASE RestarterKills \/ RestarterExecs
    BY <1>34 DEF RestarterKills, RestarterExecs, main
  <1>35. CASE UNCHANGED vars
    BY <1>35 DEF vars, main
  <1> HIDE DEF KeepsQueue
  <1> QED
    BY <1>1, <1>2, <1>3, <1>4, <1>5, <1>6, <1>7, <1>8, <1>9, <1>10, <1>11, <1>12, <1>13,
       <1>14, <1>15, <1>16, <1>17, <1>18, <1>19, <1>20, <1>21, <1>22, <1>23, <1>24, <1>25,
       <1>26, <1>27, <1>28, <1>29, <1>30, <1>31, <1>32, <1>33, <1>34, <1>35 DEF Next,
       Startup, MainLoop, Restarter, Workers

-----------------------------------------------------------------------------
(* The properties *)

\* The types hold; among others, no job exceeds its restart limit.
THEOREM TypeCorrect == Spec => []TypeOK
  <1>1. Inv => TypeOK
    BY DEF Inv, TypeInv
  <1> QED
    BY <1>1, InvHolds, PTL

\* Every live worker is in child_processes under its job, whatever ran before.
THEOREM LiveTrackedHolds == Spec => []LiveTracked
  <1>1. Inv => LiveTracked
    BY DEF Inv, TrackInv, LiveTracked
  <1> QED
    BY <1>1, InvHolds, PTL

\* No worker runs while the supervisor checkpoints the WAL, but for a category manager
\* that a late startup thread has started since.
THEOREM QuietCheckpointHolds == Spec => []QuietCheckpoint
  <1>1. Inv => QuietCheckpoint
    BY DEF Inv, QuietInv, Stopped, QuietCheckpoint
  <1> QED
    BY <1>1, InvHolds, PTL

\* But for such a one, no worker outlives a cleanup that was not cut short, nor the
\* replacement of the program by a restart thread that found the main thread past its
\* starts: the main and the startup thread may go on between its kill and its execv.
THEOREM NoOrphansHolds == Spec => []NoOrphans
  <1>1. Inv => NoOrphans
    BY DEF Inv, QuietInv, Stopped, NoOrphans
  <1> QED
    BY <1>1, InvHolds, PTL

\* A job has one worker, unless it was respawned over its own queued start.
THEOREM OneWorkerPerJobHolds == Spec => []OneWorkerPerJob
  <1>1. Inv => OneWorkerPerJob
    <2>1. Inv => \A p \in Alive : p \in Proc /\ Claims(p)
      BY DEF Inv, TrackInv, Claims, Alive
    <2> QED
      BY <2>1 DEF Inv, ClaimInv, OneWorkerPerJob
  <1> QED
    BY <1>1, InvHolds, PTL

\* No queued start is lost before its worker runs.
THEOREM QueueKeptHolds == Spec => QueueKept
  <1>1. Inv /\ [Next]_vars => [KeepsQueue]_vars
    BY StepKeepsQueue
  <1> QED
    BY <1>1, InvHolds, PTL DEF Spec, QueueKept

-----------------------------------------------------------------------------
(* Beside the WebUI's restarts: the invariant *)

Known(p) == p \in children /\ registry[p] = JobOf[p]

\* The types; a thread has a job, a process to take down, or a process to start.
WebType ==
    /\ at \in [Thread -> At]
    /\ want \in [Thread -> Job \cup {None}]
    /\ old \in [Thread -> Proc \cup {None}] /\ new \in [Thread -> Proc \cup {None}]
    /\ clash \subseteq Job
    /\ \A t \in Thread : at[t] # "idle" => want[t] \in Job
    /\ \A t \in Thread : at[t] \in {"kill", "remove", "pop"} => old[t] \in Proc
    /\ \A t \in Thread : at[t] \in {"start", "track"} => new[t] \in Proc

\* Every reference to a process agrees with the job it is for: of the registry, of
\* the Arr objects, of the threads and of the main thread.
JobsInv ==
    /\ \A c \in Category : managed[c] = None \/ CatOf[managed[c]] = c
    /\ startup \cap Arr \subseteq ManagedArrs
    /\ arrs \subseteq ManagedArrs
    /\ \A s \in Queue : s[1] \in ManagedArrs
    /\ \A p \in Proc : registry[p] \in {None, JobOf[p]}
    /\ \A s \in Slot : slot[s] # None => JobOf[slot[s]] = JobOfSlot(s[1], s[2])
    /\ \A t \in Thread : at[t] \in {"kill", "remove", "pop"} => JobOf[old[t]] = want[t]
    /\ \A t \in Thread : at[t] \in {"start", "track"} => JobOf[new[t]] = want[t]
    /\ pc = "delay" /\ meta # None => meta = JobOf[cur]

\* A job that two have in hand at once is in clash: two threads, or a thread and
\* the startup thread or the main thread.
MetInv ==
    /\ \A t, u \in Busy : t # u /\ want[t] = want[u] => want[t] \in clash
    /\ pc \in {"start", "checkpoint", "respawn"} \/ startup # {} => BusyJobs \subseteq clash
    /\ meta \in BusyJobs => meta \in clash

\* The records cover what lives and what is to be started, but for the jobs in clash;
\* a thread has killed its old process before it removes it.
RecordsInv ==
    /\ \A p \in children : registry[p] = JobOf[p] \/ JobOf[p] \in clash
    /\ pc = "start" => \A p \in todo : Known(p) \/ JobOf[p] \in clash
    /\ \A t \in Thread : at[t] \in {"remove", "pop"} /\ old[t] \in Alive => want[t] \in clash
    /\ \A t \in Thread : at[t] = "pop" /\ old[t] \in children => want[t] \in clash
    /\ \A t \in Thread : at[t] = "start" => (Known(new[t]) /\ phase[new[t]] = "made") \/ want[t] \in clash
    /\ TrackedUnlessClash

\* The jobs of which the properties make an exception.
Excused == overlap \cup clash

\* A claim on a job is also held by a process that a thread is about to start or track.
Due(p) == Claims(p) \/ \E t \in Thread : at[t] \in {"start", "track"} /\ new[t] = p

\* The claims on a job, as in ClaimInv, but for the jobs in Excused.
DueInv ==
    /\ \A p, q \in Proc : Due(p) /\ Due(q) /\ JobOf[p] = JobOf[q] /\ p # q => JobOf[p] \in Excused
    /\ \A p \in Proc : Due(p) /\ JobOf[p] \in QueuedJobs \cup failed => JobOf[p] \in Excused
    /\ \A p \in Proc, q \in startup \cap Qbit : Due(p) /\ JobOf[p] = ManagerJob(q) => JobOf[p] \in Excused
    /\ \A q \in startup \cap Qbit : ManagerJob(q) \in failed => ManagerJob(q) \in Excused
    /\ pc = "boot" => \A p \in Proc, a \in startup \cap Arr : Due(p) /\ JobOf[p][1] = CatOf[a]
                                                            => JobOf[p] \in Excused
    /\ pc = "checkpoint" => \A p \in Proc : Due(p) /\ JobOf[p] \in ArrJob => JobOf[p] \in Excused
    /\ pc = "respawn" => \A p \in Proc, a \in arrs : Due(p) /\ JobOf[p][1] = CatOf[a] => JobOf[p] \in Excused

\* What a thread has taken off the records, it alone may put back; a process outside
\* child_processes is in the registry only while a thread is between the two.
ThreadInv ==
    /\ \A t \in Busy : want[t] \in QueuedJobs \cup failed => want[t] \in Excused
    /\ \A t \in Busy, p \in Proc : at[t] \in {"kill", "remove"} /\ Due(p) /\ JobOf[p] = want[t] /\ p # old[t]
                                  => want[t] \in Excused
    /\ \A t \in Busy, p \in Proc : at[t] \in {"pop", "make"} /\ Due(p) /\ JobOf[p] = want[t]
                                  => want[t] \in Excused
    /\ \A t \in Thread : at[t] = "track" => want[t] \notin ArrJob /\ phase[new[t]] # "made"
    /\ \A p \in children : JobOf[p] \notin ArrJob => phase[p] # "made"
    /\ \A p \in Proc : registry[p] # None => p \in children \/ \E t \in Thread : at[t] = "pop" /\ old[t] = p
    /\ pc = "delay" /\ meta # None => cur \in children \/ meta \in Excused

WebInv == TypeInv /\ WebType /\ JobsInv /\ MetInv /\ EmptyInv /\ RecordsInv /\ DueInv /\ ThreadInv

-----------------------------------------------------------------------------
(* Types, and the steps a request takes *)

LEMMA WebInitType == WebInit => TypeInv /\ WebType
  BY InitType, WebAssumption DEF WebInit, WebType, At

\* What a request may change of the supervisor's state.
LEMMA RequestFrame ==
  ASSUME Requests \/ \E t \in Thread : Handler(t)
  PROVE  /\ UNCHANGED <<managed, pending, recent, dbEvent, shutdown, startup, restarter, overlap>>
         /\ UNCHANGED <<pc, todo, failed, arrs, retry, cur, meta, anyAlive>>
         /\ clash \subseteq clash'
  <1>1. ASSUME NEW t \in Thread, NEW j, NEW p, Ask(t, j, p)
        PROVE  UNCHANGED vars /\ clash \subseteq clash'
    BY <1>1 DEF Ask
  <1>2. CASE Requests
    BY <1>1, <1>2 DEF Requests, AskArr, AskManager, vars, main
  <1>3. CASE \E t \in Thread : Handler(t)
    BY <1>3 DEF Handler, Kill, Remove, Pop, Make, Start, StartManager, TrackManager, main
  <1> QED
    BY <1>2, <1>3

LEMMA StepWebType == TypeInv /\ WebType /\ [WebNext]_allVars => TypeInv' /\ WebType'
  <1> SUFFICES ASSUME TypeInv, WebType, [WebNext]_allVars PROVE TypeInv' /\ WebType'
    OBVIOUS
  <1>a. TypeOK
    BY DEF TypeInv
  <1> USE SupervisorAssumption DEF WebType, At
  <1>1. CASE Beside(Next)
    <2>1. TypeInv' /\ UNCHANGED web
      BY <1>1, StepType DEF Beside
    <2>2. Clashes \subseteq Job
      BY DEF Clashes, BusyJobs, Busy
    <2> QED
      BY <1>1, <2>1, <2>2 DEF Beside, web
  <1>2. ASSUME NEW t \in Thread, NEW j \in Job, NEW p \in Proc \cup {None}, Ask(t, j, p)
        PROVE  TypeInv' /\ WebType'
    <2>1. TypeInv'
      BY <1>2 DEF Ask, TypeInv, TypeOK, vars, main, tracked, Dead
    <2>2. WebType'
      BY <1>2 DEF Ask
    <2> QED
      BY <2>1, <2>2
  <1>3. CASE Requests
    <2>1. ASSUME NEW t \in Thread, NEW j \in ArrJob, AskArr(t, j)
          PROVE  j \in Job /\ slot[<<ArrOf(j), j[2]>>] \in Proc \cup {None}
      <3>1. PICK a \in Arr, r \in Role : j = JobOfSlot(a, r)
        BY DEF ArrJob
      <3>2. j \in Job /\ j[2] \in Role /\ j[1] \in Category
        BY <3>1, JobFacts DEF Category
      <3>3. ArrOf(j) \in Arr
        BY <1>a, <2>1, <3>2 DEF AskArr, ArrOf, TypeOK
      <3> QED
        BY <1>a, <3>2, <3>3 DEF TypeOK, Slot
    <2>2. ASSUME NEW t \in Thread, NEW j \in ArrJob, AskArr(t, j) PROVE TypeInv' /\ WebType'
      BY <1>2, <2>1, <2>2 DEF AskArr
    <2>3. ASSUME NEW t \in Thread, NEW q \in Qbit, NEW p \in Proc, AskManager(t, q, p)
          PROVE  TypeInv' /\ WebType'
      BY <1>2, <2>3, JobFacts DEF AskManager
    <2> QED
      BY <1>3, <2>2, <2>3 DEF Requests
  <1>4. ASSUME NEW t \in Thread, Handler(t) PROVE TypeInv' /\ WebType'
    <2>1. UNCHANGED <<managed, pending, recent, dbEvent, shutdown, startup, restarter, overlap>>
          /\ UNCHANGED <<pc, todo, failed, arrs, retry, cur, meta, anyAlive>>
      BY <1>4, RequestFrame
    <2>2. ASSUME phase' \in [Proc -> Phase], children' \subseteq Proc,
                 registry' \in [Proc -> Job \cup {None}], slot' \in [Slot -> Proc \cup {None}],
                 budget' \in [Event -> Nat], \A p \in Proc : Dead(p) /\ p \notin Free => Dead(p)'
          PROVE  TypeInv'
      BY <1>a, <2>1, <2>2 DEF TypeInv, TypeOK, Free
    <2>3. CASE Kill(t)
      <3>1. phase' \in [Proc -> Phase] /\ \A p \in Proc : Dead(p) => Dead(p)'
        BY <1>a, <2>3 DEF Kill, TypeOK, Phase, Dead
      <3> QED
        BY <1>a, <2>2, <2>3, <3>1 DEF Kill, TypeOK, tracked
    <2>4. CASE Remove(t)
      BY <1>a, <2>2, <2>4 DEF Remove, TypeOK, Dead
    <2>5. CASE Pop(t)
      BY <1>a, <2>2, <2>5 DEF Pop, TypeOK, Dead
    <2>6. CASE Make(t)
      <3>1. PICK n \in Free : /\ new' = [new EXCEPT ![t] = n]
                              /\ slot' = [slot EXCEPT ![<<ArrOf(want[t]), want[t][2]>>] = n]
                              /\ Construct({n}, {}) /\ Track({n})
        BY <2>6 DEF Make
      <3>2. n \in Proc
        BY DEF Free
      <3>3. children' \subseteq Proc /\ registry' \in [Proc -> Job \cup {None}]
        BY <1>a, <3>1, <3>2, TrackType
      <3>4. phase' \in [Proc -> Phase] /\ \A p \in Proc : Dead(p) /\ p \notin Free => Dead(p)'
        <4>1. phase' \in [Proc -> Phase]
          BY <1>a, <3>1, ConstructType
        <4> QED
          BY <3>1, <4>1 DEF Construct, Dead
      <3>5. slot' \in [Slot -> Proc \cup {None}]
        BY <1>a, <3>1, <3>2 DEF TypeOK
      <3>6. budget' \in [Event -> Nat] /\ WebType'
        BY <1>a, <2>6, <3>1, <3>2 DEF Make, TypeOK
      <3> QED
        BY <2>2, <3>3, <3>4, <3>5, <3>6
    <2>7. CASE Start(t)
      <3>1. budget' \in [Event -> Nat]
        BY <1>a, <2>7, SpendFacts DEF Start, TypeOK, Event
      <3>2. phase' \in [Proc -> Phase] /\ \A p \in Proc : Dead(p) => Dead(p)'
        BY <1>a, <2>7 DEF Start, TypeOK, Phase, Dead
      <3> QED
        BY <1>a, <2>2, <2>7, <3>1, <3>2 DEF Start, TypeOK, tracked
    <2>8. CASE StartManager(t)
      <3>1. CASE Spend("start", 1) /\ UNCHANGED <<phase, new>> /\ at' = [at EXCEPT ![t] = "idle"]
        <4>1. budget' \in [Event -> Nat]
          BY <1>a, <3>1, SpendFacts DEF Event
        <4> QED
          BY <1>a, <2>2, <2>8, <3>1, <4>1 DEF StartManager, TypeOK, tracked, Dead
      <3>2. ASSUME NEW n \in Free, new' = [new EXCEPT ![t] = n], Construct({n}, {n}), UNCHANGED budget,
                   at' = [at EXCEPT ![t] = "track"]
            PROVE  TypeInv' /\ WebType'
        <4>1. n \in Proc
          BY DEF Free
        <4>2. phase' \in [Proc -> Phase] /\ \A p \in Proc : Dead(p) /\ p \notin Free => Dead(p)'
          <5>1. phase' \in [Proc -> Phase]
            BY <1>a, <3>2, ConstructType
          <5> QED
            BY <3>2, <5>1 DEF Construct, Dead
        <4> QED
          BY <1>a, <2>2, <2>8, <3>2, <4>1, <4>2 DEF StartManager, TypeOK, tracked
      <3> QED
        BY <2>8, <3>1, <3>2 DEF StartManager
    <2>9. CASE TrackManager(t)
      <3>1. children' \subseteq Proc /\ registry' \in [Proc -> Job \cup {None}]
        BY <1>a, <2>9 DEF TrackManager, Track, TypeOK
      <3> QED
        BY <1>a, <2>2, <2>9, <3>1 DEF TrackManager, TypeOK, Dead
    <2> QED
      BY <1>4, <2>3, <2>4, <2>5, <2>6, <2>7, <2>8, <2>9 DEF Handler
  <1>5. CASE UNCHANGED allVars
    BY <1>5 DEF allVars, vars, web, main, tracked, TypeInv, TypeOK, Dead
  <1> QED
    BY <1>1, <1>3, <1>4, <1>5 DEF WebNext

-----------------------------------------------------------------------------
(* The supervisor's steps: those that leave its records alone, and the others *)

Quiet ==
    /\ UNCHANGED <<children, registry, slot, managed, overlap>>
    /\ \A p \in Proc : phase'[p] = phase[p] \/ (phase[p] = "alive" /\ phase'[p] \in {"clean", "crashed"})
    /\ startup' \subseteq startup
    /\ pc' = "boot" => pc = "boot"
    /\ pc' = "start" => (pc = "start" /\ todo' \subseteq todo) \/ todo' = children
    /\ pc' = "checkpoint" => pc = "checkpoint"
    /\ pc' = "respawn" => (pc = "respawn" /\ arrs' \subseteq arrs) \/ (pc = "checkpoint" /\ arrs' = ManagedArrs)
    /\ arrs' \subseteq arrs \cup ManagedArrs
    /\ \A p \in Proc : Claims(p)' => Claims(p)
    /\ failed' \subseteq failed
    /\ \A s \in Queue' : \/ s \in Queue
                         \/ s \in Slot /\ managed[CatOf[s[1]]] = s[1] /\ JobOfSlot(s[1], s[2]) \in failed
    /\ pc' = "delay" => \/ pc = "delay" /\ UNCHANGED <<cur, meta>>
                        \/ cur' \in Proc /\ meta' = registry[cur']
    /\ meta' = meta \/ meta' \in Job \cup {None}

Moving ==
    \/ \E a \in Arr : \/ PrepareArr(a) \/ Respawn(a) \/ RespawnFails(a)
                      \/ \E r \in Role : RetryOne(a, r)
    \/ \E q \in Qbit : SpawnManager(q)
    \/ \E p \in Proc : StartOne(p) \/ StartOneFails(p) \/ ReapDead(p) \/ Restart(p)
    \/ StopAll \/ GiveUp

LEMMA QuietOrMoving == TypeInv /\ [Next]_vars => Quiet \/ Moving
  <1> SUFFICES ASSUME TypeInv, [Next]_vars PROVE Quiet \/ Moving
    OBVIOUS
  <1> USE DEF TypeInv, TypeOK, Quiet, Claims, Queue, Goto
  <1>1. ASSUME NEW a \in Arr, PrepareArr(a) PROVE Moving
    BY <1>1 DEF Moving
  <1>2. ASSUME NEW a \in Arr, SkipArr(a) PROVE Quiet
    BY <1>2 DEF SkipArr, main, tracked
  <1>3. ASSUME NEW q \in Qbit, SpawnManager(q) PROVE Moving
    BY <1>3 DEF Moving
  <1>4. ASSUME NEW p \in Proc, NEW how \in {"clean", "crashed"}, WorkerExits(p, how) PROVE Quiet
    BY <1>4 DEF WorkerExits, main, tracked
  <1>5. ASSUME NEW p \in Proc, SignalRestart(p) PROVE Quiet
    BY <1>5 DEF SignalRestart, main, tracked
  <1>6. ASSUME NEW j \in Job, Forget(j) PROVE Quiet
    BY <1>6 DEF Forget, main, tracked
  <1>7. CASE Begin
    BY <1>7 DEF Begin, main, tracked
  <1>8. ASSUME NEW p \in Proc, SkipStarted(p) PROVE Quiet
    BY <1>8 DEF SkipStarted, main, tracked
  <1>9. ASSUME NEW p \in Proc, StartOne(p) PROVE Moving
    BY <1>9 DEF Moving
  <1>10. ASSUME NEW p \in Proc, StartOneFails(p) PROVE Moving
    BY <1>10 DEF Moving
  <1>11. CASE QueueFailed
    BY <1>11 DEF QueueFailed, main, tracked
  <1>12. CASE LoopShutdown
    BY <1>12 DEF LoopShutdown, main, tracked
  <1>13. CASE StopAll
    BY <1>13 DEF Moving
  <1>14. CASE Checkpoint
    BY <1>14 DEF Checkpoint, main, tracked
  <1>15. ASSUME NEW a \in Arr, Respawn(a) PROVE Moving
    BY <1>15 DEF Moving
  <1>16. ASSUME NEW a \in Arr, RespawnFails(a) PROVE Moving
    BY <1>16 DEF Moving
  <1>17. CASE Respawned
    BY <1>17 DEF Respawned, main, tracked
  <1>18. CASE Look
    BY <1>18 DEF Look, main, tracked
  <1>19. ASSUME NEW p \in Proc, ReapOther(p) PROVE Quiet
    BY <1>19 DEF ReapOther, main, tracked
  <1>20. ASSUME NEW p \in Proc, ReapDead(p) PROVE Moving
    BY <1>20 DEF Moving
  <1>21. ASSUME NEW p \in Proc, ReapCrashed(p) PROVE Quiet
    BY <1>21 DEF ReapCrashed, main, tracked
  <1>22. ASSUME NEW n \in Proc, Restart(n) PROVE Moving
    BY <1>22 DEF Moving
  <1>23. CASE GiveUp
    BY <1>23 DEF Moving
  <1>24. CASE ReapDone
    BY <1>24 DEF ReapDone, main, tracked
  <1>25. ASSUME NEW a \in Arr, NEW r \in Role, RetryOne(a, r) PROVE Moving
    BY <1>25 DEF Moving
  <1>26. ASSUME NEW a \in Arr, NEW r \in Role, RetryFails(a, r) PROVE Quiet
    BY <1>26 DEF RetryFails, main, tracked
  <1>27. CASE RetryDone
    BY <1>27 DEF RetryDone, main, tracked
  <1>28. CASE Rest
    BY <1>28 DEF Rest, main, tracked
  <1>29. CASE Terminated \/ Interrupted
    BY <1>29 DEF Terminated, Interrupted, main, tracked
  <1>30. CASE Cleanup
    BY <1>30 DEF Cleanup, main, tracked, KillChildren
  <1>31. CASE Exit
    BY <1>31 DEF Exit, main, tracked
  <1>32. CASE RequestRestart
    BY <1>32 DEF RequestRestart, main, tracked
  <1>33. CASE RestarterSignals
    BY <1>33 DEF RestarterSignals, main, tracked
  <1>34. CASE RestarterKills \/ RestarterExecs
    BY <1>34 DEF RestarterKills, RestarterExecs, main, tracked, KillChildren
  <1>35. CASE UNCHANGED vars
    BY <1>35 DEF vars, main, tracked
  <1> HIDE DEF TypeInv, TypeOK, Quiet, Claims, Queue, Goto
  <1> QED
    BY <1>1, <1>2, <1>3, <1>4, <1>5, <1>6, <1>7, <1>8, <1>9, <1>10, <1>11, <1>12, <1>13,
       <1>14, <1>15, <1>16, <1>17, <1>18, <1>19, <1>20, <1>21, <1>22, <1>23, <1>24, <1>25,
       <1>26, <1>27, <1>28, <1>29, <1>30, <1>31, <1>32, <1>33, <1>34, <1>35 DEF Next,
       Startup, MainLoop, Restarter, Workers

-----------------------------------------------------------------------------
(* The supervisor's steps beside the requests *)

LEMMA MainFrame ==
  ASSUME TypeInv, [Next]_vars
  PROVE  /\ startup' \subseteq startup /\ UNCHANGED managed /\ overlap \subseteq overlap'
         /\ pc' = "respawn" => pc \in {"respawn", "checkpoint"}
  <1>1. CASE Quiet
    BY <1>1 DEF Quiet
  <1>2. CASE Moving
    <2> USE DEF Goto
    <2>1. ASSUME NEW a \in Arr, NEW r \in Role, PrepareArr(a) \/ Respawn(a) \/ RespawnFails(a) \/ RetryOne(a, r)
          PROVE  /\ startup' \subseteq startup /\ UNCHANGED managed /\ overlap \subseteq overlap'
                 /\ pc' = "respawn" => pc \in {"respawn", "checkpoint"}
      BY <2>1 DEF PrepareArr, Respawn, RespawnFails, RetryOne, main
    <2>2. ASSUME NEW q \in Qbit, SpawnManager(q)
          PROVE  /\ startup' \subseteq startup /\ UNCHANGED managed /\ overlap \subseteq overlap'
                 /\ pc' = "respawn" => pc \in {"respawn", "checkpoint"}
      BY <2>2 DEF SpawnManager, main
    <2>3. ASSUME NEW p \in Proc, StartOne(p) \/ StartOneFails(p) \/ ReapDead(p) \/ Restart(p)
          PROVE  /\ startup' \subseteq startup /\ UNCHANGED managed /\ overlap \subseteq overlap'
                 /\ pc' = "respawn" => pc \in {"respawn", "checkpoint"}
      BY <2>3 DEF StartOne, StartOneFails, ReapDead, Restart
    <2>4. CASE StopAll \/ GiveUp
      BY <2>4 DEF StopAll, GiveUp
    <2>5. Role # {}
      BY DEF Role
    <2> QED
      BY <1>2, <2>1, <2>2, <2>3, <2>4, <2>5 DEF Moving
  <1> QED
    BY <1>1, <1>2, QuietOrMoving

\* A thread keeps its place, and the main thread's meeting with it is on record.
LEMMA BesideFacts ==
  ASSUME TypeInv, WebType, Beside(Next)
  PROVE  /\ UNCHANGED <<at, want, old, new>> /\ UNCHANGED <<Busy, BusyJobs, Held>>
         /\ clash \subseteq clash' /\ Excused \subseteq Excused'
         /\ pc' \in {"start", "checkpoint"} /\ pc' # pc => BusyJobs \subseteq clash'
         /\ \A p \in Proc : JobOf[p] \in BusyJobs /\ phase[p] # "alive" /\ phase'[p] = "alive"
                            => JobOf[p] \in clash'
         /\ meta' \in BusyJobs /\ meta' # meta => meta' \in clash'
  <1>1. UNCHANGED <<at, want, old, new>> /\ clash' = clash \cup Clashes
    BY DEF Beside, web
  <1>2. overlap \subseteq overlap'
    BY MainFrame DEF Beside
  <1> QED
    BY <1>1, <1>2 DEF Busy, BusyJobs, Held, Clashes, Alive, Excused

LEMMA StepMet == TypeInv /\ WebType /\ MetInv /\ [WebNext]_allVars => MetInv'
  <1> SUFFICES ASSUME TypeInv, WebType, MetInv, [WebNext]_allVars PROVE MetInv'
    OBVIOUS
  <1>1. CASE Beside(Next)
    <2>1. startup' \subseteq startup /\ (pc' = "respawn" => pc \in {"respawn", "checkpoint"})
      BY <1>1, MainFrame DEF Beside
    <2> QED
      BY <1>1, <2>1, BesideFacts DEF MetInv
  <1>2. ASSUME NEW t \in Thread, NEW j \in Job, NEW p, Ask(t, j, p) PROVE MetInv'
    <2>1. /\ UNCHANGED <<startup, pc, meta>> /\ want' = [want EXCEPT ![t] = j] /\ t \notin Busy
          /\ Busy' = Busy \cup {t}
          /\ clash' = IF Disturbed(j) THEN clash \cup {j} ELSE clash
      BY <1>2 DEF Ask, vars, main, Busy, WebType, At
    <2>2. \A u \in Busy' : (u \in Busy /\ want'[u] = want[u]) \/ (u = t /\ want'[u] = j)
      BY <2>1 DEF WebType, Busy
    <2>3. BusyJobs' \subseteq BusyJobs \cup {j}
      BY <2>2 DEF BusyJobs
    <2>4. j \in BusyJobs \/ meta = j \/ pc \in {"start", "checkpoint", "respawn"} \/ startup # {}
          => j \in clash'
      BY <2>1 DEF Disturbed
    <2>5. \A u \in Busy : want[u] \in BusyJobs
      BY DEF BusyJobs
    <2>6. clash \subseteq clash'
      BY <2>1
    <2>7. \A u, v \in Busy' : u # v /\ want'[u] = want'[v] => want'[u] \in clash'
      BY <2>2, <2>4, <2>5, <2>6 DEF MetInv
    <2> QED
      BY <2>1, <2>3, <2>4, <2>6, <2>7 DEF MetInv
  <1>3. CASE Requests
    <2>1. ASSUME NEW t \in Thread, NEW j \in ArrJob, AskArr(t, j) PROVE MetInv'
      BY <1>2, <2>1 DEF AskArr, Job
    <2>2. ASSUME NEW t \in Thread, NEW q \in Qbit, NEW p \in Proc, AskManager(t, q, p) PROVE MetInv'
      BY <1>2, <2>2 DEF AskManager, Job
    <2> QED
      BY <1>3, <2>1, <2>2 DEF Requests
  <1>4. ASSUME NEW t \in Thread, Handler(t) PROVE MetInv'
    <2>1. UNCHANGED <<startup, pc, meta, want, clash>>
      BY <1>4, RequestFrame DEF Handler, Kill, Remove, Pop, Make, Start, StartManager, TrackManager
    <2>2. t \in Busy /\ \A u \in Thread : u # t => at'[u] = at[u]
      BY <1>4 DEF Handler, Kill, Remove, Pop, Make, Start, StartManager, TrackManager, WebType, Busy
    <2>3. Busy' \subseteq Busy
      BY <2>2 DEF Busy
    <2>4. BusyJobs' \subseteq BusyJobs
      BY <2>1, <2>3 DEF BusyJobs
    <2> QED
      BY <2>1, <2>3, <2>4 DEF MetInv
  <1>5. CASE UNCHANGED allVars
    BY <1>5 DEF allVars, vars, web, main, MetInv, Busy, BusyJobs
  <1> QED
    BY <1>1, <1>3, <1>4, <1>5 DEF WebNext

-----------------------------------------------------------------------------
(* The jobs of what the records, the Arr objects and the threads refer to *)

\* A queued start of the jobs that failed is one of a managed Arr object.
LEMMA QueuedManaged ==
  ASSUME NEW s \in Slot, managed[CatOf[s[1]]] = s[1]
  PROVE  s[1] \in ManagedArrs
  <1>1. s[1] \in Arr /\ CatOf[s[1]] \in Category /\ s[1] # None
    BY SupervisorAssumption DEF Slot, Category
  <1> QED
    BY <1>1 DEF ManagedArrs

LEMMA FillJobs ==
  ASSUME JobsInv, NEW a \in Arr, NEW f \in Spawned(a), FillSlots(a, f)
  PROVE  \A s \in Slot : slot'[s] # None => JobOf[slot'[s]] = JobOfSlot(s[1], s[2])
  BY SpawnedFacts DEF JobsInv, FillSlots

\* A slot whose job is that of the process it is given.
LEMMA SetJobs ==
  ASSUME TypeOK, JobsInv, NEW s \in Slot, NEW n \in Proc, JobOf[n] = JobOfSlot(s[1], s[2]),
         slot' = [slot EXCEPT ![s] = n]
  PROVE  \A u \in Slot : slot'[u] # None => JobOf[slot'[u]] = JobOfSlot(u[1], u[2])
  BY DEF JobsInv, TypeOK

\* The slot _restart_process fills has the job it restarts.
LEMMA TargetSlot ==
  ASSUME TypeOK, NEW a \in Target(meta)
  PROVE  <<a, meta[2]>> \in Slot /\ JobOfSlot(a, meta[2]) = meta
  <1>1. PICK r \in Role : meta = JobOfSlot(a, r)
    BY DEF Target
  <1>2. a \in Arr
    BY DEF Target, ManagedArrs, TypeOK
  <1> QED
    BY <1>1, <1>2, JobFacts DEF Slot

LEMMA StepJobs == TypeInv /\ WebType /\ JobsInv /\ [WebNext]_allVars => JobsInv'
  <1> SUFFICES ASSUME TypeInv, WebType, JobsInv, [WebNext]_allVars PROVE JobsInv'
    OBVIOUS
  <1>a. TypeOK
    BY DEF TypeInv
  <1> DEFINE Slots == \A s \in Slot : slot[s] # None => JobOf[slot[s]] = JobOfSlot(s[1], s[2])
             Registered == \A p \in Proc : registry[p] \in {None, JobOf[p]}
             InHand == pc = "delay" /\ meta # None => meta = JobOf[cur]
             Listed == arrs \subseteq ManagedArrs /\ \A s \in Queue : s[1] \in ManagedArrs
  <1>1. CASE Beside(Next)
    <2>1. /\ UNCHANGED <<at, want, old, new>> /\ startup' \subseteq startup
          /\ UNCHANGED managed /\ ManagedArrs' = ManagedArrs
      BY <1>1, MainFrame DEF Beside, web, ManagedArrs
    <2>2. ASSUME Slots', Registered', InHand', Listed' PROVE JobsInv'
      BY <2>1, <2>2 DEF JobsInv
    <2>3. Slots /\ Registered /\ InHand /\ Listed
      BY DEF JobsInv
    <2>4. \A P \in SUBSET Proc : Track(P) => Registered'
      BY <2>3 DEF Track
    <2>5. \A p \in Proc : Untrack(p) => Registered'
      BY <1>a, <2>3 DEF Untrack, TypeOK
    <2>6. CASE Quiet
      <3>1. Slots' /\ Registered'
        BY <2>3, <2>6 DEF Quiet
      <3>2. InHand'
        BY <2>3, <2>6 DEF Quiet
      <3>3. Listed'
        BY <2>1, <2>3, <2>6, QueuedManaged DEF Quiet
      <3> QED
        BY <2>2, <3>1, <3>2, <3>3
    <2> USE DEF Goto
    <2>7. ASSUME NEW a \in Arr, PrepareArr(a) PROVE JobsInv'
      <3>1. PICK f \in Spawned(a) : FillSlots(a, f) /\ Track(Image(f, RolesOf[a]))
        BY <2>7 DEF PrepareArr
      <3>2. Slots' /\ Registered'
        BY <2>4, <3>1, FillJobs, SpawnedFacts
      <3> QED
        BY <2>1, <2>2, <2>3, <2>7, <3>2 DEF PrepareArr, main, Queue
    <2>8. ASSUME NEW a \in Arr, Respawn(a) PROVE JobsInv'
      <3>1. PICK f \in Spawned(a), bad \in SUBSET RolesOf[a] :
              FillSlots(a, f) /\ Track(Image(f, RolesOf[a] \ bad)) /\ pending' = Enqueue(a, bad)
        BY <2>8 DEF Respawn
      <3>2. Slots' /\ Registered'
        BY <2>4, <3>1, FillJobs, SpawnedFacts
      <3>3. Listed'
        BY <2>1, <2>3, <2>8, <3>1 DEF Respawn, Enqueue, Queue
      <3> QED
        BY <2>2, <2>8, <3>2, <3>3 DEF Respawn
    <2>9. ASSUME NEW a \in Arr, RespawnFails(a) PROVE JobsInv'
      <3>1. Listed'
        BY <2>1, <2>3, <2>9 DEF RespawnFails, Enqueue, Queue
      <3> QED
        BY <2>2, <2>3, <2>9, <3>1 DEF RespawnFails, tracked
    <2>10. ASSUME NEW a \in Arr, NEW r \in Role, RetryOne(a, r) PROVE JobsInv'
      <3>1. PICK f \in Spawned(a) : FillSlots(a, f) /\ (Track(Image(f, {r} \cap RolesOf[a])) \/ UNCHANGED tracked)
        BY <2>10 DEF RetryOne
      <3>2. Slots' /\ Registered'
        BY <2>3, <2>4, <3>1, FillJobs, SpawnedFacts DEF tracked
      <3>3. Queue' \subseteq Queue
        BY <2>10 DEF RetryOne, Queue
      <3> QED
        BY <2>1, <2>2, <2>3, <2>10, <3>2, <3>3 DEF RetryOne
    <2>11. ASSUME NEW q \in Qbit, SpawnManager(q) PROVE JobsInv'
      <3>1. Registered'
        BY <2>3, <2>4, <2>11 DEF SpawnManager, tracked, Free
      <3> QED
        BY <2>1, <2>2, <2>3, <2>11, <3>1 DEF SpawnManager, main, Queue
    <2>12. ASSUME NEW p \in Proc, StartOne(p) PROVE JobsInv'
      BY <2>1, <2>2, <2>3, <2>12 DEF StartOne, tracked, Queue
    <2>13. ASSUME NEW p \in Proc, StartOneFails(p) PROVE JobsInv'
      BY <2>1, <2>2, <2>3, <2>5, <2>13 DEF StartOneFails, Queue
    <2>14. ASSUME NEW p \in Proc, ReapDead(p) PROVE JobsInv'
      BY <2>1, <2>2, <2>3, <2>5, <2>14 DEF ReapDead, Queue
    <2>15. ASSUME NEW n \in Proc, Restart(n) PROVE JobsInv'
      <3>1. Registered'
        BY <1>a, <2>3, <2>15 DEF Restart, TypeOK
      <3>2. Slots'
        <4>1. PICK a \in Target(meta) : slot' = [slot EXCEPT ![<<a, meta[2]>>] = n] /\ JobOf[n] = meta
          BY <2>15 DEF Restart
        <4>2. <<a, meta[2]>>[1] = a /\ <<a, meta[2]>>[2] = meta[2]
          OBVIOUS
        <4> QED
          BY <1>a, <4>1, <4>2, TargetSlot, SetJobs
      <3> QED
        BY <2>1, <2>2, <2>3, <2>15, <3>1, <3>2 DEF Restart, Queue
    <2>16. CASE StopAll
      BY <2>1, <2>2, <2>3, <2>16 DEF StopAll, Queue
    <2>17. CASE GiveUp
      <3>1. cur \in Proc
        BY <2>17 DEF GiveUp, TypeInv
      <3>2. Slots'
        <4>1. CASE UNCHANGED slot
          BY <2>3, <4>1
        <4>2. ASSUME NEW a \in Target(meta), NEW n \in Free, JobOf[n] = meta,
                     slot' = [slot EXCEPT ![<<a, meta[2]>>] = n]
              PROVE  Slots'
          <5>1. <<a, meta[2]>>[1] = a /\ <<a, meta[2]>>[2] = meta[2] /\ n \in Proc
            BY DEF Free
          <5> QED
            BY <1>a, <4>2, <5>1, TargetSlot, SetJobs
        <4> QED
          BY <2>17, <4>1, <4>2 DEF GiveUp
      <3> QED
        BY <2>1, <2>2, <2>3, <2>5, <2>17, <3>1, <3>2 DEF GiveUp, Queue
    <2>18. CASE Moving
      <3>1. Role # {}
        BY DEF Role
      <3> QED
        BY <2>7, <2>8, <2>9, <2>10, <2>11, <2>12, <2>13, <2>14, <2>15, <2>16, <2>17, <2>18, <3>1 DEF Moving
    <2> QED
      BY <1>1, <2>6, <2>18, QuietOrMoving DEF Beside
  <1>2. CASE Requests
    <2>1. ASSUME NEW t \in Thread, NEW j, NEW p, Ask(t, j, p), p # None => JobOf[p] = j
          PROVE  JobsInv'
      BY <2>1, RequestFrame DEF Ask, JobsInv, WebType, At, vars, main, tracked, Queue, ManagedArrs
    <2>2. ASSUME NEW t \in Thread, NEW j \in ArrJob, AskArr(t, j) PROVE JobsInv'
      <3>1. PICK a \in Arr, r \in Role : j = JobOfSlot(a, r)
        BY DEF ArrJob
      <3>2. j[2] = r /\ j[1] = CatOf[a] /\ CatOf[a] \in Category
        BY <3>1, JobFacts DEF Category
      <3>3. ArrOf(j) \in Arr /\ CatOf[ArrOf(j)] = CatOf[a]
        BY <1>a, <2>2, <3>2 DEF AskArr, ArrOf, TypeOK, JobsInv
      <3>4. <<ArrOf(j), j[2]>> \in Slot /\ JobOfSlot(ArrOf(j), j[2]) = j
        BY <3>1, <3>2, <3>3, JobFacts DEF Slot
      <3>5. slot[<<ArrOf(j), j[2]>>] # None => JobOf[slot[<<ArrOf(j), j[2]>>]] = j
        BY <3>4 DEF JobsInv
      <3> QED
        BY <2>1, <2>2, <3>5 DEF AskArr
    <2>3. ASSUME NEW t \in Thread, NEW q \in Qbit, NEW p \in Proc, AskManager(t, q, p) PROVE JobsInv'
      <3>1. JobOf[p] = ManagerJob(q)
        BY <2>3, JobFacts, SupervisorAssumption DEF AskManager, JobsInv
      <3> QED
        BY <2>1, <2>3, <3>1 DEF AskManager
    <2> QED
      BY <1>2, <2>2, <2>3 DEF Requests
  <1>3. ASSUME NEW t \in Thread, Handler(t) PROVE JobsInv'
    <2>1. UNCHANGED <<managed, pending, startup, pc, arrs, retry, cur, meta>>
      BY <1>3, RequestFrame
    <2> DEFINE Held1 == \A u \in Thread : at[u] \in {"kill", "remove", "pop"} => JobOf[old[u]] = want[u]
               Held2 == \A u \in Thread : at[u] \in {"start", "track"} => JobOf[new[u]] = want[u]
    <2>2. ASSUME Slots', Registered', Held1', Held2' PROVE JobsInv'
      BY <2>1, <2>2 DEF JobsInv, Queue, ManagedArrs
    <2>3. Slots /\ Registered /\ Held1 /\ Held2
      BY DEF JobsInv
    <2>4. CASE Kill(t)
      BY <2>2, <2>3, <2>4 DEF Kill, tracked, WebType
    <2>5. CASE Remove(t)
      BY <2>2, <2>3, <2>5 DEF Remove, tracked, WebType
    <2>6. CASE Pop(t)
      <3>1. Registered'
        BY <1>a, <2>3, <2>6 DEF Pop, TypeOK
      <3> QED
        BY <2>2, <2>3, <2>6, <3>1 DEF Pop, WebType
    <2>7. CASE Make(t)
      <3>1. PICK n \in Free : /\ JobOf[n] = want[t] /\ new' = [new EXCEPT ![t] = n]
                              /\ slot' = [slot EXCEPT ![<<ArrOf(want[t]), want[t][2]>>] = n]
                              /\ Track({n})
        BY <2>7 DEF Make
      <3>2. n \in Proc
        BY DEF Free
      <3>3. Registered'
        BY <2>3, <3>1, <3>2 DEF Track
      <3>4. Slots'
        <4>1. PICK a \in Arr, r \in Role : want[t] = JobOfSlot(a, r)
          BY <2>7 DEF Make, ArrJob
        <4>2. want[t][2] = r /\ want[t][1] = CatOf[a] /\ CatOf[a] \in Category
          BY <4>1, JobFacts DEF Category
        <4>3. CASE ArrOf(want[t]) = None
          <5>1. <<ArrOf(want[t]), want[t][2]>> \notin Slot
            BY <4>3, SupervisorAssumption DEF Slot
          <5> DEFINE s == <<ArrOf(want[t]), want[t][2]>>
          <5>2. s \notin Slot /\ slot' = [slot EXCEPT ![s] = n] /\ DOMAIN slot = Slot
            BY <1>a, <3>1, <5>1 DEF TypeOK
          <5> HIDE DEF s
          <5>3. \A u \in Slot : slot'[u] = slot[u]
            BY <5>2
          <5> QED
            BY <1>a, <5>3 DEF JobsInv
        <4>4. CASE ArrOf(want[t]) # None
          <5>1. ArrOf(want[t]) \in Arr /\ CatOf[ArrOf(want[t])] = CatOf[a]
            BY <1>a, <4>2, <4>4 DEF ArrOf, TypeOK, JobsInv
          <5> DEFINE s == <<ArrOf(want[t]), want[t][2]>>
          <5>2. s \in Slot /\ s[1] = ArrOf(want[t]) /\ s[2] = r
            BY <4>2, <5>1 DEF Slot
          <5>3. JobOfSlot(s[1], s[2]) = want[t]
            BY <4>1, <5>1, <5>2, JobFacts
          <5> HIDE DEF s
          <5>4. slot' = [slot EXCEPT ![s] = n]
            BY <3>1 DEF s
          <5> QED
            <6>1. JobOf[n] = JobOfSlot(s[1], s[2])
              BY <3>1, <5>3
            <6>2. \A u \in Slot : slot'[u] # None => JobOf[slot'[u]] = JobOfSlot(u[1], u[2])
              BY <1>a, <3>2, <5>2, <5>4, <6>1, SetJobs, Zenon
            <6> QED
              BY <6>2
        <4> QED
          BY <4>3, <4>4
      <3>5. Held1' /\ Held2'
        BY <2>3, <2>7, <3>1, <3>2 DEF Make, WebType
      <3> QED
        BY <2>2, <3>3, <3>4, <3>5
    <2>8. CASE Start(t)
      BY <2>2, <2>3, <2>8 DEF Start, tracked, WebType
    <2>9. CASE StartManager(t)
      <3>1. Held1' /\ Held2'
        <4>1. UNCHANGED <<want, old>> /\ t \in Thread
          BY <2>9 DEF StartManager
        <4>2. CASE at' = [at EXCEPT ![t] = "idle"] /\ UNCHANGED new
          BY <2>3, <4>1, <4>2 DEF WebType
        <4>3. ASSUME NEW n \in Free, JobOf[n] = want[t], new' = [new EXCEPT ![t] = n],
                     at' = [at EXCEPT ![t] = "track"]
              PROVE  Held1' /\ Held2'
          BY <2>3, <4>1, <4>3 DEF WebType
        <4> QED
          BY <2>9, <4>2, <4>3 DEF StartManager
      <3> QED
        BY <2>2, <2>3, <2>9, <3>1 DEF StartManager, tracked
    <2>10. CASE TrackManager(t)
      <3>1. Registered'
        BY <2>3, <2>10 DEF TrackManager, Track
      <3> QED
        BY <2>2, <2>3, <2>10, <3>1 DEF TrackManager, WebType
    <2> QED
      BY <1>3, <2>4, <2>5, <2>6, <2>7, <2>8, <2>9, <2>10 DEF Handler
  <1>4. CASE UNCHANGED allVars
    BY <1>4 DEF allVars, vars, web, main, tracked, JobsInv, Queue, ManagedArrs
  <1> QED
    BY <1>1, <1>2, <1>3, <1>4 DEF WebNext

-----------------------------------------------------------------------------
(* The records, unless a restart met another operation *)

\* What a step of the supervisor may do to them: it adds processes it starts, or
\* none while a thread works on a job that is not in clash, and takes away none
\* that lives or that a thread is about to start.
RecordSteps ==
    /\ \A p \in children' : (p \in children /\ registry'[p] = registry[p]) \/ registry'[p] = JobOf[p]
    /\ pc' = "start" => \/ pc = "start" /\ todo' \subseteq todo /\ \A p \in todo' : Known(p) => Known(p)'
                        \/ todo' = children /\ UNCHANGED <<children, registry>>
    /\ \A p \in children' \ children : startup # {} \/ pc = "respawn" \/ (phase[p] # "alive" /\ phase'[p] = "alive")
    /\ \A p \in Proc : Known(p) /\ phase[p] = "made" /\ pc # "start" /\ ~(pc' = "checkpoint" /\ pc' # pc)
                       => Known(p)' /\ phase'[p] \in {"made", "alive"}
    /\ \A p \in Proc : phase'[p] = "alive" /\ phase[p] # "alive" => Known(p)' \/ JobOf[p] \in clash'
    /\ \A p \in Proc : phase'[p] = "alive" /\ phase[p] = "alive" /\ Known(p) => Known(p)'

LEMMA BesideRecords ==
  ASSUME TypeInv, WebType, JobsInv, MetInv, RecordsInv, Beside(Next), RecordSteps
  PROVE  RecordsInv'
  <1>a. TypeOK
    BY DEF TypeInv
  <1>1. /\ UNCHANGED <<at, want, old, new>> /\ clash \subseteq clash' /\ BusyJobs \subseteq Job
        /\ \A t \in Thread : at[t] # "idle" => want[t] \in BusyJobs
        /\ pc' \in {"start", "checkpoint"} /\ pc' # pc => BusyJobs \subseteq clash'
        /\ \A p \in Proc : JobOf[p] \in BusyJobs /\ phase[p] # "alive" /\ phase'[p] = "alive"
                           => JobOf[p] \in clash'
        /\ pc \in {"start", "respawn"} \/ startup # {} => BusyJobs \subseteq clash
    BY BesideFacts DEF BusyJobs, Busy, WebType, MetInv
  <1>2. \A p \in children' : registry'[p] = JobOf[p] \/ JobOf[p] \in clash'
    BY <1>1 DEF RecordSteps, RecordsInv
  <1>3. pc' = "start" => \A p \in todo' : Known(p)' \/ JobOf[p] \in clash'
    BY <1>1 DEF RecordSteps, RecordsInv, Known
  <1>4. \A t \in Thread : at[t] \in {"remove", "pop"} /\ phase'[old[t]] = "alive" => want[t] \in clash'
    BY <1>1 DEF RecordsInv, JobsInv, WebType, Alive
  <1>5. \A t \in Thread : at[t] = "pop" /\ old[t] \in children' => want[t] \in clash'
    BY <1>1 DEF RecordSteps, RecordsInv, JobsInv, WebType
  <1>6. \A t \in Thread : at[t] = "start" => (Known(new[t])' /\ phase'[new[t]] = "made") \/ want[t] \in clash'
    BY <1>1 DEF RecordSteps, RecordsInv, JobsInv, WebType
  <1>7. \A p \in Proc : phase'[p] = "alive" => \/ Known(p)' \/ JobOf[p] \in clash'
                                              \/ \E t \in Thread : at[t] = "track" /\ new[t] = p
    BY <1>1 DEF RecordSteps, RecordsInv, TrackedUnlessClash, Alive, Known
  <1> QED
    BY <1>1, <1>2, <1>3, <1>4, <1>5, <1>6, <1>7 DEF RecordsInv, TrackedUnlessClash, Alive, Known

LEMMA MainRecords ==
  ASSUME TypeInv, WebType, JobsInv, MetInv, RecordsInv, Beside(Next)
  PROVE  RecordsInv'
  <1>a. TypeOK /\ (pc = "delay" => cur \in Proc /\ Dead(cur))
    BY DEF TypeInv
  <1> USE DEF Goto, Known
  <1>1. CASE Quiet
    <2>1. RecordSteps
      BY <1>1 DEF Quiet, RecordSteps
    <2> QED
      BY <2>1, BesideRecords
  <1>2. ASSUME NEW a \in Arr, PrepareArr(a) PROVE RecordSteps
    <2>1. PICK f \in Spawned(a) : Construct(Image(f, RolesOf[a]), {}) /\ Track(Image(f, RolesOf[a]))
      BY <1>2 DEF PrepareArr
    <2> DEFINE New == Image(f, RolesOf[a])
    <2>2. New \subseteq Proc /\ New \cap children = {}
      BY SpawnedFacts DEF Free
    <2>3. a \in startup /\ UNCHANGED <<pc, todo>>
      BY <1>2 DEF PrepareArr, main
    <2> HIDE DEF New
    <2>4. Construct(New, {}) /\ Track(New)
      BY <2>1 DEF New
    <2> QED
      BY <1>a, <2>2, <2>3, <2>4 DEF RecordSteps, Construct, Track, TypeOK
  <1>3. ASSUME NEW a \in Arr, Respawn(a) PROVE RecordSteps
    <2>1. PICK f \in Spawned(a), bad \in SUBSET RolesOf[a] :
            /\ Construct(Image(f, bad), Image(f, RolesOf[a] \ bad))
            /\ Track(Image(f, RolesOf[a] \ bad))
      BY <1>3 DEF Respawn
    <2> DEFINE Up == Image(f, RolesOf[a] \ bad)
               Made == Image(f, bad)
    <2>2. Up \subseteq Proc /\ Up \cap children = {} /\ Made \cap children = {}
      BY SpawnedFacts DEF Free
    <2>3. pc = "respawn" /\ UNCHANGED <<pc, todo>>
      BY <1>3 DEF Respawn
    <2> HIDE DEF Up, Made
    <2>4. Construct(Made, Up) /\ Track(Up)
      BY <2>1 DEF Up, Made
    <2> QED
      BY <1>a, <2>2, <2>3, <2>4 DEF RecordSteps, Construct, Track, TypeOK
  <1>4. ASSUME NEW a \in Arr, RespawnFails(a) PROVE RecordSteps
    BY <1>4 DEF RespawnFails, RecordSteps, tracked
  <1>5. ASSUME NEW a \in Arr, NEW r \in Role, RetryOne(a, r) PROVE RecordSteps
    <2>1. PICK f \in Spawned(a) :
            \/ /\ Construct(Image(f, RolesOf[a]), Image(f, {r} \cap RolesOf[a]))
               /\ Track(Image(f, {r} \cap RolesOf[a]))
            \/ Construct(Image(f, RolesOf[a]), {}) /\ UNCHANGED tracked
      BY <1>5 DEF RetryOne
    <2> DEFINE Up == Image(f, {r} \cap RolesOf[a])
               Made == Image(f, RolesOf[a])
    <2>2. /\ Up \subseteq Proc /\ Up \cap children = {} /\ Made \cap children = {}
          /\ \A p \in Up : phase[p] # "alive"
      BY SpawnedFacts DEF Free
    <2>3. pc = "retry" /\ UNCHANGED <<pc, todo>>
      BY <1>5 DEF RetryOne
    <2> HIDE DEF Up, Made
    <2>4. (Construct(Made, Up) /\ Track(Up)) \/ (Construct(Made, {}) /\ UNCHANGED tracked)
      BY <2>1 DEF Up, Made
    <2> QED
      BY <1>a, <2>2, <2>3, <2>4 DEF RecordSteps, Construct, Track, tracked, TypeOK
  <1>6. ASSUME NEW q \in Qbit, SpawnManager(q) PROVE RecordSteps
    <2>1. startup # {} /\ UNCHANGED <<pc, todo>>
      BY <1>6 DEF SpawnManager, main
    <2>2. CASE UNCHANGED <<phase, tracked>>
      BY <2>1, <2>2 DEF RecordSteps, tracked
    <2>3. ASSUME NEW p \in Free, Construct({p}, {p}), Track({p}) PROVE RecordSteps
      BY <1>a, <2>1, <2>3 DEF RecordSteps, Construct, Track, Free, TypeOK
    <2> QED
      BY <1>6, <2>2, <2>3 DEF SpawnManager
  <1>7. ASSUME NEW p \in Proc, StartOne(p) PROVE RecordSteps
    <2>1. /\ pc = "start" /\ p \in todo /\ phase' = [phase EXCEPT ![p] = "alive"] /\ todo' = todo \ {p}
          /\ UNCHANGED <<children, registry, pc>>
      BY <1>7 DEF StartOne, tracked
    <2>2. Known(p) \/ JobOf[p] \in clash
      BY <2>1 DEF RecordsInv
    <2> QED
      BY <1>a, <2>1, <2>2, BesideFacts DEF RecordSteps, TypeOK
  <1>8. ASSUME NEW p \in Proc, StartOneFails(p) PROVE RecordSteps
    BY <1>a, <1>8 DEF StartOneFails, Untrack, RecordSteps, TypeOK
  <1>9. ASSUME NEW p \in Proc, ReapDead(p) PROVE RecordSteps
    BY <1>a, <1>9 DEF ReapDead, Untrack, RecordSteps, TypeOK, Dead
  <1>10. ASSUME NEW n \in Proc, Restart(n) PROVE RecordSteps
    <2>1. n # cur /\ phase[n] # "alive" /\ cur \in Proc /\ Dead(cur) /\ n \notin children
      BY <1>a, <1>10 DEF Restart, Free
    <2> QED
      BY <1>a, <1>10, <2>1 DEF Restart, RecordSteps, TypeOK, Dead
  <1>11. ASSUME StopAll PROVE RecordSteps
    <2>1. /\ pc = "loop" /\ pc' = "checkpoint" /\ children' = {}
          /\ \A p \in Proc : phase'[p] = IF p \in children /\ phase[p] = "alive" THEN "crashed" ELSE phase[p]
      BY <1>11 DEF StopAll
    <2> QED
      BY <2>1 DEF RecordSteps
  <1>12. ASSUME GiveUp PROVE RecordSteps
    <2>1. \A p \in Proc : phase'[p] = phase[p] \/ (p \notin children /\ phase'[p] = "made")
      BY <1>a, <1>12 DEF GiveUp, Free, TypeOK
    <2>2. pc = "delay" /\ pc' = "reap" /\ Untrack(cur)
      BY <1>12 DEF GiveUp
    <2> QED
      BY <1>a, <2>1, <2>2 DEF Untrack, RecordSteps, TypeOK, Dead
  <1>13. CASE Moving
    <2>1. Role # {}
      BY DEF Role
    <2>2. RecordSteps
      BY <1>13, <1>2, <1>3, <1>4, <1>5, <1>6, <1>7, <1>8, <1>9, <1>10, <1>11, <1>12, <2>1 DEF Moving
    <2> QED
      BY <2>2, BesideRecords
  <1> QED
    BY <1>1, <1>13, QuietOrMoving DEF Beside

LEMMA StepRecords ==
  TypeInv /\ WebType /\ JobsInv /\ MetInv /\ RecordsInv /\ [WebNext]_allVars => RecordsInv'
  <1> SUFFICES ASSUME TypeInv, WebType, JobsInv, MetInv, RecordsInv, [WebNext]_allVars
               PROVE  RecordsInv'
    OBVIOUS
  <1>a. TypeOK
    BY DEF TypeInv
  <1>b. \A t, u \in Thread : t # u /\ at[t] # "idle" /\ at[u] # "idle" /\ want[t] = want[u] => want[t] \in clash
    BY DEF MetInv, Busy
  <1>c. pc = "start" => \A t \in Thread : at[t] # "idle" => want[t] \in clash
    BY DEF MetInv, Busy, BusyJobs
  <1> USE DEF Known, TrackedUnlessClash, Alive
  <1>1. CASE Beside(Next)
    BY <1>1, MainRecords
  <1>2. CASE Requests
    <2>1. ASSUME NEW t \in Thread, NEW j, NEW p, Ask(t, j, p) PROVE RecordsInv'
      <3>1. /\ UNCHANGED <<phase, children, registry, pc, todo>> /\ clash \subseteq clash'
            /\ at[t] = "idle" /\ \A u \in Thread : u # t => at'[u] = at[u] /\ want'[u] = want[u]
                                                            /\ old'[u] = old[u] /\ new'[u] = new[u]
            /\ at'[t] \in {"kill", "make"}
        BY <2>1 DEF Ask, vars, main, tracked, WebType
      <3> QED
        BY <3>1 DEF RecordsInv
    <2>2. ASSUME NEW t \in Thread, NEW j \in ArrJob, AskArr(t, j) PROVE RecordsInv'
      BY <2>1, <2>2 DEF AskArr
    <2>3. ASSUME NEW t \in Thread, NEW q \in Qbit, NEW p \in Proc, AskManager(t, q, p) PROVE RecordsInv'
      BY <2>1, <2>3 DEF AskManager
    <2> QED
      BY <1>2, <2>2, <2>3 DEF Requests
  <1>3. ASSUME NEW t \in Thread, Handler(t) PROVE RecordsInv'
    <2>1. UNCHANGED <<pc, todo, clash, want, old>>
      BY <1>3, RequestFrame DEF Handler, Kill, Remove, Pop, Make, Start, StartManager, TrackManager
    <2>2. \A u \in Thread : at[u] # "idle" => old[u] \in Held /\ new[u] \in Held
      BY DEF Held, Busy
    <2>3. CASE Kill(t)
      BY <1>a, <2>1, <2>3 DEF Kill, tracked, RecordsInv, WebType, TypeOK
    <2>4. CASE Remove(t)
      <3>1. /\ at[t] = "remove" /\ at' = [at EXCEPT ![t] = "pop"] /\ children' = children \ {old[t]}
            /\ UNCHANGED <<phase, registry, new>>
        BY <2>4 DEF Remove
      <3>2. old[t] \in Proc /\ JobOf[old[t]] = want[t] /\ (phase[old[t]] = "alive" => want[t] \in clash)
        BY <3>1 DEF RecordsInv, JobsInv, WebType
      <3>3. \A p \in children' : registry'[p] = JobOf[p] \/ JobOf[p] \in clash'
        BY <2>1, <3>1 DEF RecordsInv
      <3>4. pc' = "start" => \A p \in todo' : Known(p)' \/ JobOf[p] \in clash'
        BY <1>c, <2>1, <3>1, <3>2 DEF RecordsInv
      <3>5. \A u \in Thread : at'[u] = "start" => (Known(new[u])' /\ phase'[new'[u]] = "made") \/ want'[u] \in clash'
        BY <1>b, <2>1, <3>1, <3>2 DEF RecordsInv, JobsInv, WebType
      <3>6. TrackedUnlessClash'
        BY <2>1, <3>1, <3>2 DEF RecordsInv, WebType
      <3> QED
        BY <2>1, <3>1, <3>2, <3>3, <3>4, <3>5, <3>6 DEF RecordsInv, WebType
    <2>5. CASE Pop(t)
      <3>1. /\ at[t] = "pop" /\ at' = [at EXCEPT ![t] = "make"] /\ registry' = [registry EXCEPT ![old[t]] = None]
            /\ UNCHANGED <<phase, children, new>>
        BY <2>5 DEF Pop
      <3>2. /\ old[t] \in Proc /\ JobOf[old[t]] = want[t] /\ (phase[old[t]] = "alive" => want[t] \in clash)
            /\ old[t] \in children => want[t] \in clash
        BY <3>1 DEF RecordsInv, JobsInv, WebType
      <3>3. \A p \in children' : registry'[p] = JobOf[p] \/ JobOf[p] \in clash'
        BY <1>a, <2>1, <3>1, <3>2 DEF RecordsInv, TypeOK
      <3>4. pc' = "start" => \A p \in todo' : Known(p)' \/ JobOf[p] \in clash'
        BY <1>a, <1>c, <2>1, <3>1, <3>2 DEF RecordsInv, TypeOK
      <3>5. \A u \in Thread : at'[u] = "start" => (Known(new[u])' /\ phase'[new'[u]] = "made") \/ want'[u] \in clash'
        BY <1>a, <1>b, <2>1, <3>1, <3>2 DEF RecordsInv, JobsInv, WebType, TypeOK
      <3>6. TrackedUnlessClash'
        BY <1>a, <2>1, <3>1, <3>2 DEF RecordsInv, WebType, TypeOK
      <3> QED
        BY <2>1, <3>1, <3>2, <3>3, <3>4, <3>5, <3>6 DEF RecordsInv, WebType
    <2>6. CASE Make(t)
      <3>1. PICK n \in Free \ Held : /\ JobOf[n] = want[t] /\ new' = [new EXCEPT ![t] = n]
                                     /\ Construct({n}, {}) /\ Track({n})
        BY <2>6 DEF Make
      <3>2. /\ n \in Proc /\ n \notin children /\ at[t] = "make" /\ at' = [at EXCEPT ![t] = "start"]
            /\ \A u \in Thread : at[u] # "idle" => old[u] # n /\ new[u] # n
        BY <2>2, <2>6, <3>1 DEF Make, Free
      <3>3. /\ \A p \in Proc : phase'[p] = IF p = n THEN "made" ELSE phase[p]
            /\ \A p \in Proc : registry'[p] = IF p = n THEN JobOf[p] ELSE registry[p]
            /\ children' = children \cup {n}
        BY <3>1 DEF Construct, Track
      <3>4. \A p \in Proc : Known(p) => Known(p)'
        BY <3>3
      <3>5. \A u \in Thread : at'[u] = "start" => (Known(new[u])' /\ phase'[new'[u]] = "made") \/ want'[u] \in clash'
        <4>1. Known(new[t])' /\ phase'[new'[t]] = "made"
          BY <3>1, <3>2, <3>3 DEF WebType
        <4>2. \A u \in Thread : u # t => at'[u] = at[u] /\ new'[u] = new[u]
          BY <3>1, <3>2 DEF WebType
        <4> QED
          BY <2>1, <3>2, <3>3, <3>4, <4>1, <4>2 DEF RecordsInv, WebType
      <3>6. TrackedUnlessClash'
        <4>1. \A u \in Thread : at[u] = "track" => at'[u] = "track" /\ new'[u] = new[u]
          BY <3>1, <3>2 DEF WebType
        <4> QED
          BY <2>1, <3>3, <3>4, <4>1 DEF RecordsInv
      <3>7. \A u \in Thread : at'[u] \in {"remove", "pop"} => at[u] = at'[u] /\ old[u] # n /\ old[u] \in Proc
        BY <3>2 DEF WebType
      <3>8. \A p \in children' : registry'[p] = JobOf[p] \/ JobOf[p] \in clash'
        BY <1>a, <2>1, <3>2, <3>3 DEF RecordsInv, TypeOK
      <3>9. pc' = "start" => \A p \in todo' : Known(p)' \/ JobOf[p] \in clash'
        BY <1>a, <2>1, <3>4 DEF RecordsInv, TypeOK
      <3>10. \A u \in Thread : at'[u] \in {"remove", "pop"} /\ phase'[old[u]] = "alive" => want[u] \in clash
        BY <3>3, <3>7 DEF RecordsInv
      <3>11. \A u \in Thread : at'[u] = "pop" /\ old[u] \in children' => want[u] \in clash
        BY <3>3, <3>7 DEF RecordsInv
      <3> QED
        BY <2>1, <3>5, <3>6, <3>8, <3>9, <3>10, <3>11 DEF RecordsInv
    <2>7. CASE Start(t)
      <3>1. /\ at[t] = "start" /\ at' = [at EXCEPT ![t] = "idle"]
            /\ UNCHANGED <<children, registry, new>>
            /\ phase' = phase \/ phase' = [phase EXCEPT ![new[t]] = "alive"]
        BY <2>7 DEF Start, tracked
      <3>2. new[t] \in Proc /\ JobOf[new[t]] = want[t] /\ (Known(new[t]) \/ want[t] \in clash)
        BY <3>1 DEF RecordsInv, JobsInv, WebType
      <3>3. \A p \in Proc : p # new[t] => phase'[p] = phase[p]
        BY <1>a, <3>1 DEF TypeOK
      <3>4. \A u \in Thread : at'[u] # "idle" => u # t /\ at[u] = at'[u]
        BY <3>1 DEF WebType
      <3>5. \A u \in Thread : at'[u] \in {"remove", "pop"} /\ phase'[old[u]] = "alive" => want[u] \in clash
        BY <1>b, <3>1, <3>2, <3>3, <3>4 DEF RecordsInv, JobsInv, WebType
      <3>6. \A u \in Thread : at'[u] = "start" => (Known(new[u])' /\ phase'[new'[u]] = "made") \/ want'[u] \in clash'
        BY <1>b, <2>1, <3>1, <3>2, <3>3, <3>4 DEF RecordsInv, JobsInv, WebType
      <3>7. TrackedUnlessClash'
        <4>1. \A u \in Thread : at[u] = "track" => at'[u] = "track"
          BY <3>1 DEF WebType
        <4> QED
          BY <2>1, <3>1, <3>2, <3>3, <4>1 DEF RecordsInv
      <3> QED
        BY <2>1, <3>1, <3>4, <3>5, <3>6, <3>7 DEF RecordsInv
    <2>8. CASE StartManager(t)
      <3>1. at[t] = "make" /\ UNCHANGED <<children, registry>>
        BY <2>8 DEF StartManager, tracked
      <3>2. CASE at' = [at EXCEPT ![t] = "idle"] /\ UNCHANGED <<phase, new>>
        BY <2>1, <3>1, <3>2 DEF RecordsInv, WebType
      <3>3. ASSUME NEW n \in Free \ Held, new' = [new EXCEPT ![t] = n], Construct({n}, {n}),
                   at' = [at EXCEPT ![t] = "track"]
            PROVE  RecordsInv'
        <4>1. /\ n \in Proc /\ n \notin children
              /\ \A u \in Thread : at[u] # "idle" => old[u] # n /\ new[u] # n
          BY <2>2, <3>3 DEF Free
        <4>2. \A p \in Proc : phase'[p] = IF p = n THEN "alive" ELSE phase[p]
          BY <3>3 DEF Construct
        <4>3. \A u \in Thread : u # t => at'[u] = at[u] /\ new'[u] = new[u]
          BY <3>3 DEF WebType
        <4>4. at'[t] = "track" /\ new'[t] = n
          BY <3>3 DEF WebType
        <4>5. \A u \in Thread : at'[u] \in {"remove", "pop"} /\ phase'[old[u]] = "alive" => want[u] \in clash
          BY <4>1, <4>2, <4>3, <4>4 DEF RecordsInv, WebType
        <4>6. \A u \in Thread : at'[u] = "start" => (Known(new[u])' /\ phase'[new'[u]] = "made") \/ want'[u] \in clash'
          BY <2>1, <3>1, <4>1, <4>2, <4>3, <4>4 DEF RecordsInv, WebType
        <4>7. TrackedUnlessClash'
          BY <2>1, <3>1, <4>1, <4>2, <4>3, <4>4 DEF RecordsInv, WebType
        <4>8. \A u \in Thread : at'[u] = "pop" => at[u] = "pop"
          BY <4>3, <4>4
        <4> QED
          BY <2>1, <3>1, <4>5, <4>6, <4>7, <4>8 DEF RecordsInv
      <3> QED
        BY <2>8, <3>2, <3>3 DEF StartManager
    <2>9. CASE TrackManager(t)
      <3>1. /\ at[t] = "track" /\ at' = [at EXCEPT ![t] = "idle"] /\ UNCHANGED <<phase, new>>
            /\ \A p \in Proc : registry'[p] = IF p = new[t] THEN JobOf[p] ELSE registry[p]
            /\ children' = children \cup {new[t]}
        BY <2>9 DEF TrackManager, Track
      <3>2. new[t] \in Proc /\ JobOf[new[t]] = want[t]
        BY <3>1 DEF JobsInv, WebType
      <3>3. \A u \in Thread : at'[u] # "idle" => u # t /\ at[u] = at'[u]
        BY <3>1 DEF WebType
      <3>4. \A p \in Proc : Known(p) => Known(p)'
        BY <3>1
      <3>5. \A u \in Thread : at'[u] = "pop" /\ old[u] \in children' => want[u] \in clash
        BY <1>b, <3>1, <3>2, <3>3 DEF RecordsInv, JobsInv, WebType
      <3>6. \A u \in Thread : at'[u] = "start" => (Known(new[u])' /\ phase'[new'[u]] = "made") \/ want'[u] \in clash'
        BY <2>1, <3>1, <3>3, <3>4 DEF RecordsInv, WebType
      <3>7. TrackedUnlessClash'
        <4>1. \A u \in Thread : u # t => at'[u] = at[u]
          BY <3>1 DEF WebType
        <4>2. Known(new[t])'
          BY <3>1, <3>2
        <4> QED
          BY <2>1, <3>1, <3>4, <4>1, <4>2 DEF RecordsInv
      <3>8. \A p \in children' : registry'[p] = JobOf[p] \/ JobOf[p] \in clash'
        BY <1>a, <2>1, <3>1, <3>2 DEF RecordsInv, TypeOK
      <3>9. pc' = "start" => \A p \in todo' : Known(p)' \/ JobOf[p] \in clash'
        BY <1>a, <2>1, <3>4 DEF RecordsInv, TypeOK
      <3> QED
        BY <2>1, <3>1, <3>3, <3>5, <3>6, <3>7, <3>8, <3>9 DEF RecordsInv
    <2> QED
      BY <1>3, <2>3, <2>4, <2>5, <2>6, <2>7, <2>8, <2>9 DEF Handler
  <1>4. CASE UNCHANGED allVars
    BY <1>4 DEF allVars, vars, web, main, tracked, RecordsInv
  <1> QED
    BY <1>1, <1>2, <1>3, <1>4 DEF WebNext

-----------------------------------------------------------------------------
(* The claims, unless a restart met another operation *)

LEMMA OneManagedArr ==
  ASSUME JobsInv, NEW a \in ManagedArrs, NEW b \in ManagedArrs, CatOf[a] = CatOf[b]
  PROVE  a = b
  <1>1. PICK c, d \in Category : managed[c] = a /\ managed[d] = b /\ a # None /\ b # None
    BY DEF ManagedArrs
  <1> QED
    BY <1>1 DEF JobsInv

\* A process that a thread is about to start or to track has the job of its request.
LEMMA DueFacts ==
  ASSUME WebType, JobsInv
  PROVE  /\ \A p : \A t \in Thread : at[t] \in {"start", "track"} /\ new[t] = p => JobOf[p] \in BusyJobs
         /\ \A p : Due(p) => Claims(p) \/ JobOf[p] \in BusyJobs
  BY DEF JobsInv, WebType, BusyJobs, Busy, Due

\* Only the loop of an Arr object of a category has that category in its job.
LEMMA CategoryJob ==
  ASSUME NEW p \in Proc, NEW a \in Arr, JobOf[p][1] = CatOf[a]
  PROVE  JobOf[p] \in ArrJob
  BY SupervisorAssumption DEF Job, ManagerJob, Category

\* A step that adds no due process, and queues no start of one, keeps the claims.
LEMMA FewerDue ==
  ASSUME TypeInv, JobsInv, DueInv, Excused \subseteq Excused',
         \A p \in Proc : Due(p)' => Due(p),
         \A p \in Proc : Due(p)' /\ JobOf[p] \in (QueuedJobs \cup failed)'
                         => JobOf[p] \in QueuedJobs \cup failed \/ JobOf[p] \in Excused',
         startup' \subseteq startup,
         \A q \in startup' \cap Qbit : ManagerJob(q) \in failed' => ManagerJob(q) \in failed \cup Excused',
         pc' = "boot" => pc = "boot",
         pc' = "checkpoint" => pc = "checkpoint" \/ \A p \in Proc : Due(p)' => JobOf[p] \in Excused',
         pc' = "respawn" => (pc = "respawn" /\ arrs' \subseteq arrs) \/ (pc = "checkpoint" /\ arrs' = ManagedArrs)
  PROVE  DueInv'
  <1>1. ManagedArrs \subseteq Arr
    BY DEF TypeInv, TypeOK, ManagedArrs
  <1>2. pc' = "respawn" => \A p \in Proc, a \in arrs' : Due(p)' /\ JobOf[p][1] = CatOf[a] => JobOf[p] \in Excused'
    BY <1>1, CategoryJob DEF DueInv
  <1> QED
    BY <1>2 DEF DueInv

\* What a step of the supervisor may do beside the threads.
DueSteps ==
    /\ \A p \in Proc : Due(p)' => Due(p) \/ (JobOf[p] \in BusyJobs => JobOf[p] \in Excused')
    /\ \A j \in BusyJobs : j \in (QueuedJobs \cup failed)' => j \in QueuedJobs \cup failed \/ j \in Excused'
    /\ \A p \in children' : JobOf[p] \notin ArrJob => p \in children \/ phase'[p] # "made"
    /\ \A p \in Proc : phase[p] # "made" /\ phase'[p] = "made" => JobOf[p] \in ArrJob
    /\ \A p \in Proc : registry'[p] # None => p \in children' \/ (p \notin children /\ registry[p] # None)
    /\ pc' = "delay" => \/ pc = "delay" /\ UNCHANGED <<cur, meta>> /\ children \subseteq children'
                        \/ cur' \in Proc /\ meta' = registry[cur'] /\ children' = children

LEMMA BesideThreads ==
  ASSUME TypeInv, WebType, JobsInv, MetInv, ThreadInv, Beside(Next), DueSteps
  PROVE  ThreadInv'
  <1>1. /\ UNCHANGED <<at, want, old, new>> /\ UNCHANGED <<Busy, BusyJobs>>
        /\ clash \subseteq clash' /\ Excused \subseteq Excused' /\ clash' \subseteq Excused'
        /\ meta' \in BusyJobs /\ meta' # meta => meta' \in clash'
        /\ \A t \in Busy : want[t] \in BusyJobs
    BY BesideFacts DEF Excused, BusyJobs
  <1>2. \A t \in Busy : want[t] \in (QueuedJobs \cup failed)' => want[t] \in Excused'
    BY <1>1 DEF DueSteps, ThreadInv
  <1>3. \A t \in Busy, p \in Proc : at[t] \in {"kill", "remove"} /\ Due(p)' /\ JobOf[p] = want[t] /\ p # old[t]
                                    => want[t] \in Excused'
    BY <1>1 DEF DueSteps, ThreadInv
  <1>4. \A t \in Busy, p \in Proc : at[t] \in {"pop", "make"} /\ Due(p)' /\ JobOf[p] = want[t]
                                    => want[t] \in Excused'
    BY <1>1 DEF DueSteps, ThreadInv
  <1>5. \A t \in Thread : at[t] = "track" => want[t] \notin ArrJob /\ phase'[new[t]] # "made"
    BY DEF DueSteps, ThreadInv, JobsInv, WebType
  <1>6. \A p \in children' : JobOf[p] \notin ArrJob => phase'[p] # "made"
    BY DEF DueSteps, ThreadInv, TypeInv, TypeOK
  <1>7. \A p \in Proc : registry'[p] # None => p \in children' \/ \E t \in Thread : at[t] = "pop" /\ old[t] = p
    BY DEF DueSteps, ThreadInv
  <1>8. pc' = "delay" /\ meta' # None => cur' \in children' \/ meta' \in Excused'
    <2>1. CASE pc = "delay" /\ UNCHANGED <<cur, meta>> /\ children \subseteq children'
      BY <1>1, <2>1 DEF ThreadInv
    <2>2. CASE cur' \in Proc /\ meta' = registry[cur'] /\ children' = children /\ meta' # None /\ cur' \notin children
      <3>1. PICK t \in Thread : at[t] = "pop" /\ old[t] = cur'
        BY <2>2 DEF ThreadInv
      <3>2. JobOf[cur'] = want[t] /\ meta' = JobOf[cur'] /\ want[t] \in BusyJobs
        BY <2>2, <3>1 DEF JobsInv, BusyJobs, Busy
      <3> QED
        BY <1>1, <3>2 DEF MetInv
    <2> QED
      BY <2>1, <2>2 DEF DueSteps
  <1> QED
    BY <1>1, <1>2, <1>3, <1>4, <1>5, <1>6, <1>7, <1>8 DEF ThreadInv

\* A quiet step of the supervisor, and one that only takes processes away.
LEMMA QuietDue == ASSUME WebInv, Beside(Next), Quiet PROVE DueInv' /\ DueSteps
  <1> USE DEF WebInv
  <1>1. UNCHANGED <<at, want, old, new>> /\ Excused \subseteq Excused'
    BY BesideFacts
  <1>2. \A p \in Proc : Due(p)' => Due(p)
    BY <1>1 DEF Quiet, Due
  <1>3. \A j : j \in (QueuedJobs \cup failed)' => j \in QueuedJobs \cup failed
    BY DEF Quiet, QueuedJobs
  <1>4. DueInv'
    BY <1>1, <1>2, <1>3, FewerDue DEF Quiet
  <1>5. DueSteps
    BY <1>2, <1>3 DEF Quiet, DueSteps
  <1> QED
    BY <1>4, <1>5

LEMMA PrepareDue == ASSUME WebInv, Beside(Next), NEW a \in Arr, PrepareArr(a) PROVE DueInv' /\ DueSteps
  <1> USE DEF WebInv
  <1>a. TypeOK
    BY DEF TypeInv
  <1>1. PICK f \in Spawned(a) : Construct(Image(f, RolesOf[a]), {}) /\ Track(Image(f, RolesOf[a]))
    BY DEF PrepareArr
  <1> DEFINE New == Image(f, RolesOf[a])
  <1>2. /\ New \subseteq Proc /\ New \cap children = {} /\ New \cap todo = {}
        /\ \A p \in New : JobOf[p] \in ArrJob /\ JobOf[p][1] = CatOf[a]
        /\ \A p, q \in New : JobOf[p] = JobOf[q] => p = q
    BY SpawnedJobs DEF Free
  <1>3. /\ children' = children \cup New
        /\ \A p \in Proc : phase'[p] = IF p \in New THEN "made" ELSE phase[p]
        /\ \A p \in Proc : registry'[p] = IF p \in New THEN JobOf[p] ELSE registry[p]
        /\ UNCHANGED <<pending, retry, failed, overlap, pc, todo, arrs, managed, cur, meta>>
        /\ startup' = startup \ {a} /\ a \in startup
    BY <1>1 DEF PrepareArr, main, Construct, Track
  <1>4. /\ UNCHANGED <<at, want, old, new>> /\ Excused \subseteq Excused' /\ BusyJobs \subseteq Excused'
        /\ QueuedJobs' = QueuedJobs
    BY <1>3, BesideFacts DEF MetInv, Excused, QueuedJobs, Queue
  <1> HIDE DEF New
  <1>5. \A p \in Proc : Due(p)' => Due(p) \/ (p \in New /\ pc = "boot")
    BY <1>2, <1>3, <1>4 DEF Due, Claims
  <1>6. DueSteps
    <2>1. \A p \in Proc : Due(p)' => Due(p) \/ (JobOf[p] \in BusyJobs => JobOf[p] \in Excused')
      BY <1>4
    <2> QED
      BY <1>a, <1>2, <1>3, <1>4, <2>1 DEF DueSteps, TypeOK
  <1>7. CASE pc # "boot"
    <2>1. DueInv'
      BY <1>3, <1>4, <1>5, <1>7, FewerDue
    <2> QED
      BY <1>6, <2>1
  <1>8. CASE pc = "boot"
    <2>1. QueuedJobs' = {} /\ failed' = {}
      BY <1>3, <1>8 DEF EmptyInv, QueuedJobs, Queue
    <2>2. \A p \in Proc : Due(p) /\ JobOf[p][1] = CatOf[a] => JobOf[p] \in Excused'
      BY <1>3, <1>4, <1>8 DEF DueInv
    <2>3. \A p, q \in Proc : Due(p)' /\ Due(q)' /\ JobOf[p] = JobOf[q] /\ p # q => JobOf[p] \in Excused'
      <3> SUFFICES ASSUME NEW p \in Proc, NEW q \in Proc, Due(p)', Due(q)', JobOf[p] = JobOf[q], p # q
                   PROVE  JobOf[p] \in Excused'
        OBVIOUS
      <3>1. CASE Due(p) /\ Due(q)
        BY <1>4, <3>1 DEF DueInv
      <3>2. CASE p \in New
        BY <1>2, <1>5, <2>2, <3>2
      <3>3. CASE q \in New
        BY <1>2, <1>5, <2>2, <3>3
      <3> QED
        BY <1>5, <3>1, <3>2, <3>3
    <2>4. \A p \in Proc, q \in startup' \cap Qbit : Due(p)' /\ JobOf[p] = ManagerJob(q) => JobOf[p] \in Excused'
      BY <1>2, <1>3, <1>4, <1>5, JobFacts DEF DueInv
    <2>5. \A p \in Proc, b \in startup' \cap Arr : Due(p)' /\ JobOf[p][1] = CatOf[b] => JobOf[p] \in Excused'
      <3>1. \A b \in startup' \cap Arr : CatOf[b] # CatOf[a]
        BY <1>3, OneManagedArr DEF JobsInv
      <3> QED
        BY <1>2, <1>3, <1>4, <1>5, <1>8, <3>1 DEF DueInv
    <2>6. DueInv'
      BY <1>3, <1>8, <2>1, <2>3, <2>4, <2>5 DEF DueInv
    <2> QED
      BY <1>6, <2>6
  <1> QED
    BY <1>7, <1>8

LEMMA SpawnManagerDue == ASSUME WebInv, Beside(Next), NEW q \in Qbit, SpawnManager(q) PROVE DueInv' /\ DueSteps
  <1> USE DEF WebInv
  <1>a. TypeOK
    BY DEF TypeInv
  <1>1. /\ UNCHANGED <<pending, retry, failed, overlap, pc, todo, arrs, managed, cur, meta>>
        /\ startup' = startup \ {q} /\ q \in startup
    BY DEF SpawnManager, main
  <1>2. /\ UNCHANGED <<at, want, old, new>> /\ Excused \subseteq Excused' /\ BusyJobs \subseteq Excused'
        /\ QueuedJobs' = QueuedJobs
    BY <1>1, BesideFacts DEF MetInv, Excused, QueuedJobs, Queue
  <1>3. CASE UNCHANGED <<phase, tracked>>
    <2>1. \A p \in Proc : Due(p)' => Due(p)
      BY <1>1, <1>2, <1>3 DEF Due, Claims, tracked
    <2>2. DueInv'
      BY <1>1, <1>2, <2>1, FewerDue
    <2>3. DueSteps
      BY <1>a, <1>1, <1>2, <1>3, <2>1 DEF DueSteps, tracked, TypeOK
    <2> QED
      BY <2>2, <2>3
  <1>4. ASSUME NEW m \in Free, JobOf[m] = ManagerJob(q), Construct({m}, {m}), Track({m})
        PROVE  DueInv' /\ DueSteps
    <2>1. /\ m \in Proc /\ m \notin children /\ children' = children \cup {m}
          /\ \A p \in Proc : phase'[p] = IF p = m THEN "alive" ELSE phase[p]
          /\ \A p \in Proc : registry'[p] = IF p = m THEN JobOf[p] ELSE registry[p]
      BY <1>4 DEF Construct, Track, Free
    <2>2. \A p \in Proc : Due(p)' => Due(p) \/ p = m
      BY <1>1, <1>2, <2>1 DEF Due, Claims
    <2>3. DueSteps
      BY <1>a, <1>1, <1>2, <2>1 DEF DueSteps, TypeOK
    <2>4. ManagerJob(q) \notin QueuedJobs /\ ManagerJob(q) \notin ArrJob
      BY <1>a, JobFacts DEF TypeOK, Slot, Queue, QueuedJobs
    <2>5. ManagerJob(q)[1] = q /\ \A b \in Arr : CatOf[b] # q
      BY SupervisorAssumption DEF ManagerJob, Category
    <2>6. \A x \in (startup \ {q}) \cap Qbit : ManagerJob(x) # ManagerJob(q)
      BY JobFacts
    <2>7. /\ \A p \in Proc : Due(p) /\ JobOf[p] = ManagerJob(q) => JobOf[p] \in Excused'
          /\ ManagerJob(q) \in failed => ManagerJob(q) \in Excused'
      BY <1>1, <1>2 DEF DueInv
    <2>8. \A p, r \in Proc : Due(p)' /\ Due(r)' /\ JobOf[p] = JobOf[r] /\ p # r => JobOf[p] \in Excused'
      BY <1>2, <1>4, <2>2, <2>7 DEF DueInv
    <2>9. \A p \in Proc : Due(p)' /\ JobOf[p] \in (QueuedJobs \cup failed)' => JobOf[p] \in Excused'
      BY <1>1, <1>2, <1>4, <2>2, <2>4, <2>7 DEF DueInv
    <2>10. \A p \in Proc, x \in startup' \cap Qbit : Due(p)' /\ JobOf[p] = ManagerJob(x) => JobOf[p] \in Excused'
      BY <1>1, <1>2, <1>4, <2>2, <2>6 DEF DueInv
    <2>11. \A x \in startup' \cap Qbit : ManagerJob(x) \in failed' => ManagerJob(x) \in Excused'
      BY <1>1, <1>2 DEF DueInv
    <2>12. pc' = "boot" => \A p \in Proc, b \in startup' \cap Arr : Due(p)' /\ JobOf[p][1] = CatOf[b]
                                                                  => JobOf[p] \in Excused'
      BY <1>1, <1>2, <1>4, <2>2, <2>5 DEF DueInv
    <2>13. pc' = "checkpoint" => \A p \in Proc : Due(p)' /\ JobOf[p] \in ArrJob => JobOf[p] \in Excused'
      BY <1>1, <1>2, <1>4, <2>2, <2>4 DEF DueInv
    <2>14. pc' = "respawn" => \A p \in Proc, b \in arrs' : Due(p)' /\ JobOf[p][1] = CatOf[b] => JobOf[p] \in Excused'
      BY <1>a, <1>1, <1>2, <1>4, <2>2, <2>5 DEF DueInv, TypeOK
    <2>15. DueInv'
      BY <2>8, <2>9, <2>10, <2>11, <2>12, <2>13, <2>14 DEF DueInv
    <2> QED
      BY <2>3, <2>15
  <1> QED
    BY <1>3, <1>4 DEF SpawnManager

LEMMA RespawnDue == ASSUME WebInv, Beside(Next), NEW a \in Arr, Respawn(a) PROVE DueInv' /\ DueSteps
  <1> USE DEF WebInv
  <1>a. TypeOK
    BY DEF TypeInv
  <1>1. PICK f \in Spawned(a), bad \in SUBSET RolesOf[a] :
          LET up == RolesOf[a] \ bad IN
          /\ Construct(Image(f, bad), Image(f, up))
          /\ Track(Image(f, up))
          /\ pending' = Enqueue(a, bad)
          /\ overlap' = overlap \cup ({JobOfSlot(a, r) : r \in up} \cap PendingJobs)
    BY DEF Respawn
  <1> DEFINE New == Image(f, RolesOf[a] \ bad)
             Made == Image(f, bad)
  <1>2. /\ New \subseteq Proc /\ New \cap children = {} /\ Made \cap children = {}
        /\ \A p \in New : /\ JobOf[p] \in ArrJob /\ JobOf[p][1] = CatOf[a]
                          /\ \E r \in RolesOf[a] \ bad : JobOf[p] = JobOfSlot(a, r)
        /\ \A p \in Made : JobOf[p] \in ArrJob
        /\ \A p, q \in New : JobOf[p] = JobOf[q] => p = q
    <2>1. /\ New \subseteq Free /\ New \subseteq Proc
          /\ \A p \in New : /\ JobOf[p] \in ArrJob /\ JobOf[p][1] = CatOf[a]
                            /\ \E r \in RolesOf[a] \ bad : JobOf[p] = JobOfSlot(a, r)
          /\ \A p, q \in New : JobOf[p] = JobOf[q] => p = q
      BY SpawnedJobs
    <2>2. Made \subseteq Free /\ \A p \in Made : JobOf[p] \in ArrJob
      BY SpawnedJobs
    <2>3. Free \cap children = {}
      BY DEF Free
    <2> QED
      BY <2>1, <2>2, <2>3
  <1>3. /\ pc = "respawn" /\ a \in arrs /\ arrs \subseteq Arr /\ retry = {} /\ failed = {}
        /\ arrs' = arrs \ {a} /\ UNCHANGED <<retry, failed, pc, todo, startup, managed, cur, meta>>
    BY <1>a DEF Respawn, EmptyInv, TypeOK
  <1>4. /\ UNCHANGED <<at, want, old, new>> /\ Excused \subseteq Excused' /\ BusyJobs \subseteq Excused'
        /\ overlap' \subseteq Excused'
    BY <1>3, BesideFacts DEF MetInv, Excused
  <1>5. \A j \in QueuedJobs' : j \in PendingJobs \/ \E r \in bad : j = JobOfSlot(a, r)
    BY <1>1, <1>3 DEF Enqueue, PendingJobs, QueuedJobs, Queue
  <1>6. PendingJobs \subseteq QueuedJobs
    BY DEF PendingJobs, QueuedJobs, Queue
  <1>7. /\ children' = children \cup New
        /\ \A p \in Proc : phase'[p] = IF p \in New THEN "alive" ELSE IF p \in Made THEN "made" ELSE phase[p]
        /\ \A p \in Proc : registry'[p] = IF p \in New THEN JobOf[p] ELSE registry[p]
    BY <1>1 DEF Construct, Track
  <1>8. \A p \in New : JobOf[p] \in QueuedJobs' => JobOf[p] \in Excused'
    <2> SUFFICES ASSUME NEW p \in New, JobOf[p] \in QueuedJobs' PROVE JobOf[p] \in Excused'
      OBVIOUS
    <2>1. PICK r \in RolesOf[a] \ bad : JobOf[p] = JobOfSlot(a, r)
      BY <1>2
    <2>2. JobOf[p] \in PendingJobs
      BY <1>5, <2>1, JobFacts, SpawnedFacts
    <2> QED
      BY <1>1, <1>4, <2>1, <2>2
  <1> HIDE DEF New, Made
  <1>9. \A p \in Proc : Due(p)' => Due(p) \/ p \in New
    BY <1>2, <1>3, <1>4, <1>7 DEF Due, Claims
  <1>10. DueSteps
    BY <1>a, <1>2, <1>3, <1>4, <1>7 DEF DueSteps, TypeOK
  <1>11. \A p \in Proc : Due(p) /\ JobOf[p][1] = CatOf[a] => JobOf[p] \in Excused'
    BY <1>3, <1>4 DEF DueInv
  <1>12. \A p, q \in Proc : Due(p)' /\ Due(q)' /\ JobOf[p] = JobOf[q] /\ p # q => JobOf[p] \in Excused'
    <2> SUFFICES ASSUME NEW p \in Proc, NEW q \in Proc, Due(p)', Due(q)', JobOf[p] = JobOf[q], p # q
                 PROVE  JobOf[p] \in Excused'
      OBVIOUS
    <2>1. CASE Due(p) /\ Due(q)
      BY <1>4, <2>1 DEF DueInv
    <2>2. CASE p \in New
      BY <1>2, <1>9, <1>11, <2>2
    <2>3. CASE q \in New
      BY <1>2, <1>9, <1>11, <2>3
    <2> QED
      BY <1>9, <2>1, <2>2, <2>3
  <1>13. \A p \in Proc : Due(p)' /\ JobOf[p] \in (QueuedJobs \cup failed)' => JobOf[p] \in Excused'
    <2> SUFFICES ASSUME NEW p \in Proc, Due(p)', JobOf[p] \in (QueuedJobs \cup failed)'
                 PROVE  JobOf[p] \in Excused'
      OBVIOUS
    <2>1. JobOf[p] \in QueuedJobs'
      BY <1>3
    <2>2. CASE Due(p) /\ JobOf[p] \in PendingJobs
      BY <1>4, <1>6, <2>2 DEF DueInv
    <2>3. CASE Due(p) /\ \E r \in bad : JobOf[p] = JobOfSlot(a, r)
      BY <1>11, <2>3 DEF JobOfSlot
    <2> QED
      BY <1>5, <1>8, <1>9, <2>1, <2>2, <2>3
  <1>14. \A p \in Proc, q \in startup' \cap Qbit : Due(p)' /\ JobOf[p] = ManagerJob(q) => JobOf[p] \in Excused'
    BY <1>2, <1>3, <1>4, <1>9, JobFacts DEF DueInv
  <1>15. \A p \in Proc, b \in arrs' : Due(p)' /\ JobOf[p][1] = CatOf[b] => JobOf[p] \in Excused'
    <2>1. \A b \in arrs' : CatOf[b] # CatOf[a]
      BY <1>3, OneManagedArr DEF JobsInv
    <2> QED
      BY <1>2, <1>3, <1>4, <1>9, <2>1 DEF DueInv
  <1>16. DueInv'
    BY <1>3, <1>12, <1>13, <1>14, <1>15 DEF DueInv
  <1> QED
    BY <1>10, <1>16

LEMMA RespawnFailsDue == ASSUME WebInv, Beside(Next), NEW a \in Arr, RespawnFails(a) PROVE DueInv' /\ DueSteps
  <1> USE DEF WebInv
  <1>a. TypeOK
    BY DEF TypeInv
  <1>1. /\ pc = "respawn" /\ a \in arrs /\ pending' = Enqueue(a, RolesOf[a]) /\ arrs' = arrs \ {a}
        /\ UNCHANGED <<phase, children, registry, overlap, retry, failed, pc, todo, startup, cur, meta>>
    BY DEF RespawnFails, tracked
  <1>2. /\ UNCHANGED <<at, want, old, new>> /\ Excused \subseteq Excused' /\ BusyJobs \subseteq Excused'
    BY <1>1, BesideFacts DEF MetInv, Excused
  <1>3. \A j \in QueuedJobs' : j \in QueuedJobs \/ j[1] = CatOf[a]
    <2>1. \A s \in Queue' : s \in Queue \/ \E r \in RolesOf[a] : s = <<a, r>>
      BY <1>1 DEF Enqueue, Queue
    <2>2. \A r : JobOfSlot(<<a, r>>[1], <<a, r>>[2])[1] = CatOf[a]
      BY DEF JobOfSlot
    <2> QED
      BY <2>1, <2>2 DEF QueuedJobs
  <1>4. \A p \in Proc : Due(p)' => Due(p)
    BY <1>1, <1>2 DEF Due, Claims
  <1>5. \A p \in Proc : Due(p)' /\ JobOf[p] \in (QueuedJobs \cup failed)'
                        => JobOf[p] \in QueuedJobs \cup failed \/ JobOf[p] \in Excused'
    BY <1>1, <1>2, <1>3, <1>4 DEF DueInv
  <1>6. DueInv'
    BY <1>1, <1>2, <1>4, <1>5, FewerDue
  <1>7. DueSteps
    BY <1>a, <1>1, <1>2, <1>4 DEF DueSteps, TypeOK
  <1> QED
    BY <1>6, <1>7

LEMMA RetryDue == ASSUME WebInv, Beside(Next), NEW a \in Arr, NEW r \in Role, RetryOne(a, r)
                  PROVE DueInv' /\ DueSteps
  <1> USE DEF WebInv
  <1>a. TypeOK
    BY DEF TypeInv
  <1> DEFINE job == JobOfSlot(a, r)
  <1>1. PICK f \in Spawned(a) :
          \/ /\ Construct(Image(f, RolesOf[a]), Image(f, {r} \cap RolesOf[a]))
             /\ Track(Image(f, {r} \cap RolesOf[a]))
             /\ UNCHANGED pending
          \/ /\ Construct(Image(f, RolesOf[a]), {})
             /\ pending' = pending \cup {<<a, r>>}
             /\ UNCHANGED tracked
    BY DEF RetryOne
  <1> DEFINE New == Image(f, {r} \cap RolesOf[a])
             Made == Image(f, RolesOf[a])
  <1>2. /\ pc = "retry" /\ <<a, r>> \in retry /\ retry' = retry \ {<<a, r>>} /\ failed = {}
        /\ UNCHANGED <<failed, pc, todo, startup, overlap, arrs, cur, meta>>
    BY DEF RetryOne, EmptyInv
  <1>3. /\ New \subseteq Proc /\ New \cap children = {} /\ Made \cap children = {}
        /\ \A p \in Made : JobOf[p] \in ArrJob
        /\ \A p \in New : JobOf[p] = job
        /\ \A p, q \in New : p = q
    <2>1. {r} \cap RolesOf[a] \subseteq RolesOf[a]
      OBVIOUS
    <2>2. New \cap children = {} /\ Made \cap children = {} /\ New \subseteq Proc
          /\ \A p \in Made : JobOf[p] \in ArrJob
      BY <2>1, SpawnedJobs DEF Free
    <2> QED
      BY <2>2, SpawnedFacts DEF Image
  <1>4. UNCHANGED <<at, want, old, new>> /\ Excused \subseteq Excused'
    BY BesideFacts
  <1>5. \/ /\ children' = children \cup New /\ UNCHANGED pending
           /\ \A p \in Proc : phase'[p] = IF p \in New THEN "alive" ELSE IF p \in Made THEN "made" ELSE phase[p]
           /\ \A p \in Proc : registry'[p] = IF p \in New THEN JobOf[p] ELSE registry[p]
        \/ /\ UNCHANGED <<children, registry>> /\ pending' = pending \cup {<<a, r>>}
           /\ \A p \in Proc : phase'[p] = IF p \in Made THEN "made" ELSE phase[p]
    BY <1>1 DEF Construct, Track, tracked
  <1>6. job \in QueuedJobs /\ job \in ArrJob
    BY <1>2, JobFacts DEF QueuedJobs, Queue
  <1>7. Queue' \subseteq Queue
    BY <1>2, <1>5 DEF Queue
  <1> HIDE DEF New, Made, job
  <1>8. QueuedJobs' \subseteq QueuedJobs /\ failed' = {}
    BY <1>2, <1>7 DEF QueuedJobs
  <1>9. \A p \in Proc : Due(p) /\ JobOf[p] = job => JobOf[p] \in Excused'
    BY <1>4, <1>6 DEF DueInv
  <1>10. job \in BusyJobs => job \in Excused'
    BY <1>4, <1>6 DEF ThreadInv, BusyJobs
  <1>11. \A p \in Proc : Due(p)' => Due(p) \/ p \in New
    BY <1>2, <1>3, <1>4, <1>5 DEF Due, Claims
  <1>12. DueSteps
    BY <1>a, <1>2, <1>3, <1>5, <1>8, <1>10, <1>11 DEF DueSteps, TypeOK
  <1>13. CASE \A p \in Proc : Due(p)' => Due(p)
    <2>1. DueInv'
      BY <1>2, <1>4, <1>8, <1>13, FewerDue
    <2> QED
      BY <1>12, <2>1
  <1>14. CASE children' = children \cup New /\ UNCHANGED pending
    <2>1. \A s \in Queue' : JobOfSlot(s[1], s[2]) # job
      <3> SUFFICES ASSUME NEW s \in Queue', JobOfSlot(s[1], s[2]) = job PROVE FALSE
        OBVIOUS
      <3>1. s \in Queue /\ s # <<a, r>> /\ <<a, r>> \in Queue
        BY <1>2, <1>14 DEF EmptyInv, Queue
      <3>2. s \in Slot /\ s[1] \in Arr /\ s[2] \in Role /\ s = <<s[1], s[2]>>
        BY <1>a, <3>1 DEF TypeOK, Slot, Queue
      <3>3. CatOf[s[1]] = CatOf[a] /\ s[2] = r
        BY <3>2, JobFacts DEF job
      <3>4. s[1] \in ManagedArrs /\ a \in ManagedArrs
        BY <3>1 DEF JobsInv
      <3>5. s[1] = a
        BY <3>3, <3>4, OneManagedArr
      <3> QED
        BY <3>1, <3>2, <3>3, <3>5
    <2>2. job \notin QueuedJobs'
      BY <2>1 DEF QueuedJobs
    <2>3. \A p, q \in Proc : Due(p)' /\ Due(q)' /\ JobOf[p] = JobOf[q] /\ p # q => JobOf[p] \in Excused'
      BY <1>3, <1>4, <1>9, <1>11 DEF DueInv
    <2>4. \A p \in Proc : Due(p)' /\ JobOf[p] \in (QueuedJobs \cup failed)' => JobOf[p] \in Excused'
      BY <1>3, <1>4, <1>8, <1>11, <2>2 DEF DueInv
    <2>5. \A p \in Proc, q \in startup' \cap Qbit : Due(p)' /\ JobOf[p] = ManagerJob(q) => JobOf[p] \in Excused'
      <3>1. \A q \in Qbit : ManagerJob(q) # job
        BY <1>6, JobFacts
      <3> QED
        BY <1>2, <1>3, <1>4, <1>11, <3>1 DEF DueInv
    <2>6. DueInv'
      BY <1>2, <1>8, <2>3, <2>4, <2>5 DEF DueInv
    <2> QED
      BY <1>12, <2>6
  <1>15. CASE UNCHANGED <<children, registry>>
    BY <1>2, <1>3, <1>4, <1>5, <1>13, <1>14, <1>15 DEF Due, Claims
  <1> QED
    BY <1>5, <1>14, <1>15

\* A started worker was in the snapshot, and so due already.
LEMMA StartOneDue == ASSUME WebInv, Beside(Next), NEW p \in Proc, StartOne(p) PROVE DueInv' /\ DueSteps
  <1> USE DEF WebInv
  <1>a. TypeOK
    BY DEF TypeInv
  <1>1. /\ pc = "start" /\ p \in todo /\ phase' = [phase EXCEPT ![p] = "alive"] /\ todo' \subseteq todo
        /\ UNCHANGED <<children, registry, overlap, pending, retry, failed, pc, startup, arrs, cur, meta>>
    BY DEF StartOne, tracked
  <1>2. /\ UNCHANGED <<at, want, old, new>> /\ Excused \subseteq Excused' /\ QueuedJobs' = QueuedJobs
    BY <1>1, BesideFacts DEF QueuedJobs, Queue
  <1>3. \A q \in Proc : Due(q)' => Due(q)
    BY <1>a, <1>1, <1>2 DEF Due, Claims, TypeOK
  <1>4. DueInv'
    BY <1>1, <1>2, <1>3, FewerDue
  <1>5. DueSteps
    BY <1>a, <1>1, <1>2, <1>3 DEF DueSteps, TypeOK
  <1> QED
    BY <1>4, <1>5

LEMMA StartOneFailsDue == ASSUME WebInv, Beside(Next), NEW p \in Proc, StartOneFails(p) PROVE DueInv' /\ DueSteps
  <1> USE DEF WebInv
  <1>a. TypeOK
    BY DEF TypeInv
  <1>1. /\ pc = "start" /\ p \in todo /\ todo' = todo \ {p} /\ failed' = failed \cup ({registry[p]} \ {None})
        /\ children' = children \ {p} /\ registry' = [registry EXCEPT ![p] = None]
        /\ UNCHANGED <<phase, overlap, pending, retry, pc, startup, arrs, cur, meta>>
    BY DEF StartOneFails, Untrack
  <1>2. /\ UNCHANGED <<at, want, old, new>> /\ Excused \subseteq Excused' /\ BusyJobs \subseteq Excused'
        /\ QueuedJobs' = QueuedJobs /\ clash \subseteq Excused'
    BY <1>1, BesideFacts DEF QueuedJobs, Queue, MetInv, Excused
  <1>3. \A q \in Proc : Due(q)' => Due(q) /\ (q = p => JobOf[p] \in Excused')
    BY <1>1, <1>2, DueFacts DEF Due, Claims
  <1>4. registry[p] \in {None, JobOf[p]} /\ (JobOf[p] \in Excused' \/ Due(p))
    BY <1>1, <1>2 DEF JobsInv, RecordsInv, Known, Due, Claims
  <1>5. \A q \in Proc : Due(q)' /\ JobOf[q] = JobOf[p] => JobOf[q] \in Excused'
    BY <1>2, <1>3, <1>4 DEF DueInv
  <1>6. \A q \in Proc : Due(q)' /\ JobOf[q] \in (QueuedJobs \cup failed)'
                        => JobOf[q] \in QueuedJobs \cup failed \/ JobOf[q] \in Excused'
    BY <1>1, <1>2, <1>4, <1>5
  <1>7. \A q \in startup' \cap Qbit : ManagerJob(q) \in failed' => ManagerJob(q) \in failed \cup Excused'
    BY <1>1, <1>2, <1>4 DEF DueInv
  <1>8. DueInv'
    BY <1>1, <1>2, <1>3, <1>6, <1>7, FewerDue
  <1>9. DueSteps
    BY <1>a, <1>1, <1>2, <1>3 DEF DueSteps, TypeOK
  <1> QED
    BY <1>8, <1>9

LEMMA ReapDeadDue == ASSUME WebInv, Beside(Next), NEW p \in Proc, ReapDead(p) PROVE DueInv' /\ DueSteps
  <1> USE DEF WebInv
  <1>a. TypeOK
    BY DEF TypeInv
  <1>1. /\ pc = "reap" /\ children' = children \ {p} /\ registry' = [registry EXCEPT ![p] = None]
        /\ UNCHANGED <<phase, overlap, pending, retry, failed, pc, startup, arrs, cur, meta>>
    BY DEF ReapDead, Untrack
  <1>2. UNCHANGED <<at, want, old, new>> /\ Excused \subseteq Excused' /\ QueuedJobs' = QueuedJobs
    BY <1>1, BesideFacts DEF QueuedJobs, Queue
  <1>3. \A q \in Proc : Due(q)' => Due(q)
    BY <1>1, <1>2 DEF Due, Claims
  <1>4. DueInv'
    BY <1>1, <1>2, <1>3, FewerDue
  <1>5. DueSteps
    BY <1>a, <1>1, <1>2, <1>3 DEF DueSteps, TypeOK
  <1> QED
    BY <1>4, <1>5

\* The successor takes the place of the crashed worker, which had the claim unless a
\* thread has taken it off the records: then the thread has met the main thread.
LEMMA RestartDue == ASSUME WebInv, Beside(Next), NEW n \in Proc, Restart(n) PROVE DueInv' /\ DueSteps
  <1> USE DEF WebInv
  <1>a. TypeOK /\ cur \in Proc /\ Dead(cur)
    BY DEF TypeInv, Restart
  <1>1. /\ pc = "delay" /\ pc' = "reap" /\ n # cur /\ JobOf[n] = meta /\ meta # None /\ n \notin children
        /\ children' = (children \ {cur}) \cup {n}
        /\ phase' = [phase EXCEPT ![n] = "alive"]
        /\ registry' = [registry EXCEPT ![cur] = None, ![n] = meta]
        /\ UNCHANGED <<overlap, pending, retry, failed, startup, arrs>>
    BY <1>a, SupervisorAssumption DEF Restart, Free, TypeOK, Goto
  <1>2. UNCHANGED <<at, want, old, new>> /\ Excused \subseteq Excused' /\ QueuedJobs' = QueuedJobs
    BY <1>1, BesideFacts DEF QueuedJobs, Queue
  <1>3. /\ JobOf[cur] = meta /\ (meta \in BusyJobs => meta \in Excused')
        /\ meta \in Excused' \/ Due(cur)
    BY <1>a, <1>1, <1>2 DEF JobsInv, MetInv, Excused, ThreadInv, Due, Claims, Dead
  <1>4. \A p \in Proc : Due(p)' => p = n \/ (Due(p) /\ (p = cur => JobOf[p] \in BusyJobs))
    BY <1>a, <1>1, <1>2, DueFacts DEF Due, Claims, TypeOK
  <1>5. \A p \in Proc : Due(p)' /\ JobOf[p] = meta /\ p # n => JobOf[p] \in Excused'
    BY <1>a, <1>2, <1>3, <1>4 DEF DueInv
  <1>6. \A p, q \in Proc : Due(p)' /\ Due(q)' /\ JobOf[p] = JobOf[q] /\ p # q => JobOf[p] \in Excused'
    <2> SUFFICES ASSUME NEW p \in Proc, NEW q \in Proc, Due(p)', Due(q)', JobOf[p] = JobOf[q], p # q
                 PROVE  JobOf[p] \in Excused'
      OBVIOUS
    <2>1. CASE p = n \/ q = n
      BY <1>1, <1>5, <2>1
    <2>2. CASE Due(p) /\ Due(q)
      BY <1>2, <2>2 DEF DueInv
    <2> QED
      BY <1>4, <2>1, <2>2
  <1>7. meta \in QueuedJobs \cup failed => meta \in Excused'
    BY <1>a, <1>2, <1>3 DEF DueInv
  <1>8. \A q \in startup \cap Qbit : ManagerJob(q) = meta => meta \in Excused'
    BY <1>a, <1>2, <1>3 DEF DueInv
  <1>9. \A p \in Proc : Due(p)' /\ JobOf[p] \in (QueuedJobs \cup failed)' => JobOf[p] \in Excused'
    BY <1>1, <1>2, <1>4, <1>7 DEF DueInv
  <1>10. \A p \in Proc, q \in startup' \cap Qbit : Due(p)' /\ JobOf[p] = ManagerJob(q) => JobOf[p] \in Excused'
    BY <1>1, <1>2, <1>4, <1>8 DEF DueInv
  <1>11. DueInv'
    BY <1>1, <1>2, <1>6, <1>9, <1>10 DEF DueInv
  <1>12. DueSteps
    BY <1>a, <1>1, <1>2, <1>3, <1>4 DEF DueSteps, TypeOK
  <1> QED
    BY <1>11, <1>12

LEMMA StopAllDue == ASSUME WebInv, Beside(Next), StopAll PROVE DueInv' /\ DueSteps
  <1> USE DEF WebInv
  <1>a. TypeOK
    BY DEF TypeInv
  <1>1. /\ pc = "loop" /\ pc' = "checkpoint" /\ children' = {} /\ registry' = [p \in Proc |-> None]
        /\ \A p \in Proc : phase'[p] = IF p \in children /\ phase[p] = "alive" THEN "crashed" ELSE phase[p]
        /\ UNCHANGED <<overlap, pending, retry, failed, startup, arrs>>
    BY DEF StopAll, Goto
  <1>2. /\ UNCHANGED <<at, want, old, new>> /\ Excused \subseteq Excused' /\ QueuedJobs' = QueuedJobs
        /\ BusyJobs \subseteq Excused'
    BY <1>1, BesideFacts DEF QueuedJobs, Queue, Excused
  <1>3. \A p \in Proc : Due(p)' => Due(p) /\ JobOf[p] \in Excused'
    BY <1>1, <1>2, DueFacts DEF Due, Claims
  <1>4. DueInv'
    BY <1>1, <1>2, <1>3, FewerDue
  <1>5. DueSteps
    BY <1>a, <1>1, <1>2, <1>3 DEF DueSteps, TypeOK
  <1> QED
    BY <1>4, <1>5

LEMMA GiveUpDue == ASSUME WebInv, Beside(Next), GiveUp PROVE DueInv' /\ DueSteps
  <1> USE DEF WebInv
  <1>a. TypeOK
    BY DEF TypeInv
  <1>1. /\ pc = "delay" /\ pc' = "reap" /\ children' = children \ {cur}
        /\ registry' = [registry EXCEPT ![cur] = None]
        /\ UNCHANGED <<overlap, pending, retry, failed, startup, arrs>>
    BY DEF GiveUp, Untrack, Goto
  <1>2. \A p \in Proc : phase'[p] = phase[p] \/ (p \notin children /\ phase'[p] = "made" /\ JobOf[p] \in ArrJob)
    <2>1. CASE UNCHANGED phase
      BY <2>1
    <2>2. ASSUME NEW b \in Target(meta), NEW n \in Free, JobOf[n] = meta, phase' = [phase EXCEPT ![n] = "made"]
          PROVE  \A p \in Proc : \/ phase'[p] = phase[p]
                                 \/ p \notin children /\ phase'[p] = "made" /\ JobOf[p] \in ArrJob
      <3>1. meta \in ArrJob
        BY <1>a, JobFacts DEF Target, ManagedArrs, TypeOK
      <3> QED
        BY <1>a, <2>2, <3>1 DEF Free, TypeOK
    <2> QED
      BY <2>1, <2>2 DEF GiveUp
  <1>3. UNCHANGED <<at, want, old, new>> /\ Excused \subseteq Excused' /\ QueuedJobs' = QueuedJobs
    BY <1>1, BesideFacts DEF QueuedJobs, Queue
  <1>4. \A p \in Proc : Due(p)' => Due(p)
    BY <1>1, <1>2, <1>3 DEF Due, Claims
  <1>5. DueInv'
    BY <1>1, <1>3, <1>4, FewerDue
  <1>6. DueSteps
    BY <1>a, <1>1, <1>2, <1>3, <1>4 DEF DueSteps, TypeOK
  <1> QED
    BY <1>5, <1>6

LEMMA MainDue == ASSUME WebInv, Beside(Next) PROVE DueInv' /\ ThreadInv'
  <1>1. DueInv' /\ DueSteps
    <2>1. Role # {}
      BY DEF Role
    <2>2. CASE Quiet
      BY <2>2, QuietDue
    <2>3. CASE Moving
      BY <2>1, <2>3, PrepareDue, RespawnDue, RespawnFailsDue, RetryDue, SpawnManagerDue, StartOneDue,
         StartOneFailsDue, ReapDeadDue, RestartDue, StopAllDue, GiveUpDue DEF Moving
    <2> QED
      BY <2>2, <2>3, QuietOrMoving DEF WebInv, Beside
  <1> QED
    BY <1>1, BesideThreads DEF WebInv

\* A thread that makes a process becomes the only claimant of its job.
LEMMA OneDue ==
  ASSUME WebInv, NEW t \in Thread, at[t] = "make", NEW n \in Proc, JobOf[n] = want[t],
         \A p \in Proc : Due(p)' => Due(p) \/ p = n,
         UNCHANGED <<pending, retry, failed, startup, pc, arrs, overlap, clash>>
  PROVE  DueInv'
  <1> USE DEF WebInv
  <1>1. t \in Busy /\ want[t] \in BusyJobs /\ UNCHANGED <<Excused, QueuedJobs>>
    BY DEF Busy, BusyJobs, Excused, QueuedJobs, Queue
  <1>2. \A p \in Proc : Due(p) /\ JobOf[p] = JobOf[n] => JobOf[p] \in Excused
    BY <1>1 DEF ThreadInv
  <1>3. JobOf[n] \in QueuedJobs \cup failed => JobOf[n] \in Excused
    BY <1>1 DEF ThreadInv
  <1>4. pc \in {"checkpoint", "respawn"} \/ startup # {} => JobOf[n] \in Excused
    BY <1>1 DEF MetInv, Excused
  <1>5. \A p, q \in Proc : Due(p)' /\ Due(q)' /\ JobOf[p] = JobOf[q] /\ p # q => JobOf[p] \in Excused
    BY <1>2 DEF DueInv
  <1>6. \A p \in Proc : Due(p)' /\ JobOf[p] \in QueuedJobs \cup failed => JobOf[p] \in Excused
    BY <1>3 DEF DueInv
  <1>7. \A p \in Proc, q \in startup \cap Qbit : Due(p)' /\ JobOf[p] = ManagerJob(q) => JobOf[p] \in Excused
    BY <1>4 DEF DueInv
  <1>8. pc = "boot" => \A p \in Proc, a \in startup \cap Arr : Due(p)' /\ JobOf[p][1] = CatOf[a] => JobOf[p] \in Excused
    BY <1>4 DEF DueInv
  <1>9. pc = "checkpoint" => \A p \in Proc : Due(p)' /\ JobOf[p] \in ArrJob => JobOf[p] \in Excused
    BY <1>4 DEF DueInv
  <1>10. pc = "respawn" => \A p \in Proc, a \in arrs : Due(p)' /\ JobOf[p][1] = CatOf[a] => JobOf[p] \in Excused
    BY <1>4 DEF DueInv
  <1> QED
    BY <1>1, <1>5, <1>6, <1>7, <1>8, <1>9, <1>10 DEF DueInv

\* A request: its job is due to the process it found alone, or it meets another operation.
LEMMA AskDue ==
  ASSUME WebInv, NEW t \in Thread, NEW j \in Job, NEW p, Ask(t, j, p),
         p # None => p \in Proc /\ JobOf[p] = j,
         \A q \in Proc : Due(q) /\ JobOf[q] = j /\ q # p => j \in Excused \/ Disturbed(j)
  PROVE  DueInv' /\ ThreadInv'
  <1> USE DEF WebInv
  <1>1. /\ UNCHANGED <<phase, children, registry, pending, retry, failed, startup, pc, todo, arrs, cur, meta, overlap>>
        /\ at[t] = "idle" /\ at'[t] = (IF p = None THEN "make" ELSE "kill")
        /\ want'[t] = j /\ old'[t] = p
        /\ \A u \in Thread : u # t => at'[u] = at[u] /\ want'[u] = want[u] /\ old'[u] = old[u] /\ new'[u] = new[u]
        /\ clash \subseteq clash' /\ (Disturbed(j) => j \in clash')
    BY DEF Ask, vars, main, tracked, WebType
  <1>2. Excused \subseteq Excused' /\ clash' \subseteq Excused' /\ overlap \subseteq Excused' /\ QueuedJobs' = QueuedJobs
    BY <1>1 DEF Excused, QueuedJobs, Queue
  <1>3. \A q : Due(q)' <=> Due(q)
    BY <1>1 DEF Due, Claims
  <1>4. DueInv'
    BY <1>1, <1>2, <1>3, FewerDue
  <1>5. j \in QueuedJobs \cup failed => j \in Excused'
    BY <1>1, <1>2 DEF Disturbed, QueuedJobs, Queue, PendingJobs
  <1>6. \A u \in Busy' : u = t \/ u \in Busy
    BY <1>1 DEF Busy
  <1>7. \A u \in Busy' : want'[u] \in (QueuedJobs \cup failed)' => want'[u] \in Excused'
    BY <1>1, <1>2, <1>5, <1>6 DEF ThreadInv, Busy
  <1>8. \A u \in Busy', q \in Proc : at'[u] \in {"kill", "remove"} /\ Due(q)' /\ JobOf[q] = want'[u] /\ q # old'[u]
                                     => want'[u] \in Excused'
    BY <1>1, <1>2, <1>3, <1>6 DEF ThreadInv, Busy
  <1>9. \A u \in Busy', q \in Proc : at'[u] \in {"pop", "make"} /\ Due(q)' /\ JobOf[q] = want'[u]
                                     => want'[u] \in Excused'
    BY <1>1, <1>2, <1>3, <1>6, SupervisorAssumption DEF ThreadInv, Busy
  <1>10. \A u \in Thread : at'[u] = "track" => want'[u] \notin ArrJob /\ phase'[new'[u]] # "made"
    BY <1>1 DEF ThreadInv
  <1>11. \A q \in Proc : registry'[q] # None => q \in children' \/ \E u \in Thread : at'[u] = "pop" /\ old'[u] = q
    BY <1>1 DEF ThreadInv
  <1>12. ThreadInv'
    BY <1>1, <1>2, <1>7, <1>8, <1>9, <1>10, <1>11 DEF ThreadInv
  <1> QED
    BY <1>4, <1>12

LEMMA RequestsDue == ASSUME WebInv, Requests PROVE DueInv' /\ ThreadInv'
  <1> USE DEF WebInv
  <1>a. TypeOK
    BY DEF TypeInv
  <1>b. ASSUME NEW t \in Thread, at[t] # "idle" PROVE \A j : want[t] = j => j \in BusyJobs
    BY <1>b DEF BusyJobs, Busy
  <1>1. ASSUME NEW t \in Thread, NEW j \in ArrJob, AskArr(t, j) PROVE DueInv' /\ ThreadInv'
    <2> DEFINE p == slot[<<ArrOf(j), j[2]>>]
    <2>1. j \in Job
      BY DEF Job
    <2>2. p # None => p \in Proc /\ JobOf[p] = j
      <3>1. PICK a \in Arr, r \in Role : j = JobOfSlot(a, r)
        BY DEF ArrJob
      <3>2. j[2] = r /\ j[1] = CatOf[a] /\ CatOf[a] \in Category
        BY <3>1, JobFacts DEF Category
      <3>3. ArrOf(j) \in Arr /\ CatOf[ArrOf(j)] = CatOf[a]
        BY <1>a, <1>1, <3>2 DEF AskArr, ArrOf, TypeOK, JobsInv
      <3>4. <<ArrOf(j), j[2]>> \in Slot /\ JobOfSlot(ArrOf(j), j[2]) = j
        BY <3>1, <3>2, <3>3, JobFacts DEF Slot
      <3> QED
        BY <1>a, <3>4 DEF JobsInv, TypeOK
    <2>3. \A q \in Proc : Due(q) /\ JobOf[q] = j /\ q # p => Disturbed(j)
      <3>1. \A q \in Proc : Claims(q) /\ JobOf[q] = j /\ q # p => Disturbed(j)
        BY DEF Claims, Disturbed
      <3>2. j \in BusyJobs => Disturbed(j)
        BY DEF Disturbed
      <3> QED
        BY <3>1, <3>2, DueFacts
    <2>4. Ask(t, j, p)
      BY <1>1 DEF AskArr
    <2> HIDE DEF p
    <2> QED
      BY <2>1, <2>2, <2>3, <2>4, AskDue
  <1>2. ASSUME NEW t \in Thread, NEW x \in Qbit, NEW p \in Proc, AskManager(t, x, p) PROVE DueInv' /\ ThreadInv'
    <2> DEFINE j == ManagerJob(x)
    <2>1. /\ j \in Job /\ j \notin ArrJob /\ registry[p] = j /\ j # None /\ JobOf[p] = j
          /\ Ask(t, j, p)
      BY <1>2, JobFacts, SupervisorAssumption DEF AskManager, JobsInv
    <2> HIDE DEF j
    <2>2. j \in BusyJobs => Disturbed(j)
      BY DEF Disturbed
    <2>3. p \in children \/ j \in BusyJobs
      <3>1. CASE \E u \in Thread : at[u] = "pop" /\ old[u] = p
        <4>1. PICK u \in Thread : at[u] = "pop" /\ old[u] = p
          BY <3>1
        <4>2. want[u] = j
          BY <2>1, <4>1 DEF JobsInv
        <4> QED
          BY <1>b, <4>1, <4>2
      <3> QED
        BY <2>1, <3>1 DEF ThreadInv
    <2>4. p \in children => Due(p)
      BY <2>1 DEF ThreadInv, Due, Claims
    <2>5. \A q \in Proc : Due(q) /\ JobOf[q] = j /\ q # p => j \in Excused \/ Disturbed(j)
      <3> SUFFICES ASSUME NEW q \in Proc, Due(q), JobOf[q] = j, q # p, j \notin BusyJobs, ~Disturbed(j)
                   PROVE  j \in Excused
        BY <2>2
      <3> QED
        BY <2>1, <2>3, <2>4 DEF DueInv
    <2> QED
      BY <2>1, <2>5, AskDue
  <1> QED
    BY <1>1, <1>2 DEF Requests

\* A step of a thread that adds no due process.
LEMMA ThreadFewer ==
  ASSUME WebInv, \A p \in Proc : Due(p)' => Due(p),
         UNCHANGED <<pending, retry, failed, startup, pc, arrs, overlap, clash>>
  PROVE  DueInv'
  <1> USE DEF WebInv
  <1>1. UNCHANGED <<Excused, QueuedJobs>>
    BY DEF Excused, QueuedJobs, Queue
  <1> QED
    BY <1>1, FewerDue

\* What the other threads know stays so while thread t takes a step, and what t
\* knows then is left to show.
LEMMA OthersKeep ==
  ASSUME WebInv, NEW t \in Busy,
         UNCHANGED <<pending, retry, failed, pc, cur, meta, overlap, clash, want, old>>,
         \A u \in Thread : u # t => at'[u] = at[u] /\ new'[u] = new[u],
         \A p \in Proc : Due(p)' => Due(p) \/ JobOf[p] = want[t],
         at'[t] \in {"kill", "remove"} => \A p \in Proc : Due(p)' /\ JobOf[p] = want[t] /\ p # old[t]
                                                          => want[t] \in Excused,
         at'[t] \in {"pop", "make"} => \A p \in Proc : Due(p)' /\ JobOf[p] = want[t] => want[t] \in Excused,
         at'[t] = "track" => want[t] \notin ArrJob /\ phase'[new'[t]] # "made",
         \A p \in Proc : phase[p] # "made" /\ phase'[p] = "made" => JobOf[p] \in ArrJob,
         \A p \in children' : JobOf[p] \notin ArrJob => p \in children \/ phase'[p] # "made",
         \A p \in Proc : registry'[p] # None => \/ p \in children'
                                                \/ \E u \in Thread : at'[u] = "pop" /\ old'[u] = p,
         pc = "delay" /\ meta # None /\ cur \in children => cur \in children' \/ meta \in Excused
  PROVE  ThreadInv'
  <1> USE DEF WebInv
  <1>1. UNCHANGED <<Excused, QueuedJobs>>
    BY DEF Excused, QueuedJobs, Queue
  <1>2. Busy' \subseteq Busy
    BY DEF Busy
  <1>3. \A u \in Busy : u # t /\ want[u] = want[t] => want[u] \in Excused
    BY DEF MetInv, Excused
  <1>4. \A u \in Busy' : want[u] \in QueuedJobs \cup failed => want[u] \in Excused
    BY <1>2 DEF ThreadInv
  <1>5. \A u \in Busy', p \in Proc : at'[u] \in {"kill", "remove"} /\ Due(p)' /\ JobOf[p] = want[u] /\ p # old[u]
                                     => want[u] \in Excused
    BY <1>2, <1>3 DEF ThreadInv, Busy
  <1>6. \A u \in Busy', p \in Proc : at'[u] \in {"pop", "make"} /\ Due(p)' /\ JobOf[p] = want[u]
                                     => want[u] \in Excused
    BY <1>2, <1>3 DEF ThreadInv, Busy
  <1>7. \A u \in Thread : at'[u] = "track" => want[u] \notin ArrJob /\ phase'[new'[u]] # "made"
    BY DEF ThreadInv, JobsInv, WebType
  <1>8. \A p \in children' : JobOf[p] \notin ArrJob => phase'[p] # "made"
    BY DEF ThreadInv, TypeInv, TypeOK
  <1>9. pc = "delay" /\ meta # None => cur \in children' \/ meta \in Excused
    BY DEF ThreadInv
  <1> QED
    BY <1>1, <1>4, <1>5, <1>6, <1>7, <1>8, <1>9 DEF ThreadInv

\* The place of thread t alone changes: the steps of Busy threads.
LEMMA HandlerFrame ==
  ASSUME WebType, NEW t \in Thread, Handler(t)
  PROVE  /\ t \in Busy /\ want[t] \in BusyJobs
         /\ UNCHANGED <<managed, pending, startup, overlap, pc, todo, failed, arrs, retry, cur, meta>>
         /\ UNCHANGED <<clash, want, old>>
         /\ \A u \in Thread : u # t => at'[u] = at[u] /\ new'[u] = new[u]
  BY RequestFrame DEF Handler, Kill, Remove, Pop, Make, Start, StartManager, TrackManager, WebType, Busy, BusyJobs

LEMMA KillDue == ASSUME WebInv, NEW t \in Thread, Handler(t), Kill(t) PROVE DueInv' /\ ThreadInv'
  <1> USE DEF WebInv
  <1>a. TypeOK
    BY DEF TypeInv
  <1>1. /\ at[t] = "kill" /\ at'[t] = "remove" /\ UNCHANGED <<children, registry, new>>
        /\ \A p \in Proc : phase'[p] = phase[p] \/ (phase[p] = "alive" /\ phase'[p] = "crashed")
        /\ \A u \in Thread : u # t => at'[u] = at[u]
    BY <1>a DEF Kill, tracked, WebType, TypeOK
  <1>2. \A p \in Proc : Due(p)' => Due(p)
    BY <1>1, HandlerFrame DEF Due, Claims
  <1>3. DueInv'
    BY <1>2, HandlerFrame, ThreadFewer
  <1>4. \A p \in Proc : registry'[p] # None => \/ p \in children'
                                               \/ \E u \in Thread : at'[u] = "pop" /\ old'[u] = p
    BY <1>1, HandlerFrame DEF ThreadInv
  <1>5. \A p \in Proc : Due(p)' /\ JobOf[p] = want[t] /\ p # old[t] => want[t] \in Excused
    BY <1>1, <1>2, HandlerFrame DEF ThreadInv
  <1>6. ThreadInv'
    BY <1>1, <1>2, <1>4, <1>5, HandlerFrame, OthersKeep
  <1> QED
    BY <1>3, <1>6

LEMMA RemoveDue == ASSUME WebInv, NEW t \in Thread, Handler(t), Remove(t) PROVE DueInv' /\ ThreadInv'
  <1> USE DEF WebInv
  <1>1. /\ at[t] = "remove" /\ at'[t] = "pop" /\ UNCHANGED <<phase, registry, new>>
        /\ children' = children \ {old[t]} /\ old[t] \in Proc /\ JobOf[old[t]] = want[t]
        /\ \A u \in Thread : u # t => at'[u] = at[u]
    BY DEF Remove, WebType, JobsInv
  <1>2. \A p \in Proc : Due(p)' => Due(p)
    BY <1>1, HandlerFrame DEF Due, Claims
  <1>3. DueInv'
    BY <1>2, HandlerFrame, ThreadFewer
  <1>4. \A p \in Proc : registry'[p] # None => \/ p \in children'
                                               \/ \E u \in Thread : at'[u] = "pop" /\ old'[u] = p
    BY <1>1, HandlerFrame DEF ThreadInv
  <1>5. \A p \in Proc : Due(p)' /\ JobOf[p] = want[t] => want[t] \in Excused
    <2> SUFFICES ASSUME NEW p \in Proc, Due(p)', JobOf[p] = want[t] PROVE want[t] \in Excused
      OBVIOUS
    <2>1. CASE p # old[t]
      BY <1>1, <1>2, <2>1, HandlerFrame DEF ThreadInv
    <2>2. CASE p = old[t]
      <3>1. PICK u \in Thread : at'[u] \in {"start", "track"} /\ new'[u] = p
        BY <1>1, <2>2 DEF Due, Claims
      <3>2. u # t /\ u \in Busy /\ want[u] = want[t]
        BY <1>1, <3>1 DEF JobsInv, Busy
      <3> QED
        BY <3>2, HandlerFrame DEF MetInv, Excused
    <2> QED
      BY <2>1, <2>2
  <1>6. pc = "delay" /\ meta # None /\ cur \in children => cur \in children' \/ meta \in Excused
    BY <1>1, HandlerFrame DEF JobsInv, MetInv, Excused
  <1>7. ThreadInv'
    BY <1>1, <1>2, <1>4, <1>5, <1>6, HandlerFrame, OthersKeep
  <1> QED
    BY <1>3, <1>7

LEMMA PopDue == ASSUME WebInv, NEW t \in Thread, Handler(t), Pop(t) PROVE DueInv' /\ ThreadInv'
  <1> USE DEF WebInv
  <1>a. TypeOK
    BY DEF TypeInv
  <1>1. /\ at[t] = "pop" /\ at'[t] = "make" /\ UNCHANGED <<phase, children, new>>
        /\ registry' = [registry EXCEPT ![old[t]] = None] /\ old[t] \in Proc /\ JobOf[old[t]] = want[t]
        /\ \A u \in Thread : u # t => at'[u] = at[u]
    BY DEF Pop, WebType, JobsInv
  <1>2. \A p \in Proc : Due(p)' => Due(p)
    BY <1>1, HandlerFrame DEF Due, Claims
  <1>3. DueInv'
    BY <1>2, HandlerFrame, ThreadFewer
  <1>4. \A p \in Proc : registry'[p] # None => \/ p \in children'
                                               \/ \E u \in Thread : at'[u] = "pop" /\ old'[u] = p
    BY <1>a, <1>1, HandlerFrame DEF ThreadInv, TypeOK
  <1>5. \A p \in Proc : Due(p)' /\ JobOf[p] = want[t] => want[t] \in Excused
    BY <1>1, <1>2, HandlerFrame DEF ThreadInv
  <1>6. ThreadInv'
    BY <1>1, <1>2, <1>4, <1>5, HandlerFrame, OthersKeep
  <1> QED
    BY <1>3, <1>6

LEMMA MakeDue == ASSUME WebInv, NEW t \in Thread, Handler(t), Make(t) PROVE DueInv' /\ ThreadInv'
  <1> USE DEF WebInv
  <1>1. PICK n \in Free \ Held : /\ JobOf[n] = want[t] /\ new' = [new EXCEPT ![t] = n]
                                 /\ Construct({n}, {}) /\ Track({n})
    BY DEF Make
  <1>2. /\ at[t] = "make" /\ at'[t] = "start" /\ want[t] \in ArrJob /\ new'[t] = n /\ n \in Proc
        /\ \A u \in Thread : u # t => at'[u] = at[u]
        /\ children' = children \cup {n}
        /\ \A p \in Proc : phase'[p] = IF p = n THEN "made" ELSE phase[p]
        /\ \A p \in Proc : registry'[p] = IF p = n THEN JobOf[p] ELSE registry[p]
    BY <1>1 DEF Make, WebType, Free, Construct, Track
  <1>3. \A p \in Proc : Due(p)' => Due(p) \/ p = n
    BY <1>2, HandlerFrame DEF Due, Claims
  <1>4. DueInv'
    BY <1>1, <1>2, <1>3, HandlerFrame, OneDue
  <1>5. \A p \in Proc : registry'[p] # None => \/ p \in children'
                                               \/ \E u \in Thread : at'[u] = "pop" /\ old'[u] = p
    BY <1>2, HandlerFrame DEF ThreadInv
  <1>6. ThreadInv'
    BY <1>1, <1>2, <1>3, <1>5, HandlerFrame, OthersKeep
  <1> QED
    BY <1>4, <1>6

LEMMA StartDue == ASSUME WebInv, NEW t \in Thread, Handler(t), Start(t) PROVE DueInv' /\ ThreadInv'
  <1> USE DEF WebInv
  <1>a. TypeOK
    BY DEF TypeInv
  <1>1. /\ at[t] = "start" /\ at'[t] = "idle" /\ UNCHANGED <<children, registry, new>>
        /\ \A p \in Proc : phase'[p] = phase[p] \/ (p = new[t] /\ phase'[p] = "alive")
        /\ \A u \in Thread : u # t => at'[u] = at[u]
    BY <1>a DEF Start, tracked, WebType, TypeOK
  <1>2. \A p \in Proc : Due(p)' => Due(p)
    BY <1>1, HandlerFrame DEF Due, Claims
  <1>3. DueInv'
    BY <1>2, HandlerFrame, ThreadFewer
  <1>4. \A p \in Proc : registry'[p] # None => \/ p \in children'
                                               \/ \E u \in Thread : at'[u] = "pop" /\ old'[u] = p
    BY <1>1, HandlerFrame DEF ThreadInv
  <1>5. ThreadInv'
    BY <1>1, <1>2, <1>4, HandlerFrame, OthersKeep
  <1> QED
    BY <1>3, <1>5

LEMMA StartManagerDue == ASSUME WebInv, NEW t \in Thread, Handler(t), StartManager(t) PROVE DueInv' /\ ThreadInv'
  <1> USE DEF WebInv
  <1>1. /\ at[t] = "make" /\ want[t] \notin ArrJob /\ UNCHANGED <<children, registry>>
        /\ \A u \in Thread : u # t => at'[u] = at[u]
    BY DEF StartManager, tracked, WebType
  <1>2. \A p \in Proc : registry'[p] # None => \/ p \in children'
                                               \/ \E u \in Thread : at'[u] = "pop" /\ old'[u] = p
    BY <1>1, HandlerFrame DEF ThreadInv
  <1>3. CASE at'[t] = "idle" /\ UNCHANGED <<phase, new>>
    <2>1. \A p \in Proc : Due(p)' => Due(p)
      BY <1>1, <1>3, HandlerFrame DEF Due, Claims
    <2>2. DueInv'
      BY <2>1, HandlerFrame, ThreadFewer
    <2>3. ThreadInv'
      BY <1>1, <1>2, <1>3, <2>1, HandlerFrame, OthersKeep
    <2> QED
      BY <2>2, <2>3
  <1>4. ASSUME NEW n \in Free, JobOf[n] = want[t], new'[t] = n, Construct({n}, {n}), at'[t] = "track"
        PROVE  DueInv' /\ ThreadInv'
    <2>1. n \in Proc /\ n \notin children /\ \A p \in Proc : phase'[p] = IF p = n THEN "alive" ELSE phase[p]
      BY <1>4 DEF Free, Construct
    <2>2. \A p \in Proc : Due(p)' => Due(p) \/ p = n
      BY <1>1, <1>4, <2>1, HandlerFrame DEF Due, Claims
    <2>3. DueInv'
      BY <1>1, <1>4, <2>1, <2>2, HandlerFrame, OneDue
    <2>4. ThreadInv'
      BY <1>1, <1>2, <1>4, <2>1, <2>2, HandlerFrame, OthersKeep
    <2> QED
      BY <2>3, <2>4
  <1>5. CASE at' = [at EXCEPT ![t] = "idle"] /\ UNCHANGED <<phase, new>>
    BY <1>3, <1>5 DEF WebType
  <1>6. ASSUME NEW n \in Free, JobOf[n] = want[t], new' = [new EXCEPT ![t] = n], Construct({n}, {n}),
               at' = [at EXCEPT ![t] = "track"]
        PROVE  DueInv' /\ ThreadInv'
    BY <1>4, <1>6 DEF WebType
  <1> QED
    BY <1>5, <1>6 DEF StartManager

LEMMA TrackManagerDue == ASSUME WebInv, NEW t \in Thread, Handler(t), TrackManager(t) PROVE DueInv' /\ ThreadInv'
  <1> USE DEF WebInv
  <1>1. /\ at[t] = "track" /\ at'[t] = "idle" /\ UNCHANGED <<phase, new>> /\ new[t] \in Proc
        /\ phase[new[t]] # "made"
        /\ \A u \in Thread : u # t => at'[u] = at[u]
        /\ children' = children \cup {new[t]}
        /\ \A p \in Proc : registry'[p] = IF p = new[t] THEN JobOf[p] ELSE registry[p]
    BY DEF TrackManager, Track, WebType, ThreadInv
  <1>2. \A p \in Proc : Due(p)' => Due(p)
    BY <1>1, HandlerFrame DEF Due, Claims
  <1>3. DueInv'
    BY <1>2, HandlerFrame, ThreadFewer
  <1>4. \A p \in Proc : registry'[p] # None => \/ p \in children'
                                               \/ \E u \in Thread : at'[u] = "pop" /\ old'[u] = p
    BY <1>1, HandlerFrame DEF ThreadInv
  <1>5. ThreadInv'
    BY <1>1, <1>2, <1>4, HandlerFrame, OthersKeep
  <1> QED
    BY <1>3, <1>5

LEMMA HandlersDue == ASSUME WebInv, NEW t \in Thread, Handler(t) PROVE DueInv' /\ ThreadInv'
  <1>1. Kill(t) \/ Remove(t) \/ Pop(t) \/ Make(t) \/ Start(t) \/ StartManager(t) \/ TrackManager(t)
    BY DEF Handler
  <1> QED
    BY <1>1, KillDue, RemoveDue, PopDue, MakeDue, StartDue, StartManagerDue, TrackManagerDue

-----------------------------------------------------------------------------
(* The invariant of the whole *)

LEMMA StepWebEmpty == EmptyInv /\ [WebNext]_allVars => EmptyInv'
  <1> SUFFICES ASSUME EmptyInv, [WebNext]_allVars PROVE EmptyInv'
    OBVIOUS
  <1>1. CASE Beside(Next) \/ UNCHANGED allVars
    BY <1>1, StepEmpty DEF Beside, allVars
  <1>2. CASE Requests \/ \E t \in Thread : Handler(t)
    BY <1>2, RequestFrame DEF EmptyInv
  <1> QED
    BY <1>1, <1>2 DEF WebNext

LEMMA StepDue == WebInv /\ [WebNext]_allVars => DueInv' /\ ThreadInv'
  <1> SUFFICES ASSUME WebInv, UNCHANGED allVars PROVE DueInv' /\ ThreadInv'
    BY MainDue, RequestsDue, HandlersDue DEF WebNext
  <1>1. UNCHANGED <<Excused, QueuedJobs, Busy>> /\ \A p : Due(p)' <=> Due(p)
    BY DEF allVars, vars, web, main, tracked, Excused, QueuedJobs, Queue, Busy, Due, Claims
  <1> QED
    BY <1>1 DEF allVars, vars, web, main, tracked, WebInv, DueInv, ThreadInv

LEMMA WebInvHolds == WebSpec => []WebInv
  <1>1. WebInit => WebInv
    <2> SUFFICES ASSUME WebInit PROVE WebInv
      OBVIOUS
    <2>1. TypeInv /\ WebType
      BY WebInitType
    <2>2. Init /\ Busy = {} /\ BusyJobs = {} /\ \A p : ~Due(p)
      BY DEF WebInit, Init, Busy, BusyJobs, Due, Claims
    <2>3. EmptyInv
      BY <2>2 DEF Init, EmptyInv
    <2>4. JobsInv
      BY <2>2, SupervisorAssumption DEF WebInit, Init, JobsInv, ManagedArrs, Queue, Category
    <2>5. MetInv
      BY <2>2 DEF WebInit, Init, MetInv
    <2>6. RecordsInv
      BY <2>2 DEF WebInit, Init, RecordsInv, TrackedUnlessClash, Alive
    <2>7. DueInv
      BY <2>2 DEF Init, DueInv
    <2>8. ThreadInv
      BY <2>2 DEF WebInit, Init, ThreadInv
    <2> QED
      BY <2>1, <2>3, <2>4, <2>5, <2>6, <2>7, <2>8 DEF WebInv
  <1>2. WebInv /\ [WebNext]_allVars => WebInv'
    BY StepWebType, StepJobs, StepMet, StepWebEmpty, StepRecords, StepDue DEF WebInv
  <1> QED
    BY <1>1, <1>2, PTL DEF WebSpec

\* While the WebUI restarts workers beside the supervisor, every live worker is in
\* child_processes under its job, unless a restart of the job met another operation
\* on it, or a thread is about to track the worker it has just started.
THEOREM TrackedUnlessClashHolds == WebSpec => []TrackedUnlessClash
  <1>1. WebInv => TrackedUnlessClash
    BY DEF WebInv, RecordsInv
  <1> QED
    BY <1>1, WebInvHolds, PTL

\* Two live workers share a job only after a restart of that job from the WebUI met
\* another operation on it, or after a respawn over a queued start.
THEOREM OneWorkerUnlessClashHolds == WebSpec => []OneWorkerUnlessClash
  <1>1. WebInv => OneWorkerUnlessClash
    <2> SUFFICES ASSUME WebInv, NEW p \in Alive, NEW q \in Alive, p # q, JobOf[p] = JobOf[q]
                 PROVE  JobOf[p] \in Excused
      BY DEF OneWorkerUnlessClash, Excused
    <2>1. \A r \in Alive : r \in Proc /\ (Due(r) \/ JobOf[r] \in clash)
      BY DEF WebInv, RecordsInv, TrackedUnlessClash, Due, Claims, Alive
    <2> QED
      BY <2>1 DEF WebInv, DueInv, Excused
  <1> QED
    BY <1>1, WebInvHolds, PTL

=============================================================================
