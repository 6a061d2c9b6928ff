------------------------------- MODULE DbLock -------------------------------
(***************************************************************************)
(* The cross-process, re-entrant lock that guards the SQLite file          *)
(* (qBitrr/db_lock.py, _InterProcessFileLock and database_lock).           *)
(*                                                                         *)
(* Three layers stack up.  Every process has its own copy of the module    *)
(* global _DB_LOCK, hence its own RLock (`gate') and its own thread-local  *)
(* depth.  Under the gate a thread opens the lock file and calls flock on  *)
(* that handle; the kernel lock belongs to the open file, not to the       *)
(* thread.  The supervisor forks its workers, so a worker starts with a    *)
(* copy of the supervisor's gate and of every handle open at that moment.  *)
(***************************************************************************)
EXTENDS Naturals, FiniteSets

CONSTANTS Thread,        \* every thread that may use the lock
          Process,       \* the supervisor and its workers
          ProcOf,        \* the process a thread runs in
          Parent,        \* the supervisor: the only process that forks
          StartAlive,    \* the processes alive in the initial state
          MaxDepth,      \* bound: nesting of database_lock() blocks
          MaxFaults,     \* bound, per kind of fault, on how often it occurs
          None           \* not a thread

ASSUME LockAssumption ==
    /\ ProcOf \in [Thread -> Process]
    /\ Parent \in Process
    /\ StartAlive \subseteq Process
    /\ MaxDepth \in Nat \ {0}
    /\ MaxFaults \in [{"open", "unlock", "crash"} -> Nat]
    /\ None \notin Thread

VARIABLES pc,      \* where a thread is in acquire() or release()
          depth,   \* _local.depth of a thread
          fds,     \* the processes in which a thread's lock handle is open
          gate,    \* _thread_gate of a process: owner and recursion count
          flock,   \* the thread whose handle holds the kernel lock
          faults   \* how often each kind of fault has occurred

vars == <<pc, depth, fds, gate, flock, faults>>

\* "run": outside acquire and release; "want": blocked on the gate;
\* "gated": before open(); "flocking": blocked in flock(LOCK_EX);
\* "closing": between flock(LOCK_UN) and the end of release();
\* "dead": the process does not exist.
PC == {"run", "want", "gated", "flocking", "closing", "dead"}

Gate == [owner : Thread \cup {None}, count : Nat]

Free == [owner |-> None, count |-> 0]

ThreadsOf(p) == {t \in Thread : ProcOf[t] = p}

\* _local.handle of a thread at rest: set by acquire, deleted by release.
HoldsHandle(t) == pc[t] = "run" /\ depth[t] > 0 /\ ProcOf[t] \in fds[t]

\* A thread is inside a block under the lock.  When its last release has failed,
\* one level of depth belongs to no block.
Inside(t) == \/ HoldsHandle(t)
             \/ pc[t] = "run" /\ depth[t] > 1

InsideSet == {t \in Thread : Inside(t)}

Init ==
    /\ pc = [t \in Thread |-> IF ProcOf[t] \in StartAlive THEN "run" ELSE "dead"]
    /\ depth = [t \in Thread |-> 0]
    /\ fds = [t \in Thread |-> {}]
    /\ gate = [p \in Process |-> Free]
    /\ flock = None
    /\ faults = [k \in DOMAIN MaxFaults |-> 0]

Fault(k) == /\ faults[k] < MaxFaults[k]
            /\ faults' = [faults EXCEPT ![k] = @ + 1]

\* The kernel lock once the handles are open as in `open': the lock goes with the
\* last descriptor of the handle that has it.
Kernel(open) == IF flock # None /\ open[flock] = {} THEN None ELSE flock

UngateOnce(g) == IF g.count = 1 THEN Free ELSE [g EXCEPT !.count = @ - 1]

-----------------------------------------------------------------------------
(* Variants: each is an operation below with one bug a change could bring in. *)

\* flock() raising is taken for success.
FlockFailsAsGranted(t) ==
    /\ pc[t] = "flocking"
    /\ depth' = [depth EXCEPT ![t] = 1]
    /\ pc' = [pc EXCEPT ![t] = "run"]
    /\ UNCHANGED <<fds, gate, flock, faults>>

\* The depth belongs to the process and not to the thread.
AcquireByProcess(t) ==
    /\ pc[t] = "run" /\ depth[t] = 0
    /\ IF \E u \in ThreadsOf(ProcOf[t]) : HoldsHandle(u)
       THEN depth' = [depth EXCEPT ![t] = MaxDepth] /\ UNCHANGED pc
       ELSE pc' = [pc EXCEPT ![t] = "want"] /\ UNCHANGED depth
    /\ UNCHANGED <<fds, gate, flock, faults>>

\* A lock file that marks the owner and outlives it.
CrashKeepsLock(p) ==
    /\ \E t \in ThreadsOf(p) : pc[t] # "dead"
    /\ Fault("crash")
    /\ pc' = [t \in Thread |-> IF ProcOf[t] = p THEN "dead" ELSE pc[t]]
    /\ depth' = [t \in Thread |-> IF ProcOf[t] = p THEN 0 ELSE depth[t]]
    /\ fds' = [t \in Thread |-> fds[t] \ {p}]
    /\ gate' = [gate EXCEPT ![p] = Free]
    /\ UNCHANGED flock

-----------------------------------------------------------------------------
(* acquire() *)

\* The outermost acquire starts: depth is 0, so it will take the gate.
Acquire(t) ==
    /\ pc[t] = "run" /\ depth[t] = 0
    /\ pc' = [pc EXCEPT ![t] = "want"]
    /\ UNCHANGED <<depth, fds, gate, flock, faults>>

\* A nested acquire only counts.
Reacquire(t) ==
    /\ pc[t] = "run" /\ depth[t] \in 1..(MaxDepth - 1)
    /\ depth' = [depth EXCEPT ![t] = @ + 1]
    /\ UNCHANGED <<pc, fds, gate, flock, faults>>

\* _thread_gate.acquire(): an RLock lets its owner in again.
EnterGate(t) ==
    LET p == ProcOf[t] IN
    /\ pc[t] = "want"
    /\ gate[p].owner \in {None, t}
    /\ gate' = [gate EXCEPT ![p] = [owner |-> t, count |-> @.count + 1]]
    /\ pc' = [pc EXCEPT ![t] = "gated"]
    /\ UNCHANGED <<depth, fds, flock, faults>>

\* mkdir() or open() raises: both are outside the try, so nothing gives the
\* gate back.
OpenFails(t) ==
    /\ pc[t] = "gated"
    /\ Fault("open")
    /\ pc' = [pc EXCEPT ![t] = "run"]
    /\ UNCHANGED <<depth, fds, gate, flock>>

OpenHandle(t) ==
    /\ pc[t] = "gated"
    /\ fds' = [fds EXCEPT ![t] = {ProcOf[t]}]
    /\ pc' = [pc EXCEPT ![t] = "flocking"]
    /\ UNCHANGED <<depth, gate, flock, faults>>

FlockGranted(t) ==
    /\ pc[t] = "flocking"
    /\ flock = None
    /\ flock' = t
    /\ depth' = [depth EXCEPT ![t] = 1]
    /\ pc' = [pc EXCEPT ![t] = "run"]
    /\ UNCHANGED <<fds, gate, faults>>

\* flock() raises: the except branch closes the handle and leaves the gate.
FlockFails(t) ==
    /\ pc[t] = "flocking"
    /\ fds' = [fds EXCEPT ![t] = @ \ {ProcOf[t]}]
    /\ flock' = Kernel(fds')
    /\ gate' = [gate EXCEPT ![ProcOf[t]] = UngateOnce(@)]
    /\ pc' = [pc EXCEPT ![t] = "run"]
    /\ UNCHANGED <<depth, faults>>

-----------------------------------------------------------------------------
(* release() *)

\* An inner release only counts.
ReleaseInner(t) ==
    /\ pc[t] = "run" /\ depth[t] > 1
    /\ depth' = [depth EXCEPT ![t] = @ - 1]
    /\ UNCHANGED <<pc, fds, gate, flock, faults>>

\* flock(LOCK_UN) on the handle, whoever else has inherited it.
Unlock(t) ==
    /\ HoldsHandle(t) /\ depth[t] = 1
    /\ flock' = IF flock = t THEN None ELSE flock
    /\ pc' = [pc EXCEPT ![t] = "closing"]
    /\ UNCHANGED <<depth, fds, gate, faults>>

\* The finally block, then _local.depth = 0.
FinishRelease(t) ==
    /\ pc[t] = "closing"
    /\ fds' = [fds EXCEPT ![t] = @ \ {ProcOf[t]}]
    /\ flock' = Kernel(fds')
    /\ gate' = [gate EXCEPT ![ProcOf[t]] = UngateOnce(@)]
    /\ depth' = [depth EXCEPT ![t] = 0]
    /\ pc' = [pc EXCEPT ![t] = "run"]
    /\ UNCHANGED faults

\* flock(LOCK_UN) raises: the finally block runs, the exception skips the last
\* assignment and depth stays 1.  Closing the last descriptor drops the lock.
UnlockFails(t) ==
    /\ HoldsHandle(t) /\ depth[t] = 1
    /\ Fault("unlock")
    /\ fds' = [fds EXCEPT ![t] = @ \ {ProcOf[t]}]
    /\ flock' = Kernel(fds')
    /\ gate' = [gate EXCEPT ![ProcOf[t]] = UngateOnce(@)]
    /\ UNCHANGED <<pc, depth>>

-----------------------------------------------------------------------------
(* Processes *)

\* A process dies: its descriptors close, and with the last descriptor of the
\* owning handle the kernel lock goes.
Crash(p) ==
    /\ \E t \in ThreadsOf(p) : pc[t] # "dead"
    /\ Fault("crash")
    /\ pc' = [t \in Thread |-> IF ProcOf[t] = p THEN "dead" ELSE pc[t]]
    /\ depth' = [t \in Thread |-> IF ProcOf[t] = p THEN 0 ELSE depth[t]]
    /\ fds' = [t \in Thread |-> fds[t] \ {p}]
    /\ flock' = Kernel(fds')
    /\ gate' = [gate EXCEPT ![p] = Free]

\* Thread t of the supervisor forks a worker, outside any block under the lock.
\* The worker's one thread is a copy of t: it owns what t owned, and nobody
\* there owns what another thread of the supervisor owned.
Fork(t, c) ==
    LET p == ProcOf[t] IN
    /\ p = Parent /\ ProcOf[c] # Parent
    /\ pc[t] = "run" /\ ~Inside(t)
    /\ \A u \in ThreadsOf(ProcOf[c]) : pc[u] = "dead"
    /\ pc' = [pc EXCEPT ![c] = "run"]
    /\ depth' = [depth EXCEPT ![c] = depth[t]]
    /\ gate' = [gate EXCEPT ![ProcOf[c]] =
                  IF gate[p].owner = t THEN [gate[p] EXCEPT !.owner = c] ELSE gate[p]]
    /\ fds' = [u \in Thread |->
                  IF p \in fds[u] THEN fds[u] \cup {ProcOf[c]} ELSE fds[u]]
    /\ UNCHANGED <<flock, faults>>

AcquireSteps(t) == Acquire(t) \/ Reacquire(t) \/ EnterGate(t) \/ OpenFails(t)
                     \/ OpenHandle(t) \/ FlockGranted(t) \/ FlockFails(t)

ReleaseSteps(t) == ReleaseInner(t) \/ Unlock(t) \/ FinishRelease(t) \/ UnlockFails(t)

Next == \/ \E t \in Thread : AcquireSteps(t) \/ ReleaseSteps(t)
        \/ \E p \in Process : Crash(p)
        \/ \E t, c \in Thread : Fork(t, c)

Spec == Init /\ [][Next]_vars

\* A thread that is running code of acquire or release keeps running it; a
\* block under the lock ends, since the context manager always releases; a
\* lock that is free again and again is eventually granted to each waiter.
FairSpec == /\ Spec
            /\ \A t \in Thread :
                 /\ WF_vars(OpenHandle(t)) /\ WF_vars(FinishRelease(t))
                 /\ WF_vars(ReleaseInner(t)) /\ SF_vars(Unlock(t))
                 /\ SF_vars(EnterGate(t)) /\ SF_vars(FlockGranted(t))

-----------------------------------------------------------------------------
(* Properties *)

\* Every variable has a value of the kind the code gives it.
TypeOK ==
    /\ pc \in [Thread -> PC]
    /\ depth \in [Thread -> 0..MaxDepth]
    /\ fds \in [Thread -> SUBSET Process]
    /\ gate \in [Process -> Gate]
    /\ flock \in Thread \cup {None}
    /\ faults \in [DOMAIN MaxFaults -> Nat]

\* No flock(LOCK_UN) has failed.
NoUnlockFault == faults["unlock"] = 0

\* database_lock() "serialize[s] SQLite access across processes": no two
\* threads, of one process or of two, are inside it together, unless an
\* flock(LOCK_UN) has failed.
MutualExclusion ==
    NoUnlockFault => \A t, u \in InsideSet : t = u

Alive(p) == \E t \in ThreadsOf(p) : pc[t] # "dead"

\* A crash gives the kernel lock back: whoever holds it, a living process
\* still has the handle open.
FlockHasLivingHolder ==
    flock # None => fds[flock] # {} /\ \A p \in fds[flock] : Alive(p)

\* A thread is using the gate: it is between taking it and giving it back.
UsesGate(t) == pc[t] \in {"gated", "flocking", "closing"} \/ HoldsHandle(t)

M == INSTANCE Mutex WITH Client <- Thread, inside <- InsideSet,
                         broken <- ~NoUnlockFault

\* The three-layer lock implements the abstract mutual exclusion of Mutex.
ImplementsMutex == M!Spec

\* Nobody will give the gate of the process back, for it was inherited at a fork
\* or kept by a failed open(); or the kernel lock is alive only in inherited handles.
Orphaned(t) ==
    LET o == gate[ProcOf[t]].owner IN
    \/ o \notin ThreadsOf(ProcOf[t]) \cup {None}
    \/ o # None /\ ~UsesGate(o) /\ faults["open"] > 0
    \/ flock # None /\ fds[flock] # {} /\ ProcOf[flock] \notin fds[flock]

Waiting(t) == pc[t] \in {"want", "gated", "flocking"}

\* A thread that asks for the lock gets an answer, unless it waits for a gate or
\* a handle that nobody is going to give back.
ServedUnlessOrphaned ==
    \A t \in Thread : Waiting(t) ~> (~Waiting(t) \/ Orphaned(t))
=============================================================================
