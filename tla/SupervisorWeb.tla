--------------------------- MODULE SupervisorWeb ---------------------------
(***************************************************************************)
(* The supervisor together with the WebUI's restart of a worker            *)
(* (process_routes._restart_process; _restart_arr_instance does the same   *)
(* for the two loops of an Arr).  The WebUI's threads change               *)
(* child_processes, _process_registry and the Arr objects' processes one   *)
(* operation at a time and without a lock, while the main thread, the      *)
(* startup thread and each other do the same.                              *)
(***************************************************************************)
EXTENDS Supervisor

CONSTANTS Thread,      \* threads that serve WebUI requests
          MaxRequests  \* bound on the requests

ASSUME WebAssumption == MaxRequests \in Nat /\ None \notin Thread

VARIABLES at,     \* where a thread is in the handler
          want,   \* the job it restarts
          old,    \* the process object it found for it
          new,    \* the process object it has made
          asked,  \* requests so far
          clash   \* history: jobs whose restart met another operation on them

web == <<at, want, old, new, asked>>
allVars == <<vars, web, clash>>

At == {"idle", "kill", "remove", "pop", "make", "start", "track"}

Busy == {t \in Thread : at[t] # "idle"}
BusyJobs == {want[t] : t \in Busy}
Held == {old[t] : t \in Busy} \cup {new[t] : t \in Busy}

ArrOf(j) == managed[j[1]]

WebInit ==
    /\ Init
    /\ at = [t \in Thread |-> "idle"]
    /\ want = [t \in Thread |-> None]
    /\ old = [t \in Thread |-> None] /\ new = [t \in Thread |-> None]
    /\ asked = 0 /\ clash = {}

\* What a restart of job j may meet: another request for it; the main thread about
\* to restart it, to try its queued start, to start its first process or to respawn
\* it; and an Arr object that does not show its worker, be that one alive or only
\* listed still (a failed retry of the other loop overwrites the object shown).
Disturbed(j) ==
    \/ j \in BusyJobs
    \/ meta = j
    \/ j \in PendingJobs \cup {JobOfSlot(s[1], s[2]) : s \in retry} \cup failed
    \/ pc \in {"start", "checkpoint", "respawn"}
    \/ startup # {}
    \/ \E p \in Alive \cup children : /\ JobOf[p] = j /\ j \in ArrJob
                                     /\ slot[<<ArrOf(j), j[2]>>] # p

-----------------------------------------------------------------------------
(* Variants: operations below with one bug a change could bring in. *)

\* The old process is left running.
KillNothing(t) ==
    /\ at[t] = "kill"
    /\ at' = [at EXCEPT ![t] = "remove"]
    /\ UNCHANGED <<vars, want, old, new, asked, clash>>

\* The new process is registered but not appended to child_processes.
MakeUnlisted(t) ==
    /\ at[t] = "make" /\ want[t] \in ArrJob
    /\ \E n \in Free \ Held :
         /\ JobOf[n] = want[t]
         /\ new' = [new EXCEPT ![t] = n]
         /\ slot' = [slot EXCEPT ![<<ArrOf(want[t]), want[t][2]>>] = n]
         /\ Construct({n}, {})
         /\ registry' = [registry EXCEPT ![n] = want[t]]
    /\ at' = [at EXCEPT ![t] = "start"]
    /\ UNCHANGED <<children, managed, pending, recent, dbEvent, shutdown, startup, restarter, main,
                   overlap, budget, want, old, asked, clash>>

-----------------------------------------------------------------------------
(* A request *)

Ask(t, j, p) ==
    /\ ~Over /\ at[t] = "idle" /\ asked < MaxRequests
    /\ asked' = asked + 1
    /\ want' = [want EXCEPT ![t] = j]
    /\ old' = [old EXCEPT ![t] = p] /\ new' = [new EXCEPT ![t] = None]
    /\ at' = [at EXCEPT ![t] = IF p = None THEN "make" ELSE "kill"]
    /\ clash' = IF Disturbed(j) THEN clash \cup {j} ELSE clash
    /\ UNCHANGED vars

\* The loop of a managed Arr, in whatever process the Arr object shows for it.
AskArr(t, j) == ArrOf(j) # None /\ Ask(t, j, slot[<<ArrOf(j), j[2]>>])

\* A category manager, found in the registry.
AskManager(t, q, p) == registry[p] = ManagerJob(q) /\ Ask(t, ManagerJob(q), p)

\* kill() and terminate(); what they raise for an unstarted process is ignored.
Kill(t) ==
    /\ at[t] = "kill"
    /\ phase' = [phase EXCEPT ![old[t]] = IF @ = "alive" THEN "crashed" ELSE @]
    /\ at' = [at EXCEPT ![t] = "remove"]
    /\ UNCHANGED <<tracked, slot, managed, pending, recent, dbEvent, shutdown, startup, restarter,
                   main, overlap, budget, want, old, new, asked, clash>>

Remove(t) ==
    /\ at[t] = "remove"
    /\ children' = children \ {old[t]}
    /\ at' = [at EXCEPT ![t] = "pop"]
    /\ UNCHANGED <<phase, registry, slot, managed, pending, recent, dbEvent, shutdown, startup,
                   restarter, main, overlap, budget, want, old, new, asked, clash>>

Pop(t) ==
    /\ at[t] = "pop"
    /\ registry' = [registry EXCEPT ![old[t]] = None]
    /\ at' = [at EXCEPT ![t] = "make"]
    /\ UNCHANGED <<phase, children, slot, managed, pending, recent, dbEvent, shutdown, startup,
                   restarter, main, overlap, budget, want, old, new, asked, clash>>

\* An Arr's process is shown and tracked, then started.
Make(t) ==
    /\ at[t] = "make" /\ want[t] \in ArrJob
    /\ \E n \in Free \ Held :
         /\ JobOf[n] = want[t]
         /\ new' = [new EXCEPT ![t] = n]
         /\ slot' = [slot EXCEPT ![<<ArrOf(want[t]), want[t][2]>>] = n]
         /\ Construct({n}, {})
         /\ Track({n})
    /\ at' = [at EXCEPT ![t] = "start"]
    /\ UNCHANGED <<managed, pending, recent, dbEvent, shutdown, startup, restarter, main,
                   overlap, budget, want, old, asked, clash>>

\* start() fails when the process already runs, and may fail otherwise: the
\* request ends with an error, and nothing is undone.
Start(t) ==
    /\ at[t] = "start"
    /\ \/ /\ phase[new[t]] = "made"
          /\ phase' = [phase EXCEPT ![new[t]] = "alive"]
          /\ UNCHANGED budget
       \/ phase[new[t]] # "made" /\ UNCHANGED <<phase, budget>>
       \/ phase[new[t]] = "made" /\ Spend("start", 1) /\ UNCHANGED phase
    /\ at' = [at EXCEPT ![t] = "idle"]
    /\ UNCHANGED <<tracked, slot, managed, pending, recent, dbEvent, shutdown, startup, restarter,
                   main, overlap, want, old, new, asked, clash>>

\* A category manager's process is started, then tracked.
StartManager(t) ==
    /\ at[t] = "make" /\ want[t] \notin ArrJob
    /\ \/ \E n \in Free \ Held :
            /\ JobOf[n] = want[t]
            /\ new' = [new EXCEPT ![t] = n]
            /\ Construct({n}, {n})
            /\ at' = [at EXCEPT ![t] = "track"]
            /\ UNCHANGED budget
       \/ /\ Spend("start", 1)
          /\ at' = [at EXCEPT ![t] = "idle"]
          /\ UNCHANGED <<phase, new>>
    /\ UNCHANGED <<tracked, slot, managed, pending, recent, dbEvent, shutdown, startup, restarter,
                   main, overlap, want, old, asked, clash>>

TrackManager(t) ==
    /\ at[t] = "track"
    /\ Track({new[t]})
    /\ at' = [at EXCEPT ![t] = "idle"]
    /\ UNCHANGED <<phase, slot, managed, pending, recent, dbEvent, shutdown, startup, restarter,
                   main, overlap, budget, want, old, new, asked, clash>>

Handler(t) == ~Over /\ (\/ Kill(t) \/ Remove(t) \/ Pop(t) \/ Make(t) \/ Start(t)
                        \/ StartManager(t) \/ TrackManager(t))

Requests == \E t \in Thread : \/ \E j \in ArrJob : AskArr(t, j)
                              \/ \E q \in Qbit, p \in Proc : AskManager(t, q, p)

-----------------------------------------------------------------------------
(* The supervisor's steps, beside the requests *)

\* An object that a thread still refers to is not made again.
KeepsHeld == {s \in Slot : slot'[s] # slot[s] /\ slot'[s] \in Held} = {}

\* The main thread starts, takes on or stops a job while a thread restarts it.
Clashes == {j \in BusyJobs : \/ meta' = j /\ meta # j
                             \/ \E p \in Proc : JobOf[p] = j /\ p \notin Alive /\ phase'[p] = "alive"
                             \/ pc' \in {"start", "checkpoint", "joining"} /\ pc' # pc}

Beside(A) == A /\ KeepsHeld /\ clash' = clash \cup Clashes /\ UNCHANGED web

WebNext == Beside(Next) \/ Requests \/ \E t \in Thread : Handler(t)

WebSpec == WebInit /\ [][WebNext]_allVars

-----------------------------------------------------------------------------
(* Properties *)

\* Two live workers share a job only after a restart from the WebUI met another
\* operation on that job, or after the respawn over a queued start.
OneWorkerUnlessClash ==
    \A p, q \in Alive : p # q /\ JobOf[p] = JobOf[q] => JobOf[p] \in overlap \cup clash

\* A live worker is tracked unless its restart met another operation, or a
\* thread of the WebUI is about to track it.
TrackedUnlessClash ==
    \A p \in Alive : \/ p \in children /\ registry[p] = JobOf[p]
                     \/ JobOf[p] \in clash
                     \/ \E t \in Thread : at[t] = "track" /\ new[t] = p
=============================================================================
