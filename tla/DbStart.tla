------------------------------ MODULE DbStart ------------------------------
(***************************************************************************)
(* How a worker comes to its connection (database.get_database): the       *)
(* integrity check and the ladder of repairs without the lock, then, under *)
(* the lock, the tables and the migrations of the schema, each of which    *)
(* counts user_version up when it has succeeded.  Composed with the        *)
(* repairs and writes of module DbStore.                                   *)
(***************************************************************************)
EXTENDS DbStore

\* A start that raises ends the process; the supervisor starts it again.
Restarted(w) ==
    /\ step' = [step EXCEPT ![w] = "check"] /\ starting' = starting \cup {w}
    /\ conn' = [conn EXCEPT ![w] = None]
    /\ src' = [src EXCEPT ![w] = None] /\ dst' = [dst EXCEPT ![w] = None]
    /\ holder' = IF holder = w THEN None ELSE holder

\* A process is killed, or a worker stopped; a killed thread's work is not resumed.
Killed(c) ==
    /\ c \in Worker \/ step[c] # "idle"
    /\ Spend("fault")
    /\ IF c \in Worker THEN Restarted(c) ELSE Leave(c, "idle") /\ UNCHANGED <<starting, conn>>
    /\ unguarded' = (unguarded \/ step[c] \in RepairStep)
    /\ UNCHANGED <<files, written>>

-----------------------------------------------------------------------------
(* The integrity check and the ladder. *)

\* The checkpoint of the WAL makes the file sound (checkpoint_wal).
Checkpointed == db \notin hopeless /\ damaged' = damaged \ {db}

\* No file, or a sound one; a damaged one goes to the repair if the checkpoint is no help.
Check(w) ==
    /\ step[w] = "check"
    /\ IF db \in damaged
       THEN \/ /\ Checkpointed
               /\ step' = [step EXCEPT ![w] = "connect"]
               /\ UNCHANGED unguarded
            \/ step' = [step EXCEPT ![w] = "open"] /\ unguarded' = TRUE /\ UNCHANGED damaged
       ELSE step' = [step EXCEPT ![w] = "connect"] /\ UNCHANGED <<damaged, unguarded>>
    /\ UNCHANGED <<db, temp, content, version, parts, created, hopeless, conn, holder, starting,
                   repair, written, budget>>

\* The repair has failed: the file is deleted for a fresh start, or the process ends.
\* (Variant: the process ends without the last resort.)
RemoveNever(w) ==
    /\ step[w] = "fresh" /\ Restarted(w)
    /\ UNCHANGED <<files, written, unguarded, budget>>
Remove(w) ==
    /\ step[w] = "fresh"
    /\ \/ /\ db' = None /\ step' = [step EXCEPT ![w] = "connect"]
          /\ UNCHANGED <<conn, holder, starting, repair, budget>>
       \/ Spend("fault") /\ Restarted(w) /\ UNCHANGED db
    /\ UNCHANGED <<temp, content, version, parts, created, harm, written, unguarded>>

-----------------------------------------------------------------------------
(* Tables and migrations, under the lock. *)

\* create_tables makes what does not exist: a new file has everything but its version.
Connect(w) ==
    /\ step[w] = "connect" /\ holder = None /\ CanOpen(db)
    /\ \/ /\ holder' = w /\ conn' = [conn EXCEPT ![w] = Opened(db)]
          /\ db' = Opened(db) /\ CountOpen(db)
          /\ parts' = [parts EXCEPT ![Opened(db)] = IF RowsOf(Opened(db)) = {} /\ @ = {}
                                                    THEN Part ELSE @]
          /\ step' = [step EXCEPT ![w] = "keys"]
          /\ UNCHANGED <<starting, repair, budget>>
       \/ Spend("fault") /\ Restarted(w) /\ UNCHANGED <<db, parts, created>>
    /\ UNCHANGED <<temp, content, version, harm, written, unguarded>>

Target == [keys |-> 1, counts |-> 2, durations |-> 3, profiles |-> 4]
Adds == [keys |-> {"keys"}, counts |-> {"counts", "filled"}, durations |-> {},
         profiles |-> {"profiles"}]
Follower == [keys |-> "counts", counts |-> "durations", durations |-> "profiles"]

\* Milliseconds are told from seconds by their size.  (Variant: the threshold itself is
\* taken for milliseconds.)
InSecondsFrom(d) == IF d >= 36000 THEN d \div 1000 ELSE d
InSeconds(d) == IF d > 36000 THEN d \div 1000 ELSE d
Converted(rows) == {<<p[1], InSeconds(p[2])>> : p \in rows}

\* What a migration changes in the file.
Changed(f, at) ==
    /\ parts' = [parts EXCEPT ![f] = @ \cup Adds[at]]
    /\ content' = IF at = "durations" THEN [content EXCEPT ![f] = Converted(@)] ELSE content

Running(w) ==
    /\ step' = [step EXCEPT ![w] = "idle"] /\ starting' = starting \ {w} /\ holder' = None
    /\ UNCHANGED <<conn, repair>>
Continue(w, at) ==
    IF at = "profiles" THEN Running(w)
    ELSE /\ step' = [step EXCEPT ![w] = Follower[at]]
         /\ UNCHANGED <<conn, holder, starting, repair>>

Skip(w, at) ==
    /\ step[w] = at /\ version[conn[w]] >= Target[at]
    /\ Continue(w, at)
    /\ UNCHANGED <<files, written, unguarded, budget>>

Migrate(w, at) ==
    /\ step[w] = at /\ version[conn[w]] < Target[at]
    /\ Changed(conn[w], at) /\ version' = [version EXCEPT ![conn[w]] = Target[at]]
    /\ Continue(w, at)
    /\ UNCHANGED <<db, temp, created, harm, written, unguarded, budget>>

\* A statement fails.  The first migration raises; after another the worker runs with the
\* version as it is, and the later ones wait for the next start.  The columns for the
\* counts stay although their filling is rolled back.  (Variant: the version counts what
\* has been tried.)
MigrationFailsCounted(w, at) ==
    /\ step[w] = at /\ version[conn[w]] < Target[at] /\ Spend("fault")
    /\ parts' = [parts EXCEPT ![conn[w]] = @ \cup (Adds[at] \cap {"counts"})]
    /\ version' = [version EXCEPT ![conn[w]] = Target[at]]
    /\ IF at = "keys" THEN Restarted(w) ELSE Running(w)
    /\ UNCHANGED <<db, temp, content, created, harm, written, unguarded>>
MigrationFails(w, at) ==
    /\ step[w] = at /\ version[conn[w]] < Target[at] /\ Spend("fault")
    /\ parts' = [parts EXCEPT ![conn[w]] = @ \cup (Adds[at] \cap {"counts"})]
    /\ IF at = "keys" THEN Restarted(w) ELSE Running(w)
    /\ UNCHANGED <<db, temp, content, version, created, harm, written, unguarded>>

\* The process is killed after the change and before the version is counted up.
KilledUncounted(w, at) ==
    /\ step[w] = at /\ version[conn[w]] < Target[at] /\ Spend("fault")
    /\ Changed(conn[w], at) /\ Restarted(w)
    /\ UNCHANGED <<db, temp, version, created, harm, written, unguarded>>

-----------------------------------------------------------------------------
Migration == {"keys", "counts", "durations", "profiles"}

Starts(w) ==
    \/ Check(w) \/ Remove(w) \/ Connect(w)
    \/ \E at \in Migration : Skip(w, at) \/ Migrate(w, at) \/ MigrationFails(w, at)
Repairs(c) == OpenBoth(c) \/ Dump(c) \/ Verify(c) \/ Unlink(c) \/ Move(c) \/ Fails(c)

Next ==
    \/ \E w \in Worker : Starts(w) \/ StartRecover(w)
    \/ \E w \in Worker, at \in Migration : KilledUncounted(w, at)
    \/ \E w \in Worker, r \in Row : Write(w, r) \/ WriteUnlocked(w, r)
    \/ \E m \in Maintainer : StartMaintain(m)
    \/ \E c \in Client : Repairs(c) \/ Killed(c)
    \/ Damage

Spec == Init /\ [][Next]_vars

\* A process that is not killed goes on with its start, for which it gets the lock in the
\* end (module DbLock), and with its repair.
Fair == Spec /\ \A w \in Worker : SF_vars(Starts(w)) /\ \A c \in Client : WF_vars(Repairs(c))

-----------------------------------------------------------------------------
(* Properties *)

\* The variables keep their types.
TypeOK ==
    /\ db \in File \cup {None} /\ temp \in File \cup {None}
    /\ content \in [File -> SUBSET (Row \X Nat)]
    /\ version \in [File -> 0..4] /\ parts \in [File -> SUBSET Part]
    /\ created \in File /\ damaged \subseteq File
    /\ conn \in [Worker -> File \cup {None}]
    /\ holder \in Client \cup {None}
    /\ step \in [Client -> Step] /\ starting \subseteq Worker
    /\ src \in [Client -> File \cup {None}] /\ dst \in [Client -> File \cup {None}]

\* Whatever fails, is killed or repaired, user_version never claims a migration that the
\* file's tables do not show ("Each step advances user_version only on success").
SchemaAsVersioned == \A f \in File : Schema(version[f]) \subseteq parts[f]

\* A repair loses user_version, so every migration runs again after it: a duration is
\* divided once all the same, and in a file that says so it is in seconds, unless the
\* track is so short that its milliseconds pass for seconds.
DurationsRight ==
    \A f \in File : \A p \in content[f] :
        /\ p[2] \in {Length[p[1]], 1000 * Length[p[1]]}
        /\ version[f] >= 3 /\ Length[p[1]] > 36 => p[2] = Length[p[1]]

\* However often a start raises or is killed, or finds the file damaged: when no more of
\* that happens, all workers run in the end.
AllRun == <>[](starting = {})
=============================================================================
