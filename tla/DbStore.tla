------------------------------ MODULE DbStore ------------------------------
(***************************************************************************)
(* The one SQLite file all processes share, and its repair by dump and     *)
(* restore (db_recovery.repair_database).  Module DbStart adds how a       *)
(* worker comes to a connection.                                           *)
(*                                                                         *)
(* Workers write through a connection they keep open, some rows under the  *)
(* lock and most of them without it; a connection names the file it        *)
(* opened, not the path.  The supervisor repairs a damaged file under the  *)
(* database lock (database.maintain_database); a worker whose health check *)
(* fails, and one that starts, repair it without the lock.  All repairs    *)
(* share one temporary path.  The lock itself is the abstract Mutex.       *)
(***************************************************************************)
EXTENDS Naturals, FiniteSets

CONSTANTS Worker,       \* Arr worker processes
          Maintainer,   \* supervisor threads that run maintain_database
          Recovering,   \* the workers whose health checks find the damage
          Row,          \* the rows workers write
          Length,       \* the seconds each row's track lasts
          OldRow,       \* rows the file comes with
          OldVersions,  \* the schema versions it may come with
          MaxFiles,     \* bound: files ever created
          MaxDamage,    \* bound: how often the file is damaged
          MaxFaults,    \* bound: operations that raise and processes that are killed
          MaxRepairs,   \* bound: repairs other than those of a start
          None          \* no file, no client

ASSUME StoreAssumption ==
    /\ Worker \cap Maintainer = {}
    /\ Recovering \subseteq Worker
    /\ Length \in [Row -> Nat] /\ OldRow \subseteq Row /\ OldVersions \subseteq 0..4
    /\ MaxFiles \in Nat \ {0}
    /\ MaxDamage \in Nat /\ MaxFaults \in Nat /\ MaxRepairs \in Nat
    /\ None \notin Worker \cup Maintainer \cup (1..MaxFiles)

VARIABLES db,        \* the file at qbitrr.db
          temp,      \* the file at qbitrr.db.temp
          content,   \* the rows in each file, each with the duration stored
          version,   \* user_version of each file
          parts,     \* what its schema has of what the migrations add
          created,   \* how many files exist
          damaged,   \* the files that fail the integrity check
          hopeless,  \* those of them nothing can be dumped from
          conn,      \* the file a worker's connection is open on
          holder,    \* who has the database lock
          step,      \* where a client is
          starting,  \* the workers that have no connection yet
          src, dst,  \* the files a repair reads and writes
          acked,     \* acked[r]: the file row r was committed to
          live,      \* rows committed while their file was qbitrr.db
          late,      \* history: those committed without the lock to a file that a repair
                     \* had copied already
          unguarded, \* history: a repair was not led under the lock to its end
          budget     \* how many events of each kind are left

harm == <<damaged, hopeless>>
files == <<db, temp, content, version, parts, created, harm>>
repair == <<src, dst>>
written == <<acked, live, late>>
vars == <<files, conn, holder, step, starting, repair, written, unguarded, budget>>

Client == Worker \cup Maintainer
File == 1..MaxFiles
RepairStep == {"open", "dump", "verify", "unlink", "move"}
StartStep == {"check", "fresh", "connect", "keys", "counts", "durations", "profiles"}
Step == {"idle"} \cup RepairStep \cup StartStep
Part == {"keys", "counts", "filled", "profiles"}

\* The version that brings a part, and what a file that came with a version has.
Since == [keys |-> 1, counts |-> 2, filled |-> 2, profiles |-> 4]
Schema(v) == {p \in Part : v >= Since[p]}

Init ==
    /\ db = 1 /\ temp = None
    /\ \E v \in OldVersions :
           /\ version = [f \in File |-> IF f = 1 THEN v ELSE 0]
           /\ parts = [f \in File |-> IF f = 1 THEN Schema(v) ELSE {}]
           /\ content = [f \in File |-> IF f = 1
                  THEN {<<r, IF v < 3 THEN 1000 * Length[r] ELSE Length[r]>> : r \in OldRow}
                  ELSE {}]
    /\ created = 1 /\ damaged = {} /\ hopeless = {}
    /\ conn = [w \in Worker |-> None]
    /\ holder = None
    /\ step = [c \in Client |-> IF c \in Worker THEN "check" ELSE "idle"]
    /\ starting = Worker
    /\ src = [c \in Client |-> None] /\ dst = [c \in Client |-> None]
    /\ acked = [r \in Row |-> IF r \in OldRow THEN 1 ELSE None]
    /\ live = OldRow /\ late = {} /\ unguarded = FALSE
    /\ budget = [damage |-> MaxDamage, fault |-> MaxFaults, repair |-> MaxRepairs]

Spend(k) == budget[k] > 0 /\ budget' = [budget EXCEPT ![k] = @ - 1]
RowsOf(f) == {p[1] : p \in content[f]}

\* sqlite3.connect on a path: the file there, or a new empty one.
Opened(path) == IF path = None THEN created + 1 ELSE path
CanOpen(path) == path # None \/ created < MaxFiles
CountOpen(path) == created' = IF path = None THEN created + 1 ELSE created

-----------------------------------------------------------------------------
(* Variants: operations below with one bug a change could bring in. *)

\* maintain_database without its database_lock block.
StartMaintainUnlocked(m) ==
    /\ m \in Maintainer /\ step[m] = "idle"
    /\ db \in damaged /\ Spend("repair")
    /\ step' = [step EXCEPT ![m] = "open"]
    /\ UNCHANGED <<files, conn, holder, starting, repair, written, unguarded>>

-----------------------------------------------------------------------------
(* Workers *)

\* One statement of a worker, committed on the connection it keeps open.
Commit(w, r) ==
    /\ step[w] = "idle" /\ acked[r] = None
    /\ content' = [content EXCEPT ![conn[w]] = @ \cup {<<r, Length[r]>>}]
    /\ acked' = [acked EXCEPT ![r] = conn[w]]
    /\ live' = IF conn[w] = db THEN live \cup {r} ELSE live
    /\ UNCHANGED <<db, temp, version, parts, created, harm, conn, holder, step, starting,
                   repair, unguarded, budget>>

\* The rows of torrents are written in blocks under the lock (the tags, arr_base.py).
Write(w, r) == holder = None /\ Commit(w, r) /\ UNCHANGED late

\* The rows of the catalogue are written without it (the ingests and the search marks),
\* whatever a repair is doing meanwhile.
Copying(f) == \E c \in Client : step[c] \in {"verify", "unlink"} /\ src[c] = f
WriteUnlocked(w, r) ==
    /\ Commit(w, r)
    /\ late' = IF Copying(conn[w]) THEN late \cup {r} ELSE late

\* A disk error damages the file: what it holds can still be dumped, or not.
Damage ==
    /\ db # None /\ db \notin damaged
    /\ Spend("damage")
    /\ damaged' = damaged \cup {db}
    /\ hopeless' \in {hopeless, hopeless \cup {db}}
    /\ UNCHANGED <<db, temp, content, version, parts, created, conn, holder, step, starting,
                   repair, written, unguarded>>

-----------------------------------------------------------------------------
(* Repair *)

\* The checkpoint does not help and the health check fails: the maintainer
\* repairs, inside the lock.
StartMaintain(m) ==
    /\ m \in Maintainer /\ step[m] = "idle"
    /\ holder = None
    /\ db \in damaged /\ Spend("repair")
    /\ holder' = m
    /\ step' = [step EXCEPT ![m] = "open"]
    /\ UNCHANGED <<files, conn, starting, repair, written, unguarded>>

\* A worker does the same, without the lock.
StartRecover(w) ==
    /\ w \in Recovering /\ step[w] = "idle"
    /\ db \in damaged /\ Spend("repair")
    /\ step' = [step EXCEPT ![w] = "open"]
    /\ unguarded' = TRUE
    /\ UNCHANGED <<files, conn, holder, starting, repair, written>>

\* The backup is copied, both connections are opened.
OpenBoth(c) ==
    /\ step[c] = "open" /\ db # None /\ CanOpen(temp)
    /\ src' = [src EXCEPT ![c] = db]
    /\ dst' = [dst EXCEPT ![c] = Opened(temp)]
    /\ temp' = Opened(temp) /\ CountOpen(temp)
    /\ step' = [step EXCEPT ![c] = "dump"]
    /\ UNCHANGED <<db, content, version, parts, harm, conn, holder, starting, written,
                   unguarded, budget>>

\* iterdump into the temporary file, user_version apart.  What an earlier repair left
\* there stays: its tables, so that rows of another shape are skipped, and its rows.
Dump(c) ==
    LET s == src[c]  d == dst[c]
        bare == RowsOf(d) = {} /\ parts[d] = {}
        fits == bare \/ parts[s] = parts[d]
    IN  /\ step[c] = "dump" /\ s \notin hopeless
        /\ content' = [content EXCEPT ![d] =
               IF fits THEN @ \cup {p \in content[s] : p[1] \notin RowsOf(d)} ELSE @]
        /\ parts' = [parts EXCEPT ![d] = IF bare THEN parts[s] ELSE @]
        /\ step' = [step EXCEPT ![c] = "verify"]
        /\ UNCHANGED <<db, temp, version, created, harm, conn, holder, starting, repair,
                       written, unguarded, budget>>

\* The integrity check opens the path again: a file that has been moved away
\* meanwhile is created anew, empty and sound.
Verify(c) ==
    /\ step[c] = "verify" /\ CanOpen(temp)
    /\ temp' = Opened(temp) /\ CountOpen(temp)
    /\ step' = [step EXCEPT ![c] = "unlink"]
    /\ UNCHANGED <<db, content, version, parts, harm, conn, holder, starting, repair,
                   written, unguarded, budget>>

Unlink(c) ==
    /\ step[c] = "unlink"
    /\ db' = None
    /\ step' = [step EXCEPT ![c] = "move"]
    /\ UNCHANGED <<temp, content, version, parts, created, harm, conn, holder, starting,
                   repair, written, unguarded, budget>>

\* Where a client goes on after its repair.
Leave(c, next) ==
    /\ step' = [step EXCEPT ![c] = IF c \in starting THEN next ELSE "idle"]
    /\ src' = [src EXCEPT ![c] = None] /\ dst' = [dst EXCEPT ![c] = None]
    /\ holder' = IF holder = c THEN None ELSE holder

Move(c) ==
    /\ step[c] = "move" /\ temp # None
    /\ db' = temp /\ temp' = None
    /\ Leave(c, "connect")
    /\ UNCHANGED <<content, version, parts, created, harm, conn, starting, written,
                   unguarded, budget>>

\* The except branch removes the temporary file and raises: after a file that
\* is missing, or an error of the dump or of the check.
Fails(c) ==
    /\ \/ step[c] = "open" /\ db = None /\ UNCHANGED budget
       \/ step[c] = "dump" /\ src[c] \in hopeless /\ UNCHANGED budget
       \/ step[c] = "move" /\ temp = None /\ UNCHANGED budget
       \/ step[c] \in {"open", "dump", "verify"} /\ Spend("fault")
    /\ temp' = None
    /\ Leave(c, "fresh")
    /\ UNCHANGED <<db, content, version, parts, created, harm, conn, starting, written,
                   unguarded>>

-----------------------------------------------------------------------------
(* Properties *)

\* A repair "[d]umps all recoverable data" and "[r]eplaces the original with the
\* repaired copy".  As long as all repairs are led under the lock and none is killed,
\* qbitrr.db has every row that was committed to it, except inside the repair's last two
\* steps, and except the rows that a writer without the lock commits after the dump: a
\* row written under the lock, or before the dump, is never lost.
RowsKept ==
    \/ unguarded \/ \E c \in Client : step[c] = "move"
    \/ db # None /\ live \ late \subseteq RowsOf(db)

=============================================================================
