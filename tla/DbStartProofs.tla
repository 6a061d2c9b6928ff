--------------------------- MODULE DbStartProofs ---------------------------
(***************************************************************************)
(* Proofs for DbStart, for any number of workers, maintainers, files and   *)
(* faults: the schema is what user_version says, a duration is divided     *)
(* once, and a repair that is led under the lock loses no row.             *)
(***************************************************************************)
EXTENDS DbStart, TLAPS

Existing == 1..created

\* A file has an age: what is not created yet is empty, and nothing refers to it.
Unborn ==
    /\ \A f \in File : f > created => content[f] = {} /\ parts[f] = {}
    /\ db \in Existing \cup {None} /\ temp \in Existing \cup {None}
    /\ \A w \in Worker : conn[w] \in Existing \cup {None}
    /\ \A c \in Client : src[c] \in Existing \cup {None} /\ dst[c] \in Existing \cup {None}

\* Who migrates or runs has a connection, who dumps has both files open.
Placed ==
    /\ \A w \in Worker : w \notin starting \/ step[w] \in Migration => conn[w] \in File
    /\ \A c \in Client : step[c] = "idle" => c \notin starting
    /\ \A c \in Client : step[c] = "dump" => src[c] \in File /\ dst[c] \in File

Base == TypeOK /\ Unborn /\ Placed

LEMMA Arithmetic ==
    /\ MaxFiles \in Nat /\ File \subseteq Nat /\ None \notin File
    /\ \A f \in File : 1..f \subseteq File
    /\ \A f \in File : f < MaxFiles => f + 1 \in File
    /\ Worker \subseteq Client /\ Maintainer \subseteq Client
    /\ Worker \cap Maintainer = {} /\ None \notin Client
    /\ Recovering \subseteq Worker /\ OldRow \subseteq Row /\ Length \in [Row -> Nat]
  BY StoreAssumption DEF File, Client

LEMMA BaseInit == Init => Base
  BY Arithmetic, StoreAssumption, SMTT(30)
     DEF Init, Base, TypeOK, Unborn, Placed, Existing, File, Step, StartStep, Schema, Client,
         Migration, Part, Since

LEMMA BaseNext == Base /\ [Next]_vars => Base'
<1> SUFFICES ASSUME Base, [Next]_vars PROVE Base'
    OBVIOUS
<1> USE Arithmetic DEF Base, TypeOK, Unborn, Placed, Existing
\* A start that raises leaves at most a part in a file that is there.
<1>r. ASSUME NEW w \in Worker, Restarted(w), db' \in {db, None},
             UNCHANGED <<temp, content, version, created, damaged>>,
             parts' \in [File -> SUBSET Part],
             \A f \in File : f > created => parts'[f] = parts[f]
      PROVE  Base'
  <2>1. /\ step' = [step EXCEPT ![w] = "check"] /\ starting' = starting \cup {w}
        /\ conn' = [conn EXCEPT ![w] = None]
        /\ src' = [src EXCEPT ![w] = None] /\ dst' = [dst EXCEPT ![w] = None]
        /\ holder' \in Client \cup {None}
    BY <1>r DEF Restarted
  <2>2. TypeOK'
    BY <1>r, <2>1 DEF Step, StartStep
  <2>3. Unborn'
    BY <1>r, <2>1
  <2>4. Placed'
    BY <1>r, <2>1, <2>2 DEF Migration
  <2> QED BY <2>2, <2>3, <2>4
<1>1. ASSUME NEW w \in Worker, Check(w) PROVE Base'
  <2>1. /\ step[w] = "check"
        /\ step' \in {[step EXCEPT ![w] = "connect"], [step EXCEPT ![w] = "open"]}
        /\ damaged' \subseteq damaged
        /\ UNCHANGED <<db, temp, content, version, parts, created, conn, holder, starting, src, dst>>
    BY <1>1, Zenon DEF Check, Checkpointed, repair
  <2> QED BY <2>1 DEF Step, StartStep, RepairStep, Migration
<1>2. ASSUME NEW w \in Worker, Remove(w) PROVE Base'
  <2>1. /\ step[w] = "fresh" /\ db' \in {db, None}
        /\ UNCHANGED <<temp, content, version, parts, created, damaged>>
        /\ \/ step' = [step EXCEPT ![w] = "connect"] /\ UNCHANGED <<conn, holder, starting, repair>>
           \/ Restarted(w)
    BY <1>2, Zenon DEF Remove, harm
  <2>2. CASE step' = [step EXCEPT ![w] = "connect"] /\ UNCHANGED <<conn, holder, starting, repair>>
    BY <2>1, <2>2 DEF repair, Step, StartStep, Migration
  <2>3. CASE Restarted(w)
    BY <2>1, <2>3, <1>r
  <2> QED BY <2>1, <2>2, <2>3
<1>3. ASSUME NEW w \in Worker, Connect(w) PROVE Base'
  <2>1. /\ step[w] = "connect" /\ CanOpen(db)
        /\ UNCHANGED <<temp, content, version, damaged>>
        /\ \/ /\ holder' = w /\ conn' = [conn EXCEPT ![w] = Opened(db)] /\ db' = Opened(db)
              /\ CountOpen(db) /\ UNCHANGED <<starting, src, dst>>
              /\ \E q : parts' = [parts EXCEPT ![Opened(db)] = q] /\ q \in {Part, parts[Opened(db)]}
              /\ step' = [step EXCEPT ![w] = "keys"]
           \/ Restarted(w) /\ UNCHANGED <<db, parts, created>>
    BY <1>3 DEF Connect, harm, repair
  <2>2. CASE Restarted(w) /\ UNCHANGED <<db, parts, created>>
    BY <2>1, <2>2, <1>r
  <2>3. CASE ~(Restarted(w) /\ UNCHANGED <<db, parts, created>>)
    <3> DEFINE f == Opened(db)
    <3>1. PICK q : parts' = [parts EXCEPT ![f] = q] /\ q \in {Part, parts[f]}
      BY <2>1, <2>3
    <3>2. /\ f \in File /\ created' \in File /\ created <= created' /\ f \in 1..created'
      BY <2>1, <2>3 DEF Opened, CanOpen, CountOpen
    <3>3. /\ holder' = w /\ conn' = [conn EXCEPT ![w] = f] /\ db' = f
          /\ UNCHANGED <<starting, src, dst, temp, content, version, damaged>>
          /\ step' = [step EXCEPT ![w] = "keys"]
      BY <2>1, <2>3
    <3> HIDE DEF f
    <3>4. TypeOK'
      BY <3>1, <3>2, <3>3 DEF Step, StartStep, Migration
    <3>5. Unborn'
      BY <3>1, <3>2, <3>3
    <3>6. Placed'
      BY <3>2, <3>3, <3>4 DEF Migration
    <3> QED BY <3>4, <3>5, <3>6
  <2> QED BY <2>2, <2>3
<1>4. ASSUME NEW w \in Worker, NEW at \in Migration, Skip(w, at) PROVE Base'
  BY <1>4 DEF Skip, Continue, Running, files, repair, harm, written, Step, StartStep, Migration, Follower
<1>5. ASSUME NEW w \in Worker, NEW at \in Migration, Migrate(w, at) PROVE Base'
  BY <1>5 DEF Migrate, Continue, Running, Changed, Converted, InSeconds, files, repair, harm, written, Step, StartStep, Migration, Follower, Target, Adds, Part
<1>6. ASSUME NEW w \in Worker, NEW at \in Migration, MigrationFails(w, at) PROVE Base'
  <2>1. /\ step[w] \in Migration /\ conn[w] \in File /\ conn[w] \in Existing
        /\ UNCHANGED <<db, temp, content, version, created, damaged>>
        /\ parts' = [parts EXCEPT ![conn[w]] = @ \cup (Adds[at] \cap {"counts"})]
    BY <1>6 DEF MigrationFails, harm
  <2>2. parts' \in [File -> SUBSET Part] /\ \A f \in File : f > created => parts'[f] = parts[f]
    BY <2>1 DEF Part
  <2>3. CASE Restarted(w)
    BY <2>1, <2>2, <2>3, <1>r
  <2>4. CASE Running(w)
    BY <2>1, <2>2, <2>4 DEF Running, repair, Step, StartStep, Migration
  <2> QED BY <1>6, <2>3, <2>4 DEF MigrationFails
<1>7. ASSUME NEW w \in Worker, NEW at \in Migration, KilledUncounted(w, at) PROVE Base'
  BY <1>7 DEF KilledUncounted, Restarted, Changed, Converted, InSeconds, repair, harm, written, Step, StartStep, Migration, Target, Adds, Part
<1>8. ASSUME NEW w \in Worker, NEW r \in Row, Write(w, r) \/ WriteUnlocked(w, r) PROVE Base'
  BY <1>8 DEF Write, WriteUnlocked, Commit, repair, harm
<1>9. ASSUME NEW m \in Maintainer, StartMaintain(m) PROVE Base'
  BY <1>9 DEF StartMaintain, files, repair, harm, written, Step, RepairStep, Migration
<1>10. ASSUME NEW w \in Worker, StartRecover(w) PROVE Base'
  BY <1>10 DEF StartRecover, files, repair, harm, written, Step, RepairStep, Migration
<1>11. ASSUME NEW c \in Client, OpenBoth(c) PROVE Base'
  BY <1>11 DEF OpenBoth, harm, written, Step, RepairStep, Migration, Opened, CanOpen, CountOpen
<1>12. ASSUME NEW c \in Client, Dump(c) PROVE Base'
  BY <1>12 DEF Dump, repair, harm, written, Step, RepairStep, Migration
<1>13. ASSUME NEW c \in Client, Verify(c) PROVE Base'
  BY <1>13 DEF Verify, repair, harm, written, Step, RepairStep, Migration, Opened, CanOpen, CountOpen
<1>14. ASSUME NEW c \in Client, Unlink(c) PROVE Base'
  BY <1>14 DEF Unlink, repair, harm, written, Step, RepairStep, Migration
<1>15. ASSUME NEW c \in Client, Move(c) PROVE Base'
  BY <1>15 DEF Move, Leave, harm, written, Step, StartStep, Migration
<1>16. ASSUME NEW c \in Client, Fails(c) PROVE Base'
  <2>1. /\ temp' = None /\ step[c] \in {"open", "dump", "verify", "move"} /\ Leave(c, "fresh")
        /\ UNCHANGED <<db, content, version, parts, created, damaged, conn, starting>>
    BY <1>16, Zenon DEF Fails, harm
  <2>2. /\ step' \in {[step EXCEPT ![c] = "fresh"], [step EXCEPT ![c] = "idle"]}
        /\ c \in starting => step' = [step EXCEPT ![c] = "fresh"]
        /\ src' = [src EXCEPT ![c] = None] /\ dst' = [dst EXCEPT ![c] = None]
        /\ holder' \in Client \cup {None}
    BY <2>1 DEF Leave
  <2>3. TypeOK'
    BY <2>1, <2>2 DEF Step, StartStep
  <2>4. Unborn'
    BY <2>1, <2>2
  <2>5. Placed'
    BY <2>1, <2>2, <2>3 DEF Migration
  <2> QED BY <2>3, <2>4, <2>5
<1>17. ASSUME NEW c \in Client, Killed(c) PROVE Base'
  <2>1. UNCHANGED <<db, temp, content, version, parts, created, damaged>>
    BY <1>17, Zenon DEF Killed, files, harm
  <2>2. CASE c \in Worker
    BY <1>17, <2>1, <2>2, <1>r DEF Killed
  <2>3. CASE c \notin Worker
    <3>1. /\ step' = [step EXCEPT ![c] = "idle"]
          /\ src' = [src EXCEPT ![c] = None] /\ dst' = [dst EXCEPT ![c] = None]
          /\ holder' \in Client \cup {None} /\ UNCHANGED <<starting, conn>>
      BY <1>17, <2>3 DEF Killed, Leave
    <3>2. TypeOK'
      BY <2>1, <3>1 DEF Step
    <3>3. Unborn' /\ Placed'
      BY <2>1, <2>3, <3>1, <3>2 DEF Migration
    <3> QED BY <3>2, <3>3
  <2> QED BY <2>2, <2>3
<1>18. CASE Damage
  BY <1>18 DEF Damage, repair, written
<1>19. CASE UNCHANGED vars
  BY <1>19 DEF vars, files, harm, repair, written
<1> QED
  BY <1>1, <1>2, <1>3, <1>4, <1>5, <1>6, <1>7, <1>8, <1>9, <1>10, <1>11, <1>12, <1>13, <1>14,
     <1>15, <1>16, <1>17, <1>18, <1>19, Zenon DEF Next, Starts, Repairs

-----------------------------------------------------------------------------
(* The schema is what user_version says. *)

\* A migration is reached when those before it are counted.
Reached ==
    \A w \in Worker : /\ step[w] = "counts" => version[conn[w]] >= 1
                      /\ step[w] = "durations" => version[conn[w]] >= 2
                      /\ step[w] = "profiles" => version[conn[w]] >= 3

Versioned == Base /\ Reached /\ SchemaAsVersioned

LEMMA SchemaSays ==
  ASSUME NEW v \in 0..4
  PROVE  /\ "keys" \in Schema(v) <=> v >= 1
         /\ "counts" \in Schema(v) <=> v >= 2
         /\ "filled" \in Schema(v) <=> v >= 2
         /\ "profiles" \in Schema(v) <=> v >= 4
         /\ Schema(v) \subseteq {"keys", "counts", "filled", "profiles"}
  BY DEF Schema, Part, Since

LEMMA VersionedInit == Init => Versioned
<1> SUFFICES ASSUME Init PROVE Reached /\ SchemaAsVersioned
    BY BaseInit DEF Versioned
<1>1. Reached
  BY Arithmetic DEF Init, Reached
<1>2. PICK v \in 0..4 : /\ version = [f \in File |-> IF f = 1 THEN v ELSE 0]
                        /\ parts = [f \in File |-> IF f = 1 THEN Schema(v) ELSE {}]
  BY StoreAssumption DEF Init
<1>3. SchemaAsVersioned
  <2>1. ASSUME NEW f \in File PROVE Schema(version[f]) \subseteq parts[f]
    <3>1. CASE f = 1
      BY <1>2, <3>1
    <3>2. CASE f # 1
      BY <1>2, <3>2, SchemaSays
    <3> QED BY <3>1, <3>2
  <2> QED BY <2>1 DEF SchemaAsVersioned
<1> QED BY <1>1, <1>3

LEMMA VersionedNext == Versioned /\ [Next]_vars => Versioned'
<1> SUFFICES ASSUME Versioned, [Next]_vars PROVE Reached' /\ SchemaAsVersioned'
    BY BaseNext DEF Versioned
<1>b. Base /\ Base'
    BY BaseNext DEF Versioned
<1>t. /\ version \in [File -> 0..4] /\ version' \in [File -> 0..4]
      /\ parts \in [File -> SUBSET Part] /\ step \in [Client -> Step]
      /\ conn \in [Worker -> File \cup {None}]
      /\ Worker \subseteq Client /\ None \notin File
      /\ \A w \in Worker : step[w] \in Migration => conn[w] \in File
    BY <1>b, Arithmetic DEF Base, TypeOK, Placed
<1>r. Reached /\ SchemaAsVersioned
    BY DEF Versioned
\* Nothing happens to the versions and parts, and no worker gets to a migration.
<1>q. ASSUME UNCHANGED <<version, parts>>,
             \A w \in Worker : \/ step'[w] \notin Migration \ {"keys"}
                               \/ step'[w] = step[w] /\ conn'[w] = conn[w]
      PROVE  Reached' /\ SchemaAsVersioned'
  BY <1>q, <1>r DEF Reached, SchemaAsVersioned, Migration
<1>1. ASSUME NEW w \in Worker, Check(w) PROVE Reached' /\ SchemaAsVersioned'
  <2>1. /\ step' \in {[step EXCEPT ![w] = "connect"], [step EXCEPT ![w] = "open"]}
        /\ UNCHANGED <<version, parts, conn>>
    BY <1>1, Zenon DEF Check
  <2>2. CASE step' = [step EXCEPT ![w] = "connect"]
    BY <2>1, <2>2, <1>q, <1>t DEF Migration
  <2>3. CASE step' = [step EXCEPT ![w] = "open"]
    BY <2>1, <2>3, <1>q, <1>t DEF Migration
  <2> QED BY <2>1, <2>2, <2>3
<1>2. ASSUME NEW w \in Worker, Remove(w) PROVE Reached' /\ SchemaAsVersioned'
  <2>1. UNCHANGED <<version, parts>>
    BY <1>2, Zenon DEF Remove
  <2>2. \A u \in Worker : \/ step'[u] \notin Migration \ {"keys"}
                          \/ step'[u] = step[u] /\ conn'[u] = conn[u]
    BY <1>2, <1>t DEF Remove, Restarted, Migration
  <2> QED BY <2>1, <2>2, <1>q, Zenon
<1>3. ASSUME NEW w \in Worker, Connect(w) PROVE Reached' /\ SchemaAsVersioned'
  <2>1. UNCHANGED version /\ \A f \in File : parts[f] \subseteq parts'[f]
    BY <1>3, <1>t DEF Connect
  <2>2. \A u \in Worker : \/ step'[u] \notin Migration \ {"keys"}
                          \/ step'[u] = step[u] /\ conn'[u] = conn[u]
    BY <1>3, <1>t DEF Connect, Restarted, Migration
  <2> QED BY <2>1, <2>2, <1>r, <1>t DEF Reached, SchemaAsVersioned, Migration
<1>4. ASSUME NEW w \in Worker, NEW at \in Migration, Skip(w, at)
      PROVE Reached' /\ SchemaAsVersioned'
  <2>1. Reached'
    BY <1>4, <1>t, <1>r DEF Skip, Continue, Running, files, Migration, Follower, Target, Reached
  <2>2. SchemaAsVersioned'
    BY <1>4, <1>r DEF Skip, files, SchemaAsVersioned
  <2> QED BY <2>1, <2>2
<1>5. ASSUME NEW w \in Worker, NEW at \in Migration, Migrate(w, at)
      PROVE Reached' /\ SchemaAsVersioned'
  <2>1. SchemaAsVersioned'
    <3>1. /\ version' = [version EXCEPT ![conn[w]] = Target[at]]
          /\ parts' = [parts EXCEPT ![conn[w]] = @ \cup Adds[at]]
          /\ step[w] = at
      BY <1>5, Zenon DEF Migrate, Changed
    <3>2. ASSUME NEW f \in File, f = conn[w] PROVE Schema(version'[f]) \subseteq parts'[f]
      <4>1. Schema(version[f]) \subseteq parts[f]
        BY <1>r, <3>2 DEF SchemaAsVersioned
      <4>2. /\ at = "counts" => version[f] >= 1
            /\ at = "durations" => version[f] >= 2
            /\ at = "profiles" => version[f] >= 3
        BY <1>r, <3>1, <3>2 DEF Reached
      <4>3. version'[f] = Target[at] /\ parts'[f] = parts[f] \cup Adds[at]
        BY <3>1, <3>2, <1>t
      <4>4. version[f] \in 0..4 /\ version'[f] \in 0..4
        BY <1>t
      <4>k. CASE at = "keys"
        BY <4>k, <4>1, <4>3, <4>4, SchemaSays DEF Target, Adds
      <4>c. CASE at = "counts"
        BY <4>c, <4>1, <4>2, <4>3, <4>4, SchemaSays DEF Target, Adds
      <4>d. CASE at = "durations"
        BY <4>d, <4>1, <4>2, <4>3, <4>4, SchemaSays DEF Target, Adds
      <4>p. CASE at = "profiles"
        BY <4>p, <4>1, <4>2, <4>3, <4>4, SchemaSays DEF Target, Adds
      <4> QED BY <4>k, <4>c, <4>d, <4>p DEF Migration
    <3>3. ASSUME NEW f \in File, f # conn[w] PROVE Schema(version'[f]) \subseteq parts'[f]
      BY <3>1, <3>3, <1>r, <1>t DEF SchemaAsVersioned
    <3> QED BY <3>2, <3>3 DEF SchemaAsVersioned
  <2>2. Reached'
    BY <1>5, <1>t, <1>r DEF Migrate, Continue, Running, Migration, Follower, Target, Reached
  <2> QED BY <2>1, <2>2
<1>6. ASSUME NEW w \in Worker, NEW at \in Migration, MigrationFails(w, at)
      PROVE Reached' /\ SchemaAsVersioned'
  <2>1. UNCHANGED version /\ \A f \in File : parts[f] \subseteq parts'[f]
    BY <1>6, <1>t DEF MigrationFails
  <2>2. \A u \in Worker : \/ step'[u] \notin Migration \ {"keys"}
                          \/ step'[u] = step[u] /\ conn'[u] = conn[u]
    BY <1>6, <1>t DEF MigrationFails, Restarted, Running, Migration, repair
  <2> QED BY <2>1, <2>2, <1>r, <1>t DEF Reached, SchemaAsVersioned, Migration
<1>7. ASSUME NEW w \in Worker, NEW at \in Migration, KilledUncounted(w, at)
      PROVE Reached' /\ SchemaAsVersioned'
  <2>1. UNCHANGED version /\ \A f \in File : parts[f] \subseteq parts'[f]
    BY <1>7, <1>t DEF KilledUncounted, Changed
  <2>2. \A u \in Worker : \/ step'[u] \notin Migration \ {"keys"}
                          \/ step'[u] = step[u] /\ conn'[u] = conn[u]
    BY <1>7, <1>t DEF KilledUncounted, Restarted, Migration
  <2> QED BY <2>1, <2>2, <1>r, <1>t DEF Reached, SchemaAsVersioned, Migration
<1>8. ASSUME NEW w \in Worker, NEW r \in Row, Write(w, r) \/ WriteUnlocked(w, r)
      PROVE Reached' /\ SchemaAsVersioned'
  BY <1>8, <1>q DEF Write, WriteUnlocked, Commit
<1>9. ASSUME NEW m \in Maintainer, StartMaintain(m) PROVE Reached' /\ SchemaAsVersioned'
  BY <1>9, <1>q, <1>t, Arithmetic DEF StartMaintain, files, Migration
<1>10. ASSUME NEW w \in Worker, StartRecover(w) PROVE Reached' /\ SchemaAsVersioned'
  BY <1>10, <1>q, <1>t DEF StartRecover, files, Migration
<1>11. ASSUME NEW c \in Client, OpenBoth(c) PROVE Reached' /\ SchemaAsVersioned'
  BY <1>11, <1>q, <1>t DEF OpenBoth, Migration
<1>12. ASSUME NEW c \in Client, Dump(c) PROVE Reached' /\ SchemaAsVersioned'
  <2>1. UNCHANGED version /\ \A f \in File : parts[f] \subseteq parts'[f]
    BY <1>12, <1>t DEF Dump
  <2>2. \A u \in Worker : \/ step'[u] \notin Migration \ {"keys"}
                          \/ step'[u] = step[u] /\ conn'[u] = conn[u]
    BY <1>12, <1>t DEF Dump, Migration
  <2> QED BY <2>1, <2>2, <1>r, <1>t DEF Reached, SchemaAsVersioned, Migration
<1>13. ASSUME NEW c \in Client, Verify(c) PROVE Reached' /\ SchemaAsVersioned'
  BY <1>13, <1>q, <1>t DEF Verify, Migration
<1>14. ASSUME NEW c \in Client, Unlink(c) PROVE Reached' /\ SchemaAsVersioned'
  BY <1>14, <1>q, <1>t DEF Unlink, Migration
<1>15. ASSUME NEW c \in Client, Move(c) PROVE Reached' /\ SchemaAsVersioned'
  BY <1>15, <1>q, <1>t DEF Move, Leave, Migration
<1>16. ASSUME NEW c \in Client, Fails(c) PROVE Reached' /\ SchemaAsVersioned'
  BY <1>16, <1>q, <1>t DEF Fails, Leave, Migration
<1>17. ASSUME NEW c \in Client, Killed(c) PROVE Reached' /\ SchemaAsVersioned'
  <2>1. UNCHANGED <<version, parts>>
    BY <1>17 DEF Killed, files
  <2>2. CASE c \in Worker
    <3>1. \A u \in Worker : \/ step'[u] \notin Migration \ {"keys"}
                            \/ step'[u] = step[u] /\ conn'[u] = conn[u]
      <4>1. Restarted(c)
        BY <1>17, <2>2, Zenon DEF Killed
      <4> QED BY <4>1, <2>2, <1>t DEF Restarted, Migration
    <3> QED BY <2>1, <3>1, <1>q, Zenon
  <2>3. CASE c \notin Worker
    BY <1>17, <2>1, <2>3, <1>q, <1>t DEF Killed, Leave, Migration
  <2> QED BY <2>2, <2>3
<1>18. CASE Damage
  BY <1>18, <1>q DEF Damage
<1>19. CASE UNCHANGED vars
  BY <1>19, <1>q DEF vars, files
<1> QED
  BY <1>1, <1>2, <1>3, <1>4, <1>5, <1>6, <1>7, <1>8, <1>9, <1>10, <1>11, <1>12, <1>13, <1>14,
     <1>15, <1>16, <1>17, <1>18, <1>19, Zenon DEF Next, Starts, Repairs

-----------------------------------------------------------------------------
(* A duration is divided once. *)

\* Milliseconds are left only in the rows a file came with, and only until the last
\* migration is made.
Milliseconds ==
    \A f \in File : \A p \in content[f] :
        p[2] # Length[p[1]] /\ Length[p[1]] > 36 => p[1] \in OldRow /\ "profiles" \notin parts[f]

\* A dump adds no row of the old file to a file that waits for its migrations: that one has
\* them all, or nothing and takes over the schema too.
Bare(f) == RowsOf(f) = {} /\ parts[f] = {}
Whole == {f \in File : "profiles" \in parts[f] \/ OldRow \subseteq RowsOf(f)}
AllOld ==
    /\ \A f \in File : Bare(f) \/ f \in Whole
    /\ \A w \in Worker : conn[w] \in Whole \cup {None}

Seconds == Milliseconds /\ AllOld /\ DurationsRight

\* The premise: no track of ten hours, which the migration takes for milliseconds.
ShortTracks == \A r \in Row : Length[r] <= 36000

LEMMA RowsInFile ==
  ASSUME NEW f, NEW p \in content[f]
  PROVE  p[1] \in RowsOf(f)
  BY DEF RowsOf

LEMMA Division ==
  ASSUME NEW n \in Nat, n <= 36000
  PROVE  /\ InSeconds(n) = n
         /\ n > 36 => InSeconds(1000 * n) = n
         /\ n <= 36 => InSeconds(1000 * n) = 1000 * n
  BY DEF InSeconds

LEMMA SecondsInit == Init => Seconds
<1> SUFFICES ASSUME Init PROVE Seconds
    OBVIOUS
<1>0. OldVersions \subseteq 0..4
  BY StoreAssumption
<1>1. PICK v \in OldVersions : /\ parts = [f \in File |-> IF f = 1 THEN Schema(v) ELSE {}]
                               /\ version = [f \in File |-> IF f = 1 THEN v ELSE 0]
                               /\ content = [f \in File |-> IF f = 1
                                     THEN {<<r, IF v < 3 THEN 1000 * Length[r] ELSE Length[r]>>
                                              : r \in OldRow}
                                     ELSE {}]
  BY Zenon DEF Init
<1>2. \A f \in File : \A p \in content[f] :
          /\ f = 1 /\ p[1] \in OldRow
          /\ p[2] = IF v < 3 THEN 1000 * Length[p[1]] ELSE Length[p[1]]
  BY <1>1
<1>3. ASSUME NEW f \in File PROVE IF f = 1 THEN OldRow \subseteq RowsOf(f) ELSE RowsOf(f) = {}
  <2>1. CASE f = 1
    <3> SUFFICES ASSUME NEW r \in OldRow PROVE r \in RowsOf(f)
        BY <2>1
    <3>1. <<r, IF v < 3 THEN 1000 * Length[r] ELSE Length[r]>> \in content[f]
      BY <1>1, <2>1
    <3> QED BY <3>1 DEF RowsOf
  <2>2. CASE f # 1
    BY <1>1, <2>2 DEF RowsOf
  <2> QED BY <2>1, <2>2
<1>4. Milliseconds /\ DurationsRight
  BY <1>0, <1>1, <1>2, SchemaSays, Arithmetic DEF Milliseconds, DurationsRight
<1>5. AllOld
  BY <1>1, <1>3, Arithmetic DEF Init, AllOld, Bare, Whole
<1> QED BY <1>4, <1>5 DEF Seconds

\* A migration keeps them, whether it is counted or not.
LEMMA ChangedKeeps ==
  ASSUME ShortTracks, Versioned, Seconds, NEW w \in Worker, NEW at \in Migration, step[w] = at,
         version[conn[w]] < Target[at], Changed(conn[w], at),
         version' = version \/ version' = [version EXCEPT ![conn[w]] = Target[at]],
         \A u \in Worker : conn'[u] \in {conn[u], None}
  PROVE  Seconds'
<1>b. /\ content \in [File -> SUBSET (Row \X Nat)] /\ version \in [File -> 0..4]
      /\ parts \in [File -> SUBSET Part] /\ None \notin File
      /\ conn[w] \in File /\ conn[w] \in Whole
    BY Arithmetic DEF Versioned, Base, TypeOK, Placed, Seconds, AllOld
<1>s. Milliseconds /\ AllOld /\ DurationsRight /\ Length \in [Row -> Nat]
    BY Arithmetic DEF Seconds
<1>c. /\ parts' = [parts EXCEPT ![conn[w]] = @ \cup Adds[at]]
      /\ content' = IF at = "durations" THEN [content EXCEPT ![conn[w]] = Converted(@)]
                    ELSE content
    BY DEF Changed
<1>1. ASSUME NEW f \in File, f # conn[w] PROVE UNCHANGED <<content[f], parts[f], version[f]>>
  BY <1>1, <1>b, <1>c
\* In the file that is migrated: where each row comes from, and what it holds then.
<1>2. ASSUME NEW p \in content'[conn[w]]
      PROVE  /\ p[2] \in {Length[p[1]], 1000 * Length[p[1]]}
             /\ at \in {"durations", "profiles"} /\ Length[p[1]] > 36 => p[2] = Length[p[1]]
             /\ p[2] # Length[p[1]] /\ Length[p[1]] > 36
                   => p[1] \in OldRow /\ "profiles" \notin parts[conn[w]]
  <2>1. CASE at = "durations"
    <3>1. PICK q \in content[conn[w]] : p = <<q[1], InSeconds(q[2])>>
      BY <1>b, <1>c, <2>1 DEF Converted
    <3>2. q[1] \in Row /\ Length[q[1]] \in Nat /\ Length[q[1]] <= 36000
      BY <1>b, <1>s DEF ShortTracks
    <3>3. q[2] \in {Length[q[1]], 1000 * Length[q[1]]}
      BY <1>b, <1>s DEF DurationsRight
    <3> QED BY <3>1, <3>2, <3>3, Division
  <2>2. CASE at # "durations"
    <3>1. p \in content[conn[w]]
      BY <1>c, <2>2
    <3>2. at = "profiles" => version[conn[w]] >= 3
      BY DEF Versioned, Reached
    <3> QED BY <1>b, <1>s, <2>2, <3>1, <3>2 DEF DurationsRight, Milliseconds
  <2> QED BY <2>1, <2>2
<1>3. Milliseconds'
  <2>1. ASSUME NEW f \in File, NEW p \in content'[f], p[2] # Length[p[1]], Length[p[1]] > 36
        PROVE  p[1] \in OldRow /\ "profiles" \notin parts'[f]
    <3>1. CASE f # conn[w]
      BY <1>1, <1>s, <2>1, <3>1 DEF Milliseconds
    <3>2. CASE f = conn[w]
      BY <1>2, <1>b, <1>c, <2>1, <3>2 DEF Adds, Migration
    <3> QED BY <3>1, <3>2
  <2> QED BY <2>1 DEF Milliseconds
<1>4. DurationsRight'
  <2>1. ASSUME NEW f \in File, NEW p \in content'[f]
        PROVE  /\ p[2] \in {Length[p[1]], 1000 * Length[p[1]]}
               /\ version'[f] >= 3 /\ Length[p[1]] > 36 => p[2] = Length[p[1]]
    <3>1. CASE f # conn[w]
      BY <1>1, <1>s, <3>1 DEF DurationsRight
    <3>2. CASE f = conn[w]
      BY <1>2, <1>b, <3>2 DEF Target, Migration
    <3> QED BY <3>1, <3>2
  <2> QED BY <2>1 DEF DurationsRight
<1>5. AllOld'
  <2>1. ASSUME NEW f \in File PROVE f \in Whole => f \in Whole'
    <3>1. RowsOf(f) \subseteq RowsOf(f)'
      <4>1. CASE f = conn[w] /\ at = "durations"
        <5>1. ASSUME NEW p \in content[f] PROVE p[1] \in RowsOf(f)'
          <6>1. <<p[1], InSeconds(p[2])>> \in content'[f]
            BY <1>b, <1>c, <4>1 DEF Converted
          <6> QED BY <6>1 DEF RowsOf
        <5> QED BY <5>1 DEF RowsOf
      <4>2. CASE ~(f = conn[w] /\ at = "durations")
        BY <1>b, <1>c, <4>2 DEF RowsOf
      <4> QED BY <4>1, <4>2
    <3>2. parts[f] \subseteq parts'[f]
      BY <1>b, <1>c
    <3> QED BY <3>1, <3>2 DEF Whole
  <2>2. ASSUME NEW f \in File PROVE Bare(f)' \/ f \in Whole'
    <3>1. CASE f = conn[w]
      BY <1>b, <2>1, <3>1
    <3>2. CASE f # conn[w]
      <4>1. Bare(f) => Bare(f)'
        BY <1>1, <3>2 DEF Bare, RowsOf
      <4> QED BY <1>s, <2>1, <4>1 DEF AllOld
    <3> QED BY <3>1, <3>2
  <2> QED BY <1>s, <2>1, <2>2 DEF AllOld, Whole
<1> QED BY <1>3, <1>4, <1>5 DEF Seconds

LEMMA SecondsNext == ShortTracks /\ Versioned /\ Seconds /\ [Next]_vars => Seconds'
<1> SUFFICES ASSUME ShortTracks, Versioned, Seconds, [Next]_vars PROVE Seconds'
    OBVIOUS
<1>b. /\ content \in [File -> SUBSET (Row \X Nat)] /\ version \in [File -> 0..4]
      /\ parts \in [File -> SUBSET Part] /\ conn \in [Worker -> File \cup {None}]
      /\ step \in [Client -> Step]
      /\ Worker \subseteq Client /\ None \notin File
    BY Arithmetic DEF Versioned, Base, TypeOK
<1>s. Milliseconds /\ AllOld /\ DurationsRight
    BY DEF Seconds
<1>q. ASSUME UNCHANGED <<content, version, parts>>,
             \A u \in Worker : conn'[u] \in {conn[u], None}
      PROVE  Seconds'
  <2>1. Milliseconds' /\ DurationsRight'
    BY <1>q, <1>s DEF Milliseconds, DurationsRight
  <2>2. AllOld'
    BY <1>q, <1>s DEF AllOld, Bare, Whole, RowsOf
  <2> QED BY <2>1, <2>2 DEF Seconds
\* A part comes to a file and no row.
<1>p. ASSUME UNCHANGED <<content, version>>, NEW f \in File, NEW q \in SUBSET {"counts"},
             f \in Whole, parts' = [parts EXCEPT ![f] = @ \cup q],
             \A u \in Worker : conn'[u] \in {conn[u], None}
      PROVE  Seconds'
  <2>1. Milliseconds' /\ DurationsRight'
    BY <1>p, <1>s, <1>b DEF Milliseconds, DurationsRight
  <2>2. AllOld'
    BY <1>p, <1>s, <1>b DEF AllOld, Bare, Whole, RowsOf
  <2> QED BY <2>1, <2>2 DEF Seconds
<1>1. ASSUME NEW w \in Worker, Check(w) PROVE Seconds'
  BY <1>1, <1>q, Zenon DEF Check
<1>2. ASSUME NEW w \in Worker, Remove(w) PROVE Seconds'
  BY <1>2, <1>q, <1>b DEF Remove, Restarted
<1>3. ASSUME NEW w \in Worker, Connect(w) PROVE Seconds'
  <2>1. CASE Restarted(w) /\ UNCHANGED parts
    BY <1>3, <2>1, <1>b, <1>q DEF Connect, Restarted
  <2>2. CASE ~(Restarted(w) /\ UNCHANGED parts)
    <3> DEFINE f == Opened(db)
    <3>1. /\ conn' = [conn EXCEPT ![w] = f] /\ UNCHANGED <<content, version>>
          /\ parts' = [parts EXCEPT ![f] = IF RowsOf(f) = {} /\ @ = {} THEN Part ELSE @]
      BY <1>3, <2>2, Zenon DEF Connect
    <3>2. f \in File
      BY <1>3, Arithmetic DEF Connect, CanOpen, Opened, Versioned, Base, TypeOK
    <3>3. Bare(f) => content[f] = {}
      BY RowsInFile DEF Bare
    <3>4. parts'[f] = IF Bare(f) THEN Part ELSE parts[f]
      BY <3>1, <3>2, <1>b DEF Bare
    <3>5. \A g \in File : g # f => parts'[g] = parts[g]
      BY <3>1, <1>b
    <3> HIDE DEF f
    <3>6. Milliseconds' /\ DurationsRight'
      BY <3>1, <3>2, <3>3, <3>4, <3>5, <1>s DEF Milliseconds, DurationsRight
    <3>7. \A g \in File : RowsOf(g)' = RowsOf(g)
      BY <3>1 DEF RowsOf
    <3>8. Whole \subseteq Whole' /\ f \in Whole'
      BY <3>2, <3>4, <3>5, <3>7, <1>s DEF Whole, Part, AllOld
    <3>9. AllOld'
      BY <3>1, <3>2, <3>5, <3>7, <3>8, <1>b, <1>s DEF AllOld, Bare
    <3> QED BY <3>6, <3>9 DEF Seconds
  <2> QED BY <2>1, <2>2
<1>4. ASSUME NEW w \in Worker, NEW at \in Migration, Skip(w, at) PROVE Seconds'
  BY <1>4, <1>q DEF Skip, Continue, Running, files
<1>5. ASSUME NEW w \in Worker, NEW at \in Migration, Migrate(w, at) PROVE Seconds'
  BY <1>5, ChangedKeeps DEF Migrate, Continue, Running
<1>6. ASSUME NEW w \in Worker, NEW at \in Migration, MigrationFails(w, at) PROVE Seconds'
  <2>1. conn[w] \in File /\ conn[w] \in Whole
    BY <1>6, <1>s, Arithmetic DEF MigrationFails, Versioned, Base, Placed, AllOld
  <2>2. \A u \in Worker : conn'[u] \in {conn[u], None}
    BY <1>6, <1>b DEF MigrationFails, Restarted, Running
  <2> DEFINE f == conn[w]
             q == Adds[at] \cap {"counts"}
  <2>3. /\ parts' = [parts EXCEPT ![f] = @ \cup q] /\ q \in SUBSET {"counts"}
        /\ UNCHANGED <<content, version>>
    BY <1>6, Zenon DEF MigrationFails
  <2>4. f \in File /\ f \in Whole
    BY <2>1
  <2> HIDE DEF f, q
  <2> QED BY <2>2, <2>3, <2>4, <1>p
<1>7. ASSUME NEW w \in Worker, NEW at \in Migration, KilledUncounted(w, at) PROVE Seconds'
  <2>2. \A u \in Worker : conn'[u] \in {conn[u], None}
    BY <1>7, <1>b DEF KilledUncounted, Restarted
  <2> QED BY <1>7, <2>2, ChangedKeeps DEF KilledUncounted
<1>8. ASSUME NEW w \in Worker, NEW r \in Row, Write(w, r) \/ WriteUnlocked(w, r) PROVE Seconds'
  <2>1. /\ content' = [content EXCEPT ![conn[w]] = @ \cup {<<r, Length[r]>>}]
        /\ UNCHANGED <<version, parts, conn>>
    BY <1>8 DEF Write, WriteUnlocked, Commit
  <2>2. conn[w] \in File
    BY <1>8, Arithmetic DEF Write, WriteUnlocked, Commit, Versioned, Base, Placed
  <2>3. Milliseconds' /\ DurationsRight'
    BY <2>1, <2>2, <1>b, <1>s DEF Milliseconds, DurationsRight
  <2>4. \A f \in File : RowsOf(f) \subseteq RowsOf(f)' /\ (f # conn[w] => RowsOf(f)' = RowsOf(f))
    BY <2>1, <1>b DEF RowsOf
  <2>5. AllOld'
    <3>1. Whole \subseteq Whole'
      BY <2>1, <2>4 DEF Whole
    <3>2. ASSUME NEW f \in File PROVE Bare(f)' \/ f \in Whole'
      <4>1. CASE f = conn[w]
        BY <2>2, <3>1, <4>1, <1>b, <1>s DEF AllOld
      <4>2. CASE f # conn[w]
        BY <2>1, <2>4, <3>1, <4>2, <1>s DEF AllOld, Bare
      <4> QED BY <4>1, <4>2
    <3> QED BY <2>1, <3>1, <3>2, <1>s DEF AllOld
  <2> QED BY <2>3, <2>5 DEF Seconds
<1>9. ASSUME NEW m \in Maintainer, StartMaintain(m) PROVE Seconds'
  BY <1>9, <1>q DEF StartMaintain, files
<1>10. ASSUME NEW w \in Worker, StartRecover(w) PROVE Seconds'
  BY <1>10, <1>q DEF StartRecover, files
<1>11. ASSUME NEW c \in Client, OpenBoth(c) PROVE Seconds'
  BY <1>11, <1>q DEF OpenBoth
<1>12. ASSUME NEW c \in Client, Dump(c) PROVE Seconds'
  <2> DEFINE s == src[c]
             d == dst[c]
  <2>1. s \in File /\ d \in File
    BY <1>12 DEF Dump, Versioned, Base, Placed
  <2>2. /\ content' = [content EXCEPT ![d] = IF Bare(d) \/ parts[s] = parts[d]
                           THEN @ \cup {p \in content[s] : p[1] \notin RowsOf(d)} ELSE @]
        /\ parts' = [parts EXCEPT ![d] = IF Bare(d) THEN parts[s] ELSE @]
        /\ UNCHANGED <<version, conn>>
    BY <1>12, Zenon DEF Dump, Bare
  <2>u. UNCHANGED <<s, d>>
    BY <1>12 DEF Dump, repair
  <2> HIDE DEF s, d
  <2>3. \A f \in File : f # d => UNCHANGED <<content[f], parts[f]>>
    BY <2>2, <1>b
  <2>4. /\ content[d] \subseteq content'[d]
        /\ \A p \in content'[d] \ content[d] : /\ p \in content[s] /\ p[1] \notin RowsOf(d)
                                               /\ Bare(d) \/ parts[s] = parts[d]
        /\ parts'[d] = IF Bare(d) THEN parts[s] ELSE parts[d]
        /\ Bare(d) => content[s] \subseteq content'[d]
    BY <2>1, <2>2, <1>b DEF Bare
  <2>5. Bare(d) => content[d] = {}
    BY RowsInFile DEF Bare
  \* A row in milliseconds is not added: its file waits for the last migration as the
  \* other does, which has the row, or had nothing and is at the old version too.
  <2>6. Bare(d) => version[d] = 0
    BY <2>1, <1>b, SchemaSays DEF Bare, Versioned, SchemaAsVersioned
  <2>7. ASSUME NEW p \in content'[d], p \notin content[d], p[2] # Length[p[1]], Length[p[1]] > 36
        PROVE  p[1] \in OldRow /\ "profiles" \notin parts'[d] /\ version[d] = 0
    <3>1. p[1] \in OldRow /\ "profiles" \notin parts[s]
      <4>1. p \in content[s]
        BY <2>4, <2>7
      <4> QED BY <2>1, <2>7, <4>1, <1>s DEF Milliseconds
    <3>2. Bare(d)
      <4>1. p[1] \notin RowsOf(d) /\ (Bare(d) \/ parts[s] = parts[d])
        BY <2>4, <2>7
      <4>2. Bare(d) \/ d \in Whole
        BY <2>1, <1>s DEF AllOld
      <4> QED BY <3>1, <4>1, <4>2 DEF Whole
    <3> QED BY <2>4, <2>6, <3>1, <3>2
  <2>8. Milliseconds'
    <3>1. ASSUME NEW f \in File, NEW p \in content'[f], p[2] # Length[p[1]], Length[p[1]] > 36
          PROVE  p[1] \in OldRow /\ "profiles" \notin parts'[f]
      <4>1. CASE f # d
        BY <3>1, <4>1, <2>3, <1>s DEF Milliseconds
      <4>2. CASE f = d /\ p \notin content[d]
        BY <3>1, <4>2, <2>7
      <4>3. CASE f = d /\ p \in content[d]
        BY <2>1, <2>4, <2>5, <3>1, <4>3, <1>s DEF Milliseconds
      <4> QED BY <4>1, <4>2, <4>3
    <3> QED BY <3>1 DEF Milliseconds
  <2>9. DurationsRight'
    <3>1. ASSUME NEW f \in File, NEW p \in content'[f]
          PROVE  /\ p[2] \in {Length[p[1]], 1000 * Length[p[1]]}
                 /\ version'[f] >= 3 /\ Length[p[1]] > 36 => p[2] = Length[p[1]]
      <4>1. CASE f # d \/ p \in content[f]
        BY <2>1, <2>2, <2>3, <4>1, <1>s DEF DurationsRight
      <4>2. CASE f = d /\ p \notin content[d]
        BY <2>1, <2>2, <2>4, <2>7, <3>1, <4>2, <1>s DEF DurationsRight
      <4> QED BY <4>1, <4>2
    <3> QED BY <3>1 DEF DurationsRight
  <2>10. AllOld'
    <3>1. \A f \in File : /\ RowsOf(f) \subseteq RowsOf(f)'
                          /\ f # d => RowsOf(f)' = RowsOf(f)
      BY <2>3, <2>4 DEF RowsOf
    <3>2. Whole \subseteq Whole'
      <4>1. Bare(d) => parts[d] \subseteq parts'[d]
        BY <2>4 DEF Bare
      <4>2. \A f \in File : parts[f] \subseteq parts'[f]
        BY <2>3, <2>4, <4>1
      <4> QED BY <3>1, <4>2 DEF Whole
    <3>3. Bare(d) => Bare(d)' \/ d \in Whole'
      <4>1. ASSUME Bare(d) PROVE RowsOf(d)' = RowsOf(s) /\ parts'[d] = parts[s]
        <5>1. content'[d] = content[s]
          BY <2>4, <2>5, <4>1
        <5> QED BY <2>4, <2>u, <4>1, <5>1 DEF RowsOf
      <4>2. CASE Bare(s)
        BY <4>1, <4>2, <2>u DEF Bare
      <4>3. CASE s \in Whole
        BY <2>1, <2>u, <4>1, <4>3 DEF Whole
      <4> QED BY <2>1, <4>2, <4>3, <1>s DEF AllOld
    <3>4. ASSUME NEW f \in File PROVE Bare(f)' \/ f \in Whole'
      <4>1. CASE f = d
        BY <2>1, <2>u, <3>2, <3>3, <4>1, <1>s DEF AllOld, Bare
      <4>2. CASE f # d
        BY <2>3, <3>1, <3>2, <4>2, <1>s DEF AllOld, Bare
      <4> QED BY <4>1, <4>2
    <3> QED BY <2>2, <3>2, <3>4, <1>s DEF AllOld
  <2> QED BY <2>8, <2>9, <2>10 DEF Seconds
<1>13. ASSUME NEW c \in Client, Verify(c) PROVE Seconds'
  BY <1>13, <1>q DEF Verify
<1>14. ASSUME NEW c \in Client, Unlink(c) PROVE Seconds'
  BY <1>14, <1>q DEF Unlink
<1>15. ASSUME NEW c \in Client, Move(c) PROVE Seconds'
  BY <1>15, <1>q DEF Move
<1>16. ASSUME NEW c \in Client, Fails(c) PROVE Seconds'
  BY <1>16, <1>q DEF Fails
<1>17. ASSUME NEW c \in Client, Killed(c) PROVE Seconds'
  BY <1>17, <1>b, <1>q DEF Killed, Restarted, files
<1>18. CASE Damage
  BY <1>18, <1>q DEF Damage
<1>19. CASE UNCHANGED vars
  BY <1>19, <1>q DEF vars, files
<1> QED
  BY <1>1, <1>2, <1>3, <1>4, <1>5, <1>6, <1>7, <1>8, <1>9, <1>10, <1>11, <1>12, <1>13, <1>14,
     <1>15, <1>16, <1>17, <1>18, <1>19, Zenon DEF Next, Starts, Repairs

-----------------------------------------------------------------------------
(* No row is lost. *)

\* Who migrates has the lock.
Locked == \A w \in Worker : step[w] \in Migration => holder = w

\* The repairs under the lock: one at a time, by a maintainer who has it.
Led ==
    /\ \A c \in Client : step[c] \in RepairStep => c \in Maintainer /\ holder = c
    /\ \A c \in Client : step[c] # "fresh"

\* The rows a repair must not lose.
Due == live \ late

\* Its temporary file: not there before, then an empty one next to the file that is
\* read, then a copy of every row that counts.  No worker writes into it.
Copied ==
    /\ (\A c \in Client : step[c] \notin RepairStep \ {"open"}) => temp = None
    /\ \A c \in Client : step[c] = "dump" => dst[c] = temp /\ temp # None /\ Bare(temp)
    /\ \A c \in Client : step[c] \in {"dump", "verify", "unlink"} => src[c] = db
    /\ \A c \in Client : step[c] = "move" => db = None
    /\ \A c \in Client : step[c] \in {"verify", "unlink", "move"} =>
           temp # None /\ Due \subseteq RowsOf(temp)
    /\ temp # None => temp # db /\ \A w \in Worker : conn[w] # temp

Present ==
    \/ \E c \in Client : step[c] = "move"
    \/ db # None /\ Due \subseteq RowsOf(db)

Safe == Led /\ Copied /\ Present
Kept == Locked /\ (unguarded \/ Safe)

LEMMA KeptInit == Init => Kept
<1> SUFFICES ASSUME Init PROVE Locked /\ Safe
    BY DEF Kept
<1>1. Locked /\ Led
  BY DEF Init, Locked, Led, Migration, RepairStep, Client
<1>2. Copied
  BY DEF Init, Copied, RepairStep, Client
<1>3. ASSUME NEW r \in OldRow PROVE r \in RowsOf(1)
  <2>1. PICK v \in OldVersions :
            content = [f \in File |-> IF f = 1
                          THEN {<<q, IF v < 3 THEN 1000 * Length[q] ELSE Length[q]>> : q \in OldRow}
                          ELSE {}]
    BY Zenon DEF Init
  <2>2. 1 \in File
    BY StoreAssumption DEF File
  <2>3. <<r, IF v < 3 THEN 1000 * Length[r] ELSE Length[r]>> \in content[1]
    BY <2>1, <2>2
  <2> QED BY <2>3 DEF RowsOf
<1>4. Present
  BY <1>3, Arithmetic, StoreAssumption DEF Init, Present, Due, File
<1> QED BY <1>1, <1>2, <1>4 DEF Safe

LEMMA LockedNext == Base /\ Locked /\ [Next]_vars => Locked'
<1> SUFFICES ASSUME Base, Locked, [Next]_vars PROVE Locked'
    OBVIOUS
<1>t. /\ step \in [Client -> Step] /\ Worker \subseteq Client /\ None \notin Client
      /\ Maintainer \subseteq Client /\ Worker \cap Maintainer = {}
      /\ \A c \in Client : step[c] = "idle" => c \notin starting
    BY Arithmetic DEF Base, TypeOK, Placed
<1>l. \A w \in Worker : step[w] \in Migration => holder = w
    BY DEF Locked
<1>1. ASSUME NEW w \in Worker, Check(w) PROVE Locked'
  <2>1. /\ step' \in {[step EXCEPT ![w] = "connect"], [step EXCEPT ![w] = "open"]}
        /\ UNCHANGED holder
    BY <1>1, Zenon DEF Check
  <2> QED BY <2>1, <1>l, <1>t DEF Migration, Locked
<1>2. ASSUME NEW w \in Worker, Remove(w) PROVE Locked'
  BY <1>2, <1>l, <1>t DEF Remove, Restarted, Migration, Locked
<1>3. ASSUME NEW w \in Worker, Connect(w) PROVE Locked'
  BY <1>3, <1>l, <1>t DEF Connect, Restarted, Migration, Locked
<1>4. ASSUME NEW w \in Worker, NEW at \in Migration, Skip(w, at) PROVE Locked'
  BY <1>4, <1>l, <1>t DEF Skip, Continue, Running, Migration, Locked
<1>5. ASSUME NEW w \in Worker, NEW at \in Migration, Migrate(w, at) PROVE Locked'
  BY <1>5, <1>l, <1>t DEF Migrate, Continue, Running, Migration, Locked
<1>6. ASSUME NEW w \in Worker, NEW at \in Migration, MigrationFails(w, at) PROVE Locked'
  BY <1>6, <1>l, <1>t DEF MigrationFails, Restarted, Running, Migration, Locked
<1>7. ASSUME NEW w \in Worker, NEW at \in Migration, KilledUncounted(w, at) PROVE Locked'
  BY <1>7, <1>l, <1>t DEF KilledUncounted, Restarted, Migration, Locked
<1>8. ASSUME NEW w \in Worker, NEW r \in Row, Write(w, r) \/ WriteUnlocked(w, r) PROVE Locked'
  BY <1>8, <1>l DEF Write, WriteUnlocked, Commit, Locked
<1>9. ASSUME NEW m \in Maintainer, StartMaintain(m) PROVE Locked'
  BY <1>9, <1>l, <1>t DEF StartMaintain, Migration, Locked
<1>10. ASSUME NEW w \in Worker, StartRecover(w) PROVE Locked'
  BY <1>10, <1>l, <1>t DEF StartRecover, Migration, Locked
<1>11. ASSUME NEW c \in Client, OpenBoth(c) PROVE Locked'
  BY <1>11, <1>l, <1>t DEF OpenBoth, Migration, Locked
<1>12. ASSUME NEW c \in Client, Dump(c) PROVE Locked'
  BY <1>12, <1>l, <1>t DEF Dump, Migration, Locked
<1>13. ASSUME NEW c \in Client, Verify(c) PROVE Locked'
  BY <1>13, <1>l, <1>t DEF Verify, Migration, Locked
<1>14. ASSUME NEW c \in Client, Unlink(c) PROVE Locked'
  BY <1>14, <1>l, <1>t DEF Unlink, Migration, Locked
<1>15. ASSUME NEW c \in Client, Move(c) PROVE Locked'
  BY <1>15, <1>l, <1>t DEF Move, Leave, Migration, Locked
<1>16. ASSUME NEW c \in Client, Fails(c) PROVE Locked'
  BY <1>16, <1>l, <1>t DEF Fails, Leave, Migration, Locked
<1>17. ASSUME NEW c \in Client, Killed(c) PROVE Locked'
  BY <1>17, <1>l, <1>t DEF Killed, Restarted, Leave, Migration, Locked
<1>18. CASE Damage
  BY <1>18, <1>l DEF Damage, Locked
<1>19. CASE UNCHANGED vars
  BY <1>19, <1>l DEF vars, Locked
<1> QED
  BY <1>1, <1>2, <1>3, <1>4, <1>5, <1>6, <1>7, <1>8, <1>9, <1>10, <1>11, <1>12, <1>13, <1>14,
     <1>15, <1>16, <1>17, <1>18, <1>19, Zenon DEF Next, Starts, Repairs

\* What a migration leaves in a file: the rows.
LEMMA ChangedRows ==
  ASSUME Base, NEW g \in File, NEW at \in Migration, Changed(g, at), NEW f \in File
  PROVE  RowsOf(f) \subseteq RowsOf(f)'
<1>1. /\ content \in [File -> SUBSET (Row \X Nat)]
      /\ content' = IF at = "durations" THEN [content EXCEPT ![g] = Converted(@)] ELSE content
  BY DEF Base, TypeOK, Changed
<1>2. CASE f = g /\ at = "durations"
  <2>1. ASSUME NEW p \in content[f] PROVE p[1] \in RowsOf(f)'
    <3>1. <<p[1], InSeconds(p[2])>> \in content'[f]
      BY <1>1, <1>2 DEF Converted
    <3> QED BY <3>1 DEF RowsOf
  <2> QED BY <2>1 DEF RowsOf
<1>3. CASE ~(f = g /\ at = "durations")
  BY <1>1, <1>3 DEF RowsOf
<1> QED BY <1>2, <1>3

LEMMA SafeNext == Base /\ Base' /\ Locked /\ Safe /\ [Next]_vars /\ ~unguarded' => Safe'
<1> SUFFICES ASSUME Base, Base', Locked, Safe, [Next]_vars, ~unguarded' PROVE Safe'
    OBVIOUS
<1>t. /\ step \in [Client -> Step] /\ conn \in [Worker -> File \cup {None}] /\ Worker \subseteq Client /\ None \notin Client
      /\ src \in [Client -> File \cup {None}] /\ dst \in [Client -> File \cup {None}]
      /\ Maintainer \subseteq Client /\ Worker \cap Maintainer = {} /\ starting \subseteq Worker
    BY Arithmetic DEF Base, TypeOK, Placed
<1>f. /\ content \in [File -> SUBSET (Row \X Nat)] /\ parts \in [File -> SUBSET Part]
      /\ db \in File \cup {None} /\ temp \in File \cup {None} /\ None \notin File
    BY Arithmetic DEF Base, TypeOK
<1>s. Led /\ Copied /\ Present
    BY DEF Safe
\* A client that does not repair takes a step and touches no file that a repair is at.
<1>q. ASSUME NEW c \in Client, step[c] \notin RepairStep, step'[c] \notin RepairStep,
             step'[c] # "fresh", \A x \in Client : x # c => step'[x] = step[x],
             \A x \in Client : x # c => src'[x] = src[x] /\ dst'[x] = dst[x],
             holder \in {None, c} \/ (holder' = holder /\ UNCHANGED <<content, parts>>),
             holder = None \/ (db' = db /\ \A x \in Worker : conn'[x] \in {conn[x], None}),
             UNCHANGED <<temp, Due>>, db # None => db' = db,
             \A f \in File : RowsOf(f) \subseteq RowsOf(f)'
      PROVE  Safe'
  <2>1. Led'
    BY <1>q, <1>s, <1>t DEF Led
  <2>2. Copied'
    <3>1. CASE holder \in {None, c}
      <4>1. \A x \in Client : step[x] \notin RepairStep /\ step'[x] \notin RepairStep
        BY <1>q, <3>1, <1>s, <1>t DEF Led
      <4>2. temp' = None
        BY <1>q, <4>1, <1>s DEF Copied
      <4> QED BY <4>1, <4>2 DEF Copied, RepairStep
    <3>2. CASE holder \notin {None, c}
      <4>1. UNCHANGED <<content, parts, temp, db, Due>> /\ \A x \in Worker : conn'[x] \in {conn[x], None}
        BY <1>q, <3>2
      <4>2. \A x \in Client : step'[x] \in RepairStep => x # c /\ step'[x] = step[x]
        BY <1>q
      <4>3. (\A x \in Client : step'[x] \notin RepairStep \ {"open"}) => temp' = None
        BY <1>q, <1>s DEF Copied
      <4>4. \A f : RowsOf(f)' = RowsOf(f) /\ Bare(f)' = Bare(f)
        BY <4>1 DEF RowsOf, Bare
      <4>5. \A x \in Client : x # c => src'[x] = src[x] /\ dst'[x] = dst[x]
        BY <1>q
      <4>6. ASSUME NEW x \in Client, step'[x] = "dump"
            PROVE  dst'[x] = temp' /\ temp' # None /\ Bare(temp)'
        BY <4>1, <4>2, <4>4, <4>5, <4>6, <1>s DEF Copied, RepairStep, Bare, RowsOf
      <4>7. \A x \in Client : step'[x] \in {"dump", "verify", "unlink"} => src'[x] = db'
        BY <4>1, <4>2, <4>5, <1>s DEF Copied, RepairStep
      <4>8. \A x \in Client : step'[x] = "move" => db' = None
        BY <4>1, <4>2, <1>s DEF Copied, RepairStep
      <4>9. \A x \in Client : step'[x] \in {"verify", "unlink", "move"} =>
                temp' # None /\ Due' \subseteq RowsOf(temp)'
        BY <4>1, <4>2, <1>s DEF Copied, RepairStep, RowsOf
      <4>10. temp' # None => temp' # db' /\ \A x \in Worker : conn'[x] # temp'
        BY <4>1, <1>s DEF Copied
      <4> QED BY <4>3, <4>6, <4>7, <4>8, <4>9, <4>10 DEF Copied
    <3> QED BY <3>1, <3>2
  <2>3. Present'
    BY <1>q, <1>s, <1>t, <1>f DEF Present, RepairStep
  <2> QED BY <2>1, <2>2, <2>3 DEF Safe
\* Who repairs does so alone.
<1>r. ASSUME NEW c \in Client, step[c] \in RepairStep
      PROVE  /\ holder = c /\ c \notin starting
             /\ \A x \in Client : x # c => step[x] \notin RepairStep
  BY <1>r, <1>s, <1>t DEF Led
<1>1. ASSUME NEW w \in Worker, Check(w) PROVE Safe'
  <2>1. /\ step' = [step EXCEPT ![w] = "connect"] /\ step[w] = "check"
        /\ UNCHANGED <<temp, Due, db, content, parts, holder, src, dst, conn>>
    BY <1>1, Zenon DEF Check, written, repair, Due
  <2> QED BY <2>1, <1>q, <1>t DEF RepairStep, RowsOf
<1>2. ASSUME NEW w \in Worker, Remove(w) PROVE Safe'
  BY <1>2, <1>s, <1>t DEF Remove, Led
<1>3. ASSUME NEW w \in Worker, Connect(w) PROVE Safe'
  <2>1. /\ step[w] = "connect" /\ step' \in {[step EXCEPT ![w] = "keys"], [step EXCEPT ![w] = "check"]}
        /\ holder = None /\ UNCHANGED <<content, temp, Due>>
    BY <1>3, Zenon DEF Connect, Restarted, written, Due
  <2>2. step'[w] \in {"keys", "check"} /\ \A x \in Client : x # w => step'[x] = step[x]
    BY <2>1, <1>t
  <2>3. \A x \in Client : x # w => src'[x] = src[x] /\ dst'[x] = dst[x]
    BY <1>3, <1>t DEF Connect, Restarted, repair
  <2>4. db # None => db' = db
    BY <1>3 DEF Connect, Opened
  <2> QED BY <2>1, <2>2, <2>3, <2>4, <1>q, <1>t DEF RepairStep, RowsOf
<1>4. ASSUME NEW w \in Worker, NEW at \in Migration, Skip(w, at) PROVE Safe'
  <2>1. step[w] = at /\ holder = w
    BY <1>4 DEF Skip, Locked, Migration
  <2>2. step'[w] \in {"idle", "check"} \cup Migration /\ \A x \in Client : x # w => step'[x] = step[x]
    BY <1>4, <1>t DEF Skip, Continue, Running, files, repair, written, Due, Migration, Follower
  <2>3. /\ \A x \in Client : x # w => src'[x] = src[x] /\ dst'[x] = dst[x]
        /\ UNCHANGED <<temp, Due, db>>
    BY <1>4, <1>t DEF Skip, Continue, Running, files, repair, written, Due
  <2>6. \A x \in Worker : conn'[x] \in {conn[x], None}
    BY <1>4, <1>t DEF Skip, Continue, Running, files, repair, written, Due
  <2>4. conn[w] \in File
    BY <1>4, <2>1 DEF Base, Placed
  <2>5. \A f \in File : RowsOf(f) \subseteq RowsOf(f)'
    BY <1>4 DEF Skip, files, RowsOf
  <2> QED BY <2>1, <2>2, <2>3, <2>5, <2>6, <1>q, <1>t DEF RepairStep, Migration
<1>5. ASSUME NEW w \in Worker, NEW at \in Migration, Migrate(w, at) PROVE Safe'
  <2>1. step[w] = at /\ holder = w
    BY <1>5 DEF Migrate, Locked, Migration
  <2>2. step'[w] \in {"idle", "check"} \cup Migration /\ \A x \in Client : x # w => step'[x] = step[x]
    BY <1>5, <1>t DEF Migrate, Continue, Running, repair, written, Due, Migration, Follower
  <2>3. /\ \A x \in Client : x # w => src'[x] = src[x] /\ dst'[x] = dst[x]
        /\ UNCHANGED <<temp, Due, db>>
    BY <1>5, <1>t DEF Migrate, Continue, Running, repair, written, Due
  <2>6. \A x \in Worker : conn'[x] \in {conn[x], None}
    BY <1>5, <1>t DEF Migrate, Continue, Running, repair, written, Due
  <2>4. conn[w] \in File
    BY <1>5, <2>1 DEF Base, Placed
  <2>5. \A f \in File : RowsOf(f) \subseteq RowsOf(f)'
    BY <1>5, <2>4, ChangedRows DEF Migrate
  <2> QED BY <2>1, <2>2, <2>3, <2>5, <2>6, <1>q, <1>t DEF RepairStep, Migration
<1>6. ASSUME NEW w \in Worker, NEW at \in Migration, MigrationFails(w, at) PROVE Safe'
  <2>1. step[w] = at /\ holder = w
    BY <1>6 DEF MigrationFails, Locked, Migration
  <2>2. step'[w] \in {"idle", "check"} \cup Migration /\ \A x \in Client : x # w => step'[x] = step[x]
    BY <1>6, <1>t DEF MigrationFails, Restarted, Running, repair, written, Due, Migration, Follower
  <2>3. /\ \A x \in Client : x # w => src'[x] = src[x] /\ dst'[x] = dst[x]
        /\ UNCHANGED <<temp, Due, db>>
    BY <1>6, <1>t DEF MigrationFails, Restarted, Running, repair, written, Due
  <2>6. \A x \in Worker : conn'[x] \in {conn[x], None}
    BY <1>6, <1>t DEF MigrationFails, Restarted, Running, repair, written, Due
  <2>4. conn[w] \in File
    BY <1>6, <2>1 DEF Base, Placed
  <2>5. \A f \in File : RowsOf(f) \subseteq RowsOf(f)'
    BY <1>6 DEF MigrationFails, files, RowsOf
  <2> QED BY <2>1, <2>2, <2>3, <2>5, <2>6, <1>q, <1>t DEF RepairStep, Migration
<1>7. ASSUME NEW w \in Worker, NEW at \in Migration, KilledUncounted(w, at) PROVE Safe'
  <2>1. step[w] = at /\ holder = w
    BY <1>7 DEF KilledUncounted, Locked, Migration
  <2>2. step'[w] \in {"idle", "check"} \cup Migration /\ \A x \in Client : x # w => step'[x] = step[x]
    BY <1>7, <1>t DEF KilledUncounted, Restarted, repair, written, Due, Migration, Follower
  <2>3. /\ \A x \in Client : x # w => src'[x] = src[x] /\ dst'[x] = dst[x]
        /\ UNCHANGED <<temp, Due, db>>
    BY <1>7, <1>t DEF KilledUncounted, Restarted, repair, written, Due
  <2>6. \A x \in Worker : conn'[x] \in {conn[x], None}
    BY <1>7, <1>t DEF KilledUncounted, Restarted, repair, written, Due
  <2>4. conn[w] \in File
    BY <1>7, <2>1 DEF Base, Placed
  <2>5. \A f \in File : RowsOf(f) \subseteq RowsOf(f)'
    BY <1>7, <2>4, ChangedRows DEF KilledUncounted
  <2> QED BY <2>1, <2>2, <2>3, <2>5, <2>6, <1>q, <1>t DEF RepairStep, Migration
\* A row in the file a connection is open on: no repair's temporary file.
<1>w. ASSUME NEW w \in Worker, NEW r \in Row, Commit(w, r)
      PROVE  /\ UNCHANGED <<step, holder, temp, db, src, dst, parts, conn>>
             /\ live' = IF conn[w] = db THEN live \cup {r} ELSE live
             /\ conn[w] \in File /\ conn[w] # temp
             /\ \A f \in File : RowsOf(f) \subseteq RowsOf(f)'
             /\ content'[temp] = content[temp] /\ r \in RowsOf(conn[w])'
  <2>1. /\ content' = [content EXCEPT ![conn[w]] = @ \cup {<<r, Length[r]>>}]
        /\ live' = (IF conn[w] = db THEN live \cup {r} ELSE live)
        /\ UNCHANGED <<step, holder, temp, db, src, dst, parts, conn>>
        /\ step[w] = "idle"
    BY <1>w DEF Commit, repair
  <2>2. conn[w] \in File
    BY <2>1, <1>t DEF Base, Placed
  <2>3. conn[w] # temp
    BY <2>2, <1>s, <1>f DEF Copied
  <2>4. content'[conn[w]] = content[conn[w]] \cup {<<r, Length[r]>>}
        /\ \A f \in File : f # conn[w] => content'[f] = content[f]
    BY <2>1, <2>2, <1>f
  <2>5. \A f \in File : RowsOf(f) \subseteq RowsOf(f)'
    BY <2>4 DEF RowsOf
  <2>6. r \in RowsOf(conn[w])'
    <3>1. <<r, Length[r]>> \in content'[conn[w]] /\ <<r, Length[r]>>[1] = r
      BY <2>4
    <3>2. RowsOf(conn[w])' = {x[1] : x \in content'[conn[w]]}
      BY <2>1 DEF RowsOf
    <3> HIDE DEF RowsOf
    <3> QED BY <3>1, <3>2
  <2>7. content'[temp] = content[temp]
    BY <2>1, <2>3
  <2> QED BY <2>1, <2>2, <2>3, <2>5, <2>6, <2>7
<1>8. ASSUME NEW w \in Worker, NEW r \in Row, Write(w, r) \/ WriteUnlocked(w, r) PROVE Safe'
  <2>1. Commit(w, r)
    BY <1>8 DEF Write, WriteUnlocked
  <2>2. late \subseteq late'
    BY <1>8 DEF Write, WriteUnlocked
  <2>l. live' = IF conn[w] = db THEN live \cup {r} ELSE live
    BY <2>1, <1>w
  \* It counts only if no repair has copied its file.
  <2>3. \/ Due' \subseteq Due
        \/ /\ conn[w] = db /\ Due' \subseteq Due \cup {r}
           /\ \A c \in Client : step[c] \notin {"verify", "unlink", "move"}
    <3>1. CASE conn[w] # db
      BY <3>1, <2>2, <2>l DEF Due
    <3>2. CASE conn[w] = db /\ Write(w, r)
      <4>1. holder = None
        BY <3>2 DEF Write
      <4>2. \A c \in Client : step[c] \notin RepairStep
        BY <4>1, <1>s, <1>t DEF Led
      <4> QED BY <3>2, <4>2, <2>2, <2>l DEF Due, RepairStep
    <3>3. CASE conn[w] = db /\ WriteUnlocked(w, r)
      <4>1. \A c \in Client : step[c] # "move"
        BY <3>3, <2>1, <1>w, <1>s, <1>f DEF Copied
      <4>2. CASE Copying(conn[w])
        BY <4>2, <3>3, <2>l DEF WriteUnlocked, Due
      <4>3. CASE ~Copying(conn[w])
        <5>1. \A c \in Client : step[c] \notin {"verify", "unlink"}
          BY <4>3, <3>3, <1>s DEF Copying, Copied
        <5> QED BY <5>1, <4>1, <3>3, <2>2, <2>l DEF Due
      <4> QED BY <4>2, <4>3
    <3> QED BY <1>8, <3>1, <3>2, <3>3
  <2>4. Led'
    BY <2>1, <1>w, <1>s DEF Led
  <2>5. Copied'
    <3>1. Bare(temp)' = Bare(temp) /\ RowsOf(temp)' = RowsOf(temp)
      BY <2>1, <1>w DEF Bare, RowsOf
    <3>2. ASSUME NEW c \in Client, step'[c] \in {"verify", "unlink", "move"}
          PROVE  temp' # None /\ Due' \subseteq RowsOf(temp)'
      BY <3>1, <3>2, <2>1, <2>3, <1>w, <1>s DEF Copied
    <3> QED BY <3>1, <3>2, <2>1, <1>w, <1>s DEF Copied
  <2>6. Present'
    <3>1. CASE \E c \in Client : step[c] = "move"
      BY <3>1, <2>1, <1>w DEF Present
    <3>2. CASE db # None /\ Due \subseteq RowsOf(db)
      <4>1. RowsOf(db) \subseteq RowsOf(db)'
        BY <3>2, <2>1, <1>w, <1>f DEF RowsOf
      <4>2. conn[w] = db => r \in RowsOf(db)'
        BY <2>1, <1>w DEF RowsOf
      <4>3. Due' \subseteq RowsOf(db)'
        BY <3>2, <4>1, <4>2, <2>3
      <4> QED BY <3>2, <4>3, <2>1, <1>w DEF Present
    <3> QED BY <3>1, <3>2, <1>s DEF Present
  <2> QED BY <2>4, <2>5, <2>6 DEF Safe
<1>9. ASSUME NEW m \in Maintainer, StartMaintain(m) PROVE Safe'
  <2>1. /\ holder = None /\ holder' = m /\ step' = [step EXCEPT ![m] = "open"]
        /\ UNCHANGED <<content, temp, Due, db>>
    BY <1>9, Zenon DEF StartMaintain, files, written, Due
  <2>2. \A x \in Client : step[x] \notin RepairStep
    BY <2>1, <1>s, <1>t DEF Led
  <2>3. temp = None /\ db # None /\ Due \subseteq RowsOf(db)
    BY <2>2, <1>s DEF Copied, Present, RepairStep
  <2>4. Led'
    BY <2>1, <2>2, <1>s, <1>t DEF Led
  <2>5. Copied'
    BY <2>1, <2>2, <2>3, <1>t DEF Copied, RepairStep
  <2> QED BY <2>1, <2>3, <2>4, <2>5 DEF Safe, Present, RowsOf
<1>10. ASSUME NEW w \in Worker, StartRecover(w) PROVE Safe'
  BY <1>10 DEF StartRecover
<1>11. ASSUME NEW c \in Client, OpenBoth(c) PROVE Safe'
  <2>1. /\ step[c] = "open" /\ db # None /\ CanOpen(temp) /\ temp' = Opened(temp)
        /\ src' = [src EXCEPT ![c] = db] /\ dst' = [dst EXCEPT ![c] = Opened(temp)]
        /\ step' = [step EXCEPT ![c] = "dump"]
        /\ UNCHANGED <<content, parts, Due, db, holder, conn>>
    BY <1>11, Zenon DEF OpenBoth, written, Due
  <2>2. \A x \in Client : x # c => step[x] \notin RepairStep
    BY <2>1, <1>r DEF RepairStep
  <2>3. temp = None /\ Due \subseteq RowsOf(db)
    BY <2>1, <2>2, <1>s DEF Copied, Present, RepairStep
  <2>4. temp' = created + 1 /\ temp' \in File
    BY <2>1, <2>3, Arithmetic DEF Opened, CanOpen, Base, TypeOK
  <2>5. Bare(temp)'
    BY <2>1, <2>4, Arithmetic DEF Bare, RowsOf, Base, TypeOK, Unborn
  <2>6. Led'
    BY <2>1, <1>s, <1>t DEF Led, RepairStep
  <2>7. temp' # db' /\ \A w \in Worker : conn'[w] # temp'
    BY <2>1, <2>4, <1>f, Arithmetic DEF Base, TypeOK, Unborn, Existing
  <2>8. Copied'
    BY <2>1, <2>2, <2>4, <2>5, <2>7, <1>t, <1>f DEF Copied, RepairStep
  <2> QED BY <2>1, <2>3, <2>6, <2>8 DEF Safe, Present, RowsOf
<1>12. ASSUME NEW c \in Client, Dump(c) PROVE Safe'
  <2>1. /\ step[c] = "dump" /\ step' = [step EXCEPT ![c] = "verify"]
        /\ UNCHANGED <<Due, db, temp, holder, src, dst, conn>>
    BY <1>12, Zenon DEF Dump, written, repair, Due
  <2>2. \A x \in Client : x # c => step[x] \notin RepairStep
    BY <2>1, <1>r DEF RepairStep
  <2>3. src[c] = db /\ dst[c] = temp /\ temp \in File /\ Bare(temp) /\ db \in File
    BY <2>1, <1>s, <1>f DEF Copied, Base, Placed
  <2>4. Due \subseteq RowsOf(db)
    BY <2>1, <2>2, <1>s DEF Present, RepairStep
  <2>5. content' = [content EXCEPT ![temp] = @ \cup {p \in content[db] : p[1] \notin RowsOf(temp)}]
    BY <1>12, <2>3 DEF Dump, Bare
  <2>6. content[temp] \subseteq content'[temp] /\ content[db] \subseteq content'[temp]
    BY <2>3, <2>5, <1>f DEF Bare
  <2>7. RowsOf(db) \subseteq RowsOf(temp)' /\ RowsOf(db) \subseteq RowsOf(db)'
    BY <2>1, <2>3, <2>5, <2>6, <1>f DEF RowsOf
  <2>8. Led'
    BY <2>1, <1>s, <1>t DEF Led, RepairStep
  <2>9. Copied'
    BY <2>1, <2>2, <2>3, <2>4, <2>7, <1>s, <1>t, <1>f DEF Copied, RepairStep
  <2> QED BY <2>1, <2>3, <2>4, <2>7, <2>8, <2>9, <1>f DEF Safe, Present
<1>13. ASSUME NEW c \in Client, Verify(c) PROVE Safe'
  <2>1. /\ step[c] = "verify" /\ step' = [step EXCEPT ![c] = "unlink"] /\ temp' = Opened(temp)
        /\ UNCHANGED <<Due, db, content, parts, holder, src, dst, conn>>
    BY <1>13, Zenon DEF Verify, written, repair, Due
  <2>2. \A x \in Client : x # c => step[x] \notin RepairStep
    BY <2>1, <1>r DEF RepairStep
  <2>3. temp # None /\ Due \subseteq RowsOf(temp) /\ temp' = temp
    BY <2>1, <1>s DEF Copied, Opened
  <2>4. db # None /\ Due \subseteq RowsOf(db)
    BY <2>1, <2>2, <1>s DEF Present, RepairStep
  <2>5. Led'
    BY <2>1, <1>s, <1>t DEF Led, RepairStep
  <2>6. Copied'
    BY <2>1, <2>2, <2>3, <1>s, <1>t, <1>f DEF Copied, RepairStep, RowsOf
  <2> QED BY <2>1, <2>4, <2>5, <2>6 DEF Safe, Present, RowsOf
<1>14. ASSUME NEW c \in Client, Unlink(c) PROVE Safe'
  <2>1. /\ step[c] = "unlink" /\ step' = [step EXCEPT ![c] = "move"]
        /\ db' = None /\ UNCHANGED <<Due, temp, content, parts, holder, src, dst, conn>>
    BY <1>14, Zenon DEF Unlink, written, repair, Due
  <2>2. \A x \in Client : x # c => step[x] \notin RepairStep
    BY <2>1, <1>r DEF RepairStep
  <2>3. temp # None /\ Due \subseteq RowsOf(temp)
    BY <2>1, <1>s DEF Copied
  <2>4. Led'
    BY <2>1, <1>s, <1>t DEF Led, RepairStep
  <2>5. Copied'
    BY <2>1, <2>2, <2>3, <1>s, <1>t, <1>f DEF Copied, RepairStep, RowsOf
  <2>6. Present'
    BY <2>1, <1>t DEF Present
  <2> QED BY <2>4, <2>5, <2>6 DEF Safe
<1>15. ASSUME NEW c \in Client, Move(c) PROVE Safe'
  <2>1. step[c] = "move" /\ temp # None /\ db' = temp /\ temp' = None /\ UNCHANGED <<Due, content>>
    BY <1>15 DEF Move, written, Due
  <2>2. holder = c /\ c \notin starting /\ \A x \in Client : x # c => step[x] \notin RepairStep
    BY <2>1, <1>r DEF RepairStep
  <2>3. step' = [step EXCEPT ![c] = "idle"]
    BY <1>15, <2>2 DEF Move, Leave
  <2>4. Due \subseteq RowsOf(temp)
    BY <2>1, <1>s DEF Copied
  <2>5. Led'
    BY <2>2, <2>3, <1>s, <1>t DEF Led, RepairStep
  <2>6. Copied'
    BY <2>1, <2>2, <2>3, <1>t DEF Copied, RepairStep
  <2>7. db' # None /\ Due' \subseteq RowsOf(db)'
    BY <2>1, <2>4 DEF RowsOf
  <2> QED BY <2>5, <2>6, <2>7 DEF Safe, Present
<1>16. ASSUME NEW c \in Client, Fails(c) PROVE Safe'
  <2>1. /\ step[c] \in {"open", "dump", "verify"} \/ (step[c] = "move" /\ temp = None)
        /\ temp' = None /\ UNCHANGED <<Due, db, content>>
    BY <1>16 DEF Fails, written, Due
  <2>2. holder = c /\ c \notin starting /\ \A x \in Client : x # c => step[x] \notin RepairStep
    BY <2>1, <1>r DEF RepairStep
  <2>3. step' = [step EXCEPT ![c] = "idle"]
    BY <1>16, <2>2 DEF Fails, Leave
  <2>4. step[c] # "move"
    BY <2>1, <1>s DEF Copied
  <2>5. db # None /\ Due \subseteq RowsOf(db)
    BY <2>2, <2>4, <1>s DEF Present, RepairStep
  <2>6. Led'
    BY <2>2, <2>3, <1>s, <1>t DEF Led, RepairStep
  <2>7. Copied'
    BY <2>1, <2>2, <2>3, <1>t DEF Copied, RepairStep
  <2> QED BY <2>1, <2>5, <2>6, <2>7 DEF Safe, Present, RowsOf
<1>17. ASSUME NEW c \in Client, Killed(c) PROVE Safe'
  <2>1. /\ step[c] \notin RepairStep /\ UNCHANGED <<Due, db, temp, content, parts>>
        /\ IF c \in Worker THEN Restarted(c) ELSE Leave(c, "idle")
    BY <1>17 DEF Killed, files, written, Due
  <2>2. step'[c] \in {"check", "idle"} /\ \A x \in Client : x # c => step'[x] = step[x]
    BY <2>1, <1>t DEF Restarted, Leave
  <2>3. /\ \A x \in Client : x # c => src'[x] = src[x] /\ dst'[x] = dst[x]
        /\ holder # c => holder' = holder
    BY <2>1, <1>t DEF Restarted, Leave
  <2>4. \A x \in Worker : conn'[x] \in {conn[x], None}
    BY <1>17, <1>t DEF Killed, Restarted
  <2> QED BY <2>1, <2>2, <2>3, <2>4, <1>q DEF RepairStep, RowsOf
<1>18. CASE Damage
  <2>1. UNCHANGED <<step, src, dst, db, temp, Due, content, parts, holder, conn>>
    BY <1>18 DEF Damage, repair, written, Due
  <2> QED BY <2>1, <1>s DEF Safe, Led, Copied, Present, Bare, RowsOf
<1>19. CASE UNCHANGED vars
  <2>1. UNCHANGED <<step, src, dst, db, temp, Due, content, parts, holder, conn>>
    BY <1>19 DEF vars, files, repair, written, Due
  <2> QED BY <2>1, <1>s DEF Safe, Led, Copied, Present, Bare, RowsOf
<1> QED
  BY <1>1, <1>2, <1>3, <1>4, <1>5, <1>6, <1>7, <1>8, <1>9, <1>10, <1>11, <1>12, <1>13, <1>14,
     <1>15, <1>16, <1>17, <1>18, <1>19, Zenon DEF Next, Starts, Repairs

\* A repair out of the lock, or one that was killed, is remembered.
LEMMA UnguardedStays == [Next]_vars /\ unguarded => unguarded'
<1> SUFFICES ASSUME [Next]_vars, unguarded PROVE unguarded'
    OBVIOUS
<1>1. ASSUME NEW w \in Worker, Check(w) PROVE unguarded'
  BY <1>1, Zenon DEF Check
<1>2. ASSUME NEW w \in Worker, Remove(w) PROVE unguarded'
  BY <1>2, Zenon DEF Remove
<1>3. ASSUME NEW w \in Worker, Connect(w) PROVE unguarded'
  BY <1>3, Zenon DEF Connect
<1>4. ASSUME NEW w \in Worker, NEW at \in Migration, Skip(w, at) PROVE unguarded'
  BY <1>4, Zenon DEF Skip
<1>5. ASSUME NEW w \in Worker, NEW at \in Migration, Migrate(w, at) PROVE unguarded'
  BY <1>5, Zenon DEF Migrate
<1>6. ASSUME NEW w \in Worker, NEW at \in Migration, MigrationFails(w, at) PROVE unguarded'
  BY <1>6, Zenon DEF MigrationFails
<1>7. ASSUME NEW w \in Worker, NEW at \in Migration, KilledUncounted(w, at) PROVE unguarded'
  BY <1>7, Zenon DEF KilledUncounted
<1>8. ASSUME NEW w \in Worker, NEW r \in Row, Write(w, r) \/ WriteUnlocked(w, r) PROVE unguarded'
  BY <1>8, Zenon DEF Write, WriteUnlocked, Commit
<1>9. ASSUME NEW m \in Maintainer, StartMaintain(m) PROVE unguarded'
  BY <1>9, Zenon DEF StartMaintain
<1>10. ASSUME NEW w \in Worker, StartRecover(w) PROVE unguarded'
  BY <1>10, Zenon DEF StartRecover
<1>11. ASSUME NEW c \in Client, OpenBoth(c) PROVE unguarded'
  BY <1>11, Zenon DEF OpenBoth
<1>12. ASSUME NEW c \in Client, Dump(c) PROVE unguarded'
  BY <1>12, Zenon DEF Dump
<1>13. ASSUME NEW c \in Client, Verify(c) PROVE unguarded'
  BY <1>13, Zenon DEF Verify
<1>14. ASSUME NEW c \in Client, Unlink(c) PROVE unguarded'
  BY <1>14, Zenon DEF Unlink
<1>15. ASSUME NEW c \in Client, Move(c) PROVE unguarded'
  BY <1>15, Zenon DEF Move
<1>16. ASSUME NEW c \in Client, Fails(c) PROVE unguarded'
  BY <1>16, Zenon DEF Fails
<1>17. ASSUME NEW c \in Client, Killed(c) PROVE unguarded'
  BY <1>17, Zenon DEF Killed
<1>18. CASE Damage
  BY <1>18, Zenon DEF Damage
<1>19. CASE UNCHANGED vars
  BY <1>19, Zenon DEF vars
<1> QED
  BY <1>1, <1>2, <1>3, <1>4, <1>5, <1>6, <1>7, <1>8, <1>9, <1>10, <1>11, <1>12, <1>13, <1>14,
     <1>15, <1>16, <1>17, <1>18, <1>19, Zenon DEF Next, Starts, Repairs

-----------------------------------------------------------------------------
(* The theorems. *)

\* The types, what refers to a file, and who has a connection.
THEOREM StoreTypes == Spec => []Base
<1>1. Init => Base
  BY BaseInit
<1>2. Base /\ [Next]_vars => Base'
  BY BaseNext
<1> QED BY <1>1, <1>2, PTL DEF Spec

\* In every file, and whatever fails in between: no migration is counted whose columns and
\* keys are not there.
THEOREM SchemaHolds == Spec => []SchemaAsVersioned
<1>1. Init => Versioned
  BY VersionedInit
<1>2. Versioned /\ [Next]_vars => Versioned'
  BY VersionedNext
<1>3. Versioned => SchemaAsVersioned
  BY DEF Versioned
<1> QED BY <1>1, <1>2, <1>3, PTL DEF Spec

\* However often repairs take the version back and migrations run again: a duration is
\* divided once, if no track is as long as ten hours.
THEOREM DurationsHold == ShortTracks => (Spec => []DurationsRight)
<1> SUFFICES ASSUME ShortTracks PROVE Spec => []DurationsRight
    OBVIOUS
<1>1. Init => Versioned /\ Seconds
  BY VersionedInit, SecondsInit
<1>2. (Versioned /\ Seconds) /\ [Next]_vars => (Versioned /\ Seconds)'
  BY VersionedNext, SecondsNext
<1>3. Versioned /\ Seconds => DurationsRight
  BY DEF Seconds
<1> QED BY <1>1, <1>2, <1>3, PTL DEF Spec

\* A repair led under the lock loses no committed row.
THEOREM RowsKeptHolds == Spec => []RowsKept
<1>1. Init => Base /\ Kept
  BY BaseInit, KeptInit
<1>2. (Base /\ Kept) /\ [Next]_vars => (Base /\ Kept)'
  <2> SUFFICES ASSUME Base, Kept, [Next]_vars PROVE Base' /\ Kept'
      OBVIOUS
  <2>1. Base' /\ Locked'
    BY BaseNext, LockedNext DEF Kept
  <2>2. ASSUME ~unguarded' PROVE Safe'
    <3>1. ~unguarded
      BY <2>2, UnguardedStays
    <3> QED BY <2>1, <2>2, <3>1, SafeNext DEF Kept
  <2> QED BY <2>1, <2>2, Zenon DEF Kept
<1>3. Base /\ Kept => RowsKept
  BY DEF Kept, Safe, Present, Due, RowsKept
<1> QED BY <1>1, <1>2, <1>3, PTL DEF Spec
=============================================================================
