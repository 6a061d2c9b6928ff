----------------------------- MODULE ConfigFile -----------------------------
(***************************************************************************)
(* config.toml and the copies of it: the main process loads and migrates   *)
(* it when it starts, the threads of its WebUI edit the copy they share    *)
(* and write it, and every worker reads the file in each of its loops.     *)
(*                                                                         *)
(* MyConfig.save truncates the file and then asks the shared copy for its  *)
(* text; MyConfig.load keeps the old copy if the text does not parse, and  *)
(* after an error of the operating system a copy is never loaded or saved  *)
(* again.                                                                  *)
(***************************************************************************)
EXTENDS ConfigRules, FiniteSets

CONSTANTS Request,    \* threads of the WebUI
          Worker,     \* worker processes
          Found,      \* the configurations the program may be started on
          Host,       \* values of the setting that is edited
          MaxEdits,   \* bound: edits asked for
          MaxFaults,  \* bound: files that cannot be opened or copied
          MaxCrashes  \* bound: ends of the main process

ASSUME FileAssumption ==
    /\ Request \cap Worker = {} /\ "main" \notin Worker /\ Unset \notin Host
    /\ MaxEdits \in Nat /\ MaxFaults \in Nat /\ MaxCrashes \in Nat

VARIABLES file,     \* what config.toml holds
          backups,  \* what its backups hold
          mem,      \* the copy of the main process
          own,      \* the copies of the workers
          blind,    \* the copies that are not loaded or saved any more
          main,     \* where the main process is
          request,  \* where a request is
          edit,     \* the value it asks for, and whether that is valid
          wanted,   \* history: what the user has chosen
          clash,    \* history: a request has met another one's edit
          torn,     \* history: which write was cut off: "no", "edit", "upgrade"
          found,    \* history: what the last start before that loaded
          budget

disk == <<file, backups>>
copies == <<mem, own, blind>>
requests == <<request, edit>>
history == <<wanted, clash, torn, found>>
vars == <<disk, copies, main, requests, history, budget>>

\* Text that does not parse.
Broken == [version |-> 99]
Cut(c) == [c EXCEPT !.arrs = [n \in {} |-> Unset]]

Init ==
    /\ file \in Found /\ wanted = Choices(file)
    /\ backups = {} /\ mem = Empty /\ own = [w \in Worker |-> Empty] /\ blind = {}
    /\ main = "down"
    /\ request = [r \in Request |-> "idle"]
    /\ edit = [r \in Request |-> [host |-> Unset, valid |-> FALSE]]
    /\ clash = FALSE /\ torn = "no" /\ found = Empty
    /\ budget = [edit |-> MaxEdits, fault |-> MaxFaults, crash |-> MaxCrashes]

Spend(k) == budget[k] > 0 /\ budget' = [budget EXCEPT ![k] = @ - 1]
Open(r) == request[r] # "idle"
Writing(r) == request[r] \in {"writing", "over"}
Busy(r) == \E o \in Request \ {r} : Open(o)

\* What a copy is after a load.
Loaded(copy) == IF file = Broken THEN copy ELSE file

-----------------------------------------------------------------------------
(* The main process starts. *)

\* The import of qBitrr.config; a file that does not parse ends it.
Start ==
    /\ main = "down" /\ file # Broken
    /\ mem' = file /\ main' = "loaded"
    /\ found' = IF torn = "no" THEN file ELSE found
    /\ UNCHANGED <<disk, own, blind, requests, wanted, clash, torn, budget>>

\* The backup of an older configuration, which may fail; then all migrations.  A newer
\* one is used as it is.  (Variants: the backup copies what has been migrated; a newer
\* configuration ends the program.)
MigrateFirst ==
    /\ main = "loaded" /\ ~Raises(Renamed(mem))
    /\ backups' = IF mem.version < Expected THEN backups \cup {Upgraded(mem)} ELSE backups
    /\ mem' = Upgraded(mem)
    /\ main' = IF mem' = mem THEN "ready" ELSE "changed"
    /\ UNCHANGED <<file, own, blind, requests, history, budget>>
MigrateKnown ==
    /\ main = "loaded" /\ ~Raises(Renamed(mem)) /\ mem.version <= Expected
    /\ backups' = IF mem.version < Expected THEN backups \cup {file} ELSE backups
    /\ mem' = Upgraded(mem)
    /\ main' = IF mem' = mem THEN "ready" ELSE "changed"
    /\ UNCHANGED <<file, own, blind, requests, history, budget>>
Migrate ==
    /\ main = "loaded" /\ ~Raises(Renamed(mem))
    /\ \/ /\ backups' = IF mem.version < Expected THEN backups \cup {file} ELSE backups
          /\ UNCHANGED budget
       \/ mem.version < Expected /\ Spend("fault") /\ UNCHANGED backups
    /\ \E moved \in {Moved(mem)} : mem' = Finished(moved)
    /\ main' = IF mem' = mem THEN "ready" ELSE "changed"
    /\ UNCHANGED <<file, own, blind, requests, history>>

\* An error of the migrations ends the process; nothing has been saved.
MigrateRaises ==
    /\ main = "loaded" /\ Raises(Renamed(mem))
    /\ main' = "down"
    /\ UNCHANGED <<disk, copies, requests, history, budget>>

\* The migrated configuration is written only if something has changed.
Truncate ==
    /\ main = "changed"
    /\ file' = Empty /\ main' = "writing"
    /\ UNCHANGED <<backups, copies, requests, history, budget>>
Store ==
    /\ main = "writing"
    /\ file' = mem /\ main' = "ready"
    /\ UNCHANGED <<backups, copies, requests, history, budget>>

\* The workers are forked with a copy of what the main process has.
Fork ==
    /\ main = "ready" /\ main' = "up"
    /\ own' = [w \in Worker |-> mem]
    /\ UNCHANGED <<disk, mem, blind, requests, history, budget>>

\* The text is written in blocks: until the last the file ends somewhere.
Block ==
    /\ main = "writing" \/ \E r \in Request : Writing(r)
    /\ file = Empty
    /\ file' \in {Broken, Cut(mem)}
    /\ UNCHANGED <<backups, copies, main, requests, history, budget>>

\* The main process is killed, and its workers with it.
Crash ==
    /\ main # "down" /\ Spend("crash")
    /\ main' = "down" /\ request' = [r \in Request |-> "idle"]
    /\ torn' = IF torn # "no" THEN torn
               ELSE IF main = "writing" THEN "upgrade"
               ELSE IF \E r \in Request : Writing(r) THEN "edit" ELSE "no"
    /\ mem' = Empty /\ own' = [w \in Worker |-> Empty] /\ blind' = {}
    /\ UNCHANGED <<disk, edit, wanted, clash, found>>

-----------------------------------------------------------------------------
(* The requests of the WebUI: all of them work on the one copy. *)

\* The changes are made in the shared copy before they are checked.
Edit(r, h, valid) ==
    /\ main = "up" /\ ~Open(r) /\ Spend("edit")
    /\ mem' = [mem EXCEPT !.host = h]
    /\ request' = [request EXCEPT ![r] = "edited"]
    /\ edit' = [edit EXCEPT ![r] = [host |-> h, valid |-> valid]]
    /\ clash' = (clash \/ Busy(r))
    /\ UNCHANGED <<disk, own, blind, main, wanted, torn, found>>

\* Invalid changes are taken back by loading the file.  (Variant: they are answered only.)
RejectOnly(r) ==
    /\ request[r] = "edited" /\ ~edit[r].valid
    /\ request' = [request EXCEPT ![r] = "idle"]
    /\ UNCHANGED <<disk, copies, main, edit, history, budget>>
Reject(r) ==
    /\ request[r] = "edited" /\ ~edit[r].valid
    /\ mem' = IF "main" \in blind THEN mem ELSE Loaded(mem)
    /\ request' = [request EXCEPT ![r] = "idle"]
    /\ clash' = (clash \/ Busy(r))
    /\ UNCHANGED <<disk, own, blind, main, edit, wanted, torn, found, budget>>

\* save(): the file is opened, which truncates it, then the copy is asked for its text.
\* Who has the file open already writes over the text of the other.
Others(r, next, written) ==
    [o \in Request |-> IF o = r THEN next
                       ELSE IF request[o] = "writing" /\ written THEN "over" ELSE request[o]]
Save(r) ==
    /\ request[r] = "edited" /\ edit[r].valid /\ "main" \notin blind
    /\ file' = Empty
    /\ request' = Others(r, "writing", file # Empty)
    /\ UNCHANGED <<backups, copies, main, edit, history, budget>>
Written(r) ==
    /\ Writing(r)
    /\ file' \in (IF request[r] = "over" THEN {mem, Broken} ELSE {mem})
    /\ request' = Others(r, "idle", TRUE)
    /\ wanted' = [wanted EXCEPT !.host = edit[r].host]
    /\ UNCHANGED <<backups, copies, main, edit, clash, torn, found, budget>>

\* The file cannot be opened: the request fails, the copy keeps the changes and is never
\* saved again; later requests are answered as if it was.
SaveFails(r) ==
    /\ request[r] = "edited" /\ edit[r].valid
    /\ \/ "main" \notin blind /\ Spend("fault")
       \/ "main" \in blind /\ UNCHANGED budget
    /\ blind' = blind \cup {"main"}
    /\ request' = [request EXCEPT ![r] = "idle"]
    /\ UNCHANGED <<disk, mem, own, main, edit, history>>

\* A request for the configuration loads it first, and so does the restart of the WebUI.
View ==
    /\ main = "up" /\ "main" \notin blind
    /\ \/ mem' = Loaded(mem) /\ UNCHANGED <<blind, budget>>
       \/ blind' = blind \cup {"main"} /\ Spend("fault") /\ UNCHANGED mem
    /\ clash' = (clash \/ \E r \in Request : Open(r))
    /\ UNCHANGED <<disk, own, main, requests, wanted, torn, found>>

-----------------------------------------------------------------------------
(* The workers. *)

\* sync_config_from_disk at the head of a loop.  (Variant: text that does not parse is
\* like a file that cannot be opened.)
SyncStrict(w) ==
    /\ main = "up" /\ w \notin blind
    /\ own' = [own EXCEPT ![w] = Loaded(@)]
    /\ blind' = IF file = Broken THEN blind \cup {w} ELSE blind
    /\ UNCHANGED <<disk, mem, main, requests, history, budget>>
Sync(w) ==
    /\ main = "up" /\ w \notin blind
    /\ \/ own' = [own EXCEPT ![w] = Loaded(@)] /\ UNCHANGED <<blind, budget>>
       \/ blind' = blind \cup {w} /\ Spend("fault") /\ UNCHANGED own
    /\ UNCHANGED <<disk, mem, main, requests, history>>

\* A worker that has ended is forked again, from the main process as it is.
Respawn(w) ==
    /\ main = "up"
    /\ own' = [own EXCEPT ![w] = mem]
    /\ blind' = IF "main" \in blind THEN blind \cup {w} ELSE blind \ {w}
    /\ UNCHANGED <<disk, mem, main, requests, history, budget>>

-----------------------------------------------------------------------------
Boot == Start \/ Migrate \/ Truncate \/ Store \/ Fork
Answer(r) == Reject(r) \/ Save(r) \/ Written(r) \/ SaveFails(r)

Next ==
    \/ Boot \/ MigrateRaises \/ Block \/ Crash \/ View
    \/ \E r \in Request, h \in Host, valid \in BOOLEAN : Edit(r, h, valid)
    \/ \E r \in Request : Answer(r)
    \/ \E w \in Worker : Sync(w) \/ Respawn(w)

Spec == Init /\ [][Next]_vars

\* The program is started again when it ends, a request is answered, a loop goes on.
Fair ==
    /\ Spec /\ WF_vars(Boot)
    /\ \A r \in Request : WF_vars(Answer(r))
    /\ \A w \in Worker : WF_vars(Sync(w))

-----------------------------------------------------------------------------
(* Properties *)

Quiet == main \in {"down", "ready", "up"} /\ \A r \in Request : ~Open(r)

\* Whatever is migrated, edited, refused or read in between: as long as no two requests
\* overlap, no write is cut off and no file refuses to be opened, what the user has
\* chosen is what the file says, and what the program goes by.  Two choices are not kept
\* (ConfigRules): a clear mode wins over a HitAndRunMode that is not true (Overruled), and
\* what an Arr's SeedingMode of a release before 5.8.8 says of hit-and-run goes (Dropped).
ChoicesKept ==
    ~clash /\ torn = "no" /\ Quiet /\ "main" \notin blind =>
        /\ file # Broken /\ Choices(file) = wanted
        /\ main # "down" => Choices(mem) = wanted

\* A migration that is cut off in the middle of its write has lost nothing: the old
\* configuration is in a backup, if it could be made ("Create backup before migration").
UpgradeBackedUp ==
    torn = "upgrade" /\ found.version < Expected /\ budget.fault = MaxFaults =>
        found \in backups

\* Whatever it finds, the program comes up in the end, unless the file does not parse or
\* the promotion of trackers raises.
ComesUp == <>[](main = "up" \/ file = Broken \/ Raises(Renamed(file)))

\* After the last save all workers go by what the file says, unless it cannot be read.
WorkersFollow ==
    <>[](main = "up" /\ file # Broken /\ budget.fault = MaxFaults =>
             \A w \in Worker : own[w] = file)
=============================================================================
