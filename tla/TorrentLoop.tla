---------------------------- MODULE TorrentLoop ----------------------------
(***************************************************************************)
(* The torrent loops that share the qBittorrent instances: an Arr's, and   *)
(* those of the categories "failed" and "recheck", each in a process of    *)
(* its own with its own memory.  An iteration fetches the copies of its    *)
(* category, decides about each by TorrentRules, and then applies what is  *)
(* queued, one batch after the other; calls fail, are carried out though   *)
(* reported failed, and processes die and start again with empty memory.   *)
(*                                                                         *)
(* A copy is a pair of an instance and a hash: one hash may be on several  *)
(* instances.                                                              *)
(***************************************************************************)
EXTENDS TorrentRules, FiniteSets

CONSTANTS Instances, Primary, Hashes,
          Contents,    \* what a copy can look like: torrent records
          Start,       \* and the copies there may be when the loops begin
          Setting, Tracker,  \* of the Arr
          FilesOf,     \* [Hashes -> Seq(FileKinds)]: the files of each
          ClientOf,    \* [Hashes -> Instances]: the Arr's own download client
          MaxChanges,  \* bounds of what goes on around the loops:
          MaxFaults,   \* calls that fail,
          MaxCrashes   \* and processes that die

Procs == {"arr", "failed", "recheck"}
Copies == Instances \X Hashes

ASSUME LoopAssumption ==
    /\ IsFiniteSet(Instances) /\ IsFiniteSet(Hashes)
    /\ Primary \in Instances
    /\ Contents \subseteq Torrent
    /\ Start \subseteq [here: SUBSET Copies, torrent: [Copies -> Torrent]]
    /\ FilesOf \in [Hashes -> Seq(FileKinds)]
    /\ ClientOf \in [Hashes -> Instances]
    /\ MaxChanges \in Nat /\ MaxFaults \in Nat /\ MaxCrashes \in Nat

VARIABLES here,      \* the copies on the instances,
          torrent,   \* and what qBittorrent shows of each
          queue,     \* the hashes in the Arr's download queue,
          warned,    \* those it warns of with a blocklisted error,
          blocked,   \* and those it has blocklisted
          mem,       \* what each process holds in memory
          pc,        \* the batch each process comes to next
          spent,     \* changes, faults and crashes so far
          condemned, \* for the properties: the copies a process condemned, with its name,
          delayed,   \*   those that got the tag of the stalled delay,
          missed,    \*   those marked for missing files,
          erased     \*   and the copies deleted by a process, with its name

loop == <<here, torrent, queue, warned, blocked, mem, pc, spent,
          condemned, delayed, missed, erased>>

client == <<here, torrent>>
arrSide == <<queue, warned, blocked>>
history == <<condemned, delayed, missed, erased>>

\* The buckets are sets of copies, the rest sets of hashes; "seen" is arr.cache, the
\* queue as last fetched, "home" the hashes whose category was noted.
Buckets == {"resume", "pause", "recheck", "files", "imports", "sent", "remove", "deleteAt"}
Notes == {"delete", "bad", "confirmed", "targets", "cleaned", "skipped", "scanned", "seen", "home"}

Blank == [b \in Buckets \union Notes |-> {}]

Memory == {m \in [Buckets \union Notes -> SUBSET (Copies \union Hashes)] :
               /\ \A b \in Buckets : m[b] \subseteq Copies
               /\ \A n \in Notes : m[n] \subseteq Hashes}

LoopTypeOK ==
    /\ here \subseteq Copies
    /\ torrent \in [Copies -> Torrent]
    /\ queue \subseteq Hashes /\ warned \subseteq Hashes /\ blocked \subseteq Hashes
    /\ mem \in [Procs -> Memory]
    /\ pc \in [Procs -> {"fetch", "resume", "pause", "recheck", "files", "imports",
                         "failed", "queue", "clean"}]
    /\ spent \in [changes : 0 .. MaxChanges, faults : 0 .. MaxFaults,
                  crashes : 0 .. MaxCrashes]
    /\ condemned \subseteq Procs \X Copies /\ delayed \subseteq Copies /\ missed \subseteq Copies
    /\ erased \subseteq Procs \X Copies

LoopInit ==
    /\ \E at \in Start : here = at.here /\ torrent = at.torrent
    /\ queue = Hashes /\ warned = {} /\ blocked = {}
    /\ mem = [p \in Procs |-> Blank]
    /\ pc = [p \in Procs |-> "fetch"]
    /\ spent = [changes |-> 0, faults |-> 0, crashes |-> 0]
    /\ condemned = {} /\ delayed = {} /\ missed = {} /\ erased = {}

-----------------------------------------------------------------------------
(* Calls and their outcome. *)

Hash(c) == c[2]
Held(copies) == {Hash(c) : c \in copies}
Placed(copies) == {c[1] : c \in copies}
Of(copies, hashes) == {c \in copies : Hash(c) \in hashes}

\* An instance answers, fails, or does what it is asked although the reply is lost.
Replies(copies) == [Placed(copies) -> {"ok", "failed", "lost"}]
Served(copies, reply) == {c \in copies : reply[c[1]] # "failed"}
Kept(copies, reply) == {c \in copies : reply[c[1]] # "ok"}
Failures(reply) == Cardinality({i \in DOMAIN reply : reply[i] # "ok"})

Fault(n) ==
    /\ spent.faults + n <= MaxFaults
    /\ spent' = [spent EXCEPT !.faults = @ + n]

Marked(m) == m.delete \union m.bad

\* What is to be deleted, instance by instance.
Doomed(m) == m.remove \union m.deleteAt

\* (Variant: the early return forgets the removals.)
WaitingMarked(m) == Marked(m) # {}
Waiting(m) == Doomed(m) # {} \/ Marked(m) # {}

\* A batch with nothing in its bucket returns at once: p goes on, with memory m, to the
\* first that has something to do.
Order == <<"resume", "pause", "recheck", "files", "imports", "failed", "queue", "clean">>
Busy(p, m, b) ==
    CASE b = "imports" -> p = "arr" /\ m.imports # {}
      [] b = "failed"  -> Waiting(m)
      [] b = "queue"   -> m.confirmed # {}
      [] b = "clean"   -> p = "arr" /\ (m.sent # {} \/ m.scanned # {} \/ ~(warned \subseteq m.bad))
      [] OTHER         -> m[b] # {}
Abandon(p, m) ==
    /\ mem' = [mem EXCEPT ![p] = m]
    /\ pc' = [pc EXCEPT ![p] = "fetch"]
GoOn(p, after, m) ==
    LET done(i) == after # "fetch" /\ \E j \in i .. Len(Order) : Order[j] = after
        later == {i \in DOMAIN Order : ~done(i) /\ Busy(p, m, Order[i])}
    IN  /\ mem' = [mem EXCEPT ![p] = m]
        /\ pc' = [pc EXCEPT ![p] = IF later = {} THEN "fetch"
                     ELSE Order[CHOOSE i \in later : \A j \in later : i <= j]]
Proceed(p, after, memory) == \E m \in {memory} : GoOn(p, after, m)

\* What the client shows after it was told to.
Halted(t) == [t EXCEPT !.state = IF Unfinished(t) THEN "stoppedDL" ELSE "stoppedUP"]
Resumed(t) ==
    [t EXCEPT !.state = CASE @ \in {"stoppedDL", "pausedDL"} -> "downloading"
                          [] @ \in {"stoppedUP", "pausedUP"} -> "stalledUP"
                          [] OTHER -> @]
Imported(t) == [t EXCEPT !.tags = @ \union {"imported"}]
Rechecked(t) == [t EXCEPT !.state = IF Unfinished(t) THEN "checkingDL" ELSE "checkingUP"]

\* The torrents after Told was asked of the copies.
Tell(Told(_), copies) ==
    torrent' = [c \in Copies |-> IF c \in copies \intersect here THEN Told(torrent[c])
                                                              ELSE torrent[c]]

-----------------------------------------------------------------------------
(* An iteration: the fetch and the decisions. *)

CategoryOf(p) == IF p = "arr" THEN "own" ELSE p

\* The torrent as the dispatcher of p sees it, with what p remembers of its hash.
Seen(p, m, c) ==
    [torrent[c] EXCEPT !.is = @ \union {n \in {"cleaned", "skipped", "scanned"} :
                                          Hash(c) \in m[n]}]

VerdictOf(t, files) == Judgement(Setting, Tracker, t, files)

\* The verdicts are pairs of a copy and what was decided about it.
Given(verdicts, kinds) == {v[1] : v \in {w \in verdicts : w[2] \in kinds}}

\* The memory of p once it has gone over the copies.
Decided(p, m, verdicts) ==
    LET of(x) == Given(verdicts, {x})
    IN  [m EXCEPT !.resume   = @ \union of("resume"),
                  !.pause    = @ \union of("pause"),
                  !.recheck  = @ \union of("recheck"),
                  !.files    = @ \union of("exclude") \union
                                {c \in of("empty") : Excluded(FilesOf[Hash(c)]) # {}},
                  !.imports  = @ \union of("import"),
                  !.remove   = @ \union of("remove"),
                  !.deleteAt = @ \union of("delete") \union of("empty"),
                  !.delete   = @ \union Held(of("delete") \union of("empty")),
                  !.cleaned  = @ \union Held(of("exclude") \union of("empty") \union of("clean")),
                  !.home     = @ \union Held({c \in {v[1] : v \in verdicts} : torrent[c].cat # "recheck"})]

Retag(p, m, copies) ==
    torrent' = [c \in Copies |->
                  IF c \notin copies THEN torrent[c]
                  ELSE [torrent[c] EXCEPT !.tags = TagsAfter(Setting, Tracker, Seen(p, m, c))]]

\* Told of them, the Arr blocklists what is still in its queue.
Blocklist(hashes) ==
    /\ blocked' = blocked \union (hashes \intersect queue)
    /\ queue' = queue \ hashes

\* Told of a stalled download, it leaves it in the client.
Report(p, m, copies) ==
    /\ Blocklist(IF Setting.reSearch
                 THEN m.seen \intersect
                      Held({c \in copies : TagStalled(Setting, Seen(p, m, c))}) ELSE {})
    /\ here' = here

Conclude(p, m, copies, whole) ==
    \E verdicts \in {{<<d[1], VerdictOf(d[2], FilesOf[Hash(d[1])])>> :
                        d \in {<<c, Seen(p, m, c)>> : c \in copies}}} :
        /\ IF whole THEN Proceed(p, "fetch", Decided(p, m, verdicts))
                    ELSE Abandon(p, Decided(p, m, verdicts))
        /\ condemned' = condemned \union ({p} \X Given(verdicts, {"delete", "empty"}))
        /\ delayed' = delayed \union {c \in copies : TagStalled(Setting, Seen(p, m, c))}
        /\ missed' = missed \union Given(verdicts, {"remove"})

\* The Arr's queue and warnings are read.
Refreshed(p, m) ==
    IF p # "arr" THEN m
    ELSE [m EXCEPT !.seen = IF queue = {} THEN @ ELSE queue, !.bad = @ \union warned]

\* Instances that cannot be reached are left out; with no torrent at all, or no reply of
\* the Arr, the iteration ends here.  The cache of the queue is not emptied with it, and
\* a skipped torrent is no longer skipped after a while.  An error on one copy ends the
\* iteration, and keeps what was decided about the copies before it.  Of a copy that gets
\* the tag of the stalled delay the Arr is told at once, if it is to search again.
Fetch(p) ==
    /\ pc[p] = "fetch"
    /\ \E reached \in SUBSET Instances, kept \in {{}, mem[p].skipped} :
       \E copies \in {{c \in here : c[1] \in reached /\ torrent[c].cat = CategoryOf(p)}},
          m \in {Refreshed(p, [mem[p] EXCEPT !.skipped = kept])} :
          /\ copies # {}
          /\ \E looked \in SUBSET copies :
             \E tagged \in {looked} \union {looked \union {c} : c \in copies \ looked} :
                /\ Fault(Cardinality(Instances \ reached) + IF looked = copies THEN 0 ELSE 1)
                /\ Retag(p, m, tagged)
                /\ Report(p, m, looked)
                /\ Conclude(p, m, looked, looked = copies)
    /\ UNCHANGED <<warned, erased>>

-----------------------------------------------------------------------------
(* The batches. *)

\* What was resumed is skipped for a while.
ProcessResume(p) ==
    /\ pc[p] = "resume"
    /\ \E reply \in Replies(mem[p].resume) :
           /\ Fault(Failures(reply))
           /\ Tell(Resumed, Served(mem[p].resume, reply))
           /\ Proceed(p, "resume", [mem[p] EXCEPT
                  !.resume = Kept(@, reply),
                  !.skipped = @ \union Held(mem[p].resume \ Kept(mem[p].resume, reply))])
    /\ UNCHANGED <<here, arrSide, history>>

ProcessPaused(p) ==
    /\ pc[p] = "pause"
    /\ \E reply \in Replies(mem[p].pause) :
           /\ Fault(Failures(reply))
           /\ Tell(Halted, Served(mem[p].pause, reply))
           /\ Proceed(p, "pause", [mem[p] EXCEPT !.pause = Kept(@, reply)])
    /\ UNCHANGED <<here, arrSide, history>>

\* What was rechecked is skipped for a while, by an Arr's loop not for a second time.
Quiet(p, done) == {Held(done)} \union (IF p = "arr" THEN {{}} ELSE {})

\* The recheck category's loop moves back what it noted the category of.
ProcessErrored(p) ==
    /\ pc[p] = "recheck"
    /\ \E reply \in Replies(mem[p].recheck) :
           LET done == mem[p].recheck \ Kept(mem[p].recheck, reply)
               Back(t) == IF p = "recheck" THEN [t EXCEPT !.cat = "own"] ELSE t
           IN  /\ Fault(Failures(reply))
               /\ torrent' = [c \in Copies |->
                     IF c \notin Served(mem[p].recheck, reply) \intersect here THEN torrent[c]
                     ELSE IF c \in Of(done, mem[p].home) THEN Back(Rechecked(torrent[c]))
                     ELSE Rechecked(torrent[c])]
               /\ \E quiet \in Quiet(p, done) :
                     Proceed(p, "recheck", [mem[p] EXCEPT !.recheck = Kept(@, reply),
                                                !.skipped = @ \union quiet])
    /\ UNCHANGED <<here, arrSide, history>>

\* Excluded files are not downloaded; then the Arr imports, a placeholder does not.
ProcessFilePriority(p) ==
    /\ pc[p] = "files"
    /\ \E reply \in Replies(mem[p].files) :
           /\ Fault(Failures(reply))
           /\ Proceed(p, "files", [mem[p] EXCEPT !.files = Kept(@, reply)])
    /\ UNCHANGED <<client, arrSide, history>>

\* Each completed download is handed to the Arr, unless its path already was; it is then
\* tagged, which may fail, and remembered.
ProcessImports(p) ==
    /\ pc[p] = "imports"
    /\ \E result \in [mem[p].imports \ mem[p].sent -> {"done", "untagged", "failed"}] :
           LET scanned == {c \in DOMAIN result : result[c] # "failed"}
           IN  /\ Fault(Cardinality({c \in DOMAIN result : result[c] # "done"}))
               /\ torrent' = [c \in Copies |->
                     IF c \in scanned \intersect here /\ result[c] = "done"
                     THEN Imported(torrent[c]) ELSE torrent[c]]
               /\ Proceed(p, "imports", [mem[p] EXCEPT !.imports = {},
                                             !.sent = @ \union scanned,
                                             !.scanned = @ \union Held(scanned)])
    /\ UNCHANGED <<here, arrSide, history>>

\* The deletions: those of each instance first, the rest of the condemned hashes on the
\* primary instance.  A hash deleted somewhere is pending nowhere.
Gone(m, reply) == Held(Doomed(m) \ Kept(Doomed(m), reply))
Rest(m, reply) ==
    (Marked(m) \ Gone(m, reply)) \ Held(Of(Doomed(m), Hashes \ Gone(m, reply)))

\* The hashes the Arr is to be told of, among those surely deleted.  (Variants: all of
\* them; only those that the instances did not delete already.)
TargetsDeleted(m, gone, sure) == sure
TargetsLeft(m, gone, sure) == sure \intersect (Marked(m) \ gone)
Targets(m, gone, sure) == sure \intersect Marked(m)

\* What was remembered of a deleted hash is forgotten.
Evicted(m, hashes) ==
    [m EXCEPT !.cleaned = @ \ hashes, !.scanned = @ \ hashes, !.home = @ \ hashes]

ProcessFailed(p) ==
    /\ pc[p] = "failed"
    /\ LET m == mem[p] IN
       \E reply \in Replies(Doomed(m)) :
           \E last \in IF Rest(m, reply) = {} THEN {"ok"} ELSE {"ok", "failed", "lost"} :
             LET gone  == Gone(m, reply)
                 sure  == gone \union (IF last = "ok" THEN Rest(m, reply) ELSE {})
                 dead  == Served(Doomed(m), reply) \union
                          (IF last = "failed" THEN {} ELSE {Primary} \X Rest(m, reply))
                 stale == IF p = "arr" \/ Rest(m, reply) # {} THEN sure ELSE {}
             IN  /\ Fault(Failures(reply) + IF last = "ok" THEN 0 ELSE 1)
                 /\ here' = here \ dead
                 /\ erased' = erased \union ({p} \X (dead \intersect here))
                 /\ Proceed(p, "failed", [Evicted(m, stale) EXCEPT
                                             !.remove = Of(@, Hashes \ gone),
                                             !.deleteAt = Of(@, Hashes \ gone),
                                             !.confirmed = sure,
                                             !.targets = Targets(m, gone, sure)])
    /\ UNCHANGED <<torrent, arrSide, condemned, delayed, missed>>

\* The Arr is told of those that were condemned, and blocklists and removes what is still
\* in its queue.  When a call fails the iteration ends, and they stay condemned.
Entries(m) == m.targets \intersect m.seen

ProcessQueue(p) ==
    /\ pc[p] = "queue"
    /\ LET m == mem[p]
       IN  \E told \in SUBSET Entries(m) :
             LET left == [m EXCEPT !.seen = @ \ (told \ queue), !.confirmed = {}, !.targets = {}]
             IN  /\ Fault(IF told = Entries(m) THEN 0 ELSE 1)
                 /\ Blocklist(told)
                 /\ here' = here \ {<<ClientOf[h], h>> : h \in told \intersect queue}
                 /\ IF told = Entries(m)
                    THEN Proceed(p, "queue", [left EXCEPT !.delete = @ \ m.confirmed,
                                                          !.bad = @ \ m.confirmed])
                    ELSE Abandon(p, left)
    /\ UNCHANGED <<torrent, warned, history>>

\* The paths sent to the Arr are forgotten with the folders that are empty, all the hashes
\* too with the last of them.
Swept(m, swept) ==
    [m EXCEPT !.sent = IF swept = "nothing" THEN @ ELSE {},
              !.scanned = IF swept = "all" THEN {} ELSE @]

\* The Arr's warnings are read again.
AllFolderCleanup ==
    /\ pc["arr"] = "clean"
    /\ \E swept \in {"nothing", "folders", "all"}, asked \in BOOLEAN :
           /\ Fault(IF asked THEN 0 ELSE 1)
           /\ Abandon("arr", [Swept(mem["arr"], swept) EXCEPT
                                 !.bad = IF asked THEN @ \union warned ELSE @])
    /\ UNCHANGED <<client, arrSide, history>>

-----------------------------------------------------------------------------
(* What goes on around the loops. *)

Around ==
    /\ spent.changes < MaxChanges
    /\ spent' = [spent EXCEPT !.changes = @ + 1]
    /\ UNCHANGED <<mem, pc, history>>

\* A torrent moves on, or a user moves it to another category; its tags stay.
Change ==
    /\ \E c \in here, t \in Contents :
          torrent' = [torrent EXCEPT ![c] = [t EXCEPT !.tags = torrent[c].tags]]
    /\ Around
    /\ UNCHANGED <<here, arrSide>>

\* The Arr warns of a download it cannot import,
Warn ==
    /\ \E h \in queue : warned' = warned \union {h}
    /\ Around
    /\ UNCHANGED <<client, queue, blocked>>

\* or imports one by itself.
Import ==
    /\ \E h \in queue : queue' = queue \ {h}
    /\ Around
    /\ UNCHANGED <<client, warned, blocked>>

\* A process dies and is started again, which only tells when it remembers something.
Crash(p) ==
    /\ spent.crashes < MaxCrashes /\ mem[p] # Blank
    /\ spent' = [spent EXCEPT !.crashes = @ + 1]
    /\ Abandon(p, Blank)
    /\ UNCHANGED <<client, arrSide, history>>

Batch(p) ==
    \/ ProcessResume(p) \/ ProcessPaused(p) \/ ProcessErrored(p) \/ ProcessFilePriority(p)
    \/ ProcessImports(p) \/ ProcessFailed(p) \/ ProcessQueue(p)

Iterate(p) == Fetch(p) \/ Batch(p) \/ (p = "arr" /\ AllFolderCleanup)

LoopNext ==
    \/ \E p \in Procs : Iterate(p) \/ Crash(p)
    \/ Change \/ Warn \/ Import

\* The supervisor keeps the processes alive, and a loop never stops by itself.
LoopSpec == LoopInit /\ [][LoopNext]_loop
LoopFair == LoopSpec /\ \A p \in Procs : WF_loop(Iterate(p))

-----------------------------------------------------------------------------
(* Properties. *)

Mourned == {e[2] : e \in condemned}

\* Only what a loop condemned or put on the stalled delay, or the Arr itself warned of, is
\* ever blocklisted: not a torrent deleted for missing files, whichever call failed before
\* ("We do not want to blacklist these!!").
OnlyCondemnedBlocked == blocked \subseteq Held(Mourned \union delayed) \union warned

\* A copy outside the primary instance is deleted only when a loop marked that very copy,
\* although the marks are pruned by hash.
ErasedWasMarked ==
    \A e \in erased : e[2][1] # Primary => e[2] \in Mourned \union missed

\* Torrents moved to the failed category, and those whose files are missing, leave their
\* instances in the end, whichever calls fail and whichever process dies.
Lost(t) == t.cat = "own" /\ MissingFiles(t) /\ "cfUnmet" \notin t.is
DoomedLeave == []<>(\A c \in here : torrent[c].cat # "failed" /\ ~Lost(torrent[c]))

\* What the Arr's loop condemned and deleted is blocklisted in the end, unless the process
\* dies or no torrent is left that would keep the loop going.
CondemnedIsBlocked ==
    []<>(\/ \A e \in condemned \intersect erased : e[1] = "arr" => Hash(e[2]) \notin queue
         \/ spent.crashes > 0
         \/ \A c \in here : torrent[c].cat # "own")

=============================================================================
