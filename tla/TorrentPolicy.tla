--------------------------- MODULE TorrentPolicy ---------------------------
(***************************************************************************)
(* The torrent policy worker (class TorrentPolicyManager): one process for *)
(* all clients that puts the downloads into the order of their trackers    *)
(* and holds, by a tag and a pause, those the disk has no room for.  The   *)
(* downloads write meanwhile, the loops of the Arrs resume what is stopped *)
(* without the tag, and the user does as he likes.                         *)
(***************************************************************************)
EXTENDS Integers, FiniteSets, SequencesExt

CONSTANTS Clients,     \* the qBittorrent instances, in the order of get_all_instances
          Torrents,    \* those of monitored categories without the tag qBitrr-ignored
          On,          \* the client of each
          Size,        \* what each has to download
          Wanted,      \* all by tracker priority, the time added, name and hash
          Starts,      \* how it may begin: [queue: of each client, free: what is free above
                       \* the threshold FreeSpace, stop: what the API calls a stopped
                       \* download, "pausedDL" up to qBittorrent 4, "stoppedDL" from 5 on]
          MaxChanges,  \* bounds: what the user changes
          MaxFaults    \* calls that fail, processes that die

ASSUME PolicyAssumption ==
    /\ On \in [Torrents -> ToSet(Clients)] /\ Size \in [Torrents -> Nat \ {0}]
    /\ ToSet(Wanted) = Torrents /\ Len(Wanted) = Cardinality(Torrents)
    /\ \A s \in Starts : /\ \A c \in ToSet(Clients) : ToSet(s.queue[c]) \subseteq {t \in Torrents : On[t] = c}
                          /\ s.free \in Int /\ s.stop \in {"pausedDL", "stoppedDL"}
    /\ {MaxChanges, MaxFaults} \subseteq Nat

VARIABLES st,        \* of a torrent: running, stopped, done (it seeds) or gone
          left,      \* amount_left
          tag,       \* the torrents with the tag qBitrr-free_space_paused
          queue,     \* of each client: its downloads by position
          free,      \* the space above the threshold
          stop,      \* what the API calls a stopped download
          setting,   \* of the file: "guard", "noguard" (FreeSpace = -1) or "noauto"
          changes, faults,
          pc, mode,  \* of the worker: its next step, and the setting it has read
          room,      \* current_free_space
          moves,     \* torrents still to be moved to the top
          todo,      \* what the list said of the torrents still to be judged
          calls,     \* the clients still to be called
          resuming, pausing,  \* resume_by_instance and pause_by_instance
          other,     \* what the Arrs' loops are about to resume
          quiet      \* history: nobody but the worker has acted since it read the space

torrents == <<st, left, tag, queue, free, stop>>
world == <<setting, changes, faults, other>>
buckets == <<resuming, pausing>>
policy == <<torrents, world, pc, mode, room, moves, todo, calls, buckets, quiet>>

PolicyInit ==
    /\ left = Size /\ tag = {}
    /\ \E s \in Starts :
           /\ queue = s.queue /\ free = s.free /\ stop = s.stop
           /\ st = [t \in Torrents |-> IF Contains(s.queue[On[t]], t) THEN "running" ELSE "gone"]
    /\ setting = "guard" /\ changes = 0 /\ faults = 0 /\ other = {}
    /\ pc = "idle" /\ mode = "guard" /\ room = 0 /\ moves = <<>> /\ todo = <<>> /\ calls = {}
    /\ resuming = {} /\ pausing = {} /\ quiet = FALSE

-----------------------------------------------------------------------------
(* What the API shows and does. *)

Downloads == {t \in Torrents : st[t] \in {"running", "stopped"}}
Running == {t \in Torrents : st[t] = "running"}
All == ToSet(Clients)
Rank(seq, x) == CHOOSE i \in DOMAIN seq : seq[i] = x
Of(S, c) == {t \in S : On[t] = c}

\* The position in the queue of its own client; what seeds has none and comes last.
Position(t) == IF t \in Downloads THEN Rank(queue[On[t]], t) ELSE Cardinality(Torrents) + 1
Earlier(t, u) ==
    \/ Position(t) < Position(u)
    \/ Position(t) = Position(u) /\ Rank(Clients, On[t]) < Rank(Clients, On[u])
    \/ Position(t) = Position(u) /\ On[t] = On[u] /\ Rank(Wanted, t) < Rank(Wanted, u)

\* What _collect_monitored_torrents makes of the answers of these clients, sorted.
Listed(answering) ==
    LET listed == {t \in Torrents : st[t] # "gone" /\ On[t] \in answering}
        sorted == SetToSortSeq(listed, Earlier)
    IN  [i \in DOMAIN sorted |-> [t |-> sorted[i], state |-> st[sorted[i]],
                                  left |-> left[sorted[i]], tagged |-> sorted[i] \in tag]]

Started(S) == [t \in Torrents |-> IF t \in S /\ st[t] = "stopped" THEN "running" ELSE st[t]]
Halted(S) == [t \in Torrents |-> IF t \in S /\ st[t] = "running" THEN "stopped" ELSE st[t]]
Topped(q, t) == IF Contains(q, t) THEN <<t>> \o Remove(q, t) ELSE q

\* One by one to the top, the lowest first.  (Variant: the highest first.)
Desired(c) == SelectSeq(Wanted, LAMBDA t : t \in Of(Downloads, c))
ToMoveForward(c) == Desired(c)
ToMove(c) == Reverse(Desired(c))

\* Something fails, at most MaxFaults times.
MayFail(failed) == IF failed THEN faults < MaxFaults /\ faults' = faults + 1
                   ELSE faults' = faults

-----------------------------------------------------------------------------
(* The worker.  (Variants, each before its original.)                      *)

\* A pass begins: the settings are read; a client that cannot be reached or the internet
\* that cannot be ends it here.
Begin ==
    /\ pc = "idle" /\ mode' = setting
    /\ \/ pc' = "sort" /\ calls' = All /\ UNCHANGED faults
       \/ MayFail(TRUE) /\ UNCHANGED <<pc, calls>>
    /\ UNCHANGED <<torrents, setting, changes, other, room, moves, todo, buckets, quiet>>

\* The queue of a client: what must move, unless the order is right or the list fails.
SortList ==
    /\ pc = "sort" /\ moves = <<>>
    /\ \E c \in calls :
           /\ calls' = calls \ {c}
           /\ \/ /\ moves' = IF queue[c] = Desired(c) THEN <<>> ELSE ToMove(c)
                 /\ UNCHANGED faults
              \/ MayFail(TRUE) /\ UNCHANGED moves
    /\ UNCHANGED <<torrents, setting, changes, other, pc, mode, room, todo, buckets, quiet>>

MoveTop ==
    /\ pc = "sort" /\ moves # <<>> /\ moves' = Tail(moves)
    /\ \E failed \in BOOLEAN :
           /\ MayFail(failed)
           /\ queue' = IF failed THEN queue
                       ELSE [queue EXCEPT ![On[Head(moves)]] = Topped(@, Head(moves))]
    /\ UNCHANGED <<st, left, tag, free, stop, setting, changes, other, pc, mode, room, todo, calls,
                   buckets, quiet>>

\* The space is read before the list.  Without the guard what is pending is still sent.
ReadSpace ==
    /\ pc = "sort" /\ moves = <<>> /\ calls = {}
    /\ IF mode = "guard" THEN room' = free /\ pc' = "list" /\ UNCHANGED calls
       ELSE pc' = "resume" /\ calls' = All /\ UNCHANGED room
    /\ quiet' = (mode = "guard" /\ buckets = <<{}, {}>>)
    /\ UNCHANGED <<torrents, world, mode, moves, todo, buckets>>

\* Clients that cannot be reached are left out, and so are those whose answer fails as
\* long as another one shows a torrent; if none does the pass ends.
List ==
    /\ pc = "list"
    /\ \E answering \in SUBSET All :
           /\ MayFail(answering # All)
           /\ todo' = Listed(answering)
           /\ \/ pc' = "judge"
              \/ answering # All /\ todo' = <<>> /\ pc' = "idle"
           /\ quiet' = (quiet /\ answering = All)
    /\ UNCHANGED <<torrents, setting, changes, other, mode, room, moves, calls, buckets>>

Paused(r) == r.state = "stopped" /\ stop = "pausedDL"
CountsAsDownload(r) == r.state = "running" \/ Paused(r)

\* Only what fits takes room.  (Variant: nothing does.)
Fits(r) == room - r.left > 0
RoomAfterNothing(r) == room
RoomAfter(r) == IF CountsAsDownload(r) /\ Fits(r) THEN room - r.left ELSE room

\* (Variant: the tag comes with the pass that finds the torrent stopped.)
TaggedLate(r) == Paused(r) /\ ~Fits(r)
Tagged(r) == CountsAsDownload(r) /\ ~Fits(r)
Untagged(r) == IF CountsAsDownload(r) THEN Fits(r) /\ ~Paused(r) ELSE r.tagged

Resumes(r) == Paused(r) /\ Fits(r) /\ r.tagged
Pauses(r) == r.state = "running" /\ ~Fits(r)

\* One torrent: the tag at once, if that call does not fail, the rest into the buckets.
Judge ==
    /\ pc = "judge" /\ todo # <<>> /\ todo' = Tail(todo)
    /\ LET r == Head(todo) IN
       /\ \E failed \in BOOLEAN :
              /\ failed => Tagged(r) \/ Untagged(r)
              /\ MayFail(failed) /\ quiet' = (quiet /\ ~failed)
              /\ tag' = IF failed \/ st[r.t] = "gone" THEN tag
                        ELSE IF Tagged(r) THEN tag \union {r.t}
                        ELSE IF Untagged(r) THEN tag \ {r.t} ELSE tag
       /\ room' = RoomAfter(r)
       /\ resuming' = IF Resumes(r) THEN resuming \union {r.t} ELSE resuming
       /\ pausing' = IF Pauses(r) THEN pausing \union {r.t} ELSE pausing
    /\ UNCHANGED <<st, left, queue, free, stop, setting, changes, other, pc, mode, moves, calls>>

Judged ==
    /\ pc = "judge" /\ todo = <<>> /\ pc' = "resume" /\ calls' = All
    /\ UNCHANGED <<torrents, world, mode, room, moves, todo, buckets, quiet>>

\* resume_hashes_by_instance, and the tags of what was resumed after each client's call.
\* A call fails with or without effect, and is then made again in the next pass.
Resume ==
    /\ pc = "resume" /\ mode # "noauto"
    /\ \E c \in {c \in calls : Of(resuming, c) # {}} : \E replied, done, cleared \in BOOLEAN :
           /\ (replied => done) /\ (cleared => replied)
           /\ MayFail(~cleared) /\ quiet' = (quiet /\ cleared)
           /\ st' = IF done THEN Started(Of(resuming, c)) ELSE st
           /\ resuming' = IF replied THEN resuming \ Of(resuming, c) ELSE resuming
           /\ tag' = IF cleared THEN tag \ Of(resuming, c) ELSE tag
           /\ calls' = calls \ {c}
    /\ UNCHANGED <<left, queue, free, stop, setting, changes, other, pc, mode, room, moves, todo,
                   pausing>>

Resumed ==
    /\ pc = "resume" /\ (mode = "noauto" \/ \A c \in calls : Of(resuming, c) = {})
    /\ pc' = "pause" /\ calls' = All
    /\ UNCHANGED <<torrents, world, mode, room, moves, todo, buckets, quiet>>

Pause ==
    /\ pc = "pause" /\ mode # "noauto"
    /\ \E c \in {c \in calls : Of(pausing, c) # {}} : \E replied, done \in BOOLEAN :
           /\ replied => done
           /\ MayFail(~replied) /\ quiet' = (quiet /\ replied)
           /\ st' = IF done THEN Halted(Of(pausing, c)) ELSE st
           /\ pausing' = IF replied THEN pausing \ Of(pausing, c) ELSE pausing
           /\ calls' = calls \ {c}
    /\ UNCHANGED <<left, tag, queue, free, stop, setting, changes, other, pc, mode, room, moves, todo,
                   resuming>>

Finish ==
    /\ pc = "pause" /\ (mode = "noauto" \/ \A c \in calls : Of(pausing, c) = {})
    /\ pc' = "idle" /\ calls' = {}
    /\ UNCHANGED <<torrents, world, mode, room, moves, todo, buckets, quiet>>

\* The process dies and its successor begins anew.
Crash ==
    /\ pc # "idle" \/ buckets # <<{}, {}>>
    /\ MayFail(TRUE)
    /\ pc' = "idle" /\ moves' = <<>> /\ todo' = <<>> /\ calls' = {}
    /\ resuming' = {} /\ pausing' = {} /\ quiet' = FALSE
    /\ UNCHANGED <<torrents, setting, changes, other, mode, room>>

Worker == \/ Begin \/ SortList \/ MoveTop \/ ReadSpace \/ List \/ Judge \/ Judged
          \/ Resume \/ Resumed \/ Pause \/ Finish

-----------------------------------------------------------------------------
(* Everybody else. *)

Idle == UNCHANGED <<pc, mode, room, moves, todo, calls, buckets>> /\ quiet' = FALSE

\* A download writes a unit; the last one makes it a seed, which has no place in the queue.
Write ==
    /\ \E t \in Running :
           /\ left' = [left EXCEPT ![t] = @ - 1] /\ free' = free - 1
           /\ IF left[t] > 1 THEN UNCHANGED <<st, queue>>
              ELSE /\ st' = [st EXCEPT ![t] = "done"]
                   /\ queue' = [queue EXCEPT ![On[t]] = Remove(@, t)]
    /\ UNCHANGED <<tag, stop, world>> /\ Idle

\* The rule of an Arr's loop that resumes what is stopped without the tag, and what the
\* loop does with it later.
ArrList ==
    /\ other = {} /\ \E t \in Torrents : st[t] = "stopped" /\ t \notin tag
    /\ other' = {t \in Torrents : st[t] = "stopped"} \ tag
    /\ UNCHANGED <<torrents, setting, changes, faults>> /\ Idle
ArrResume ==
    /\ other # {} /\ other' = {} /\ st' = Started(other)
    /\ UNCHANGED <<left, tag, queue, free, stop, setting, changes, faults>> /\ Idle

\* The user, or an import that is done with a torrent.
Change ==
    /\ changes < MaxChanges /\ changes' = changes + 1
    /\ \/ \E t \in Running : st' = Halted({t}) /\ UNCHANGED <<left, tag, queue, free, setting>>
       \/ \E t \in Downloads \ Running :
              st' = Started({t}) /\ UNCHANGED <<left, tag, queue, free, setting>>
       \/ \E t \in Torrents :
              /\ st[t] # "gone" /\ st' = [st EXCEPT ![t] = "gone"]
              /\ free' = free + Size[t] - left[t] /\ tag' = tag \ {t}
              /\ queue' = [queue EXCEPT ![On[t]] = Remove(@, t)]
              /\ UNCHANGED <<left, setting>>
       \/ \E t \in Downloads :
              queue' = [queue EXCEPT ![On[t]] = Topped(@, t)]
              /\ queue' # queue /\ UNCHANGED <<st, left, tag, free, setting>>
       \/ \E n \in {-1, 1} : free' = free + n /\ UNCHANGED <<st, left, tag, queue, setting>>
       \/ \E s \in {"guard", "noguard", "noauto"} \ {setting} :
              setting' = s /\ UNCHANGED torrents
    /\ UNCHANGED <<stop, faults, other>> /\ Idle

PolicyNext == Worker \/ Crash \/ Write \/ ArrList \/ ArrResume \/ Change
PolicySpec == PolicyInit /\ [][PolicyNext]_policy

\* The supervisor keeps the worker and the Arrs' loops running; no download need go on.
PolicyFair == PolicySpec /\ WF_policy(Worker) /\ WF_policy(ArrList) /\ WF_policy(ArrResume)

-----------------------------------------------------------------------------
(* Properties. *)

\* The promise of the documentation: in the order of the queue, who still fits into what
\* is free goes on, and who does not leaves the room to the next.
Fitting ==
    LET Next1(acc, t) == IF acc.room - left[t] > 0
                         THEN [room |-> acc.room - left[t], in |-> acc.in \union {t}] ELSE acc
    IN  FoldLeft(Next1, [room |-> free, in |-> {}], SetToSortSeq(Downloads, Earlier)).in

\* If nobody else acts while the worker reads, judges and calls, then at the end of its
\* pass what goes on fits on the disk.
BudgetKept ==
    pc = "idle" /\ quiet =>
        Running = {} \/ FoldLeft(LAMBDA sum, t : sum + left[t], 0, SetToSeq(Running)) < free

\* Whatever happened: once nothing changes any more and the guard is on, it comes to rest
\* with exactly those going on that fit, and exactly the others stopped and tagged, although
\* the Arrs' loops resume on their own, calls fail and the worker may have died half way.
\* With the state of qBittorrent 5 it does so only if all fit: the worker takes "stoppedDL"
\* for no download (torrent_policy.py:226-236) and removes the tag in the next pass, so
\* that what does not fit is resumed without space and stopped again for ever.
SpaceSettles ==
    <>[](setting = "guard") =>
        \/ <>[](Running = Fitting /\ tag = Downloads \ Running)
        \/ stop = "stoppedDL" /\ []<>(Fitting # Downloads)

\* The queues come to the order of the trackers, and stay there.
QueueSettles == <>[](\A c \in All : queue[c] = Desired(c))
=============================================================================
