----------------------------- MODULE SearchLoop -----------------------------
(***************************************************************************)
(* run_search_loop of one Arr: pass after pass it gives last loop's        *)
(* entries back, refreshes what it knows of the Arr's download queue,      *)
(* ingests the library into the search database, restores timed out        *)
(* profiles, serves the requests, moves on to the next year and tells the  *)
(* Arr to search for what SearchRules picks, as long as the Arr has room   *)
(* for commands.                                                           *)
(*                                                                         *)
(* Meanwhile the Arr works off its commands, grabs, imports and drops      *)
(* entries, the torrent loop of the same Arr has failed downloads searched *)
(* for again, calls fail or succeed without a reply, and the process is    *)
(* killed and started again: the rows are on disk, the rest is in memory.  *)
(***************************************************************************)
EXTENDS SearchRules, SequencesExt

CONSTANTS Items, Id, GroupOf,      \* entries, their numbers, and the series of an episode
          Requested,               \* what is requested in Overseerr or Ombi
          Starts,                  \* settings and libraries to start with
          MaxCommands, MaxFaults, MaxChanges, MaxCrashes

ASSUME LoopAssumption ==
    /\ Id \in [Items -> Nat] /\ GroupOf \in [Items -> Items]
    /\ Requested \subseteq Items
    /\ {MaxCommands, MaxFaults, MaxChanges, MaxCrashes} \subseteq Nat
    /\ \A start \in Starts :
          /\ DOMAIN start.lib = Items
          /\ \A i \in Items :
                /\ {"kind", "profile"} \subseteq DOMAIN start.lib[i]
                /\ start.lib[i].kind \in Works \union Groups
                /\ start.set.series # "no" => start.lib[GroupOf[i]].kind \in Groups

VARIABLES set,          \* the settings;
          lib, here,    \* the Arr: its entries, those that are still there,
          queue,        \*   its download queue
          commands,     \*   and its active search commands;
          rows,         \* the search database;
          mem,          \* the process: what it keeps from pass to pass,
          pc, todo,     \*   where it is, and what is left to search for;
          faults, changes, crashes,
          why,          \* for the properties: why a row counts as searched,
          seen,         \*   what was in the queue the process last saw,
          overdue       \*   and what should have been given its profile back

arr == <<lib, here, queue, commands>>
bounds == <<faults, changes, crashes>>
vars == <<set, arr, rows, mem, pc, todo, bounds, why, seen, overdue>>

Fresh == [ids |-> {}, completed |-> FALSE, processed |-> FALSE, waited |-> FALSE,
          due |-> TRUE, years |-> <<>>, index |-> 1, year |-> 0]

Init ==
    /\ \E s \in Starts : set = s.set /\ lib = s.lib
    /\ here = Items /\ queue = {} /\ commands = 0
    /\ rows = [i \in Items |-> NoRow]
    /\ mem = Fresh /\ pc = "top" /\ todo = {}
    /\ faults = 0 /\ changes = 0 /\ crashes = 0
    /\ why = [i \in Items |-> "none"] /\ seen = {} /\ overdue = {}

Kind(i) == lib[i].kind
Group(i) == Kind(i) \in Groups
Held(i) == rows[i] # NoRow

\* A call fails, or all of them in a pass of an action with n failures.
Faulty(n) == faults + n <= MaxFaults /\ faults' = faults + n
Fine == UNCHANGED faults

-----------------------------------------------------------------------------
(* Years, the reset of a loop, and the queue. *)

Years ==
    LET Before(a, b) == IF set.reverse THEN a > b ELSE a < b
    IN  SetToSortSeq({lib[i].in : i \in {j \in here : Dated(set, lib[j])}}, Before)

Top ==
    /\ pc = "top"
    /\ LET m == IF mem.completed THEN [mem EXCEPT !.index = 1] ELSE mem
       IN  IF set.byYear /\ m.index = 1
           THEN \/ /\ mem' = [m EXCEPT !.years = Years,
                                       !.year = IF Years = <<>> THEN 0 ELSE Years[1]]
                   /\ pc' = "reset" /\ Fine
                \/ mem' = m /\ UNCHANGED pc /\ Faulty(1)
           ELSE mem' = m /\ pc' = "reset" /\ Fine
    /\ UNCHANGED <<set, arr, rows, todo, changes, crashes, why, seen>>

\* What the reset is about: of Sonarr the series when it searches by series, and then only
\* they, because their reset is taken for the episodes' as well.
Resettable(i) == IF set.series = "no" THEN ~Group(i) ELSE Group(i)

Cleared == [i \in Items |->
    IF Held(i) /\ Resettable(i) /\ rows[i].searched
    THEN [rows[i] EXCEPT !.searched = FALSE, !.upgrade = FALSE] ELSE rows[i]]
Pruned(some) == [i \in Items |->
    IF Resettable(i) /\ i \notin here /\ some # {} THEN NoRow ELSE Cleared[i]]

Reset ==
    /\ pc = "reset"
    /\ IF mem.completed /\ set.again
       THEN /\ \/ /\ rows' = Pruned({i \in here : Resettable(i)})
                  /\ mem' = [mem EXCEPT !.completed = FALSE]
                  /\ pc' = "refresh" /\ Fine
               \/ rows' = Cleared /\ UNCHANGED mem /\ pc' = "top" /\ Faulty(1)
            /\ why' = [i \in Items |-> IF Cleared[i] # rows[i] THEN "none" ELSE why[i]]
       ELSE /\ mem' = [mem EXCEPT !.completed = FALSE]
            /\ pc' = "refresh" /\ Fine
            /\ UNCHANGED <<rows, why>>
    /\ UNCHANGED <<set, arr, todo, changes, crashes, seen>>

\* An empty queue leaves what is known of the last one.
Refreshed(m) ==
    IF queue = {} THEN m
    ELSE [m EXCEPT !.ids = {Id[IF set.series = "no" THEN i ELSE GroupOf[i]] : i \in queue}]
SeenNow == IF queue = {} THEN seen ELSE queue

Refresh ==
    /\ pc = "refresh"
    /\ \/ mem' = Refreshed(mem) /\ seen' = SeenNow /\ pc' = "ingest" /\ Fine
       \/ UNCHANGED <<mem, seen>> /\ pc' = "top" /\ Faulty(1)
    /\ UNCHANGED <<set, arr, rows, todo, changes, crashes, why>>

-----------------------------------------------------------------------------
(* Ingest.  The profile of an episode is that of its series. *)

Owner(i) == IF Kind(i) = "episode" THEN GroupOf[i] ELSE i

WithProfiles(profile) ==
    [i \in Items |-> [lib[i] EXCEPT !.profile = profile[Owner(i)]]]

\* A request is noted on the row, be it there already or not.
\* (Variant: on a new row only.)
FlaggedNew(row, old, request) ==
    IF row = NoRow THEN NoRow ELSE [row EXCEPT !.request = @ \/ (request /\ old = NoRow)]
Flagged(row, old, request) ==
    IF row = NoRow \/ ~request THEN row ELSE [row EXCEPT !.request = TRUE]

\* The entries of D get their rows.  For those of bad the call that switches the profile
\* gets no reply, and for those of lost the profile is switched nevertheless.
Ingested(D, bad, lost, request) ==
    LET New(i) == RowOf(set, lib[i], rows[i])
        To(i) == ProfileAfter(set, lib[i], New(i))
        Row(i) == IF i \in bad THEN New(i) ELSE Noted(lib[i], rows[i], New(i), To(i))
        Switches(i) == i \in (D \ bad) \union lost /\ Kind(i) # "episode"
    IN  /\ rows' = [i \in Items |->
                      IF i \in D THEN Flagged(Row(i), rows[i], request) ELSE rows[i]]
        /\ lib' = WithProfiles([i \in Items |->
                      IF Switches(i) THEN To(i) ELSE lib[i].profile])
        /\ why' = [i \in Items |->
                      IF i \notin D THEN why[i]
                      ELSE IF New(i) # NoRow /\ New(i).searched THEN "complete" ELSE "none"]

Ingesting(D, more, request) ==
    \E bad \in SUBSET D : \E lost \in SUBSET bad :
        /\ Faulty(more + Cardinality(bad))
        /\ Ingested(D, bad, lost, request)

DueNow == {i \in here : DueToday(set, lib[i])}
AllDue == DueNow \union {i \in here : Eligible(set, lib[i])}

\* Errors with today's releases are passed over.  Once all of the library was ingested it
\* is not again before the next loop; entries the Arr could not tell about are missing
\* then.  The loop's timer starts anew afterwards.
Ingest ==
    /\ pc = "ingest"
    /\ \/ \E D \in SUBSET DueNow :
             /\ mem.processed
             /\ Ingesting(D, IF D = DueNow THEN 0 ELSE 1, FALSE)
             /\ mem' = [mem EXCEPT !.waited = FALSE] /\ pc' = "timeouts"
       \/ \E D \in SUBSET AllDue :
             /\ ~mem.processed
             /\ Ingesting(D, IF D = AllDue THEN 0 ELSE 1, FALSE)
             /\ mem' = [mem EXCEPT !.waited = FALSE, !.processed = TRUE] /\ pc' = "timeouts"
       \/ \E D \in SUBSET AllDue :
             /\ ~mem.processed
             /\ Ingesting(D, 1, FALSE)
             /\ UNCHANGED mem /\ pc' = "top"
    /\ UNCHANGED <<set, here, queue, commands, todo, changes, crashes, seen>>

\* (Variant: the tracking goes before the call.)
SettledFirst(due, failed) == due
Settled(due, failed) == due \ failed

\* The tracking goes when the profile is back, and when the profile noted is no temporary
\* one any more.
CheckTimeouts ==
    /\ pc = "timeouts"
    /\ LET due == IF set.temp /\ set.timeout THEN {i \in Items : Expired(rows[i])} ELSE {}
           restore == {i \in due : rows[i].current \in Temps(set)}
       IN  \E bad \in SUBSET (restore \intersect here) : \E lost \in SUBSET bad :
             LET put == (restore \intersect here) \ (bad \ lost)
                 failed == bad \union (restore \ here)
                 Back(o) == {i \in put : Owner(i) = o}
             IN  /\ Faulty(Cardinality(bad))
                 /\ lib' = WithProfiles([o \in Items |->
                        IF Back(o) = {} THEN lib[o].profile
                        ELSE rows[CHOOSE i \in Back(o) : TRUE].original])
                 /\ rows' = [i \in Items |->
                        IF i \in Settled(due, failed) THEN Untracked(rows[i]) ELSE rows[i]]
                 /\ mem' = [mem EXCEPT !.waited = due # {}]
    /\ pc' = "asked"
    /\ UNCHANGED <<set, here, queue, commands, todo, changes, crashes, why, seen>>

-----------------------------------------------------------------------------
(* What to search for: an entry, whether it passes by the limit, whether a *)
(* whole series is meant, and its place in the order.                      *)

Pick(i, bypass, group, rank) == [item |-> i, bypass |-> bypass, group |-> group, rank |-> rank]

\* What is requested and in the library.
Asked == {i \in Requested \intersect here : Requestable(set, lib[i])}

\* It is ingested, and all that was ever asked for is searched for.
ServeRequests ==
    /\ pc = "asked"
    /\ IF set.requests /\ set.missing /\ mem.due
       THEN \/ \E D \in SUBSET Asked :
                  /\ Ingesting(D, IF D = Asked THEN 0 ELSE 1, TRUE)
                  /\ todo' = {Pick(i, TRUE, FALSE, 1) :
                                 i \in {j \in Items : RequestWanted(lib[j], rows'[j])}}
                  /\ pc' = "asking"
            \/ \E D \in SUBSET Asked :
                  /\ Ingesting(D, 1, TRUE)
                  /\ pc' = "turn" /\ UNCHANGED todo
       ELSE pc' = "turn" /\ Fine /\ UNCHANGED <<todo, rows, lib, why>>
    /\ UNCHANGED <<set, here, queue, commands, mem, changes, crashes, seen>>

Singles(year) ==
    {Pick(i, FALSE, FALSE, Rank(rows[i].reason)) :
        i \in {j \in Items : ~Group(j) /\ Held(j) /\ WorkWanted(set, lib[j], rows[j], year)}}
Todays(year, rank) ==
    {Pick(i, TRUE, FALSE, rank) :
        i \in {j \in Items : ~Group(j) /\ Held(j) /\ TodayWanted(set, lib[j], rows[j], year)}}

\* Of the episodes of a series one is picked.
OnePerSeries(picks) ==
    {P \in SUBSET picks :
        \A p \in picks : Cardinality({q \in P : Owner(q.item) = Owner(p.item)}) = 1}

\* A series is as urgent as its most urgent episode.
SeriesRank(s) ==
    Min({5} \union {Rank(rows[i].reason) : i \in {j \in Items \ {s} : Held(j) /\ GroupOf[j] = s}})
Series == {Pick(s, FALSE, TRUE, SeriesRank(s)) :
              s \in {j \in Items : Group(j) /\ Held(j) /\ GroupWanted(set, rows[j])}}

\* Several episodes of a series become a search for the series.
Merged(picks) ==
    LET Of(s) == {p \in picks : GroupOf[p.item] = s}
        First(s) == CHOOSE p \in Of(s) : \A q \in Of(s) : p.rank <= q.rank
    IN  {p \in picks : Cardinality(Of(GroupOf[p.item])) = 1}
        \union {Pick(s, First(s).bypass, TRUE, First(s).rank) :
                   s \in {t \in Items : Held(t) /\ Cardinality(Of(t)) > 1}}

Lists(year) ==
    IF ~set.missing /\ ~set.upgrade THEN {{}}
    ELSE CASE set.series = "yes"   -> {Series \union Todays(year, 0)}
           [] set.series = "smart" -> {Merged(P \union Todays(year, 6)) : P \in OnePerSeries(Singles(year))}
           [] OTHER -> {P \union Todays(year, 6) : P \in OnePerSeries(Singles(year))}

-----------------------------------------------------------------------------
(* The next year, or the next loop.  The years are looked at once a loop,  *)
(* in the pass whose year is the first; in that pass the second is taken.  *)

Restart ==
    \/ /\ mem' = [Refreshed(mem) EXCEPT !.completed = TRUE, !.processed = FALSE]
       /\ seen' = SeenNow
       /\ Faulty(1)
    \/ UNCHANGED <<mem, seen>> /\ Faulty(2)

NextYear(m) ==
    IF set.byYear /\ m.index < Len(m.years)
    THEN [m EXCEPT !.index = @ + 1, !.year = m.years[m.index + 1]]
    ELSE m

Turn ==
    /\ pc = "turn"
    /\ \/ /\ mem' = NextYear(mem)
          /\ todo' \in Lists(mem'.year)
          /\ pc' = "search" /\ Fine /\ UNCHANGED seen
       \/ /\ mem.waited                     \* a quarter of an hour has passed
          /\ NextYear(mem) = mem
          /\ Restart
          /\ pc' = "top" /\ UNCHANGED todo
    /\ UNCHANGED <<set, arr, rows, changes, crashes, why>>

-----------------------------------------------------------------------------
(* Searching. *)

\* (Variant: one command less.)
WaitingBelow(p) == commands + 1 >= set.limit /\ ~p.bypass
Waiting(p) == commands >= set.limit /\ ~p.bypass

\* (Variant: all the episodes of the series are marked.)
MarkedSeries(p) == [i \in Items |->
    IF Held(i) /\ ~Group(i) /\ GroupOf[i] = GroupOf[p.item]
    THEN [rows[i] EXCEPT !.searched = TRUE, !.upgrade = TRUE] ELSE rows[i]]
\* The rows of works with that number, be it the number of a series.
Marked(p) == [i \in Items |->
    IF Held(i) /\ ~Group(i) /\ Id[i] = Id[p.item]
    THEN [rows[i] EXCEPT !.searched = TRUE, !.upgrade = TRUE] ELSE rows[i]]
Because(p, reason) == [i \in Items |->
    IF i = p.item \/ (p.group /\ GroupOf[i] = p.item) THEN reason ELSE why[i]]

Foremost(p) == p \in todo /\ \A q \in todo : p.rank <= q.rank

\* What is in the queue, as the process knows it, is marked without a search.
Skip(p) ==
    /\ ~p.group /\ Id[p.item] \in Refreshed(mem).ids
    /\ rows' = Marked(p)
    /\ why' = IF p.item \in SeenNow THEN Because(p, "queued") ELSE why
    /\ todo' = todo \ {p}
    /\ Fine /\ UNCHANGED <<commands, pc>>

\* A command goes to the Arr.
Command == commands < MaxCommands /\ commands' = commands + 1

Sendable(p) == ~Waiting(p) /\ (p.group \/ Id[p.item] \notin Refreshed(mem).ids)

Send(p) ==
    /\ Sendable(p)
    /\ Command
    /\ rows' = Marked(p)
    /\ why' = Because(p, "sent")
    /\ todo' = todo \ {p}
    /\ Fine /\ UNCHANGED pc

Search ==
    /\ pc \in {"asking", "search"}
    /\ \E p \in todo : Foremost(p) /\ (Skip(p) \/ Send(p))
    /\ mem' = [Refreshed(mem) EXCEPT !.waited = TRUE]
    /\ seen' = SeenNow
    /\ UNCHANGED <<set, lib, here, queue, changes, crashes>>

\* The queue cannot be had, the command not be sent, or its reply is lost: the rest of the
\* list is left.  An answer that cannot be read starts the loop over.
SearchFails ==
    /\ pc \in {"asking", "search"} /\ todo # {}
    /\ Faulty(1)
    /\ \/ UNCHANGED commands
       \/ Command /\ \E p \in todo : Foremost(p) /\ Sendable(p)
    /\ \E garbled \in BOOLEAN :
          mem' = [mem EXCEPT !.completed = @ \/ (garbled /\ pc = "search")]
    /\ pc' = IF pc = "asking" THEN "turn" ELSE "top"
    /\ todo' = {}
    /\ UNCHANGED <<set, lib, here, queue, rows, changes, crashes, why, seen>>

SearchDone ==
    /\ pc \in {"asking", "search"} /\ todo = {}
    /\ mem' = [mem EXCEPT !.due = @ /\ pc # "asking"]
    /\ pc' = IF pc = "asking" THEN "turn" ELSE "top"
    /\ UNCHANGED <<set, arr, rows, todo, bounds, why, seen>>

-----------------------------------------------------------------------------
(* Around the loop. *)

Process == <<rows, pc, todo, crashes, faults, why, seen>>

Finish ==
    /\ commands > 0 /\ commands' = commands - 1
    /\ UNCHANGED <<set, lib, here, queue, mem, changes, Process>>

Change == changes < MaxChanges /\ changes' = changes + 1

Grab(i) ==
    /\ Change /\ i \in here \ queue /\ ~Group(i) /\ lib[i].file = 0
    /\ queue' = queue \union {i}
    /\ UNCHANGED <<set, lib, here, commands, mem, Process>>

Import(i) ==
    /\ i \in queue
    /\ queue' = queue \ {i}
    /\ lib' = [lib EXCEPT ![i].file = 1]
    /\ UNCHANGED <<set, here, commands, mem, changes, Process>>

\* The torrent loop gives up a download and has the Arr search again.
ReSearch(i) ==
    /\ Change /\ i \in queue
    /\ queue' = queue \ {i}
    /\ Command
    /\ UNCHANGED <<set, lib, here, mem, Process>>

Drop(i) ==
    /\ Change /\ i \in here \ queue /\ ~Group(i)
    /\ here' = here \ {i}
    /\ UNCHANGED <<set, lib, queue, commands, mem, Process>>

\* Requests are due again.
Period ==
    /\ ~mem.due /\ mem' = [mem EXCEPT !.due = TRUE]
    /\ UNCHANGED <<set, arr, changes, Process>>

Crash ==
    /\ crashes < MaxCrashes /\ crashes' = crashes + 1
    /\ mem' = Fresh /\ pc' = "top" /\ todo' = {} /\ seen' = {}
    /\ UNCHANGED <<set, arr, rows, changes, faults, why>>

\* The timeout of the switched profiles passes.
Aged == [i \in Items |->
    IF Held(i) /\ rows[i].since = "now" THEN [rows[i] EXCEPT !.since = "old"] ELSE rows[i]]
Expire ==
    /\ set.timeout /\ Aged # rows
    /\ rows' = Aged
    /\ UNCHANGED <<set, arr, mem, pc, todo, bounds, why, seen>>

Watch == overdue' =
    {i \in here' : /\ rows'[i] # NoRow /\ lib'[i].profile \in Temps(set)
                   /\ i \in overdue \/ Expired(rows'[i])}

Loop == /\ Top \/ Reset \/ Refresh \/ Ingest \/ CheckTimeouts \/ ServeRequests
           \/ Turn \/ Search \/ SearchFails \/ SearchDone
        /\ Watch

Around == /\ \/ Finish \/ Period \/ Crash \/ Expire
             \/ \E i \in Items : Grab(i) \/ Import(i) \/ ReSearch(i) \/ Drop(i)
          /\ Watch

Next == Loop \/ Around

\* The supervisor keeps the process running; the Arr gets on with its commands, and time
\* passes.
Fairness == WF_vars(Loop) /\ WF_vars(Finish /\ Watch) /\ WF_vars(Period /\ Watch)

Spec == Init /\ [][Next]_vars
FairSpec == Spec /\ Fairness

-----------------------------------------------------------------------------
(* Properties. *)

\* A row counts as searched only for a reason: the Arr was told to search for the entry or
\* its series, the entry was in the Arr's queue, or it is complete.
HonestlySearched == \A i \in Items :
    ~Group(i) /\ Held(i) /\ rows[i].searched => why[i] # "none"

Waits(i) == /\ ~Group(i) /\ Held(i) /\ why[i] = "none"
            /\ i \in here \ queue /\ lib[i].file = 0
            /\ WorkWanted(set, lib[i], rows[i], lib[i].in)
            /\ Kind(i) = "episode" => Held(GroupOf[i])

\* With SearchByYear the loop does not come back to a year it has left, nor to one it has
\* not read, before it starts over.
Behind(i) ==
    /\ set.byYear /\ mem.years # <<>>
    /\ lib[i].in \notin {mem.years[y] : y \in mem.index .. Len(mem.years)}

\* Nothing the database lists as missing is left out for ever, whatever else there is to
\* search for, how slow the Arr is, and which calls failed before; but for the years behind
\* the loop.  Against docs/features/automated-search.md:317-322 that is the first of several
\* from the start, which is left before anything is searched, and every other but the last
\* once its list was worked off or given up.
NothingForgotten == \A i \in Items : []<>(~Waits(i) \/ Behind(i))

\* Nor is a request, in whichever year the loop is.
RequestsServed == \A i \in Requested :
    []<>~(set.requests /\ i \in here \ queue /\ Requestable(set, lib[i])
          /\ (lib[i].kind = "episode" => lib[i].aired = "old") /\ why[i] = "none")

\* A temporary profile that has timed out is given back, also when a call failed first.
TimeoutRestores == \A i \in Items : []<>(i \notin overdue)
=============================================================================
