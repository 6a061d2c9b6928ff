---------------------------- MODULE SearchEntry ----------------------------
(***************************************************************************)
(* The life of one entry of an Arr's library: time passes, files come and  *)
(* go, and the search loop ingests the entry, searches for it, gives its   *)
(* temporary profile back after a while and starts all over again, each    *)
(* according to SearchRules.                                               *)
(***************************************************************************)
EXTENDS SearchRules

CONSTANTS Entries,     \* settings, and an entry as the Arr shows it first
          Files,       \* the numbers of files: a new one has not been there before
          Scores       \* the custom format scores a file may have

ASSUME EntryAssumption ==
    /\ 0 \notin Files /\ Files \subseteq Nat /\ Scores \subseteq Nat
    /\ \A s \in Entries : /\ {"kind", "profile"} \subseteq DOMAIN s.it
                          /\ s.it.kind \in Works \union Groups
                          /\ DOMAIN s.set.mapping \subseteq Nat
                          /\ \A i, j \in DOMAIN s.set.mapping :
                                s.set.mapping[i][1] = s.set.mapping[j][1] => i = j

VARIABLES settings,    \* the settings,
          it,          \* the entry,
          row,         \* its row,
          home,        \* for the properties: its profile before qBitrr came,
          fresh        \*   and whether it was just ingested

entry == <<settings, it, row, home, fresh>>

EntryInit ==
    /\ \E s \in Entries : settings = s.set /\ it = s.it
    /\ row = NoRow
    /\ home = it.profile
    /\ fresh = FALSE

\* The switch of the profile may fail, or be made although the reply is lost; then it is
\* not noted.  Sonarr has profiles for series only: an episode's is not switched, though
\* noted.
EntryIngest ==
    /\ Eligible(settings, it) \/ DueToday(settings, it)
    /\ \E reply \in {"ok", "failed", "lost"} :
          LET new == RowOf(settings, it, row)
              to  == ProfileAfter(settings, it, new)
          IN  /\ row' = IF reply = "ok" THEN Noted(it, row, new, to) ELSE new
              /\ it' = IF reply = "failed" \/ it.kind = "episode" THEN it
                       ELSE [it EXCEPT !.profile = to]
              /\ fresh' = (reply # "failed")
    /\ UNCHANGED <<settings, home>>

\* A row that is picked is marked, once the Arr was told to search.
EntrySearch ==
    /\ \/ WorkWanted(settings, it, row, it.in)
       \/ row # NoRow /\ (TodayWanted(settings, it, row, it.in) \/ RequestWanted(it, row))
    /\ row' = [row EXCEPT !.searched = TRUE, !.upgrade = TRUE]
    /\ fresh' = FALSE
    /\ UNCHANGED <<settings, it, home>>

\* After the timeout the profile goes back, unless the one noted is no temporary one.
CheckTimeout ==
    /\ settings.temp /\ Expired(row)
    /\ it' = IF row.current \in Temps(settings) THEN [it EXCEPT !.profile = row.original] ELSE it
    /\ row' = Untracked(row)
    /\ fresh' = FALSE
    /\ UNCHANGED <<settings, home>>

\* At the end of a loop every searched row is searched for again.
EntryReset ==
    /\ row # NoRow /\ row.searched
    /\ row' = [row EXCEPT !.searched = FALSE, !.upgrade = FALSE]
    /\ fresh' = FALSE
    /\ UNCHANGED <<settings, it, home>>

\* When the process starts, temporary profiles may be given back at once.
ForceReset ==
    /\ settings.temp /\ settings.force /\ Switchable(it) /\ it.kind # "episode"
    /\ it.profile \in Temps(settings)
    /\ it' = [it EXCEPT !.profile = MainOf(settings, @)]
    /\ fresh' = FALSE
    /\ UNCHANGED <<settings, row, home>>

-----------------------------------------------------------------------------

Outside == fresh' = FALSE /\ UNCHANGED <<settings, home>>

\* The Arr gets a file, a better one, or loses it; of a group, so many are there.
Arrive ==
    /\ it.kind \in Works
    /\ \E f \in Files \union {0}, poor \in BOOLEAN, score \in Scores :
          /\ f # it.file /\ (row # NoRow /\ f # 0 => f # row.file)
          /\ it' = [it EXCEPT !.file = f, !.poor = poor, !.score = score]
    /\ Outside /\ UNCHANGED row

Fill ==
    /\ it.kind \in Groups
    /\ it' = IF it.kind = "series"
             THEN [it EXCEPT !.files = IF @ < it.total THEN @ + 1 ELSE 0]
             ELSE [it EXCEPT !.size = 1 - @]
    /\ Outside /\ UNCHANGED row

\* The profile of an episode is switched with that of its series.
Inherit ==
    /\ it.kind = "episode" /\ settings.temp
    /\ \E to \in Below(settings, home) \ {it.profile} : it' = [it EXCEPT !.profile = to]
    /\ Outside /\ UNCHANGED row

\* Time passes.
After(time) ==
    CASE time = "later" -> "hour" [] time = "hour" -> "day" [] time = "day" -> "old"
      [] OTHER -> time
YearEnds(year) == CASE year = "later" -> "now" [] year = "now" -> "old" [] OTHER -> year

Age ==
    /\ it' = IF it.kind = "movie"
             THEN [it EXCEPT !.year = YearEnds(@), !.cinema = After(@),
                             !.digital = After(@), !.physical = After(@)]
             ELSE IF it.kind \in Works THEN [it EXCEPT !.aired = After(@)] ELSE it
    /\ row' = IF row # NoRow /\ row.since = "now" THEN [row EXCEPT !.since = "old"] ELSE row
    /\ Outside

EntryNext == \/ EntryIngest \/ EntrySearch \/ CheckTimeout \/ EntryReset \/ ForceReset
             \/ Arrive \/ Fill \/ Inherit \/ Age

EntrySpec == EntryInit /\ [][EntryNext]_entry

-----------------------------------------------------------------------------
(* Properties. *)

\* The reason a row gives and the condition rows are picked by are computed in two places
\* and five modes: what was just ingested is picked exactly when it says why.
ReasonTold ==
    fresh /\ row # NoRow /\ it.kind \in Works =>
        (Wanted(settings, row) <=> row.reason # "Not being searched")

\* With temporary profiles an entry is on its own profile or on one that stands in for it,
\* and it is back on its own once it was found complete, unless the temporary one is to be
\* kept.  In a chain of mappings (docs/features/automated-search.md:810-815) it is led down
\* to the end, and back one step with each ingest: found complete, it may be in between.
\* Two kinds of entries are led elsewhere: those whose own profile stands in for another
\* one, taken for switched, go to that; and of two main profiles that share a temporary one
\* only one is gone back to.
HomeAgain ==
    home \notin Temps(settings) /\ ~Shared(settings) =>
        /\ it.profile \in Below(settings, home)
        /\ fresh /\ row # NoRow /\ row.searched /\ settings.temp /\ ~settings.keep
           /\ it.kind \in {"movie"} \union Groups =>
              it.profile = home \/ it.profile \in Mains(settings) \cap Temps(settings)

=============================================================================
