---------------------------- MODULE SearchRules ----------------------------
(***************************************************************************)
(* What the search of one Arr decides about one entry of its library, as   *)
(* functions of the settings, of what the Arr says of the entry and of its *)
(* row in the search database: whether it is available, what row it gets,  *)
(* whether its quality profile is switched, and whether the row is picked  *)
(* for a search.                                                           *)
(*                                                                         *)
(* Entries are movies, episodes, albums and books, and the series, artists *)
(* and authors they belong to.  A point in time is told apart as far as    *)
(* the code does: unknown, to come, within the last hour, within the last  *)
(* day, before.                                                            *)
(***************************************************************************)
EXTENDS Integers, Sequences, FiniteSetsExt

Times == {"none", "later", "hour", "day", "old"}
Works == {"movie", "episode", "album", "book"}
Groups == {"series", "artist", "author"}

Out(time) == time \notin {"none", "later"}

NoRow == [searched |-> FALSE, file |-> -1]   \* the entry has no row
NoProfile == "none"

-----------------------------------------------------------------------------
(* Availability. *)

\* A movie whose year is neither unknown, nor to come, nor long past is judged by its
\* release dates.
Released(m) ==
    IF m.digital = "none" /\ m.physical = "none" THEN m.cinema = "none"
    ELSE Out(m.digital) \/ Out(m.physical)

InCinemas(m) ==
    IF m.cinema # "none" THEN Out(m.cinema)
    ELSE IF m.digital # "none" THEN Out(m.digital)
    ELSE m.physical # "none" => Out(m.physical)

Available(m) ==
    /\ m.year \notin {"none", "later"}
    /\ m.year # "old" => \/ m.minimum = "announced"
                         \/ m.minimum = "released" /\ Released(m)
                         \/ m.minimum = "inCinemas" /\ InCinemas(m)

Watched(set, it) == it.monitored \/ set.unmonitored

\* What an ingest of the library looks at.
Eligible(set, it) ==
    CASE it.kind = "episode"          -> Out(it.aired) /\ (it.special => set.specials)
      [] it.kind \in {"album", "book"} -> it.aired # "later"
      [] OTHER                         -> TRUE

\* The monitored episodes without a file that air today are looked at in every loop.
DueToday(set, it) ==
    /\ set.today /\ it.kind = "episode" /\ it.dated
    /\ it.special => set.specials
    /\ it.monitored /\ it.file = 0

-----------------------------------------------------------------------------
(* Rows. *)

\* (Variant: an entry without a file may be complete.)
CompleteEmpty(set, has, poor, formats) ==
    /\ set.quality => ~poor
    /\ set.formats => formats
Complete(set, has, poor, formats) ==
    /\ has
    /\ set.quality => ~poor
    /\ set.formats => formats

\* Why the row is searched for.
Reason(set, has, poor, formats) ==
    IF ~has THEN "Missing"
    ELSE IF set.quality /\ poor THEN "Quality"
    ELSE IF set.formats /\ ~formats THEN "CustomFormat"
    ELSE IF set.upgrade THEN "Upgrade" ELSE "Not being searched"

\* The scores are read once: the least score of the profile as long as it is not 0, that
\* of a file as long as it is the same file.
MinScore(it, row) == IF row # NoRow /\ row.min # 0 THEN row.min ELSE it.min
Score(it, row) ==
    IF it.file = 0 THEN 0
    ELSE IF row # NoRow /\ it.file = row.file THEN row.score ELSE it.score

\* The row of a work with that file, quality and scores; what it says of the profile's
\* switch and of a request stays.
Entry(set, row, file, poor, score, min) ==
    [file     |-> file,
     searched |-> Complete(set, file # 0, poor, score >= min),
     upgrade  |-> FALSE,
     met      |-> file # 0 /\ ~poor,
     formats  |-> score >= min,
     score    |-> score,
     min      |-> min,
     reason   |-> Reason(set, file # 0, poor, score >= min),
     request  |-> row # NoRow /\ row.request,
     since    |-> IF row = NoRow THEN "none" ELSE row.since,
     original |-> IF row = NoRow THEN NoProfile ELSE row.original,
     current  |-> IF row = NoRow THEN NoProfile ELSE row.current]

MovieRow(set, it, row) ==
    IF Available(it) /\ Watched(set, it)
    THEN Entry(set, row, it.file, it.file # 0 /\ it.poor, Score(it, row), MinScore(it, row))
    ELSE NoRow

EpisodeRow(set, it, row) ==
    IF Watched(set, it)
    THEN Entry(set, row, it.file, it.file # 0 /\ it.poor, Score(it, row), MinScore(it, row))
    ELSE NoRow

\* An album is all its tracks; their quality counts only when its profile allows upgrades,
\* and no score is ever read of it.
AlbumPoor(it) == it.file # 0 /\ it.upgradable /\ it.poor
AlbumRow(set, it, row) ==
    IF Watched(set, it)
    THEN Entry(set, row, IF it.file # 0 THEN 1 ELSE 0, AlbumPoor(it), 0, MinScore(it, row))
    ELSE NoRow

\* A book's files are counted first and read then; without an answer it has none.
BookRow(set, it, row) ==
    IF Watched(set, it)
    THEN Entry(set, row, it.file, it.file # 0 /\ it.poor,
               IF it.file # 0 THEN it.score ELSE 0, MinScore(it, row))
    ELSE NoRow

\* A series is complete when as many episodes have a file as were aired and monitored, the
\* specials among them; with AlsoSearchSpecials, as there are at all.  Of an artist or an
\* author something has to be there.
SeriesDone(set, it) == it.files = IF set.specials THEN it.total ELSE it.aired
ArtistDone(it) == it.albums > 0 /\ it.size > 0
AuthorDone(it) == it.books > 0 /\ it.size > 0

GroupRow(set, it, row, done) ==
    IF Watched(set, it)
    THEN [searched |-> done, upgrade |-> FALSE, file |-> 0,
          since |-> IF row = NoRow THEN "none" ELSE row.since,
          original |-> IF row = NoRow THEN NoProfile ELSE row.original,
          current |-> IF row = NoRow THEN NoProfile ELSE row.current]
    ELSE NoRow

RowOf(set, it, row) ==
    CASE it.kind = "movie"   -> MovieRow(set, it, row)
      [] it.kind = "episode" -> EpisodeRow(set, it, row)
      [] it.kind = "album"   -> AlbumRow(set, it, row)
      [] it.kind = "book"    -> BookRow(set, it, row)
      [] it.kind = "series"  -> GroupRow(set, it, row, SeriesDone(set, it))
      [] it.kind = "artist"  -> GroupRow(set, it, row, ArtistDone(it))
      [] OTHER               -> GroupRow(set, it, row, AuthorDone(it))

-----------------------------------------------------------------------------
(* Quality profiles.  set.mapping lists pairs of a main and a temporary    *)
(* profile; as in a dictionary, the last pair with a key counts.           *)

Mains(set) == {set.mapping[i][1] : i \in DOMAIN set.mapping}
Temps(set) == {set.mapping[i][2] : i \in DOMAIN set.mapping}
TempOf(set, main) == set.mapping[Max({i \in DOMAIN set.mapping : set.mapping[i][1] = main})][2]
MainOf(set, temp) == set.mapping[Max({i \in DOMAIN set.mapping : set.mapping[i][2] = temp})][1]

\* Where an entry can get to from a profile: a temporary profile may be a main one of a
\* further pair.
Below(set, profile) ==
    LET Closed(P) == profile \in P /\ \A main \in P \cap Mains(set) : TempOf(set, main) \in P
    IN  {p \in {profile} \cup Temps(set) :
            \A P \in SUBSET ({profile} \cup Temps(set)) : Closed(P) => p \in P}

\* Two main profiles have one temporary profile.
Shared(set) == \E i, j \in DOMAIN set.mapping : i # j /\ set.mapping[i][2] = set.mapping[j][2]

\* Albums and books have the profile of their artist or author.
Switchable(it) == it.kind \in {"movie", "episode"} \union Groups

\* A series is switched as long as it is not complete, whatever it has.
HasSome(it) ==
    CASE it.kind \in Works    -> it.file # 0
      [] it.kind = "series"   -> FALSE
      [] OTHER                -> it.size > 0

\* The profile after an ingest.  (Variant: what has a file is switched as well.)
SwitchedFull(set, profile, searched, has) ==
    IF searched /\ profile \in Temps(set) /\ ~set.keep THEN MainOf(set, profile)
    ELSE IF profile \in Mains(set) THEN TempOf(set, profile) ELSE profile
Switched(set, profile, searched, has) ==
    IF searched /\ profile \in Temps(set) /\ ~set.keep THEN MainOf(set, profile)
    ELSE IF ~searched /\ ~has /\ profile \in Mains(set) THEN TempOf(set, profile) ELSE profile

ProfileAfter(set, it, row) ==
    IF set.temp /\ Switchable(it) /\ row # NoRow
    THEN Switched(set, it.profile, row.searched, HasSome(it))
    ELSE it.profile

\* The switch is noted on a row that is there already, for the timeout, and the note of an
\* earlier one is erased with the way back; a series' row has no room for it.
Noted(it, old, row, to) ==
    IF old = NoRow \/ row = NoRow \/ to = it.profile \/ it.kind = "series" THEN row
    ELSE [row EXCEPT !.since = "now",
                     !.original = IF row.searched THEN NoProfile ELSE it.profile,
                     !.current = IF row.searched THEN NoProfile ELSE to]

\* A row the timeout has to do with.
Expired(row) ==
    row # NoRow /\ row.since = "old" /\ row.current # NoProfile /\ row.original # NoProfile
Untracked(row) == [row EXCEPT !.since = "none", !.original = NoProfile, !.current = NoProfile]

-----------------------------------------------------------------------------
(* Selection. *)

Wanted(set, row) ==
    IF set.upgrade THEN ~row.upgrade
    ELSE IF set.quality \/ set.formats
    THEN ~row.searched \/ (set.quality /\ ~row.met) \/ (set.formats /\ ~row.formats)
    ELSE row.file = 0 /\ ~row.searched

\* Rows are picked for the year the loop has come to; 0 is none.
MovieWanted(set, it, row, year) == Wanted(set, row) /\ (set.byYear => it.in = year)
EpisodeWanted(set, it, row, year) ==
    /\ it.special => set.specials
    /\ Wanted(set, row)
    /\ it.aired = "old"
    /\ set.byYear /\ year # 0 => it.in = year
AlbumWanted(set, row) == Wanted(set, row)
BookWanted(set, it, row, year) ==
    /\ Wanted(set, row)
    /\ set.byYear /\ year # 0 => it.aired # "none" /\ it.in = year
GroupWanted(set, row) == IF set.upgrade THEN ~row.upgrade ELSE ~row.searched

\* Today's releases come without a year, and regardless of the limit of commands.  A
\* search by series takes for today's what is older, of the year.
TodayWanted(set, it, row, year) ==
    /\ set.today /\ it.kind = "episode" /\ it.aired # "none"
    /\ IF set.series = "yes" THEN EpisodeWanted(set, it, row, year)
       ELSE it.aired = "day" /\ (it.special => set.specials) /\ Wanted(set, row)

WorkWanted(set, it, row, year) ==
    /\ row # NoRow
    /\ \/ it.kind = "movie" /\ MovieWanted(set, it, row, year)
       \/ it.kind = "episode" /\ set.series # "yes" /\ EpisodeWanted(set, it, row, year)
       \/ it.kind = "album" /\ AlbumWanted(set, row)
       \/ it.kind = "book" /\ BookWanted(set, it, row, year)
       \/ it.kind = "series" /\ set.series = "yes" /\ GroupWanted(set, row)

\* The order in which they are searched for.
Rank(reason) ==
    CASE reason = "Missing"      -> 1
      [] reason = "CustomFormat" -> 2
      [] reason = "Quality"      -> 3
      [] reason = "Upgrade"      -> 4
      [] OTHER                   -> 5

RequestWanted(it, row) ==
    /\ row # NoRow /\ it.kind \in {"movie", "episode"}
    /\ row.request /\ row.file = 0 /\ ~row.searched
    /\ it.kind = "episode" => it.aired = "old"

\* The entries a request makes qBitrr look at: what is there already, not out, or not
\* monitored is passed over.
Requestable(set, it) ==
    /\ it.monitored /\ it.file = 0
    /\ \/ it.kind = "movie" /\ it.year \notin {"none", "later"}
       \/ it.kind = "episode" /\ Out(it.aired) /\ (it.special => set.specials)

\* The years to go through: those of the monitored works that are out.
Dated(set, it) ==
    /\ it.monitored /\ it.in # 0
    /\ \/ it.kind = "movie" /\ it.year # "later"
       \/ it.kind = "episode" /\ (it.special => set.specials)
       \/ it.kind = "book" /\ Out(it.aired)
=============================================================================
