---------------------------- MODULE SearchProofs ----------------------------
(***************************************************************************)
(* Proofs for SearchEntry and SearchLoop, for any settings, entries and    *)
(* libraries: what a row says is what it is picked by, a temporary profile *)
(* is given back, and a row counts as searched only for a reason.          *)
(***************************************************************************)
EXTENDS SearchEntry, SearchLoop, TLAPS

RowFields == {"searched", "upgrade", "since", "original", "current"}

\* The shape of an entry and of its row.
Shape ==
    /\ settings \in {s.set : s \in Entries}
    /\ {"kind", "profile"} \subseteq DOMAIN it /\ it.kind \in Works \union Groups
    /\ row # NoRow => RowFields \subseteq DOMAIN row

-----------------------------------------------------------------------------
(* The rows of SearchRules. *)

LEMMA EntryFields ==
  ASSUME NEW s, NEW r, NEW f, NEW p, NEW sc, NEW m, NEW e, e = Entry(s, r, f, p, sc, m)
  PROVE  /\ RowFields \subseteq DOMAIN e
         /\ {"met", "formats", "file", "reason"} \subseteq DOMAIN e
         /\ e.searched = Complete(s, f # 0, p, sc >= m) /\ e.upgrade = FALSE
         /\ e.met = (f # 0 /\ ~p) /\ e.formats = (sc >= m) /\ e.file = f
         /\ e.reason = Reason(s, f # 0, p, sc >= m)
         /\ e.original = IF r = NoRow THEN NoProfile ELSE r.original
  BY DEF Entry, RowFields

\* What a row is made of.
MadeOf(n, s, e, r) ==
    \/ n = NoRow
    \/ e.kind \in Works /\ \E f, p, sc, m : n = Entry(s, r, f, p, sc, m)
    \/ e.kind \in Groups /\ \E done : Watched(s, e) /\ n = GroupRow(s, e, r, done)

LEMMA RowsMade ==
  ASSUME NEW s, NEW e, NEW r, e.kind \in Works \union Groups
  PROVE  MadeOf(RowOf(s, e, r), s, e, r)
<1>1. CASE e.kind = "movie"
  <2>1. RowOf(s, e, r) = MovieRow(s, e, r)
    BY <1>1, Zenon DEF RowOf
  <2> QED BY <1>1, <2>1, Zenon DEF MovieRow, MadeOf, Works
<1>2. CASE e.kind = "episode"
  <2>1. RowOf(s, e, r) = EpisodeRow(s, e, r)
    BY <1>2, Zenon DEF RowOf
  <2> QED BY <1>2, <2>1, Zenon DEF EpisodeRow, MadeOf, Works
<1>3. CASE e.kind = "album"
  <2>1. RowOf(s, e, r) = AlbumRow(s, e, r)
    BY <1>3, Zenon DEF RowOf
  <2> QED BY <1>3, <2>1, Zenon DEF AlbumRow, MadeOf, Works
<1>4. CASE e.kind = "book"
  <2>1. RowOf(s, e, r) = BookRow(s, e, r)
    BY <1>4, Zenon DEF RowOf
  <2> QED BY <1>4, <2>1, Zenon DEF BookRow, MadeOf, Works
<1>5. CASE e.kind = "series"
  <2>1. RowOf(s, e, r) = GroupRow(s, e, r, SeriesDone(s, e))
    BY <1>5, Zenon DEF RowOf
  <2> QED BY <1>5, <2>1, Zenon DEF GroupRow, MadeOf, Groups
<1>6. CASE e.kind = "artist"
  <2>1. RowOf(s, e, r) = GroupRow(s, e, r, ArtistDone(e))
    BY <1>6, Zenon DEF RowOf
  <2> QED BY <1>6, <2>1, Zenon DEF GroupRow, MadeOf, Groups
<1>7. CASE e.kind = "author"
  <2>1. RowOf(s, e, r) = GroupRow(s, e, r, AuthorDone(e))
    BY <1>7, Zenon DEF RowOf
  <2> QED BY <1>7, <2>1, Zenon DEF GroupRow, MadeOf, Groups
<1> QED BY <1>1, <1>2, <1>3, <1>4, <1>5, <1>6, <1>7 DEF Works, Groups

\* A new row takes over what is noted of the switch.
LEMMA NewRow ==
  ASSUME NEW s, NEW e, NEW r, e.kind \in Works \union Groups,
         NEW n, n = RowOf(s, e, r), n # NoRow
  PROVE  /\ RowFields \subseteq DOMAIN n
         /\ n.original = IF r = NoRow THEN NoProfile ELSE r.original
<1>1. MadeOf(n, s, e, r)
  BY RowsMade
<1>2. CASE \E f, p, sc, m : n = Entry(s, r, f, p, sc, m)
  <2>1. PICK f, p, sc, m : n = Entry(s, r, f, p, sc, m)
    BY <1>2
  <2> QED BY <2>1 DEF Entry, RowFields
<1>3. CASE \E done : Watched(s, e) /\ n = GroupRow(s, e, r, done)
  BY <1>3 DEF GroupRow, RowFields
<1> QED BY <1>1, <1>2, <1>3 DEF MadeOf

\* The note of a switch, or the way back, leaves the rest of the row.
LEMMA NotedFields ==
  ASSUME NEW e, NEW old, NEW n, NEW to, RowFields \subseteq DOMAIN n,
         NEW d, d = Noted(e, old, n, to)
  PROVE  /\ DOMAIN d = DOMAIN n
         /\ \A x \in DOMAIN n \ {"since", "original", "current"} : d[x] = n[x]
         /\ \/ d.original = n.original
            \/ to # e.profile /\ d.original = IF n.searched THEN NoProfile ELSE e.profile
  BY DEF Noted, RowFields

-----------------------------------------------------------------------------
(* The reason. *)

\* An ingest with the reply of the Arr.
Takes(reply) ==
    /\ LET new == RowOf(settings, it, row)
           to  == ProfileAfter(settings, it, new)
       IN  /\ row' = IF reply = "ok" THEN Noted(it, row, new, to) ELSE new
           /\ it' = IF reply = "failed" \/ it.kind = "episode" THEN it
                    ELSE [it EXCEPT !.profile = to]
           /\ fresh' = (reply # "failed")
    /\ UNCHANGED <<settings, home>>

LEMMA IngestTakes == EntryIngest => \E reply \in {"ok", "failed", "lost"} : Takes(reply)
  BY Zenon DEF EntryIngest, Takes

LEMMA ToldInit == EntryInit => Shape /\ ReasonTold
  BY EntryAssumption DEF EntryInit, Shape, ReasonTold

\* The entry changes in what the Arr says of it, in no step in what it is.
LEMMA ShapeNext == Shape /\ [EntryNext]_entry => Shape'
<1> SUFFICES ASSUME Shape, [EntryNext]_entry PROVE Shape'
    OBVIOUS
<1> USE DEF Shape
<1>1. CASE EntryIngest
  <2>1. PICK reply \in {"ok", "failed", "lost"} : Takes(reply)
    BY <1>1, IngestTakes
  <2> DEFINE n == RowOf(settings, it, row)
             to == ProfileAfter(settings, it, n)
  <2>2. /\ row' = IF reply = "ok" THEN Noted(it, row, n, to) ELSE n
        /\ it' = it \/ it' = [it EXCEPT !.profile = to]
        /\ UNCHANGED settings
    BY <2>1, Zenon DEF Takes
  <2>3. n # NoRow => RowFields \subseteq DOMAIN n
    BY NewRow, Zenon
  <2> HIDE DEF n, to
  <2>4. n = NoRow => Noted(it, row, n, to) = n
    BY Zenon DEF Noted
  <2>5. row' # NoRow => RowFields \subseteq DOMAIN row'
    <3>1. CASE n = NoRow
      BY <2>2, <2>4, <3>1, Zenon
    <3>2. CASE n # NoRow
      BY <2>2, <2>3, <3>2, NotedFields
    <3> QED BY <3>1, <3>2
  <2> QED BY <2>2, <2>5
<1>2. CASE EntrySearch
  BY <1>2, Zenon DEF EntrySearch, WorkWanted, RequestWanted
<1>3. CASE CheckTimeout
  BY <1>3 DEF CheckTimeout, Expired, Untracked
<1>4. CASE EntryReset
  BY <1>4 DEF EntryReset
<1>5. CASE ForceReset
  BY <1>5 DEF ForceReset
<1>6. CASE Arrive
  BY <1>6 DEF Arrive, Outside
<1>7. CASE Fill
  BY <1>7 DEF Fill, Outside
<1>8. CASE Inherit
  BY <1>8 DEF Inherit, Outside
<1>9. CASE Age
  <2>1. /\ DOMAIN it' = DOMAIN it /\ it'.kind = it.kind
        /\ UNCHANGED settings
    BY <1>9 DEF Age, Outside
  <2>2. row' # NoRow => RowFields \subseteq DOMAIN row'
    BY <1>9 DEF Age
  <2> QED BY <2>1, <2>2
<1>10. CASE UNCHANGED entry
  BY <1>10 DEF entry
<1> QED
  BY <1>1, <1>2, <1>3, <1>4, <1>5, <1>6, <1>7, <1>8, <1>9, <1>10, Zenon DEF EntryNext

LEMMA ToldNext == Shape /\ ReasonTold /\ [EntryNext]_entry => ReasonTold'
<1> SUFFICES ASSUME Shape, ReasonTold, [EntryNext]_entry PROVE ReasonTold'
    OBVIOUS
<1>1. CASE EntryIngest
  <2>1. PICK reply \in {"ok", "failed", "lost"} : Takes(reply)
    BY <1>1, IngestTakes
  <2> DEFINE n == RowOf(settings, it, row)
             to == ProfileAfter(settings, it, n)
  <2>2. /\ row' = IF reply = "ok" THEN Noted(it, row, n, to) ELSE n
        /\ it' = it \/ it' = [it EXCEPT !.profile = to]
        /\ UNCHANGED settings
    BY <2>1, Zenon DEF Takes
  <2>3. n # NoRow => RowFields \subseteq DOMAIN n
    BY NewRow, Zenon DEF Shape
  <2>4. MadeOf(n, settings, it, row)
    BY RowsMade DEF Shape
  <2> HIDE DEF n, to
  <2>5. CASE n = NoRow
    <3>1. row' = NoRow
      BY <2>2, <2>5, Zenon DEF Noted
    <3> QED BY <3>1 DEF ReasonTold
  <2>6. CASE n # NoRow /\ it.kind \in Works
    <3>1. PICK f, p, sc, m : n = Entry(settings, row, f, p, sc, m)
      BY <2>4, <2>6 DEF MadeOf, Works, Groups
    <3>2. /\ {"searched", "upgrade", "met", "formats", "file", "reason"} \subseteq DOMAIN n
          /\ n.searched = Complete(settings, f # 0, p, sc >= m) /\ n.upgrade = FALSE
          /\ n.met = (f # 0 /\ ~p) /\ n.formats = (sc >= m) /\ n.file = f
          /\ n.reason = Reason(settings, f # 0, p, sc >= m)
      BY <3>1 DEF Entry
    <3>3. /\ row'.searched = n.searched /\ row'.upgrade = n.upgrade /\ row'.met = n.met
          /\ row'.formats = n.formats /\ row'.file = n.file /\ row'.reason = n.reason
      BY <2>2, <2>3, <2>6, <3>2, NotedFields
    <3>4. Wanted(settings, row') <=> row'.reason # "Not being searched"
      <4>1. /\ row'.searched = Complete(settings, f # 0, p, sc >= m) /\ row'.upgrade = FALSE
            /\ row'.met = (f # 0 /\ ~p) /\ row'.formats = (sc >= m) /\ row'.file = f
            /\ row'.reason = Reason(settings, f # 0, p, sc >= m)
        BY <3>2, <3>3, Zenon
      <4> QED BY <4>1 DEF Wanted, Reason, Complete
    <3> QED BY <2>2, <3>4 DEF ReasonTold
  <2>7. CASE it.kind \notin Works
    BY <2>2, <2>7 DEF ReasonTold, Shape
  <2> QED BY <2>5, <2>6, <2>7
<1>2. CASE fresh' = FALSE
  BY <1>2 DEF ReasonTold
<1>3. CASE UNCHANGED entry
  BY <1>3, Zenon DEF entry, ReasonTold
<1> QED
  BY <1>1, <1>2, <1>3, Zenon DEF EntryNext, EntrySearch, CheckTimeout, EntryReset, ForceReset,
       Arrive, Fill, Inherit, Age, Outside

\* Whatever the settings and the entry, and however often the Arr's replies are lost: a row
\* says it is searched for exactly when it is picked.
THEOREM ReasonToldHolds == EntrySpec => []ReasonTold
<1>1. (Shape /\ ReasonTold) /\ [EntryNext]_entry => (Shape /\ ReasonTold)'
  BY ShapeNext, ToldNext
<1> QED BY <1>1, ToldInit, PTL DEF EntrySpec

-----------------------------------------------------------------------------
(* The profiles. *)

LEMMA MaxOfOne == ASSUME NEW i \in Nat PROVE Max({i}) = i
  BY DEF Max

\* A mapping has a main profile once.
Keyed(s) ==
    /\ DOMAIN s.mapping \subseteq Nat
    /\ \A i, j \in DOMAIN s.mapping : s.mapping[i][1] = s.mapping[j][1] => i = j

LEMMA Temporary ==
  ASSUME NEW s, Keyed(s), NEW m \in Mains(s)
  PROVE  /\ TempOf(s, m) \in Temps(s)
         /\ ~Shared(s) => MainOf(s, TempOf(s, m)) = m
<1>1. PICK i \in DOMAIN s.mapping : m = s.mapping[i][1]
  BY DEF Mains
<1>2. {j \in DOMAIN s.mapping : s.mapping[j][1] = m} = {i}
  BY <1>1 DEF Keyed
<1>3. TempOf(s, m) = s.mapping[i][2]
  BY <1>2, MaxOfOne DEF TempOf, Keyed
<1>4. ASSUME ~Shared(s) PROVE MainOf(s, TempOf(s, m)) = m
  <2>1. {j \in DOMAIN s.mapping : s.mapping[j][2] = s.mapping[i][2]} = {i}
    BY <1>1, <1>4 DEF Shared
  <2> QED BY <1>1, <1>3, <2>1, MaxOfOne DEF MainOf, Keyed
<1> QED BY <1>3, <1>4 DEF Temps

\* One step down stays below, and so does one step up, but for the profile of the entry.
LEMMA BelowSteps ==
  ASSUME NEW s, Keyed(s), NEW h
  PROVE  /\ h \in Below(s, h)
         /\ \A p \in Below(s, h) : p = h \/ p \in Temps(s)
         /\ \A m \in Below(s, h) \cap Mains(s) : TempOf(s, m) \in Below(s, h)
         /\ ~Shared(s) /\ h \notin Temps(s) =>
               \A p \in Below(s, h) \cap Temps(s) : MainOf(s, p) \in Below(s, h) \cap Mains(s)
<1> DEFINE Closed(P) == h \in P /\ \A m \in P \cap Mains(s) : TempOf(s, m) \in P
           B == Below(s, h)
<1>1. /\ B \subseteq {h} \cup Temps(s)
      /\ \A p \in {h} \cup Temps(s) :
            p \in B <=> \A P \in SUBSET ({h} \cup Temps(s)) : Closed(P) => p \in P
  BY DEF Below
<1> HIDE DEF B
<1>2. h \in B
  BY <1>1
<1>3. ASSUME NEW m \in B \cap Mains(s) PROVE TempOf(s, m) \in B
  <2>1. TempOf(s, m) \in Temps(s)
    BY Temporary
  <2>2. ASSUME NEW P \in SUBSET ({h} \cup Temps(s)), Closed(P) PROVE TempOf(s, m) \in P
    BY <1>1, <2>2
  <2> HIDE DEF Closed
  <2> QED BY <1>1, <2>1, <2>2
<1>4. ASSUME ~Shared(s), h \notin Temps(s), NEW p \in B \cap Temps(s)
      PROVE  MainOf(s, p) \in B \cap Mains(s)
  <2> DEFINE P == B \ {p}
  <2>1. P \in SUBSET ({h} \cup Temps(s)) /\ h \in P /\ p \notin P
    BY <1>1, <1>2, <1>4
  <2>2. ~Closed(P)
    <3> HIDE DEF P, Closed
    <3> QED BY <1>1, <2>1
  <2>3. PICK m \in P \cap Mains(s) : TempOf(s, m) \notin P
    BY <2>1, <2>2
  <2>4. m \in B /\ m \in Mains(s) /\ TempOf(s, m) = p
    BY <1>3, <2>3
  <2> QED BY <1>4, <2>4, Temporary
<1> QED BY <1>1, <1>2, <1>3, <1>4 DEF B

\* On the way down or up; what is found complete is at home or at a step in between.
OnTheWay(s, h, p) == p = h \/ p \in Mains(s) \cap Temps(s)

LEMMA SwitchedHome ==
  ASSUME NEW s, Keyed(s), ~Shared(s),
         NEW h, h \notin Temps(s), NEW p \in Below(s, h), NEW searched, NEW has,
         NEW q, q = Switched(s, p, searched, has)
  PROVE  /\ q \in Below(s, h)
         /\ searched /\ ~s.keep => OnTheWay(s, h, q)
<1>1. CASE searched /\ p \in Temps(s) /\ ~s.keep
  <2>1. q = MainOf(s, p)
    BY <1>1 DEF Switched
  <2>2. q \in Below(s, h) \cap Mains(s)
    BY <1>1, <2>1, BelowSteps
  <2> QED BY <2>2, BelowSteps DEF OnTheWay
<1>2. CASE ~(searched /\ p \in Temps(s) /\ ~s.keep) /\ ~searched /\ ~has /\ p \in Mains(s)
  <2>1. q = TempOf(s, p)
    BY <1>2 DEF Switched
  <2> QED BY <1>2, <2>1, BelowSteps
<1>3. CASE ~(searched /\ p \in Temps(s) /\ ~s.keep) /\ ~(~searched /\ ~has /\ p \in Mains(s))
  <2>1. q = p
    BY <1>3 DEF Switched
  <2>2. searched /\ ~s.keep => p = h
    BY <1>3, BelowSteps
  <2> QED BY <2>1, <2>2 DEF OnTheWay
<1> QED BY <1>1, <1>2, <1>3

\* What is noted of a switch leads back to where the entry was.
WayHome ==
    home \notin Temps(settings) /\ ~Shared(settings) =>
        /\ it.profile \in Below(settings, home)
        /\ row # NoRow => row.original \in {NoProfile} \cup Below(settings, home)
        /\ fresh /\ row # NoRow /\ row.searched /\ settings.temp /\ ~settings.keep
           /\ it.kind \in {"movie"} \union Groups => OnTheWay(settings, home, it.profile)

LEMMA HomeInit == EntryInit => WayHome
  BY EntryAssumption, BelowSteps DEF EntryInit, WayHome, Keyed

LEMMA HomeNext == Shape /\ WayHome /\ [EntryNext]_entry => WayHome'
<1> SUFFICES ASSUME Shape, WayHome, [EntryNext]_entry, home' \notin Temps(settings'), ~Shared(settings')
             PROVE  /\ it'.profile \in Below(settings', home')
                    /\ row' # NoRow => row'.original \in {NoProfile} \cup Below(settings', home')
                    /\ fresh' /\ row' # NoRow /\ row'.searched /\ settings'.temp /\ ~settings'.keep
                       /\ it'.kind \in {"movie"} \union Groups => OnTheWay(settings', home', it'.profile)
    BY DEF WayHome
<1>s. /\ Keyed(settings)
      /\ {"kind", "profile"} \subseteq DOMAIN it /\ it.kind \in Works \union Groups
      /\ row # NoRow => RowFields \subseteq DOMAIN row
    BY EntryAssumption DEF Shape, Keyed
<1>u. settings' = settings /\ home' = home
    BY Zenon DEF EntryNext, EntryIngest, EntrySearch, CheckTimeout, EntryReset, ForceReset,
       Arrive, Fill, Inherit, Age, Outside, entry
<1> DEFINE B == Below(settings, home)
<1>h. /\ home \notin Temps(settings) /\ ~Shared(settings) /\ it.profile \in B
      /\ row # NoRow => row.original \in {NoProfile} \cup B
    BY <1>u DEF WayHome
<1>b. \A p \in B \cap Temps(settings) : MainOf(settings, p) \in B
    BY <1>s, <1>h, BelowSteps
<1> HIDE DEF B
<1>1. CASE EntryIngest
  <2>1. PICK reply \in {"ok", "failed", "lost"} : Takes(reply)
    BY <1>1, IngestTakes
  <2> DEFINE n == RowOf(settings, it, row)
             to == ProfileAfter(settings, it, n)
  <2>2. /\ row' = IF reply = "ok" THEN Noted(it, row, n, to) ELSE n
        /\ it' = IF reply = "failed" \/ it.kind = "episode" THEN it ELSE [it EXCEPT !.profile = to]
        /\ fresh' = (reply # "failed")
    BY <2>1, Zenon DEF Takes
  <2>3. n # NoRow => /\ RowFields \subseteq DOMAIN n
                     /\ n.original = IF row = NoRow THEN NoProfile ELSE row.original
    <3>1. it.kind \in Works \union Groups
      BY <1>s
    <3> QED BY <3>1, NewRow
  <2>4. /\ to = it.profile \/ to = Switched(settings, it.profile, n.searched, HasSome(it))
        /\ settings.temp /\ Switchable(it) /\ n # NoRow
              => to = Switched(settings, it.profile, n.searched, HasSome(it))
    BY Zenon DEF ProfileAfter
  <2> HIDE DEF n, to
  <2>5. /\ to \in B
        /\ settings.temp /\ Switchable(it) /\ n # NoRow /\ n.searched /\ ~settings.keep
              => OnTheWay(settings, home, to)
    BY <1>s, <1>h, <2>4, SwitchedHome DEF B
  <2>6. it'.profile \in B
    BY <1>s, <1>h, <2>2, <2>5
  <2>7. CASE n = NoRow
    <3>1. row' = NoRow
      BY <2>2, <2>7, Zenon DEF Noted
    <3> QED BY <1>u, <2>6, <3>1 DEF B
  <2>8. CASE n # NoRow
    <3>1. /\ row'.searched = n.searched
          /\ \/ row'.original = n.original
             \/ to # it.profile /\ row'.original = IF n.searched THEN NoProfile ELSE it.profile
      BY <2>2, <2>3, <2>8, NotedFields DEF RowFields
    <3>2. row' # NoRow => row'.original \in {NoProfile} \cup B
      BY <1>h, <2>3, <2>8, <3>1
    <3>3. ASSUME fresh', row'.searched, settings'.temp, ~settings'.keep,
                 it'.kind \in {"movie"} \union Groups
          PROVE  OnTheWay(settings', home', it'.profile)
      <4>1. it'.kind = it.kind
        BY <1>s, <2>2
      <4>2. Switchable(it) /\ it.kind # "episode" /\ reply # "failed"
        BY <2>2, <3>3, <4>1 DEF Switchable, Groups
      <4>3. OnTheWay(settings, home, to)
        BY <1>u, <2>5, <2>8, <3>1, <3>3, <4>2
      <4> QED BY <1>s, <1>u, <2>2, <4>2, <4>3
    <3> QED BY <1>u, <2>6, <3>2, <3>3 DEF B
  <2> QED BY <2>7, <2>8
<1>2. CASE EntrySearch
  BY <1>2, <1>s, <1>u, <1>h DEF EntrySearch, RowFields, WorkWanted, RequestWanted, B
<1>3. CASE CheckTimeout
  <2>1. row # NoRow /\ row.original # NoProfile
    BY <1>3 DEF CheckTimeout, Expired
  <2>2. it'.profile \in B
    BY <1>3, <1>s, <1>h, <2>1 DEF CheckTimeout
  <2>3. row'.original = NoProfile
    BY <1>3, <1>s, <2>1 DEF CheckTimeout, Untracked, RowFields
  <2> QED BY <1>3, <1>u, <2>2, <2>3 DEF CheckTimeout, B
<1>4. CASE EntryReset
  BY <1>4, <1>s, <1>u, <1>h DEF EntryReset, RowFields, B
<1>5. CASE ForceReset
  <2>1. it.profile \in Temps(settings) /\ it' = [it EXCEPT !.profile = MainOf(settings, @)]
    BY <1>5 DEF ForceReset
  <2>2. it'.profile \in B
    BY <1>s, <1>h, <1>b, <2>1
  <2> QED BY <1>5, <1>u, <1>h, <2>2 DEF ForceReset, B
<1>6. CASE Arrive
  <2>1. it'.profile = it.profile /\ UNCHANGED row /\ fresh' = FALSE
    BY <1>6, <1>s DEF Arrive, Outside
  <2> QED BY <1>u, <1>h, <2>1 DEF B
<1>7. CASE Fill
  <2>1. it'.profile = it.profile /\ UNCHANGED row /\ fresh' = FALSE
    BY <1>7, <1>s DEF Fill, Outside
  <2> QED BY <1>u, <1>h, <2>1 DEF B
<1>8. CASE Inherit
  <2>1. it'.profile \in B /\ UNCHANGED row /\ fresh' = FALSE
    BY <1>8, <1>s DEF Inherit, Outside, B
  <2> QED BY <1>u, <1>h, <2>1 DEF B
<1>9. CASE Age
  <2>1. it'.profile = it.profile /\ fresh' = FALSE
    BY <1>9, <1>s DEF Age, Outside
  <2>2. row' # NoRow => row # NoRow /\ row'.original = row.original
    BY <1>9, <1>s DEF Age, RowFields
  <2> QED BY <1>u, <1>h, <2>1, <2>2 DEF B
<1>10. CASE UNCHANGED entry
  BY <1>10, <1>u, Zenon DEF entry, WayHome
<1> QED
  BY <1>1, <1>2, <1>3, <1>4, <1>5, <1>6, <1>7, <1>8, <1>9, <1>10, Zenon DEF EntryNext

\* For any mapping, chains included: an entry is on its own profile or on one below it,
\* whatever switch failed or was lost, and when complete on its own, or in a chain on the
\* way to it; but for the two kinds of entries HomeAgain names.
THEOREM HomeAgainHolds == EntrySpec => []HomeAgain
<1>1. EntryInit => Shape /\ WayHome
  BY ToldInit, HomeInit
<1>2. (Shape /\ WayHome) /\ [EntryNext]_entry => (Shape /\ WayHome)'
  BY ShapeNext, HomeNext
<1>3. Shape /\ WayHome => HomeAgain
  BY DEF WayHome, HomeAgain, OnTheWay
<1> QED BY <1>1, <1>2, <1>3, PTL DEF EntrySpec

-----------------------------------------------------------------------------
(* The loop: a row counts as searched only for a reason. *)

\* The numbers tell the works apart, from the groups too where these are searched for.
\* (Sonarr numbers series and episodes each for themselves: there it may fail.)
Apart(series, kind) ==
    \A i, j \in Items : kind[i] \in Works /\ Id[i] = Id[j] /\ (series # "no" \/ kind[j] \in Works)
                        => i = j
Distinct == \A start \in Starts : Apart(start.set.series, [i \in Items |-> start.lib[i].kind])

\* The library keeps its entries, and they their kinds.
LibInv ==
    /\ DOMAIN lib = Items
    /\ \A i \in Items : /\ {"kind", "profile"} \subseteq DOMAIN lib[i]
                        /\ Kind(i) \in Works \union Groups
    /\ set.series # "no" => \A i \in Items : Group(GroupOf[i])
    /\ Apart(set.series, [i \in Items |-> Kind(i)])

\* What is in the queue are works, and what the process knows of it is what it saw.
Shown(i) == Id[IF set.series = "no" THEN i ELSE GroupOf[i]]
QueueInv ==
    /\ queue \union seen \subseteq Items
    /\ \A i \in queue \union seen : ~Group(i)
    /\ "ids" \in DOMAIN mem /\ mem.ids = {Shown(i) : i \in seen}

\* What is picked is a work, or the group that is searched for instead.
Pickable(p) ==
    /\ p.item \in Items /\ p.group \in BOOLEAN
    /\ IF p.group THEN set.series # "no" ELSE ~Group(p.item)
TodoInv == \A p \in todo : Pickable(p)

RowsInv == \A i \in Items : Held(i) => RowFields \subseteq DOMAIN rows[i]

LoopInv == LibInv /\ QueueInv /\ TodoInv /\ RowsInv /\ HonestlySearched

LEMMA LoopInit == Distinct /\ Init => LoopInv
<1> SUFFICES ASSUME Distinct, Init PROVE LoopInv
    OBVIOUS
<1>1. PICK start \in Starts : set = start.set /\ lib = start.lib
  BY DEF Init
<1>2. LibInv
  BY <1>1, LoopAssumption DEF LibInv, Distinct, Apart, Kind, Group
<1>3. QueueInv /\ TodoInv /\ RowsInv /\ HonestlySearched
  BY DEF Init, QueueInv, TodoInv, RowsInv, HonestlySearched, Held, Fresh
<1> QED BY <1>2, <1>3 DEF LoopInv

\* A library whose entries keep their kinds.
SameKinds == /\ DOMAIN lib' = Items
             /\ \A i \in Items : /\ {"kind", "profile"} \subseteq DOMAIN lib'[i]
                                 /\ lib'[i].kind = Kind(i)

LEMMA LibKept ==
  LibInv /\ set' = set /\ SameKinds => LibInv' /\ \A i \in Items : Group(i)' = Group(i)
<1> SUFFICES ASSUME LibInv, set' = set, SameKinds
             PROVE  LibInv' /\ \A i \in Items : Group(i)' = Group(i)
    OBVIOUS
<1>1. \A i \in Items : Kind(i)' = Kind(i) /\ Group(i)' = Group(i)
  BY DEF SameKinds, Kind, Group
<1>2. [i \in Items |-> Kind(i)]' = [i \in Items |-> Kind(i)]
  BY <1>1
<1>3. Apart(set.series, [i \in Items |-> Kind(i)])'
  BY <1>2 DEF LibInv, Apart
<1>4. set.series # "no" => \A i \in Items : Group(GroupOf[i])'
  BY <1>1, LoopAssumption DEF LibInv
<1> QED BY <1>1, <1>3, <1>4 DEF LibInv, SameKinds

LEMMA ProfilesKept ==
  ASSUME LibInv, NEW profile, lib' = WithProfiles(profile)
  PROVE  SameKinds
  BY DEF LibInv, WithProfiles, SameKinds, Kind

\* Rows and reasons that leave the invariant as it is.
RowsFine == \A i \in Items :
    (rows'[i] # NoRow => RowFields \subseteq DOMAIN rows'[i])
    /\ (~Group(i) /\ rows'[i] # NoRow /\ rows'[i].searched => why'[i] # "none")

LEMMA RowsKept ==
  ASSUME RowsFine, \A i \in Items : Group(i)' = Group(i)
  PROVE  RowsInv' /\ HonestlySearched'
  BY DEF RowsFine, RowsInv, HonestlySearched, Held

-----------------------------------------------------------------------------
(* Ingests. *)

LEMMA FlaggedFields ==
  ASSUME NEW r, RowFields \subseteq DOMAIN r, NEW old, NEW request,
         NEW f, f = Flagged(r, old, request)
  PROVE  DOMAIN f = DOMAIN r /\ f.searched = r.searched
  BY DEF Flagged, RowFields

LEMMA IngestedFine ==
  ASSUME LibInv, RowsInv, HonestlySearched,
         NEW D, NEW bad, NEW lost, NEW request, Ingested(D, bad, lost, request)
  PROVE  SameKinds /\ RowsFine
<1> DEFINE New(i) == RowOf(set, lib[i], rows[i])
           To(i) == ProfileAfter(set, lib[i], New(i))
           Row(i) == IF i \in bad THEN New(i) ELSE Noted(lib[i], rows[i], New(i), To(i))
           Switches(i) == i \in (D \ bad) \union lost /\ Kind(i) # "episode"
<1>1. /\ rows' = [i \in Items |->
              IF i \in D THEN Flagged(Row(i), rows[i], request) ELSE rows[i]]
      /\ why' = [i \in Items |->
              IF i \notin D THEN why[i]
              ELSE IF New(i) # NoRow /\ New(i).searched THEN "complete" ELSE "none"]
      /\ lib' = WithProfiles([i \in Items |-> IF Switches(i) THEN To(i) ELSE lib[i].profile])
  BY Zenon DEF Ingested
<1>2. SameKinds
  BY <1>1, ProfilesKept, Zenon
<1>3. ASSUME NEW i \in Items
      PROVE  /\ rows'[i] # NoRow => RowFields \subseteq DOMAIN rows'[i]
             /\ ~Group(i) /\ rows'[i] # NoRow /\ rows'[i].searched => why'[i] # "none"
  <2> DEFINE n == New(i)
             to == To(i)
  <2>1. CASE i \notin D
    <3>1. rows'[i] = rows[i] /\ why'[i] = why[i]
      BY <1>1, <2>1, Zenon
    <3> QED BY <3>1 DEF RowsInv, HonestlySearched, Held
  <2>2. CASE i \in D
    <3>1. rows'[i] =
            Flagged(IF i \in bad THEN n ELSE Noted(lib[i], rows[i], n, to), rows[i], request)
      BY <1>1, <2>2, Zenon
    <3>2. n # NoRow /\ n.searched => why'[i] = "complete"
      BY <1>1, <2>2, Zenon
    <3>3. n # NoRow => RowFields \subseteq DOMAIN n
      <4>1. lib[i].kind \in Works \union Groups
        BY DEF LibInv, Kind
      <4> QED BY <4>1, NewRow, Zenon
    <3> HIDE DEF n, to
    <3>4. CASE n = NoRow
      <4>1. rows'[i] = NoRow
        BY <3>1, <3>4, Zenon DEF Noted, Flagged
      <4> QED BY <4>1
    <3>5. CASE n # NoRow
      <4> DEFINE r == IF i \in bad THEN n ELSE Noted(lib[i], rows[i], n, to)
      <4>1. RowFields \subseteq DOMAIN r /\ r.searched = n.searched
        <5>1. CASE i \in bad
          BY <3>3, <3>5, <5>1
        <5>2. CASE i \notin bad
          BY <3>3, <3>5, <5>2, NotedFields DEF RowFields
        <5> QED BY <5>1, <5>2
      <4>2. rows'[i] = Flagged(r, rows[i], request)
        BY <3>1
      <4> HIDE DEF r
      <4>3. DOMAIN rows'[i] = DOMAIN r /\ rows'[i].searched = r.searched
        BY <4>1, <4>2, FlaggedFields
      <4> QED BY <3>2, <3>5, <4>1, <4>3
    <3> QED BY <3>4, <3>5
  <2> QED BY <2>1, <2>2
<1> QED BY <1>2, <1>3 DEF RowsFine

LEMMA IngestingFine ==
  ASSUME LibInv, RowsInv, HonestlySearched,
         NEW D, NEW more, NEW request, Ingesting(D, more, request)
  PROVE  SameKinds /\ RowsFine
<1>1. PICK bad \in SUBSET D : \E lost \in SUBSET bad : Ingested(D, bad, lost, request)
  BY Zenon DEF Ingesting
<1>2. PICK lost \in SUBSET bad : Ingested(D, bad, lost, request)
  BY <1>1
<1> QED BY <1>2, IngestedFine

-----------------------------------------------------------------------------
(* What is picked. *)

LEMMA MergedPicks ==
  ASSUME NEW picks, NEW p \in Merged(picks)
  PROVE  p \in picks \/ \E g \in Items : \E bypass, rank : p = Pick(g, bypass, TRUE, rank)
<1> DEFINE Of(g) == {q \in picks : GroupOf[q.item] = g}
           First(g) == CHOOSE q \in Of(g) : \A q2 \in Of(g) : q.rank <= q2.rank
<1>1. p \in picks \/ \E g \in Items : p = Pick(g, First(g).bypass, TRUE, First(g).rank)
  BY Zenon DEF Merged
<1> QED BY <1>1, Zenon

LEMMA WorksPickable ==
  ASSUME NEW year, NEW rank, NEW p \in Singles(year) \union Todays(year, rank)
  PROVE  Pickable(p)
<1>1. \E i \in Items : \E bypass, r : ~Group(i) /\ p = Pick(i, bypass, FALSE, r)
  BY Zenon DEF Singles, Todays
<1>2. PICK i \in Items : \E bypass, r : ~Group(i) /\ p = Pick(i, bypass, FALSE, r)
  BY <1>1
<1>3. PICK bypass, r : ~Group(i) /\ p = Pick(i, bypass, FALSE, r)
  BY <1>2
<1>4. p.item = i /\ p.group = FALSE
  BY <1>3 DEF Pick
<1> QED BY <1>3, <1>4 DEF Pickable

LEMMA GroupsPickable ==
  ASSUME NEW p, set.series # "no",
         \E g \in Items : \E bypass, rank : p = Pick(g, bypass, TRUE, rank)
  PROVE  Pickable(p)
<1>1. PICK g \in Items : \E bypass, rank : p = Pick(g, bypass, TRUE, rank)
  OBVIOUS
<1>2. PICK bypass, rank : p = Pick(g, bypass, TRUE, rank)
  BY <1>1
<1>3. p.item = g /\ p.group = TRUE
  BY <1>2 DEF Pick
<1> QED BY <1>3 DEF Pickable

LEMMA ListsPickable ==
  ASSUME NEW year, NEW T \in Lists(year), NEW p \in T
  PROVE  Pickable(p)
<1>1. CASE ~set.missing /\ ~set.upgrade
  <2>1. T = {}
    BY <1>1, Zenon DEF Lists
  <2> QED BY <2>1
<1>2. CASE ~(~set.missing /\ ~set.upgrade)
  <2>1. CASE set.series = "yes"
    <3>1. Lists(year) = {Series \union Todays(year, 0)}
      BY <1>2, <2>1, Zenon DEF Lists
    <3>2. p \in Series \/ p \in Todays(year, 0)
      BY <3>1
    <3>3. CASE p \in Series
      <4>1. \E g \in Items : \E bypass, rank : p = Pick(g, bypass, TRUE, rank)
        BY <3>3, Zenon DEF Series
      <4> QED BY <2>1, <4>1, GroupsPickable
    <3> QED BY <3>2, <3>3, WorksPickable
  <2>2. CASE set.series = "smart"
    <3>1. Lists(year) = {Merged(P \union Todays(year, 6)) : P \in OnePerSeries(Singles(year))}
      BY <1>2, <2>2, Zenon DEF Lists
    <3>2. PICK P \in OnePerSeries(Singles(year)) : T = Merged(P \union Todays(year, 6))
      BY <3>1
    <3>3. P \subseteq Singles(year)
      BY DEF OnePerSeries
    <3>4. CASE p \in P \union Todays(year, 6)
      BY <3>3, <3>4, WorksPickable
    <3>5. CASE \E g \in Items : \E bypass, rank : p = Pick(g, bypass, TRUE, rank)
      BY <2>2, <3>5, GroupsPickable
    <3> QED BY <3>2, <3>4, <3>5, MergedPicks
  <2>3. CASE set.series # "yes" /\ set.series # "smart"
    <3>1. Lists(year) = {P \union Todays(year, 6) : P \in OnePerSeries(Singles(year))}
      BY <1>2, <2>3, Zenon DEF Lists
    <3>2. PICK P \in OnePerSeries(Singles(year)) : T = P \union Todays(year, 6)
      BY <3>1
    <3>3. P \subseteq Singles(year)
      BY DEF OnePerSeries
    <3> QED BY <3>2, <3>3, WorksPickable
  <2> QED BY <2>1, <2>2, <2>3
<1> QED BY <1>1, <1>2

-----------------------------------------------------------------------------
(* The steps. *)

QueueFine ==
    /\ queue' \union seen' \subseteq {i \in Items : ~Group(i)}
    /\ "ids" \in DOMAIN mem' /\ mem'.ids = {Shown(i) : i \in seen'}
TodoFine == \A p \in todo' : Pickable(p)

LEMMA AllFine ==
  ASSUME LibInv, set' = set, SameKinds, QueueFine, TodoFine, RowsFine
  PROVE  LoopInv'
<1>1. LibInv' /\ \A i \in Items : Group(i)' = Group(i)
  BY LibKept
<1>2. QueueInv'
  BY <1>1 DEF QueueFine, QueueInv, Shown
<1>3. TodoInv'
  BY <1>1 DEF TodoFine, TodoInv, Pickable
<1> QED BY <1>1, <1>2, <1>3, RowsKept DEF LoopInv

\* What a step leaves alone stays as it is.
LEMMA Left ==
  ASSUME LoopInv
  PROVE  /\ lib' = lib => SameKinds
         /\ todo' \subseteq todo => TodoFine
         /\ UNCHANGED <<rows, why>> => RowsFine
         /\ queue' \subseteq queue /\ seen' = seen /\ "ids" \in DOMAIN mem' /\ mem'.ids = mem.ids
              => QueueFine
<1>1. lib' = lib => SameKinds
  BY DEF LoopInv, LibInv, SameKinds, Kind
<1>2. todo' \subseteq todo => TodoFine
  BY DEF LoopInv, TodoInv, TodoFine
<1>3. UNCHANGED <<rows, why>> => RowsFine
  BY DEF LoopInv, RowsInv, HonestlySearched, RowsFine, Held
<1>4. queue' \subseteq queue /\ seen' = seen /\ "ids" \in DOMAIN mem' /\ mem'.ids = mem.ids
        => QueueFine
  BY DEF LoopInv, QueueInv, QueueFine
<1> QED BY <1>1, <1>2, <1>3, <1>4

\* A look at the queue.
LEMMA Looked ==
  ASSUME QueueInv
  PROVE  /\ "ids" \in DOMAIN Refreshed(mem) /\ Refreshed(mem).ids = {Shown(i) : i \in SeenNow}
         /\ SeenNow \subseteq {i \in Items : ~Group(i)}
<1>1. CASE queue = {}
  BY <1>1 DEF QueueInv, Refreshed, SeenNow
<1>2. CASE queue # {}
  <2>1. Refreshed(mem) = [mem EXCEPT !.ids = {Shown(i) : i \in queue}] /\ SeenNow = queue
    BY <1>2, Zenon DEF Refreshed, SeenNow, Shown
  <2> QED BY <2>1 DEF QueueInv
<1> QED BY <1>1, <1>2

LEMMA LookedFine ==
  ASSUME QueueInv, queue' = queue, seen' = SeenNow,
         DOMAIN mem' = DOMAIN Refreshed(mem), mem'.ids = Refreshed(mem).ids
  PROVE  QueueFine
  BY Looked DEF QueueFine, QueueInv

\* The rows a search marks are those of the work that was picked, or none but its own.
LEMMA MarkedFine ==
  ASSUME LoopInv, NEW p \in todo, rows' = Marked(p), NEW reason, reason # "none",
         why' = Because(p, reason)
  PROVE  RowsFine
<1>1. Pickable(p)
  BY DEF LoopInv, TodoInv
<1>2. ASSUME NEW i \in Items
      PROVE  /\ rows'[i] # NoRow => RowFields \subseteq DOMAIN rows'[i]
             /\ ~Group(i) /\ rows'[i] # NoRow /\ rows'[i].searched => why'[i] # "none"
  <2>1. CASE Held(i) /\ ~Group(i) /\ Id[i] = Id[p.item]
    <3>1. i = p.item
      <4>1. Kind(i) \in Works
        BY <2>1 DEF LoopInv, LibInv, Group
      <4>2. set.series # "no" \/ Kind(p.item) \in Works
        BY <1>1 DEF Pickable, LoopInv, LibInv, Group
      <4> QED BY <1>1, <2>1, <4>1, <4>2 DEF LoopInv, LibInv, Apart, Pickable
    <3>2. why'[i] = reason
      BY <3>1 DEF Because
    <3>3. DOMAIN rows'[i] = DOMAIN rows[i]
      BY <2>1 DEF Marked
    <3> QED BY <2>1, <3>2, <3>3 DEF LoopInv, RowsInv
  <2>2. CASE ~(Held(i) /\ ~Group(i) /\ Id[i] = Id[p.item])
    <3>1. rows'[i] = rows[i] /\ why'[i] \in {why[i], reason}
      BY <2>2 DEF Marked, Because
    <3> QED BY <3>1 DEF LoopInv, RowsInv, HonestlySearched, Held
  <2> QED BY <2>1, <2>2
<1> QED BY <1>2 DEF RowsFine

\* What is skipped was in the queue the process saw.
LEMMA SkippedSeen ==
  ASSUME LoopInv, NEW p \in todo, ~p.group, Id[p.item] \in Refreshed(mem).ids
  PROVE  p.item \in SeenNow
<1>1. p.item \in Items /\ ~Group(p.item)
  BY DEF LoopInv, TodoInv, Pickable
<1>2. PICK i \in SeenNow : Id[p.item] = Shown(i)
  BY Looked DEF LoopInv
<1>3. i \in Items /\ ~Group(i)
  BY Looked DEF LoopInv
<1>4. Kind(p.item) \in Works
  BY <1>1 DEF LoopInv, LibInv, Group
<1>5. CASE set.series = "no"
  <2>1. Id[p.item] = Id[i] /\ Kind(i) \in Works
    BY <1>2, <1>3, <1>5 DEF Shown, LoopInv, LibInv, Group
  <2>2. p.item = i
    BY <1>1, <1>3, <1>4, <2>1 DEF LoopInv, LibInv, Apart
  <2> QED BY <2>2
<1>6. CASE set.series # "no"
  <2>1. Id[p.item] = Id[GroupOf[i]] /\ GroupOf[i] \in Items /\ Group(GroupOf[i])
    BY <1>2, <1>3, <1>6, LoopAssumption DEF Shown, LoopInv, LibInv
  <2>2. p.item = GroupOf[i]
    BY <1>1, <1>4, <1>6, <2>1 DEF LoopInv, LibInv, Apart
  <2> QED BY <1>1, <2>1, <2>2
<1> QED BY <1>5, <1>6

LEMMA TopFine == LoopInv /\ Top => LoopInv'
<1> SUFFICES ASSUME LoopInv, Top PROVE LoopInv'
    OBVIOUS
<1>1. UNCHANGED <<set, lib, queue, rows, todo, why, seen>>
  BY DEF Top, arr
<1>2. "ids" \in DOMAIN mem' /\ mem'.ids = mem.ids
  BY DEF Top, LoopInv, QueueInv
<1> QED BY <1>1, <1>2, Left, AllFine DEF LoopInv

LEMMA ResetFine == LoopInv /\ Reset => LoopInv'
<1> SUFFICES ASSUME LoopInv, Reset PROVE LoopInv'
    OBVIOUS
<1>1. UNCHANGED <<set, lib, queue, todo, seen>>
  BY DEF Reset, arr
<1>2. "ids" \in DOMAIN mem' /\ mem'.ids = mem.ids
  BY DEF Reset, LoopInv, QueueInv
<1>3. RowsFine
  <2>1. CASE UNCHANGED <<rows, why>>
    BY <2>1, Left
  <2>2. CASE /\ rows' = Cleared \/ rows' = Pruned({i \in here : Resettable(i)})
             /\ why' = [i \in Items |-> IF Cleared[i] # rows[i] THEN "none" ELSE why[i]]
    <3> SUFFICES ASSUME NEW i \in Items, rows'[i] # NoRow
                 PROVE  /\ RowFields \subseteq DOMAIN rows'[i]
                        /\ ~Group(i) /\ rows'[i].searched => why'[i] # "none"
        BY DEF RowsFine
    <3>1. rows'[i] = Cleared[i]
      BY <2>2 DEF Pruned
    <3>2. CASE Held(i) /\ Resettable(i) /\ rows[i].searched
      <4>1. Cleared[i] = [rows[i] EXCEPT !.searched = FALSE, !.upgrade = FALSE]
        BY <3>2 DEF Cleared
      <4>2. RowFields \subseteq DOMAIN rows[i]
        BY <3>2 DEF LoopInv, RowsInv
      <4> QED BY <3>1, <4>1, <4>2 DEF RowFields
    <3>3. CASE ~(Held(i) /\ Resettable(i) /\ rows[i].searched)
      <4>1. Cleared[i] = rows[i]
        BY <3>3 DEF Cleared
      <4> QED BY <2>2, <3>1, <4>1 DEF LoopInv, RowsInv, HonestlySearched, Held
    <3> QED BY <3>2, <3>3
  <2> QED BY <2>1, <2>2, Zenon DEF Reset
<1> QED BY <1>1, <1>2, <1>3, Left, AllFine DEF LoopInv

LEMMA RefreshFine == LoopInv /\ Refresh => LoopInv'
<1> SUFFICES ASSUME LoopInv, Refresh PROVE LoopInv'
    OBVIOUS
<1>1. UNCHANGED <<set, lib, queue, rows, todo, why>>
  BY DEF Refresh, arr
<1>2. QueueFine
  <2>1. CASE mem' = Refreshed(mem) /\ seen' = SeenNow
    BY <1>1, <2>1, LookedFine DEF LoopInv
  <2>2. CASE UNCHANGED <<mem, seen>>
    BY <1>1, <2>2, Left DEF LoopInv, QueueInv
  <2> QED BY <2>1, <2>2 DEF Refresh
<1> QED BY <1>1, <1>2, Left, AllFine DEF LoopInv

LEMMA IngestFine == LoopInv /\ Ingest => LoopInv'
<1> SUFFICES ASSUME LoopInv, Ingest PROVE LoopInv'
    OBVIOUS
<1>1. UNCHANGED <<set, queue, todo, seen>>
  BY Zenon DEF Ingest
<1>2. \E D, more : Ingesting(D, more, FALSE)
  BY Zenon DEF Ingest
<1>3. SameKinds /\ RowsFine
  BY <1>2, IngestingFine DEF LoopInv
<1>4. \/ mem' = [mem EXCEPT !.waited = FALSE]
      \/ mem' = [mem EXCEPT !.waited = FALSE, !.processed = TRUE]
      \/ mem' = mem
  BY Zenon DEF Ingest
<1>5. "ids" \in DOMAIN mem' /\ mem'.ids = mem.ids
  BY <1>4 DEF LoopInv, QueueInv
<1> QED BY <1>1, <1>3, <1>5, Left, AllFine DEF LoopInv

LEMMA TimeoutsFine == LoopInv /\ CheckTimeouts => LoopInv'
<1> SUFFICES ASSUME LoopInv, CheckTimeouts PROVE LoopInv'
    OBVIOUS
<1>1. UNCHANGED <<set, queue, todo, seen, why>>
  BY Zenon DEF CheckTimeouts
<1> DEFINE due == IF set.temp /\ set.timeout THEN {i \in Items : Expired(rows[i])} ELSE {}
           restore == {i \in due : rows[i].current \in Temps(set)}
           put(bad, lost) == (restore \intersect here) \ (bad \ lost)
           failed(bad) == bad \union (restore \ here)
           Back(bad, lost, o) == {i \in put(bad, lost) : Owner(i) = o}
           Profile(bad, lost) == [o \in Items |->
               IF Back(bad, lost, o) = {} THEN lib[o].profile
               ELSE rows[CHOOSE i \in Back(bad, lost, o) : TRUE].original]
<1>2. PICK bad \in SUBSET (restore \intersect here) : \E lost \in SUBSET bad :
        /\ lib' = WithProfiles(Profile(bad, lost))
        /\ rows' = [i \in Items |->
              IF i \in Settled(due, failed(bad)) THEN Untracked(rows[i]) ELSE rows[i]]
        /\ mem' = [mem EXCEPT !.waited = due # {}]
  BY Zenon DEF CheckTimeouts
<1>3. SameKinds
  <2>1. \E profile : lib' = WithProfiles(profile)
    BY <1>2, Zenon
  <2> QED BY <2>1, ProfilesKept DEF LoopInv
<1> HIDE DEF Profile, failed
<1>4. "ids" \in DOMAIN mem' /\ mem'.ids = mem.ids
  BY <1>2 DEF LoopInv, QueueInv
<1>5. RowsFine
  <2> SUFFICES ASSUME NEW i \in Items, rows'[i] # NoRow
               PROVE  /\ RowFields \subseteq DOMAIN rows'[i]
                      /\ ~Group(i) /\ rows'[i].searched => why'[i] # "none"
      BY DEF RowsFine
  <2>1. rows'[i] = rows[i] \/ (Expired(rows[i]) /\ rows'[i] = Untracked(rows[i]))
    <3>1. rows' = [j \in Items |->
              IF j \in Settled(due, failed(bad)) THEN Untracked(rows[j]) ELSE rows[j]]
      BY <1>2, Zenon
    <3>2. i \in due => Expired(rows[i])
      OBVIOUS
    <3> QED BY <3>1, <3>2, Zenon DEF Settled
  <2>2. CASE rows'[i] = rows[i]
    BY <1>1, <2>2 DEF LoopInv, RowsInv, HonestlySearched, Held
  <2>3. CASE Expired(rows[i]) /\ rows'[i] = Untracked(rows[i])
    <3>1. rows[i] # NoRow /\ RowFields \subseteq DOMAIN rows[i]
      BY <2>3 DEF Expired, LoopInv, RowsInv, Held
    <3>2. DOMAIN rows'[i] = DOMAIN rows[i] /\ rows'[i].searched = rows[i].searched
      BY <2>3, <3>1 DEF Untracked, RowFields
    <3> QED BY <1>1, <3>1, <3>2 DEF LoopInv, HonestlySearched, Held
  <2> QED BY <2>1, <2>2, <2>3
<1> QED BY <1>1, <1>3, <1>4, <1>5, Left, AllFine DEF LoopInv

LEMMA ServeFine == LoopInv /\ ServeRequests => LoopInv'
<1> SUFFICES ASSUME LoopInv, ServeRequests PROVE LoopInv'
    OBVIOUS
<1>1. UNCHANGED <<set, queue, mem, seen>>
  BY Zenon DEF ServeRequests
<1>2. (\E D, more : Ingesting(D, more, TRUE)) \/ UNCHANGED <<rows, lib, why>>
  BY Zenon DEF ServeRequests
<1>3. SameKinds /\ RowsFine
  <2>1. CASE \E D, more : Ingesting(D, more, TRUE)
    BY <2>1, IngestingFine DEF LoopInv
  <2>2. CASE UNCHANGED <<rows, lib, why>>
    BY <2>2, Left
  <2> QED BY <1>2, <2>1, <2>2
<1>4. \/ todo' = {Pick(i, TRUE, FALSE, 1) : i \in {j \in Items : RequestWanted(lib[j], rows'[j])}}
      \/ todo' = todo
  BY Zenon DEF ServeRequests
<1>5. TodoFine
  <2>1. CASE todo' = todo
    BY <2>1, Left
  <2>2. CASE todo' = {Pick(i, TRUE, FALSE, 1) : i \in {j \in Items : RequestWanted(lib[j], rows'[j])}}
    <3> SUFFICES ASSUME NEW p \in todo' PROVE Pickable(p)
        BY DEF TodoFine
    <3>1. PICK i \in Items : RequestWanted(lib[i], rows'[i]) /\ p = Pick(i, TRUE, FALSE, 1)
      BY <2>2
    <3>2. ~Group(i)
      BY <3>1 DEF RequestWanted, Group, Kind, Groups
    <3> QED BY <3>1, <3>2 DEF Pick, Pickable
  <2> QED BY <1>4, <2>1, <2>2
<1>6. QueueFine
  BY <1>1, Left DEF LoopInv, QueueInv
<1> QED BY <1>1, <1>3, <1>5, <1>6, AllFine DEF LoopInv

LEMMA TurnFine == LoopInv /\ Turn => LoopInv'
<1> SUFFICES ASSUME LoopInv, Turn PROVE LoopInv'
    OBVIOUS
<1>1. UNCHANGED <<set, lib, queue, rows, why>>
  BY DEF Turn, arr
<1>2. CASE mem' = NextYear(mem) /\ todo' \in Lists(mem'.year) /\ UNCHANGED seen
  <2>1. "ids" \in DOMAIN mem' /\ mem'.ids = mem.ids
    BY <1>2 DEF NextYear, LoopInv, QueueInv
  <2>2. TodoFine
    BY <1>2, ListsPickable DEF TodoFine
  <2> QED BY <1>1, <1>2, <2>1, <2>2, Left, AllFine DEF LoopInv
<1>3. CASE Restart /\ UNCHANGED todo
  <2>1. CASE /\ mem' = [Refreshed(mem) EXCEPT !.completed = TRUE, !.processed = FALSE]
             /\ seen' = SeenNow
    <3>1. DOMAIN mem' = DOMAIN Refreshed(mem) /\ mem'.ids = Refreshed(mem).ids
      BY <2>1, Looked DEF LoopInv
    <3>2. QueueFine
      BY <1>1, <2>1, <3>1, LookedFine DEF LoopInv
    <3> QED BY <1>1, <1>3, <3>2, Left, AllFine DEF LoopInv
  <2>2. CASE UNCHANGED <<mem, seen>>
    <3>1. QueueFine
      BY <1>1, <2>2, Left DEF LoopInv, QueueInv
    <3> QED BY <1>1, <1>3, <3>1, Left, AllFine DEF LoopInv
  <2> QED BY <1>3, <2>1, <2>2 DEF Restart
<1> QED BY <1>2, <1>3, Zenon DEF Turn

LEMMA SearchFine == LoopInv /\ Search => LoopInv'
<1> SUFFICES ASSUME LoopInv, Search PROVE LoopInv'
    OBVIOUS
<1>1. /\ UNCHANGED <<set, lib, queue>> /\ seen' = SeenNow
      /\ mem' = [Refreshed(mem) EXCEPT !.waited = TRUE]
  BY DEF Search
<1>2. DOMAIN mem' = DOMAIN Refreshed(mem) /\ mem'.ids = Refreshed(mem).ids
  BY <1>1, Looked DEF LoopInv
<1>3. QueueFine
  BY <1>1, <1>2, LookedFine DEF LoopInv
<1>4. PICK p \in todo : Skip(p) \/ Send(p)
  BY DEF Search, Foremost
<1>5. TodoFine
  <2>1. todo' = todo \ {p}
    BY <1>4 DEF Skip, Send
  <2> QED BY <2>1, Left
<1>6. rows' = Marked(p) /\ \E reason \in {"queued", "sent"} : why' = Because(p, reason)
  <2>1. CASE Skip(p)
    <3>1. ~p.group /\ Id[p.item] \in Refreshed(mem).ids /\ rows' = Marked(p)
      BY <2>1 DEF Skip
    <3>2. p.item \in SeenNow
      BY <3>1, SkippedSeen
    <3> QED BY <2>1, <3>1, <3>2, Zenon DEF Skip
  <2>2. CASE Send(p)
    BY <2>2, Zenon DEF Send
  <2> QED BY <1>4, <2>1, <2>2
<1>7. RowsFine
  BY <1>6, MarkedFine
<1> QED BY <1>1, <1>3, <1>5, <1>7, Left, AllFine DEF LoopInv

LEMMA EndFine == LoopInv /\ (SearchFails \/ SearchDone) => LoopInv'
<1> SUFFICES ASSUME LoopInv, SearchFails \/ SearchDone PROVE LoopInv'
    OBVIOUS
<1>1. UNCHANGED <<set, lib, queue, rows, why, seen>> /\ todo' \subseteq todo
  BY DEF SearchFails, SearchDone, arr
<1>2. "ids" \in DOMAIN mem' /\ mem'.ids = mem.ids
  BY DEF SearchFails, SearchDone, LoopInv, QueueInv
<1> QED BY <1>1, <1>2, Left, AllFine DEF LoopInv

LEMMA AroundFine == LoopInv /\ Around => LoopInv'
<1> SUFFICES ASSUME LoopInv, Around PROVE LoopInv'
    OBVIOUS
<1>1. CASE Finish
  BY <1>1, Left, AllFine DEF Finish, Process, LoopInv, QueueInv
<1>2. CASE Period
  <2>1. "ids" \in DOMAIN mem' /\ mem'.ids = mem.ids
    BY <1>2 DEF Period, LoopInv, QueueInv
  <2> QED BY <1>2, <2>1, Left, AllFine DEF Period, Process, arr, LoopInv
<1>3. CASE Crash
  <2>1. QueueFine
    BY <1>3 DEF Crash, arr, Fresh, LoopInv, QueueInv, QueueFine
  <2> QED BY <1>3, <2>1, Left, AllFine DEF Crash, arr, LoopInv
<1>4. CASE Expire
  <2>1. rows' = Aged /\ UNCHANGED <<set, lib, queue, mem, todo, why, seen>>
    BY <1>4 DEF Expire, arr
  <2>2. RowsFine
    <3> SUFFICES ASSUME NEW i \in Items, rows'[i] # NoRow
                 PROVE  /\ RowFields \subseteq DOMAIN rows'[i]
                        /\ ~Group(i) /\ rows'[i].searched => why'[i] # "none"
        BY DEF RowsFine
    <3>1. CASE Held(i) /\ rows[i].since = "now"
      <4>1. rows'[i] = [rows[i] EXCEPT !.since = "old"] /\ RowFields \subseteq DOMAIN rows[i]
        BY <2>1, <3>1 DEF Aged, LoopInv, RowsInv
      <4> QED BY <2>1, <3>1, <4>1 DEF RowFields, LoopInv, HonestlySearched
    <3>2. CASE ~(Held(i) /\ rows[i].since = "now")
      <4>1. rows'[i] = rows[i]
        BY <2>1, <3>2 DEF Aged
      <4> QED BY <2>1, <4>1 DEF LoopInv, RowsInv, HonestlySearched, Held
    <3> QED BY <3>1, <3>2
  <2> QED BY <2>1, <2>2, Left, AllFine DEF LoopInv, QueueInv
<1>5. ASSUME NEW i \in Items, Grab(i) PROVE LoopInv'
  <2>1. QueueFine
    BY <1>5 DEF Grab, Process, LoopInv, QueueInv, QueueFine
  <2> QED BY <1>5, <2>1, Left, AllFine DEF Grab, Process, LoopInv
<1>6. ASSUME NEW i \in Items, Import(i) PROVE LoopInv'
  <2>1. SameKinds
    BY <1>6 DEF Import, LoopInv, LibInv, SameKinds, Kind
  <2> QED BY <1>6, <2>1, Left, AllFine DEF Import, Process, LoopInv, QueueInv
<1>7. ASSUME NEW i \in Items, ReSearch(i) \/ Drop(i) PROVE LoopInv'
  BY <1>7, Left, AllFine DEF ReSearch, Drop, Process, LoopInv, QueueInv
<1> QED BY <1>1, <1>2, <1>3, <1>4, <1>5, <1>6, <1>7, Zenon DEF Around

\* If the numbers tell apart what is searched for, a row counts as searched only when the
\* Arr was told to search, had the entry in its queue, or has all of it: whatever calls
\* fail or lose their reply, and whenever the process is killed.
THEOREM HonestlySearchedHolds == Distinct => (Spec => []HonestlySearched)
<1> SUFFICES ASSUME Distinct PROVE Spec => []HonestlySearched
    OBVIOUS
<1>1. Init => LoopInv
  BY LoopInit
<1>2. LoopInv /\ [Next]_vars => LoopInv'
  <2>1. LoopInv /\ Loop => LoopInv'
    BY TopFine, ResetFine, RefreshFine, IngestFine, TimeoutsFine, ServeFine, TurnFine, SearchFine,
       EndFine, Zenon DEF Loop
  <2>2. LoopInv /\ UNCHANGED vars => LoopInv'
    BY Left, AllFine DEF vars, arr, LoopInv, QueueInv
  <2> QED BY <2>1, <2>2, AroundFine DEF Next
<1>3. LoopInv => HonestlySearched
  BY DEF LoopInv
<1> QED BY <1>1, <1>2, <1>3, PTL DEF Spec
=============================================================================
