-------------------------- MODULE ConfigFileProofs --------------------------
(***************************************************************************)
(* Proofs for ConfigFile and the migrations of ConfigRules, for any        *)
(* configuration an old release may have left and any number of requests   *)
(* and workers.                                                            *)
(***************************************************************************)
EXTENDS ConfigFile, TLAPS

-----------------------------------------------------------------------------
(* What the migrations keep. *)

Fields == {"version", "oldHost", "host", "secure", "behind", "settings", "arrs", "qbits"}

\* An entry: whatever its first key says, its second is one of the modes, if it is there.
EntryOk(e) == DOMAIN e = {"mode", "clear"} /\ e.clear \in Modes \cup {Unset}
ArrOk(a) ==
    /\ DOMAIN a = {"id", "profiles", "allow", "seeding", "trackers"}
    /\ EntryOk(a.seeding)
    /\ \A u \in DOMAIN a.trackers : EntryOk(a.trackers[u])
QbitOk(q) ==
    /\ DOMAIN q = {"has", "seeding", "trackers"}
    /\ "CategorySeeding" \in q.has => EntryOk(q.seeding)
    /\ \A u \in DOMAIN q.trackers : EntryOk(q.trackers[u])

\* A configuration as a release may have left it, with a name free for [Animarr].
ConfigOk(c) ==
    /\ DOMAIN c = Fields /\ c.version \in Nat
    /\ \A n \in DOMAIN c.arrs : ArrOk(c.arrs[n])
    /\ \A q \in DOMAIN c.qbits : QbitOk(c.qbits[q])
    /\ ~({"Animarr", "Sonarr", "Sonarr-Animarr"} \subseteq DOMAIN c.arrs)

\* What was chosen for one Arr, in a configuration that is to drop its own hit-and-run
\* settings or not, and for one qBit.
ArrChoice(a, dropped) ==
    [id |-> a.id, paired |-> a.profiles \in {"lists", "mapping"}, own |-> a.allow = "own",
     seeding |-> IF dropped THEN "disabled" ELSE Meant(a.seeding), trackers |-> MeantBy(a.trackers)]
QbitChoice(q) == [seeding |-> IF "CategorySeeding" \in q.has THEN Survives(q.seeding) ELSE "disabled",
                  trackers |-> MeantBy(q.trackers)]

\* The settings of the WebUI are where they belong.
Settled(c) == (c.host = Unset => c.oldHost = Unset) /\ (c.behind = Unset => c.secure = Unset)

\* No Arr has hit-and-run settings of its own left, if they were to go.
Gone(c) == Dropped(c) => \A n \in DOMAIN c.arrs : Meant(c.arrs[n].seeding) = "disabled"

Keeps(c, d) ==
    ConfigOk(d) /\ Choices(d) = Choices(c) /\ (Settled(c) => Settled(d)) /\ (Gone(c) => Gone(d))

\* Choices in terms of those of the sections.
LEMMA ChoicesBySection ==
  ASSUME NEW c
  PROVE  Choices(c) =
           [host |-> First(c.host, c.oldHost, "default"), behind |-> First(c.behind, c.secure, "no"),
            arrs |-> {ArrChoice(c.arrs[n], Dropped(c)) : n \in DOMAIN c.arrs},
            qbits |-> [q \in DOMAIN c.qbits |-> QbitChoice(c.qbits[q])]]
<1>1. {[id |-> a.id, paired |-> a.profiles \in {"lists", "mapping"}, own |-> a.allow = "own",
        seeding |-> IF Dropped(c) THEN "disabled" ELSE Meant(a.seeding),
        trackers |-> MeantBy(a.trackers)] : a \in {c.arrs[n] : n \in DOMAIN c.arrs}}
      = {ArrChoice(c.arrs[n], Dropped(c)) : n \in DOMAIN c.arrs}
  BY DEF ArrChoice
<1> QED BY <1>1 DEF Choices, QbitChoice

\* Entries that mean the same.
LEMMA MeantSame ==
  ASSUME NEW t, NEW r, DOMAIN r = DOMAIN t, \A u \in DOMAIN t : Survives(r[u]) = Survives(t[u])
  PROVE  MeantBy(r) = MeantBy(t)
BY DEF MeantBy

\* Sections of the same names with the same choices.
LEMMA SameSections ==
  ASSUME NEW c, NEW d, ConfigOk(c), DOMAIN d = Fields,
         d.host = c.host, d.oldHost = c.oldHost, d.secure = c.secure, d.behind = c.behind,
         d.version = c.version,
         DOMAIN d.arrs = DOMAIN c.arrs, DOMAIN d.qbits = DOMAIN c.qbits,
         \A n \in DOMAIN c.arrs :
            /\ ArrOk(d.arrs[n]) /\ ArrChoice(d.arrs[n], Dropped(c)) = ArrChoice(c.arrs[n], Dropped(c))
            /\ Meant(c.arrs[n].seeding) = "disabled" => Meant(d.arrs[n].seeding) = "disabled",
         \A q \in DOMAIN c.qbits : QbitOk(d.qbits[q]) /\ QbitChoice(d.qbits[q]) = QbitChoice(c.qbits[q])
  PROVE  Keeps(c, d)
<1>1. ConfigOk(d)
  BY DEF ConfigOk
<1>d. Dropped(d) = Dropped(c)
  BY DEF Dropped
<1>2. {ArrChoice(c.arrs[n], Dropped(c)) : n \in DOMAIN c.arrs}
      = {ArrChoice(d.arrs[n], Dropped(d)) : n \in DOMAIN d.arrs}
  BY <1>d
<1>3. [q \in DOMAIN c.qbits |-> QbitChoice(c.qbits[q])] = [q \in DOMAIN d.qbits |-> QbitChoice(d.qbits[q])]
  OBVIOUS
<1>4. Choices(d) = Choices(c)
  BY <1>2, <1>3, ChoicesBySection
<1>5. Gone(c) => Gone(d)
  BY <1>d DEF Gone
<1> QED BY <1>1, <1>4, <1>5 DEF Keeps, Settled

LEMMA CompletedMeans ==
  ASSUME NEW e, EntryOk(e)
  PROVE  EntryOk(Completed(e)) /\ Survives(Completed(e)) = Survives(e)
BY DEF EntryOk, Completed, Survives, Overruled, Meant, Modes, Unset

LEMMA SingleMeans ==
  ASSUME NEW e, EntryOk(e)
  PROVE  EntryOk(Single(e)) /\ Survives(Single(e)) = Survives(e)
BY DEF EntryOk, Single, Survives, Overruled, Meant, Modes, Unset

\* The hit-and-run fields are filled in everywhere.
LEMMA EntriesCompleted ==
  ASSUME NEW c, ConfigOk(c)
  PROVE  Keeps(c, InEntries(Completed, c))
<1> DEFINE d == InEntries(Completed, c)
           TrackersOf(t) == [u \in DOMAIN t |-> Completed(t[u])]
           ArrOf(a) == [a EXCEPT !.trackers = TrackersOf(a.trackers)]
           QbitOf(q) == [q EXCEPT !.seeding = IF "CategorySeeding" \in q.has THEN Completed(q.seeding)
                                              ELSE q.seeding,
                                  !.trackers = TrackersOf(q.trackers)]
           arrs == [n \in DOMAIN c.arrs |-> ArrOf(c.arrs[n])]
           qbits == [q \in DOMAIN c.qbits |-> QbitOf(c.qbits[q])]
<1>1. d = [c EXCEPT !.arrs = arrs, !.qbits = qbits]
  BY DEF InEntries, InArrs, InQbits, ConfigOk, Fields
<1>2. ASSUME NEW t, \A u \in DOMAIN t : EntryOk(t[u])
      PROVE  /\ \A u \in DOMAIN TrackersOf(t) : EntryOk(TrackersOf(t)[u])
             /\ MeantBy(TrackersOf(t)) = MeantBy(t)
  <2>1. DOMAIN TrackersOf(t) = DOMAIN t /\ \A u \in DOMAIN t : TrackersOf(t)[u] = Completed(t[u])
    OBVIOUS
  <2> HIDE DEF TrackersOf
  <2>2. \A u \in DOMAIN t : EntryOk(TrackersOf(t)[u]) /\ Survives(TrackersOf(t)[u]) = Survives(t[u])
    BY <1>2, <2>1, CompletedMeans
  <2> QED BY <2>1, <2>2, MeantSame
<1> HIDE DEF TrackersOf
<1>3. ASSUME NEW a, ArrOk(a), NEW dropped
      PROVE  /\ ArrOk(ArrOf(a)) /\ ArrOf(a).seeding = a.seeding
             /\ ArrChoice(ArrOf(a), dropped) = ArrChoice(a, dropped)
  BY <1>2, <1>3 DEF ArrOk, ArrChoice
<1>4. ASSUME NEW q, QbitOk(q) PROVE QbitOk(QbitOf(q)) /\ QbitChoice(QbitOf(q)) = QbitChoice(q)
  BY <1>2, <1>4, CompletedMeans DEF QbitOk, QbitChoice
<1> HIDE DEF ArrOf, QbitOf
<1>5. \A n \in DOMAIN c.arrs :
         /\ ArrOk(arrs[n]) /\ arrs[n].seeding = c.arrs[n].seeding
         /\ ArrChoice(arrs[n], Dropped(c)) = ArrChoice(c.arrs[n], Dropped(c))
  BY <1>3 DEF ConfigOk
<1>6. \A q \in DOMAIN c.qbits : QbitOk(qbits[q]) /\ QbitChoice(qbits[q]) = QbitChoice(c.qbits[q])
  BY <1>4 DEF ConfigOk
<1>7. DOMAIN arrs = DOMAIN c.arrs /\ DOMAIN qbits = DOMAIN c.qbits
  OBVIOUS
<1> HIDE DEF arrs, qbits, d
<1>8. /\ DOMAIN d = Fields /\ d.arrs = arrs /\ d.qbits = qbits
      /\ d.host = c.host /\ d.oldHost = c.oldHost /\ d.secure = c.secure /\ d.behind = c.behind
      /\ d.version = c.version
  BY <1>1 DEF ConfigOk, Fields
<1>9. Keeps(c, d)
  BY <1>5, <1>6, <1>7, <1>8, SameSections
<1> QED BY <1>9 DEF d

\* Two keys become one everywhere.
LEMMA EntriesSingle ==
  ASSUME NEW c, ConfigOk(c)
  PROVE  Keeps(c, InEntries(Single, c))
<1> DEFINE d == InEntries(Single, c)
           TrackersOf(t) == [u \in DOMAIN t |-> Single(t[u])]
           ArrOf(a) == [a EXCEPT !.trackers = TrackersOf(a.trackers)]
           QbitOf(q) == [q EXCEPT !.seeding = IF "CategorySeeding" \in q.has THEN Single(q.seeding)
                                              ELSE q.seeding,
                                  !.trackers = TrackersOf(q.trackers)]
           arrs == [n \in DOMAIN c.arrs |-> ArrOf(c.arrs[n])]
           qbits == [q \in DOMAIN c.qbits |-> QbitOf(c.qbits[q])]
<1>1. d = [c EXCEPT !.arrs = arrs, !.qbits = qbits]
  BY DEF InEntries, InArrs, InQbits, ConfigOk, Fields
<1>2. ASSUME NEW t, \A u \in DOMAIN t : EntryOk(t[u])
      PROVE  /\ \A u \in DOMAIN TrackersOf(t) : EntryOk(TrackersOf(t)[u])
             /\ MeantBy(TrackersOf(t)) = MeantBy(t)
  <2>1. DOMAIN TrackersOf(t) = DOMAIN t /\ \A u \in DOMAIN t : TrackersOf(t)[u] = Single(t[u])
    OBVIOUS
  <2> HIDE DEF TrackersOf
  <2>2. \A u \in DOMAIN t : EntryOk(TrackersOf(t)[u]) /\ Survives(TrackersOf(t)[u]) = Survives(t[u])
    BY <1>2, <2>1, SingleMeans
  <2> QED BY <2>1, <2>2, MeantSame
<1> HIDE DEF TrackersOf
<1>3. ASSUME NEW a, ArrOk(a), NEW dropped
      PROVE  /\ ArrOk(ArrOf(a)) /\ ArrOf(a).seeding = a.seeding
             /\ ArrChoice(ArrOf(a), dropped) = ArrChoice(a, dropped)
  BY <1>2, <1>3 DEF ArrOk, ArrChoice
<1>4. ASSUME NEW q, QbitOk(q) PROVE QbitOk(QbitOf(q)) /\ QbitChoice(QbitOf(q)) = QbitChoice(q)
  BY <1>2, <1>4, SingleMeans DEF QbitOk, QbitChoice
<1> HIDE DEF ArrOf, QbitOf
<1>5. \A n \in DOMAIN c.arrs :
         /\ ArrOk(arrs[n]) /\ arrs[n].seeding = c.arrs[n].seeding
         /\ ArrChoice(arrs[n], Dropped(c)) = ArrChoice(c.arrs[n], Dropped(c))
  BY <1>3 DEF ConfigOk
<1>6. \A q \in DOMAIN c.qbits : QbitOk(qbits[q]) /\ QbitChoice(qbits[q]) = QbitChoice(c.qbits[q])
  BY <1>4 DEF ConfigOk
<1>7. DOMAIN arrs = DOMAIN c.arrs /\ DOMAIN qbits = DOMAIN c.qbits
  OBVIOUS
<1> HIDE DEF arrs, qbits, d
<1>8. /\ DOMAIN d = Fields /\ d.arrs = arrs /\ d.qbits = qbits
      /\ d.host = c.host /\ d.oldHost = c.oldHost /\ d.secure = c.secure /\ d.behind = c.behind
      /\ d.version = c.version
  BY <1>1 DEF ConfigOk, Fields
<1>9. Keeps(c, d)
  BY <1>5, <1>6, <1>7, <1>8, SameSections
<1> QED BY <1>9 DEF d

\* The old settings of the WebUI are read where they are not set yet.
LEMMA MovedKeeps ==
  ASSUME NEW c, ConfigOk(c)
  PROVE  Keeps(c, MovedToWebUI(c)) /\ Settled(MovedToWebUI(c))
<1> DEFINE d == MovedToWebUI(c)
<1>1. /\ DOMAIN d = Fields /\ d.arrs = c.arrs /\ d.qbits = c.qbits /\ d.oldHost = c.oldHost
      /\ d.version = c.version
      /\ d.host = (IF c.host = Unset THEN c.oldHost ELSE c.host)
      /\ d.behind = (IF c.behind = Unset THEN c.secure ELSE c.behind)
      /\ d.secure = (IF c.behind = Unset THEN Unset ELSE c.secure)
  BY DEF MovedToWebUI, ConfigOk, Fields
<1> HIDE DEF d
<1>2. Settled(d)
  BY <1>1 DEF Settled
<1>3. /\ First(d.host, d.oldHost, "default") = First(c.host, c.oldHost, "default")
      /\ First(d.behind, d.secure, "no") = First(c.behind, c.secure, "no")
  BY <1>1 DEF First, Unset
<1>4. Choices(d) = Choices(c)
  BY <1>1, <1>3, ChoicesBySection DEF Dropped
<1>5. ConfigOk(d) /\ (Gone(c) => Gone(d))
  BY <1>1 DEF ConfigOk, Gone, Dropped
<1>6. Keeps(c, d) /\ Settled(d)
  BY <1>2, <1>4, <1>5 DEF Keeps
<1> QED BY <1>6 DEF d

\* The section gets a name no other one has.
LEMMA RenamedKeeps ==
  ASSUME NEW c, ConfigOk(c)
  PROVE  Keeps(c, Renamed(c))
<1>1. CASE "Animarr" \notin DOMAIN c.arrs
  BY <1>1 DEF Renamed, Keeps
<1>2. CASE "Animarr" \in DOMAIN c.arrs
  <2> DEFINE new == NewName(c)
             was(n) == IF n = new THEN "Animarr" ELSE n
             names == (DOMAIN c.arrs \ {"Animarr"}) \cup {new}
             arrs == [n \in names |-> c.arrs[was(n)]]
             d == Renamed(c)
  <2>1. new \notin DOMAIN c.arrs /\ new \in {"Sonarr", "Sonarr-Animarr"}
    BY <1>2 DEF NewName, ConfigOk
  <2>2. d = [c EXCEPT !.arrs = arrs]
    BY <1>2, Zenon DEF Renamed
  <2>3. \A n \in names : was(n) \in DOMAIN c.arrs
    BY <1>2
  <2>4. \A m \in DOMAIN c.arrs : \E n \in names : was(n) = m
    BY <1>2, <2>1
  <2> HIDE DEF was, names, new
  <2>5. DOMAIN arrs = names /\ \A n \in names : arrs[n] = c.arrs[was(n)]
    OBVIOUS
  <2> HIDE DEF arrs, d
  <2>6. /\ DOMAIN d = Fields /\ d.arrs = arrs /\ d.qbits = c.qbits /\ d.host = c.host
        /\ d.oldHost = c.oldHost /\ d.secure = c.secure /\ d.behind = c.behind /\ d.version = c.version
    BY <2>2 DEF ConfigOk, Fields
  <2>7. {ArrChoice(arrs[n], Dropped(c)) : n \in names}
        = {ArrChoice(c.arrs[m], Dropped(c)) : m \in DOMAIN c.arrs}
    BY <2>3, <2>4, <2>5
  <2>8. Choices(d) = Choices(c)
    <3>1. Dropped(d) = Dropped(c)
      BY <2>6 DEF Dropped
    <3>2. {ArrChoice(d.arrs[n], Dropped(d)) : n \in DOMAIN d.arrs}
          = {ArrChoice(c.arrs[m], Dropped(c)) : m \in DOMAIN c.arrs}
      BY <2>5, <2>6, <2>7, <3>1
    <3> QED BY <2>6, <3>2, ChoicesBySection
  <2>9. "Animarr" \notin names
    BY <2>1 DEF names
  <2>10. ConfigOk(d)
    BY <2>3, <2>5, <2>6, <2>9 DEF ConfigOk
  <2>11. Gone(c) => Gone(d)
    BY <2>3, <2>5, <2>6 DEF Gone, Dropped
  <2>12. Keeps(c, d)
    BY <2>6, <2>8, <2>10, <2>11 DEF Keeps, Settled
  <2> QED BY <2>12 DEF d
<1> QED BY <1>1, <1>2

\* Only the list Readarr was shipped with is replaced.
LEMMA WidenedKeeps ==
  ASSUME NEW c, ConfigOk(c)
  PROVE  Keeps(c, Widened(c))
<1> DEFINE d == Widened(c)
<1>1. /\ DOMAIN d = Fields /\ d.qbits = c.qbits /\ d.host = c.host
      /\ d.oldHost = c.oldHost /\ d.secure = c.secure /\ d.behind = c.behind
      /\ d.version = c.version /\ DOMAIN d.arrs = DOMAIN c.arrs
      /\ \A n \in DOMAIN c.arrs :
            d.arrs[n] = [c.arrs[n] EXCEPT !.allow = IF @ = "shipped" THEN "audio" ELSE @]
  BY DEF Widened, InArrs, ConfigOk, Fields
<1> HIDE DEF d
<1>2. ASSUME NEW n \in DOMAIN c.arrs
      PROVE  /\ ArrOk(d.arrs[n]) /\ d.arrs[n].seeding = c.arrs[n].seeding
             /\ ArrChoice(d.arrs[n], Dropped(c)) = ArrChoice(c.arrs[n], Dropped(c))
  <2> DEFINE x == d.arrs[n]
             y == c.arrs[n]
  <2>1. ArrOk(y) /\ x = [y EXCEPT !.allow = IF y.allow = "shipped" THEN "audio" ELSE y.allow]
    BY <1>1 DEF ConfigOk
  <2> HIDE DEF x, y
  <2>2. /\ DOMAIN x = {"id", "profiles", "allow", "seeding", "trackers"} /\ x.id = y.id
        /\ x.profiles = y.profiles /\ x.seeding = y.seeding /\ x.trackers = y.trackers
        /\ x.allow = "own" <=> y.allow = "own"
    BY <2>1 DEF ArrOk
  <2>3. ArrOk(x) /\ ArrChoice(x, Dropped(c)) = ArrChoice(y, Dropped(c))
    BY <2>1, <2>2 DEF ArrOk, ArrChoice
  <2> QED BY <2>2, <2>3 DEF x, y
<1>3. ASSUME NEW q \in DOMAIN c.qbits
      PROVE  QbitOk(d.qbits[q]) /\ QbitChoice(d.qbits[q]) = QbitChoice(c.qbits[q])
  BY <1>1 DEF ConfigOk
<1>4. Keeps(c, d)
  BY <1>1, <1>2, <1>3, SameSections
<1> QED BY <1>4 DEF d

\* Two lists become a mapping, which pairs the same profiles.
LEMMA MappedKeeps ==
  ASSUME NEW c, ConfigOk(c)
  PROVE  Keeps(c, Mapped(c))
<1>1. CASE c.version >= Profiles
  BY <1>1 DEF Mapped, Keeps
<1>2. CASE ~(c.version >= Profiles)
  <2> DEFINE d == Mapped(c)
  <2>1. /\ DOMAIN d = Fields /\ d.qbits = c.qbits /\ d.host = c.host
        /\ d.oldHost = c.oldHost /\ d.secure = c.secure /\ d.behind = c.behind
        /\ d.version = c.version /\ DOMAIN d.arrs = DOMAIN c.arrs
        /\ \A n \in DOMAIN c.arrs :
              d.arrs[n] = IF c.arrs[n].profiles = "lists" /\ n # "Animarr"
                          THEN [c.arrs[n] EXCEPT !.profiles = "mapping"] ELSE c.arrs[n]
    BY <1>2 DEF Mapped, ConfigOk, Fields
  <2> HIDE DEF d
  <2>2. ASSUME NEW n \in DOMAIN c.arrs
        PROVE  /\ ArrOk(d.arrs[n]) /\ d.arrs[n].seeding = c.arrs[n].seeding
               /\ ArrChoice(d.arrs[n], Dropped(c)) = ArrChoice(c.arrs[n], Dropped(c))
    <3> DEFINE x == d.arrs[n]
               y == c.arrs[n]
    <3>1. ArrOk(y)
      BY DEF ConfigOk
    <3>2. x = y \/ (y.profiles = "lists" /\ x = [y EXCEPT !.profiles = "mapping"])
      BY <2>1
    <3> HIDE DEF x, y
    <3>3. ASSUME y.profiles = "lists", x = [y EXCEPT !.profiles = "mapping"]
          PROVE  /\ DOMAIN x = {"id", "profiles", "allow", "seeding", "trackers"}
                 /\ x.profiles = "mapping" /\ x.seeding = y.seeding /\ x.id = y.id /\ x.allow = y.allow /\ x.trackers = y.trackers
      BY <3>1, <3>3 DEF ArrOk
    <3>4. ArrOk(x) /\ x.seeding = y.seeding /\ ArrChoice(x, Dropped(c)) = ArrChoice(y, Dropped(c))
      BY <3>1, <3>2, <3>3 DEF ArrOk, ArrChoice
    <3> QED BY <3>4 DEF x, y
  <2>3. ASSUME NEW q \in DOMAIN c.qbits
        PROVE  QbitOk(d.qbits[q]) /\ QbitChoice(d.qbits[q]) = QbitChoice(c.qbits[q])
    BY <2>1 DEF ConfigOk
  <2>4. Keeps(c, d)
    BY <2>1, <2>2, <2>3, SameSections
  <2> QED BY <2>4 DEF d
<1> QED BY <1>1, <1>2

\* The settings that are only added.
LEMMA RestartsKeep ==
  ASSUME NEW c, ConfigOk(c)
  PROVE  Keeps(c, WithRestarts(c))
<1>1. ASSUME NEW d, DOMAIN d = Fields, d.arrs = c.arrs, d.qbits = c.qbits, d.host = c.host,
             d.oldHost = c.oldHost, d.secure = c.secure, d.behind = c.behind, d.version = c.version
      PROVE  Keeps(c, d)
  BY <1>1, SameSections DEF ConfigOk
<1> QED BY <1>1 DEF WithRestarts, ConfigOk, Fields, Keeps

\* The new release number: what was to be dropped is gone.
LEMMA CountedKeeps ==
  ASSUME NEW c, ConfigOk(c), Gone(c)
  PROVE  ConfigOk(Counted(c)) /\ Choices(Counted(c)) = Choices(c)
<1> DEFINE d == Counted(c)
<1>1. /\ DOMAIN d = Fields /\ d.arrs = c.arrs /\ d.qbits = c.qbits /\ d.host = c.host
      /\ d.oldHost = c.oldHost /\ d.secure = c.secure /\ d.behind = c.behind
      /\ d.version = IF c.version < Expected THEN Expected ELSE c.version
  BY DEF Counted, ConfigOk, Fields
<1> HIDE DEF d
<1>2. ~Dropped(d)
  BY <1>1 DEF Dropped, Expected, HitAndRun, ConfigOk
<1>3. \A n \in DOMAIN c.arrs : ArrChoice(d.arrs[n], Dropped(d)) = ArrChoice(c.arrs[n], Dropped(c))
  BY <1>1, <1>2 DEF ArrChoice, Gone
<1>4. {ArrChoice(c.arrs[n], Dropped(c)) : n \in DOMAIN c.arrs}
      = {ArrChoice(d.arrs[n], Dropped(d)) : n \in DOMAIN d.arrs}
  BY <1>1, <1>3
<1>5. Choices(d) = Choices(c)
  BY <1>1, <1>4, ChoicesBySection
<1>6. ConfigOk(d)
  BY <1>1 DEF ConfigOk, Expected
<1> QED BY <1>5, <1>6 DEF d

\* The changes of the qBit sections: a category without seeding settings had none.
LEMMA QbitsKeep ==
  ASSUME NEW c, ConfigOk(c)
  PROVE  Keeps(c, WithCategories(c)) /\ Keeps(c, WithMatch(c))
<1>1. ASSUME NEW d, DOMAIN d = Fields, d.arrs = c.arrs, d.host = c.host, d.version = c.version,
             d.oldHost = c.oldHost, d.secure = c.secure, d.behind = c.behind,
             DOMAIN d.qbits = DOMAIN c.qbits,
             \A q \in DOMAIN c.qbits : QbitOk(d.qbits[q]) /\ QbitChoice(d.qbits[q]) = QbitChoice(c.qbits[q])
      PROVE  Keeps(c, d)
  BY <1>1, SameSections DEF ConfigOk
<1>2. ASSUME c.version >= Categories PROVE Keeps(c, WithCategories(c))
  <2>1. WithCategories(c) = c
    BY <1>2, Zenon DEF WithCategories
  <2> QED BY <2>1 DEF Keeps
<1>3. ASSUME ~(c.version >= Categories) PROVE Keeps(c, WithCategories(c))
  <2> DEFINE d == WithCategories(c)
  <2>1. /\ DOMAIN d = Fields /\ d.arrs = c.arrs /\ d.host = c.host
        /\ d.oldHost = c.oldHost /\ d.secure = c.secure /\ d.behind = c.behind
        /\ d.version = c.version /\ DOMAIN d.qbits = DOMAIN c.qbits
        /\ \A q \in DOMAIN c.qbits : d.qbits[q] =
              [c.qbits[q] EXCEPT !.has = @ \cup {"ManagedCategories", "CategorySeeding"},
                                 !.seeding = IF "CategorySeeding" \in c.qbits[q].has THEN @ ELSE Off]
    BY <1>3 DEF WithCategories, InQbits, ConfigOk, Fields
  <2> HIDE DEF d
  <2>2. EntryOk(Off) /\ Survives(Off) = "disabled"
    BY DEF EntryOk, Survives, Overruled, Meant, Off, Modes, Unset
  <2>3. ASSUME NEW q \in DOMAIN c.qbits
        PROVE  QbitOk(d.qbits[q]) /\ QbitChoice(d.qbits[q]) = QbitChoice(c.qbits[q])
    <3> DEFINE x == d.qbits[q]
    <3> DEFINE y == c.qbits[q]
    <3>0. QbitOk(y) /\ x = [y EXCEPT !.has = y.has \cup {"ManagedCategories", "CategorySeeding"},
                                     !.seeding = IF "CategorySeeding" \in y.has THEN y.seeding ELSE Off]
      BY <2>1 DEF ConfigOk
    <3> HIDE DEF x, y
    <3>1. /\ DOMAIN x = {"has", "seeding", "trackers"} /\ x.trackers = y.trackers
          /\ x.seeding = (IF "CategorySeeding" \in y.has THEN y.seeding ELSE Off)
          /\ "CategorySeeding" \in x.has
      BY <3>0 DEF QbitOk
    <3>2. QbitOk(x) /\ QbitChoice(x) = QbitChoice(y)
      BY <2>2, <3>0, <3>1 DEF QbitOk, QbitChoice
    <3> QED BY <3>2 DEF x, y
  <2>4. Keeps(c, d)
    BY <1>1, <2>1, <2>3
  <2> QED BY <2>4 DEF d
<1>4. Keeps(c, WithMatch(c))
  <2> DEFINE d == WithMatch(c)
  <2>1. /\ DOMAIN d = Fields /\ d.arrs = c.arrs /\ d.host = c.host
        /\ d.oldHost = c.oldHost /\ d.secure = c.secure /\ d.behind = c.behind
        /\ d.version = c.version /\ DOMAIN d.qbits = DOMAIN c.qbits
        /\ \A q \in DOMAIN c.qbits : d.qbits[q] = [c.qbits[q] EXCEPT !.has = @ \cup {"MatchSubcategories"}]
    BY DEF WithMatch, InQbits, ConfigOk, Fields
  <2> HIDE DEF d
  <2>2. ASSUME NEW q \in DOMAIN c.qbits
        PROVE  QbitOk(d.qbits[q]) /\ QbitChoice(d.qbits[q]) = QbitChoice(c.qbits[q])
    <3> DEFINE x == d.qbits[q]
               y == c.qbits[q]
    <3>1. QbitOk(y) /\ x = [y EXCEPT !.has = y.has \cup {"MatchSubcategories"}]
      BY <2>1 DEF ConfigOk
    <3> HIDE DEF x, y
    <3>2. /\ DOMAIN x = {"has", "seeding", "trackers"} /\ x.trackers = y.trackers
          /\ x.seeding = y.seeding /\ x.has = y.has \cup {"MatchSubcategories"}
      BY <3>1 DEF QbitOk
    <3>3. "CategorySeeding" \in x.has <=> "CategorySeeding" \in y.has
      BY <3>2
    <3>4. QbitOk(x) /\ QbitChoice(x) = QbitChoice(y)
      BY <3>1, <3>2, <3>3 DEF QbitOk, QbitChoice
    <3> QED BY <3>4 DEF x, y
  <2>3. Keeps(c, d)
    BY <1>1, <2>1, <2>2
  <2> QED BY <2>3 DEF d
<1> QED BY <1>2, <1>3, <1>4

\* Deleting what is to be dropped changes nothing that is to survive.
Cleared(c) == InArrs(LAMBDA a : [a EXCEPT !.seeding.mode = Unset], c)
LEMMA ClearedKeeps ==
  ASSUME NEW c, ConfigOk(c), Dropped(c)
  PROVE  Keeps(c, Cleared(c)) /\ Gone(Cleared(c))
<1> DEFINE d == Cleared(c)
<1>1. /\ DOMAIN d = Fields /\ d.qbits = c.qbits /\ d.host = c.host
      /\ d.oldHost = c.oldHost /\ d.secure = c.secure /\ d.behind = c.behind
      /\ d.version = c.version /\ DOMAIN d.arrs = DOMAIN c.arrs
      /\ \A n \in DOMAIN c.arrs : d.arrs[n] = [c.arrs[n] EXCEPT !.seeding.mode = Unset]
  BY DEF Cleared, InArrs, ConfigOk, Fields
<1> HIDE DEF d
<1>2. ASSUME NEW n \in DOMAIN c.arrs
      PROVE  /\ ArrOk(d.arrs[n]) /\ Meant(d.arrs[n].seeding) = "disabled"
             /\ ArrChoice(d.arrs[n], Dropped(c)) = ArrChoice(c.arrs[n], Dropped(c))
  <2> DEFINE x == d.arrs[n]
             y == c.arrs[n]
  <2>1. ArrOk(y) /\ x = [y EXCEPT !.seeding = [y.seeding EXCEPT !.mode = Unset]]
    BY <1>1 DEF ConfigOk
  <2> HIDE DEF x, y
  <2>2. /\ DOMAIN x = {"id", "profiles", "allow", "seeding", "trackers"}
        /\ x.id = y.id /\ x.profiles = y.profiles /\ x.allow = y.allow /\ x.trackers = y.trackers
        /\ x.seeding = [y.seeding EXCEPT !.mode = Unset]
    BY <2>1 DEF ArrOk
  <2>3. EntryOk(x.seeding) /\ Meant(x.seeding) = "disabled"
    BY <2>1, <2>2 DEF ArrOk, EntryOk, Meant, Modes, Unset
  <2>4. ArrOk(x) /\ ArrChoice(x, Dropped(c)) = ArrChoice(y, Dropped(c))
    BY <2>1, <2>2, <2>3 DEF ArrOk, ArrChoice
  <2> QED BY <2>3, <2>4 DEF x, y
<1>3. ASSUME NEW q \in DOMAIN c.qbits
      PROVE  QbitOk(d.qbits[q]) /\ QbitChoice(d.qbits[q]) = QbitChoice(c.qbits[q])
  BY <1>1 DEF ConfigOk
<1>4. Keeps(c, d)
  BY <1>1, <1>2, <1>3, SameSections
<1>5. Gone(d)
  BY <1>1, <1>2 DEF Gone
<1> QED BY <1>4, <1>5 DEF d

\* The settings of the Arrs are deleted and the entries completed.
LEMMA HitAndRunKeeps ==
  ASSUME NEW c, ConfigOk(c)
  PROVE  Keeps(c, WithHitAndRun(c)) /\ Gone(WithHitAndRun(c))
<1>1. CASE c.version >= HitAndRun
  <2>1. WithHitAndRun(c) = c
    BY <1>1, Zenon DEF WithHitAndRun
  <2> QED BY <1>1, <2>1 DEF Keeps, Gone, Dropped, HitAndRun, ConfigOk
<1>2. CASE ~(c.version >= HitAndRun)
  <2> DEFINE k == Cleared(c)
             e == InEntries(Completed, k)
             d == WithHitAndRun(c)
  <2>d. Dropped(c)
    BY <1>2 DEF Dropped, HitAndRun, ConfigOk
  <2>k. Keeps(c, k) /\ Gone(k)
    BY <2>d, ClearedKeeps
  <2>1. Keeps(c, e) /\ Gone(e)
    BY <2>k, EntriesCompleted DEF Keeps
  <2>2. d = [e EXCEPT !.qbits = [q \in DOMAIN e.qbits |->
                                    [e.qbits[q] EXCEPT !.has = @ \cup {"Trackers"}]]]
    BY <1>2 DEF WithHitAndRun, InQbits, Cleared
  <2> HIDE DEF d, e, k
  <2>3. /\ DOMAIN d = Fields /\ d.arrs = e.arrs /\ d.host = e.host
        /\ d.oldHost = e.oldHost /\ d.secure = e.secure /\ d.behind = e.behind
        /\ d.version = e.version /\ DOMAIN d.qbits = DOMAIN e.qbits
        /\ \A q \in DOMAIN e.qbits : d.qbits[q] = [e.qbits[q] EXCEPT !.has = @ \cup {"Trackers"}]
    BY <2>1, <2>2 DEF Keeps, ConfigOk, Fields
  <2>4. ASSUME NEW q \in DOMAIN e.qbits
        PROVE  QbitOk(d.qbits[q]) /\ QbitChoice(d.qbits[q]) = QbitChoice(e.qbits[q])
    <3> DEFINE x == d.qbits[q]
               y == e.qbits[q]
    <3>1. QbitOk(y) /\ x = [y EXCEPT !.has = y.has \cup {"Trackers"}]
      BY <2>1, <2>3 DEF ConfigOk, Keeps
    <3> HIDE DEF x, y
    <3>2. /\ DOMAIN x = {"has", "seeding", "trackers"} /\ x.trackers = y.trackers
          /\ x.seeding = y.seeding /\ x.has = y.has \cup {"Trackers"}
      BY <3>1 DEF QbitOk
    <3>3. "CategorySeeding" \in x.has <=> "CategorySeeding" \in y.has
      BY <3>2
    <3>4. QbitOk(x) /\ QbitChoice(x) = QbitChoice(y)
      BY <3>1, <3>2, <3>3 DEF QbitOk, QbitChoice
    <3> QED BY <3>4 DEF x, y
  <2>5. Keeps(e, d)
    BY <2>1, <2>3, <2>4, SameSections DEF ConfigOk, Keeps
  <2>6. Keeps(c, d) /\ Gone(d)
    BY <2>1, <2>5 DEF Keeps
  <2> QED BY <2>6 DEF d
<1> QED BY <1>1, <1>2

LEMMA SingleKeyKeeps ==
  ASSUME NEW c, ConfigOk(c)
  PROVE  Keeps(c, WithSingleKey(c))
<1>1. WithSingleKey(c) = c \/ WithSingleKey(c) = InEntries(Single, c)
  BY Zenon DEF WithSingleKey
<1>2. Keeps(c, c)
  BY DEF Keeps
<1> QED BY <1>1, <1>2, EntriesSingle

\* The defaults are those that were in force.
LEMMA FilledKeeps ==
  ASSUME NEW c, ConfigOk(c), Settled(c)
  PROVE  Keeps(c, Filled(c))
<1> DEFINE d == [c EXCEPT !.host = IF @ = Unset THEN "default" ELSE @,
                          !.behind = IF @ = Unset THEN "no" ELSE @,
                          !.settings = {"restarts", "others"}]
<1>1. /\ DOMAIN d = Fields /\ d.arrs = c.arrs /\ d.qbits = c.qbits
      /\ d.oldHost = c.oldHost /\ d.secure = c.secure /\ d.version = c.version
      /\ d.host = (IF c.host = Unset THEN "default" ELSE c.host)
      /\ d.behind = (IF c.behind = Unset THEN "no" ELSE c.behind)
  BY DEF ConfigOk, Fields
<1>2. Filled(c) = InEntries(Completed, d)
  BY Zenon DEF Filled
<1> HIDE DEF d
<1>3. /\ First(d.host, d.oldHost, "default") = First(c.host, c.oldHost, "default")
      /\ First(d.behind, d.secure, "no") = First(c.behind, c.secure, "no")
  BY <1>1 DEF First, Unset, Settled
<1>4. Choices(d) = Choices(c)
  BY <1>1, <1>3, ChoicesBySection DEF Dropped
<1>5. ConfigOk(d) /\ Settled(d) /\ (Gone(c) => Gone(d))
  BY <1>1 DEF ConfigOk, Settled, Unset, Gone, Dropped
<1>6. Keeps(d, Filled(c))
  BY <1>2, <1>5, EntriesCompleted
<1> QED BY <1>4, <1>5, <1>6 DEF Keeps

\* Whatever a release left: all migrations together keep what the user has chosen.
LEMMA UpgradedKeeps ==
  ASSUME NEW c, ConfigOk(c)
  PROVE  ConfigOk(Upgraded(c)) /\ Choices(Upgraded(c)) = Choices(c)
<1>1. PICK m : m = MovedToWebUI(c)
  OBVIOUS
<1>2. ConfigOk(m) /\ Settled(m) /\ Choices(m) = Choices(c)
  BY <1>1, MovedKeeps DEF Keeps
<1>3. PICK k : k = Mapped(Widened(Renamed(m)))
  OBVIOUS
<1>4. ConfigOk(k) /\ Settled(k) /\ Choices(k) = Choices(c)
  BY <1>2, <1>3, RenamedKeeps, WidenedKeeps, MappedKeeps DEF Keeps
<1>5. PICK w : w = WithMatch(WithCategories(WithRestarts(k)))
  OBVIOUS
<1>6. ConfigOk(w) /\ Settled(w) /\ Choices(w) = Choices(c)
  BY <1>4, <1>5, RestartsKeep, QbitsKeep DEF Keeps
<1>7. PICK h : h = WithHitAndRun(w)
  OBVIOUS
<1>8. ConfigOk(h) /\ Settled(h) /\ Gone(h) /\ Choices(h) = Choices(c)
  BY <1>6, <1>7, HitAndRunKeeps DEF Keeps
<1>9. PICK s : s = WithSingleKey(h)
  OBVIOUS
<1>10. ConfigOk(s) /\ Settled(s) /\ Gone(s) /\ Choices(s) = Choices(c)
  BY <1>8, <1>9, SingleKeyKeeps DEF Keeps
<1>11. PICK f : f = Filled(s)
  OBVIOUS
<1>12. ConfigOk(f) /\ Gone(f) /\ Choices(f) = Choices(c)
  BY <1>10, <1>11, FilledKeeps DEF Keeps
<1>13. Upgraded(c) = Counted(f)
  BY <1>1, <1>3, <1>5, <1>7, <1>9, <1>11 DEF Upgraded, Finished, Moved
<1> QED BY <1>12, <1>13, CountedKeeps

-----------------------------------------------------------------------------
(* What the user has chosen. *)

\* The premise, what a configuration is: a second key is one of the modes, and [Animarr] has
\* a name to go to.
FoundOk == \A c \in Found : ConfigOk(c)

Chosen(c) == ConfigOk(c) /\ Choices(c) = wanted

\* Requests are answered while the program is up, and nobody is blind before.
Up ==
    /\ DOMAIN request = Request /\ DOMAIN edit = Request
    /\ \A r \in Request : /\ Open(r) => main = "up" /\ edit[r].host # Unset
                          /\ request[r] \in {"idle", "edited", "writing", "over"}
    /\ "main" \in blind => main = "up"

Unharmed == ~clash /\ torn = "no"

\* As long as no requests overlap there is one writer, and the shared copy is the file with
\* the change of the one request.
Alone ==
    /\ \A r \in Request : request[r] # "over" /\ (Open(r) => ~Busy(r))
    /\ main # "writing" /\ (\A r \in Request : ~Writing(r)) => Chosen(file)
    /\ main = "loaded" => mem = file
    /\ main \in {"changed", "writing"} => Chosen(mem)
    /\ main = "ready" => mem = file
    /\ main = "up" /\ "main" \notin blind /\ (\A r \in Request : ~Open(r)) => mem = file
    /\ \A r \in Request : request[r] = "edited" /\ "main" \notin blind =>
                              mem = [file EXCEPT !.host = edit[r].host]
    /\ \A r \in Request : request[r] = "writing" =>
                              /\ ConfigOk(mem)
                              /\ Choices(mem) = [wanted EXCEPT !.host = edit[r].host]

Kept == Up /\ (Unharmed => Alone)

\* The edited setting is one of the choices.
LEMMA HostChosen ==
  ASSUME NEW c, ConfigOk(c), NEW h, h # Unset, NEW d, d = [c EXCEPT !.host = h]
  PROVE  ConfigOk(d) /\ Choices(d) = [Choices(c) EXCEPT !.host = h]
<1>1. /\ DOMAIN d = Fields /\ d.arrs = c.arrs /\ d.qbits = c.qbits
      /\ d.oldHost = c.oldHost /\ d.secure = c.secure /\ d.host = h /\ d.behind = c.behind
      /\ d.version = c.version
  BY DEF ConfigOk, Fields
<1>2. ConfigOk(d)
  BY <1>1 DEF ConfigOk
<1> DEFINE arrs == {ArrChoice(c.arrs[n], Dropped(c)) : n \in DOMAIN c.arrs}
           qbits == [q \in DOMAIN c.qbits |-> QbitChoice(c.qbits[q])]
           behind == First(c.behind, c.secure, "no")
           old == First(c.host, c.oldHost, "default")
<1>3. First(d.host, d.oldHost, "default") = h
  BY <1>1 DEF First
<1>4. Choices(c) = [host |-> old, behind |-> behind, arrs |-> arrs, qbits |-> qbits]
  BY ChoicesBySection, Zenon
<1>5. Choices(d) = [host |-> h, behind |-> behind, arrs |-> arrs, qbits |-> qbits]
  <2>1. /\ arrs = {ArrChoice(d.arrs[n], Dropped(d)) : n \in DOMAIN d.arrs}
        /\ qbits = [q \in DOMAIN d.qbits |-> QbitChoice(d.qbits[q])]
        /\ behind = First(d.behind, d.secure, "no")
    BY <1>1 DEF Dropped
  <2> HIDE DEF arrs, qbits, behind
  <2> QED BY <1>3, <2>1, ChoicesBySection, Zenon
<1> HIDE DEF arrs, qbits, behind, old
<1>6. Choices(d) = [Choices(c) EXCEPT !.host = h]
  BY <1>4, <1>5
<1> QED BY <1>2, <1>6

LEMMA KeptInit == FoundOk /\ Init => Kept
  BY DEF FoundOk, Init, Kept, Up, Alone, Open, Writing, Chosen

LEMMA UpNext == FileAssumption /\ Up /\ [Next]_vars => Up'
<1> SUFFICES ASSUME FileAssumption, Up, [Next]_vars PROVE Up'
  OBVIOUS
<1> USE DEF Up, Open
<1>1. CASE Boot
  BY <1>1 DEF Boot, Start, Migrate, Truncate, Store, Fork, disk, copies, requests, history
<1>2. CASE MigrateRaises \/ Block
  BY <1>2 DEF MigrateRaises, Block, disk, copies, requests, history
<1>3. CASE Crash
  BY <1>3 DEF Crash, disk
<1>4. CASE View
  BY <1>4 DEF View, disk, requests
<1>5. ASSUME NEW r \in Request, NEW h \in Host, NEW valid \in BOOLEAN, Edit(r, h, valid) PROVE Up'
  BY <1>5 DEF Edit, disk, FileAssumption
<1>6. ASSUME NEW r \in Request, Answer(r) PROVE Up'
  <2>1. CASE Reject(r)
    BY <2>1 DEF Reject, disk
  <2>2. CASE Save(r)
    BY <2>2 DEF Save, Others, copies, history
  <2>3. CASE Written(r)
    BY <2>3 DEF Written, Others, Writing, copies
  <2>4. CASE SaveFails(r)
    BY <2>4 DEF SaveFails, disk, history
  <2> QED BY <1>6, <2>1, <2>2, <2>3, <2>4 DEF Answer
<1>7. ASSUME NEW w \in Worker, Sync(w) \/ Respawn(w) PROVE Up'
  BY <1>7 DEF Sync, Respawn, disk, requests, history, FileAssumption
<1>8. CASE UNCHANGED vars
  BY <1>8 DEF vars, copies, requests
<1> QED BY <1>1, <1>2, <1>3, <1>4, <1>5, <1>6, <1>7, <1>8 DEF Next

\* The steps that change neither the file, the shared copy nor who has it open.
LEMMA AloneNext == FileAssumption /\ Kept /\ [Next]_vars /\ Unharmed' => Alone'
<1> SUFFICES ASSUME FileAssumption, Up, [Next]_vars, Unharmed', Unharmed => Alone PROVE Alone'
  BY DEF Kept
<1> USE DEF Up, Open, Writing, Chosen
<1>1. CASE Start
  BY <1>1 DEF Start, Unharmed, Alone, disk, requests, Busy
<1>2. CASE Migrate
  <2>1. Alone /\ Chosen(mem) /\ mem = file
    BY <1>2 DEF Migrate, Unharmed, Alone, requests, history
  <2>2. ConfigOk(mem') /\ Choices(mem') = wanted
    BY <1>2, <2>1, UpgradedKeeps DEF Migrate, Upgraded
  <2> QED BY <1>2, <2>1, <2>2 DEF Migrate, Alone, requests, history, Busy
<1>3. CASE Truncate
  BY <1>3 DEF Truncate, Unharmed, Alone, copies, requests, history, Busy
<1>4. CASE Store
  BY <1>4 DEF Store, Unharmed, Alone, copies, requests, history, Busy
<1>5. CASE Fork
  BY <1>5 DEF Fork, Unharmed, Alone, disk, requests, history, Busy
<1>6. CASE MigrateRaises
  BY <1>6 DEF MigrateRaises, Unharmed, Alone, disk, copies, requests, history, Busy
<1>7. CASE Block
  BY <1>7 DEF Block, Unharmed, Alone, copies, requests, history, Busy
<1>8. CASE Crash
  BY <1>8 DEF Crash, Unharmed, Alone, disk, Busy
<1>9. CASE View
  BY <1>9 DEF View, Unharmed, Alone, disk, requests, Loaded, Busy
<1>10. ASSUME NEW r \in Request, NEW h \in Host, NEW valid \in BOOLEAN, Edit(r, h, valid) PROVE Alone'
  BY <1>10 DEF Edit, Unharmed, Alone, disk, Busy
<1>11. ASSUME NEW r \in Request, Reject(r) PROVE Alone'
  <2>1. Alone /\ ConfigOk(file)
    BY <1>11 DEF Reject, Unharmed, Alone, Busy
  <2>2. file # Broken
    BY <2>1 DEF Broken, ConfigOk, Fields
  <2> QED BY <1>11, <2>1, <2>2 DEF Reject, Unharmed, Alone, disk, Loaded, Busy
<1>12. ASSUME NEW r \in Request, Save(r) PROVE Alone'
  <2>1. /\ request[r] = "edited" /\ "main" \notin blind
        /\ UNCHANGED <<mem, blind, main, edit, wanted, clash, torn>>
    BY <1>12, Zenon DEF Save, copies, history
  <2>2. /\ Alone /\ main = "up" /\ edit[r].host # Unset
        /\ \A o \in Request : o # r => request[o] = "idle"
    BY <2>1 DEF Unharmed, Alone, Busy
  <2>3. \A o \in Request : ~Writing(o)
    BY <2>1, <2>2
  <2>4. Chosen(file) /\ mem = [file EXCEPT !.host = edit[r].host]
    BY <2>1, <2>2, <2>3 DEF Alone
  <2>5. ConfigOk(mem) /\ Choices(mem) = [wanted EXCEPT !.host = edit[r].host]
    BY <2>2, <2>4, HostChosen
  <2>6. \A o \in Request : request'[o] = IF o = r THEN "writing" ELSE "idle"
    BY <1>12, <2>2 DEF Save, Others
  <2> QED BY <2>1, <2>2, <2>5, <2>6 DEF Alone, Busy
<1>13. ASSUME NEW r \in Request, Written(r) PROVE Alone'
  BY <1>13 DEF Written, Others, Unharmed, Alone, copies, Busy
<1>14. ASSUME NEW r \in Request, SaveFails(r) PROVE Alone'
  BY <1>14 DEF SaveFails, Unharmed, Alone, disk, history, Busy
<1>15. ASSUME NEW w \in Worker, Sync(w) \/ Respawn(w) PROVE Alone'
  BY <1>15 DEF Sync, Respawn, Unharmed, Alone, disk, requests, history, FileAssumption, Busy
<1>16. CASE UNCHANGED vars
  BY <1>16 DEF vars, Unharmed, Alone, disk, copies, requests, history, Busy
<1> QED BY <1>1, <1>2, <1>3, <1>4, <1>5, <1>6, <1>7, <1>8, <1>9, <1>10, <1>11, <1>12, <1>13, <1>14,
           <1>15, <1>16 DEF Next, Boot, Answer

\* Whatever the releases left, contradictory hit-and-run keys and those of an Arr included,
\* and however many requests and workers there are: the file and the program keep what the
\* user has chosen, but for the two choices ChoicesKept names.
THEOREM ChoicesKeptHolds == FoundOk => (Spec => []ChoicesKept)
<1>1. Kept => ChoicesKept
  <2> SUFFICES ASSUME Kept, ~clash, torn = "no", Quiet, "main" \notin blind
               PROVE  /\ file # Broken /\ Choices(file) = wanted
                      /\ main # "down" => Choices(mem) = wanted
    BY DEF ChoicesKept
  <2>1. Alone /\ Chosen(file)
    BY DEF Kept, Unharmed, Alone, Quiet, Writing, Open
  <2>2. file # Broken
    BY <2>1 DEF Chosen, Broken, ConfigOk, Fields
  <2>3. main # "down" => mem = file
    BY <2>1 DEF Alone, Quiet
  <2> QED BY <2>1, <2>2, <2>3 DEF Chosen
<1>2. Kept /\ [Next]_vars => Kept'
  BY FileAssumption, UpNext, AloneNext DEF Kept
<1> SUFFICES ASSUME FoundOk PROVE Spec => []ChoicesKept
  OBVIOUS
<1>3. Init => Kept
  BY KeptInit
<1> QED BY <1>1, <1>2, <1>3, PTL DEF Spec

-----------------------------------------------------------------------------
(* The backup. *)

Budgeted ==
    /\ DOMAIN budget = {"edit", "fault", "crash"}
    /\ budget.fault \in Nat /\ budget.fault <= MaxFaults

\* What was found is in a backup before its successor is written, if it was old and the
\* backup could be made.
Backed == found.version < Expected /\ budget.fault = MaxFaults => found \in backups
BackedUp ==
    /\ Up /\ Budgeted
    /\ torn = "no" /\ main = "loaded" => mem = file /\ found = file
    /\ torn = "no" /\ main \in {"changed", "writing"} => Backed
    /\ torn = "upgrade" => Backed

LEMMA BudgetedNext == FileAssumption /\ Budgeted /\ [Next]_vars => Budgeted'
<1> SUFFICES ASSUME FileAssumption, Budgeted, [Next]_vars PROVE Budgeted'
  OBVIOUS
<1>1. budget' = budget \/ \E k \in {"edit", "fault", "crash"} : Spend(k)
  BY Zenon DEF Next, Boot, Answer, Start, Migrate, MigrateRaises, Truncate, Store, Fork, Block, Crash, Edit,
     Reject, Save, Written, SaveFails, View, Sync, Respawn, vars
<1> QED BY <1>1 DEF Budgeted, Spend, FileAssumption

LEMMA BackedUpNext == FileAssumption /\ BackedUp /\ [Next]_vars => BackedUp'
<1> SUFFICES ASSUME FileAssumption, BackedUp, [Next]_vars PROVE BackedUp'
  OBVIOUS
<1>b. Up' /\ Budgeted'
  BY UpNext, BudgetedNext DEF BackedUp
<1>f. budget.fault \in Nat /\ budget.fault <= MaxFaults /\ DOMAIN budget = {"edit", "fault", "crash"}
  BY DEF BackedUp, Budgeted
<1> USE DEF BackedUp, Backed
<1>1. CASE Start
  BY <1>1, <1>b DEF Start, disk
<1>2. CASE Migrate
  <2>1. CASE mem.version < Expected /\ Spend("fault")
    BY <1>2, <1>b, <1>f, <2>1, FileAssumption DEF Migrate, Spend, history
  <2>2. ASSUME UNCHANGED budget, backups' = IF mem.version < Expected THEN backups \cup {file} ELSE backups
        PROVE  BackedUp'
    <3>1. torn' = torn /\ found' = found /\ main' \in {"ready", "changed"} /\ backups \subseteq backups'
      BY <1>2, <2>2 DEF Migrate, history
    <3>2. torn = "no" => (found.version < Expected => found \in backups')
      BY <1>2, <2>2 DEF Migrate
    <3> QED BY <1>b, <2>2, <3>1, <3>2
  <2> QED BY <1>2, <2>1, <2>2 DEF Migrate
<1>3. CASE Truncate \/ Store \/ Fork
  BY <1>3, <1>b DEF Truncate, Store, Fork, disk, copies, requests, history
<1>4. CASE MigrateRaises \/ Block
  BY <1>4, <1>b DEF MigrateRaises, Block, disk, copies, requests, history, Up, Open, Writing
<1>5. CASE Crash
  BY <1>5, <1>b DEF Crash, Spend, disk
<1>6. CASE View
  BY <1>6, <1>b, <1>f DEF View, Spend, disk, requests
<1>7. ASSUME NEW r \in Request, NEW h \in Host, NEW valid \in BOOLEAN, Edit(r, h, valid) PROVE BackedUp'
  BY <1>7, <1>b, <1>f DEF Edit, Spend, disk
<1>8. ASSUME NEW r \in Request, Answer(r) PROVE BackedUp'
  <2>1. main = "up" /\ main' = main /\ backups' = backups /\ torn' = torn /\ found' = found
    BY <1>8 DEF Answer, Reject, Save, Written, SaveFails, disk, copies, history, Writing, Up, Open
  <2>2. budget' = budget \/ Spend("fault")
    BY <1>8, Zenon DEF Answer, Reject, Save, Written, SaveFails
  <2> QED BY <1>b, <1>f, <2>1, <2>2 DEF Spend
<1>9. ASSUME NEW w \in Worker, Sync(w) \/ Respawn(w) PROVE BackedUp'
  BY <1>9, <1>b, <1>f DEF Sync, Respawn, Spend, disk, requests, history
<1>10. CASE UNCHANGED vars
  BY <1>10, <1>b DEF vars, disk, copies, requests, history
<1> QED BY <1>1, <1>2, <1>3, <1>4, <1>5, <1>6, <1>7, <1>8, <1>9, <1>10 DEF Next, Boot

LEMMA UpgradeInit == Init => BackedUp
  BY FileAssumption DEF Init, BackedUp, Up, Budgeted, Open

\* Whatever was found: an upgrade cut off in the middle of its write has left the old
\* configuration in a backup, if that could be made.
THEOREM UpgradeBackedUpHolds == Spec => []UpgradeBackedUp
<1>1. BackedUp => UpgradeBackedUp
  BY DEF BackedUp, Backed, UpgradeBackedUp
<1>2. BackedUp /\ [Next]_vars => BackedUp'
  BY FileAssumption, BackedUpNext
<1> QED BY <1>1, <1>2, UpgradeInit, PTL DEF Spec
=============================================================================
