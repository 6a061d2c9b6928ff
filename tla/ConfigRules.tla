---------------------------- MODULE ConfigRules ----------------------------
(***************************************************************************)
(* The migrations of config.toml as functions on configurations            *)
(* (gen_config.migrations and gen_config.validate), in the order           *)
(* apply_config_migrations runs them.  A configuration has what they tell  *)
(* apart: where an old release kept a setting, and what the user chose.    *)
(* The release numbers are those the migrations ask for, in their order.   *)
(***************************************************************************)
EXTENDS Naturals

Profiles == 1      \* 0.0.2
Restarts == 2      \* 0.0.3
Categories == 3    \* 0.0.4
HitAndRun == 4     \* 5.8.8
SingleKey == 5     \* 5.9.2
Expected == 6      \* EXPECTED_CONFIG_VERSION
Newer == 7

Unset == "unset"
Modes == {"and", "or", "disabled"}
NoTrackers == [u \in {} |-> Unset]

\* The hit-and-run settings of a [[Trackers]] entry, a [CategorySeeding] or, once, an Arr's
\* SeedingMode: HitAndRunMode was a boolean with a second key HitAndRunClearMode.
Tracker == [mode: Modes \cup {"true", "false", Unset}, clear: Modes \cup {Unset}]
Off == [mode |-> "disabled", clear |-> Unset]

\* What parsing an empty file gives.
Empty == [version |-> 0, oldHost |-> Unset, host |-> Unset, secure |-> Unset, behind |-> Unset,
          settings |-> {}, arrs |-> [n \in {} |-> Unset], qbits |-> [q \in {} |-> Unset]]

\* One section, or one entry, changed in every place where there are such.
InArrs(Changed(_), c) == [c EXCEPT !.arrs = [n \in DOMAIN c.arrs |-> Changed(c.arrs[n])]]
InQbits(Changed(_), c) == [c EXCEPT !.qbits = [q \in DOMAIN c.qbits |-> Changed(c.qbits[q])]]
InEntries(Changed(_), c) ==
    LET InTrackers(t) == [u \in DOMAIN t |-> Changed(t[u])]
        InArr(a) == [a EXCEPT !.trackers = InTrackers(@)]
        InQbit(q) == [q EXCEPT !.seeding = IF "CategorySeeding" \in q.has THEN Changed(@) ELSE @,
                               !.trackers = InTrackers(@)]
    IN  InQbits(InQbit, InArrs(InArr, c))
Entries(c) == UNION {{c.arrs[n].trackers[u] : u \in DOMAIN c.arrs[n].trackers} : n \in DOMAIN c.arrs}
              \cup UNION {{c.qbits[q].trackers[u] : u \in DOMAIN c.qbits[q].trackers}
                          : q \in DOMAIN c.qbits}
              \cup {c.qbits[q].seeding : q \in {p \in DOMAIN c.qbits : "CategorySeeding" \in c.qbits[p].has}}

-----------------------------------------------------------------------------
(* The migrations. *)

\* The WebUI's settings move to a section of their own, one of them with a new name.
MovedToWebUI(c) ==
    [c EXCEPT !.host = IF @ = Unset THEN c.oldHost ELSE @,
              !.behind = IF @ = Unset THEN c.secure ELSE @,
              !.secure = IF c.behind = Unset THEN Unset ELSE @]

\* [Animarr] becomes [Sonarr], or a name no section has.
NewName(c) == CHOOSE n \in {"Sonarr", "Sonarr-Animarr"} :
                  /\ n \notin DOMAIN c.arrs
                  /\ n = "Sonarr" \/ "Sonarr" \in DOMAIN c.arrs
Renamed(c) ==
    IF "Animarr" \notin DOMAIN c.arrs THEN c
    ELSE [c EXCEPT !.arrs = [n \in (DOMAIN c.arrs \ {"Animarr"}) \cup {NewName(c)} |->
                             c.arrs[IF n = NewName(c) THEN "Animarr" ELSE n]]]

\* The list Readarr was shipped with is replaced, the user's own is not.
Widened(c) == InArrs(LAMBDA a : [a EXCEPT !.allow = IF @ = "shipped" THEN "audio" ELSE @], c)

\* Two lists of profiles become one mapping, in the sections of an Arr; lists of
\* different lengths stay.
Mapped(c) ==
    IF c.version >= Profiles THEN c
    ELSE [c EXCEPT !.arrs = [n \in DOMAIN c.arrs |->
              IF c.arrs[n].profiles = "lists" /\ n # "Animarr"
              THEN [c.arrs[n] EXCEPT !.profiles = "mapping"] ELSE c.arrs[n]]]

WithRestarts(c) ==
    IF c.version >= Restarts THEN c ELSE [c EXCEPT !.settings = @ \cup {"restarts"}]

WithCategories(c) ==
    IF c.version >= Categories THEN c
    ELSE InQbits(LAMBDA q : [q EXCEPT !.has = @ \cup {"ManagedCategories", "CategorySeeding"},
                                      !.seeding = IF "CategorySeeding" \in q.has THEN @ ELSE Off], c)

WithMatch(c) == InQbits(LAMBDA q : [q EXCEPT !.has = @ \cup {"MatchSubcategories"}], c)

\* Every entry gets the hit-and-run fields; those of an Arr's SeedingMode are deleted.
Completed(e) == [e EXCEPT !.mode = IF @ = Unset THEN "disabled" ELSE @]

\* A qBit section without trackers is to get those of all Arrs: the code that then
\* removes them from the Arrs names a constant its module does not import.
Raises(c) ==
    /\ c.version < HitAndRun
    /\ \E q \in DOMAIN c.qbits : "Trackers" \notin c.qbits[q].has
    /\ \E n \in DOMAIN c.arrs : DOMAIN c.arrs[n].trackers # {}
WithHitAndRun(c) ==
    IF c.version >= HitAndRun THEN c
    ELSE InQbits(LAMBDA q : [q EXCEPT !.has = @ \cup {"Trackers"}],
                 InEntries(Completed, InArrs(LAMBDA a : [a EXCEPT !.seeding.mode = Unset], c)))

\* Two keys become one.
Single(e) == [mode |-> IF e.clear \in Modes THEN e.clear
                       ELSE IF e.mode \in Modes THEN e.mode
                       ELSE IF e.mode = "true" THEN "and" ELSE "disabled",
              clear |-> Unset]
WithSingleKey(c) ==
    IF c.version >= SingleKey /\ \A e \in Entries(c) : e.clear = Unset THEN c
    ELSE InEntries(Single, c)

\* _validate_and_fill_config: whatever is missing gets its default.
Filled(c) ==
    InEntries(Completed, [c EXCEPT !.host = IF @ = Unset THEN "default" ELSE @,
                                   !.behind = IF @ = Unset THEN "no" ELSE @,
                                   !.settings = {"restarts", "others"}])

Counted(c) == [c EXCEPT !.version = IF @ < Expected THEN Expected ELSE @]

\* apply_config_migrations: keys and sections to their new places, then the hit-and-run
\* fields and the defaults.
Moved(c) == WithCategories(WithRestarts(Mapped(Widened(Renamed(MovedToWebUI(c))))))
Finished(c) == Counted(Filled(WithSingleKey(WithHitAndRun(WithMatch(c)))))
Upgraded(c) == Finished(Moved(c))

-----------------------------------------------------------------------------
(* What the migrations promise. *)

\* What a release took an entry to say: the second key was read if the first was true.
Meant(e) == IF e.mode \in Modes THEN e.mode
            ELSE IF e.mode # "true" THEN "disabled"
            ELSE IF e.clear = Unset THEN "and" ELSE e.clear

\* Two choices the migrations do not keep.  A clear mode switches an entry on, or over,
\* even if its first key says otherwise; and the hit-and-run fields of an Arr's
\* SeedingMode, which earlier releases had, go without a successor.
Overruled(e) == e.clear # Unset /\ e.mode # "true"
Dropped(c) == c.version < HitAndRun

\* What the user has chosen and the migrations keep, in whichever form a release has it.
Survives(e) == IF Overruled(e) THEN e.clear ELSE Meant(e)
First(new, old, default) == IF new # Unset THEN new ELSE IF old # Unset THEN old ELSE default
MeantBy(trackers) == {<<u, Survives(trackers[u])>> : u \in DOMAIN trackers}
Choices(c) ==
    [host |-> First(c.host, c.oldHost, "default"), behind |-> First(c.behind, c.secure, "no"),
     arrs |-> {[id |-> a.id, paired |-> a.profiles \in {"lists", "mapping"}, own |-> a.allow = "own",
                seeding |-> IF Dropped(c) THEN "disabled" ELSE Meant(a.seeding),
                trackers |-> MeantBy(a.trackers)] : a \in {c.arrs[n] : n \in DOMAIN c.arrs}},
     qbits |-> [q \in DOMAIN c.qbits |->
                   [seeding |-> IF "CategorySeeding" \in c.qbits[q].has
                                THEN Survives(c.qbits[q].seeding) ELSE "disabled",
                    trackers |-> MeantBy(c.qbits[q].trackers)]]]
=============================================================================
