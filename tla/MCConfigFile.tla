--------------------------- MODULE MCConfigFile ---------------------------
(* What releases of all ages left: names of sections, lists of profiles,    *)
(* hit-and-run keys in one or two parts that may contradict each other or   *)
(* stand where they are deleted, and configurations that need nothing or    *)
(* are newer than the program.                                              *)
EXTENDS ConfigFile, TLC

CONSTANTS r1, r2, w1

Arr(id, profiles, allow, trackers) ==
    [id |-> id, profiles |-> profiles, allow |-> allow, trackers |-> trackers,
     seeding |-> [mode |-> Unset, clear |-> Unset]]
Qbit(has, seeding, trackers) == [has |-> has, seeding |-> seeding, trackers |-> trackers]
Two(mode, clear) == [mode |-> mode, clear |-> clear]
All == {"ManagedCategories", "CategorySeeding", "MatchSubcategories", "Trackers"}
Bare == Qbit({}, Off, NoTrackers)

Oldest == [Empty EXCEPT !.oldHost = "mine", !.secure = "yes",
    !.arrs = "Animarr" :> Arr(1, "lists", Unset, NoTrackers)
             @@ "Readarr" :> Arr(2, "lists", "own", NoTrackers),
    !.qbits = "qBit" :> Bare @@ "qBit-2" :> Bare]
Tracked == [Oldest EXCEPT !.version = Restarts, !.arrs =
    "Sonarr" :> Arr(1, "mapping", Unset, "t" :> Two(Unset, Unset))]
BothNames == [Oldest EXCEPT !.version = Categories, !.host = "mine",
    !.arrs = "Animarr" :> Arr(1, "mapping", Unset, "t" :> Two(Unset, Unset))
             @@ "Sonarr" :> Arr(2, "uneven", Unset, NoTrackers),
    !.qbits = "qBit" :> Qbit(All, Off, NoTrackers)]
TwoKeys == [Oldest EXCEPT !.version = HitAndRun, !.host = "mine", !.oldHost = Unset,
    !.settings = {"restarts"},
    !.arrs = "Readarr" :> Arr(1, "none", "shipped", "t" :> Two("true", "or")),
    !.qbits = "qBit" :> Qbit(All, Two("true", Unset),
                             "t" :> Two("false", Unset) @@ "u" :> Two("or", Unset))]
NoQbit == [Oldest EXCEPT !.version = Restarts, !.qbits = Empty.qbits,
    !.arrs = "Sonarr" :> Arr(1, "mapping", Unset, "t" :> Two(Unset, Unset))]
\* Off by the first key, with a second one; and set for a whole Arr.
Contrary == [TwoKeys EXCEPT !.version = Categories, !.arrs =
    "Sonarr" :> [Arr(1, "none", Unset, "t" :> Two("false", "or") @@ "u" :> Two(Unset, "and"))
                 EXCEPT !.seeding = Two("true", "or")]]
SetForArr == [TwoKeys EXCEPT !.arrs =
    "Sonarr" :> [Arr(1, "none", Unset, NoTrackers) EXCEPT !.seeding = Two("and", Unset)]]
Latest == Upgraded(TwoKeys)
Ahead == [Latest EXCEPT !.version = Newer]
Handmade == [Latest EXCEPT !.qbits = @ @@ "qBit-2" :> Qbit(All \ {"MatchSubcategories"}, Off, NoTrackers)]

Releases == {Oldest, Tracked, BothNames, TwoKeys, NoQbit, Contrary, SetForArr, Latest, Ahead, Handmade}
=============================================================================
