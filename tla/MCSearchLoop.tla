---------------------------- MODULE MCSearchLoop ----------------------------
EXTENDS SearchLoop
CONSTANTS a, b, s

Common == [reverse |-> FALSE, limit |-> 1, missing |-> TRUE, again |-> TRUE, requests |-> FALSE,
           temp |-> FALSE, timeout |-> FALSE, keep |-> FALSE, series |-> "no", upgrade |-> FALSE,
           quality |-> FALSE, formats |-> FALSE, unmonitored |-> FALSE, specials |-> FALSE,
           today |-> FALSE, byYear |-> TRUE, mapping |-> <<<<"HD", "SD">>>>]
Work == [monitored |-> TRUE, file |-> 0, poor |-> FALSE, score |-> 0, min |-> 0, profile |-> "HD"]
Movie(year) == Work @@ [kind |-> "movie", year |-> "now", in |-> year, minimum |-> "announced",
                        cinema |-> "none", digital |-> "none", physical |-> "none"]
Episode(aired) == Work @@ [kind |-> "episode", aired |-> aired, in |-> 1, special |-> FALSE,
                           dated |-> aired = "day"]
Show == [kind |-> "series", monitored |-> TRUE, files |-> 0, aired |-> 2, total |-> 2, in |-> 0,
         profile |-> "HD"]
Artist == [kind |-> "artist", monitored |-> FALSE, profile |-> "HD", in |-> 0, albums |-> 0,
           size |-> 0]

Films(first, second) == (a :> Movie(first)) @@ (b :> Movie(second)) @@ (s :> Artist)
TV(first, second) == (a :> Episode(first)) @@ (b :> Episode(second)) @@ (s :> Show)

Numbers == (a :> 1) @@ (b :> 2) @@ (s :> 3)
Of == (a :> s) @@ (b :> s) @@ (s :> s)

Several ==
    {[set |-> [Common EXCEPT !.requests = TRUE], lib |-> Films(1, 2)],
     [set |-> Common, lib |-> [Films(1, 2) EXCEPT ![s] = Movie(3)]],
     [set |-> [Common EXCEPT !.temp = TRUE, !.timeout = TRUE], lib |-> Films(1, 1)],
     [set |-> [Common EXCEPT !.today = TRUE, !.byYear = FALSE], lib |-> TV("old", "day")],
     [set |-> [Common EXCEPT !.series = "smart", !.today = TRUE], lib |-> TV("old", "day")],
     [set |-> [Common EXCEPT !.series = "yes", !.reverse = TRUE], lib |-> TV("old", "old")]}
=============================================================================
