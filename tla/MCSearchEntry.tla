---------------------------- MODULE MCSearchEntry ----------------------------
EXTENDS SearchEntry, TLC

Modes == [upgrade : BOOLEAN, quality : BOOLEAN, formats : BOOLEAN]
Pairs == <<<<"HD", "SD">>, <<"4K", "720">>>>
Chain == <<<<"4K", "HD">>, <<"HD", "SD">>>>
OneForTwo == <<<<"HD", "SD">>, <<"4K", "SD">>>>
S(mode, temp, keep, series) ==
    mode @@ [temp |-> temp, keep |-> keep, force |-> keep, series |-> series, unmonitored |-> FALSE,
             specials |-> FALSE, today |-> series = "no", byYear |-> TRUE,
             mapping |-> Pairs]

Plain == [upgrade |-> FALSE, quality |-> FALSE, formats |-> FALSE]
Several == {S(m, FALSE, FALSE, "no") : m \in Modes} \union
           {S(Plain, TRUE, k, "no") : k \in BOOLEAN} \union {S(Plain, FALSE, FALSE, "yes")}

Base == [monitored |-> TRUE, file |-> 0, poor |-> FALSE, score |-> 0, min |-> 1,
         profile |-> "HD", in |-> 1]
Dates == {"none", "later", "hour"}
Movies == {Base @@ [kind |-> "movie", year |-> y, minimum |-> n,
                    cinema |-> c, digital |-> d, physical |-> p] :
              y \in {"later", "now"}, n \in {"announced", "inCinemas", "released", "tba"},
              c \in Dates, d \in Dates, p \in Dates}
Ready == {m \in Movies : m.year = "now" /\ m.minimum = "announced" /\ m.cinema = "none"
                         /\ m.digital = "none" /\ m.physical = "none"}
Aired(kind) == {Base @@ [kind |-> kind, aired |-> a, special |-> p, dated |-> FALSE,
                         upgradable |-> u] :
                  a \in {"none", "later", "old"}, p \in {FALSE}, u \in BOOLEAN}
Today == Base @@ [kind |-> "episode", aired |-> "later", special |-> FALSE, dated |-> TRUE]
Special == Base @@ [kind |-> "episode", aired |-> "old", special |-> TRUE, dated |-> FALSE]
Series == Base @@ [kind |-> "series", files |-> 0, aired |-> 1, total |-> 2]
Artist == Base @@ [kind |-> "artist", albums |-> 1, size |-> 0]
Author == Base @@ [kind |-> "author", books |-> 1, size |-> 0]

Others == UNION {Aired(k) : k \in {"episode", "album", "book"}}
          \union {Today, Special, Series, Artist, Author}
          \union Ready \union {[m EXCEPT !.profile = "none", !.monitored = FALSE] : m \in Ready}

\* Mappings that form a chain, or lead from two profiles to one.
Linked == [set : {[S(Plain, TRUE, k, "no") EXCEPT !.mapping = m] :
                     k \in BOOLEAN, m \in {Chain, OneForTwo}},
           it : {[e EXCEPT !.profile = p] : e \in Ready \union {Special, Series, Artist}, p \in {"4K", "HD"}}]

\* All dates of movies under plain settings, and each kind of entry under all settings.
All == [set : {S(Plain, FALSE, FALSE, "no")}, it : Movies] \union [set : Several, it : Others]
       \union Linked
=============================================================================
