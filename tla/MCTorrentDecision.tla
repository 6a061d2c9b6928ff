------------------------- MODULE MCTorrentDecision -------------------------
EXTENDS TorrentDecision

SomeSettings ==
    {[mode |-> m, ratio |-> 1, time |-> 2, anyHnr |-> m # -1,
      allowStalled |-> m = 3, keepSlow |-> FALSE] : m \in {-1, 3}}

\* The hit-and-run settings of a tracker: none, and the two modes with both minima or one.
K(mode, ratio, time, buffer) ==
    [ratio |-> -1, time |-> 2, super |-> FALSE, hnr |-> mode, minRatio |-> ratio,
     minTime |-> time, minPart |-> 10, partialRatio |-> 1, buffer |-> buffer]
Public == K("disabled", 1, 1, 0)
Strict == K("and", 1, 1, 1)
Lenient == {K("or", 1, 1, 1), K("or", 0, 1, 1), K("and", 0, 2, 0), K("and", 1, 0, 0), K("or", 0, 0, 0)}
SomeTrackers == {Public, Strict} \union Lenient

\* Every relation of the figures with their limits for the lenient trackers.
SomeFigures ==
    [k \in SomeTrackers |->
        IF k = Public THEN {[progress |-> 100, ratio |-> 1, seeded |-> 2]}
        ELSE IF k = Strict
             THEN {[progress |-> p, ratio |-> n, seeded |-> 2 * n] : p \in {50, 100}, n \in {0, 1}}
        ELSE [progress: {9, 10, 100}, ratio: 0 .. 1, seeded: 0 .. 2]]

\* Any two flags, with what a reachable, checked and completed torrent has; a few of them
\* for the lenient trackers.
AnyTwo == {{"known", f, g} \union b : f, g \in Flags, b \in {{}, {"cleaned", "settled"}}}
          \union {{"lowShare", "cleaned", "silent", "missing"}}
Few == {{"known"}, {"known", "cfUnmet"}, {"cfUnmet"}, {"known", "cfUnmet", "dead"}, {"known", "slow", "cleaned"}}
SomeLooks == [k \in SomeTrackers |-> IF k \in Lenient THEN Few ELSE AnyTwo]

SomeFiles == {<<"bad", "skip", "bad">>, <<"bad", "good">>}
=============================================================================
