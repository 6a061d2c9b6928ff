--------------------------- MODULE MCTorrentLoop ---------------------------
EXTENDS TorrentLoop, TLC

CONSTANTS main, seedbox, h1, h2

Two == {main, seedbox}
Both == {h1, h2}

T(state, cat, tags, progress, is) ==
    [state |-> state, cat |-> cat, tags |-> tags, progress |-> progress, ratio |-> 2,
     seeded |-> 2, ratioLimit |-> -2, timeLimit |-> -2, is |-> {"known"} \union is]

Failed  == T("stalledUP", "failed", {}, 100, {})
Recheck == T("stalledDL", "recheck", {}, 50, {})
Missing == T("missingFiles", "own", {}, 100, {})
Stale   == T("metaDL", "own", {}, 5, {"expired"})
Slow    == T("stalledDL", "own", {}, 50, {})
Fresh   == T("downloading", "own", {}, 50, {})
Limit   == T("stalledUP", "own", {}, 100, {})
Ignored == T("stalledUP", "own", {"ignored"}, 100, {"settled"})
Halt    == T("stoppedDL", "own", {}, 50, {})
Error   == T("error", "own", {}, 50, {})
Queued  == T("queuedUP", "own", {"ignored"}, 100, {})

Some == {Failed, Missing, Stale, Fresh}
Sets == [mode |-> 3, ratio |-> 1, time |-> 5, anyHnr |-> FALSE, allowStalled |-> TRUE,
         keepSlow |-> TRUE, reSearch |-> TRUE]
Tracks == [ratio |-> -1, time |-> -1, super |-> FALSE, hnr |-> "disabled", minRatio |-> 0,
           minTime |-> 0, minPart |-> 10, partialRatio |-> 0, buffer |-> 0]

SomeFiles == [h \in Both |-> IF h = h1 THEN <<"bad", "bad">> ELSE <<"bad", "good">>]
OwnClient == [h \in Both |-> IF h = h1 THEN seedbox ELSE main]

\* The hash h1 on the second instance, and perhaps on the first; h2 on the first.
At(placed) == [here |-> DOMAIN placed,
               torrent |-> [c \in Two \X Both |-> IF c \in DOMAIN placed THEN placed[c] ELSE Fresh]]
Apart(a, b) == At((<<seedbox, h1>> :> a) @@ (<<main, h2>> :> b))
Twice(a, b) == At((<<seedbox, h1>> :> a) @@ (<<main, h1>> :> b))
Several ==
    {Apart(Failed, Fresh), Apart(Recheck, Halt), Apart(Ignored, Limit), Apart(Queued, Slow),
     Twice(Stale, Missing), Twice(Missing, Stale), Twice(Fresh, Failed)}
=============================================================================
