-------------------------- MODULE MCTorrentPolicy --------------------------
EXTENDS TorrentPolicy, TLC

CONSTANTS main, seedbox, t1, t2, t3

\* Two torrents on the first client, in either order, and one on the second.
Two == <<main, seedbox>>
Three == {t1, t2, t3}
OnOf == t1 :> main @@ t2 :> main @@ t3 :> seedbox
SizeOf == t1 :> 2 @@ t2 :> 1 @@ t3 :> 1
ByTracker == <<t1, t2, t3>>
OneTwo == main :> <<t1, t2>> @@ seedbox :> <<t3>>
TwoOne == main :> <<t2, t1>> @@ seedbox :> <<t3>>
\* Either state of a stopped download; with the later one the torrents never come to rest.
OneAlone == main :> <<t1, t2>> @@ seedbox :> <<>>
From(q, n, s) == [queue |-> q, free |-> n, stop |-> s]
Several == {From(OneTwo, 3, "pausedDL"), From(TwoOne, 2, "pausedDL"),
            From(OneAlone, 2, "stoppedDL")}
=============================================================================
