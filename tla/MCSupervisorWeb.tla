-------------------------- MODULE MCSupervisorWeb --------------------------
(* Small instances of the supervisor with the WebUI's restarts for TLC. *)
EXTENDS SupervisorWeb, TLC

CONSTANTS a1, radarr, qb, t1, t2, t3, m1, m2

OneArr == {a1}
CatOfOne == [a \in OneArr |-> radarr]
TorrentRole == [a \in OneArr |-> {"torrent"}]
OneQbit == {qb}

MixedProcs == {t1, t2, t3, m1, m2}
JobOfMixed == [p \in MixedProcs |-> IF p \in {m1, m2} THEN <<qb, "category_manager">>
                                                      ELSE <<radarr, "torrent">>]
Interchangeable == Permutations({t1, t2, t3}) \cup Permutations({m1, m2})

No == [e \in Event |-> 0]
\* One start may fail, of a crashed worker's successor or another, and one worker
\* may ask for a coordinated restart.
StartAndSignal == [e \in Event |-> IF e = "any" THEN 2
                                   ELSE IF e \in {"start", "restart", "signal"} THEN 1 ELSE 0]
=============================================================================
