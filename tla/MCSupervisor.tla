---------------------------- MODULE MCSupervisor ----------------------------
(* Small instances of the supervisor for TLC. *)
EXTENDS Supervisor

CONSTANTS a1, radarr, qb, t1, t2, m1

\* One Arr object with its torrent loop, and an instance with managed categories.
OneArr == {a1}
CatOfOne == [a \in OneArr |-> radarr]
TorrentRole == [a \in OneArr |-> {"torrent"}]
OneQbit == {qb}

\* Process objects: for the torrent loop one more than can be in use at once.
Procs == {t1, t2, m1}
JobOfProc == [p \in Procs |-> IF p = m1 THEN <<qb, "category_manager">>
                                         ELSE <<radarr, "torrent">>]

\* Three events in all, whichever they are; those named here happen once at most.
Events == [e \in Event |-> IF e \in {"late", "ask", "signal", "restart"} THEN 1 ELSE 3]
=============================================================================
