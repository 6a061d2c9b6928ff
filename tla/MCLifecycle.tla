---------------------------- MODULE MCLifecycle ----------------------------
(* Small instances of the supervisor with the reload of Arr instances for TLC. *)
EXTENDS Lifecycle, TLC

CONSTANTS a1, a2, a3, a4, a5, a6, a7, a8, a9, c1, c2, u1, u2, qb,
          p1, p2, p3, q1, q2, s1, s2, m1, m2, h1, h2

\* The Arr objects: two of each section's first setting, to be made anew.
Objects == {a1, a2, a3, a4, a5, a6, a7, a8, a9}
NameOfObject == [a \in Objects |-> IF a \in {a4, a5, a7, a8, a9} THEN 2 ELSE 1]
CatOfObject == [a \in Objects |-> IF a \in {a3, a5, a7} THEN c2 ELSE c1]
UriOfObject == [a \in Objects |-> IF a \in {a5, a7, a9} THEN u2 ELSE u1]
RolesOfObject == [a \in Objects |-> IF a = a6 THEN {"search", "torrent"} ELSE {"torrent"}]

Setting(cat, uri, roles) == <<cat, uri, roles>>
One == Setting(c1, u1, {"torrent"})
Nothing == [n \in {1, 2} |-> None]
OnlyOne == [Nothing EXCEPT ![1] = One]
Renamed == [Nothing EXCEPT ![2] = One]
Moved == [Nothing EXCEPT ![1] = Setting(c2, u1, {"torrent"})]
Both == [OnlyOne EXCEPT ![2] = Setting(c2, u2, {"torrent"})]
Searching == [Nothing EXCEPT ![1] = Setting(c1, u1, {"search", "torrent"})]
Swapped == [Moved EXCEPT ![2] = Setting(c1, u2, {"torrent"})]
Twice == [OnlyOne EXCEPT ![2] = Setting(c2, u1, {"torrent"})]
FromOne == {OnlyOne}
FromRenamed == {Renamed}
\* A section leaves the file, unless it is named here: then it is only managed no longer.
To(c, D) == {<<c, d, {}>> : d \in D}
Changes == To(OnlyOne, {Renamed, Moved, Both, Twice, Searching})
             \cup To(Searching, {OnlyOne, Nothing}) \cup To(Both, {Swapped})
             \cup To(Renamed, {Renamed, OnlyOne}) \cup To(Nothing, {OnlyOne})
             \cup {<<OnlyOne, Nothing, {1}>>, <<Renamed, OnlyOne, {2}>>}
Procs == {p1, p2, p3, q1, q2, s1, s2, m1, m2}
JobOfProc == [p \in Procs |-> CASE p \in {p1, p2, p3} -> <<c1, "torrent">>
                                [] p \in {q1, q2} -> <<c2, "torrent">>
                                [] p \in {s1, s2} -> <<c1, "search">>
                                [] OTHER -> <<qb, "category_manager">>]
TwoNames == {1, 2}
OneQbit == {qb}
Interchangeable == Permutations({p1, p2, p3}) \cup Permutations({a1, a2}) \cup Permutations({s1, s2})
                     \cup Permutations({a4, a8})

No == [e \in Event |-> 0]
=============================================================================
