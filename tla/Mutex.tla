------------------------------- MODULE Mutex -------------------------------
(***************************************************************************)
(* What the database lock of qBitrr/db_lock.py promises its callers: at    *)
(* most one client at a time is inside a critical section, a client that   *)
(* is inside may leave at any time (by release, or by dying), and all this *)
(* until the system refuses to unlock, after which nothing is promised.    *)
(***************************************************************************)
CONSTANT Client

VARIABLES inside,        \* the clients running under the lock
          broken         \* an unlock has failed

vars == <<inside, broken>>

Init == inside = {} /\ broken = FALSE

Enter(c) == /\ inside = {}
            /\ inside' = {c}
            /\ UNCHANGED broken

Leave(c) == /\ c \in inside
            /\ inside' = inside \ {c}
            /\ UNCHANGED broken

Break == broken' = TRUE /\ inside' \in SUBSET Client

Next == (\E c \in Client : Enter(c) \/ Leave(c)) \/ Break

Spec == Init /\ [][Next]_vars
=============================================================================
