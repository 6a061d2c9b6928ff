------------------------------ MODULE DbErrors ------------------------------
(***************************************************************************)
(* How the torrent loop of a worker answers database errors                *)
(* (process_torrents and run_torrent_loop): it counts the errors of one    *)
(* sequence, waits longer after each, and when the sequence has lasted     *)
(* long enough sets database_restart_event and exits.  A good iteration, a *)
(* health check that finds or makes the database healthy and a successful  *)
(* recovery clear the count.                                               *)
(*                                                                         *)
(* Time is in whole minutes.  The length of an iteration is the time       *)
(* between `wake', when it may begin, and `now', when it ends.             *)
(***************************************************************************)
EXTENDS Integers

CONSTANTS Start,        \* the clock when the worker starts
          HealthEvery,  \* iterations between two health checks
          OtherDelays,  \* the pauses that database errors are not the cause of
          MaxTime       \* bound on the clock

\* The code's 300 seconds, and its first and its longest backoff.
Window == 5
FirstDelay == 2
LongestDelay == 30

ASSUME ErrorsAssumption ==
    /\ Start \in Nat /\ Start > Window
    /\ HealthEvery \in Nat \ {0}
    /\ OtherDelays \subseteq Nat
    /\ MaxTime \in Nat

VARIABLES now,       \* time.time()
          wake,      \* when the pause after the last iteration ends
          count,     \* _db_error_count
          first,     \* _db_first_error_time
          last,      \* _db_last_error_time
          checks,    \* _health_check_counter
          delay,     \* delay_seconds of the last database error
          signalled, \* the worker has set database_restart_event and exited
          since,     \* history: the first error not followed by a cure; 0 for none
          timely     \* history: since then all iterations failed within a minute

tracking == <<count, first, last>>
vars == <<now, wake, tracking, checks, delay, signalled, since, timely>>

Init ==
    /\ now = Start /\ wake = Start
    /\ count = 0 /\ first = 0 /\ last = 0
    /\ checks = 0 /\ delay = 0 /\ signalled = FALSE
    /\ since = 0 /\ timely = TRUE

-----------------------------------------------------------------------------
(* Variants: definitions below with one bug a change could bring in. *)

\* The exponent is the count, not the count less one.
BackoffDoubled(n) == CASE n = 1 -> 2 * FirstDelay
                       [] n = 2 -> 4 * FirstDelay
                       [] n = 3 -> 8 * FirstDelay
                       [] OTHER -> LongestDelay

-----------------------------------------------------------------------------
\* min(120 * 2 ** (count - 1), 1800) seconds.
Backoff(n) == CASE n = 1 -> FirstDelay
                [] n = 2 -> 2 * FirstDelay
                [] n = 3 -> 4 * FirstDelay
                [] n = 4 -> 8 * FirstDelay
                [] OTHER -> LongestDelay

\* An error after a gap begins a new sequence.
Fresh(l) == now - l > Window

\* The sequence has lasted long enough for a coordinated restart.
Persisted(f) == now - f > Window

\* _reset_database_error_tracking
Reset == count' = 0 /\ first' = 0 /\ last' = 0

HealthDue == checks + 1 >= HealthEvery
CountCheck == checks' = IF HealthDue THEN 0 ELSE checks + 1

\* Variant of Succeeds: a good iteration leaves the count of errors alone.
SucceedsUnnoticed ==
    /\ ~signalled /\ now >= wake
    /\ CountCheck
    /\ since' = 0 /\ timely' = TRUE
    /\ wake' \in {now + d : d \in OtherDelays}
    /\ UNCHANGED <<now, tracking, delay, signalled>>

-----------------------------------------------------------------------------
Tick ==
    /\ ~signalled /\ now < MaxTime
    /\ now' = now + 1
    /\ UNCHANGED <<wake, tracking, checks, delay, signalled, since, timely>>

\* An iteration reaches its end.
Succeeds ==
    /\ ~signalled /\ now >= wake
    /\ CountCheck
    /\ Reset
    /\ since' = 0 /\ timely' = TRUE
    /\ wake' \in {now + d : d \in OtherDelays}
    /\ UNCHANGED <<now, delay, signalled>>

\* An iteration ends early for another reason: before the health check, after one
\* that is not due or finds the damage and cannot repair it, or after a cure.
Interrupted ==
    /\ ~signalled /\ now >= wake
    /\ \/ UNCHANGED <<checks, tracking, since>> /\ timely' = (since = 0)
       \/ CountCheck /\ UNCHANGED <<tracking, since>> /\ timely' = (since = 0)
       \/ HealthDue /\ CountCheck /\ Reset /\ since' = 0 /\ timely' = TRUE
    /\ wake' \in {now + d : d \in OtherDelays}
    /\ UNCHANGED <<now, delay, signalled>>

\* A database error.  `cured': the health check that precedes it has cleared the
\* tracking.  `recovered': the error is one that is answered by a recovery, and
\* the recovery succeeds.
Fails(cured, recovered) ==
    LET begins == cured \/ Fresh(last)
        n == IF begins THEN 1 ELSE count + 1
        f == IF begins THEN now ELSE first
        ended == Persisted(f)
        from == IF cured \/ since = 0 THEN now ELSE since
    IN  /\ ~signalled /\ now >= wake
        /\ cured => HealthDue
        /\ CountCheck
        /\ signalled' = ended
        /\ IF ended THEN UNCHANGED <<delay, wake>>
                    ELSE delay' = Backoff(n) /\ wake' = now + Backoff(n)
        /\ IF recovered /\ ~ended
           THEN Reset /\ since' = 0 /\ timely' = TRUE
           ELSE /\ count' = n /\ first' = f /\ last' = now
                /\ since' = from
                /\ timely' = (from = now \/ (timely /\ now <= wake + 1))
        /\ UNCHANGED now

Next == Tick \/ Succeeds \/ Interrupted \/ \E c, r \in BOOLEAN : Fails(c, r)

Spec == Init /\ [][Next]_vars

-----------------------------------------------------------------------------
(* Properties *)

\* Every variable keeps its type, and the counter of health checks its bound.
TypeOK ==
    /\ now \in Nat /\ wake \in Nat
    /\ count \in Nat /\ first \in Nat /\ last \in Nat
    /\ checks \in 0..(HealthEvery - 1)
    /\ delay \in Nat /\ signalled \in BOOLEAN
    /\ since \in Nat /\ timely \in BOOLEAN

\* The backoff never goes beyond its second step: by the third error of a sequence
\* the sequence has outlasted the window or a new one has begun.
ShortBackoff == delay <= 2 * FirstDelay

\* A worker asks for a coordinated restart only if database errors have come for
\* more than the window, with no good iteration, healthy check or recovery between.
NoFalseAlarm == signalled => since # 0 /\ last - since > Window

\* If each iteration fails within a minute, the worker asks for the restart eight
\* minutes after the first error at the latest.
EscalatesInTime ==
    since # 0 /\ timely /\ now <= wake + 1 => signalled \/ now <= since + 8
=============================================================================
