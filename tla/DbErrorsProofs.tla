--------------------------- MODULE DbErrorsProofs ---------------------------
(***************************************************************************)
(* Proofs about DbErrors for every start time, frequency of health checks  *)
(* and set of pauses.  The invariant follows a sequence of errors through  *)
(* its two backoffs: 2 and 4 minutes together outlast the window of 5.     *)
(***************************************************************************)
EXTENDS DbErrors, TLAPS

\* The count of a sequence and the times its backoffs have enforced.
Sequence ==
    /\ now > Window
    /\ count = 0 => last = 0
    /\ delay <= 2 * FirstDelay
    /\ ~signalled /\ count # 0 =>
         /\ count \in {1, 2}
         /\ first <= last /\ last <= now
         /\ wake >= last + Backoff(count)
         /\ count = 2 => last >= first + FirstDelay

\* The code's sequence lies within the failures that nothing has cured.
Within ==
    /\ since <= now
    /\ count # 0 => since # 0 /\ since <= first
    /\ NoFalseAlarm

\* Where a series of timely failures stands.
Series ==
    ~signalled /\ since # 0 /\ timely =>
        /\ count \in {1, 2}
        /\ first = since
        /\ wake = last + Backoff(count)
        /\ last <= since + 3 * (count - 1)

\* The inductive invariant.
ErrorsInv == TypeOK /\ Sequence /\ Within /\ Series

USE DEF Window, FirstDelay, LongestDelay

\* What the backoff is where it matters, and that it is a time.
LEMMA BackoffValue ==
    /\ Backoff(1) = 2 /\ Backoff(2) = 4
    /\ \A n \in Nat : Backoff(n) \in Nat
BY DEF Backoff

\* The initial state satisfies the invariant.
LEMMA InitInv == Init => ErrorsInv
<1>1. ASSUME Init PROVE TypeOK
  <2>1. now \in Nat /\ wake \in Nat /\ count \in Nat /\ first \in Nat /\ last \in Nat
    BY <1>1, ErrorsAssumption DEF Init
  <2>2. checks \in 0..(HealthEvery - 1)
    BY <1>1, ErrorsAssumption DEF Init
  <2>3. delay \in Nat /\ signalled \in BOOLEAN /\ since \in Nat /\ timely \in BOOLEAN
    BY <1>1 DEF Init
  <2> QED
    BY <2>1, <2>2, <2>3 DEF TypeOK
<1>2. Init => Sequence /\ Within /\ Series
  BY ErrorsAssumption DEF Init, Sequence, Within, Series, NoFalseAlarm
<1> QED
  BY <1>1, <1>2 DEF ErrorsInv

\* Counting an iteration towards the next health check keeps the counter's bound.
LEMMA CheckType ==
    ASSUME checks \in 0..(HealthEvery - 1), CountCheck
    PROVE  checks' \in 0..(HealthEvery - 1)
BY ErrorsAssumption DEF CountCheck, HealthDue

\* A pause ends at a time that is not before its beginning.
LEMMA PauseType ==
    ASSUME now \in Nat, wake' \in {now + d : d \in OtherDelays}
    PROVE  wake' \in Nat /\ wake' >= now
BY ErrorsAssumption

\* A database error keeps the invariant: the third of a sequence ends it.
LEMMA FailsInv ==
    ASSUME ErrorsInv, NEW cured \in BOOLEAN, NEW recovered \in BOOLEAN, Fails(cured, recovered)
    PROVE  ErrorsInv'
<1> DEFINE begins == cured \/ Fresh(last)
           n == IF begins THEN 1 ELSE count + 1
           f == IF begins THEN now ELSE first
           ended == Persisted(f)
           from == IF cured \/ since = 0 THEN now ELSE since
<1>1. /\ ~signalled /\ now >= wake /\ CountCheck /\ now' = now
      /\ signalled' = ended
      /\ ended => delay' = delay /\ wake' = wake
      /\ ~ended => delay' = Backoff(n) /\ wake' = now + Backoff(n)
      /\ recovered /\ ~ended => count' = 0 /\ first' = 0 /\ last' = 0 /\ since' = 0 /\ timely' = TRUE
      /\ ~(recovered /\ ~ended) =>
           /\ count' = n /\ first' = f /\ last' = now /\ since' = from
           /\ timely' = (from = now \/ (timely /\ now <= wake + 1))
  BY DEF Fails, Reset
<1>2. TypeOK /\ Sequence /\ Within /\ Series
  BY DEF ErrorsInv
<1>3. /\ now \in Nat /\ wake \in Nat /\ count \in Nat /\ first \in Nat /\ last \in Nat
      /\ delay \in Nat /\ since \in Nat /\ now > 5
  BY <1>2 DEF TypeOK, Sequence
<1>4. checks' \in 0..(HealthEvery - 1)
  BY <1>1, <1>2, CheckType DEF TypeOK
<1>5. timely' \in BOOLEAN
  BY <1>1, Zenon
<1>6. from \in Nat /\ from # 0 /\ from <= now /\ (count # 0 /\ ~begins => from = since)
  BY <1>2, <1>3 DEF Within, Fresh
<1>7. TypeOK'
  <2>1. n \in Nat /\ f \in Nat /\ Backoff(n) \in Nat
    BY <1>3, BackoffValue
  <2>2. wake' \in Nat /\ delay' \in Nat
    BY <1>1, <1>3, <2>1
  <2>3. now' \in Nat /\ count' \in Nat /\ first' \in Nat /\ last' \in Nat /\ since' \in Nat
    BY <1>1, <1>3, <1>6, <2>1
  <2>4. signalled' \in BOOLEAN
    BY <1>1 DEF Persisted
  <2> QED
    BY <1>4, <1>5, <2>2, <2>3, <2>4 DEF TypeOK
<1>8. CASE begins
  <2>1. n = 1 /\ f = now /\ ~ended
    BY <1>3, <1>8 DEF Persisted
  <2>2. delay' = 2 /\ wake' = now + 2 /\ signalled' = FALSE
    BY <1>1, <2>1, BackoffValue
  <2>3. CASE recovered
    <3>1. count' = 0 /\ first' = 0 /\ last' = 0 /\ since' = 0 /\ timely' = TRUE
      BY <1>1, <2>1, <2>3
    <3> QED
      BY <1>1, <1>3, <1>7, <2>2, <3>1 DEF ErrorsInv, Sequence, Within, Series, NoFalseAlarm
  <2>4. CASE ~recovered
    <3>1. /\ count' = 1 /\ first' = now /\ last' = now /\ since' = from
          /\ timely' = (from = now \/ (timely /\ now <= wake + 1))
      BY <1>1, <2>1, <2>4
    <3>2. timely' /\ from # now => FALSE
      BY <1>1, <1>2, <1>3, <1>8, <3>1, BackoffValue DEF Series, Fresh, TypeOK
    <3>3. Sequence'
      BY <1>1, <1>3, <2>2, <3>1, BackoffValue DEF Sequence
    <3>4. Within'
      BY <1>1, <1>6, <2>2, <3>1 DEF Within, NoFalseAlarm
    <3>5. Series'
      BY <1>1, <1>3, <2>2, <3>1, <3>2, BackoffValue DEF Series
    <3> QED
      BY <1>7, <3>3, <3>4, <3>5 DEF ErrorsInv
  <2> QED
    BY <2>3, <2>4
<1>9. CASE ~begins /\ ended
  <2>1. /\ n = count + 1 /\ f = first /\ ~Fresh(last) /\ count # 0
    BY <1>2, <1>3, <1>9 DEF Sequence, Fresh
  <2>2. /\ count' = count + 1 /\ first' = first /\ last' = now /\ since' = since
        /\ delay' = delay /\ wake' = wake /\ signalled' = TRUE /\ timely' \in BOOLEAN
    BY <1>1, <1>6, <1>9, <2>1
  <2>3. since # 0 /\ now - since > 5
    BY <1>2, <1>3, <1>9, <2>1 DEF Within, Persisted
  <2>4. Sequence' /\ Series'
    BY <1>1, <1>2, <1>3, <2>2 DEF Sequence, Series
  <2>5. Within'
    BY <1>1, <1>2, <1>3, <2>1, <2>2, <2>3 DEF Within, NoFalseAlarm
  <2> QED
    BY <1>7, <2>4, <2>5 DEF ErrorsInv
<1>10. CASE ~begins /\ ~ended
  <2>1. /\ n = count + 1 /\ f = first /\ count # 0 /\ now - last <= 5 /\ now - first <= 5
    BY <1>2, <1>3, <1>10 DEF Sequence, Fresh, Persisted
  <2>2. count = 1 /\ now >= last + 2
    BY <1>1, <1>2, <1>3, <2>1, BackoffValue DEF Sequence
  <2>3. delay' = 4 /\ wake' = now + 4 /\ signalled' = FALSE
    BY <1>1, <1>10, <2>1, <2>2, BackoffValue
  <2>4. CASE recovered
    <3>1. count' = 0 /\ first' = 0 /\ last' = 0 /\ since' = 0 /\ timely' = TRUE
      BY <1>1, <1>10, <2>4
    <3> QED
      BY <1>1, <1>3, <1>7, <2>3, <3>1 DEF ErrorsInv, Sequence, Within, Series, NoFalseAlarm
  <2>5. CASE ~recovered
    <3>1. /\ count' = 2 /\ first' = first /\ last' = now /\ since' = since
          /\ timely' = (since = now \/ (timely /\ now <= wake + 1))
      BY <1>1, <1>6, <1>10, <2>1, <2>2, <2>5
    <3>2. since # now
      BY <1>1, <1>2, <1>3, <2>2 DEF Within, Sequence
    <3>3. Sequence'
      BY <1>1, <1>2, <1>3, <2>2, <2>3, <3>1, BackoffValue DEF Sequence
    <3>4. Within'
      BY <1>1, <1>2, <1>3, <2>1, <2>3, <3>1 DEF Within, NoFalseAlarm
    <3>5. Series'
      BY <1>1, <1>2, <1>3, <2>2, <2>3, <3>1, <3>2, BackoffValue DEF Series, TypeOK
    <3> QED
      BY <1>7, <3>3, <3>4, <3>5 DEF ErrorsInv
  <2> QED
    BY <2>4, <2>5
<1> QED
  BY <1>8, <1>9, <1>10

\* Every step keeps the invariant.
LEMMA StepInv == ErrorsInv /\ [Next]_vars => ErrorsInv'
<1> SUFFICES ASSUME ErrorsInv, [Next]_vars
             PROVE  ErrorsInv'
  OBVIOUS
<1>0. TypeOK /\ Sequence /\ Within /\ Series
  BY DEF ErrorsInv
<1>1. CASE Tick
  BY <1>0, <1>1 DEF Tick, tracking, ErrorsInv, TypeOK, Sequence, Within, Series, NoFalseAlarm
<1>2. CASE Succeeds
  <2>1. checks' \in 0..(HealthEvery - 1) /\ wake' \in Nat
    BY <1>0, <1>2, CheckType, PauseType DEF Succeeds, TypeOK
  <2> QED
    BY <1>0, <1>2, <2>1 DEF Succeeds, Reset, ErrorsInv, TypeOK, Sequence, Within, Series, NoFalseAlarm
<1>3. CASE Interrupted
  <2>1. /\ ~signalled /\ now >= wake /\ UNCHANGED <<now, delay, signalled>>
        /\ wake' \in Nat /\ wake' >= now
    BY <1>0, <1>3, PauseType DEF Interrupted, TypeOK
  <2>2. checks' \in 0..(HealthEvery - 1)
    BY <1>0, <1>3, CheckType DEF Interrupted, TypeOK
  <2>3. CASE UNCHANGED <<tracking, since>> /\ timely' = (since = 0)
    <3>1. timely' => since' = 0
      BY <2>3
    <3>2. UNCHANGED <<count, first, last, since>> /\ timely' \in BOOLEAN
      BY <2>3 DEF tracking
    <3>3. Sequence'
      BY <1>0, <2>1, <3>2, BackoffValue DEF Sequence, TypeOK
    <3> QED
      BY <1>0, <2>1, <2>2, <3>1, <3>2, <3>3 DEF ErrorsInv, TypeOK, Within, Series, NoFalseAlarm
  <2>4. CASE Reset /\ since' = 0 /\ timely' = TRUE
    BY <1>0, <2>1, <2>2, <2>4 DEF Reset, ErrorsInv, TypeOK, Sequence, Within, Series, NoFalseAlarm
  <2> QED
    BY <1>3, <2>3, <2>4 DEF Interrupted
<1>4. CASE \E c, r \in BOOLEAN : Fails(c, r)
  BY <1>4, FailsInv
<1>5. CASE UNCHANGED vars
  BY <1>0, <1>5 DEF vars, tracking, ErrorsInv, TypeOK, Sequence, Within, Series, NoFalseAlarm
<1> QED
  BY <1>1, <1>2, <1>3, <1>4, <1>5 DEF Next

\* The invariant holds in every reachable state.
THEOREM InvHolds == Spec => []ErrorsInv
BY InitInv, StepInv, PTL DEF Spec

\* The variables keep their types for every frequency of health checks.
THEOREM TypeCorrect == Spec => []TypeOK
<1>1. ErrorsInv => TypeOK
  BY DEF ErrorsInv
<1> QED
  BY <1>1, InvHolds, PTL

\* The backoff never goes beyond its second step: 2 and 4 minutes outlast the
\* window, so the third error of a sequence ends it.
THEOREM ShortBackoffHolds == Spec => []ShortBackoff
<1>1. ErrorsInv => ShortBackoff
  BY DEF ErrorsInv, Sequence, ShortBackoff
<1> QED
  BY <1>1, InvHolds, PTL

\* A coordinated restart is asked for only after more than the window of errors
\* that no good iteration, health check or recovery has interrupted.
THEOREM NoFalseAlarmHolds == Spec => []NoFalseAlarm
<1>1. ErrorsInv => NoFalseAlarm
  BY DEF ErrorsInv, Within
<1> QED
  BY <1>1, InvHolds, PTL

\* Iterations that each fail within a minute lead to the restart within eight.
THEOREM EscalatesInTimeHolds == Spec => []EscalatesInTime
<1>1. ErrorsInv => EscalatesInTime
  BY BackoffValue DEF ErrorsInv, TypeOK, Series, EscalatesInTime
<1> QED
  BY <1>1, InvHolds, PTL
=============================================================================
