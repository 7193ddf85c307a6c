------------------------- MODULE LoginLimiterProofs -------------------------
(***************************************************************************)
(* Theorems about LoginLimiter for any number of clients and of concurrent *)
(* login handlers, any threshold and any durations, as long as a login is  *)
(* answered within the failure window.                                     *)
(***************************************************************************)
EXTENDS LoginLimiter, FiniteSetTheorems, TLAPS

(* A login in flight began in the past, at most LoginTime ago, and no      *)
(* failure is recorded in the future.                                      *)
FlightInTime ==
  /\ \A h \in Handlers :
       flight[h] # Idle => /\ flight[h].start <= now
                           /\ now - flight[h].start <= LoginTime
  /\ \A k \in Keys : Known(k) => attempts[k].lastFail <= now

IInv ==
  /\ TypeOK
  /\ FlightInTime
  /\ InFlightPredatesLock
  /\ LockMatchesFailures
  /\ ThresholdLocks

-----------------------------------------------------------------------------
(* Every lock lasts a whole number of units, at least one and at most six, *)
(* and a further failure never shortens it.                                *)
LEMMA LockDurationBounds ==
  ASSUME NEW f \in Nat
  PROVE  /\ LockDuration(f) \in Nat
         /\ LockDuration(f) >= LockUnit
         /\ LockDuration(f + 1) >= LockDuration(f)
<1> DEFINE m(g) == IF g - (LockThreshold - 1) > 6 THEN 6 ELSE g - (LockThreshold - 1)
<1>1. LockThreshold \in Nat \ {0} /\ LockUnit \in Nat \ {0}
  BY TimesAssumption
<1>2. CASE f < LockThreshold
  BY <1>1, <1>2 DEF LockDuration
<1>3. CASE f = LockThreshold
  <2>1. LockDuration(f) = LockUnit
    BY <1>3, <1>1 DEF LockDuration
  <2>2. LockDuration(f + 1) = 2 * LockUnit
    BY <1>3, <1>1 DEF LockDuration
  <2> QED BY <2>1, <2>2, <1>1
<1>4. CASE f > LockThreshold
  <2>1. LockDuration(f) = m(f) * LockUnit /\ LockDuration(f + 1) = m(f + 1) * LockUnit
    BY <1>4, <1>1 DEF LockDuration
  <2>2. m(f) \in 2..6 /\ m(f + 1) \in 2..6 /\ m(f + 1) >= m(f)
    BY <1>4, <1>1
  <2>3. ASSUME NEW a \in 2..6, NEW b \in 2..6, b >= a
        PROVE  /\ a * LockUnit \in Nat
               /\ a * LockUnit >= LockUnit
               /\ b * LockUnit >= a * LockUnit
    <3>1. \A x \in 2..6 : x = 2 \/ x = 3 \/ x = 4 \/ x = 5 \/ x = 6
      OBVIOUS
    <3> QED BY <3>1, <2>3, <1>1
  <2> HIDE DEF m
  <2> QED BY <2>1, <2>2, <2>3
<1> QED BY <1>1, <1>2, <1>3, <1>4

(* Recording a failure yields an entry.                                    *)
LEMMA RecordFailureType ==
  ASSUME NEW e \in Entry \cup {NoEntry}, now \in Nat
  PROVE  /\ RecordFailure(e) \in Entry
         /\ RecordFailure(e).lastFail = now
<1> DEFINE n == IF e = NoEntry \/ now - e.lastFail > FailureWindow
                THEN 1 ELSE e.failures + 1
<1>1. n \in Nat \ {0}
  BY DEF Entry
<1>2. LockDuration(n) \in Nat
  BY <1>1, LockDurationBounds
<1>3. (IF n >= LockThreshold THEN now + LockDuration(n)
       ELSE IF e = NoEntry THEN 0 ELSE e.lockedTil) \in Nat
  BY <1>2 DEF Entry
<1>4. RecordFailure(e) = [failures |-> n, lastFail |-> now,
                          lockedTil |-> IF n >= LockThreshold THEN now + LockDuration(n)
                                        ELSE IF e = NoEntry THEN 0 ELSE e.lockedTil]
  BY DEF RecordFailure
<1> QED BY <1>1, <1>3, <1>4 DEF Entry

(* The sweep removes entries and changes none; a locked key is kept.       *)
LEMMA SweptKeeps ==
  ASSUME TypeOK, NEW k \in Keys
  PROVE  /\ Swept \in [Keys -> Entry \cup {NoEntry}]
         /\ Swept[k] = attempts[k] \/ (Swept[k] = NoEntry /\ Stale(k))
<1>1. CASE Cardinality({j \in Keys : Known(j)}) < LimiterMaxKeys
  BY <1>1 DEF Swept, TypeOK
<1>2. CASE ~(Cardinality({j \in Keys : Known(j)}) < LimiterMaxKeys)
  <2>1. Swept = [j \in Keys |-> IF Stale(j) THEN NoEntry ELSE attempts[j]]
    BY <1>2 DEF Swept
  <2> QED BY <2>1 DEF TypeOK
<1> QED BY <1>1, <1>2

(* A key that is locked while a login of its own is in flight last failed  *)
(* within the window: the failure about to be recorded does not decay.     *)
LEMMA LockedFlightIsRecent ==
  ASSUME IInv, NEW h \in Handlers, flight[h] # Idle, Locked(flight[h].key)
  PROVE  now - attempts[flight[h].key].lastFail <= FailureWindow
<1> DEFINE k == flight[h].key
<1>1. flight[h] \in Login /\ k \in Keys
  BY DEF IInv, TypeOK, Login
<1>2. attempts[k] \in Entry
  BY <1>1 DEF IInv, TypeOK, Locked, Known
<1>3. flight[h].start <= attempts[k].lastFail
  BY DEF IInv, InFlightPredatesLock
<1>4. now - flight[h].start <= LoginTime
  BY DEF IInv, FlightInTime
<1> QED
  BY <1>1, <1>2, <1>3, <1>4, TimesAssumption, LoginTimeAssumption
  DEF IInv, TypeOK, Entry, Login

(* What a failure does to the map: a new entry for the client that failed, *)
(* and every other entry kept, or dropped when it was stale.               *)
LEMMA FailEffect ==
  ASSUME TypeOK, NEW h \in Handlers, Fail(h)
  PROVE  /\ flight[h] \in Login
         /\ \E e \in {attempts[flight[h].key], NoEntry} :
              /\ attempts'[flight[h].key] = RecordFailure(e)
              /\ e = NoEntry => ~Known(flight[h].key) \/ Stale(flight[h].key)
         /\ \A k \in Keys : k # flight[h].key =>
              \/ attempts'[k] = attempts[k]
              \/ attempts'[k] = NoEntry /\ Stale(k)
         /\ attempts' \in [Keys -> Entry \cup {NoEntry}]
<1>1. flight[h] \in Login /\ flight[h].key \in Keys
  BY DEF TypeOK, Fail, Login
<1>2. Swept \in [Keys -> Entry \cup {NoEntry}]
  BY <1>1, SweptKeeps
<1>3. attempts' = [Swept EXCEPT ![flight[h].key] = RecordFailure(Swept[flight[h].key])]
  BY DEF Fail
<1>4. RecordFailure(Swept[flight[h].key]) \in Entry
  BY <1>1, <1>2, RecordFailureType DEF TypeOK
<1>5. attempts'[flight[h].key] = RecordFailure(Swept[flight[h].key])
  BY <1>1, <1>2, <1>3
<1>6. \A k \in Keys : k # flight[h].key => attempts'[k] = Swept[k]
  BY <1>2, <1>3
<1>7. \A k \in Keys : Swept[k] = attempts[k] \/ (Swept[k] = NoEntry /\ Stale(k))
  BY SweptKeeps
<1>8. Swept[flight[h].key] \in {attempts[flight[h].key], NoEntry}
  BY <1>1, <1>7
<1>9. Swept[flight[h].key] = NoEntry => ~Known(flight[h].key) \/ Stale(flight[h].key)
  BY <1>1, <1>7 DEF Known
<1>10. attempts' \in [Keys -> Entry \cup {NoEntry}]
  BY <1>2, <1>3, <1>4
<1> HIDE DEF Fail
<1> QED BY <1>1, <1>5, <1>6, <1>7, <1>8, <1>9, <1>10

-----------------------------------------------------------------------------
LEMMA InitIInv == Init => IInv
BY TimesAssumption, NoneAssumption
DEF Init, IInv, TypeOK, FlightInTime, InFlightPredatesLock,
    LockMatchesFailures, ThresholdLocks, Known, Locked

LEMMA AllowIInv ==
  ASSUME IInv, NEW h \in Handlers, NEW k \in Keys, Allow(h, k)
  PROVE  IInv'
<1>1. [key |-> k, start |-> now] \in Login
  BY DEF IInv, TypeOK, Login
<1>2. TypeOK'
  BY <1>1 DEF IInv, TypeOK, Allow
<1>3. \A j \in Keys : attempts'[j] # NoEntry => attempts'[j] = attempts[j]
  BY DEF IInv, TypeOK, Allow
<1>4. \A g \in Handlers : flight'[g] # Idle =>
        \/ flight'[g] = flight[g]
        \/ flight'[g] = [key |-> k, start |-> now]
  BY DEF IInv, TypeOK, Allow
<1>5. now' = now /\ ~Locked(k) /\ now \in Nat
  BY DEF Allow, IInv, TypeOK
<1>6. FlightInTime'
  BY <1>3, <1>4, <1>5, TimesAssumption DEF IInv, FlightInTime, Known
<1>9. \A g \in Handlers : flight[g] # Idle => flight[g].key \in Keys
  BY DEF IInv, TypeOK, Login
<1>7. InFlightPredatesLock'
  <2> SUFFICES ASSUME NEW g \in Handlers, (flight[g] # Idle /\ Locked(flight[g].key))'
               PROVE  flight'[g].start <= attempts'[flight'[g].key].lastFail
    BY DEF InFlightPredatesLock
  <2>1. CASE flight'[g] = flight[g]
    BY <2>1, <1>3, <1>5, <1>9 DEF IInv, InFlightPredatesLock, Known, Locked
  <2>2. CASE flight'[g] = [key |-> k, start |-> now]
    BY <2>2, <1>3, <1>5 DEF Known, Locked
  <2> QED BY <2>1, <2>2, <1>4
<1>8. LockMatchesFailures' /\ ThresholdLocks'
  BY <1>3, <1>5 DEF IInv, LockMatchesFailures, ThresholdLocks, Known, Locked
<1> QED BY <1>2, <1>6, <1>7, <1>8 DEF IInv

LEMMA ResetIInv ==
  ASSUME IInv, NEW h \in Handlers, Reset(h)
  PROVE  IInv'
<1>2. TypeOK'
  BY DEF IInv, TypeOK, Reset
<1>3. \A j \in Keys : attempts'[j] # NoEntry => attempts'[j] = attempts[j]
  BY DEF IInv, TypeOK, Reset
<1>4. \A g \in Handlers : flight'[g] # Idle => flight'[g] = flight[g]
  BY DEF IInv, TypeOK, Reset
<1>5. now' = now
  BY DEF Reset
<1>8. \A g \in Handlers : flight[g] # Idle => flight[g].key \in Keys
  BY DEF IInv, TypeOK, Login
<1>6. FlightInTime' /\ InFlightPredatesLock'
  BY <1>3, <1>4, <1>5, <1>8 DEF IInv, FlightInTime, InFlightPredatesLock, Known, Locked
<1>7. LockMatchesFailures' /\ ThresholdLocks'
  BY <1>3, <1>5 DEF IInv, LockMatchesFailures, ThresholdLocks, Known, Locked
<1> QED BY <1>2, <1>6, <1>7 DEF IInv

LEMMA TickIInv ==
  ASSUME IInv, Tick
  PROVE  IInv'
<1>1. attempts' = attempts /\ flight' = flight /\ now' = now + 1 /\ now \in Nat
  BY DEF Tick, IInv, TypeOK
<1>2. TypeOK'
  BY <1>1 DEF IInv, TypeOK
<1>3. \A k \in Keys : Known(k) => attempts[k].lockedTil \in Nat /\ attempts[k].lastFail \in Nat
  BY DEF IInv, TypeOK, Known, Entry
<1>4. \A g \in Handlers : flight[g] # Idle => flight[g].start \in Nat /\ flight[g].key \in Keys
  BY DEF IInv, TypeOK, Login
<1>5. FlightInTime'
  BY <1>1, <1>3, <1>4, TimesAssumption DEF IInv, FlightInTime, Known, Tick
<1>6. \A k \in Keys : Locked(k)' => Locked(k)
  BY <1>1, <1>3 DEF Locked, Known
<1>7. InFlightPredatesLock'
  BY <1>1, <1>4, <1>6 DEF IInv, InFlightPredatesLock
<1>8. LockMatchesFailures' /\ ThresholdLocks'
  BY <1>1, <1>6 DEF IInv, LockMatchesFailures, ThresholdLocks, Known
<1> QED BY <1>2, <1>5, <1>7, <1>8 DEF IInv

LEMMA FailIInv ==
  ASSUME IInv, NEW h \in Handlers, Fail(h)
  PROVE  IInv'
<1>1. flight[h] \in Login /\ flight[h].key \in Keys /\ flight[h] # Idle
  BY DEF IInv, TypeOK, Login, Fail
<1>k. PICK k \in Keys : k = flight[h].key
  BY <1>1
<1>2. PICK e \in {attempts[k], NoEntry} :
        /\ attempts'[k] = RecordFailure(e)
        /\ e = NoEntry => ~Known(k) \/ Stale(k)
  BY FailEffect, <1>k DEF IInv
<1>3. /\ \A j \in Keys : j # k => \/ attempts'[j] = attempts[j]
                                  \/ attempts'[j] = NoEntry
      /\ attempts' \in [Keys -> Entry \cup {NoEntry}]
  BY FailEffect, <1>k DEF IInv
<1>4. flight' = [flight EXCEPT ![h] = Idle] /\ now' = now /\ now \in Nat
  BY DEF Fail, IInv, TypeOK
<1>5. e \in Entry \cup {NoEntry}
  BY <1>1, <1>2 DEF IInv, TypeOK
<1>6. attempts'[k] \in Entry /\ attempts'[k].lastFail = now
  BY <1>2, <1>4, <1>5, RecordFailureType
<1>7. TypeOK'
  BY <1>3, <1>4 DEF IInv, TypeOK
<1>8. \A g \in Handlers : flight'[g] # Idle => flight'[g] = flight[g] /\ flight[g] \in Login
  BY <1>4 DEF IInv, TypeOK
<1>9. FlightInTime'
  BY <1>1, <1>3, <1>4, <1>6, <1>8 DEF IInv, FlightInTime, Known
<1>10. \A j \in Keys \ {k} : Known(j)' => attempts'[j] = attempts[j]
  BY <1>3 DEF Known
<1>11. InFlightPredatesLock'
  <2> SUFFICES ASSUME NEW g \in Handlers, (flight[g] # Idle /\ Locked(flight[g].key))'
               PROVE  flight'[g].start <= attempts'[flight'[g].key].lastFail
    BY DEF InFlightPredatesLock
  <2>1. flight'[g] = flight[g] /\ flight[g].key \in Keys /\ flight[g] # Idle
    BY <1>8 DEF Login
  <2>2. CASE flight[g].key = k
    BY <2>1, <2>2, <1>6 DEF IInv, FlightInTime
  <2>3. CASE flight[g].key # k
    BY <2>1, <2>3, <1>4, <1>10 DEF IInv, InFlightPredatesLock, Locked, Known
  <2> QED BY <2>2, <2>3
<1>12. LockMatchesFailures'
  <2>1. CASE e = NoEntry
    BY <2>1, <1>2, <1>4, <1>10, LockDurationBounds, TimesAssumption
    DEF IInv, LockMatchesFailures, Locked, Known, RecordFailure
  <2>2. CASE e # NoEntry
    <3>1. e = attempts[k] /\ e \in Entry /\ Known(k)
      BY <2>2, <1>2, <1>5 DEF Known
    <3>2. Locked(k) => now - e.lastFail <= FailureWindow
      BY <3>1, <1>1, LockedFlightIsRecent, <1>k
    <3>3. Locked(k) => e.failures >= LockThreshold
      BY <3>1, <1>1 DEF IInv, LockMatchesFailures
    <3>4. (Locked(k))' => /\ attempts'[k].failures >= LockThreshold
                          /\ attempts'[k].lockedTil =
                               attempts'[k].lastFail + LockDuration(attempts'[k].failures)
      <4> DEFINE n == IF e = NoEntry \/ now - e.lastFail > FailureWindow
                      THEN 1 ELSE e.failures + 1
      <4>1. attempts'[k] = [failures |-> n, lastFail |-> now,
                            lockedTil |-> IF n >= LockThreshold THEN now + LockDuration(n)
                                          ELSE IF e = NoEntry THEN 0 ELSE e.lockedTil]
        BY <1>2 DEF RecordFailure
      <4>2. CASE n >= LockThreshold
        BY <4>1, <4>2
      <4>3. CASE ~(n >= LockThreshold)
        <5>1. attempts'[k].lockedTil = e.lockedTil
          BY <4>1, <4>3, <2>2
        <5>2. (Locked(k))' => Locked(k)
          BY <5>1, <3>1, <1>4 DEF Locked
        <5>3. ~Locked(k)
          BY <3>1, <3>2, <3>3, <2>2, <4>3, <1>4, TimesAssumption DEF Entry
        <5> QED BY <5>2, <5>3
      <4> QED BY <4>2, <4>3
    <3>5. ASSUME NEW j \in Keys \ {k}, (Locked(j))'
          PROVE  /\ attempts'[j].failures >= LockThreshold
                 /\ attempts'[j].lockedTil =
                      attempts'[j].lastFail + LockDuration(attempts'[j].failures)
      <4>1. attempts'[j] = attempts[j] /\ Locked(j)
        BY <3>5, <1>4, <1>10 DEF Locked, Known
      <4> QED BY <4>1 DEF IInv, LockMatchesFailures
    <3> QED BY <3>4, <3>5 DEF LockMatchesFailures
  <2> QED BY <2>1, <2>2
<1>13. ThresholdLocks'
  <2>1. attempts'[k].failures >= LockThreshold =>
          attempts'[k].lockedTil = now + LockDuration(attempts'[k].failures)
    BY <1>2 DEF RecordFailure
  <2>2. LockDuration(attempts'[k].failures) >= LockUnit
        /\ LockDuration(attempts'[k].failures) \in Nat
    BY <1>6, LockDurationBounds DEF Entry
  <2> QED BY <2>1, <2>2, <1>4, <1>6, <1>10, TimesAssumption
          DEF IInv, ThresholdLocks, Known
<1> QED BY <1>7, <1>9, <1>11, <1>12, <1>13 DEF IInv

(* The strengthened invariant is kept by every step.                       *)
LEMMA StepIInv == IInv /\ [Next]_vars => IInv'
<1> SUFFICES ASSUME IInv, [Next]_vars PROVE IInv'
  OBVIOUS
<1>1. ASSUME NEW h \in Handlers, NEW k \in Keys, Allow(h, k) PROVE IInv'
  BY <1>1, AllowIInv
<1>2. ASSUME NEW h \in Handlers, Fail(h) PROVE IInv'
  BY <1>2, FailIInv
<1>3. ASSUME NEW h \in Handlers, Reset(h) PROVE IInv'
  BY <1>3, ResetIInv
<1>4. CASE Tick
  BY <1>4, TickIInv
<1>5. CASE UNCHANGED vars
  BY <1>5 DEF vars, IInv, TypeOK, FlightInTime, InFlightPredatesLock,
              LockMatchesFailures, ThresholdLocks, Known, Locked
<1> QED BY <1>1, <1>2, <1>3, <1>4, <1>5 DEF Next

LEMMA InductiveInvariant == Spec => []IInv
BY InitIInv, StepIInv, PTL DEF Spec

-----------------------------------------------------------------------------
(* The map holds entries with at least one failure, the handlers logins.   *)
THEOREM TypeCorrect == Spec => []TypeOK
<1>1. IInv => TypeOK
  BY DEF IInv
<1> QED BY <1>1, InductiveInvariant, PTL

(* No login that is being verified for a locked client was admitted after  *)
(* the lock was set.                                                       *)
THEOREM LockIsABarrier == Spec => []InFlightPredatesLock
<1>1. IInv => InFlightPredatesLock
  BY DEF IInv
<1> QED BY <1>1, InductiveInvariant, PTL

(* A lock in force always is the one its failure count calls for.          *)
THEOREM LocksAreExact == Spec => []LockMatchesFailures
<1>1. IInv => LockMatchesFailures
  BY DEF IInv
<1> QED BY <1>1, InductiveInvariant, PTL

(* A client that reached the threshold has been locked.                    *)
THEOREM FailuresAddUp == Spec => []ThresholdLocks
<1>1. IInv => ThresholdLocks
  BY DEF IInv
<1> QED BY <1>1, InductiveInvariant, PTL

(* Only a successful login of the same client ends a lock before its time. *)
THEOREM LocksRunTheirTime == Spec => LockNeverShortened
<1> DEFINE Lifted(k) == \E h \in Handlers : Reset(h) /\ flight[h].key = k
           Kept(k) == Known(k)' /\ attempts'[k].lockedTil >= attempts[k].lockedTil
<1>1. ASSUME IInv, Next, NEW k \in Keys, Locked(k)
      PROVE  Kept(k) \/ Lifted(k)
  <2>1. attempts[k] \in Entry /\ attempts[k].lockedTil \in Nat /\ now \in Nat
    BY <1>1 DEF IInv, TypeOK, Locked, Known, Entry
  <2>2. attempts'[k] = attempts[k] => Kept(k)
    BY <1>1, <2>1 DEF Locked, Known
  <2>3. ASSUME NEW h \in Handlers, NEW j \in Keys, Allow(h, j) PROVE Kept(k)
    BY <1>1, <2>2, <2>3 DEF Allow, IInv, TypeOK
  <2>4. ASSUME NEW h \in Handlers, Fail(h) PROVE Kept(k)
    <3>1. CASE flight[h].key # k
      BY <1>1, <2>2, <2>4, <3>1, FailEffect DEF IInv, Stale
    <3>2. CASE flight[h].key = k
      <4>1. attempts'[k] = RecordFailure(attempts[k])
        BY <1>1, <2>4, <3>2, FailEffect DEF IInv, Stale, Locked
      <4>2. now - attempts[k].lastFail <= FailureWindow
        BY <1>1, <2>4, <3>2, LockedFlightIsRecent DEF Fail
      <4>3. /\ attempts[k].failures >= LockThreshold
            /\ attempts[k].lockedTil = attempts[k].lastFail + LockDuration(attempts[k].failures)
        BY <1>1 DEF IInv, LockMatchesFailures
      <4>4. attempts'[k].lockedTil = now + LockDuration(attempts[k].failures + 1)
        BY <2>1, <4>1, <4>2, <4>3, TimesAssumption, NoneAssumption DEF RecordFailure, Entry
      <4>5. /\ LockDuration(attempts[k].failures) \in Nat
            /\ LockDuration(attempts[k].failures + 1) \in Nat
            /\ LockDuration(attempts[k].failures + 1) >= LockDuration(attempts[k].failures)
        BY <2>1, LockDurationBounds DEF Entry
      <4>6. attempts[k].lastFail \in Nat /\ attempts[k].lastFail <= now
        BY <1>1, <2>1 DEF IInv, FlightInTime, Locked, Entry
      <4>7. attempts'[k] \in Entry
        BY <2>1, <4>1, RecordFailureType
      <4> QED BY <2>1, <4>3, <4>4, <4>5, <4>6, <4>7, NoneAssumption DEF Known
    <3> QED BY <3>1, <3>2
  <2>5. ASSUME NEW h \in Handlers, Reset(h) PROVE Kept(k) \/ Lifted(k)
    BY <1>1, <2>2, <2>5 DEF Reset, IInv, TypeOK
  <2>6. CASE Tick
    BY <2>2, <2>6 DEF Tick
  <2> QED BY <1>1, <2>3, <2>4, <2>5, <2>6 DEF Next
<1>2. IInv /\ [Next]_vars =>
        [\A k \in Keys :
           Locked(k) =>
             \/ Known(k)' /\ attempts'[k].lockedTil >= attempts[k].lockedTil
             \/ \E h \in Handlers : Reset(h) /\ flight[h].key = k]_vars
  BY <1>1
<1> QED BY <1>2, InductiveInvariant, PTL DEF Spec, LockNeverShortened

(* Neither the drop in Allow, the sweep nor the decay in Fail forgives a   *)
(* client early.                                                           *)
THEOREM NothingIsForgivenEarly == Spec => NoEarlyForgiveness
<1> DEFINE Lifted(k) == \E h \in Handlers : Reset(h) /\ flight[h].key = k
<1>1. ASSUME IInv, NEW k \in Keys, Stale(k) PROVE Forgivable(k)
  BY <1>1 DEF IInv, TypeOK, Stale, Locked, Known, Entry, Forgivable
<1>2. ASSUME IInv, Next, NEW k \in Keys, Known(k),
             Known(k)' => attempts'[k].failures <= attempts[k].failures
      PROVE  attempts'[k] = attempts[k] \/ Forgivable(k) \/ Lifted(k)
  <2>1. attempts[k] \in Entry /\ now \in Nat
    BY <1>2 DEF IInv, TypeOK, Known
  <2>2. ASSUME NEW h \in Handlers, NEW j \in Keys, Allow(h, j)
        PROVE  attempts'[k] = attempts[k] \/ Forgivable(k)
    BY <1>1, <1>2, <2>2 DEF Allow, IInv, TypeOK
  <2>3. ASSUME NEW h \in Handlers, Fail(h) PROVE attempts'[k] = attempts[k] \/ Forgivable(k)
    <3>1. CASE flight[h].key # k
      BY <1>1, <1>2, <2>3, <3>1, FailEffect DEF IInv
    <3>2. CASE flight[h].key = k
      <4>1. PICK e \in {attempts[k], NoEntry} :
              attempts'[k] = RecordFailure(e) /\ (e = NoEntry => ~Known(k) \/ Stale(k))
        BY <1>2, <2>3, <3>2, FailEffect DEF IInv
      <4>2. CASE e = NoEntry
        BY <1>1, <1>2, <4>1, <4>2
      <4>3. CASE e = attempts[k] /\ now - attempts[k].lastFail > FailureWindow
        <5>1. ~Locked(k)
          BY <1>2, <2>1, <2>3, <3>2, <4>3, TimesAssumption, LockedFlightIsRecent DEF Fail, Entry
        <5> QED BY <1>1, <1>2, <4>3, <5>1 DEF Stale
      <4>4. CASE e = attempts[k] /\ ~(now - attempts[k].lastFail > FailureWindow)
        <5>1. attempts'[k].failures = attempts[k].failures + 1
          BY <1>2, <4>1, <4>4 DEF RecordFailure, Known
        <5>2. attempts'[k] \in Entry
          BY <2>1, <4>1, <4>4, RecordFailureType
        <5> QED BY <1>2, <2>1, <5>1, <5>2, NoneAssumption DEF Known, Entry
      <4> QED BY <4>1, <4>2, <4>3, <4>4
    <3> QED BY <3>1, <3>2
  <2>4. ASSUME NEW h \in Handlers, Reset(h) PROVE attempts'[k] = attempts[k] \/ Lifted(k)
    BY <1>2, <2>4 DEF Reset, IInv, TypeOK
  <2>5. CASE Tick
    BY <2>5 DEF Tick
  <2> QED BY <1>2, <2>2, <2>3, <2>4, <2>5 DEF Next
<1>3. IInv /\ [Next]_vars =>
        [\A k \in Keys :
           Known(k) /\ (Known(k)' => attempts'[k].failures <= attempts[k].failures)
             => \/ attempts'[k] = attempts[k]
                \/ Forgivable(k)
                \/ \E h \in Handlers : Reset(h) /\ flight[h].key = k]_vars
  BY <1>2
<1> QED BY <1>3, InductiveInvariant, PTL DEF Spec, NoEarlyForgiveness

-----------------------------------------------------------------------------
(* The map is finite, whatever the number of clients: each failure adds    *)
(* one entry at most.                                                      *)
MapIsFinite == IsFiniteSet({k \in Keys : Known(k)})

LEMMA MapGrowsByOne ==
  ASSUME IInv, [Next]_vars
  PROVE  \E j \in Keys \cup {NoEntry} :
           {k \in Keys : Known(k)'} \subseteq {k \in Keys : Known(k)} \cup {j}
<1>1. ASSUME NEW h \in Handlers, Fail(h)
      PROVE  {k \in Keys : Known(k)'} \subseteq {k \in Keys : Known(k)} \cup {flight[h].key}
  BY <1>1, FailEffect DEF IInv, Known
<1>2. ASSUME NEW h \in Handlers, Fail(h) PROVE flight[h].key \in Keys
  BY <1>2, FailEffect DEF IInv, Login
<1>3. ASSUME NEW h \in Handlers, Reset(h)
      PROVE  {k \in Keys : Known(k)'} \subseteq {k \in Keys : Known(k)}
  BY <1>3 DEF Reset, IInv, TypeOK, Known
<1>4. ASSUME NEW h \in Handlers, NEW k \in Keys, Allow(h, k)
      PROVE  {j \in Keys : Known(j)'} \subseteq {j \in Keys : Known(j)}
  BY <1>4 DEF Allow, IInv, TypeOK, Known
<1>5. CASE Tick \/ UNCHANGED vars
  BY <1>5 DEF Tick, vars, Known
<1> QED BY <1>1, <1>2, <1>3, <1>4, <1>5 DEF Next

LEMMA MapStaysFinite == Spec => []MapIsFinite
<1>1. Init => MapIsFinite
  <2> SUFFICES ASSUME Init PROVE {k \in Keys : Known(k)} = {}
    BY FS_EmptySet DEF MapIsFinite
  <2> QED BY DEF Init, Known
<1>2. IInv /\ MapIsFinite /\ [Next]_vars => MapIsFinite'
  <2> SUFFICES ASSUME IInv, MapIsFinite, [Next]_vars PROVE IsFiniteSet({k \in Keys : Known(k)'})
    BY DEF MapIsFinite
  <2>1. PICK j \in Keys \cup {NoEntry} :
          {k \in Keys : Known(k)'} \subseteq {k \in Keys : Known(k)} \cup {j}
    BY MapGrowsByOne
  <2>2. IsFiniteSet({k \in Keys : Known(k)} \cup {j})
    BY FS_AddElement DEF MapIsFinite
  <2> QED BY <2>1, <2>2, FS_Subset
<1> QED BY <1>1, <1>2, InductiveInvariant, PTL DEF Spec

(* The map grows past its limit only with entries that still count.        *)
THEOREM LimitHoldsForStaleEntries == Spec => GrowsOnlyWithLiveEntries
<1> DEFINE Map == {j \in Keys : Known(j)}
           Grown == {j \in Keys : Known(j)'}
<1>1. ASSUME IInv, MapIsFinite, Next, NEW k \in Keys, ~Known(k), Known(k)',
             Cardinality(Grown) > LimiterMaxKeys, NEW j \in Keys
      PROVE  ~(Known(j)' /\ Forgivable(j)')
  <2>1. PICK h \in Handlers : Fail(h)
    BY <1>1 DEF Next, Allow, Reset, Tick, Known, IInv, TypeOK
  <2>2. flight[h].key = k
    BY <1>1, <2>1, FailEffect DEF IInv, Known
  <2>3. now' = now /\ now \in Nat
    BY <1>1, <2>1 DEF Fail, IInv, TypeOK
  <2>4. attempts'[k].lastFail = now
    BY <1>1, <2>1, <2>2, <2>3, FailEffect, RecordFailureType DEF IInv, TypeOK
  <2>5. CASE j = k
    BY <2>3, <2>4, <2>5, TimesAssumption DEF Forgivable
  <2>6. CASE j # k
    <3>1. attempts'[j] = Swept[j]
      BY <1>1, <2>1, <2>2, <2>6, SweptKeeps DEF Fail, IInv
    <3>2. Cardinality(Map) >= LimiterMaxKeys
      <4>1. Grown \subseteq Map \cup {k}
        BY <1>1, <2>1, <2>2, FailEffect DEF IInv, Known
      <4>2. IsFiniteSet(Map \cup {k}) /\ Cardinality(Map \cup {k}) = Cardinality(Map) + 1
            /\ Cardinality(Map) \in Nat
        BY <1>1, FS_AddElement, FS_CardinalityType DEF MapIsFinite
      <4>3. Cardinality(Grown) <= Cardinality(Map \cup {k}) /\ Cardinality(Grown) \in Nat
        BY <4>1, <4>2, FS_Subset, FS_CardinalityType
      <4> QED BY <1>1, <4>2, <4>3, TimesAssumption
    <3>3. Swept[j] = IF Stale(j) THEN NoEntry ELSE attempts[j]
      BY <1>1, <3>2, FS_CardinalityType, TimesAssumption DEF Swept, MapIsFinite
    <3>4. CASE Stale(j)
      BY <3>1, <3>3, <3>4 DEF Known
    <3>5. CASE ~Stale(j)
      <4>1. attempts'[j] = attempts[j]
        BY <3>1, <3>3, <3>5
      <4>2. ASSUME Known(j)', Forgivable(j)' PROVE FALSE
        BY <1>1, <2>3, <3>5, <4>1, <4>2 DEF Stale, Known, Locked, Forgivable, IInv, TypeOK, Entry
      <4> QED BY <4>2
    <3> QED BY <3>4, <3>5
  <2> QED BY <2>5, <2>6
<1>2. IInv /\ MapIsFinite /\ [Next]_vars =>
        [\A k \in Keys :
           ( /\ ~Known(k) /\ Known(k)'
             /\ Cardinality({j \in Keys : Known(j)'}) > LimiterMaxKeys )
             => \A j \in Keys : ~(Known(j) /\ Forgivable(j))']_vars
  BY <1>1
<1> QED BY <1>2, InductiveInvariant, MapStaysFinite, PTL DEF Spec, GrowsOnlyWithLiveEntries
=============================================================================
