---------------------------- MODULE LoginLimiter ----------------------------
(***************************************************************************)
(* The failed-login limiter of the panel, src/internal/server/ratelimit.go,*)
(* together with the one handler that uses it, apiHandler.login in         *)
(* src/internal/server/server.go.                                          *)
(*                                                                         *)
(* The handler calls Allow, then service.Login (one bcrypt comparison or   *)
(* more, so it takes time), then Fail or Reset.  Each limiter call takes   *)
(* the limiter's mutex on its own: between them other handlers of the same *)
(* client run, which is what this module explores.                         *)
(*                                                                         *)
(* Time is discrete.  In the code LockUnit is 5 minutes, FailureWindow 15  *)
(* minutes, LockThreshold 5 and LimiterMaxKeys 4096.                       *)
(***************************************************************************)
EXTENDS Integers, FiniteSets

CONSTANTS
  Keys,            \* client addresses, after limiterKey
  Handlers,        \* goroutines serving POST /api/auth/login
  LockThreshold,   \* lockThreshold
  LockUnit,        \* the 5 minutes of lockDuration
  FailureWindow,   \* failureWindow
  LimiterMaxKeys,  \* limiterMaxKeys
  LoginTime,       \* longest time one service.Login takes (environment)
  MaxTime,         \* bound on the clock, for TLC only
  NoEntry,         \* a key that is not in the map
  Idle             \* a handler that serves no login

Entry == [failures : Nat \ {0}, lockedTil : Nat, lastFail : Nat]
Login == [key : Keys, start : Nat]

ASSUME TimesAssumption ==
  /\ LockThreshold \in Nat \ {0}
  /\ LockUnit \in Nat \ {0}
  /\ FailureWindow \in Nat
  /\ LimiterMaxKeys \in Nat
  /\ LoginTime \in Nat
  /\ MaxTime \in Nat

\* A login is answered before the failure window of the limiter is over.
ASSUME LoginTimeAssumption == LoginTime <= FailureWindow

ASSUME NoneAssumption == NoEntry \notin Entry /\ Idle \notin Login

VARIABLES
  attempts,   \* the map: key -> entry
  flight,     \* handler -> the login it is verifying, and since when
  now         \* the clock

vars == <<attempts, flight, now>>

TypeOK ==
  /\ attempts \in [Keys -> Entry \cup {NoEntry}]
  /\ flight \in [Handlers -> Login \cup {Idle}]
  /\ now \in Nat

Init ==
  /\ attempts = [k \in Keys |-> NoEntry]
  /\ flight = [h \in Handlers |-> Idle]
  /\ now = 0

-----------------------------------------------------------------------------
(* Entries *)

Known(k) == attempts[k] # NoEntry

Locked(k) == Known(k) /\ attempts[k].lockedTil > now

\* Expired lock and nothing failed for longer than the window.
Mutant_StaleWhileLocked(k) ==
  Known(k) /\ now - attempts[k].lastFail > FailureWindow
Mutant_StaleOnceUnlocked(k) == Known(k) /\ ~Locked(k)
Stale(k) ==
  /\ Known(k)
  /\ ~Locked(k)
  /\ now - attempts[k].lastFail > FailureWindow

LockDuration(f) ==
  IF f <= LockThreshold
  THEN LockUnit
  ELSE LET multiplier == f - (LockThreshold - 1)
       IN (IF multiplier > 6 THEN 6 ELSE multiplier) * LockUnit

\* The map that Fail works on: swept when it is full.
Mutant_SweptTooLate ==
  IF Cardinality({k \in Keys : Known(k)}) <= LimiterMaxKeys
  THEN attempts
  ELSE [k \in Keys |-> IF Stale(k) THEN NoEntry ELSE attempts[k]]
Swept ==
  IF Cardinality({k \in Keys : Known(k)}) < LimiterMaxKeys
  THEN attempts
  ELSE [k \in Keys |-> IF Stale(k) THEN NoEntry ELSE attempts[k]]

\* What one more failure makes of an entry.
Mutant_LockedOnceOnly(e) ==
  LET n == IF e = NoEntry THEN 1 ELSE e.failures + 1
  IN [failures |-> n, lastFail |-> now,
      lockedTil |-> IF n = LockThreshold THEN now + LockDuration(n)
                    ELSE IF e = NoEntry THEN 0 ELSE e.lockedTil]
Mutant_LockedBeforeCounting(e) ==
  LET n == IF e = NoEntry THEN 1 ELSE e.failures + 1
  IN [failures |-> n, lastFail |-> now,
      lockedTil |-> IF n >= LockThreshold THEN now + LockDuration(n - 1)
                    ELSE IF e = NoEntry THEN 0 ELSE e.lockedTil]
RecordFailure(e) ==
  LET decayed == e = NoEntry \/ now - e.lastFail > FailureWindow
      n       == IF decayed THEN 1 ELSE e.failures + 1
  IN [failures  |-> n,
      lastFail  |-> now,
      lockedTil |-> IF n >= LockThreshold THEN now + LockDuration(n)
                    ELSE IF e = NoEntry THEN 0 ELSE e.lockedTil]

-----------------------------------------------------------------------------
(* The steps of the login handler *)

\* Allow grants the attempt; a stale entry is dropped on the way.
Mutant_AllowLocked(h, k) ==
  /\ flight[h] = Idle
  /\ attempts' = [attempts EXCEPT ![k] = IF Stale(k) THEN NoEntry ELSE @]
  /\ flight' = [flight EXCEPT ![h] = [key |-> k, start |-> now]]
  /\ UNCHANGED now
Allow(h, k) ==
  /\ flight[h] = Idle
  /\ ~Locked(k)
  /\ attempts' = [attempts EXCEPT ![k] = IF Stale(k) THEN NoEntry ELSE @]
  /\ flight' = [flight EXCEPT ![h] = [key |-> k, start |-> now]]
  /\ UNCHANGED now

\* The refused attempt (429) changes nothing: Allow with Locked(k) is a
\* stuttering step and needs no action.

\* service.Login returned an error.
Fail(h) ==
  /\ flight[h] # Idle
  /\ LET k == flight[h].key
     IN attempts' = [Swept EXCEPT ![k] = RecordFailure(@)]
  /\ flight' = [flight EXCEPT ![h] = Idle]
  /\ UNCHANGED now

\* service.Login returned a session.
Reset(h) ==
  /\ flight[h] # Idle
  /\ attempts' = [attempts EXCEPT ![flight[h].key] = NoEntry]
  /\ flight' = [flight EXCEPT ![h] = Idle]
  /\ UNCHANGED now

\* Time passes; no login in flight is older than LoginTime.
Tick ==
  /\ now < MaxTime
  /\ \A h \in Handlers : flight[h] # Idle => now - flight[h].start < LoginTime
  /\ now' = now + 1
  /\ UNCHANGED <<attempts, flight>>

Next ==
  \/ \E h \in Handlers, k \in Keys : Allow(h, k)
  \/ \E h \in Handlers : Fail(h)
  \/ \E h \in Handlers : Reset(h)
  \/ Tick

Spec == Init /\ [][Next]_vars

-----------------------------------------------------------------------------
(* Properties *)

(* A lock is a barrier for the credential check as well as for the         *)
(* request: whatever is being verified for a locked client was admitted    *)
(* no later than the failure that set the lock (Allow refuses the rest).   *)
InFlightPredatesLock ==
  \A h \in Handlers :
    flight[h] # Idle /\ Locked(flight[h].key)
      => flight[h].start <= attempts[flight[h].key].lastFail

(* A lock in force is the one the recorded failures call for, counted      *)
(* from the last of them: neither the decay of the count in Fail nor a     *)
(* late answer leaves a client locked for another time than that.          *)
LockMatchesFailures ==
  \A k \in Keys :
    Locked(k) => /\ attempts[k].failures >= LockThreshold
                 /\ attempts[k].lockedTil =
                      attempts[k].lastFail + LockDuration(attempts[k].failures)

(* A key that has reached the threshold is locked, or its lock has run     *)
(* out: failures of overlapping logins never leave it open.                *)
ThresholdLocks ==
  \A k \in Keys :
    Known(k) /\ attempts[k].failures >= LockThreshold
      => attempts[k].lockedTil >= attempts[k].lastFail + LockUnit

(* The end of a lock in force is never moved to an earlier time, except    *)
(* by a login of that same client that succeeds.                           *)
LockNeverShortened ==
  [][\A k \in Keys :
       Locked(k) =>
         \/ Known(k)' /\ attempts'[k].lockedTil >= attempts[k].lockedTil
         \/ \E h \in Handlers : Reset(h) /\ flight[h].key = k]_vars

(* An entry that no longer counts: its lock is over and nothing failed for *)
(* longer than the window.                                                 *)
Forgivable(k) ==
  attempts[k].lockedTil <= now /\ now - attempts[k].lastFail > FailureWindow

(* Failures are forgiven for two reasons only: the client logged in, or    *)
(* its lock is over and nothing failed for longer than the window; neither *)
(* the drop in Allow, the sweep nor the decay in Fail is ever early.       *)
NoEarlyForgiveness ==
  [][\A k \in Keys :
       Known(k) /\ (Known(k)' => attempts'[k].failures <= attempts[k].failures)
         => \/ attempts'[k] = attempts[k]
            \/ Forgivable(k)
            \/ \E h \in Handlers : Reset(h) /\ flight[h].key = k]_vars

(* The map grows past its limit only with entries that still count: at     *)
(* the step that adds a key beyond LimiterMaxKeys no stale entry is left.  *)
GrowsOnlyWithLiveEntries ==
  [][\A k \in Keys :
       ( /\ ~Known(k) /\ Known(k)'
         /\ Cardinality({j \in Keys : Known(j)'}) > LimiterMaxKeys )
         => \A j \in Keys : ~(Known(j) /\ Forgivable(j))']_vars

(* The release notes promise a lock that grows with every further failure  *)
(* up to 30 minutes (CHANGELOG.md:247).  For that the count has to survive *)
(* its own lock: a client that comes back the moment its lock ends must    *)
(* still be counted.                                                       *)
CountSurvivesItsLock ==
  [][\A k \in Keys :
       Known(k) /\ attempts[k].lockedTil = now /\ now' = now
         => \/ Known(k)'
            \/ \E h \in Handlers : Reset(h) /\ flight[h].key = k]_vars
=============================================================================
