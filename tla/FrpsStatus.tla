----------------------------- MODULE FrpsStatus -----------------------------
(***************************************************************************)
(* What the panel shows of one frps target, in real time: its status and   *)
(* the address its last sample came from                                   *)
(* (src/internal/app/frps_monitor.go).                                     *)
(*                                                                         *)
(* A scrape is a goroutine of its own: it notes the attempt, asks the      *)
(* server and stores the answer, or the error, under the lock.  The        *)
(* interval of a target may be shorter than the timeout of a scrape and    *)
(* every edit forces one more, so that several scrapes of one target, of   *)
(* one address or of two, end in any order.                                *)
(*                                                                         *)
(* Instants are kept as ages, in ticks of the monitor's ticker: how often  *)
(* it has fired since.  An instant lies between two ticks, and so does the *)
(* look at the clock, so that the time gone by is an age give or take less *)
(* than a tick.  A tick is only taken when the program is not late: the    *)
(* loop has handled the last one, no request is past its timeout, no       *)
(* goroutine has waited longer than MaxDelay to store what it read, or its *)
(* error.  The targets do not touch each other's state, so one is enough,  *)
(* with the forced scrapes that edits of others bring; its creation, its   *)
(* deletion and the history are the matter of FrpsTargets, the numbers of  *)
(* a sample that of FrpsRates.                                             *)
(***************************************************************************)
EXTENDS FrpsTimes, FiniteSets

CONSTANTS
  Addrs,       \* addresses of frps dashboards
  Interval     \* IntervalSeconds, in ticks

ASSUME IntervalAssumption == Interval \in Nat \ {0}

\* Ticks a scrape may live.
Life == Timeout + MaxDelay
\* Ticks after which all is settled: what was under way at the last change
\* is over, the next attempt has begun, at the latest when the age of the last
\* one is past the interval, and is over too.
Settle == Life + (Interval + 1) + Life + 1

VARIABLES
  target,   \* the entry of frps_targets: address and enabled
  up,       \* the dashboards that answer
  refresh,  \* FrpsMonitor.refresh holds a token
  ticked,   \* the ticker has fired, the loop has not seen it yet
  state,    \* frpsMonitorState of the target, or None
  scrape,   \* the scrapeOne goroutines
  quiet,    \* history: ticks since the target or a server changed
  calm      \* history: ticks since a target was edited

vars == <<target, up, refresh, ticked, state, scrape, quiet, calm>>

Target == [addr : Addrs, enabled : BOOLEAN]
State  == [status : {"pending", "online", "offline", "disabled"},
           attempt : 0..(Interval + 1), sample : Addrs \cup {None}]
Idle   == [pc |-> "idle"]

Scrape == {Idle}
            \cup [pc : {"begin"}, addr : Addrs]
            \cup [pc : {"fetch"}, addr : Addrs, age : 0..Life, broken : BOOLEAN]
            \cup [pc : {"store"}, addr : Addrs, age : 0..MaxDelay]

ASSUME NoneAssumption == None \notin State

TypeOK ==
  /\ target \in Target
  /\ up \in SUBSET Addrs
  /\ refresh \in BOOLEAN /\ ticked \in BOOLEAN
  /\ state \in State \cup {None}
  /\ scrape \in [Scrapers -> Scrape]
  /\ quiet \in 0..Settle
  /\ calm \in 0..(Life + 1)

\* The panel has started: Run begins with a forced scrapeDue.
Init ==
  /\ target \in Target
  /\ up \in SUBSET Addrs
  /\ refresh = TRUE /\ ticked = FALSE
  /\ state = None
  /\ scrape = [w \in Scrapers |-> Idle]
  /\ quiet = 0
  /\ calm = 0

-----------------------------------------------------------------------------
(* The state of the target *)

Fresh == [status |-> "pending", attempt |-> Interval + 1, sample |-> None]

\* ensureStateLocked
Ensured == IF state = None THEN Fresh ELSE state

MarkDisabled == state' = [Ensured EXCEPT !.status = "disabled"]

Mutant_ErrorSpares == state' = IF Ensured.status = "online" THEN Ensured
                                ELSE [Ensured EXCEPT !.status = "offline"]
MarkError == state' = [Ensured EXCEPT !.status = "offline"]

\* storeSample
StoreSample(addr) == state' = [Ensured EXCEPT !.status = "online", !.sample = addr]

-----------------------------------------------------------------------------
(* Run and scrapeDue *)

\* shouldScrape compares the time since the attempt with the interval.  As
\* many ticks as the interval has may be a little less than it, one more is
\* not.  A target that has no state yet is due, as a fresh one is.
MaybeDue == Ensured.attempt >= Interval
SurelyDue == Ensured.attempt > Interval

ScrapeDue(force) ==
  \/ /\ ~target.enabled
     /\ MarkDisabled
     /\ UNCHANGED scrape
  \/ /\ target.enabled /\ ~force /\ ~SurelyDue
     /\ UNCHANGED <<state, scrape>>
  \/ /\ target.enabled /\ (force \/ MaybeDue)
     /\ \E w \in Scrapers :
          /\ scrape[w] = Idle
          /\ scrape' = [scrape EXCEPT ![w] = [pc |-> "begin", addr |-> target.addr]]
     /\ UNCHANGED state

LoopTick ==
  /\ ticked
  /\ ticked' = FALSE
  /\ ScrapeDue(FALSE)
  /\ UNCHANGED <<target, up, refresh, quiet, calm>>

LoopRefresh ==
  /\ refresh
  /\ refresh' = FALSE
  /\ ScrapeDue(TRUE)
  /\ UNCHANGED <<target, up, ticked, quiet, calm>>

-----------------------------------------------------------------------------
(* scrapeOne *)

Mutant_AttemptNotNoted(w) ==
  /\ scrape[w].pc = "begin"
  /\ state' = Ensured
  /\ scrape' = [scrape EXCEPT ![w] = [pc |-> "fetch", addr |-> @.addr, age |-> 0,
                                      broken |-> @.addr \notin up]]
  /\ UNCHANGED <<target, up, refresh, ticked, quiet, calm>>
ScrapeBegin(w) ==
  /\ scrape[w].pc = "begin"
  /\ state' = [Ensured EXCEPT !.attempt = 0]
  /\ scrape' = [scrape EXCEPT ![w] = [pc |-> "fetch", addr |-> @.addr, age |-> 0,
                                      broken |-> @.addr \notin up]]
  /\ UNCHANGED <<target, up, refresh, ticked, quiet, calm>>

\* The connection is refused or cut, or the time is over.
ScrapeFails(w) ==
  /\ scrape[w].pc = "fetch" /\ scrape[w].broken
  /\ MarkError
  /\ scrape' = [scrape EXCEPT ![w] = Idle]
  /\ UNCHANGED <<target, up, refresh, ticked, quiet, calm>>

\* fetchMetrics and parseFrpsMetrics succeed.
ScrapeReads(w) ==
  /\ scrape[w].pc = "fetch" /\ scrape[w].addr \in up /\ scrape[w].age <= Timeout
  /\ scrape' = [scrape EXCEPT ![w] = [pc |-> "store", addr |-> @.addr, age |-> 0]]
  /\ UNCHANGED <<target, up, refresh, ticked, state, quiet, calm>>

ScrapeStores(w) ==
  /\ scrape[w].pc = "store"
  /\ StoreSample(scrape[w].addr)
  /\ scrape' = [scrape EXCEPT ![w] = Idle]
  /\ UNCHANGED <<target, up, refresh, ticked, quiet, calm>>

-----------------------------------------------------------------------------
(* The API, the servers and the clock *)

\* UpdateFrpsTarget: the list is saved, then RefreshNow.
Update(t) ==
  /\ t # target
  /\ target' = t
  /\ refresh' = TRUE
  /\ quiet' = 0 /\ calm' = 0
  /\ UNCHANGED <<up, ticked, state, scrape>>

\* RefreshNow without a change here: another target has been created or
\* edited, or the name or the password of this one.
RefreshNow ==
  /\ refresh' = TRUE
  /\ calm' = 0
  /\ UNCHANGED <<target, up, ticked, state, scrape, quiet>>

\* A server goes away; whoever is asking it may come to wait in vain.
ServerDown(a) ==
  /\ a \in up
  /\ up' = up \ {a}
  /\ scrape' = [w \in Scrapers |-> IF scrape[w].pc = "fetch" /\ scrape[w].addr = a
                                   THEN [scrape[w] EXCEPT !.broken = TRUE] ELSE scrape[w]]
  /\ quiet' = 0
  /\ UNCHANGED <<target, refresh, ticked, state, calm>>

ServerUp(a) ==
  /\ a \notin up
  /\ up' = up \cup {a}
  /\ quiet' = 0
  /\ UNCHANGED <<target, refresh, ticked, state, scrape, calm>>

Older(age, most) == IF age < most THEN age + 1 ELSE age

OlderScrape(s) ==
  CASE s.pc = "fetch" -> [s EXCEPT !.age = Older(@, Life)]
    [] s.pc = "store" -> [s EXCEPT !.age = Older(@, MaxDelay)]
    [] OTHER -> s

Late(s) ==
  \/ s.pc = "begin"
  \/ s.pc = "fetch" /\ s.age >= IF s.broken THEN Life ELSE Timeout
  \/ s.pc = "store" /\ s.age = MaxDelay

Tick ==
  /\ ~ticked /\ ~refresh
  /\ \A w \in Scrapers : ~Late(scrape[w])
  /\ ticked' = TRUE
  /\ scrape' = [w \in Scrapers |-> OlderScrape(scrape[w])]
  /\ state' = IF state = None THEN None ELSE [state EXCEPT !.attempt = Older(@, Interval + 1)]
  /\ quiet' = Older(quiet, Settle)
  /\ calm' = Older(calm, Life + 1)
  /\ UNCHANGED <<target, up, refresh>>

-----------------------------------------------------------------------------
ScrapeNext(w) ==
  ScrapeBegin(w) \/ ScrapeFails(w) \/ ScrapeReads(w) \/ ScrapeStores(w)

Next ==
  \/ LoopTick \/ LoopRefresh \/ Tick \/ RefreshNow
  \/ \E w \in Scrapers : ScrapeNext(w)
  \/ \E t \in Target : Update(t)
  \/ \E a \in Addrs : ServerDown(a) \/ ServerUp(a)

Spec == Init /\ [][Next]_vars

-----------------------------------------------------------------------------
(* Properties *)

\* targetViewFromTarget
Shown ==
  IF ~target.enabled THEN "disabled"
  ELSE IF state = None THEN "pending" ELSE state.status

(* Whatever scrapes of another address, late timeouts and answers stored   *)
(* out of order have left in it, and whatever other targets are edited     *)
(* since, the page is right again a fixed time after the last edit of the  *)
(* target and the last change of a server: the status is that of the       *)
(* server now, and an online target shows a sample of the address it has.  *)
StatusSettles ==
  quiet = Settle =>
    /\ Shown = IF ~target.enabled THEN "disabled"
               ELSE IF target.addr \in up THEN "online" ELSE "offline"
    /\ Shown = "online" => state.sample = target.addr

(* Overlapping scrapes do not pile up, though the servers come and go:     *)
(* when no target is edited any more they are as many as attempts fit in   *)
(* the life of one.                                                        *)
ScrapesStayFew ==
  calm > Life =>
    Cardinality({w \in Scrapers : scrape[w] # Idle}) <= (Life \div Interval) + 1
=============================================================================
