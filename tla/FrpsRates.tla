----------------------------- MODULE FrpsRates ------------------------------
(***************************************************************************)
(* The traffic rate of one frps target, from a counter of its server       *)
(* (src/internal/app/frps_monitor.go): a scrape reads the counter, looks   *)
(* at the clock when it has the whole answer, and compares with the sample *)
(* stored last under the lock.  The scrapes of one target may overlap, so  *)
(* the counter is read, the clock is read and the sample is stored in any  *)
(* order; the counter starts again from 0 with the server.                 *)
(*                                                                         *)
(* One counter of one server is followed: a total in or out, or that of    *)
(* one proxy, for all of them go through counterRate.  An answer may hold  *)
(* another number in its place.  An edit gives the target another address  *)
(* and keeps its sample (src/internal/app/service.go, UpdateFrpsTarget),   *)
(* so that two servers are compared; and a proxy an answer leaves out,     *)
(* being past the 2 MiB that are read of it, counts 0 for withRates.       *)
(*                                                                         *)
(* Instants are kept as ages in ticks; a tick is here any unit of the      *)
(* clock, as fine as one likes, and not the second of the ticker.  One     *)
(* unit of traffic is what a server can carry in a tick.                   *)
(***************************************************************************)
EXTENDS FrpsTimes

CONSTANT
  MaxTraffic   \* bound of the counter

ASSUME TrafficAssumption == MaxTraffic \in Nat

\* Ages above differ in nothing: all the traffic there can be fits in them.
OldAge == MaxTraffic + MaxDelay + 1

VARIABLES
  traffic,  \* the counter that is followed
  reading,  \* the scrapeOne goroutines
  sample    \* frpsMonitorState.Sample, or None

ratesVars == <<traffic, reading, sample>>

Counter == 0..MaxTraffic
Resting == [pc |-> "idle"]

\* What a number is, for the property: the counter in the life of the server
\* that it is in, the counter in an earlier one, or another number.
Origin == {"life", "past", "other"}

Reading ==
  {Resting}
    \cup [pc : {"ask"}, age : 0..Timeout]
    \cup [pc : {"answer"}, age : 0..Timeout, traffic : Counter, of : Origin]
    \cup [pc : {"store"}, age : 0..MaxDelay, traffic : Counter, of : Origin]

\* frpsMetricSample without its rate, which nothing reads back.
Sample == [age : 0..OldAge, traffic : Counter, of : Origin]

\* A rate is the growth of the counter over the time it took.
Rate   == [growth : Counter, elapsed : 1..OldAge]
NoRate == [growth |-> 0, elapsed |-> 1]

ASSUME NoSampleAssumption == None \notin Sample

RatesInit ==
  /\ traffic \in {0, MaxTraffic}
  /\ reading = [w \in Scrapers |-> Resting]
  /\ sample = None

-----------------------------------------------------------------------------
(* counterRate and withRates *)

Mutant_ResetCounts(current, previous, elapsed) ==
  [growth |-> IF current < previous THEN current ELSE current - previous, elapsed |-> elapsed]
CounterRate(current, previous, elapsed) ==
  IF current < previous THEN NoRate
  ELSE [growth |-> current - previous, elapsed |-> elapsed]

Mutant_NoOrder(current, previous) ==
  IF previous = None THEN NoRate
  ELSE CounterRate(current.traffic, previous.traffic, previous.age - current.age)
WithRates(current, previous) ==
  IF previous = None \/ previous.age <= current.age THEN NoRate
  ELSE CounterRate(current.traffic, previous.traffic, previous.age - current.age)

-----------------------------------------------------------------------------
(* scrapeOne *)

Ask(w) ==
  /\ reading[w] = Resting
  /\ reading' = [reading EXCEPT ![w] = [pc |-> "ask", age |-> 0]]
  /\ UNCHANGED <<traffic, sample>>

Answers(w, counted, of) ==
  /\ reading[w].pc = "ask"
  /\ reading' = [reading EXCEPT ![w] = [pc |-> "answer", age |-> @.age,
                                        traffic |-> counted, of |-> of]]
  /\ UNCHANGED <<traffic, sample>>

\* The server puts its counter in the answer, which is then on its way; a
\* proxy it does not list has carried nothing yet, and counts 0.
Answer(w) == Answers(w, traffic, "life")

\* The answer of a server at another address, or one that leaves the proxy
\* out (then the number is 0).
OtherAnswer(w) == \E counted \in Counter : Answers(w, counted, "other")

\* fetchMetrics returns an error, at the latest that of the timeout.
AskFails(w) ==
  /\ reading[w].pc \in {"ask", "answer"}
  /\ reading' = [reading EXCEPT ![w] = Resting]
  /\ UNCHANGED <<traffic, sample>>

\* fetchMetrics returns the answer, parseFrpsMetrics dates it.
Parsed(w) ==
  /\ reading[w].pc = "answer"
  /\ reading' = [reading EXCEPT ![w] = [pc |-> "store", age |-> 0,
                                        traffic |-> @.traffic, of |-> @.of]]
  /\ UNCHANGED <<traffic, sample>>

\* storeSample; the rate goes to the page and to the history.
Stored(w) ==
  /\ reading[w].pc = "store"
  /\ sample' = [age |-> reading[w].age, traffic |-> reading[w].traffic, of |-> reading[w].of]
  /\ reading' = [reading EXCEPT ![w] = Resting]
  /\ UNCHANGED traffic

-----------------------------------------------------------------------------
(* The server and the clock *)

Restart ==
  /\ traffic' = 0
  /\ reading' = [w \in Scrapers |->
                   IF reading[w].pc \in {"answer", "store"} /\ reading[w].of = "life"
                   THEN [reading[w] EXCEPT !.of = "past"] ELSE reading[w]]
  /\ UNCHANGED sample

RatesTick ==
  /\ \A w \in Scrapers :
       /\ reading[w].pc \in {"ask", "answer"} => reading[w].age < Timeout
       /\ reading[w].pc = "store" => reading[w].age < MaxDelay
  /\ traffic' \in {traffic, traffic + 1} \cap Counter
  /\ reading' = [w \in Scrapers |-> IF reading[w] = Resting THEN Resting
                                    ELSE [reading[w] EXCEPT !.age = @ + 1]]
  /\ sample' = IF sample = None \/ sample.age = OldAge THEN sample
               ELSE [sample EXCEPT !.age = @ + 1]

RatesNext ==
  \/ Restart \/ RatesTick
  \/ \E w \in Scrapers :
       Ask(w) \/ Answer(w) \/ OtherAnswer(w) \/ AskFails(w) \/ Parsed(w) \/ Stored(w)

RatesSpec == RatesInit /\ [][RatesNext]_ratesVars

-----------------------------------------------------------------------------
(* Properties *)

\* The rate a scrape that has its answer is about to store.
RateOf(w) == WithRates(reading[w], sample)

RatesTypeOK ==
  /\ traffic \in Counter
  /\ reading \in [Scrapers -> Reading]
  /\ sample \in Sample \cup {None}
  /\ \A w \in Scrapers : reading[w].pc = "store" => RateOf(w) \in Rate

\* Whether the counter is compared with itself, and not a later life of it
\* with an earlier one; the code does not ask.
Fair(current, previous) ==
  current.of = "life" /\ (previous # None => previous.of # "other")

(* A rate of the counter of one server is never made up: it is no more     *)
(* than what the server can have carried in the time between the two       *)
(* samples and in that an answer may take to arrive, however the scrapes   *)
(* overlapped and whatever was read elsewhere meanwhile; a proxy that is   *)
(* new, and a server that started anew between two samples, show nothing   *)
(* of what was counted before.  The code does not keep it for an answer    *)
(* overtaken by a restart of the server, for two samples of two addresses, *)
(* and after a sample that left the proxy out: these are excepted.         *)
RatesStayPlausible ==
  \A w \in Scrapers :
    reading[w].pc = "store" /\ Fair(reading[w], sample) =>
      RateOf(w).growth <= RateOf(w).elapsed + Timeout

\* What the code does not keep: the same of every rate that is stored.
RatesAreNeverMadeUp ==
  \A w \in Scrapers :
    reading[w].pc = "store" => RateOf(w).growth <= RateOf(w).elapsed + Timeout
=============================================================================
