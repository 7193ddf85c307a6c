------------------------- MODULE FrpsMonitorProofs -------------------------
(***************************************************************************)
(* Theorems about the monitor of the frps servers, proved with TLAPS:      *)
(* FrpsStatus, for any addresses, any number of overlapping scrapes, any   *)
(* interval, timeout and delay; FrpsRates, for any number of scrapes and   *)
(* any timeout, delay and traffic; MetricsText, for any names, values and  *)
(* number of lines.                                                        *)
(*                                                                         *)
(* That the status settles says nothing of the states before: the proof    *)
(* needs to know how old a scrape of the past can still be (OldOnesAge),   *)
(* that a due target gets its attempt before time goes on (DueBegins), and *)
(* that, as long as the page is wrong, the attempt that will correct it is *)
(* due or under way and late enough not to be outlived by an old one       *)
(* (RightInTime).  That scrapes stay few needs to know how far apart they  *)
(* began (FInv); that rates stay plausible how much the server can have    *)
(* carried since each sample was read (RatesIInv); that an answer is read  *)
(* right, what the parser has gathered line by line (MetricsIInv).         *)
(***************************************************************************)
EXTENDS FrpsStatus, FrpsRates, MetricsText, FiniteSetTheorems, TLAPS

-----------------------------------------------------------------------------
(* The inductive invariant *)

\* A scrape that can only tell the truth about the target as it is now.
Matches(w) ==
  /\ scrape[w].addr = target.addr
  /\ scrape[w].pc = "fetch" => (scrape[w].broken <=> target.addr \notin up)
  /\ scrape[w].pc = "store" => target.addr \in up

\* The others began before the last change, and are as old.
OldOnesAge ==
  \A w \in Scrapers :
    /\ scrape[w].pc = "begin" => Matches(w) \/ quiet = 0
    /\ scrape[w].pc = "fetch" => Matches(w) \/ quiet <= scrape[w].age
    /\ scrape[w].pc = "store" => Matches(w) \/ quiet <= scrape[w].age + Timeout

Attempt == Ensured.attempt

DueBegins ==
  target.enabled /\ Attempt = Interval + 1 /\ ~ticked /\ ~refresh =>
    \E w \in Scrapers : scrape[w].pc = "begin"

Right ==
  /\ state # None
  /\ state.status = IF target.addr \in up THEN "online" ELSE "offline"
  /\ target.addr \in up => state.sample = target.addr

\* The attempt of w began in time to be over when all is settled.
InTime(w) ==
  \/ scrape[w].pc = "begin" /\ quiet <= Life + Interval + 1
  \/ scrape[w].pc = "fetch" /\ quiet <= scrape[w].age + Life + Interval + 1
  \/ scrape[w].pc = "store" /\ quiet <= scrape[w].age + Timeout + Life + Interval + 1

RightInTime ==
  target.enabled /\ quiet > Life =>
    \/ Right
    \/ quiet <= Life + Attempt
    \/ \E w \in Scrapers : InTime(w)

IInv == TypeOK /\ OldOnesAge /\ DueBegins /\ RightInTime

-----------------------------------------------------------------------------
(* Types of what the actions write *)

LEMMA EnsuredType ==
  ASSUME TypeOK
  PROVE  /\ Ensured \in State
         /\ Attempt \in 0..(Interval + 1)
         /\ state # None => Ensured = state
         /\ state = None => Attempt = Interval + 1
BY TimesAssumption, IntervalAssumption DEF TypeOK, Ensured, Attempt, Fresh, State

LEMMA ScrapeTypes ==
  ASSUME TypeOK, NEW w \in Scrapers
  PROVE  /\ scrape[w] \in Scrape
         /\ scrape[w].pc \in {"idle", "begin", "fetch", "store"}
         /\ scrape[w].pc # "idle" => scrape[w].addr \in Addrs
         /\ scrape[w].pc = "fetch" => /\ scrape[w].age \in 0..Life
                                      /\ scrape[w].broken \in BOOLEAN
         /\ scrape[w].pc = "store" => scrape[w].age \in 0..MaxDelay
         /\ scrape[w] = Idle => scrape[w].pc = "idle"
<1>1. scrape[w] \in Scrape
  BY DEF TypeOK
<1> QED
  BY <1>1 DEF Scrape, Idle

LEMMA Numbers ==
  /\ Life \in Nat /\ Settle \in Nat
  /\ Life = Timeout + MaxDelay /\ Settle = Life + (Interval + 1) + Life + 1
  /\ Interval \in Nat /\ Interval > 0 /\ Timeout \in Nat /\ MaxDelay \in Nat
BY TimesAssumption, IntervalAssumption DEF Life, Settle

-----------------------------------------------------------------------------
(* Each action preserves the invariant *)

\* What a running scrape leaves to the others: all but their place.
LEMMA OthersStay ==
  ASSUME IInv, NEW w \in Scrapers, NEW s,
         scrape' = [scrape EXCEPT ![w] = s],
         UNCHANGED <<target, up, quiet>>
  PROVE  /\ scrape'[w] = s
         /\ \A v \in Scrapers \ {w} : scrape'[v] = scrape[v]
         /\ \A v \in Scrapers \ {w} : InTime(v) => InTime(v)'
         /\ \A v \in Scrapers \ {w} :
              /\ scrape'[v].pc = "begin" => Matches(v)' \/ quiet' = 0
              /\ scrape'[v].pc = "fetch" => Matches(v)' \/ quiet' <= scrape'[v].age
              /\ scrape'[v].pc = "store" => Matches(v)' \/ quiet' <= scrape'[v].age + Timeout
<1>1. scrape \in [Scrapers -> Scrape]
  BY DEF IInv, TypeOK
<1>2. scrape'[w] = s /\ \A v \in Scrapers \ {w} : scrape'[v] = scrape[v]
  BY <1>1
<1>3. \A v \in Scrapers \ {w} : InTime(v) => InTime(v)'
  BY <1>2 DEF InTime
<1>4. \A v \in Scrapers \ {w} : Matches(v) => Matches(v)'
  BY <1>2 DEF Matches
<1> QED
  BY <1>2, <1>3, <1>4 DEF IInv, OldOnesAge

LEMMA BeginStep ==
  ASSUME IInv, NEW w \in Scrapers, ScrapeBegin(w)
  PROVE  IInv'
<1> DEFINE new == [pc |-> "fetch", addr |-> scrape[w].addr, age |-> 0,
                   broken |-> scrape[w].addr \notin up]
<1>1. TypeOK
  BY DEF IInv
<1>2. /\ scrape[w].pc = "begin" /\ scrape[w].addr \in Addrs
      /\ Ensured \in State /\ Attempt \in 0..(Interval + 1)
  BY <1>1, ScrapeTypes, EnsuredType DEF ScrapeBegin
<1>3. /\ scrape' = [scrape EXCEPT ![w] = new]
      /\ state' = [Ensured EXCEPT !.attempt = 0]
      /\ UNCHANGED <<target, up, quiet, calm, refresh, ticked>>
  BY DEF ScrapeBegin
<1>4. new \in Scrape /\ new.pc = "fetch" /\ new.age = 0 /\ new.addr = scrape[w].addr
  BY <1>2, Numbers DEF Scrape
<1>b. new.broken <=> scrape[w].addr \notin up
  OBVIOUS
<1>5. state' \in State /\ state' # None /\ state'.attempt = 0
  BY <1>2, <1>3, NoneAssumption, Numbers DEF State
<1>6. TypeOK'
  BY <1>1, <1>3, <1>4, <1>5 DEF TypeOK
<1> HIDE DEF new
<1>7. /\ scrape'[w] = new
      /\ \A v \in Scrapers \ {w} : InTime(v) => InTime(v)'
  BY <1>3, OthersStay
<1>8. OldOnesAge'
  <2>1. scrape[w].addr = target.addr => Matches(w)'
    BY <1>3, <1>4, <1>b, <1>7, "fetch" # "store" DEF Matches
  <2>2. quiet = 0 => quiet' <= scrape'[w].age
    BY <1>3, <1>4, <1>7
  <2>3. Matches(w)' \/ quiet' <= scrape'[w].age
    BY <1>2, <2>1, <2>2 DEF IInv, OldOnesAge, Matches
  <2> QED
    BY <1>3, <1>4, <1>7, <2>3, OthersStay DEF OldOnesAge
<1>9. DueBegins'
  BY <1>5, Numbers DEF DueBegins, Attempt, Ensured
<1>10. RightInTime'
  <2>1. SUFFICES ASSUME target.enabled, quiet > Life
                 PROVE  Right' \/ \E v \in Scrapers : InTime(v)'
    BY <1>3 DEF RightInTime
  <2>2. CASE Right
    <3>1. state' = [state EXCEPT !.attempt = 0] /\ state \in State
      BY <1>1, <1>3, <2>2, EnsuredType DEF Right, TypeOK
    <3> QED
      BY <1>3, <1>5, <2>2, <3>1 DEF Right, State
  <2>3. CASE quiet <= Life + Attempt \/ InTime(w)
    <3>1. quiet <= Life + Interval + 1
      BY <1>1, <1>2, <2>3, Numbers DEF InTime, TypeOK
    <3>2. InTime(w)'
      BY <1>1, <1>3, <1>4, <1>7, <3>1, Numbers DEF InTime, TypeOK
    <3> QED
      BY <3>2
  <2>4. CASE \E v \in Scrapers \ {w} : InTime(v)
    BY <1>7, <2>4
  <2> QED
    BY <2>1, <2>2, <2>3, <2>4 DEF IInv, RightInTime
<1> QED
  BY <1>6, <1>8, <1>9, <1>10 DEF IInv

LEMMA ReadsStep ==
  ASSUME IInv, NEW w \in Scrapers, ScrapeReads(w)
  PROVE  IInv'
<1> DEFINE new == [pc |-> "store", addr |-> scrape[w].addr, age |-> 0]
<1>1. TypeOK
  BY DEF IInv
<1>2. /\ scrape[w].pc = "fetch" /\ scrape[w].addr \in Addrs /\ scrape[w].addr \in up
      /\ scrape[w].age \in 0..Timeout
  BY <1>1, ScrapeTypes, Numbers DEF ScrapeReads
<1>3. /\ scrape' = [scrape EXCEPT ![w] = new]
      /\ UNCHANGED <<target, up, quiet, calm, refresh, ticked, state>>
  BY DEF ScrapeReads
<1>4. new \in Scrape /\ new.pc = "store" /\ new.age = 0 /\ new.addr = scrape[w].addr
  BY <1>2, Numbers DEF Scrape
<1>5. TypeOK'
  BY <1>1, <1>3, <1>4 DEF TypeOK
<1> HIDE DEF new
<1>6. /\ scrape'[w] = new
      /\ \A v \in Scrapers \ {w} : scrape'[v] = scrape[v]
      /\ \A v \in Scrapers \ {w} : InTime(v) => InTime(v)'
  BY <1>3, OthersStay
<1>7. OldOnesAge'
  <2>1. Matches(w)' \/ quiet' <= scrape'[w].age + Timeout
    BY <1>1, <1>2, <1>3, <1>4, <1>6, Numbers DEF IInv, OldOnesAge, Matches, TypeOK
  <2> QED
    BY <1>3, <1>4, <1>6, <2>1, OthersStay DEF OldOnesAge
<1>8. DueBegins'
  BY <1>2, <1>3, <1>6 DEF IInv, DueBegins, Attempt, Ensured
<1>9. RightInTime'
  <2>1. InTime(w) => InTime(w)'
    BY <1>1, <1>2, <1>3, <1>4, <1>6, Numbers DEF InTime, TypeOK
  <2>2. Right => Right'
    BY <1>3 DEF Right
  <2>3. Attempt' = Attempt
    BY <1>3 DEF Attempt, Ensured
  <2>4. \A v \in Scrapers : InTime(v) => InTime(v)'
    BY <1>6, <2>1
  <2> QED
    BY <1>3, <2>2, <2>3, <2>4 DEF IInv, RightInTime
<1> QED
  BY <1>5, <1>7, <1>8, <1>9 DEF IInv

\* A scrape ends and leaves a status, right as soon as no old one is left.
LEMMA EndStep ==
  ASSUME IInv, NEW w \in Scrapers, scrape[w].pc \in {"fetch", "store"},
         NEW status \in {"online", "offline"}, NEW source \in Addrs \cup {None},
         scrape' = [scrape EXCEPT ![w] = Idle],
         state' = [Ensured EXCEPT !.status = status, !.sample = source],
         UNCHANGED <<target, up, refresh, ticked, quiet, calm>>,
         quiet > Life => /\ status = IF target.addr \in up THEN "online" ELSE "offline"
                         /\ target.addr \in up => source = target.addr
  PROVE  IInv'
<1>1. TypeOK
  BY DEF IInv
<1>2. Ensured \in State
  BY <1>1, EnsuredType
<1>3. /\ state' \in State /\ state' # None /\ state'.attempt = Ensured.attempt
      /\ state'.status = status /\ state'.sample = source
  BY <1>2, NoneAssumption DEF State
<1>4. Idle \in Scrape /\ Idle.pc = "idle"
  BY DEF Scrape, Idle
<1>5. TypeOK'
  BY <1>1, <1>3, <1>4 DEF TypeOK
<1>6. scrape'[w] = Idle /\ \A v \in Scrapers \ {w} : scrape'[v] = scrape[v]
  BY OthersStay
<1>7. OldOnesAge'
  BY <1>4, <1>6, OthersStay DEF OldOnesAge
<1>8. DueBegins'
  BY <1>3, <1>6 DEF IInv, DueBegins, Attempt, Ensured
<1>9. RightInTime'
  BY <1>3 DEF RightInTime, Right
<1> QED
  BY <1>5, <1>7, <1>8, <1>9 DEF IInv

LEMMA FailsStep ==
  ASSUME IInv, NEW w \in Scrapers, ScrapeFails(w)
  PROVE  IInv'
<1>1. TypeOK
  BY DEF IInv
<1>2. scrape[w].pc = "fetch" /\ scrape[w].broken /\ scrape[w].age \in 0..Life
  BY <1>1, ScrapeTypes DEF ScrapeFails
<1>3. Ensured \in State
  BY <1>1, EnsuredType
<1>4. state' = [Ensured EXCEPT !.status = "offline", !.sample = Ensured.sample]
  BY <1>3 DEF ScrapeFails, MarkError, State
<1>5. Ensured.sample \in Addrs \cup {None}
  BY <1>3 DEF State
<1>6. ASSUME quiet > Life PROVE target.addr \notin up
  <2>1. Matches(w)
    BY <1>1, <1>2, <1>6, Numbers DEF IInv, OldOnesAge, TypeOK
  <2> QED
    BY <1>2, <2>1 DEF Matches
<1> QED
  BY <1>2, <1>4, <1>5, <1>6, EndStep DEF ScrapeFails

LEMMA StoresStep ==
  ASSUME IInv, NEW w \in Scrapers, ScrapeStores(w)
  PROVE  IInv'
<1>1. TypeOK
  BY DEF IInv
<1>2. scrape[w].pc = "store" /\ scrape[w].addr \in Addrs /\ scrape[w].age \in 0..MaxDelay
  BY <1>1, ScrapeTypes DEF ScrapeStores
<1>3. state' = [Ensured EXCEPT !.status = "online", !.sample = scrape[w].addr]
  BY DEF ScrapeStores, StoreSample
<1>4. ASSUME quiet > Life PROVE target.addr \in up /\ scrape[w].addr = target.addr
  <2>1. Matches(w)
    BY <1>1, <1>2, <1>4, Numbers DEF IInv, OldOnesAge, TypeOK
  <2> QED
    BY <1>2, <2>1 DEF Matches
<1> QED
  BY <1>2, <1>3, <1>4, EndStep DEF ScrapeStores

-----------------------------------------------------------------------------
(* The loop.  For an enabled target it may add a scrape, and only that.    *)

LEMMA LoopStep ==
  ASSUME IInv, NEW force \in BOOLEAN, ScrapeDue(force),
         UNCHANGED <<target, up, quiet, calm>>,
         refresh' \in BOOLEAN, ticked' \in BOOLEAN,
         force \/ refresh' = refresh
  PROVE  IInv'
<1>1. TypeOK
  BY DEF IInv
<1>2. CASE /\ ~target.enabled /\ MarkDisabled /\ UNCHANGED scrape
  <2>1. state' \in State
    BY <1>1, <1>2, EnsuredType DEF MarkDisabled, State
  <2>2. TypeOK'
    BY <1>1, <1>2, <2>1 DEF TypeOK
  <2>3. OldOnesAge'
    BY <1>2 DEF IInv, OldOnesAge, Matches
  <2> QED
    BY <1>2, <2>2, <2>3 DEF IInv, DueBegins, RightInTime
<1>3. CASE ~SurelyDue /\ UNCHANGED <<state, scrape>>
  <2>1. TypeOK'
    BY <1>1, <1>3 DEF TypeOK
  <2>2. OldOnesAge'
    BY <1>3 DEF IInv, OldOnesAge, Matches
  <2>3. Attempt' = Attempt /\ Attempt # Interval + 1
    BY <1>1, <1>3, EnsuredType, Numbers DEF SurelyDue, Attempt, Ensured
  <2>4. DueBegins'
    BY <2>3 DEF DueBegins
  <2>5. RightInTime'
    BY <1>3, <2>3 DEF IInv, RightInTime, Right, InTime
  <2> QED
    BY <2>1, <2>2, <2>4, <2>5 DEF IInv
<1>4. ASSUME NEW w \in Scrapers, scrape[w] = Idle, UNCHANGED state,
             scrape' = [scrape EXCEPT ![w] = [pc |-> "begin", addr |-> target.addr]]
      PROVE  IInv'
  <2> DEFINE new == [pc |-> "begin", addr |-> target.addr]
  <2>1. new \in Scrape /\ new.pc = "begin" /\ new.addr = target.addr
    BY <1>1 DEF TypeOK, Target, Scrape
  <2>2. scrape' = [scrape EXCEPT ![w] = new]
    BY <1>4
  <2> HIDE DEF new
  <2>3. TypeOK'
    BY <1>1, <1>4, <2>1, <2>2 DEF TypeOK
  <2>4. /\ scrape'[w] = new
        /\ \A v \in Scrapers \ {w} : scrape'[v] = scrape[v]
        /\ \A v \in Scrapers \ {w} : InTime(v) => InTime(v)'
    BY <2>2, OthersStay
  <2>5. OldOnesAge'
    <3>1. Matches(w)'
      BY <2>1, <2>4 DEF Matches
    <3> QED
      BY <2>1, <2>2, <2>4, <3>1, OthersStay DEF OldOnesAge
  <2>6. DueBegins'
    BY <2>1, <2>4 DEF DueBegins
  <2>7. ~InTime(w)
    BY <1>4 DEF InTime, Idle
  <2>8. RightInTime'
    BY <1>4, <2>4, <2>7 DEF IInv, RightInTime, Right, Attempt, Ensured
  <2> QED
    BY <2>3, <2>5, <2>6, <2>8 DEF IInv
<1> QED
  BY <1>2, <1>3, <1>4 DEF ScrapeDue

-----------------------------------------------------------------------------
(* The changes from outside, and time *)

\* A change makes all that runs old, and nothing is claimed of it yet.
LEMMA ChangeStep ==
  ASSUME IInv, quiet' = 0, calm' \in {0, calm}, UNCHANGED <<ticked, state>>,
         target' \in Target, up' \in SUBSET Addrs, refresh' \in BOOLEAN,
         refresh' \/ (target' = target /\ refresh' = refresh),
         scrape' \in [Scrapers -> Scrape],
         \A w \in Scrapers : scrape'[w].pc = scrape[w].pc
  PROVE  IInv'
<1>1. TypeOK'
  BY Numbers DEF IInv, TypeOK
<1>2. OldOnesAge'
  <2>1. ASSUME NEW w \in Scrapers
        PROVE  /\ scrape'[w].pc = "fetch" => quiet' <= scrape'[w].age
               /\ scrape'[w].pc = "store" => quiet' <= scrape'[w].age + Timeout
    <3>1. /\ scrape'[w].pc = "fetch" => scrape'[w].age \in 0..Life
          /\ scrape'[w].pc = "store" => scrape'[w].age \in 0..MaxDelay
      BY DEF Scrape, Idle
    <3> QED
      BY <3>1, Numbers
  <2> QED
    BY <2>1 DEF OldOnesAge
<1>3. DueBegins'
  BY DEF IInv, DueBegins, Attempt, Ensured
<1>4. RightInTime'
  BY Numbers DEF RightInTime
<1> QED
  BY <1>1, <1>2, <1>3, <1>4 DEF IInv

LEMMA UpdateStep ==
  ASSUME IInv, NEW t \in Target, Update(t)
  PROVE  IInv'
<1>1. scrape' = scrape /\ scrape' \in [Scrapers -> Scrape] /\ up' \in SUBSET Addrs
  BY DEF IInv, TypeOK, Update
<1> QED
  BY <1>1, ChangeStep DEF Update

\* A token alone changes nothing that is claimed.
LEMMA RefreshNowStep ==
  ASSUME IInv, RefreshNow
  PROVE  IInv'
<1>1. /\ UNCHANGED <<target, up, ticked, state, scrape, quiet>>
      /\ refresh' = TRUE /\ calm' = 0
  BY DEF RefreshNow
<1>2. TypeOK'
  BY <1>1, Numbers DEF IInv, TypeOK
<1>3. OldOnesAge'
  BY <1>1 DEF IInv, OldOnesAge, Matches
<1>4. DueBegins'
  BY <1>1 DEF DueBegins
<1>5. RightInTime'
  BY <1>1 DEF IInv, RightInTime, Right, InTime, Attempt, Ensured
<1> QED
  BY <1>2, <1>3, <1>4, <1>5 DEF IInv

LEMMA ServerStep ==
  ASSUME IInv, NEW a \in Addrs, ServerDown(a) \/ ServerUp(a)
  PROVE  IInv'
<1>1. TypeOK
  BY DEF IInv
<1>2. target' \in Target /\ refresh' \in BOOLEAN /\ up' \in SUBSET Addrs
  BY <1>1 DEF TypeOK, ServerDown, ServerUp
<1>3. CASE ServerDown(a)
  <2>1. ASSUME NEW w \in Scrapers
        PROVE  /\ [scrape[w] EXCEPT !.broken = TRUE].pc = scrape[w].pc
               /\ scrape[w].pc = "fetch" => [scrape[w] EXCEPT !.broken = TRUE] \in Scrape
    BY <1>1, ScrapeTypes DEF Scrape, Idle
  <2>2. ASSUME NEW w \in Scrapers
        PROVE  scrape'[w] \in Scrape /\ scrape'[w].pc = scrape[w].pc
    BY <1>1, <1>3, <2>1, ScrapeTypes DEF ServerDown
  <2>3. scrape' \in [Scrapers -> Scrape]
    BY <1>3, <2>2 DEF ServerDown
  <2> QED
    BY <1>2, <1>3, <2>2, <2>3, ChangeStep DEF ServerDown
<1>4. CASE ServerUp(a)
  <2>1. scrape' = scrape /\ scrape' \in [Scrapers -> Scrape]
    BY <1>1, <1>4 DEF TypeOK, ServerUp
  <2> QED
    BY <1>2, <1>4, <2>1, ChangeStep DEF ServerUp
<1> QED
  BY <1>3, <1>4

\* Nothing is late when time goes on, so every age grows by the same tick.
LEMMA AgesGrow ==
  ASSUME TypeOK, Tick, NEW w \in Scrapers
  PROVE  /\ scrape'[w] \in Scrape
         /\ scrape'[w].pc = scrape[w].pc /\ scrape[w].pc # "begin"
         /\ scrape[w].pc \in {"fetch", "store"} =>
              scrape'[w].addr = scrape[w].addr /\ scrape'[w].age = scrape[w].age + 1
         /\ scrape[w].pc = "fetch" => scrape'[w].broken = scrape[w].broken
<1>1. scrape[w] \in Scrape /\ ~Late(scrape[w]) /\ scrape'[w] = OlderScrape(scrape[w])
  BY ScrapeTypes DEF Tick
<1>2. scrape[w].pc # "begin"
  BY <1>1 DEF Late
<1>3. CASE scrape[w].pc = "fetch"
  <2>1. scrape[w].age \in 0..Life /\ scrape[w].age < Life
    BY <1>1, <1>3, ScrapeTypes, Numbers DEF Late
  <2>2. Older(scrape[w].age, Life) = scrape[w].age + 1
    BY <2>1 DEF Older
  <2>3. scrape'[w] = [scrape[w] EXCEPT !.age = scrape[w].age + 1]
    BY <1>1, <1>3, <2>2 DEF OlderScrape
  <2>4. scrape[w] \in [pc : {"fetch"}, addr : Addrs, age : 0..Life, broken : BOOLEAN]
    BY <1>1, <1>3 DEF Scrape, Idle
  <2>5. scrape[w].age + 1 \in 0..Life
    BY <2>1, Numbers
  <2> QED
    BY <1>3, <2>3, <2>4, <2>5 DEF Scrape
<1>4. CASE scrape[w].pc = "store"
  <2>1. scrape[w].age \in 0..MaxDelay /\ scrape[w].age < MaxDelay
    BY <1>1, <1>4, ScrapeTypes, Numbers DEF Late
  <2>2. Older(scrape[w].age, MaxDelay) = scrape[w].age + 1
    BY <2>1 DEF Older
  <2>3. scrape'[w] = [scrape[w] EXCEPT !.age = scrape[w].age + 1]
    BY <1>1, <1>4, <2>2 DEF OlderScrape
  <2>4. scrape[w] \in [pc : {"store"}, addr : Addrs, age : 0..MaxDelay]
    BY <1>1, <1>4 DEF Scrape, Idle
  <2>5. scrape[w].age + 1 \in 0..MaxDelay
    BY <2>1, Numbers
  <2> QED
    BY <1>4, <2>3, <2>4, <2>5 DEF Scrape
<1>5. CASE scrape[w].pc = "idle"
  BY <1>1, <1>5 DEF OlderScrape
<1> QED
  BY <1>2, <1>3, <1>4, <1>5, ScrapeTypes

LEMMA TickStep ==
  ASSUME IInv, Tick
  PROVE  IInv'
<1>1. TypeOK /\ UNCHANGED <<target, up, refresh>> /\ ticked' = TRUE
  BY DEF IInv, Tick
<1>2. /\ quiet \in 0..Settle /\ quiet' \in 0..Settle
      /\ quiet <= quiet' /\ quiet' <= quiet + 1
      /\ calm' \in 0..(Life + 1)
  BY <1>1, Numbers DEF TypeOK, Tick, Older
<1>3. ASSUME target.enabled
      PROVE  /\ state # None /\ state' = [state EXCEPT !.attempt = state.attempt + 1]
             /\ Attempt \in 0..(Interval + 1) /\ Attempt < Interval + 1
             /\ Attempt' = Attempt + 1 /\ state' # None
  <2>1. Attempt # Interval + 1
    BY <1>1, <1>3, AgesGrow DEF IInv, DueBegins, Tick
  <2>2. /\ state # None /\ state \in State /\ Attempt = state.attempt
        /\ Attempt \in 0..(Interval + 1) /\ Attempt < Interval + 1
    BY <1>1, <2>1, EnsuredType, Numbers DEF TypeOK, Attempt
  <2>3. state' = [state EXCEPT !.attempt = state.attempt + 1]
    BY <2>2 DEF Tick, Older
  <2>4. state'.attempt = state.attempt + 1 /\ state' \in State
    BY <2>2, <2>3, Numbers DEF State
  <2>5. state' # None
    BY <2>4, NoneAssumption
  <2> QED
    BY <2>2, <2>3, <2>4, <2>5 DEF Attempt, Ensured
<1>4. TypeOK'
  <2>1. state' \in State \cup {None}
    <3>1. ASSUME state # None
          PROVE  [state EXCEPT !.attempt = Older(state.attempt, Interval + 1)] \in State
      <4>1. state \in State /\ Older(state.attempt, Interval + 1) \in 0..(Interval + 1)
        BY <1>1, <3>1, Numbers DEF TypeOK, State, Older
      <4> QED
        BY <4>1 DEF State
    <3> QED
      BY <3>1 DEF Tick
  <2>2. scrape' \in [Scrapers -> Scrape]
    BY <1>1, AgesGrow DEF Tick
  <2> QED
    BY <1>1, <1>2, <2>1, <2>2 DEF TypeOK
<1>5. OldOnesAge'
  <2> SUFFICES ASSUME NEW w \in Scrapers
               PROVE  /\ scrape'[w].pc = "begin" => Matches(w)' \/ quiet' = 0
                      /\ scrape'[w].pc = "fetch" => Matches(w)' \/ quiet' <= scrape'[w].age
                      /\ scrape'[w].pc = "store" => Matches(w)' \/ quiet' <= scrape'[w].age + Timeout
    BY DEF OldOnesAge
  <2>1. scrape[w].pc \in {"fetch", "store"} /\ Matches(w) => Matches(w)'
    BY <1>1, AgesGrow DEF Matches
  <2>2. CASE scrape[w].pc = "fetch"
    <3>1. Matches(w) \/ quiet <= scrape[w].age
      BY <2>2 DEF IInv, OldOnesAge
    <3>2. scrape[w].age \in 0..Life /\ scrape'[w].age = scrape[w].age + 1
      BY <1>1, <2>2, ScrapeTypes, AgesGrow
    <3>3. quiet <= scrape[w].age => quiet' <= scrape'[w].age
      BY <1>2, <3>2, Numbers
    <3> QED
      BY <1>1, <2>1, <2>2, <3>1, <3>3, AgesGrow
  <2>3. CASE scrape[w].pc = "store"
    <3>1. Matches(w) \/ quiet <= scrape[w].age + Timeout
      BY <2>3 DEF IInv, OldOnesAge
    <3>2. scrape[w].age \in 0..MaxDelay /\ scrape'[w].age = scrape[w].age + 1
      BY <1>1, <2>3, ScrapeTypes, AgesGrow
    <3>3. quiet <= scrape[w].age + Timeout => quiet' <= scrape'[w].age + Timeout
      BY <1>2, <3>2, Numbers
    <3> QED
      BY <1>1, <2>1, <2>3, <3>1, <3>3, AgesGrow
  <2> QED
    BY <1>1, <2>2, <2>3, AgesGrow
<1>6. DueBegins'
  BY <1>1 DEF DueBegins
<1>7. RightInTime'
  <2> SUFFICES ASSUME target.enabled, quiet' > Life
               PROVE  Right' \/ quiet' <= Life + Attempt' \/ \E w \in Scrapers : InTime(w)'
    BY <1>1 DEF RightInTime
  <2>1. Attempt \in 0..(Interval + 1) /\ Attempt' = Attempt + 1
    BY <1>3
  <2>2. CASE ~(quiet > Life)
    BY <1>2, <2>1, <2>2, Numbers
  <2>3. CASE quiet > Life /\ Right
    <3>1. state \in State /\ state' # None
          /\ state'.status = state.status /\ state'.sample = state.sample
      BY <1>1, <1>3 DEF TypeOK, State
    <3> QED
      BY <1>1, <2>3, <3>1 DEF Right
  <2>4. CASE quiet <= Life + Attempt
    BY <1>2, <2>1, <2>4, Numbers
  <2>5. ASSUME NEW w \in Scrapers, InTime(w)
        PROVE  InTime(w)'
    <3>1. /\ scrape'[w].pc = scrape[w].pc /\ scrape[w].pc # "begin"
          /\ scrape[w].pc = "fetch" => scrape[w].age \in 0..Life
          /\ scrape[w].pc = "store" => scrape[w].age \in 0..MaxDelay
          /\ scrape[w].pc \in {"fetch", "store"} => scrape'[w].age = scrape[w].age + 1
      BY <1>1, ScrapeTypes, AgesGrow
    <3> QED
      BY <1>2, <2>5, <3>1, Numbers DEF InTime
  <2> QED
    BY <2>2, <2>3, <2>4, <2>5 DEF IInv, RightInTime
<1> QED
  BY <1>4, <1>5, <1>6, <1>7 DEF IInv

-----------------------------------------------------------------------------
(* The theorems *)

LEMMA InitIInv ==
  Init => IInv
<1> SUFFICES ASSUME Init PROVE IInv
  OBVIOUS
<1>1. Idle \in Scrape /\ \A w \in Scrapers : scrape[w].pc = "idle"
  BY DEF Init, Idle, Scrape
<1>2. TypeOK
  <2>1. quiet \in 0..Settle /\ calm \in 0..(Life + 1)
    BY Numbers DEF Init
  <2>2. scrape \in [Scrapers -> Scrape]
    BY <1>1 DEF Init
  <2>3. refresh \in BOOLEAN /\ ticked \in BOOLEAN
    BY DEF Init
  <2> QED
    BY <2>1, <2>2, <2>3 DEF Init, TypeOK
<1>3. OldOnesAge
  BY <1>1 DEF OldOnesAge
<1>4. DueBegins /\ RightInTime
  BY Numbers DEF Init, DueBegins, RightInTime
<1> QED
  BY <1>2, <1>3, <1>4 DEF IInv

LEMMA NextIInv ==
  IInv /\ [Next]_vars => IInv'
<1> SUFFICES ASSUME IInv, [Next]_vars PROVE IInv'
  OBVIOUS
<1>1. CASE LoopTick
  BY <1>1, LoopStep DEF LoopTick, IInv, TypeOK
<1>2. CASE LoopRefresh
  BY <1>2, LoopStep DEF LoopRefresh, IInv, TypeOK
<1>3. CASE Tick
  BY <1>3, TickStep
<1>4. ASSUME NEW w \in Scrapers, ScrapeNext(w)
      PROVE  IInv'
  BY <1>4, BeginStep, FailsStep, ReadsStep, StoresStep DEF ScrapeNext
<1>5. ASSUME NEW t \in Target, Update(t)
      PROVE  IInv'
  BY <1>5, UpdateStep
<1>6. ASSUME NEW a \in Addrs, ServerDown(a) \/ ServerUp(a)
      PROVE  IInv'
  BY <1>6, ServerStep
<1>8. CASE RefreshNow
  BY <1>8, RefreshNowStep
<1>7. CASE UNCHANGED vars
  BY <1>7 DEF vars, IInv, TypeOK, OldOnesAge, Matches, DueBegins, RightInTime, Right,
              InTime, Attempt, Ensured
<1> QED
  BY <1>1, <1>2, <1>3, <1>4, <1>5, <1>6, <1>7, <1>8 DEF Next

LEMMA SettledIsRight ==
  IInv => StatusSettles
<1>1. ASSUME IInv, quiet = Settle, target.enabled
      PROVE  Right
  <2>1. TypeOK /\ Attempt \in 0..(Interval + 1)
    BY <1>1, EnsuredType DEF IInv
  <2>2. quiet > Life /\ ~(quiet <= Life + Attempt)
    BY <1>1, <2>1, Numbers
  <2>3. ASSUME NEW w \in Scrapers
        PROVE  ~InTime(w)
    BY <1>1, <2>1, ScrapeTypes, Numbers DEF InTime
  <2> QED
    BY <1>1, <2>2, <2>3 DEF IInv, RightInTime
<1> SUFFICES ASSUME IInv, quiet = Settle
             PROVE  /\ Shown = IF ~target.enabled THEN "disabled"
                               ELSE IF target.addr \in up THEN "online" ELSE "offline"
                    /\ Shown = "online" => state.sample = target.addr
  BY DEF StatusSettles
<1>2. CASE ~target.enabled
  BY <1>2 DEF Shown
<1>3. CASE target.enabled
  <2>1. Right
    BY <1>1, <1>3
  <2> QED
    BY <1>3, <2>1 DEF Shown, Right
<1> QED
  BY <1>2, <1>3

(* The state of the page and of the scrapes stays of its type.             *)
THEOREM TypeCorrect == Spec => []TypeOK
<1>1. IInv => TypeOK
  BY DEF IInv
<1> QED
  BY InitIInv, NextIInv, <1>1, PTL DEF Spec

(* However many scrapes of one target overlap, of whatever addresses, and  *)
(* in whatever order they end: Settle ticks after the last change the page *)
(* shows the status the server has.                                        *)
THEOREM StatusIsRightInTime == Spec => []StatusSettles
  BY InitIInv, NextIInv, SettledIsRight, PTL DEF Spec

-----------------------------------------------------------------------------
(* Scrapes do not pile up.  The age of a scrape is not in the state, once  *)
(* it has its answer: since[w] is the ticks since w began.                 *)

Running(w) == scrape[w].pc \in {"fetch", "store"}
Apart(a, b) == a + Interval <= b \/ b + Interval <= a

\* since fits with the state, and no scrape is younger than the last attempt.
Dated(since) ==
  \A w \in Scrapers :
    /\ scrape[w].pc = "fetch" => since[w] = scrape[w].age
    /\ scrape[w].pc = "store" => scrape[w].age <= since[w] /\ since[w] <= scrape[w].age + Timeout
    /\ Running(w) => state # None /\ Attempt <= since[w]

\* Attempts since the last change were an interval apart.
Spaced(since) ==
  \A v, w \in Scrapers :
    v # w /\ Running(v) /\ Running(w) /\ since[v] < calm /\ since[w] < calm
      => Apart(since[v], since[w])

SpreadOut == \E since \in [Scrapers -> Nat] : Dated(since) /\ Spaced(since)

\* The loop alone starts scrapes when nothing is edited, one at a time and
\* only when one is due.
OneBegins ==
  calm > 0 =>
    /\ ~refresh
    /\ \A w \in Scrapers : scrape[w].pc = "begin" =>
         /\ ~ticked /\ Attempt >= Interval
         /\ \A v \in Scrapers : scrape[v].pc = "begin" => v = w

FInv == TypeOK /\ SpreadOut /\ OneBegins

-----------------------------------------------------------------------------
LEMMA StatusOnly ==
  ASSUME TypeOK, MarkDisabled \/ MarkError \/ \E a \in Addrs : StoreSample(a)
  PROVE  state' # None /\ Attempt' = Attempt
<1>1. Ensured \in State
  BY EnsuredType
<1>2. state' \in State /\ state'.attempt = Ensured.attempt
  BY <1>1 DEF MarkDisabled, MarkError, StoreSample, State
<1> QED BY <1>2, NoneAssumption DEF Attempt, Ensured

LEMMA InitFInv == Init => FInv
<1> SUFFICES ASSUME Init PROVE FInv
  OBVIOUS
<1>1. TypeOK
  BY InitIInv DEF IInv
<1>2. \A w \in Scrapers : scrape[w].pc = "idle"
  BY DEF Init, Idle
<1>3. OneBegins
  BY DEF Init, OneBegins
<1>4. [w \in Scrapers |-> 0] \in [Scrapers -> Nat]
  OBVIOUS
<1>5. Dated([w \in Scrapers |-> 0]) /\ Spaced([w \in Scrapers |-> 0])
  BY <1>2 DEF Dated, Spaced, Running
<1>6. SpreadOut
  BY <1>4, <1>5 DEF SpreadOut
<1> QED BY <1>1, <1>3, <1>6 DEF FInv

\* A scrape ends, or goes on with the date it has; the last attempt stays.
LEMMA NoAttempt ==
  ASSUME FInv, TypeOK', NEW w \in Scrapers, NEW s,
         scrape' = [scrape EXCEPT ![w] = s], UNCHANGED <<refresh, ticked, calm>>,
         state' # None, Attempt' = Attempt,
         s.pc \in {"idle", "store"},
         s.pc = "store" => scrape[w].pc = "fetch" /\ scrape[w].age <= Timeout /\ s.age = 0
  PROVE  FInv'
<1>1. TypeOK /\ scrape \in [Scrapers -> Scrape]
  BY DEF FInv, TypeOK
<1>2. scrape'[w] = s /\ \A v \in Scrapers \ {w} : scrape'[v] = scrape[v]
  BY <1>1
<1>3. OneBegins'
  BY <1>2 DEF FInv, OneBegins
<1>4. PICK since \in [Scrapers -> Nat] : Dated(since) /\ Spaced(since)
  BY DEF FInv, SpreadOut
<1>5. \A v \in Scrapers : Running(v)' => Running(v)
  BY <1>2 DEF Running
<1>6. ASSUME NEW v \in Scrapers
      PROVE  /\ scrape'[v].pc = "fetch" => since[v] = scrape'[v].age
             /\ scrape'[v].pc = "store" =>
                  scrape'[v].age <= since[v] /\ since[v] <= scrape'[v].age + Timeout
             /\ Running(v)' => state' # None /\ Attempt' <= since[v]
  <2>1. CASE v # w
    BY <1>2, <1>4, <1>5, <2>1 DEF Dated
  <2>2. CASE v = w
    <3>1. scrape[w].pc = "fetch" => since[w] = scrape[w].age /\ scrape[w].age \in 0..Life
      BY <1>1, <1>4, ScrapeTypes DEF Dated
    <3>2. s.pc = "store" => s.age <= since[w] /\ since[w] <= s.age + Timeout
      BY <3>1, Numbers
    <3> QED BY <1>2, <1>4, <1>5, <2>2, <3>2 DEF Dated
  <2> QED BY <2>1, <2>2
<1>7. (Dated(since))'
  BY <1>6 DEF Dated
<1>8. (Spaced(since))'
  BY <1>4, <1>5 DEF Spaced
<1>9. SpreadOut'
  BY <1>7, <1>8 DEF SpreadOut
<1> QED BY <1>3, <1>9 DEF FInv

\* What leaves the scrapes and the last attempt alone, but for new ones.
LEMMA NoneGoesOn ==
  ASSUME FInv, TypeOK', OneBegins',
         \A w \in Scrapers : Running(w)' => /\ Running(w) /\ scrape'[w].pc = scrape[w].pc
                                            /\ scrape'[w].age = scrape[w].age,
         state # None => state' # None, Attempt' = Attempt, calm' \in {0, calm}
  PROVE  FInv'
<1>1. PICK since \in [Scrapers -> Nat] : Dated(since) /\ Spaced(since)
  BY DEF FInv, SpreadOut
<1>2. (Dated(since))'
  BY <1>1 DEF Dated, Running
<1>3. (Spaced(since))'
  BY <1>1 DEF Spaced
<1>4. SpreadOut'
  BY <1>2, <1>3 DEF SpreadOut
<1> QED BY <1>4 DEF FInv

LEMMA AttemptStep ==
  ASSUME FInv, TypeOK', NEW w \in Scrapers, ScrapeBegin(w)
  PROVE  FInv'
<1>1. /\ TypeOK /\ scrape[w].pc = "begin" /\ calm \in Nat
      /\ UNCHANGED <<refresh, ticked, calm>>
  BY Numbers DEF FInv, TypeOK, ScrapeBegin
<1>2. state' # None /\ Attempt' = 0
  <2>1. Ensured \in State /\ state' = [Ensured EXCEPT !.attempt = 0]
    BY <1>1, EnsuredType DEF ScrapeBegin
  <2>2. state' \in State /\ state'.attempt = 0
    BY <2>1, Numbers DEF State
  <2> QED BY <2>2, NoneAssumption DEF Attempt, Ensured
<1>3. /\ scrape'[w].pc = "fetch" /\ scrape'[w].age = 0
      /\ \A v \in Scrapers \ {w} : scrape'[v] = scrape[v]
  BY <1>1 DEF ScrapeBegin, TypeOK
<1>4. PICK since \in [Scrapers -> Nat] : Dated(since) /\ Spaced(since)
  BY DEF FInv, SpreadOut
<1> DEFINE now == [since EXCEPT ![w] = 0]
<1>5. /\ now \in [Scrapers -> Nat] /\ now[w] = 0
      /\ \A v \in Scrapers \ {w} : now[v] = since[v]
  OBVIOUS
<1> HIDE DEF now
<1>6. (Dated(now))'
  <2> SUFFICES ASSUME NEW v \in Scrapers
               PROVE  /\ scrape'[v].pc = "fetch" => now[v] = scrape'[v].age
                      /\ scrape'[v].pc = "store" =>
                           scrape'[v].age <= now[v] /\ now[v] <= scrape'[v].age + Timeout
                      /\ Running(v)' => state' # None /\ Attempt' <= now[v]
    BY DEF Dated
  <2>1. CASE v = w
    BY <1>2, <1>3, <1>5, <2>1
  <2>2. CASE v # w
    BY <1>2, <1>3, <1>4, <1>5, <2>2 DEF Dated
  <2> QED BY <2>1, <2>2
<1>7. calm > 0 => Attempt >= Interval /\ \A v \in Scrapers : scrape[v].pc = "begin" => v = w
  BY <1>1 DEF FInv, OneBegins
<1>8. (Spaced(now))'
  <2> SUFFICES ASSUME NEW u \in Scrapers, NEW v \in Scrapers, u # v,
                      Running(u)', Running(v)', now[u] < calm, now[v] < calm
               PROVE  Apart(now[u], now[v])
    BY <1>1 DEF Spaced
  <2>1. calm > 0 /\ Attempt >= Interval /\ Attempt \in Nat
    BY <1>1, <1>5, <1>7, EnsuredType, Numbers
  <2>2. \A x \in Scrapers \ {w} : Running(x)' => Running(x) /\ Interval <= now[x]
    BY <1>3, <1>4, <1>5, <2>1, Numbers DEF Running, Dated
  <2>3. CASE u = w \/ v = w
    BY <1>5, <2>2, <2>3, Numbers DEF Apart
  <2>4. CASE u # w /\ v # w
    BY <1>4, <1>5, <2>2, <2>4 DEF Spaced
  <2> QED BY <2>3, <2>4
<1>9. SpreadOut'
  BY <1>5, <1>6, <1>8 DEF SpreadOut
<1>10. OneBegins'
  BY <1>1, <1>3, <1>7 DEF FInv, OneBegins
<1> QED BY <1>9, <1>10 DEF FInv

LEMMA LoopFInv ==
  ASSUME FInv, TypeOK', LoopTick \/ LoopRefresh
  PROVE  FInv'
<1>1. /\ TypeOK /\ calm \in Nat /\ calm' = calm
      /\ scrape \in [Scrapers -> Scrape]
  <2>1. calm' = calm
    BY DEF LoopTick, LoopRefresh
  <2>2. TypeOK
    BY DEF FInv
  <2> QED BY <2>1, <2>2, Numbers DEF TypeOK
<1>2. calm > 0 => ~refresh /\ ~refresh' /\ ScrapeDue(FALSE) /\ ~ticked' /\ ticked
  BY <1>1 DEF FInv, OneBegins, LoopTick, LoopRefresh
<1>3. ScrapeDue(TRUE) \/ ScrapeDue(FALSE)
  BY DEF LoopTick, LoopRefresh
<1>4. \/ UNCHANGED scrape /\ (UNCHANGED state \/ MarkDisabled)
      \/ /\ UNCHANGED state /\ (calm > 0 => MaybeDue)
         /\ \E w \in Scrapers :
              /\ scrape[w] = Idle
              /\ scrape' = [scrape EXCEPT ![w] = [pc |-> "begin", addr |-> target.addr]]
  BY <1>2, <1>3 DEF ScrapeDue
<1>5. Ensured \in State /\ Attempt \in 0..(Interval + 1)
  BY <1>1, EnsuredType
<1>6. CASE UNCHANGED scrape /\ (UNCHANGED state \/ MarkDisabled)
  <2>1. Attempt' = Attempt /\ (state # None => state' # None)
    BY <1>1, <1>6, StatusOnly DEF Attempt, Ensured
  <2>2. OneBegins'
    BY <1>1, <1>2, <1>6, <2>1 DEF FInv, OneBegins
  <2> QED BY <1>1, <1>6, <2>1, <2>2, NoneGoesOn DEF Running
<1>7. ASSUME UNCHANGED state, calm > 0 => MaybeDue, NEW w \in Scrapers,
             scrape[w] = Idle,
             scrape' = [scrape EXCEPT ![w] = [pc |-> "begin", addr |-> target.addr]]
      PROVE  FInv'
  <2>1. /\ scrape'[w].pc = "begin" /\ \A v \in Scrapers \ {w} : scrape'[v] = scrape[v]
        /\ Attempt' = Attempt
    BY <1>1, <1>7 DEF Attempt, Ensured
  <2>2. calm > 0 => Attempt >= Interval
    BY <1>7 DEF MaybeDue, Attempt
  <2>3. calm > 0 => \A v \in Scrapers : scrape[v].pc # "begin"
    BY <1>2 DEF FInv, OneBegins
  <2>4. OneBegins'
    BY <1>1, <1>2, <2>1, <2>2, <2>3 DEF OneBegins
  <2> QED BY <1>1, <1>7, <2>1, <2>4, NoneGoesOn DEF Running
<1> QED BY <1>4, <1>6, <1>7

LEMMA TickFInv ==
  ASSUME FInv, TypeOK', Tick
  PROVE  FInv'
<1>1. /\ TypeOK /\ calm \in 0..(Life + 1) /\ calm' = Older(calm, Life + 1)
      /\ ~refresh' /\ \A w \in Scrapers : ~Late(scrape[w])
  BY DEF FInv, TypeOK, Tick
<1>2. PICK since \in [Scrapers -> Nat] : Dated(since) /\ Spaced(since)
  BY DEF FInv, SpreadOut
<1> DEFINE now == [w \in Scrapers |-> since[w] + 1]
<1>3. now \in [Scrapers -> Nat] /\ \A w \in Scrapers : now[w] = since[w] + 1 /\ since[w] \in Nat
  OBVIOUS
<1> HIDE DEF now
<1>4. ASSUME NEW w \in Scrapers
      PROVE  /\ scrape'[w].pc = scrape[w].pc /\ scrape[w].pc # "begin"
             /\ Running(w) => /\ scrape'[w].age = scrape[w].age + 1 /\ scrape[w].age \in Nat
                              /\ now[w] <= Life
  <2>1. scrape'[w] = OlderScrape(scrape[w]) /\ ~Late(scrape[w])
    BY <1>1 DEF Tick
  <2>2. scrape[w] \in Scrape
    BY <1>1 DEF TypeOK
  <2>3. CASE scrape[w].pc = "fetch"
    <3>1. scrape[w].age \in 0..Life /\ scrape[w].age < Life
      BY <1>1, <2>1, <2>3, ScrapeTypes, Numbers DEF Late
    <3>2. scrape'[w] = [scrape[w] EXCEPT !.age = scrape[w].age + 1]
      BY <2>1, <2>3, <3>1, Numbers DEF OlderScrape, Older
    <3>3. scrape'[w].pc = "fetch" /\ scrape'[w].age = scrape[w].age + 1
      BY <2>2, <2>3, <3>2 DEF Scrape, Idle
    <3> QED BY <1>2, <1>3, <2>3, <3>1, <3>3, Numbers DEF Dated
  <2>4. CASE scrape[w].pc = "store"
    <3>1. scrape[w].age \in 0..MaxDelay /\ scrape[w].age # MaxDelay
      BY <1>1, <2>1, <2>4, ScrapeTypes DEF Late
    <3>2. scrape'[w] = [scrape[w] EXCEPT !.age = scrape[w].age + 1]
      BY <2>1, <2>4, <3>1, Numbers DEF OlderScrape, Older
    <3>3. scrape'[w].pc = "store" /\ scrape'[w].age = scrape[w].age + 1
      BY <2>2, <2>4, <3>2 DEF Scrape, Idle
    <3> QED BY <1>2, <1>3, <2>4, <3>1, <3>3, Numbers DEF Dated
  <2>5. CASE scrape[w].pc \notin {"fetch", "store"}
    BY <2>1, <2>5 DEF OlderScrape, Late, Running
  <2> QED BY <2>3, <2>4, <2>5
<1>5. ASSUME state # None
      PROVE  state' # None /\ Attempt' <= Attempt + 1
  <2>1. /\ state \in State /\ state.attempt \in 0..(Interval + 1)
        /\ state' = [state EXCEPT !.attempt = Older(state.attempt, Interval + 1)]
    BY <1>1, <1>5 DEF TypeOK, State, Tick
  <2>2. Older(state.attempt, Interval + 1) \in 0..(Interval + 1)
    BY <2>1, Numbers DEF Older
  <2>3. state' \in State /\ state'.attempt = Older(state.attempt, Interval + 1)
    BY <2>1, <2>2 DEF State
  <2>4. Older(state.attempt, Interval + 1) <= state.attempt + 1
    BY <2>1, Numbers DEF Older
  <2> QED BY <1>5, <2>3, <2>4, NoneAssumption DEF Attempt, Ensured
<1>6. Attempt \in Nat /\ (state # None => Attempt' \in Nat)
  BY <1>1, EnsuredType, Numbers DEF TypeOK, State, Attempt, Ensured, Fresh
<1>7. (Dated(now))'
  <2> SUFFICES ASSUME NEW w \in Scrapers
               PROVE  /\ scrape'[w].pc = "fetch" => now[w] = scrape'[w].age
                      /\ scrape'[w].pc = "store" =>
                           scrape'[w].age <= now[w] /\ now[w] <= scrape'[w].age + Timeout
                      /\ Running(w)' => state' # None /\ Attempt' <= now[w]
    BY DEF Dated
  <2>1. Running(w)' <=> Running(w)
    BY <1>4 DEF Running
  <2>2. CASE Running(w)
    <3>1. state # None /\ Attempt <= since[w]
      BY <1>2, <2>2 DEF Dated
    <3>2. state' # None /\ Attempt' <= now[w]
      BY <1>3, <1>5, <1>6, <3>1
    <3>3. scrape[w].pc = "fetch" => since[w] = scrape[w].age
      BY <1>2 DEF Dated
    <3>4. scrape[w].pc = "store" =>
            scrape[w].age <= since[w] /\ since[w] <= scrape[w].age + Timeout
      BY <1>2 DEF Dated
    <3> QED BY <1>3, <1>4, <2>2, <3>2, <3>3, <3>4, Numbers
  <2>3. CASE ~Running(w)
    BY <1>4, <2>1, <2>3 DEF Running
  <2> QED BY <2>2, <2>3
<1>8. (Spaced(now))'
  <2> SUFFICES ASSUME NEW u \in Scrapers, NEW v \in Scrapers, u # v,
                      Running(u)', Running(v)', now[u] < calm', now[v] < calm'
               PROVE  Apart(now[u], now[v])
    BY DEF Spaced
  <2>1. Running(u) /\ Running(v)
    BY <1>4 DEF Running
  <2>2. since[u] < calm /\ since[v] < calm
    BY <1>1, <1>3, <1>4, <2>1, Numbers DEF Older
  <2>3. Apart(since[u], since[v])
    BY <1>2, <2>1, <2>2 DEF Spaced
  <2> QED BY <1>3, <2>3, Numbers DEF Apart
<1>9. SpreadOut'
  BY <1>3, <1>7, <1>8 DEF SpreadOut
<1>10. OneBegins'
  BY <1>1, <1>4 DEF OneBegins
<1> QED BY <1>9, <1>10 DEF FInv

LEMMA ChangeFInv ==
  ASSUME FInv, TypeOK',
         \/ RefreshNow
         \/ \E t \in Target : Update(t)
         \/ \E a \in Addrs : ServerDown(a) \/ ServerUp(a)
  PROVE  FInv'
<1>1. /\ TypeOK /\ state' = state
      /\ calm' = 0 \/ UNCHANGED <<calm, refresh, ticked>>
  BY DEF FInv, RefreshNow, Update, ServerDown, ServerUp
<1>2. ASSUME NEW w \in Scrapers
      PROVE  Running(w)' => /\ Running(w) /\ scrape'[w].pc = scrape[w].pc
                            /\ scrape'[w].age = scrape[w].age
  <2>1. scrape[w] \in Scrape
    BY <1>1 DEF TypeOK
  <2>2. \/ scrape'[w] = scrape[w]
        \/ scrape[w].pc = "fetch" /\ scrape'[w] = [scrape[w] EXCEPT !.broken = TRUE]
    BY DEF RefreshNow, Update, ServerDown, ServerUp
  <2> QED BY <2>1, <2>2 DEF Running, Scrape, Idle
<1>3. Attempt' = Attempt
  BY <1>1 DEF Attempt, Ensured
<1>4. ASSUME NEW w \in Scrapers
      PROVE  scrape'[w].pc = "begin" => scrape[w].pc = "begin"
  <2>1. scrape[w] \in Scrape
    BY <1>1 DEF TypeOK
  <2>2. \/ scrape'[w] = scrape[w]
        \/ scrape[w].pc = "fetch" /\ scrape'[w] = [scrape[w] EXCEPT !.broken = TRUE]
    BY DEF RefreshNow, Update, ServerDown, ServerUp
  <2> QED BY <2>1, <2>2 DEF Scrape, Idle
<1>5. OneBegins'
  BY <1>1, <1>3, <1>4 DEF FInv, OneBegins
<1> QED BY <1>1, <1>2, <1>3, <1>5, NoneGoesOn

LEMMA NextFInv == FInv /\ IInv' /\ [Next]_vars => FInv'
<1> SUFFICES ASSUME FInv, IInv', [Next]_vars PROVE FInv'
  OBVIOUS
<1>0. TypeOK' /\ TypeOK
  BY DEF IInv, FInv
<1>1. ASSUME NEW w \in Scrapers, ScrapeFails(w) \/ ScrapeReads(w) \/ ScrapeStores(w)
      PROVE  FInv'
  <2>1. scrape[w].pc \in {"fetch", "store"} /\ Idle.pc = "idle"
    BY <1>1 DEF ScrapeFails, ScrapeReads, ScrapeStores, Idle
  <2>2. state # None
    BY <2>1 DEF FInv, SpreadOut, Dated, Running
  <2>3. state' # None /\ Attempt' = Attempt
    <3>1. CASE ScrapeReads(w)
      BY <2>2, <3>1 DEF ScrapeReads, Attempt, Ensured
    <3>2. CASE ScrapeFails(w) \/ ScrapeStores(w)
      <4>1. scrape[w].addr \in Addrs
        BY <1>0, <2>1, ScrapeTypes
      <4> QED BY <1>0, <3>2, <4>1, StatusOnly DEF ScrapeFails, ScrapeStores
    <3> QED BY <1>1, <3>1, <3>2
  <2>4. \E s : /\ scrape' = [scrape EXCEPT ![w] = s] /\ s.pc \in {"idle", "store"}
               /\ s.pc = "store" => scrape[w].pc = "fetch" /\ scrape[w].age <= Timeout
                                      /\ s.age = 0
    <3>1. CASE ScrapeReads(w)
      <4> DEFINE s == [pc |-> "store", addr |-> scrape[w].addr, age |-> 0]
      <4>1. scrape' = [scrape EXCEPT ![w] = s] /\ scrape[w].pc = "fetch"
            /\ scrape[w].age <= Timeout
        BY <3>1 DEF ScrapeReads
      <4>2. s.pc = "store" /\ s.age = 0
        OBVIOUS
      <4> QED BY <4>1, <4>2
    <3>2. CASE ScrapeFails(w) \/ ScrapeStores(w)
      BY <2>1, <3>2 DEF ScrapeFails, ScrapeStores
    <3> QED BY <1>1, <3>1, <3>2
  <2>5. UNCHANGED <<refresh, ticked, calm>>
    BY <1>1 DEF ScrapeFails, ScrapeReads, ScrapeStores
  <2> QED BY <1>0, <2>3, <2>4, <2>5, NoAttempt
<1>2. CASE UNCHANGED vars
  BY <1>2 DEF vars, FInv, TypeOK, SpreadOut, Dated, Spaced, OneBegins, Running, Attempt, Ensured
<1>3. ASSUME NEW w \in Scrapers, ScrapeNext(w)
      PROVE  FInv'
  BY <1>0, <1>1, <1>3, AttemptStep DEF ScrapeNext
<1> QED BY <1>0, <1>2, <1>3, LoopFInv, TickFInv, ChangeFInv DEF Next

\* Whole intervals: what is an interval apart has begun in different ones.
LEMMA PartInRange ==
  ASSUME NEW a \in 0..Life
  PROVE  /\ a \div Interval \in 0..(Life \div Interval)
         /\ \E r \in 0..(Interval - 1) : a = Interval * (a \div Interval) + r
<1>1. /\ a = Interval * (a \div Interval) + (a % Interval)
      /\ a % Interval \in 0..(Interval - 1) /\ a \div Interval \in Int
  BY Numbers
<1>2. /\ Life = Interval * (Life \div Interval) + (Life % Interval)
      /\ Life % Interval \in 0..(Interval - 1) /\ Life \div Interval \in Int
  BY Numbers
<1> QED BY <1>1, <1>2, Numbers

LEMMA IntervalsDiffer ==
  ASSUME NEW a \in 0..Life, NEW b \in 0..Life, Apart(a, b)
  PROVE  a \div Interval # b \div Interval
<1> SUFFICES ASSUME a \div Interval = b \div Interval PROVE FALSE
  OBVIOUS
<1>1. PICK r \in 0..(Interval - 1) : a = Interval * (a \div Interval) + r
  BY PartInRange
<1>2. PICK q \in 0..(Interval - 1) : b = Interval * (b \div Interval) + q
  BY PartInRange
<1>3. a - b = r - q
  BY <1>1, <1>2, Numbers
<1> QED BY <1>1, <1>2, <1>3, Numbers DEF Apart

LEMMA FewRun == FInv => ScrapesStayFew
<1> SUFFICES ASSUME FInv, calm > Life
             PROVE  Cardinality({w \in Scrapers : scrape[w] # Idle}) <= (Life \div Interval) + 1
  BY DEF ScrapesStayFew
<1> DEFINE Alive == {w \in Scrapers : scrape[w] # Idle}
           Parts == 0..(Life \div Interval)
<1>1. TypeOK /\ calm \in Nat /\ calm > 0
  BY Numbers DEF FInv, TypeOK
<1>2. PICK since \in [Scrapers -> Nat] : Dated(since) /\ Spaced(since)
  BY DEF FInv, SpreadOut
<1> DEFINE age == [w \in Alive |-> IF scrape[w].pc = "begin" THEN 0 ELSE since[w]]
           part == [w \in Alive |-> age[w] \div Interval]
<1>3. ASSUME NEW w \in Alive
      PROVE  /\ scrape[w].pc = "begin" \/ Running(w)
             /\ age[w] \in 0..Life
             /\ Running(w) => age[w] = since[w]
  <2>1. scrape[w] \in Scrape /\ scrape[w].pc # "idle"
    BY <1>1 DEF TypeOK, Scrape, Idle
  <2>2. scrape[w].pc = "begin" \/ Running(w)
    BY <1>1, <2>1, ScrapeTypes DEF Running
  <2>3. scrape[w].pc = "fetch" => since[w] \in 0..Life
    BY <1>1, <1>2, ScrapeTypes, Numbers DEF Dated
  <2>4. scrape[w].pc = "store" => since[w] \in 0..Life
    BY <1>1, <1>2, ScrapeTypes, Numbers DEF Dated
  <2> QED BY <2>2, <2>3, <2>4, Numbers DEF Running
<1>4. ASSUME NEW v \in Alive, NEW w \in Alive, v # w
      PROVE  Apart(age[v], age[w])
  <2>1. ASSUME NEW x \in Alive, NEW y \in Alive, x # y, scrape[x].pc = "begin"
        PROVE  Apart(age[x], age[y])
    <3>1. Attempt >= Interval /\ scrape[y].pc # "begin"
      BY <1>1, <2>1 DEF FInv, OneBegins
    <3>2. Running(y) /\ age[y] \in 0..Life /\ age[y] = since[y] /\ age[x] = 0
      BY <1>3, <2>1, <3>1
    <3>3. Interval <= age[y]
      <4>1. Attempt <= age[y] /\ Attempt \in 0..(Interval + 1)
        BY <1>1, <1>2, <3>2, EnsuredType DEF Dated
      <4> QED BY <3>1, <3>2, <4>1, Numbers
    <3> QED BY <3>2, <3>3, Numbers DEF Apart
  <2>2. CASE scrape[v].pc = "begin"
    BY <1>4, <2>1, <2>2
  <2>3. CASE scrape[w].pc = "begin"
    <3>1. Apart(age[w], age[v])
      BY <1>4, <2>1, <2>3
    <3> QED BY <3>1 DEF Apart
  <2>4. CASE scrape[v].pc # "begin" /\ scrape[w].pc # "begin"
    <3>1. /\ Running(v) /\ age[v] = since[v] /\ age[v] \in 0..Life
      BY <1>3, <2>4
    <3>2. /\ Running(w) /\ age[w] = since[w] /\ age[w] \in 0..Life
      BY <1>3, <2>4
    <3>3. since[v] < calm /\ since[w] < calm
      BY <1>1, <3>1, <3>2, Numbers
    <3> QED BY <1>2, <1>4, <3>1, <3>2, <3>3 DEF Spaced
  <2> QED BY <2>2, <2>3, <2>4
<1> HIDE DEF age
<1>5. ASSUME NEW v \in Alive, NEW w \in Alive, v # w
      PROVE  part[v] # part[w]
  BY <1>3, <1>4, <1>5, IntervalsDiffer
<1>6. part \in [Alive -> Parts]
  <2>1. ASSUME NEW w \in Alive
        PROVE  part[w] \in Parts
    BY <1>3, <2>1, PartInRange
  <2> QED BY <2>1
<1>7. part \in Injection(Alive, Parts)
  <2>1. \A v, w \in Alive : part[v] = part[w] => v = w
    BY <1>5
  <2> HIDE DEF part, Alive, Parts
  <2> QED BY <1>6, <2>1 DEF Injection, IsInjective
<1>8. Life \div Interval \in Nat
  BY Numbers
<1>9. IsFiniteSet(Parts) /\ Cardinality(Parts) = (Life \div Interval) + 1
  BY <1>8, FS_Interval
<1> QED BY <1>7, <1>9, FS_Injection

(* When no target is edited any more, no more scrapes of one live at once  *)
(* than attempts fit in the life of one, however many may have overlapped  *)
(* before and though the servers come and go.                              *)
THEOREM ScrapesNeverPileUp == Spec => []ScrapesStayFew
<1>1. IInv /\ [Next]_vars => IInv'
  BY NextIInv
<1> QED BY InitIInv, <1>1, InitFInv, NextFInv, FewRun, PTL DEF Spec

-----------------------------------------------------------------------------
(* FrpsRates: the inductive invariant *)

Answered(w) == reading[w].pc = "answer"
Storing(w)  == reading[w].pc = "store"

\* The variables have their values.
RatesValues ==
  /\ traffic \in Counter
  /\ reading \in [Scrapers -> Reading]
  /\ sample \in Sample \cup {None}

\* The server has carried no more since its counter was read than it can have
\* in the time; what no restart has overtaken is not ahead of the counter.
ReadNotLongAgo ==
  \A w \in Scrapers :
    /\ Answered(w) /\ reading[w].of # "other" => traffic <= reading[w].traffic + reading[w].age
    /\ Storing(w) /\ reading[w].of # "other" =>
         traffic <= reading[w].traffic + reading[w].age + Timeout
    /\ (Answered(w) \/ Storing(w)) /\ reading[w].of = "life" => reading[w].traffic <= traffic

SampleNotLongAgo ==
  sample # None /\ sample.of # "other" => traffic <= sample.traffic + sample.age + Timeout

\* What has been dated later cannot be ahead by more than the time between
\* the two dates and the time an answer may take.
DatesTell ==
  \A v, w \in Scrapers :
    Storing(v) /\ Storing(w) /\ reading[v].of # "other" /\ reading[w].of = "life"
      /\ reading[w].age <= reading[v].age =>
      reading[w].traffic + reading[w].age <= reading[v].traffic + reading[v].age + Timeout

SampleTells ==
  sample # None /\ sample.of # "other" =>
    \A w \in Scrapers :
      Storing(w) /\ reading[w].of = "life" /\ reading[w].age <= sample.age =>
        reading[w].traffic + reading[w].age <= sample.traffic + sample.age + Timeout

RatesIInv ==
  /\ RatesValues
  /\ ReadNotLongAgo
  /\ SampleNotLongAgo
  /\ DatesTell
  /\ SampleTells

-----------------------------------------------------------------------------
LEMMA RatesNumbers ==
  /\ Timeout \in Nat /\ MaxDelay \in Nat /\ MaxTraffic \in Nat
  /\ OldAge = MaxTraffic + MaxDelay + 1
BY TimesAssumption, TrafficAssumption DEF OldAge

LEMMA ReadingTypes ==
  ASSUME NEW r \in Reading
  PROVE  /\ r.pc \in {"idle", "ask", "answer", "store"}
         /\ r = Resting <=> r.pc = "idle"
         /\ r.pc = "ask" => r.age \in 0..Timeout
         /\ r.pc = "answer" => r.age \in 0..Timeout
         /\ r.pc = "store" => r.age \in 0..MaxDelay
         /\ r.pc \in {"answer", "store"} => r.traffic \in Counter /\ r.of \in Origin
BY DEF Reading, Resting

LEMMA SampleTypes ==
  ASSUME RatesValues, sample # None
  PROVE  /\ sample \in Sample
         /\ sample.age \in 0..OldAge /\ sample.traffic \in Counter
BY DEF RatesValues, Sample

LEMMA RatesInitIInv == RatesInit => RatesIInv
<1> SUFFICES ASSUME RatesInit PROVE RatesIInv
  OBVIOUS
<1>1. /\ traffic \in Counter /\ sample = None
      /\ reading \in [Scrapers -> Reading]
      /\ \A w \in Scrapers : reading[w].pc = "idle"
  BY RatesNumbers DEF RatesInit, Counter, Reading, Resting
<1> QED
  BY <1>1 DEF RatesIInv, RatesValues, ReadNotLongAgo, SampleNotLongAgo, DatesTell,
              SampleTells, Answered, Storing

\* A scrape that asks, is answered or gives up.
LEMMA AskingStep ==
  ASSUME RatesIInv, NEW w \in Scrapers,
         Ask(w) \/ Answer(w) \/ OtherAnswer(w) \/ AskFails(w)
  PROVE  RatesIInv'
<1>1. RatesValues /\ reading[w] \in Reading /\ traffic \in Counter
  BY DEF RatesIInv, RatesValues
<1>2. \E r \in Reading :
        /\ reading' = [reading EXCEPT ![w] = r]
        /\ r.pc # "store"
        /\ r.pc = "answer" => r.of = "other" \/ r.traffic = traffic
  <2>1. CASE Ask(w)
    <3>1. [pc |-> "ask", age |-> 0] \in Reading
      BY RatesNumbers DEF Reading
    <3> QED BY <2>1, <3>1 DEF Ask
  <2>2. ASSUME NEW counted \in Counter, NEW of \in Origin, Answers(w, counted, of),
               of = "other" \/ counted = traffic
        PROVE  \E r \in Reading :
                 /\ reading' = [reading EXCEPT ![w] = r]
                 /\ r.pc # "store"
                 /\ r.pc = "answer" => r.of = "other" \/ r.traffic = traffic
    <3> DEFINE r == [pc |-> "answer", age |-> reading[w].age, traffic |-> counted, of |-> of]
    <3>1. reading[w].age \in 0..Timeout
      BY <1>1, <2>2, ReadingTypes DEF Answers
    <3>2. r \in Reading
      BY <3>1 DEF Reading
    <3>3. reading' = [reading EXCEPT ![w] = r]
      BY <2>2 DEF Answers
    <3> QED BY <2>2, <3>2, <3>3
  <2>4. CASE Answer(w) \/ OtherAnswer(w)
    <3>1. "life" \in Origin /\ "other" \in Origin
      BY DEF Origin
    <3> QED BY <1>1, <2>2, <2>4, <3>1 DEF Answer, OtherAnswer
  <2>3. CASE AskFails(w)
    <3>1. Resting \in Reading /\ Resting.pc = "idle"
      BY DEF Reading, Resting
    <3> QED BY <2>3, <3>1 DEF AskFails
  <2> QED BY <2>1, <2>3, <2>4
<1>3. PICK r \in Reading :
        /\ reading' = [reading EXCEPT ![w] = r]
        /\ r.pc # "store"
        /\ r.pc = "answer" => r.of = "other" \/ r.traffic = traffic
  BY <1>2
<1>4. UNCHANGED <<traffic, sample>>
  BY DEF Ask, Answer, OtherAnswer, Answers, AskFails
<1>5. /\ reading' \in [Scrapers -> Reading]
      /\ reading'[w] = r /\ \A v \in Scrapers \ {w} : reading'[v] = reading[v]
  BY <1>1, <1>3 DEF RatesValues
<1>6. RatesValues'
  BY <1>1, <1>4, <1>5 DEF RatesValues
<1>7. ReadNotLongAgo'
  <2>1. r.pc = "answer" => r.age \in Nat /\ r.traffic \in Nat /\ traffic \in Nat
    BY <1>1, ReadingTypes, RatesNumbers DEF Counter
  <2>2. r.pc = "answer" /\ r.of # "other" => traffic <= r.traffic + r.age /\ r.traffic <= traffic
    BY <1>3, <2>1
  <2> QED BY <1>3, <1>4, <1>5, <2>2 DEF RatesIInv, ReadNotLongAgo, Answered, Storing
<1>8. /\ SampleNotLongAgo' /\ DatesTell' /\ SampleTells'
  BY <1>3, <1>4, <1>5 DEF RatesIInv, SampleNotLongAgo, DatesTell, SampleTells, Storing
<1> QED BY <1>6, <1>7, <1>8 DEF RatesIInv

LEMMA ParsedStep ==
  ASSUME RatesIInv, NEW w \in Scrapers, Parsed(w)
  PROVE  RatesIInv'
<1> DEFINE r == [pc |-> "store", age |-> 0, traffic |-> reading[w].traffic,
                 of |-> reading[w].of]
<1>1. /\ RatesValues /\ Answered(w) /\ UNCHANGED <<traffic, sample>>
      /\ reading' = [reading EXCEPT ![w] = r]
  BY DEF RatesIInv, Parsed, Answered
<1>2. /\ reading[w].age \in 0..Timeout /\ reading[w].traffic \in Counter
      /\ reading[w].of \in Origin /\ traffic \in Counter
  BY <1>1, ReadingTypes DEF RatesValues, Answered
<1>3. r \in Reading /\ r.pc = "store" /\ r.age = 0 /\ r.traffic = reading[w].traffic
  BY <1>2, RatesNumbers DEF Reading
<1>3a. r.of = reading[w].of
  OBVIOUS
<1> HIDE DEF r
<1>4. /\ reading' \in [Scrapers -> Reading]
      /\ reading'[w] = r /\ \A v \in Scrapers \ {w} : reading'[v] = reading[v]
  BY <1>1, <1>3 DEF RatesValues
<1>5. RatesValues'
  BY <1>1, <1>4 DEF RatesValues
<1>6. /\ reading[w].of # "other" => traffic <= reading[w].traffic + reading[w].age
      /\ reading[w].of = "life" => reading[w].traffic <= traffic
  BY <1>1 DEF RatesIInv, ReadNotLongAgo
<1>7. /\ r.of # "other" => traffic <= r.traffic + Timeout
      /\ r.of = "life" => r.traffic <= traffic
  BY <1>2, <1>3, <1>3a, <1>6, RatesNumbers DEF Counter
<1>8. ReadNotLongAgo'
  BY <1>1, <1>2, <1>3, <1>3a, <1>4, <1>7, RatesNumbers
  DEF RatesIInv, ReadNotLongAgo, Answered, Storing, Counter
<1>9. ASSUME NEW v \in Scrapers, v # w, Storing(v)
      PROVE  /\ reading[v].age \in Nat /\ reading[v].traffic \in Nat
             /\ r.of = "life" /\ reading[v].of # "other" =>
                  r.traffic <= reading[v].traffic + reading[v].age + Timeout
             /\ r.of # "other" /\ reading[v].of = "life" => reading[v].traffic <= r.traffic + Timeout
  <2>1. /\ reading[v].of # "other" => traffic <= reading[v].traffic + reading[v].age + Timeout
        /\ reading[v].of = "life" => reading[v].traffic <= traffic
    BY <1>9 DEF RatesIInv, ReadNotLongAgo
  <2>2. reading[v].age \in 0..MaxDelay /\ reading[v].traffic \in Counter
    BY <1>1, <1>9, ReadingTypes DEF RatesValues, Storing
  <2> QED BY <1>2, <1>3, <1>7, <2>1, <2>2, RatesNumbers DEF Counter
<1>10. DatesTell'
  <2> SUFFICES ASSUME NEW u \in Scrapers, NEW v \in Scrapers,
                      Storing(u)', Storing(v)', reading'[u].of # "other",
                      reading'[v].of = "life", reading'[v].age <= reading'[u].age
               PROVE  reading'[v].traffic + reading'[v].age
                        <= reading'[u].traffic + reading'[u].age + Timeout
    BY DEF DatesTell
  <2>1. CASE u = w /\ v = w
    BY <1>2, <1>3, <1>4, <2>1, RatesNumbers DEF Counter
  <2>2. CASE u = w /\ v # w
    <3>1. Storing(v) /\ reading'[v] = reading[v] /\ reading'[u] = r
      BY <1>4, <2>2 DEF Storing
    <3>2. reading[v].age = 0
      BY <1>3, <1>9, <2>2, <3>1
    <3> QED BY <1>2, <1>3, <1>9, <2>2, <3>1, <3>2, RatesNumbers DEF Counter
  <2>3. CASE u # w /\ v = w
    <3>1. Storing(u) /\ reading'[u] = reading[u] /\ reading'[v] = r
      BY <1>4, <2>3 DEF Storing
    <3> QED BY <1>2, <1>3, <1>9, <2>3, <3>1, RatesNumbers DEF Counter
  <2>4. CASE u # w /\ v # w
    BY <1>4, <2>4 DEF RatesIInv, DatesTell, Storing
  <2> QED BY <2>1, <2>2, <2>3, <2>4
<1>11. SampleNotLongAgo'
  BY <1>1 DEF RatesIInv, SampleNotLongAgo
<1>12. SampleTells'
  <2> SUFFICES ASSUME sample # None, sample.of # "other", NEW v \in Scrapers,
                      Storing(v)', reading'[v].of = "life", reading'[v].age <= sample.age
               PROVE  reading'[v].traffic + reading'[v].age
                        <= sample.traffic + sample.age + Timeout
    BY <1>1 DEF SampleTells
  <2>1. CASE v = w
    <3>1. traffic <= sample.traffic + sample.age + Timeout
      BY DEF RatesIInv, SampleNotLongAgo
    <3>2. sample.age \in 0..OldAge /\ sample.traffic \in Counter
      BY <1>1, SampleTypes
    <3> QED BY <1>2, <1>3, <1>4, <1>7, <2>1, <3>1, <3>2, RatesNumbers DEF Counter
  <2>2. CASE v # w
    BY <1>4, <2>2 DEF RatesIInv, SampleTells, Storing
  <2> QED BY <2>1, <2>2
<1> QED BY <1>5, <1>8, <1>10, <1>11, <1>12 DEF RatesIInv

LEMMA StoredStep ==
  ASSUME RatesIInv, NEW w \in Scrapers, Stored(w)
  PROVE  RatesIInv'
<1> DEFINE r == reading[w]
<1>1. /\ RatesValues /\ Storing(w) /\ UNCHANGED traffic
      /\ reading' = [reading EXCEPT ![w] = Resting]
      /\ sample' = [age |-> r.age, traffic |-> r.traffic, of |-> r.of]
  BY DEF RatesIInv, Stored, Storing
<1>2. /\ r.age \in 0..MaxDelay /\ r.traffic \in Counter /\ r.of \in Origin
  BY <1>1, ReadingTypes DEF RatesValues, Storing
<1>3. /\ reading' \in [Scrapers -> Reading] /\ Resting.pc = "idle"
      /\ reading'[w] = Resting /\ \A v \in Scrapers \ {w} : reading'[v] = reading[v]
  BY <1>1 DEF RatesValues, Reading, Resting
<1>4. sample' \in Sample
  BY <1>1, <1>2, RatesNumbers DEF Sample
<1>5. RatesValues'
  BY <1>1, <1>3, <1>4 DEF RatesValues
<1>6. ReadNotLongAgo' /\ DatesTell'
  BY <1>1, <1>3 DEF RatesIInv, ReadNotLongAgo, DatesTell, Answered, Storing
<1>7. sample'.age = r.age /\ sample'.traffic = r.traffic /\ sample'.of = r.of
  BY <1>1
<1>8. SampleNotLongAgo'
  BY <1>1, <1>7 DEF RatesIInv, ReadNotLongAgo, SampleNotLongAgo
<1>9. SampleTells'
  BY <1>1, <1>3, <1>7 DEF RatesIInv, DatesTell, SampleTells, Storing
<1> QED BY <1>5, <1>6, <1>8, <1>9 DEF RatesIInv

LEMMA RestartStep ==
  ASSUME RatesIInv, Restart
  PROVE  RatesIInv'
<1>1. /\ RatesValues /\ traffic' = 0 /\ sample' = sample
  BY DEF RatesIInv, Restart
<1>2. ASSUME NEW w \in Scrapers
      PROVE  /\ reading'[w] \in Reading
             /\ reading'[w].pc \in {"answer", "store"} =>
                  /\ reading'[w].of # "life" /\ reading'[w].age \in Nat
                  /\ reading'[w].traffic \in Nat
  <2>1. reading[w] \in Reading
    BY <1>1 DEF RatesValues
  <2>2. CASE reading[w].pc \in {"answer", "store"} /\ reading[w].of = "life"
    <3>1. reading'[w] = [reading[w] EXCEPT !.of = "past"]
      BY <2>2 DEF Restart
    <3>2. reading'[w] \in Reading
      BY <2>1, <2>2, <3>1 DEF Reading, Resting, Origin
    <3>3. reading'[w].of = "past"
      BY <2>1, <2>2, <3>1 DEF Reading, Resting
    <3>4. reading'[w].age \in Nat /\ reading'[w].traffic \in Nat
      BY <2>1, <2>2, <3>1, ReadingTypes, RatesNumbers DEF Reading, Resting, Counter
    <3> QED BY <3>2, <3>3, <3>4
  <2>3. CASE ~(reading[w].pc \in {"answer", "store"} /\ reading[w].of = "life")
    <3>1. reading'[w] = reading[w]
      BY <2>3 DEF Restart
    <3> QED BY <2>1, <2>3, <3>1, ReadingTypes, RatesNumbers DEF Counter
  <2> QED BY <2>2, <2>3
<1>3. RatesValues'
  BY <1>1, <1>2, RatesNumbers DEF RatesValues, Restart, Counter
<1>4. ReadNotLongAgo' /\ DatesTell' /\ SampleTells'
  BY <1>1, <1>2, RatesNumbers DEF ReadNotLongAgo, DatesTell, SampleTells, Answered, Storing
<1>5. SampleNotLongAgo'
  BY <1>1, SampleTypes, RatesNumbers DEF RatesIInv, SampleNotLongAgo, Counter
<1> QED BY <1>3, <1>4, <1>5 DEF RatesIInv

LEMMA RatesTickStep ==
  ASSUME RatesIInv, RatesTick
  PROVE  RatesIInv'
<1>1. RatesValues /\ traffic \in Counter /\ traffic' \in Counter /\ traffic' <= traffic + 1
      /\ traffic <= traffic'
  BY RatesNumbers DEF RatesIInv, RatesValues, RatesTick, Counter
<1>2. ASSUME NEW w \in Scrapers
      PROVE  /\ reading'[w] \in Reading
             /\ reading'[w].pc = reading[w].pc
             /\ Answered(w) \/ Storing(w) =>
                  /\ reading[w].age \in Nat /\ reading'[w].age = reading[w].age + 1
                  /\ reading'[w].traffic = reading[w].traffic
                  /\ reading[w].traffic \in Counter
                  /\ reading'[w].of = reading[w].of
             /\ Storing(w) => reading'[w].age <= MaxDelay
  <2>1. reading[w] \in Reading
    BY <1>1 DEF RatesValues
  <2>2. CASE reading[w] = Resting
    BY <2>1, <2>2 DEF RatesTick, Resting, Answered, Storing
  <2>3. CASE reading[w] # Resting
    <3>1. reading'[w] = [reading[w] EXCEPT !.age = @ + 1]
      BY <2>3 DEF RatesTick
    <3>2. /\ reading[w].pc \in {"ask", "answer"} => reading[w].age < Timeout
          /\ reading[w].pc = "store" => reading[w].age < MaxDelay
      BY DEF RatesTick
    <3>3. CASE reading[w].pc = "ask"
      BY <2>1, <3>1, <3>2, <3>3, RatesNumbers DEF Reading, Resting, Answered, Storing
    <3>4. CASE reading[w].pc = "answer"
      BY <2>1, <3>1, <3>2, <3>4, RatesNumbers DEF Reading, Resting, Answered, Storing
    <3>5. CASE reading[w].pc = "store"
      BY <2>1, <3>1, <3>2, <3>5, RatesNumbers DEF Reading, Resting, Answered, Storing
    <3> QED BY <2>1, <2>3, <3>3, <3>4, <3>5, ReadingTypes
  <2> QED BY <2>2, <2>3
<1>3. sample = None => sample' = None
  BY DEF RatesTick
<1>4. ASSUME sample # None
      PROVE  /\ sample' \in Sample /\ sample'.traffic = sample.traffic
             /\ sample'.of = sample.of
             /\ sample'.age = IF sample.age = OldAge THEN OldAge ELSE sample.age + 1
  <2>1. sample \in Sample /\ sample.age \in 0..OldAge
    BY <1>1, <1>4, SampleTypes
  <2>2. CASE sample.age = OldAge
    BY <1>4, <2>1, <2>2 DEF RatesTick
  <2>3. CASE sample.age # OldAge
    <3>1. sample' = [sample EXCEPT !.age = sample.age + 1]
      BY <1>4, <2>3 DEF RatesTick
    <3>2. sample.age + 1 \in 0..OldAge
      BY <2>1, <2>3, RatesNumbers
    <3> QED BY <2>1, <2>3, <3>1, <3>2 DEF Sample
  <2> QED BY <2>2, <2>3
<1>5. RatesValues'
  BY <1>1, <1>2, <1>3, <1>4 DEF RatesValues, RatesTick
<1>6. ReadNotLongAgo'
  BY <1>1, <1>2, RatesNumbers DEF RatesIInv, ReadNotLongAgo, Answered, Storing, Counter
<1>7. DatesTell'
  BY <1>1, <1>2, RatesNumbers DEF RatesIInv, DatesTell, Storing, Counter
<1>8. ASSUME sample # None
      PROVE  SampleNotLongAgo' /\ SampleTells'
  <2>1. sample.age \in 0..OldAge /\ sample.traffic \in Counter
    BY <1>1, <1>8, SampleTypes
  <2>2. CASE sample.age = OldAge
    BY <1>1, <1>2, <1>4, <1>8, <2>1, <2>2, RatesNumbers
    DEF SampleNotLongAgo, SampleTells, Storing, Counter
  <2>3. CASE sample.age # OldAge
    <3>1. sample'.age = sample.age + 1 /\ sample'.traffic = sample.traffic
          /\ sample'.of = sample.of
      BY <1>4, <1>8, <2>3
    <3>2. SampleNotLongAgo'
      BY <1>1, <1>8, <2>1, <3>1, RatesNumbers DEF RatesIInv, SampleNotLongAgo, Counter
    <3>3. SampleTells'
      BY <1>2, <1>8, <2>1, <3>1, RatesNumbers DEF RatesIInv, SampleTells, Storing, Counter
    <3> QED BY <3>2, <3>3
  <2> QED BY <2>2, <2>3
<1>9. SampleNotLongAgo' /\ SampleTells'
  BY <1>3, <1>8 DEF SampleNotLongAgo, SampleTells
<1> QED BY <1>5, <1>6, <1>7, <1>9 DEF RatesIInv

LEMMA RatesNextIInv == RatesIInv /\ [RatesNext]_ratesVars => RatesIInv'
<1> SUFFICES ASSUME RatesIInv, [RatesNext]_ratesVars PROVE RatesIInv'
  OBVIOUS
<1>1. CASE UNCHANGED ratesVars
  BY <1>1 DEF ratesVars, RatesIInv, RatesValues, ReadNotLongAgo, SampleNotLongAgo,
              DatesTell, SampleTells, Answered, Storing
<1>2. ASSUME NEW w \in Scrapers, \/ Ask(w) \/ Answer(w) \/ OtherAnswer(w) \/ AskFails(w)
                                 \/ Parsed(w) \/ Stored(w)
      PROVE  RatesIInv'
  BY <1>2, AskingStep, ParsedStep, StoredStep
<1> QED BY <1>1, <1>2, RestartStep, RatesTickStep DEF RatesNext

LEMMA RatesTell ==
  ASSUME RatesIInv, NEW w \in Scrapers, Storing(w)
  PROVE  /\ RateOf(w) \in Rate
         /\ Fair(reading[w], sample) => RateOf(w).growth <= RateOf(w).elapsed + Timeout
<1> DEFINE r == reading[w]
<1>1. RatesValues /\ r.age \in 0..MaxDelay /\ r.traffic \in Counter
  BY ReadingTypes DEF RatesIInv, RatesValues, Storing
<1>2. CASE RateOf(w) = NoRate
  <2>1. NoRate \in Rate /\ NoRate.growth <= NoRate.elapsed + Timeout
    BY RatesNumbers DEF NoRate, Rate, Counter
  <2> QED BY <1>2, <2>1
<1>3. CASE RateOf(w) # NoRate
  <2>1. sample # None
    BY <1>3 DEF RateOf, WithRates
  <2>2. sample.age \in 0..OldAge /\ sample.traffic \in Counter
    BY <1>1, <2>1, SampleTypes
  <2>3. /\ ~(sample.age <= r.age) /\ ~(r.traffic < sample.traffic)
        /\ RateOf(w) = [growth |-> r.traffic - sample.traffic, elapsed |-> sample.age - r.age]
    BY <1>3, <2>1 DEF RateOf, WithRates, CounterRate
  <2>4. r.traffic - sample.traffic \in Counter /\ sample.age - r.age \in 1..OldAge
    BY <1>1, <2>2, <2>3, RatesNumbers DEF Counter
  <2>5. RateOf(w) \in Rate
    BY <2>3, <2>4 DEF Rate
  <2>6. Fair(r, sample) => r.traffic + r.age <= sample.traffic + sample.age + Timeout
    BY <1>1, <2>1, <2>2, <2>3, RatesNumbers DEF RatesIInv, SampleTells, Fair
  <2>7. Fair(r, sample) => r.traffic - sample.traffic <= sample.age - r.age + Timeout
    BY <1>1, <2>2, <2>6, RatesNumbers DEF Counter
  <2> QED BY <2>3, <2>5, <2>7
<1> QED BY <1>2, <1>3

(* Counters, readings and samples stay in their ranges; no rate is over no *)
(* or negative time, or negative itself.                                   *)
THEOREM RatesTypeCorrect == RatesSpec => []RatesTypeOK
<1>1. RatesIInv => RatesTypeOK
  BY RatesTell DEF RatesIInv, RatesValues, RatesTypeOK, Storing
<1> QED BY RatesInitIInv, RatesNextIInv, <1>1, PTL DEF RatesSpec

(* However the scrapes of a target overlap, whenever its server starts     *)
(* anew and whatever is read of other servers in between: a rate that      *)
(* compares a counter with itself is never more than the server can have   *)
(* carried.                                                                *)
THEOREM RatesOfOneCounterArePlausible == RatesSpec => []RatesStayPlausible
<1>1. RatesIInv => RatesStayPlausible
  BY RatesTell DEF RatesStayPlausible, Storing
<1> QED BY RatesInitIInv, RatesNextIInv, <1>1, PTL DEF RatesSpec

-----------------------------------------------------------------------------
(* MetricsText: what the parser has gathered, field by field *)

Gathered ==
  [seen : BOOLEAN, clients : Nat, byType : Nat, detailed : Nat, set : SUBSET Totals,
   total : [Totals -> Nat], proxies : SUBSET Labels, proxy : [Labels -> [Totals -> Nat]]]

MetricsTypeOK ==
  /\ metrics \in Seq(Metric)
  /\ acc \in Gathered

SeenTells == acc.seen <=> \E i \in 1..Len(metrics) : metrics[i].name \notin {"", "foreign"}

TotalsTell ==
  \A t \in Totals :
    /\ t \in acc.set <=> LinesOf(t, NoLabels) # {}
    /\ acc.total[t] = LastOf(t, NoLabels)

ProxiesTell ==
  /\ acc.proxies = Listed
  /\ \A l \in Labels, t \in Totals : acc.proxy[l][t] = Carried(t, l)

\* Of the lines with a metric and labels one is the last.
LastLineIs ==
  \A name, labels : LinesOf(name, labels) # {} =>
    \E i \in LinesOf(name, labels) : \A j \in LinesOf(name, labels) : j <= i

MetricsIInv == MetricsTypeOK /\ SeenTells /\ TotalsTell /\ ProxiesTell /\ LastLineIs

-----------------------------------------------------------------------------
LEMMA LabelsOfNone == NoLabels \in Labels /\ \A l \in Labels : HasProxyLabels(l) <=> l # NoLabels
<1>1. NoLabels \in Labels
  BY DEF NoLabels, Labels
<1>2. ASSUME NEW l \in Labels PROVE HasProxyLabels(l) <=> l # NoLabels
  <2>1. l = [name |-> l.name, type |-> l.type]
    BY DEF Labels
  <2>2. l.name = "" /\ l.type = "" => l = NoLabels
    BY <2>1 DEF NoLabels
  <2>3. NoLabels.name = "" /\ NoLabels.type = ""
    BY DEF NoLabels
  <2> QED BY <2>2, <2>3 DEF HasProxyLabels
<1> QED BY <1>1, <1>2

LEMMA LineTypes ==
  ASSUME NEW line \in Metric
  PROVE  line.labels \in Labels /\ line.value \in Nat
<1>1. line.labels \in Labels
  BY LabelsOfNone DEF Metric
<1>2. line.value \in Values \cup {0}
  BY DEF Metric
<1>3. Values \cup {0} \subseteq Nat
  BY MetricsAssumption
<1> QED BY <1>1, <1>2, <1>3

LEMMA MetricsInitIInv == MetricsInit => MetricsIInv
<1> SUFFICES ASSUME MetricsInit PROVE MetricsIInv
  OBVIOUS
<1>1. metrics = <<>> /\ acc = NoSample
  BY DEF MetricsInit
<1>2. Len(metrics) = 0 /\ \A name, labels : LinesOf(name, labels) = {}
  BY <1>1 DEF LinesOf
<1>3. Listed = {}
  BY <1>2 DEF Listed
<1>4. \A name, labels : LastOf(name, labels) = 0
  BY <1>2 DEF LastOf
<1>5. /\ acc.seen = FALSE /\ acc.set = {} /\ acc.proxies = {}
      /\ acc.total = [t \in Totals |-> 0]
      /\ acc.proxy = [l \in Labels |-> [t \in Totals |-> 0]]
  BY <1>1 DEF NoSample
<1>6. MetricsTypeOK
  BY <1>1, LabelsOfNone DEF MetricsTypeOK, NoSample, Gathered
<1>7. SeenTells /\ TotalsTell /\ ProxiesTell /\ LastLineIs
  BY <1>2, <1>3, <1>4, <1>5 DEF SeenTells, TotalsTell, ProxiesTell, LastLineIs, Carried
<1> QED BY <1>6, <1>7 DEF MetricsIInv

-----------------------------------------------------------------------------
\* What one more line does to what was gathered.
OfProxy(line)  == line.name \in Totals /\ HasProxyLabels(line.labels)
OfServer(line) == line.name \in Totals /\ ~HasProxyLabels(line.labels)
Mentions(line) == OfProxy(line) \/ line.name = "proxy_counts_detailed"

LEMMA ReadFields ==
  ASSUME NEW a \in Gathered, NEW line \in Metric, NEW r, r = ReadMetric(a, line)
  PROVE  /\ r \in Gathered
         /\ r.seen = (a.seen \/ line.name \notin {"", "foreign"})
         /\ r.set = IF OfServer(line) THEN a.set \cup {line.name} ELSE a.set
         /\ r.total = IF OfServer(line) THEN [a.total EXCEPT ![line.name] = line.value]
                      ELSE a.total
         /\ r.proxies = IF Mentions(line) THEN a.proxies \cup {line.labels} ELSE a.proxies
         /\ r.proxy = IF OfProxy(line)
                      THEN [a.proxy EXCEPT ![line.labels][line.name] = line.value] ELSE a.proxy
<1> DEFINE b == [a EXCEPT !.seen = @ \/ line.name \notin {"", "foreign"}]
<1>1. line.labels \in Labels /\ line.value \in Nat
  BY LineTypes
<1>2. /\ b \in Gathered /\ b.seen = (a.seen \/ line.name \notin {"", "foreign"})
      /\ b.set = a.set /\ b.total = a.total /\ b.proxies = a.proxies /\ b.proxy = a.proxy
  BY DEF Gathered
<1> HIDE DEF b
<1>3. r = CASE OfProxy(line) ->
                 [b EXCEPT !.proxies = @ \cup {line.labels},
                           !.proxy[line.labels][line.name] = line.value]
            [] OfServer(line) -> SetTotal(b, line.name, line.value)
            [] line.name = "proxy_counts" /\ line.labels.name = "" ->
                 [b EXCEPT !.byType = @ + line.value]
            [] line.name = "proxy_counts_detailed" ->
                 [b EXCEPT !.proxies = @ \cup {line.labels},
                           !.detailed = @ + IF line.value > 0 THEN 1 ELSE 0]
            [] line.name = "client_counts" -> [b EXCEPT !.clients = line.value]
            [] OTHER -> b
  BY DEF ReadMetric, OfProxy, OfServer, b
<1>4. CASE OfProxy(line)
  <2>1. ~OfServer(line) /\ Mentions(line)
        /\ line.name \notin {"proxy_counts", "proxy_counts_detailed", "client_counts"}
    BY <1>4, MetricsAssumption DEF OfProxy, OfServer, Mentions
  <2>2. r = [b EXCEPT !.proxies = @ \cup {line.labels},
                      !.proxy[line.labels][line.name] = line.value]
    BY <1>3, <1>4, <2>1
  <2>3. /\ r.seen = b.seen /\ r.set = b.set /\ r.total = b.total
        /\ r.proxies = b.proxies \cup {line.labels}
        /\ r.proxy = [b.proxy EXCEPT ![line.labels][line.name] = line.value]
        /\ r.clients = b.clients /\ r.byType = b.byType /\ r.detailed = b.detailed
    BY <1>2, <2>2 DEF Gathered
  <2>4. r.proxy \in [Labels -> [Totals -> Nat]]
    <3>1. b.proxy \in [Labels -> [Totals -> Nat]]
      BY <1>2 DEF Gathered
    <3>2. b.proxy[line.labels] \in [Totals -> Nat]
      BY <1>1, <3>1
    <3>3. [b.proxy[line.labels] EXCEPT ![line.name] = line.value] \in [Totals -> Nat]
      BY <1>1, <3>2
    <3> QED BY <1>1, <2>3, <3>1, <3>3
  <2>5. r \in Gathered
    BY <1>1, <1>2, <2>2, <2>3, <2>4 DEF Gathered
  <2> QED BY <1>2, <1>4, <2>1, <2>3, <2>5
<1>5. CASE OfServer(line)
  <2>1. ~OfProxy(line) /\ ~Mentions(line)
        /\ line.name \notin {"proxy_counts", "proxy_counts_detailed", "client_counts"}
    BY <1>5, MetricsAssumption DEF OfProxy, OfServer, Mentions
  <2>2. r = [b EXCEPT !.set = @ \cup {line.name}, !.total[line.name] = line.value]
    BY <1>3, <1>5, <2>1 DEF SetTotal
  <2>3. /\ r.seen = b.seen /\ r.set = b.set \cup {line.name}
        /\ r.total = [b.total EXCEPT ![line.name] = line.value]
        /\ r.proxies = b.proxies /\ r.proxy = b.proxy
    BY <1>2, <2>2 DEF Gathered
  <2>4. r \in Gathered
    <3>1. b.set \in SUBSET Totals /\ b.total \in [Totals -> Nat] /\ line.name \in Totals
      BY <1>2, <1>5 DEF Gathered, OfServer
    <3>2. b.set \cup {line.name} \in SUBSET Totals
      BY <3>1
    <3>3. [b.total EXCEPT ![line.name] = line.value] \in [Totals -> Nat]
      BY <1>1, <3>1
    <3> QED BY <1>2, <2>2, <3>2, <3>3 DEF Gathered
  <2> QED BY <1>2, <1>5, <2>1, <2>3, <2>4
<1>6. CASE line.name = "proxy_counts_detailed"
  <2>1. ~OfProxy(line) /\ ~OfServer(line) /\ Mentions(line)
    BY <1>6, MetricsAssumption DEF OfProxy, OfServer, Mentions
  <2>2. r = [b EXCEPT !.proxies = @ \cup {line.labels},
                      !.detailed = @ + IF line.value > 0 THEN 1 ELSE 0]
    BY <1>3, <1>6, <2>1
  <2>3. /\ r.seen = b.seen /\ r.set = b.set /\ r.total = b.total /\ r.proxy = b.proxy
        /\ r.proxies = b.proxies \cup {line.labels}
    BY <1>2, <2>2 DEF Gathered
  <2>4. b.detailed + (IF line.value > 0 THEN 1 ELSE 0) \in Nat
    <3>1. b.detailed \in Nat
      BY <1>2 DEF Gathered
    <3> QED BY <3>1
  <2>5. r \in Gathered
    <3>1. b.proxies \cup {line.labels} \in SUBSET Labels
      BY <1>1, <1>2 DEF Gathered
    <3> QED BY <1>2, <2>2, <2>4, <3>1 DEF Gathered
  <2> QED BY <1>2, <2>1, <2>3, <2>5
<1>7. CASE ~OfProxy(line) /\ ~OfServer(line) /\ line.name # "proxy_counts_detailed"
  <2>1. ~Mentions(line)
    BY <1>7 DEF Mentions
  <2>2. \/ r = [b EXCEPT !.byType = @ + line.value]
        \/ r = [b EXCEPT !.clients = line.value]
        \/ r = b
    BY <1>3, <1>7
  <2>3. /\ r.seen = b.seen /\ r.set = b.set /\ r.total = b.total /\ r.proxy = b.proxy
        /\ r.proxies = b.proxies
    BY <1>2, <2>2 DEF Gathered
  <2>4. b.byType + line.value \in Nat
    <3>1. b.byType \in Nat
      BY <1>2 DEF Gathered
    <3> QED BY <1>1, <3>1
  <2>5. r \in Gathered
    BY <1>1, <1>2, <2>2, <2>4 DEF Gathered
  <2> QED BY <1>2, <1>7, <2>1, <2>3, <2>5
<1> QED BY <1>4, <1>5, <1>6, <1>7

\* What one more line does to the lines of a metric, and to the last of them.
LEMMA ReadLines ==
  ASSUME MetricsIInv, NEW line \in Metric, metrics' = Append(metrics, line)
  PROVE  /\ metrics' \in Seq(Metric)
         /\ \A name, labels :
              /\ (LinesOf(name, labels)' # {}) <=>
                   \/ LinesOf(name, labels) # {}
                   \/ line.name = name /\ line.labels = labels
              /\ LastOf(name, labels)' =
                   IF line.name = name /\ line.labels = labels THEN line.value
                   ELSE LastOf(name, labels)
         /\ LastLineIs'
         /\ (\E i \in 1..Len(metrics) : metrics[i].name \notin {"", "foreign"})' <=>
              \/ \E i \in 1..Len(metrics) : metrics[i].name \notin {"", "foreign"}
              \/ line.name \notin {"", "foreign"}
<1> DEFINE n == Len(metrics) + 1
<1>1. /\ Len(metrics) \in Nat /\ metrics' \in Seq(Metric) /\ Len(metrics') = n
      /\ \A i \in 1..Len(metrics) : metrics'[i] = metrics[i]
      /\ metrics'[n] = line
  BY DEF MetricsIInv, MetricsTypeOK
<1>2. 1..Len(metrics') = (1..Len(metrics)) \cup {n}
  BY <1>1
<1>3. ASSUME NEW name, NEW labels, line.name = name, line.labels = labels
      PROVE  /\ n \in LinesOf(name, labels)' /\ \A j \in LinesOf(name, labels)' : j <= n
             /\ LastOf(name, labels)' = line.value
  <2>1. n \in LinesOf(name, labels)' /\ \A j \in LinesOf(name, labels)' : j <= n
    BY <1>1, <1>2, <1>3 DEF LinesOf
  <2>2. \A j \in LinesOf(name, labels)' : j \in Nat
    BY <1>1 DEF LinesOf
  <2> DEFINE last == CHOOSE i \in LinesOf(name, labels)' : \A j \in LinesOf(name, labels)' : j <= i
  <2>3. last \in LinesOf(name, labels)' /\ \A j \in LinesOf(name, labels)' : j <= last
    BY <2>1
  <2>4. last = n
    BY <1>1, <2>1, <2>2, <2>3
  <2> QED BY <1>1, <2>1, <2>4 DEF LastOf
<1>4. ASSUME NEW name, NEW labels, ~(line.name = name /\ line.labels = labels)
      PROVE  /\ LinesOf(name, labels)' = LinesOf(name, labels)
             /\ LastOf(name, labels)' = LastOf(name, labels)
  <2>1. LinesOf(name, labels)' = LinesOf(name, labels)
    BY <1>1, <1>2, <1>4 DEF LinesOf
  <2>2. CASE LinesOf(name, labels) = {}
    BY <2>1, <2>2 DEF LastOf
  <2>3. CASE LinesOf(name, labels) # {}
    <3> DEFINE last == CHOOSE i \in LinesOf(name, labels) : \A j \in LinesOf(name, labels) : j <= i
    <3>1. last \in LinesOf(name, labels)
      BY <2>3 DEF MetricsIInv, LastLineIs
    <3>2. metrics'[last] = metrics[last]
      BY <1>1, <3>1 DEF LinesOf
    <3> QED BY <2>1, <2>3, <3>2 DEF LastOf
  <2> QED BY <2>1, <2>2, <2>3
<1>5. LastLineIs'
  <2> SUFFICES ASSUME NEW name, NEW labels, LinesOf(name, labels)' # {}
               PROVE  \E i \in LinesOf(name, labels)' : \A j \in LinesOf(name, labels)' : j <= i
    BY DEF LastLineIs
  <2>1. CASE line.name = name /\ line.labels = labels
    BY <1>3, <2>1
  <2>2. CASE ~(line.name = name /\ line.labels = labels)
    BY <1>4, <2>2 DEF MetricsIInv, LastLineIs
  <2> QED BY <2>1, <2>2
<1>6. (\E i \in 1..Len(metrics) : metrics[i].name \notin {"", "foreign"})' <=>
        \/ \E i \in 1..Len(metrics) : metrics[i].name \notin {"", "foreign"}
        \/ line.name \notin {"", "foreign"}
  BY <1>1, <1>2
<1>7. ASSUME NEW name, NEW labels
      PROVE  /\ (LinesOf(name, labels)' # {}) <=>
                   \/ LinesOf(name, labels) # {}
                   \/ line.name = name /\ line.labels = labels
             /\ LastOf(name, labels)' =
                   IF line.name = name /\ line.labels = labels THEN line.value
                   ELSE LastOf(name, labels)
  BY <1>3, <1>4
<1> QED BY <1>1, <1>5, <1>6, <1>7

LEMMA ReadLineStep ==
  ASSUME MetricsIInv, NEW line \in Metric,
         metrics' = Append(metrics, line), acc' = ReadMetric(acc, line)
  PROVE  MetricsIInv'
<1>1. line.labels \in Labels /\ line.value \in Nat /\ acc \in Gathered
  BY LineTypes DEF MetricsIInv, MetricsTypeOK
<1>2. /\ acc' \in Gathered
      /\ acc'.seen = (acc.seen \/ line.name \notin {"", "foreign"})
      /\ acc'.set = IF OfServer(line) THEN acc.set \cup {line.name} ELSE acc.set
      /\ acc'.total = IF OfServer(line) THEN [acc.total EXCEPT ![line.name] = line.value]
                      ELSE acc.total
      /\ acc'.proxies = IF Mentions(line) THEN acc.proxies \cup {line.labels} ELSE acc.proxies
      /\ acc'.proxy = IF OfProxy(line)
                      THEN [acc.proxy EXCEPT ![line.labels][line.name] = line.value]
                      ELSE acc.proxy
  BY <1>1, ReadFields
<1>3. MetricsTypeOK'
  BY <1>2, ReadLines DEF MetricsTypeOK
<1>4. SeenTells'
  BY <1>2, ReadLines DEF MetricsIInv, SeenTells
<1>5. OfServer(line) <=> line.name \in Totals /\ line.labels = NoLabels
  BY <1>1, LabelsOfNone DEF OfServer
<1>6. OfProxy(line) <=> line.name \in Totals /\ line.labels # NoLabels
  BY <1>1, LabelsOfNone DEF OfProxy
<1>7. TotalsTell'
  <2> SUFFICES ASSUME NEW t \in Totals
               PROVE  /\ t \in acc'.set <=> LinesOf(t, NoLabels)' # {}
                      /\ acc'.total[t] = LastOf(t, NoLabels)'
    BY DEF TotalsTell
  <2>1. /\ t \in acc.set <=> LinesOf(t, NoLabels) # {}
        /\ acc.total[t] = LastOf(t, NoLabels)
    BY DEF MetricsIInv, TotalsTell
  <2>2. acc.total \in [Totals -> Nat]
    BY <1>1 DEF Gathered
  <2>3. CASE line.name = t /\ line.labels = NoLabels
    BY <1>2, <1>5, <2>2, <2>3, ReadLines
  <2>4. CASE ~(line.name = t /\ line.labels = NoLabels)
    <3>1. t \in acc'.set <=> t \in acc.set
      BY <1>2, <1>5, <2>4
    <3>2. acc'.total[t] = acc.total[t]
      BY <1>2, <1>5, <2>2, <2>4
    <3>3. /\ LinesOf(t, NoLabels)' # {} <=> LinesOf(t, NoLabels) # {}
          /\ LastOf(t, NoLabels)' = LastOf(t, NoLabels)
      BY <2>4, ReadLines
    <3> QED BY <2>1, <3>1, <3>2, <3>3
  <2> QED BY <2>3, <2>4
<1>8. ASSUME NEW l \in Labels, NEW t \in Totals
      PROVE  acc'.proxy[l][t] = Carried(t, l)'
  <2>1. acc.proxy[l][t] = Carried(t, l) /\ acc.proxy \in [Labels -> [Totals -> Nat]]
    BY <1>1 DEF MetricsIInv, ProxiesTell, Gathered
  <2>2. CASE OfProxy(line) /\ line.name = t /\ line.labels = l
    <3>1. acc'.proxy = [acc.proxy EXCEPT ![l][t] = line.value]
      BY <1>2, <2>2
    <3>2. acc'.proxy[l][t] = line.value
      BY <2>1, <3>1
    <3>3. l # NoLabels
      BY <1>6, <2>2
    <3>4. LastOf(t, l)' = line.value
      BY <2>2, ReadLines
    <3> QED BY <3>2, <3>3, <3>4 DEF Carried
  <2>3. CASE ~(OfProxy(line) /\ line.name = t /\ line.labels = l)
    <3>1. acc'.proxy[l][t] = acc.proxy[l][t]
      <4>1. CASE OfProxy(line)
        <5>1. acc'.proxy = [acc.proxy EXCEPT ![line.labels][line.name] = line.value]
          BY <1>2, <4>1
        <5>2. ~(line.name = t /\ line.labels = l)
          BY <2>3, <4>1
        <5> QED BY <2>1, <5>1, <5>2
      <4>2. CASE ~OfProxy(line)
        BY <1>2, <4>2
      <4> QED BY <4>1, <4>2
    <3>2. l # NoLabels => ~(line.name = t /\ line.labels = l)
      BY <1>6, <2>3
    <3>3. Carried(t, l)' = Carried(t, l)
      BY <3>2, ReadLines DEF Carried
    <3> QED BY <2>1, <3>1, <3>3
  <2> QED BY <2>2, <2>3
<1>9. acc'.proxies = Listed'
  <2>1. acc.proxies = Listed
    BY DEF MetricsIInv, ProxiesTell
  <2>2. Listed' = IF Mentions(line) THEN Listed \cup {line.labels} ELSE Listed
    <3> SUFFICES ASSUME NEW l \in Labels
                 PROVE  l \in Listed' <=> (l \in Listed \/ (Mentions(line) /\ l = line.labels))
      <4>1. Listed' \subseteq Labels /\ Listed \subseteq Labels
        BY DEF Listed
      <4> QED BY <1>1, <4>1
    <3>1. LinesOf("proxy_counts_detailed", l)' # {} <=>
            \/ LinesOf("proxy_counts_detailed", l) # {}
            \/ line.name = "proxy_counts_detailed" /\ line.labels = l
      BY ReadLines
    <3>2. (\E t \in Totals : LinesOf(t, l)' # {}) <=>
            \/ \E t \in Totals : LinesOf(t, l) # {}
            \/ line.name \in Totals /\ line.labels = l
      BY ReadLines
    <3> QED BY <1>6, <3>1, <3>2 DEF Listed, Mentions
  <2> QED BY <1>2, <2>1, <2>2
<1>10. ProxiesTell'
  BY <1>8, <1>9 DEF ProxiesTell
<1> QED BY <1>3, <1>4, <1>7, <1>10, ReadLines DEF MetricsIInv

LEMMA MetricsNextIInv == MetricsIInv /\ [MetricsNext]_metricsVars => MetricsIInv'
<1> SUFFICES ASSUME MetricsIInv, [MetricsNext]_metricsVars PROVE MetricsIInv'
  OBVIOUS
<1>1. CASE UNCHANGED metricsVars
  <2>1. metrics' = metrics /\ acc' = acc
    BY <1>1 DEF metricsVars
  <2>2. \A name, labels : LinesOf(name, labels)' = LinesOf(name, labels)
    BY <2>1 DEF LinesOf
  <2>3. \A name, labels : LastOf(name, labels)' = LastOf(name, labels)
    BY <2>1 DEF LastOf, LinesOf
  <2>4. Listed' = Listed /\ \A t, l : Carried(t, l)' = Carried(t, l)
    BY <2>2, <2>3 DEF Listed, Carried
  <2>5. MetricsTypeOK' /\ SeenTells' /\ LastLineIs'
    BY <2>1, <2>2 DEF MetricsIInv, MetricsTypeOK, SeenTells, LastLineIs
  <2>6. TotalsTell' /\ ProxiesTell'
    BY <2>1, <2>2, <2>3, <2>4 DEF MetricsIInv, TotalsTell, ProxiesTell
  <2> QED BY <2>5, <2>6 DEF MetricsIInv
<1>2. CASE ReadLine
  BY <1>2, ReadLineStep DEF ReadLine
<1> QED BY <1>1, <1>2 DEF MetricsNext

LEMMA WhatIsGathered == MetricsIInv => MetricsAreRead
<1> SUFFICES ASSUME MetricsIInv PROVE MetricsAreRead
  OBVIOUS
<1>1. /\ Sampled.ok = acc.seen /\ Sampled.proxies = acc.proxies /\ Sampled.proxy = acc.proxy
      /\ Sampled.total = [t \in Totals |->
           IF t \in acc.set THEN acc.total[t]
           ELSE SumFrom(acc.total[t], [l \in acc.proxies |-> acc.proxy[l][t]])]
  BY DEF Sampled
<1>2. Listed \subseteq Labels /\ acc.proxies = Listed
  BY DEF Listed, MetricsIInv, ProxiesTell
<1>3. \A l \in Listed, t \in Totals : acc.proxy[l][t] = Carried(t, l)
  BY <1>2 DEF MetricsIInv, ProxiesTell
<1>4. ASSUME NEW t \in Totals
      PROVE  Sampled.total[t] = IF LinesOf(t, NoLabels) # {} THEN LastOf(t, NoLabels)
                                ELSE SumFrom(0, [l \in Listed |-> Carried(t, l)])
  <2>1. /\ t \in acc.set <=> LinesOf(t, NoLabels) # {}
        /\ acc.total[t] = LastOf(t, NoLabels)
    BY DEF MetricsIInv, TotalsTell
  <2>2. LinesOf(t, NoLabels) = {} => acc.total[t] = 0
    BY <2>1 DEF LastOf
  <2>3. [l \in acc.proxies |-> acc.proxy[l][t]] = [l \in Listed |-> Carried(t, l)]
    BY <1>2, <1>3
  <2> QED BY <1>1, <2>1, <2>2, <2>3
<1>5. Sampled.ok <=> \E i \in 1..Len(metrics) : metrics[i].name \notin {"", "foreign"}
  BY <1>1 DEF MetricsIInv, SeenTells
<1>6. \A l \in Listed, t \in Totals : Sampled.proxy[l][t] = Carried(t, l)
  BY <1>1, <1>3
<1>7. Sampled.proxies = Listed
  BY <1>1, <1>2
<1> QED BY <1>4, <1>5, <1>6, <1>7 DEF MetricsAreRead

(* For any answer, of any length: what the parser makes of it is what the  *)
(* server and its proxies say last in it, and nothing is counted twice.    *)
THEOREM AnswersAreReadRight == MetricsSpec => []MetricsAreRead
BY MetricsInitIInv, MetricsNextIInv, WhatIsGathered, PTL DEF MetricsSpec
=============================================================================
