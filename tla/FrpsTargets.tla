----------------------------- MODULE FrpsTargets -----------------------------
(***************************************************************************)
(* The frps servers the panel watches: the API calls that edit the list of *)
(* targets (src/internal/app/service.go), the monitor that scrapes them in *)
(* the background (src/internal/app/frps_monitor.go) and the two settings  *)
(* they share, frps_targets and frps_history.                              *)
(*                                                                         *)
(* An edit is load, change, save, with no lock over the three; the monitor *)
(* is a loop that loads the list and starts a goroutine for each scrape; a *)
(* scrape that succeeds saves the history of all targets.  The settings    *)
(* are those in memory: a save that fails keeps its change there (modules  *)
(* StateFile and Auth say what becomes of the file).  A restart is an      *)
(* initial state: StartFrpsMonitor loads the history, then Run begins.     *)
(*                                                                         *)
(* The history of a target is the number of points it has ever held; the   *)
(* list in the code keeps the newest frpsHistoryLimit of them.  Of a state *)
(* of the monitor only that history is kept, not the status and the sample *)
(* shown on the page.                                                      *)
(***************************************************************************)
EXTENDS Naturals, FiniteSets

CONSTANTS
  Ids,        \* target identifiers (random in the code, never used twice)
  Passwords,  \* passwords of the dashboards
  Blank,      \* an edit that leaves the password empty
  Handlers,   \* goroutines serving the API
  Scrapers,   \* goroutines scraping; their number is a bound for TLC
  MaxPoints,  \* bound on the points of a history, for TLC
  None        \* no such target, no such state

Config  == [password : Passwords, enabled : BOOLEAN]
Listing == [Ids -> Config \cup {None}]
History == [Ids -> Nat]                     \* 0: no entry
Due     == [id : Ids, enabled : BOOLEAN]    \* a target as the loop loaded it

ASSUME NoneAssumption ==
  None \notin Config /\ None \notin Nat /\ None \notin Ids /\ Blank \notin Passwords /\ MaxPoints \in Nat

VARIABLES
  targets,   \* the setting frps_targets
  saved,     \* the setting frps_history
  states,    \* FrpsMonitor.states: the points of each state's history
  refresh,   \* the channel FrpsMonitor.refresh holds a token
  loop,      \* FrpsMonitor.Run
  scrape,    \* the scrapeOne goroutines
  api,       \* the API calls
  used,      \* history: identifiers given out so far
  dropped,   \* history: targets that were in the list once and then not
  waiting,   \* history: callers whose RefreshNow no forced load has followed
  removed    \* history: targets whose DeleteFrpsTarget has returned

vars == <<targets, saved, states, refresh, loop, scrape, api, used, dropped, waiting, removed>>
history == <<used, dropped, waiting, removed>>

NoList == [i \in Ids |-> None]
NoHistory == [i \in Ids |-> 0]
IdleLoop == [pc |-> "select", force |-> FALSE, todo |-> {}]
IdleScrape == [pc |-> "idle", id |-> None, hist |-> NoHistory]
IdleCall == [pc |-> "idle", op |-> "none", id |-> None, list |-> NoList, hist |-> NoHistory]

TypeOK ==
  /\ targets \in Listing /\ saved \in History
  /\ states \in [Ids -> Nat \cup {None}]
  /\ refresh \in BOOLEAN
  /\ loop \in [pc : {"select", "load", "spawn"}, force : BOOLEAN, todo : SUBSET Due]
  /\ scrape \in [Scrapers -> [pc : {"idle", "begin", "fetch", "persist", "known", "write"},
                              id : Ids \cup {None}, hist : History]]
  /\ api \in [Handlers -> [pc : {"idle", "save", "refresh", "remove",
                                 "histLoad", "histKnown", "histWrite"},
                           op : {"none", "edit", "delete"}, id : Ids \cup {None},
                           list : Listing, hist : History]]
  /\ \A w \in Scrapers : scrape[w].pc # "idle" => scrape[w].id \in Ids
  /\ \A h \in Handlers : api[h].pc # "idle" => api[h].id \in Ids
  /\ used \in SUBSET Ids /\ dropped \in SUBSET Ids /\ removed \in SUBSET Ids
  /\ waiting \in SUBSET Handlers

Init ==
  /\ targets \in Listing
  /\ used = {i \in Ids : targets[i] # None}
  /\ saved \in [Ids -> 0..1] /\ \A i \in Ids \ used : saved[i] = 0
  /\ states = [i \in Ids |-> IF saved[i] > 0 THEN saved[i] ELSE None]
  /\ refresh = FALSE
  /\ loop = [IdleLoop EXCEPT !.pc = "load", !.force = TRUE]
  /\ scrape = [w \in Scrapers |-> IdleScrape]
  /\ api = [h \in Handlers |-> IdleCall]
  /\ dropped = {} /\ waiting = {} /\ removed = {}

-----------------------------------------------------------------------------
(* Monitor states *)

\* ensureStateLocked: a state is made for whatever target is asked for.
Ensured(i) == IF states[i] = None THEN 0 ELSE states[i]

SetState(i, points) == states' = [states EXCEPT ![i] = points]

\* historySnapshotLocked
Snapshot == [i \in Ids |-> Ensured(i)]

\* saveFrpsHistory drops what is not in the list it loads.
KnownOnly(hist) == [i \in Ids |-> IF targets[i] = None THEN 0 ELSE hist[i]]

-----------------------------------------------------------------------------
(* Run *)

LoopTick ==
  /\ loop.pc = "select"
  /\ loop' = [loop EXCEPT !.pc = "load", !.force = FALSE]
  /\ UNCHANGED <<targets, saved, states, refresh, scrape, api, history>>

Mutant_RefreshNotForced ==
  /\ loop.pc = "select" /\ refresh
  /\ refresh' = FALSE
  /\ loop' = [loop EXCEPT !.pc = "load", !.force = FALSE]
  /\ UNCHANGED <<targets, saved, states, scrape, api, history>>
LoopRefresh ==
  /\ loop.pc = "select" /\ refresh
  /\ refresh' = FALSE
  /\ loop' = [loop EXCEPT !.pc = "load", !.force = TRUE]
  /\ UNCHANGED <<targets, saved, states, scrape, api, history>>

\* scrapeDue loads the list; todo are the targets not yet looked at.
Listed == {[id |-> i, enabled |-> targets[i].enabled] : i \in {j \in Ids : targets[j] # None}}

Mutant_LoadDrainsToken ==
  /\ loop.pc = "load"
  /\ loop' = [loop EXCEPT !.pc = "spawn", !.todo = Listed]
  /\ refresh' = FALSE
  /\ waiting' = IF loop.force THEN {} ELSE waiting
  /\ UNCHANGED <<targets, saved, states, scrape, api, used, dropped, removed>>
LoopLoad ==
  /\ loop.pc = "load"
  /\ loop' = [loop EXCEPT !.pc = "spawn", !.todo = Listed]
  /\ waiting' = IF loop.force THEN {} ELSE waiting
  /\ UNCHANGED <<targets, saved, states, refresh, scrape, api, used, dropped, removed>>

\* markDisabled
LoopDisabled(t) ==
  /\ loop.pc = "spawn" /\ t \in loop.todo /\ ~t.enabled
  /\ SetState(t.id, Ensured(t.id))
  /\ loop' = [loop EXCEPT !.todo = @ \ {t}]
  /\ UNCHANGED <<targets, saved, refresh, scrape, api, history>>

\* shouldScrape: without force, a target that was attempted lately waits.
LoopSkip(t) ==
  /\ loop.pc = "spawn" /\ t \in loop.todo /\ t.enabled
  /\ ~loop.force /\ states[t.id] # None
  /\ loop' = [loop EXCEPT !.todo = @ \ {t}]
  /\ UNCHANGED <<targets, saved, states, refresh, scrape, api, history>>

LoopSpawn(t, w) ==
  /\ loop.pc = "spawn" /\ t \in loop.todo /\ t.enabled
  /\ scrape[w].pc = "idle"
  /\ scrape' = [scrape EXCEPT ![w] = [pc |-> "begin", id |-> t.id, hist |-> NoHistory]]
  /\ loop' = [loop EXCEPT !.todo = @ \ {t}]
  /\ UNCHANGED <<targets, saved, states, refresh, api, history>>

LoopDone ==
  /\ loop.pc = "spawn" /\ loop.todo = {}
  /\ loop' = IdleLoop
  /\ UNCHANGED <<targets, saved, states, refresh, scrape, api, history>>

-----------------------------------------------------------------------------
(* scrapeOne *)

ScrapeBegin(w) ==
  /\ scrape[w].pc = "begin"
  /\ SetState(scrape[w].id, Ensured(scrape[w].id))
  /\ scrape' = [scrape EXCEPT ![w].pc = "fetch"]
  /\ UNCHANGED <<targets, saved, refresh, loop, api, history>>

\* Timeout, refusal or unreadable metrics: markError.
ScrapeFails(w) ==
  /\ scrape[w].pc = "fetch"
  /\ SetState(scrape[w].id, Ensured(scrape[w].id))
  /\ scrape' = [scrape EXCEPT ![w] = IdleScrape]
  /\ UNCHANGED <<targets, saved, refresh, loop, api, history>>

\* storeSample
ScrapeStores(w) ==
  /\ scrape[w].pc = "fetch"
  /\ Ensured(scrape[w].id) < MaxPoints
  /\ SetState(scrape[w].id, Ensured(scrape[w].id) + 1)
  /\ scrape' = [scrape EXCEPT ![w].pc = "persist"]
  /\ UNCHANGED <<targets, saved, refresh, loop, api, history>>

\* persistHistory takes saveMu, then the snapshot; it holds saveMu to its end.
Saving(w) == scrape[w].pc \in {"known", "write"}

SaverAt(w, step, hist) ==
  scrape' = [scrape EXCEPT ![w] = [pc |-> step, id |-> @.id, hist |-> hist]]

Mutant_SnapshotUnlocked(w) ==
  /\ scrape[w].pc = "persist"
  /\ SaverAt(w, "known", Snapshot)
  /\ UNCHANGED <<targets, saved, states, refresh, loop, api, history>>
PersistSnapshot(w) ==
  /\ scrape[w].pc = "persist"
  /\ \A v \in Scrapers : ~Saving(v)
  /\ SaverAt(w, "known", Snapshot)
  /\ UNCHANGED <<targets, saved, states, refresh, loop, api, history>>

PersistKnown(w) ==
  /\ scrape[w].pc = "known"
  /\ SaverAt(w, "write", KnownOnly(scrape[w].hist))
  /\ UNCHANGED <<targets, saved, states, refresh, loop, api, history>>

\* SetSetting; its error is ignored.
Mutant_RetriedUnderLock(w) ==
  /\ scrape[w].pc = "write"
  /\ saved' = scrape[w].hist
  /\ \/ scrape' = [scrape EXCEPT ![w] = IdleScrape]
     \/ scrape' = [scrape EXCEPT ![w].pc = "known"]
  /\ UNCHANGED <<targets, states, refresh, loop, api, history>>
PersistWrite(w) ==
  /\ scrape[w].pc = "write"
  /\ saved' = scrape[w].hist
  /\ scrape' = [scrape EXCEPT ![w] = IdleScrape]
  /\ UNCHANGED <<targets, states, refresh, loop, api, history>>

-----------------------------------------------------------------------------
(* The API calls.  Each begins by loading the list it will save.           *)

Call(h, step, op, i, list) ==
  /\ api[h].pc = "idle"
  /\ api' = [api EXCEPT ![h] = [pc |-> step, op |-> op, id |-> i, list |-> list, hist |-> NoHistory]]

CreateLoad(h, i, c) ==
  /\ i \notin used
  /\ used' = used \cup {i}
  /\ Call(h, "save", "edit", i, [targets EXCEPT ![i] = c])
  /\ UNCHANGED <<targets, saved, states, refresh, loop, scrape, dropped, waiting, removed>>

\* normalizeFrpsTargetInput: a blank password means the one just loaded.
Normalized(password, enabled, previous) ==
  [password |-> IF password = Blank THEN previous.password ELSE password, enabled |-> enabled]

UpdateLoad(h, i, password, enabled) ==
  /\ targets[i] # None
  /\ Call(h, "save", "edit", i,
          [targets EXCEPT ![i] = Normalized(password, enabled, targets[i])])
  /\ UNCHANGED <<targets, saved, states, refresh, loop, scrape, history>>

DeleteLoad(h, i) ==
  /\ targets[i] # None
  /\ Call(h, "save", "delete", i, [targets EXCEPT ![i] = None])
  /\ UNCHANGED <<targets, saved, states, refresh, loop, scrape, history>>

\* The call goes on to a later step, with the history it will save there.
CallAt(h, step, hist) ==
  api' = [api EXCEPT ![h] = [pc |-> step, op |-> @.op, id |-> @.id,
                             list |-> NoList, hist |-> hist]]

\* saveFrpsTargets; on an error the call returns at once.
Save(h) ==
  /\ api[h].pc = "save"
  /\ targets' = api[h].list
  /\ dropped' = dropped \cup {i \in Ids : targets[i] # None /\ targets'[i] = None}
  /\ \/ CallAt(h, IF api[h].op = "delete" THEN "remove" ELSE "refresh", NoHistory)
     \/ api' = [api EXCEPT ![h] = IdleCall]
  /\ UNCHANGED <<saved, states, refresh, loop, scrape, used, waiting, removed>>

\* RefreshNow: the token is dropped when the channel already holds one.
RefreshNow(h) ==
  /\ api[h].pc = "refresh"
  /\ refresh' = TRUE
  /\ waiting' = waiting \cup {h}
  /\ api' = [api EXCEPT ![h] = IdleCall]
  /\ UNCHANGED <<targets, saved, states, loop, scrape, used, dropped, removed>>

RemoveTarget(h) ==
  /\ api[h].pc = "remove"
  /\ SetState(api[h].id, None)
  /\ CallAt(h, "histLoad", NoHistory)
  /\ UNCHANGED <<targets, saved, refresh, loop, scrape, history>>

\* deleteFrpsHistory is a load, saveFrpsHistory's load of the list, a save.
DeleteHistoryLoad(h) ==
  /\ api[h].pc = "histLoad"
  /\ CallAt(h, "histKnown", [saved EXCEPT ![api[h].id] = 0])
  /\ UNCHANGED <<targets, saved, states, refresh, loop, scrape, history>>

DeleteHistoryKnown(h) ==
  /\ api[h].pc = "histKnown"
  /\ CallAt(h, "histWrite", KnownOnly(api[h].hist))
  /\ UNCHANGED <<targets, saved, states, refresh, loop, scrape, history>>

DeleteHistoryWrite(h) ==
  /\ api[h].pc = "histWrite"
  /\ saved' = api[h].hist
  /\ removed' = removed \cup {api[h].id}
  /\ api' = [api EXCEPT ![h] = IdleCall]
  /\ UNCHANGED <<targets, states, refresh, loop, scrape, used, dropped, waiting>>

-----------------------------------------------------------------------------
LoopNext ==
  \/ LoopTick \/ LoopRefresh \/ LoopLoad \/ LoopDone
  \/ \E t \in loop.todo : LoopDisabled(t) \/ LoopSkip(t)
  \/ \E t \in loop.todo, w \in Scrapers : LoopSpawn(t, w)

ScrapeNext(w) ==
  ScrapeBegin(w) \/ ScrapeFails(w) \/ ScrapeStores(w)
    \/ PersistSnapshot(w) \/ PersistKnown(w) \/ PersistWrite(w)

ApiNext(h) ==
  \/ \E i \in Ids, c \in Config : CreateLoad(h, i, c)
  \/ \E i \in Ids, p \in Passwords \cup {Blank}, e \in BOOLEAN : UpdateLoad(h, i, p, e)
  \/ \E i \in Ids : DeleteLoad(h, i)
  \/ Save(h) \/ RefreshNow(h) \/ RemoveTarget(h)
  \/ DeleteHistoryLoad(h) \/ DeleteHistoryKnown(h) \/ DeleteHistoryWrite(h)

Next ==
  \/ LoopNext
  \/ \E w \in Scrapers : ScrapeNext(w)
  \/ \E h \in Handlers : ApiNext(h)

Spec == Init /\ [][Next]_vars

\* The loop runs (Go's select picks among ready cases at random, so a token
\* that stays in the channel is taken), scrapes end (by their timeout) and
\* leave saveMu to the next.
Fairness ==
  /\ WF_vars(LoopNext)
  /\ SF_vars(LoopRefresh)
  /\ \A w \in Scrapers : WF_vars(ScrapeNext(w)) /\ SF_vars(PersistSnapshot(w))

FairSpec == Spec /\ Fairness

-----------------------------------------------------------------------------
(* Properties *)

(* An edit is never lost on the monitor: as long as no forced load of the  *)
(* list has followed a RefreshNow, the token is in the channel or the loop *)
(* has taken it and is about to load.  The send that drops its token when  *)
(* the channel is full, and the load that follows the receive, rely on it. *)
NoLostRefresh ==
  waiting # {} => refresh \/ (loop.pc = "load" /\ loop.force)

(* Every edit that was answered is followed by a forced load of the list   *)
(* it saved (or of a later one), which is what starts the scrapes.         *)
EditsReachTheMonitor ==
  \A h \in Handlers : h \in waiting ~> h \notin waiting

(* Scrapes that finish together save their snapshots in order: the saved   *)
(* history of a target that stays listed never loses points to an older    *)
(* snapshot.  Only DeleteFrpsTarget, which writes the history outside      *)
(* saveMu, may.                                                            *)
SavedHistoryNeverGoesBack ==
  [][\A i \in Ids \ dropped :
       saved'[i] < saved[i] => \E h \in Handlers : DeleteHistoryWrite(h)]_vars

(* A scrape never waits for ever behind the others to save its history.    *)
ScrapesEnd ==
  \A w \in Scrapers : scrape[w].pc = "persist" ~> scrape[w].pc = "idle"

(* frps_monitor_test.go:196 says that the history is removed with its      *)
(* target: once DeleteFrpsTarget has returned none is saved.               *)
DeletedHistoryIsGone ==
  \A i \in removed : targets[i] = None => saved[i] = 0
=============================================================================
