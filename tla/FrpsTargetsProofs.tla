-------------------------- MODULE FrpsTargetsProofs --------------------------
(***************************************************************************)
(* Theorems about FrpsTargets for any number of targets, callers of the    *)
(* API and scrapes under way: refresh requests are not lost, and scrapes   *)
(* that overlap never save an older history over a newer one.              *)
(***************************************************************************)
EXTENDS FrpsTargets, TLAPS

(* Targets that are in the list, or once were.                             *)
Seen(i) == targets[i] # None \/ i \in dropped

(* saveMu                                                                  *)
OneSaver == \A v, w \in Scrapers : Saving(v) /\ Saving(w) => v = w

(* Only what has been in the list is scraped.                              *)
ScrapesSeen ==
  /\ \A t \in loop.todo : Seen(t.id)
  /\ \A w \in Scrapers : scrape[w].pc # "idle" => Seen(scrape[w].id)

(* A state is removed only for a target that has left the list.            *)
DeletesSeen ==
  \A h \in Handlers :
    /\ api[h].pc = "save" /\ api[h].op = "delete"
         => Seen(api[h].id) /\ api[h].list[api[h].id] = None
    /\ api[h].pc = "remove" => api[h].id \in dropped

(* The histories that are about to be saved, and the one that is saved,    *)
(* trail the states; a snapshot under way is ahead of what is saved and of *)
(* what a DeleteFrpsTarget may save meanwhile.                             *)
HistoriesTrail ==
  \A i \in Ids \ dropped :
    /\ targets[i] = None => Ensured(i) = 0
    /\ saved[i] <= Ensured(i)
    /\ \A w \in Scrapers :
         Saving(w) => saved[i] <= scrape[w].hist[i] /\ scrape[w].hist[i] <= Ensured(i)
    /\ \A h \in Handlers :
         api[h].pc \in {"histKnown", "histWrite"} =>
           /\ api[h].hist[i] <= Ensured(i)
           /\ \A w \in Scrapers : Saving(w) => api[h].hist[i] <= scrape[w].hist[i]

IInv ==
  /\ TypeOK
  /\ NoLostRefresh
  /\ OneSaver
  /\ ScrapesSeen
  /\ DeletesSeen
  /\ HistoriesTrail

-----------------------------------------------------------------------------
LEMMA InitIInv == Init => IInv
<1> SUFFICES ASSUME Init PROVE IInv
  OBVIOUS
<1> USE NoneAssumption
<1>1. saved \in History /\ \A i \in Ids : Ensured(i) = saved[i]
  BY DEF Init, Ensured, History
<1>2. NoList \in Listing /\ NoHistory \in History
  BY DEF NoList, NoHistory, Listing, History
<1>3. TypeOK
  BY <1>1, <1>2 DEF Init, TypeOK, IdleLoop, IdleScrape, IdleCall, History
<1>4. OneSaver /\ ScrapesSeen /\ DeletesSeen /\ NoLostRefresh
  BY DEF Init, OneSaver, Saving, ScrapesSeen, DeletesSeen, NoLostRefresh, IdleLoop, IdleScrape, IdleCall
<1>5. HistoriesTrail
  BY <1>1 DEF Init, HistoriesTrail, Saving, IdleScrape, IdleCall, History
<1> QED
  BY <1>3, <1>4, <1>5 DEF IInv

(* The loop only moves: it starts scrapes of what it has loaded and makes  *)
(* states without points.                                                  *)
LEMMA LoopIInv == IInv /\ LoopNext => IInv'
<1> SUFFICES ASSUME IInv, LoopNext PROVE IInv'
  OBVIOUS
<1> USE NoneAssumption
    DEF history, IInv, TypeOK, NoLostRefresh, OneSaver, Saving, ScrapesSeen, DeletesSeen,
        HistoriesTrail, Seen, Ensured
<1>1. CASE LoopTick
  BY <1>1 DEF LoopTick
<1>2. CASE LoopRefresh
  BY <1>2 DEF LoopRefresh
<1>3. CASE LoopLoad
  <2>1. Listed \in SUBSET Due
    BY DEF Listed, Due, Listing, Config
  <2>2. \A t \in Listed : targets[t.id] # None
    BY DEF Listed
  <2> QED
    BY <1>3, <2>1, <2>2 DEF LoopLoad
<1>4. CASE LoopDone
  BY <1>4 DEF LoopDone, IdleLoop
<1>5. ASSUME NEW t \in loop.todo, LoopDisabled(t) PROVE IInv'
  <2>1. t.id \in Ids
    BY DEF Due
  <2>2. /\ loop' = [loop EXCEPT !.todo = @ \ {t}]
        /\ UNCHANGED <<targets, saved, refresh, scrape, api, used, dropped, waiting, removed>>
    BY <1>5 DEF LoopDisabled
  <2>3. /\ states' \in [Ids -> Nat \cup {None}]
        /\ \A i \in Ids : Ensured(i)' = Ensured(i)
    BY <1>5, <2>1 DEF LoopDisabled, SetState
  <2>4. TypeOK'
    BY <2>2, <2>3
  <2>5. (NoLostRefresh /\ OneSaver /\ ScrapesSeen /\ DeletesSeen)'
    BY <2>2
  <2>6. HistoriesTrail'
    <3>1. HistoriesTrail
      OBVIOUS
    <3> QED
      BY ONLY <2>2, <2>3, <3>1 DEF HistoriesTrail, Saving
  <2> QED
    BY <2>4, <2>5, <2>6 DEF IInv
<1>6. ASSUME NEW t \in loop.todo, LoopSkip(t) PROVE IInv'
  BY <1>6 DEF LoopSkip
<1>7. ASSUME NEW t \in loop.todo, NEW w \in Scrapers, LoopSpawn(t, w) PROVE IInv'
  <2>1. t.id \in Ids
    BY DEF Due
  <2>3. NoHistory \in History
    BY DEF NoHistory, History
  <2>4. /\ scrape[w].pc = "idle"
        /\ scrape' = [scrape EXCEPT ![w] = [pc |-> "begin", id |-> t.id, hist |-> NoHistory]]
        /\ loop' = [loop EXCEPT !.todo = @ \ {t}]
        /\ UNCHANGED <<targets, saved, states, refresh, api, used, dropped, waiting, removed>>
    BY <1>7 DEF LoopSpawn
  <2>5. TypeOK'
    BY <2>1, <2>3, <2>4
  <2>6. (NoLostRefresh /\ OneSaver /\ ScrapesSeen /\ DeletesSeen)'
    BY <2>1, <2>3, <2>4
  <2>7. \A v \in Scrapers : Saving(v)' => Saving(v) /\ scrape'[v] = scrape[v]
    BY <2>4
  <2>8. HistoriesTrail'
    BY <2>4, <2>7
  <2> QED
    BY <2>5, <2>6, <2>8 DEF IInv
<1> QED
  BY <1>1, <1>2, <1>3, <1>4, <1>5, <1>6, <1>7 DEF LoopNext

(* A scrape adds points to its state before it saves; the saver is alone,  *)
(* so its snapshot stays ahead of everything that was saved before it.     *)
LEMMA ScrapeIInv == ASSUME IInv, NEW w \in Scrapers, ScrapeNext(w) PROVE IInv'
<1> USE NoneAssumption DEF history, IInv
<1> DEFINE Frame == UNCHANGED <<targets, refresh, loop, api, used, dropped, waiting, removed>>
<1>1. CASE ScrapeBegin(w) \/ ScrapeFails(w) \/ ScrapeStores(w)
  <2>1. scrape[w].pc \in {"begin", "fetch"} /\ scrape[w].id \in Ids /\ Seen(scrape[w].id)
    BY <1>1 DEF ScrapeBegin, ScrapeFails, ScrapeStores, TypeOK, ScrapesSeen
  <2>2. Frame /\ saved' = saved
    BY <1>1 DEF ScrapeBegin, ScrapeFails, ScrapeStores
  <2>3. scrape' \in {[scrape EXCEPT ![w].pc = "fetch"], [scrape EXCEPT ![w].pc = "persist"],
                     [scrape EXCEPT ![w] = IdleScrape]}
    BY <1>1 DEF ScrapeBegin, ScrapeFails, ScrapeStores
  <2>4. /\ states' \in [Ids -> Nat \cup {None}]
        /\ \A i \in Ids : Ensured(i) \in Nat /\ Ensured(i)' \in Nat /\ Ensured(i) <= Ensured(i)'
        /\ \A i \in Ids \ {scrape[w].id} : Ensured(i)' = Ensured(i)
    <3>1. \E n \in Nat : SetState(scrape[w].id, n) /\ Ensured(scrape[w].id) <= n
      BY <1>1, <2>1 DEF ScrapeBegin, ScrapeFails, ScrapeStores, TypeOK, Ensured
    <3> QED
      BY <2>1, <3>1 DEF SetState, TypeOK, Ensured
  <2>5. NoHistory \in History
    BY DEF NoHistory, History
  <2>6. TypeOK'
    BY <2>1, <2>2, <2>3, <2>4, <2>5 DEF TypeOK, IdleScrape
  <2>7. \A v \in Scrapers :
          /\ Saving(v)' => Saving(v) /\ scrape'[v] = scrape[v]
          /\ scrape'[v].pc # "idle" => scrape[v].pc # "idle" /\ scrape'[v].id = scrape[v].id
    BY <2>1, <2>3 DEF TypeOK, Saving, IdleScrape
  <2>8. (NoLostRefresh /\ OneSaver /\ ScrapesSeen /\ DeletesSeen)'
    BY <2>2, <2>7 DEF NoLostRefresh, OneSaver, ScrapesSeen, DeletesSeen, Seen
  <2>9. HistoriesTrail'
    <3>1. /\ targets \in [Ids -> Config \cup {None}] /\ saved \in [Ids -> Nat]
          /\ \A v \in Scrapers, i \in Ids : scrape[v].hist[i] \in Nat
          /\ \A h \in Handlers, i \in Ids : api[h].hist[i] \in Nat
      BY DEF TypeOK, Listing, History
    <3>2. \A i \in Ids \ dropped : targets[i] = None => Ensured(i)' = 0
      BY <2>1, <2>4 DEF HistoriesTrail, Seen
    <3> HIDE DEF IInv
    <3> QED
      BY <2>2, <2>4, <2>7, <3>1, <3>2 DEF IInv, HistoriesTrail
  <2> QED
    BY <2>6, <2>8, <2>9
<1>2. CASE PersistSnapshot(w) \/ PersistKnown(w)
  <2>1. Frame /\ UNCHANGED <<saved, states>> /\ scrape[w].pc \in {"persist", "known"}
    BY <1>2 DEF PersistSnapshot, PersistKnown
  <2>2. PICK s \in {"known", "write"}, hist \in History :
          /\ SaverAt(w, s, hist)
          /\ \/ \A v \in Scrapers : ~Saving(v)
             \/ Saving(w)
          /\ \A i \in Ids \ dropped : /\ saved[i] <= hist[i] /\ hist[i] <= Ensured(i)
                                      /\ \A h \in Handlers : api[h].pc \in {"histKnown", "histWrite"}
                                           => api[h].hist[i] <= hist[i]
    <3>1. /\ \A i \in Ids : Ensured(i) \in Nat /\ saved[i] \in Nat
          /\ \A v \in Scrapers, i \in Ids : scrape[v].hist[i] \in Nat
          /\ \A h \in Handlers, i \in Ids : api[h].hist[i] \in Nat
      BY DEF TypeOK, History, Ensured
    <3>2. CASE PersistSnapshot(w)
      <4>1. Snapshot \in History /\ \A i \in Ids : Snapshot[i] = Ensured(i)
        BY <3>1 DEF Snapshot, History
      <4>2. SaverAt(w, "known", Snapshot)
        BY <3>2 DEF PersistSnapshot
      <4>3. \A v \in Scrapers : ~Saving(v)
        BY <3>2 DEF PersistSnapshot
      <4>4. \A i \in Ids \ dropped :
              /\ saved[i] <= Snapshot[i] /\ Snapshot[i] <= Ensured(i)
              /\ \A h \in Handlers : api[h].pc \in {"histKnown", "histWrite"}
                   => api[h].hist[i] <= Snapshot[i]
        BY <3>1, <4>1 DEF HistoriesTrail
      <4> Snapshot \in History
        BY <4>1
      <4> WITNESS "known" \in {"known", "write"}, Snapshot \in History
      <4> QED
        BY <4>2, <4>3, <4>4
    <3>3. CASE PersistKnown(w)
      <4> DEFINE hist == KnownOnly(scrape[w].hist)
      <4>1. hist \in History
        BY <3>1 DEF KnownOnly, History
      <4>2. \A i \in Ids : hist[i] = IF targets[i] = None THEN 0 ELSE scrape[w].hist[i]
        BY DEF KnownOnly
      <4>3. SaverAt(w, "write", hist)
        BY <3>3 DEF PersistKnown
      <4>4. Saving(w)
        BY <3>3 DEF PersistKnown, Saving
      <4>5. \A i \in Ids \ dropped : /\ saved[i] <= hist[i] /\ hist[i] <= Ensured(i)
                                     /\ \A h \in Handlers : api[h].pc \in {"histKnown", "histWrite"}
                                          => api[h].hist[i] <= hist[i]
        BY <3>1, <4>2, <4>4 DEF HistoriesTrail
      <4> HIDE DEF hist
      <4> QED
        BY <4>1, <4>3, <4>4, <4>5
    <3> QED
      BY <1>2, <3>2, <3>3
  <2>3. /\ \A v \in Scrapers \ {w} : scrape'[v] = scrape[v]
        /\ scrape'[w].pc = s /\ scrape'[w].id = scrape[w].id /\ scrape'[w].hist = hist
        /\ scrape' \in [Scrapers -> [pc : {"idle", "begin", "fetch", "persist", "known", "write"},
                                     id : Ids \cup {None}, hist : History]]
    BY <2>2 DEF TypeOK, SaverAt
  <2>4. TypeOK'
    BY <2>1, <2>2, <2>3 DEF TypeOK
  <2>5. (NoLostRefresh /\ ScrapesSeen /\ DeletesSeen)'
    BY <2>1, <2>2, <2>3 DEF NoLostRefresh, ScrapesSeen, DeletesSeen, Seen
  <2>6. OneSaver' /\ \A v \in Scrapers \ {w} : ~Saving(v)'
    BY <2>2, <2>3 DEF OneSaver, Saving
  <2>7. \A i \in Ids : Ensured(i)' = Ensured(i)
    BY <2>1 DEF Ensured
  <2>8. HistoriesTrail'
    BY <2>1, <2>2, <2>3, <2>6, <2>7 DEF HistoriesTrail
  <2> QED
    BY <2>4, <2>5, <2>6, <2>8
<1>3. CASE PersistWrite(w)
  <2>1. /\ Frame /\ states' = states /\ scrape[w].pc = "write" /\ Saving(w)
        /\ saved' = scrape[w].hist /\ scrape' = [scrape EXCEPT ![w] = IdleScrape]
    BY <1>3 DEF PersistWrite, Saving
  <2>2. NoHistory \in History
    BY DEF NoHistory, History
  <2>3. TypeOK'
    BY <2>1, <2>2 DEF TypeOK, IdleScrape
  <2>4. \A v \in Scrapers : /\ ~Saving(v)'
                            /\ scrape'[v].pc # "idle" => scrape'[v] = scrape[v]
    BY <2>1 DEF TypeOK, OneSaver, Saving, IdleScrape
  <2>5. (NoLostRefresh /\ OneSaver /\ ScrapesSeen /\ DeletesSeen)'
    BY <2>1, <2>4 DEF NoLostRefresh, OneSaver, ScrapesSeen, DeletesSeen, Seen
  <2>6. HistoriesTrail'
    BY <2>1, <2>4 DEF HistoriesTrail, Ensured
  <2> QED
    BY <2>3, <2>5, <2>6
<1> QED
  BY <1>1, <1>2, <1>3 DEF ScrapeNext

(* A call that loads the list leaves the program as it is, but for itself. *)
LEMMA LoadIInv ==
  ASSUME IInv, NEW h \in Handlers, NEW op \in {"edit", "delete"}, NEW i \in Ids,
         NEW list \in Listing, Call(h, "save", op, i, list),
         op = "delete" => Seen(i) /\ list[i] = None,
         used' \in SUBSET Ids,
         UNCHANGED <<targets, saved, states, refresh, loop, scrape, dropped, waiting, removed>>
  PROVE  IInv'
<1> USE NoneAssumption
<1>1. /\ api[h].pc = "idle"
      /\ api' = [api EXCEPT ![h] =
                   [pc |-> "save", op |-> op, id |-> i, list |-> list, hist |-> NoHistory]]
  BY DEF Call
<1>2. NoHistory \in History
  BY DEF NoHistory, History
<1>3. TypeOK'
  BY <1>1, <1>2 DEF IInv, TypeOK
<1>4. /\ api'[h].pc = "save" /\ api'[h].op = op /\ api'[h].id = i /\ api'[h].list = list
      /\ \A g \in Handlers \ {h} : api'[g] = api[g]
  BY <1>1 DEF IInv, TypeOK
<1>5. (NoLostRefresh /\ OneSaver /\ ScrapesSeen)'
  BY DEF IInv, NoLostRefresh, OneSaver, Saving, ScrapesSeen, Seen
<1>6. DeletesSeen'
  BY <1>4 DEF IInv, DeletesSeen, Seen
<1>7. HistoriesTrail'
  BY <1>4 DEF IInv, HistoriesTrail, Saving, Ensured
<1> QED
  BY <1>3, <1>5, <1>6, <1>7 DEF IInv

(* An edit that takes a target off the list puts it in dropped, where the  *)
(* invariant lets go of it; the others stay as they were.                  *)
LEMMA SaveIInv == ASSUME IInv, NEW h \in Handlers, Save(h) PROVE IInv'
<1> USE NoneAssumption DEF IInv
<1>1. /\ api[h].pc = "save" /\ targets' = api[h].list
      /\ dropped' = dropped \cup {i \in Ids : targets[i] # None /\ targets'[i] = None}
      /\ UNCHANGED <<saved, states, refresh, loop, scrape, used, waiting, removed>>
  BY DEF Save
<1>2. /\ api[h] \in [pc : {"idle", "save", "refresh", "remove",
                           "histLoad", "histKnown", "histWrite"},
                     op : {"none", "edit", "delete"}, id : Ids \cup {None},
                     list : Listing, hist : History]
      /\ api[h].id \in Ids
  BY <1>1 DEF TypeOK
<1>3. NoHistory \in History /\ NoList \in Listing
  BY DEF NoHistory, History, NoList, Listing
<1>4. /\ api' \in [Handlers -> [pc : {"idle", "save", "refresh", "remove",
                                      "histLoad", "histKnown", "histWrite"},
                                op : {"none", "edit", "delete"}, id : Ids \cup {None},
                                list : Listing, hist : History]]
      /\ api'[h].pc \in {"remove", "refresh", "idle"}
      /\ api'[h].pc # "idle" => api'[h].id = api[h].id
      /\ api'[h].pc = "remove" => api[h].op = "delete"
      /\ \A g \in Handlers \ {h} : api'[g] = api[g]
  <2>1. CASE CallAt(h, IF api[h].op = "delete" THEN "remove" ELSE "refresh", NoHistory)
    <3>1. PICK pc \in {"remove", "refresh"} :
            CallAt(h, pc, NoHistory) /\ (pc = "remove" => api[h].op = "delete")
      BY <2>1
    <3>2. api' = [api EXCEPT ![h] = [pc |-> pc, op |-> api[h].op, id |-> api[h].id,
                                     list |-> NoList, hist |-> NoHistory]]
      BY <3>1 DEF CallAt
    <3> QED
      BY <3>1, <3>2, <1>2, <1>3 DEF TypeOK
  <2>2. CASE api' = [api EXCEPT ![h] = IdleCall]
    BY <2>2, <1>3 DEF TypeOK, IdleCall
  <2> QED
    BY <2>1, <2>2 DEF Save
<1>5. TypeOK'
  <2>1. targets' \in Listing /\ dropped' \in SUBSET Ids
    BY <1>1, <1>2 DEF TypeOK
  <2> QED
    BY <1>1, <1>2, <1>4, <2>1 DEF TypeOK
<1>6. \A i \in Ids : /\ Seen(i) => Seen(i)'
                     /\ Seen(i) /\ targets'[i] = None => i \in dropped'
  BY <1>1 DEF Seen
<1>7. (NoLostRefresh /\ OneSaver)'
  BY <1>1 DEF NoLostRefresh, OneSaver, Saving
<1>8. ScrapesSeen'
  BY <1>1, <1>6 DEF TypeOK, ScrapesSeen, Due
<1>9. DeletesSeen'
  BY <1>1, <1>4, <1>6 DEF TypeOK, DeletesSeen
<1>10. HistoriesTrail'
  <2>1. \A i \in Ids \ dropped' : i \notin dropped /\ (targets'[i] = None => targets[i] = None)
    BY <1>1
  <2>2. \A g \in Handlers : api'[g].pc \in {"histKnown", "histWrite"} => api'[g] = api[g]
    BY <1>4
  <2> QED
    BY <1>1, <2>1, <2>2 DEF HistoriesTrail, Saving, Ensured
<1> QED
  BY <1>5, <1>7, <1>8, <1>9, <1>10

(* A deletion removes the state of a target that has left the list, and    *)
(* saves for the others a history that trails every snapshot under way.    *)
LEMMA ApiIInv == ASSUME IInv, NEW h \in Handlers, ApiNext(h) PROVE IInv'
<1> USE NoneAssumption DEF history, IInv
<1>1. targets \in [Ids -> Config \cup {None}]
  BY DEF TypeOK, Listing
<1>2. ASSUME NEW i \in Ids, NEW c \in Config, CreateLoad(h, i, c) PROVE IInv'
  <2> DEFINE list == [targets EXCEPT ![i] = c]
  <2>1. list \in Listing
    BY <1>1 DEF Listing
  <2>2. /\ Call(h, "save", "edit", i, list) /\ used' = used \cup {i} /\ used' \in SUBSET Ids
        /\ UNCHANGED <<targets, saved, states, refresh, loop, scrape, dropped, waiting, removed>>
    BY <1>2 DEF CreateLoad, TypeOK
  <2> HIDE DEF list, IInv
  <2> QED
    BY <2>1, <2>2, LoadIInv
<1>3. ASSUME NEW i \in Ids, NEW p \in Passwords \cup {Blank}, NEW e \in BOOLEAN,
             UpdateLoad(h, i, p, e)
      PROVE  IInv'
  <2> DEFINE new == Normalized(p, e, targets[i])
  <2> DEFINE list == [targets EXCEPT ![i] = new]
  <2>1. new \in Config
    BY <1>1, <1>3 DEF UpdateLoad, Normalized, Config
  <2> HIDE DEF new
  <2>2. list \in Listing
    BY <1>1, <2>1 DEF Listing
  <2> USE DEF new
  <2>3. /\ Call(h, "save", "edit", i, list) /\ used' = used /\ used' \in SUBSET Ids
        /\ UNCHANGED <<targets, saved, states, refresh, loop, scrape, dropped, waiting, removed>>
    BY <1>3 DEF UpdateLoad, TypeOK
  <2> HIDE DEF list, IInv
  <2> QED
    BY <2>2, <2>3, LoadIInv
<1>4. ASSUME NEW i \in Ids, DeleteLoad(h, i) PROVE IInv'
  <2> DEFINE list == [targets EXCEPT ![i] = None]
  <2>1. list \in Listing /\ list[i] = None /\ Seen(i)
    BY <1>1, <1>4 DEF Listing, DeleteLoad, Seen
  <2>2. /\ Call(h, "save", "delete", i, list) /\ used' = used /\ used' \in SUBSET Ids
        /\ UNCHANGED <<targets, saved, states, refresh, loop, scrape, dropped, waiting, removed>>
    BY <1>4 DEF DeleteLoad, TypeOK
  <2> HIDE DEF list, IInv
  <2> QED
    BY <2>1, <2>2, LoadIInv
<1>5. CASE RefreshNow(h)
  <2>1. NoHistory \in History /\ NoList \in Listing
    BY DEF NoHistory, History, NoList, Listing
  <2>2. TypeOK'
    BY <1>5, <2>1 DEF RefreshNow, TypeOK, IdleCall
  <2>3. (NoLostRefresh /\ OneSaver /\ ScrapesSeen)'
    BY <1>5 DEF RefreshNow, NoLostRefresh, OneSaver, Saving, ScrapesSeen, Seen
  <2>4. \A g \in Handlers : api'[g].pc # "idle" => api'[g] = api[g]
    BY <1>5 DEF RefreshNow, TypeOK, IdleCall
  <2>5. (DeletesSeen /\ HistoriesTrail)'
    BY <1>5, <2>4 DEF RefreshNow, DeletesSeen, HistoriesTrail, Seen, Saving, Ensured
  <2> QED
    BY <2>2, <2>3, <2>5
<1>6. CASE RemoveTarget(h)
  <2>1. /\ api[h].pc = "remove" /\ api[h].id \in Ids /\ api[h].id \in dropped
        /\ states' = [states EXCEPT ![api[h].id] = None]
        /\ CallAt(h, "histLoad", NoHistory)
        /\ UNCHANGED <<targets, saved, refresh, loop, scrape, used, dropped, waiting, removed>>
    BY <1>6 DEF RemoveTarget, SetState, TypeOK, DeletesSeen
  <2>2. NoHistory \in History /\ NoList \in Listing
    BY DEF NoHistory, History, NoList, Listing
  <2>3. TypeOK'
    BY <2>1, <2>2 DEF CallAt, TypeOK
  <2>4. /\ api'[h].pc = "histLoad"
        /\ \A g \in Handlers \ {h} : api'[g] = api[g]
    BY <2>1 DEF CallAt, TypeOK
  <2>5. \A i \in Ids \ dropped : Ensured(i)' = Ensured(i)
    BY <2>1 DEF TypeOK, Ensured
  <2>6. (NoLostRefresh /\ OneSaver /\ ScrapesSeen /\ DeletesSeen)'
    BY <2>1, <2>4 DEF NoLostRefresh, OneSaver, Saving, ScrapesSeen, DeletesSeen, Seen
  <2>7. HistoriesTrail'
    BY <2>1, <2>4, <2>5 DEF HistoriesTrail, Saving
  <2> QED
    BY <2>3, <2>6, <2>7
<1>7. CASE DeleteHistoryLoad(h) \/ DeleteHistoryKnown(h)
  <2>1. /\ api[h].pc \in {"histLoad", "histKnown"} /\ api[h].id \in Ids
        /\ UNCHANGED <<targets, saved, states, refresh, loop, scrape, used, dropped, waiting, removed>>
    BY <1>7 DEF DeleteHistoryLoad, DeleteHistoryKnown, TypeOK
  <2>2. PICK s \in {"histKnown", "histWrite"}, hist \in History :
          /\ CallAt(h, s, hist)
          /\ \A i \in Ids \ dropped : /\ hist[i] <= Ensured(i)
                                      /\ \A w \in Scrapers : Saving(w) => hist[i] <= scrape[w].hist[i]
    <3>1. /\ \A i \in Ids : Ensured(i) \in Nat /\ saved[i] \in Nat
          /\ \A v \in Scrapers, i \in Ids : scrape[v].hist[i] \in Nat
          /\ \A i \in Ids : api[h].hist[i] \in Nat
          /\ saved \in History
      BY DEF TypeOK, History, Ensured
    <3>2. CASE DeleteHistoryLoad(h)
      <4> DEFINE hist == [saved EXCEPT ![api[h].id] = 0]
      <4>1. hist \in History /\ \A i \in Ids : hist[i] = 0 \/ hist[i] = saved[i]
        BY <2>1, <3>1 DEF History
      <4>2. CallAt(h, "histKnown", hist)
        BY <3>2 DEF DeleteHistoryLoad
      <4>3. \A i \in Ids \ dropped :
              /\ hist[i] <= Ensured(i)
              /\ \A w \in Scrapers : Saving(w) => hist[i] <= scrape[w].hist[i]
        BY <3>1, <4>1 DEF HistoriesTrail
      <4> HIDE DEF hist
      <4> QED
        BY <4>1, <4>2, <4>3
    <3>3. CASE DeleteHistoryKnown(h)
      <4> DEFINE hist == KnownOnly(api[h].hist)
      <4>1. hist \in History /\ \A i \in Ids : hist[i] = 0 \/ hist[i] = api[h].hist[i]
        BY <3>1 DEF KnownOnly, History
      <4>2. CallAt(h, "histWrite", hist) /\ api[h].pc = "histKnown"
        BY <3>3 DEF DeleteHistoryKnown
      <4>3. \A i \in Ids \ dropped :
              /\ hist[i] <= Ensured(i)
              /\ \A w \in Scrapers : Saving(w) => hist[i] <= scrape[w].hist[i]
        BY <3>1, <4>1, <4>2 DEF HistoriesTrail
      <4> HIDE DEF hist
      <4> QED
        BY <4>1, <4>2, <4>3
    <3> QED
      BY <1>7, <3>2, <3>3
  <2>3. NoList \in Listing
    BY DEF NoList, Listing
  <2>4. TypeOK'
    BY <2>1, <2>2, <2>3 DEF CallAt, TypeOK
  <2>5. /\ api'[h].pc = s /\ api'[h].hist = hist
        /\ \A g \in Handlers \ {h} : api'[g] = api[g]
    BY <2>2 DEF CallAt, TypeOK
  <2>6. (NoLostRefresh /\ OneSaver /\ ScrapesSeen /\ DeletesSeen)'
    BY <2>1, <2>5 DEF NoLostRefresh, OneSaver, Saving, ScrapesSeen, DeletesSeen, Seen
  <2>7. HistoriesTrail'
    BY <2>1, <2>2, <2>5 DEF HistoriesTrail, Saving, Ensured
  <2> QED
    BY <2>4, <2>6, <2>7
<1>8. CASE DeleteHistoryWrite(h)
  <2>1. /\ api[h].pc = "histWrite" /\ api[h].id \in Ids
        /\ saved' = api[h].hist /\ removed' = removed \cup {api[h].id}
        /\ api' = [api EXCEPT ![h] = IdleCall]
        /\ UNCHANGED <<targets, states, refresh, loop, scrape, used, dropped, waiting>>
    BY <1>8 DEF DeleteHistoryWrite, TypeOK
  <2>2. NoHistory \in History /\ NoList \in Listing
    BY DEF NoHistory, History, NoList, Listing
  <2>3. TypeOK'
    BY <2>1, <2>2 DEF TypeOK, IdleCall
  <2>4. \A g \in Handlers : api'[g].pc # "idle" => api'[g] = api[g]
    BY <2>1 DEF TypeOK, IdleCall
  <2>5. (NoLostRefresh /\ OneSaver /\ ScrapesSeen /\ DeletesSeen)'
    BY <2>1, <2>4 DEF NoLostRefresh, OneSaver, Saving, ScrapesSeen, DeletesSeen, Seen
  <2>6. HistoriesTrail'
    BY <2>1, <2>4 DEF HistoriesTrail, Saving, Ensured
  <2> QED
    BY <2>3, <2>5, <2>6
<1>9. CASE Save(h)
  BY <1>9, SaveIInv
<1> QED
  BY <1>2, <1>3, <1>4, <1>5, <1>6, <1>7, <1>8, <1>9 DEF ApiNext

LEMMA StepIInv == IInv /\ [Next]_vars => IInv'
<1> SUFFICES ASSUME IInv, [Next]_vars PROVE IInv'
  OBVIOUS
<1>1. CASE LoopNext
  BY <1>1, LoopIInv
<1>2. ASSUME NEW w \in Scrapers, ScrapeNext(w) PROVE IInv'
  BY <1>2, ScrapeIInv
<1>3. ASSUME NEW h \in Handlers, ApiNext(h) PROVE IInv'
  BY <1>3, ApiIInv
<1>4. CASE UNCHANGED vars
  BY <1>4 DEF vars, IInv, TypeOK, NoLostRefresh, OneSaver, Saving, ScrapesSeen, DeletesSeen,
              HistoriesTrail, Seen, Ensured
<1> QED
  BY <1>1, <1>2, <1>3, <1>4 DEF Next

LEMMA InductiveInvariant == Spec => []IInv
  BY InitIInv, StepIInv, PTL DEF Spec

-----------------------------------------------------------------------------
(* The state has its type: the steps of the loop, the scrapes and the API  *)
(* calls of frps_monitor.go and service.go leave every field in its range. *)
THEOREM TypeCorrect == Spec => []TypeOK
<1>1. IInv => TypeOK
  BY DEF IInv
<1> QED
  BY <1>1, InductiveInvariant, PTL

(* However many calls ask the monitor to refresh while it is busy, no      *)
(* request is lost: the channel with one slot is enough.                   *)
THEOREM RefreshIsNeverLost == Spec => []NoLostRefresh
<1>1. IInv => NoLostRefresh
  BY DEF IInv
<1> QED
  BY <1>1, InductiveInvariant, PTL

(* However many scrapes end at once, saveMu makes them save their histories *)
(* in order: what persistHistory writes is never older than what is saved. *)
THEOREM HistoryIsSavedInOrder == Spec => SavedHistoryNeverGoesBack
<1> DEFINE InOrder == \A i \in Ids \ dropped :
                        saved'[i] < saved[i] => \E h \in Handlers : DeleteHistoryWrite(h)
<1>1. IInv /\ [Next]_vars => [InOrder]_vars
  <2> SUFFICES ASSUME IInv, Next, NEW i \in Ids \ dropped, saved'[i] < saved[i]
               PROVE  \E h \in Handlers : DeleteHistoryWrite(h)
    OBVIOUS
  <2>1. saved[i] \in Nat /\ \A w \in Scrapers : scrape[w].hist[i] \in Nat
    BY DEF IInv, TypeOK, History
  <2>2. saved' # saved
    BY <2>1
  <2>3. ASSUME NEW w \in Scrapers, ScrapeNext(w) PROVE FALSE
    <3>1. PersistWrite(w)
      BY <2>2, <2>3 DEF ScrapeNext, ScrapeBegin, ScrapeFails, ScrapeStores, PersistSnapshot, PersistKnown
    <3>2. saved[i] <= saved'[i]
      BY <3>1 DEF PersistWrite, IInv, HistoriesTrail, Saving
    <3> QED
      BY <2>1, <3>1, <3>2 DEF PersistWrite
  <2>4. ~LoopNext
    BY <2>2 DEF LoopNext, LoopTick, LoopRefresh, LoopLoad, LoopDone, LoopDisabled, LoopSkip, LoopSpawn
  <2>5. PICK h \in Handlers : ApiNext(h)
    BY <2>3, <2>4 DEF Next
  <2>6. DeleteHistoryWrite(h)
    BY <2>2, <2>5 DEF ApiNext, CreateLoad, UpdateLoad, DeleteLoad, Save, RefreshNow, RemoveTarget,
                      DeleteHistoryLoad, DeleteHistoryKnown
  <2> QED
    BY <2>6
<1> HIDE DEF InOrder
<1>2. Spec => [][InOrder]_vars
  BY <1>1, InductiveInvariant, PTL DEF Spec
<1> QED
  BY <1>2 DEF SavedHistoryNeverGoesBack, InOrder
=============================================================================
