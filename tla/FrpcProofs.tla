----------------------------- MODULE FrpcProofs -----------------------------
(***************************************************************************)
(* Theorems about what the panel shows of a frpc.  About                   *)
(* ConfigScanner, for any number of files and of calls: a refresh that     *)
(* nothing disturbs leaves the cache exact, and only scans change what is  *)
(* listed.  About ConfigText, for texts of any length: every key is read   *)
(* in the scope it stands in.  About LogTail, for logs of any length: its  *)
(* answer is the end of the log.                                           *)
(***************************************************************************)
EXTENDS ConfigScanner, ConfigText, LogTail, WellFoundedInduction, TLAPS

-----------------------------------------------------------------------------
(* The cache of the scanner                                                *)

(* A refresh begins with no list, and nobody has cancelled it yet.         *)
FreshStart ==
  \A w \in Workers :
    /\ ~Refreshing(w) => ~work[w].cancelled
    /\ work[w].pc \in {"idle", "write", "discover", "status"} => work[w].list = NoListing

QuietAlone ==
  \A w \in quiet : /\ Refreshing(w) /\ ~work[w].cancelled
                   /\ \A v \in Workers \ {w} : ~Refreshing(v)

(* What a quiet refresh has read so far is what is there.                  *)
Readable == {f \in Files : files[f] # None}

ReadSoFar(w) ==
  /\ At(w, "status") => work[w].todo = Readable
  /\ At(w, "read") =>
       /\ work[w].todo \subseteq Readable
       /\ \A f \in Files \ work[w].todo : work[w].list[f] = Read(w, f)
       /\ \A f \in work[w].todo : work[w].list[f] = None

(* What it has installed lists the files that parse.                       *)
ListsRight(list, f) ==
  IF Parses(f) THEN /\ list[f] # None /\ list[f].version = files[f].version
                    /\ list[f].admin = (files[f].kind = "admin")
               ELSE list[f] = None

Installed(w) == work[w].pc \in {"copy", "probe"} => \A f \in Files : ListsRight(cache, f)

(* What it has probed so far is the status of the instances.               *)
TrueStatus(f) ==
  IF files[f].kind = "plain" THEN "no-admin" ELSE IF up[f] THEN "running" ELSE "stopped"

ProbedSoFar(w) ==
  At(w, "probe") =>
    /\ work[w].todo \subseteq WithAdmin(cache)
    /\ \A f \in Files \ work[w].todo : Parses(f) => work[w].status[f] = TrueStatus(f)

QuietGood == \A w \in quiet : ReadSoFar(w) /\ Installed(w) /\ ProbedSoFar(w)

IInv ==
  /\ TypeOK
  /\ FreshStart
  /\ QuietAlone
  /\ QuietGood

-----------------------------------------------------------------------------
LEMMA Empties == NoListing \in Listing /\ NoStatus \in Statuses
  BY DEF NoListing, NoStatus, Listing, Statuses

LEMMA InitIInv == Init => IInv
<1> SUFFICES ASSUME Init PROVE IInv
  OBVIOUS
<1> USE WorkersAssumption, Empties
<1>1. ASSUME NEW w \in Workers
      PROVE  /\ work[w] \in Work
             /\ work[w].pc = IF w = Loop THEN "discover" ELSE "idle"
             /\ work[w].cancelled = FALSE /\ work[w].list = NoListing
  <2>1. PICK pc \in {"discover", "idle"} :
          pc = (IF w = Loop THEN "discover" ELSE "idle") /\ work[w] = [Idle EXCEPT !.pc = pc]
    BY DEF Init
  <2>2. Idle \in Work /\ Idle.cancelled = FALSE /\ Idle.list = NoListing
    BY DEF Idle, Work
  <2> QED
    BY <2>1, <2>2 DEF Work
<1>2. work \in [Workers -> Work]
  <2>2. work = [w \in Workers |-> work[w]]
    BY DEF Init
  <2> QED
    BY <1>1, <2>2
<1>3. files \in [Files -> Content \cup {None}]
  BY DEF Init, Content
<1>4. TypeOK
  BY <1>2, <1>3 DEF Init, TypeOK, Workers
<1>6. quiet = {Loop} /\ Loop \in Workers
  BY DEF Init, Workers
<1>7. FreshStart /\ QuietAlone
  BY <1>1, <1>6 DEF FreshStart, QuietAlone, Refreshing
<1>8. QuietGood
  BY <1>1, <1>6 DEF QuietGood, ReadSoFar, Installed, ProbedSoFar, At
<1> QED
  BY <1>4, <1>7, <1>8 DEF IInv

(* What the helpers that move a worker leave it with.                      *)
LEMMA GoesOnMoves ==
  ASSUME TypeOK, NEW w \in Workers,
         NEW step \in {"status", "read", "copy", "probe"}, NEW todo \in SUBSET Files,
         NEW status \in Statuses, NEW list \in Listing,
         GoesOn(w, step, todo, status, list)
  PROVE  /\ work' \in [Workers -> Work]
         /\ work'[w].pc = step /\ work'[w].todo = todo /\ work'[w].status = status
         /\ work'[w].list = list /\ work'[w].cancelled = work[w].cancelled
         /\ \A v \in Workers \ {w} : work'[v] = work[v]
<1>1. work[w] \in Work
  BY DEF TypeOK
<1>2. [pc |-> step, op |-> work[w].op, todo |-> todo,
       status |-> status, list |-> list, cancelled |-> work[w].cancelled] \in Work
  BY <1>1 DEF Work
<1>3. work' = [work EXCEPT ![w] =
                 [pc |-> step, op |-> work[w].op, todo |-> todo,
                  status |-> status, list |-> list, cancelled |-> work[w].cancelled]]
  BY DEF GoesOn
<1> QED
  BY <1>2, <1>3 DEF TypeOK

(* A step of a refresh concerns no other quiet refresh: there is none.     *)
LEMMA RefreshStep ==
  ASSUME IInv, NEW w \in Workers, Refreshing(w),
         NEW step \in {"status", "read", "copy", "probe"}, NEW todo \in SUBSET Files,
         NEW status \in Statuses, NEW list \in Listing,
         GoesOn(w, step, todo, status, list), step = "status" => list = NoListing,
         UNCHANGED <<files, up, writes, history>>, cache' \in Listing,
         w \in quiet => (ReadSoFar(w) /\ Installed(w) /\ ProbedSoFar(w))'
  PROVE  IInv'
<1>1. TypeOK
  BY DEF IInv
<1> DEFINE next == [pc |-> step, op |-> work[w].op, todo |-> todo,
                    status |-> status, list |-> list, cancelled |-> work[w].cancelled]
<1>a. work[w] \in Work /\ work \in [Workers -> Work]
  BY <1>1 DEF TypeOK
<1>b. next \in Work
  BY <1>a DEF Work
<1>c. work' = [work EXCEPT ![w] = next]
  BY DEF GoesOn
<1>d. next.pc = step /\ next.list = list /\ next.cancelled = work[w].cancelled
  OBVIOUS
<1> HIDE DEF next
<1>2. /\ work' \in [Workers -> Work]
      /\ work'[w].pc = step /\ work'[w].list = list /\ work'[w].cancelled = work[w].cancelled
      /\ \A v \in Workers \ {w} : work'[v] = work[v]
  BY <1>a, <1>b, <1>c, <1>d
<1>3. UNCHANGED <<files, up, writes, quiet, wasDown>>
  BY DEF history
<1>4. TypeOK'
  BY <1>1, <1>2, <1>3 DEF TypeOK
<1>5. FreshStart'
  BY <1>2 DEF IInv, FreshStart, Refreshing
<1>6. quiet \subseteq {w}
  BY DEF IInv, TypeOK, QuietAlone
<1>7. QuietAlone'
  BY <1>2, <1>3, <1>6 DEF IInv, QuietAlone, Refreshing
<1>8. QuietGood'
  BY <1>3, <1>6 DEF QuietGood
<1> QED
  BY <1>4, <1>5, <1>7, <1>8 DEF IInv

LEMMA ReadTypes ==
  ASSUME TypeOK, NEW w \in Workers, NEW f \in Files
  PROVE  /\ Read(w, f) \in Server \cup {None}
         /\ Read(w, f) = IF Parses(f) THEN Parsed(f, work[w].status[f]) ELSE None
         /\ Parses(f) => /\ Parsed(f, work[w].status[f]).version = files[f].version
                         /\ Parsed(f, work[w].status[f]).admin = (files[f].kind = "admin")
                         /\ Parsed(f, work[w].status[f]) \in Server
<1>1. /\ work[w].status[f] \in Status \cup {None}
      /\ files[f] \in Content \cup {None}
  BY DEF TypeOK, Work, Statuses
<1>2. ASSUME Parses(f) PROVE Parsed(f, work[w].status[f]) \in Server
  <2>1. files[f].version \in Nat /\ (files[f].kind = "admin") \in BOOLEAN
    BY <1>1, <1>2 DEF Parses, Content
  <2> DEFINE known == work[w].status[f]
  <2> DEFINE status == IF known # None THEN known
                       ELSE IF files[f].kind = "admin" THEN "stopped" ELSE "no-admin"
  <2>2. status \in Status
    BY <1>1 DEF Status
  <2>3. Parsed(f, known) = [version |-> files[f].version, admin |-> files[f].kind = "admin",
                            status |-> status]
    BY DEF Parsed
  <2> HIDE DEF status
  <2> QED
    BY <2>1, <2>2, <2>3 DEF Server
<1>3. ASSUME Parses(f)
      PROVE  /\ Parsed(f, work[w].status[f]).version = files[f].version
             /\ Parsed(f, work[w].status[f]).admin = (files[f].kind = "admin")
  BY DEF Parsed
<1> QED
  BY <1>2, <1>3 DEF Read

(* scan: what has been read is what is there, and is installed as a whole. *)
LEMMA ScanIInv ==
  ASSUME IInv, NEW w \in Workers,
         \/ Discover(w) \/ SnapshotStatus(w) \/ Install(w)
         \/ \E f \in Files : ReadFile(w, f)
  PROVE  IInv'
<1> USE WorkersAssumption, Empties
<1>1. /\ TypeOK
      /\ work[w].todo \in SUBSET Files /\ work[w].status \in Statuses /\ work[w].list \in Listing
  BY DEF IInv, TypeOK, Work
<1>2. CASE Discover(w)
  <2>1. /\ GoesOn(w, "status", Readable, NoStatus, NoListing) /\ Refreshing(w)
        /\ UNCHANGED <<files, up, cache, writes, history>>
    BY <1>2 DEF Discover, Readable, At, Refreshing
  <2>2. Readable \in SUBSET Files /\ Readable' = Readable
    BY <2>1 DEF Readable
  <2>3. work'[w].pc = "status" /\ work'[w].todo = Readable
    BY <1>1, <2>1, <2>2, GoesOnMoves
  <2>4. (ReadSoFar(w) /\ Installed(w) /\ ProbedSoFar(w))'
    BY <2>2, <2>3 DEF ReadSoFar, Installed, ProbedSoFar, At
  <2>5. cache' \in Listing
    BY <1>1, <2>1 DEF TypeOK
  <2> QED
    BY <2>1, <2>2, <2>4, <2>5, RefreshStep
<1>3. CASE SnapshotStatus(w)
  <2> DEFINE status == StatusOf(cache)
  <2>1. /\ GoesOn(w, "read", work[w].todo, status, NoListing)
        /\ Refreshing(w) /\ At(w, "status")
        /\ UNCHANGED <<files, up, cache, writes, history>>
    BY <1>3 DEF SnapshotStatus, At, Refreshing
  <2>2. status \in Statuses
    BY <1>1 DEF StatusOf, TypeOK, Listing, Server, Statuses
  <2> HIDE DEF status
  <2>3. work'[w].pc = "read" /\ work'[w].todo = work[w].todo /\ work'[w].list = NoListing
    <3> DEFINE todo == work[w].todo
    <3>1. TypeOK /\ todo \in SUBSET Files /\ GoesOn(w, "read", todo, status, NoListing)
      BY <1>1, <2>1
    <3> HIDE DEF todo
    <3>2. work'[w].pc = "read" /\ work'[w].todo = todo /\ work'[w].list = NoListing
      BY <2>2, <3>1, GoesOnMoves
    <3> QED
      BY <3>2 DEF todo
  <2>4. ASSUME w \in quiet PROVE (ReadSoFar(w) /\ Installed(w) /\ ProbedSoFar(w))'
    <3>1. work'[w].todo = Readable
      BY <2>1, <2>3, <2>4 DEF IInv, QuietGood, ReadSoFar
    <3>2. \A f \in Files \ Readable : Read(w, f)' = None
      BY <2>1 DEF Readable, Read, Parses
    <3>3. Readable' = Readable /\ \A f \in Files : NoListing[f] = None
      BY <2>1 DEF Readable, NoListing
    <3>4. Readable \subseteq Files
      BY DEF Readable
    <3>5. ReadSoFar(w)'
      BY <2>3, <3>1, <3>2, <3>3, <3>4 DEF ReadSoFar, At
    <3> QED
      BY <2>3, <3>5 DEF Installed, ProbedSoFar, At
  <2>5. cache' \in Listing
    BY <1>1, <2>1 DEF TypeOK
  <2> QED
    BY <1>1, <2>1, <2>2, <2>4, <2>5, RefreshStep
<1>4. ASSUME NEW f \in Files, ReadFile(w, f) PROVE IInv'
  <2> DEFINE list == [work[w].list EXCEPT ![f] = Read(w, f)]
  <2> DEFINE todo == work[w].todo \ {f}
  <2>1. /\ GoesOn(w, "read", todo, work[w].status, list)
        /\ Refreshing(w) /\ At(w, "read") /\ f \in work[w].todo
        /\ UNCHANGED <<files, up, cache, writes, history>>
    BY <1>4 DEF ReadFile, At, Refreshing
  <2>2. list \in Listing /\ todo \in SUBSET Files
    BY <1>1, ReadTypes DEF Listing
  <2>3. \A g \in Files : list[g] = IF g = f THEN Read(w, f) ELSE work[w].list[g]
    BY <1>1 DEF Listing
  <2>4. \A g : g \in todo <=> g \in work[w].todo /\ g # f
    OBVIOUS
  <2> HIDE DEF list, todo
  <2>5. /\ work'[w].pc = "read" /\ work'[w].todo = todo /\ work'[w].list = list
        /\ work'[w].status = work[w].status
    <3> DEFINE status == work[w].status
    <3>1. TypeOK /\ status \in Statuses /\ GoesOn(w, "read", todo, status, list)
      BY <1>1, <2>1
    <3> HIDE DEF status
    <3>2. /\ work'[w].pc = "read" /\ work'[w].todo = todo /\ work'[w].list = list
          /\ work'[w].status = status
      BY <2>2, <3>1, GoesOnMoves
    <3> QED
      BY <3>2 DEF status
  <2>6. ASSUME w \in quiet PROVE (ReadSoFar(w) /\ Installed(w) /\ ProbedSoFar(w))'
    <3>1. /\ work[w].todo \subseteq Readable
          /\ \A g \in Files \ work[w].todo : work[w].list[g] = Read(w, g)
          /\ \A g \in work[w].todo : work[w].list[g] = None
      BY <2>1, <2>6 DEF IInv, QuietGood, ReadSoFar
    <3>2. Readable' = Readable /\ \A g \in Files : Read(w, g)' = Read(w, g)
      BY <2>1, <2>5 DEF Readable, Read, Parses, Parsed
    <3>3. /\ todo \subseteq Readable
          /\ \A g \in Files \ todo : list[g] = Read(w, g)
          /\ \A g \in todo : list[g] = None
      BY <2>2, <2>3, <2>4, <3>1
    <3>4. ReadSoFar(w)'
      BY <2>2, <2>5, <3>2, <3>3 DEF ReadSoFar, At
    <3> QED
      BY <2>5, <3>4 DEF Installed, ProbedSoFar, At
  <2>7. cache' \in Listing
    BY <1>1, <2>1 DEF TypeOK
  <2> QED
    BY <1>1, <2>1, <2>2, <2>6, <2>7, RefreshStep
<1>5. CASE Install(w)
  <2>1. /\ GoesOn(w, "copy", {}, NoStatus, NoListing) /\ cache' = work[w].list
        /\ Refreshing(w) /\ At(w, "read") /\ work[w].todo = {}
        /\ UNCHANGED <<files, up, writes, history>>
    BY <1>5 DEF Install, At, Refreshing
  <2>2. work'[w].pc = "copy"
    BY <1>1, <2>1, GoesOnMoves
  <2>3. ASSUME w \in quiet PROVE (ReadSoFar(w) /\ Installed(w) /\ ProbedSoFar(w))'
    <3>1. \A f \in Files : cache'[f] = Read(w, f)
      BY <2>1, <2>3 DEF IInv, QuietGood, ReadSoFar
    <3>2. \A f \in Files : ListsRight(cache', f)
      <4> TAKE f \in Files
      <4>1. CASE Parses(f)
        BY <1>1, <3>1, <4>1, ReadTypes DEF ListsRight
      <4>2. CASE ~Parses(f)
        BY <3>1, <4>2 DEF ListsRight, Read
      <4> QED
        BY <4>1, <4>2
    <3>3. Installed(w)'
      BY <2>1, <3>2 DEF Installed, ListsRight, Parses
    <3> QED
      BY <2>2, <3>3 DEF ReadSoFar, ProbedSoFar, At
  <2> QED
    BY <1>1, <2>1, <2>3, RefreshStep
<1> QED
  BY <1>2, <1>3, <1>4, <1>5

(* probeStatuses: a quiet refresh hears the truth of every instance.       *)
LEMMA ProbeIInv ==
  ASSUME IInv, NEW w \in Workers, CopyServers(w) \/ \E f \in Files : Probe(w, f)
  PROVE  IInv'
<1> USE WorkersAssumption, Empties
<1>1. /\ TypeOK /\ cache \in Listing
      /\ work[w].todo \in SUBSET Files /\ work[w].status \in Statuses /\ work[w].list \in Listing
      /\ \A f \in Files : Parses(f) => files[f] \in Content /\ files[f].kind \in {"admin", "plain"}
  BY DEF IInv, TypeOK, Work, Parses, Content
<1>2. CASE CopyServers(w)
  <2> DEFINE status == [f \in Files |->
                          IF cache[f] # None /\ ~cache[f].admin THEN "no-admin" ELSE None]
  <2> DEFINE todo == WithAdmin(cache)
  <2>1. /\ GoesOn(w, "probe", todo, status, cache) /\ Refreshing(w) /\ At(w, "copy")
        /\ UNCHANGED <<files, up, cache, writes, history>>
    BY <1>2 DEF CopyServers, At, Refreshing
  <2>2. status \in Statuses /\ todo \in SUBSET Files
    BY DEF Statuses, Status, WithAdmin
  <2>3. \A f \in Files \ todo : cache[f] # None => status[f] = "no-admin"
    BY DEF WithAdmin
  <2>4. \A f \in todo : f \in Files /\ cache[f] # None /\ cache[f].admin
    BY DEF WithAdmin
  <2>5. \A f \in Files \ todo : cache[f] = None \/ ~cache[f].admin
    BY DEF WithAdmin
  <2>6. todo' = todo
    BY <2>1 DEF WithAdmin
  <2> HIDE DEF status, todo
  <2>7. work'[w].pc = "probe" /\ work'[w].todo = todo /\ work'[w].status = status
    BY <1>1, <2>1, <2>2, GoesOnMoves
  <2>8. ASSUME w \in quiet PROVE (ReadSoFar(w) /\ Installed(w) /\ ProbedSoFar(w))'
    <3>1. \A f \in Files : ListsRight(cache, f)
      BY <2>1, <2>8 DEF IInv, QuietGood, Installed, At
    <3>2. Installed(w)'
      BY <2>1, <3>1 DEF Installed, ListsRight, Parses
    <3>3. \A f \in Files \ todo : Parses(f) => status[f] = TrueStatus(f)
      BY <1>1, <2>3, <2>5, <3>1 DEF ListsRight, TrueStatus
    <3>4. (WithAdmin(cache))' = todo
      BY <2>6 DEF todo
    <3>5. \A f \in Files : Parses(f)' = Parses(f) /\ TrueStatus(f)' = TrueStatus(f)
      BY <2>1 DEF Parses, TrueStatus
    <3>6. ProbedSoFar(w)'
      BY <2>7, <3>3, <3>4, <3>5 DEF ProbedSoFar
    <3> QED
      BY <2>7, <3>2, <3>6 DEF ReadSoFar, At
  <2>9. cache' \in Listing
    BY <1>1, <2>1
  <2> QED
    BY <1>1, <2>1, <2>2, <2>8, <2>9, RefreshStep
<1>3. ASSUME NEW f \in Files, Probe(w, f) PROVE IInv'
  <2> DEFINE answer == IF up[f] /\ ~work[w].cancelled THEN "running" ELSE "stopped"
  <2> DEFINE status == [work[w].status EXCEPT ![f] = answer]
  <2> DEFINE todo == work[w].todo \ {f}
  <2> DEFINE list == work[w].list
  <2>1. /\ GoesOn(w, "probe", todo, status, list)
        /\ Refreshing(w) /\ At(w, "probe") /\ f \in work[w].todo
        /\ UNCHANGED <<files, up, cache, writes, history>>
    BY <1>3 DEF Probe, At, Refreshing
  <2>2. status \in Statuses /\ todo \in SUBSET Files /\ list \in Listing
    BY <1>1 DEF Statuses, Status
  <2>3. \A g \in Files : status[g] = IF g = f THEN answer ELSE work[w].status[g]
    BY <1>1 DEF Statuses
  <2>4. \A g : g \in todo <=> g \in work[w].todo /\ g # f
    OBVIOUS
  <2> HIDE DEF status, todo, list
  <2>5. work'[w].pc = "probe" /\ work'[w].todo = todo /\ work'[w].status = status
    BY <1>1, <2>1, <2>2, GoesOnMoves
  <2>6. ASSUME w \in quiet PROVE (ReadSoFar(w) /\ Installed(w) /\ ProbedSoFar(w))'
    <3>1. /\ \A g \in Files : ListsRight(cache, g)
          /\ work[w].todo \subseteq WithAdmin(cache)
          /\ \A g \in Files \ work[w].todo : Parses(g) => work[w].status[g] = TrueStatus(g)
          /\ ~work[w].cancelled
      BY <2>1, <2>6 DEF IInv, QuietGood, QuietAlone, Installed, ProbedSoFar, At
    <3>2. Parses(f) => answer = TrueStatus(f)
      <4>1. cache[f] # None /\ cache[f].admin
        BY <2>1, <3>1 DEF WithAdmin
      <4> QED
        BY <1>1, <3>1, <4>1 DEF ListsRight, TrueStatus
    <3>3. Installed(w)'
      BY <2>1, <3>1 DEF Installed, ListsRight, Parses
    <3>4. \A g \in Files \ todo : Parses(g) => status[g] = TrueStatus(g)
      BY <2>3, <2>4, <3>1, <3>2
    <3>5. \A g \in Files : Parses(g)' = Parses(g) /\ TrueStatus(g)' = TrueStatus(g)
      BY <2>1 DEF Parses, TrueStatus
    <3>6. todo \subseteq (WithAdmin(cache))'
      BY <2>1, <2>4, <3>1 DEF WithAdmin
    <3>7. ProbedSoFar(w)'
      BY <2>5, <3>4, <3>5, <3>6 DEF ProbedSoFar
    <3> QED
      BY <2>5, <3>3, <3>7 DEF ReadSoFar, At
  <2>7. cache' \in Listing
    BY <1>1, <2>1
  <2> QED
    BY <1>1, <2>1, <2>2, <2>6, <2>7, RefreshStep
<1> QED
  BY <1>2, <1>3

(* The end of a refresh: none is quiet any more.                           *)
LEMMA StoreIInv == ASSUME IInv, NEW w \in Workers, StoreStatuses(w) PROVE IInv'
<1> USE WorkersAssumption, Empties
<1>1. /\ cache' = Answered(cache, work[w].status) /\ work' = [work EXCEPT ![w] = Idle]
      /\ quiet' = quiet \ {w}
      /\ UNCHANGED <<files, up, writes, wasDown>> /\ Refreshing(w)
  BY DEF StoreStatuses, At, Refreshing
<1>2. /\ work \in [Workers -> Work] /\ cache \in Listing
      /\ work[w].status \in Statuses
  BY DEF IInv, TypeOK, Work
<1>3. Idle \in Work /\ Idle.pc = "idle" /\ Idle.cancelled = FALSE /\ Idle.list = NoListing
  BY DEF Idle, Work
<1>4. cache' \in Listing
  <2>1. \A f \in Files : cache[f] # None /\ work[w].status[f] # None
          => [cache[f] EXCEPT !.status = work[w].status[f]] \in Server
    BY <1>2 DEF Listing, Server, Statuses
  <2> QED
    BY <1>1, <1>2, <2>1 DEF Answered, Listing
<1>5. quiet' = {}
  BY <1>1 DEF IInv, TypeOK, QuietAlone
<1>6. TypeOK'
  BY <1>1, <1>2, <1>3, <1>4, <1>5 DEF IInv, TypeOK
<1>7. FreshStart'
  BY <1>1, <1>2, <1>3 DEF IInv, FreshStart, Refreshing
<1> QED
  BY <1>5, <1>6, <1>7 DEF IInv, QuietAlone, QuietGood

(* A change of the world leaves no refresh quiet.                          *)
LEMMA WorldIInv == ASSUME IInv, NEW f \in Files, Turn(f) \/ Edit(f) PROVE IInv'
<1> USE WorkersAssumption
<1>1. quiet' = {} /\ UNCHANGED <<cache, work>>
  BY DEF Turn, Edit, Disturbed
<1>2. CASE Turn(f)
  <2>1. up' \in [Files -> BOOLEAN] /\ wasDown' \in SUBSET Files /\ UNCHANGED <<files, writes>>
    BY <1>2 DEF Turn, IInv, TypeOK
  <2> QED
    BY <1>1, <2>1 DEF IInv, TypeOK, FreshStart, QuietAlone, QuietGood, Refreshing
<1>3. CASE Edit(f)
  <2>1. files' \in [Files -> Content \cup {None}] /\ writes' \in Nat /\ UNCHANGED <<up, wasDown>>
    BY <1>3 DEF Edit, IInv, TypeOK, Content
  <2> QED
    BY <1>1, <2>1 DEF IInv, TypeOK, FreshStart, QuietAlone, QuietGood, Refreshing
<1> QED
  BY <1>2, <1>3

(* The part of a call before its refresh does not touch the refreshes of   *)
(* others, unless it writes a file.                                        *)
LEMMA BeforeRefreshIInv ==
  ASSUME IInv, NEW h \in Workers, NEW w \in Work, ~Refreshing(h),
         w.pc \in {"idle", "write"}, w.cancelled = FALSE, w.list = NoListing,
         work' = [work EXCEPT ![h] = w],
         UNCHANGED <<up, cache, wasDown>>,
         \/ UNCHANGED <<files, writes, quiet>>
         \/ files' \in [Files -> Content \cup {None}] /\ writes' \in Nat /\ quiet' = {}
  PROVE  IInv'
<1> USE WorkersAssumption
<1>1. /\ work \in [Workers -> Work] /\ work' \in [Workers -> Work] /\ work'[h] = w
      /\ \A v \in Workers \ {h} : work'[v] = work[v]
  BY DEF IInv, TypeOK
<1>2. TypeOK'
  BY <1>1 DEF IInv, TypeOK
<1>3. FreshStart'
  BY <1>1 DEF IInv, FreshStart, Refreshing
<1>4. h \notin quiet
  BY DEF IInv, QuietAlone
<1>5. QuietAlone'
  BY <1>1, <1>4 DEF IInv, TypeOK, QuietAlone, Refreshing
<1>6. QuietGood'
  <2>1. CASE quiet' = {}
    BY <2>1 DEF QuietGood
  <2>2. CASE UNCHANGED <<files, writes, quiet>>
    <3> SUFFICES ASSUME NEW v \in quiet
                 PROVE  (ReadSoFar(v) /\ Installed(v) /\ ProbedSoFar(v))'
      BY <2>2 DEF QuietGood
    <3>1. ReadSoFar(v) /\ Installed(v) /\ ProbedSoFar(v)
      BY DEF IInv, QuietGood
    <3>2. work'[v] = work[v]
      BY <1>1, <1>4 DEF IInv, TypeOK
    <3> QED
      BY <2>2, <3>1, <3>2 DEF ReadSoFar, Installed, ProbedSoFar, At, Readable, Read, Parses, Parsed,
                              ListsRight, TrueStatus, WithAdmin
  <2> QED
    BY <2>1, <2>2
<1> QED
  BY <1>2, <1>3, <1>5, <1>6 DEF IInv

(* A refresh that begins is quiet only if no other is under way, and the   *)
(* others are quiet no more.                                               *)
LEMMA BeginIInv ==
  ASSUME IInv, NEW w \in Workers, work[w].pc \in {"idle", "write"},
         work' = [work EXCEPT ![w].pc = "discover"], Joined(w),
         UNCHANGED <<files, up, cache, writes, wasDown>>
  PROVE  IInv'
<1> USE WorkersAssumption
<1>1. /\ work \in [Workers -> Work] /\ work' \in [Workers -> Work] /\ ~Refreshing(w)
      /\ work'[w].pc = "discover" /\ work'[w].cancelled = work[w].cancelled
      /\ work'[w].list = work[w].list
      /\ \A v \in Workers \ {w} : work'[v] = work[v]
  BY DEF IInv, TypeOK, Work, Refreshing
<1>2. ~work[w].cancelled /\ work[w].list = NoListing
  BY <1>1 DEF IInv, FreshStart
<1>3. quiet' \subseteq {w} /\ (w \in quiet' => \A v \in Workers \ {w} : ~Refreshing(v))
  BY DEF Joined
<1>4. TypeOK'
  BY <1>1, <1>3 DEF IInv, TypeOK
<1>5. FreshStart'
  BY <1>1, <1>2 DEF IInv, FreshStart, Refreshing
<1>6. QuietAlone'
  BY <1>1, <1>2, <1>3 DEF QuietAlone, Refreshing
<1>7. QuietGood'
  BY <1>1, <1>3 DEF QuietGood, ReadSoFar, Installed, ProbedSoFar, At
<1> QED
  BY <1>4, <1>5, <1>6, <1>7 DEF IInv

LEMMA CallsIInv == ASSUME IInv, NEW h \in Handlers, Calls(h) PROVE IInv'
<1> USE WorkersAssumption, Empties
<1>1. h \in Workers /\ work[h] \in Work /\ work \in [Workers -> Work]
  BY DEF Workers, IInv, TypeOK
<1>2. ASSUME NEW op \in {"save", "import"}, NEW todo \in SUBSET Files, CallBegin(h, op, todo)
      PROVE  IInv'
  <2> DEFINE w == [pc |-> "write", op |-> op, todo |-> todo,
                   status |-> NoStatus, list |-> NoListing, cancelled |-> FALSE]
  <2>1. w \in Work /\ w.pc = "write" /\ w.cancelled = FALSE /\ w.list = NoListing
    BY DEF Work
  <2>2. /\ ~Refreshing(h) /\ work' = [work EXCEPT ![h] = w]
        /\ UNCHANGED <<files, up, cache, writes, quiet, wasDown>>
    BY <1>2 DEF CallBegin, At, Refreshing, history
  <2> HIDE DEF w
  <2> QED
    BY <1>1, <2>1, <2>2, BeforeRefreshIInv
<1>3. ASSUME NEW f \in Files, SaveBegin(h, f) PROVE IInv'
  BY <1>2, <1>3 DEF SaveBegin
<1>4. ASSUME NEW todo \in SUBSET Files, ImportBegin(h, todo) PROVE IInv'
  BY <1>2, <1>4 DEF ImportBegin
<1>5. ASSUME NEW todo \in SUBSET Files, CallAt(h, todo)
      PROVE  \E w \in Work : /\ w.pc = "write" /\ w.cancelled = FALSE /\ w.list = NoListing
                             /\ work' = [work EXCEPT ![h] = w]
  <2> DEFINE w == [pc |-> "write", op |-> work[h].op, todo |-> todo,
                   status |-> NoStatus, list |-> NoListing, cancelled |-> FALSE]
  <2>1. w \in Work /\ w.pc = "write" /\ w.cancelled = FALSE /\ w.list = NoListing
    BY <1>1 DEF Work
  <2>2. work' = [work EXCEPT ![h] = w]
    BY <1>5 DEF CallAt
  <2> HIDE DEF w
  <2> QED
    BY <2>1, <2>2
<1>6. ASSUME NEW f \in Files, WriteFile(h, f) PROVE IInv'
  <2>1. /\ writes' = writes + 1 /\ quiet' = {} /\ ~Refreshing(h)
        /\ UNCHANGED <<up, cache, wasDown>>
        /\ CallAt(h, work[h].todo \ {f})
    BY <1>6 DEF WriteFile, Disturbed, At, Refreshing
  <2>2. writes \in Nat /\ writes' \in Nat
    BY <2>1 DEF IInv, TypeOK
  <2>3. files' \in [Files -> Content \cup {None}]
    BY <1>6, <2>2 DEF WriteFile, Content, IInv, TypeOK
  <2>4. work[h].todo \ {f} \in SUBSET Files
    BY <1>1, <2>2 DEF Work
  <2>5. PICK w \in Work : /\ w.pc = "write" /\ w.cancelled = FALSE /\ w.list = NoListing
                          /\ work' = [work EXCEPT ![h] = w]
    BY <1>5, <2>1, <2>4
  <2> QED
    BY <1>1, <2>1, <2>2, <2>3, <2>5, BeforeRefreshIInv
<1>7. ASSUME NEW f \in Files, WriteFails(h, f) PROVE IInv'
  <2>1. /\ ~Refreshing(h) /\ UNCHANGED <<files, up, cache, writes, quiet, wasDown>>
        /\ \/ work' = [work EXCEPT ![h] = Idle]
           \/ CallAt(h, work[h].todo \ {f})
    BY <1>7 DEF WriteFails, At, Refreshing, history
  <2>2. Idle \in Work /\ Idle.pc = "idle" /\ Idle.cancelled = FALSE /\ Idle.list = NoListing
    BY DEF Idle, Work
  <2>3. work[h].todo \ {f} \in SUBSET Files
    BY <1>1 DEF Work
  <2>4. PICK w \in Work : /\ w.pc \in {"idle", "write"} /\ w.cancelled = FALSE /\ w.list = NoListing
                          /\ work' = [work EXCEPT ![h] = w]
    <3>1. CASE work' = [work EXCEPT ![h] = Idle]
      BY <2>2, <3>1
    <3>2. CASE CallAt(h, work[h].todo \ {f})
      BY <1>5, <2>3, <3>2
    <3> QED
      BY <2>1, <3>1, <3>2
  <2> QED
    BY <1>1, <2>1, <2>4, BeforeRefreshIInv
<1>8. CASE CallRefresh(h)
  <2>1. /\ work[h].pc \in {"idle", "write"} /\ Joined(h)
        /\ work' = [work EXCEPT ![h].pc = "discover"]
        /\ UNCHANGED <<files, up, cache, writes, wasDown>>
    BY <1>8 DEF CallRefresh, At
  <2> QED
    BY <1>1, <2>1, BeginIInv
<1>9. CASE Cancel(h)
  <2>1. /\ Refreshing(h) /\ work' = [work EXCEPT ![h].cancelled = TRUE] /\ quiet' = quiet \ {h}
        /\ UNCHANGED <<files, up, cache, writes, wasDown>>
    BY <1>9 DEF Cancel
  <2>2. quiet' = {}
    BY <1>1, <2>1 DEF IInv, TypeOK, QuietAlone
  <2>3. /\ work' \in [Workers -> Work] /\ work'[h].pc = work[h].pc /\ work'[h].list = work[h].list
        /\ \A v \in Workers \ {h} : work'[v] = work[v]
    BY <1>1, <2>1 DEF Work
  <2>4. TypeOK'
    BY <2>1, <2>2, <2>3 DEF IInv, TypeOK
  <2>5. FreshStart'
    BY <2>1, <2>3 DEF IInv, FreshStart, Refreshing
  <2> QED
    BY <2>2, <2>4, <2>5 DEF IInv, QuietAlone, QuietGood
<1> QED
  BY <1>3, <1>4, <1>6, <1>7, <1>8, <1>9 DEF Calls

LEMMA StepIInv == IInv /\ [Next]_vars => IInv'
<1> SUFFICES ASSUME IInv, [Next]_vars PROVE IInv'
  OBVIOUS
<1>1. ASSUME NEW f \in Files, Turn(f) \/ Edit(f) PROVE IInv'
  BY <1>1, WorldIInv
<1>2. CASE LoopTick
  <2>1. /\ Loop \in Workers /\ work[Loop].pc \in {"idle", "write"} /\ Joined(Loop)
        /\ work' = [work EXCEPT ![Loop].pc = "discover"]
        /\ UNCHANGED <<files, up, cache, writes, wasDown>>
    BY <1>2 DEF LoopTick, Workers, At
  <2> QED
    BY <2>1, BeginIInv
<1>3. ASSUME NEW h \in Handlers, Calls(h) PROVE IInv'
  BY <1>3, CallsIInv
<1>4. ASSUME NEW w \in Workers, Refresh(w) PROVE IInv'
  BY <1>4, ScanIInv, ProbeIInv, StoreIInv DEF Refresh
<1>5. CASE UNCHANGED vars
  BY <1>5 DEF vars, IInv, TypeOK, FreshStart, QuietAlone, QuietGood, Refreshing, ReadSoFar, Installed,
              ProbedSoFar, At, Readable, Read, Parses, Parsed, ListsRight, TrueStatus, WithAdmin
<1> QED
  BY <1>1, <1>2, <1>3, <1>4, <1>5 DEF Next

LEMMA InductiveInvariant == Spec => []IInv
  BY InitIInv, StepIInv, PTL DEF Spec

-----------------------------------------------------------------------------
(* The state has its type: scans, probes, saves and imports leave the      *)
(* files, the cache and their own progress in their ranges.                *)
THEOREM TypeCorrect == Spec => []TypeOK
<1>1. IInv => TypeOK
  BY DEF IInv
<1> QED
  BY <1>1, InductiveInvariant, PTL

(* However many files and calls there are, and whatever refreshes that     *)
(* overlapped or were cut off have left in the cache, a refresh that       *)
(* nothing disturbs leaves the files and the statuses as they are.         *)
THEOREM QuietRefreshesAreExact == Spec => QuietRefreshIsExact
<1> DEFINE QuietExact == \A w \in Workers : StoreStatuses(w) /\ w \in quiet => Exact'
<1>1. IInv /\ [Next]_vars => [QuietExact]_vars
  <2> SUFFICES ASSUME IInv, NEW w \in Workers, StoreStatuses(w), w \in quiet PROVE Exact'
    OBVIOUS
  <2>1. /\ cache' = Answered(cache, work[w].status) /\ UNCHANGED <<files, up>>
        /\ \A f \in Files : ListsRight(cache, f)
        /\ \A f \in Files : Parses(f) => work[w].status[f] = TrueStatus(f)
    BY DEF StoreStatuses, IInv, QuietGood, Installed, ProbedSoFar, At
  <2>2. /\ cache \in [Files -> Server \cup {None}] /\ files \in [Files -> Content \cup {None}]
        /\ None \notin Status
    BY WorkersAssumption DEF IInv, TypeOK, Listing
  <2>3. \A f \in Files : Parses(f) => TrueStatus(f) \in Status
    BY DEF TrueStatus, Status
  <2>4. ASSUME NEW f \in Files, Parses(f)
        PROVE  cache'[f] = Parsed(f, TrueStatus(f))
    <3>1. cache[f] \in Server /\ cache[f] # None
      BY <2>1, <2>2, <2>4 DEF ListsRight
    <3>2. cache'[f] = [cache[f] EXCEPT !.status = TrueStatus(f)]
      BY <2>1, <2>2, <2>3, <2>4, <3>1 DEF Answered
    <3>3. cache'[f] = [version |-> files[f].version, admin |-> files[f].kind = "admin",
                       status |-> TrueStatus(f)]
      BY <2>1, <2>4, <3>1, <3>2 DEF ListsRight, Server
    <3>4. TrueStatus(f) # None
      BY <2>2, <2>3, <2>4
    <3> QED
      BY <3>3, <3>4 DEF Parsed
  <2>5. ASSUME NEW f \in Files, ~Parses(f)
        PROVE  cache'[f] = None
    BY <2>1, <2>5 DEF ListsRight, Answered
  <2>6. cache' = [f \in Files |-> IF ~Parses(f) THEN None ELSE Parsed(f, TrueStatus(f))]
    BY <2>1, <2>4, <2>5 DEF Answered
  <2>7. /\ \A f \in Files : Parses(f)' = Parses(f) /\ TrueStatus(f)' = TrueStatus(f)
        /\ \A f \in Files, s \in Status : Parsed(f, s)' = Parsed(f, s)
    BY <2>1 DEF Parses, TrueStatus, Parsed
  <2> QED
    BY <2>1, <2>6 DEF Exact, Parses, TrueStatus, Parsed
<1> HIDE DEF QuietExact
<1>2. Spec => [][QuietExact]_vars
  BY <1>1, InductiveInvariant, PTL DEF Spec
<1> QED
  BY <1>2 DEF QuietRefreshIsExact, QuietExact

(* Answers of the probes only change statuses: however late they come,     *)
(* they bring back neither a server nor a content that a scan has replaced.*)
THEOREM AnswersListNothing == Spec => OnlyScansList
<1> DEFINE Listed == (\E f \in Files : \/ (cache[f] = None) # (cache'[f] = None)
                                       \/ cache[f] # None /\ cache'[f] # None
                                            /\ cache[f].version # cache'[f].version)
                       => \E w \in Workers : Install(w)
<1>1. IInv /\ [Next]_vars => [Listed]_vars
  <2> SUFFICES ASSUME IInv, Next, \A w \in Workers : ~Install(w), NEW f \in Files
               PROVE  /\ (cache[f] = None) <=> (cache'[f] = None)
                      /\ cache[f] # None => cache[f].version = cache'[f].version
    OBVIOUS
  <2>1. cache' = cache \/ \E w \in Workers : StoreStatuses(w)
    BY DEF Next, Turn, Edit, LoopTick, Calls, SaveBegin, ImportBegin, CallBegin, WriteFile, WriteFails,
           CallRefresh, Cancel, Refresh, Discover, SnapshotStatus, CopyServers, ReadFile, Probe
  <2>2. ASSUME NEW w \in Workers, StoreStatuses(w)
        PROVE  /\ (cache[f] = None) <=> (cache'[f] = None)
               /\ cache[f] # None => cache[f].version = cache'[f].version
    <3>1. cache \in [Files -> Server \cup {None}] /\ work[w].status \in Statuses
      BY DEF IInv, TypeOK, Listing, Work
    <3>2. cache'[f] = IF cache[f] # None /\ work[w].status[f] # None
                      THEN [cache[f] EXCEPT !.status = work[w].status[f]] ELSE cache[f]
      BY <2>2 DEF StoreStatuses, Answered
    <3>3. ASSUME cache[f] # None, work[w].status[f] # None
          PROVE  /\ [cache[f] EXCEPT !.status = work[w].status[f]] \in Server
                 /\ [cache[f] EXCEPT !.status = work[w].status[f]].version = cache[f].version
      BY <3>1, <3>3 DEF Server, Statuses
    <3>4. None \notin Server
      BY WorkersAssumption
    <3> QED
      BY <3>2, <3>3, <3>4
  <2> QED
    BY <2>1, <2>2
<1> HIDE DEF Listed
<1>2. Spec => [][Listed]_vars
  BY <1>1, InductiveInvariant, PTL DEF Spec
<1> QED
  BY <1>2 DEF OnlyScansList, Listed

-----------------------------------------------------------------------------
(* The text of a configuration: what the parsers have said of its lines so *)
(* far is what they have been told                                         *)

\* The header under which the next line stands, 0 for none.
LastHeader(h) == h \in Headers \cup {0} /\ \A g \in Headers : g <= h

\* The headers whose keys the parser of TOML keeps in one table and prefix.
InTable(h)  == IF h # 0 /\ config[h].kind = "elements" THEN h ELSE 0
InPrefix(h) == IF h # 0 /\ config[h].kind = "table" THEN config[h].name ELSE ""
ScopeOf(table, prefix) ==
  {h \in Headers \cup {0} : InTable(h) = table /\ InPrefix(h) = prefix}

ConfigTypeOK ==
  /\ config \in Seq(ConfigLine) /\ format \in {"toml", "ini"}
  /\ toml.proxies \in Seq(Nat) /\ toml.visitors \in Seq(Nat)
  /\ ini.order \in Seq(Tables) /\ ini.sections \in [Tables -> Nat]
  /\ DOMAIN toml = {"cur", "prefix", "open", "proxies", "visitors", "entries"}
  /\ DOMAIN ini = {"cur", "sections", "order", "entries"}
  /\ \E h \in Headers \cup {0} : LastHeader(h)

-----------------------------------------------------------------------------
(* What a line more changes *)

\* line is the one that is read, at n.
Grown(line, n) ==
  /\ n = Len(config) + 1
  /\ config \in Seq(ConfigLine) /\ line \in ConfigLine
  /\ config' = Append(config, line)

LEMMA LineFields ==
  ASSUME NEW line \in ConfigLine
  PROVE  /\ line.kind \in {"elements", "table", "value", "open", "item", "close", "blank"}
         /\ line.kind \in {"value", "open"} => line.key \in Keys
         /\ line.kind = "table" => line.name \in Tables
         /\ line.kind = "elements" => line.name \in {"proxies", "visitors", "other"}
BY ConfigAssumption DEF ConfigLine

LEMMA GrownLines ==
  ASSUME NEW line, NEW n, Grown(line, n)
  PROVE  /\ Len(config) \in Nat /\ Len(config') = n /\ n = Len(config) + 1 /\ n \in Nat
         /\ \A i \in 1..Len(config) : config'[i] = config[i]
         /\ config'[n] = line /\ n \in 1..Len(config')
         /\ 1..Len(config') = 1..Len(config) \cup {n}
         /\ config' \in Seq(ConfigLine)
BY DEF Grown

LEMMA GrownHeaders ==
  ASSUME NEW line, NEW n, Grown(line, n)
  PROVE  /\ Headers \subseteq 1..Len(config)
         /\ line.kind \in {"elements", "table"} => Headers' = Headers \cup {n}
         /\ line.kind \notin {"elements", "table"} => Headers' = Headers
         /\ \A h \in Headers : config'[h] = config[h]
         /\ n \notin Headers /\ 0 \notin Headers
<1>1. n \notin 1..Len(config) /\ 0 \notin 1..Len(config)
  BY GrownLines
<1> QED BY <1>1, GrownLines DEF Headers

(* The last header is the line itself, or the one before.                  *)
LEMMA GrownLast ==
  ASSUME NEW line, NEW n, Grown(line, n), \E h \in Headers \cup {0} : LastHeader(h)
  PROVE  /\ line.kind \in {"elements", "table"} => \A h : LastHeader(h)' <=> h = n
         /\ line.kind \notin {"elements", "table"} => \A h : LastHeader(h)' <=> LastHeader(h)
         /\ (\E h \in Headers \cup {0} : LastHeader(h))'
<1>1. CASE line.kind \in {"elements", "table"}
  <2>1. Headers' = Headers \cup {n} /\ \A g \in Headers : g < n /\ g \in Nat
    BY <1>1, GrownHeaders, GrownLines
  <2>2. n \in Nat /\ 0 < n
    BY GrownLines
  <2>3. ASSUME NEW h PROVE LastHeader(h)' <=> h = n
    BY <2>1, <2>2 DEF LastHeader
  <2> QED BY <1>1, <2>1, <2>3
<1>2. CASE line.kind \notin {"elements", "table"}
  BY <1>2, GrownHeaders DEF LastHeader
<1> QED BY <1>1, <1>2

LEMMA OneLast ==
  ASSUME config \in Seq(ConfigLine), NEW g, NEW h, LastHeader(g), LastHeader(h)
  PROVE  g = h
BY DEF LastHeader, Headers

LEMMA GrownUnder ==
  ASSUME NEW line, NEW n, Grown(line, n)
  PROVE  /\ \A i \in 1..Len(config), h \in 0..n : Under(i, h)' <=> Under(i, h)
         /\ \A i \in 1..Len(config) : ~Under(i, n)
         /\ \A h \in Headers \cup {0} : Under(n, h)' <=> LastHeader(h)
         /\ ~Under(n, n)'
<1>1. \A g \in Headers : g \in Nat /\ g < n
  BY GrownHeaders, GrownLines
<1>2. Len(config) \in Nat /\ n \in Nat /\ n = Len(config) + 1
  BY GrownLines
<1>3. Headers' = Headers \/ Headers' = Headers \cup {n}
  BY GrownHeaders
<1> QED BY <1>1, <1>2, <1>3 DEF Under, LastHeader

\* The line is for the key, and stands under one of the headers.
NewlySaid(line, key, headers) ==
  line.kind \in {"value", "open"} /\ line.key = key /\ \E h \in headers : LastHeader(h)

Fits(headers, n) == headers \subseteq Headers \cup {0, n}

(* A line more is said, or not, under some headers.                        *)
LEMMA GrownSaid ==
  ASSUME NEW line, NEW n, Grown(line, n), NEW key, NEW headers, Fits(headers, n)
  PROVE  /\ Said(key, headers)' = Said(key, headers)
               \cup IF NewlySaid(line, key, headers) THEN {n} ELSE {}
         /\ Said(key, headers) \subseteq 1..Len(config)
<1>1. /\ \A i \in 1..Len(config), h \in headers : Under(i, h)' <=> Under(i, h)
      /\ \A i \in 1..Len(config) : ~Under(i, n)
      /\ (\E h \in headers : Under(n, h)') <=> \E h \in headers : LastHeader(h)
  <2>1. headers \subseteq 0..n /\ ~LastHeader(n)
    BY GrownHeaders, GrownLines DEF LastHeader, Fits
  <2> QED BY <2>1, GrownUnder DEF Fits
<1>2. /\ \A i \in 1..Len(config) : config'[i] = config[i]
      /\ config'[n] = line /\ 1..Len(config') = 1..Len(config) \cup {n}
  BY GrownLines
<1>3. Said(key, headers)' = {i \in 1..Len(config') :
            /\ config'[i].kind \in {"value", "open"} /\ config'[i].key = key
            /\ \E h \in headers : Under(i, h)'}
  BY DEF Said
<1>4. Said(key, headers)' = Said(key, headers)
               \cup IF NewlySaid(line, key, headers) THEN {n} ELSE {}
  BY <1>1, <1>2, <1>3 DEF Said, NewlySaid
<1> QED BY <1>1, <1>4 DEF Said

LEMMA GrownStrings ==
  ASSUME NEW line, NEW n, Grown(line, n),
         NEW i \in 1..Len(config), config[i].kind \in {"value", "open"}
  PROVE  Strings(i)' = Strings(i)
           \cup IF line.kind = "item" /\ i \in Opened(Len(config)) THEN {n} ELSE {}
<1>0. /\ Len(config) \in Nat /\ n = Len(config) + 1 /\ i \in Nat /\ 1 <= i
      /\ Len(config') = n
      /\ \A j \in 1..Len(config) : config'[j] = config[j]
      /\ config'[n] = line
  BY GrownLines
<1>1. CASE config[i].kind = "value"
  <2>1. i \notin Opened(Len(config))
    BY <1>1 DEF Opened
  <2> QED BY <1>0, <1>1, <2>1 DEF Strings
<1>2. CASE config[i].kind = "open"
  <2>1. Strings(i)' = {j \in i..n : /\ config'[j].kind = "item"
                                        /\ \A k \in i..j : config'[k].kind # "close"}
    BY <1>0, <1>2 DEF Strings
  <2>2. Strings(i) = {j \in i..Len(config) : /\ config[j].kind = "item"
                                              /\ \A k \in i..j : config[k].kind # "close"}
    BY <1>2 DEF Strings
  <2>3. ASSUME NEW j \in i..Len(config)
        PROVE  j \in Strings(i)' <=> j \in Strings(i)
    <3>1. j \in i..n /\ \A k \in i..j : config'[k] = config[k]
      BY <1>0
    <3>2. j \in Strings(i)' <=> config'[j].kind = "item" /\ \A k \in i..j : config'[k].kind # "close"
      BY <2>1, <3>1
    <3>3. j \in Strings(i) <=> config[j].kind = "item" /\ \A k \in i..j : config[k].kind # "close"
      BY <2>2
    <3> QED BY <1>0, <3>1, <3>2, <3>3
  <2>4. n \in Strings(i)' <=> line.kind = "item" /\ i \in Opened(Len(config))
    BY <1>0, <1>2, <2>1 DEF Opened
  <2>5. \A j \in Strings(i)' : j \in i..Len(config) \/ j = n
    BY <1>0, <2>1
  <2>6. \A j \in Strings(i) : j \in i..Len(config)
    BY <2>2
  <2> QED BY <2>3, <2>4, <2>5, <2>6
<1> QED BY <1>1, <1>2

LEMMA NewStrings ==
  ASSUME NEW line, NEW n, Grown(line, n), line.kind \in {"value", "open"}
  PROVE  Strings(n)' = IF line.kind = "value" THEN {n} ELSE {}
<1>1. n \in Nat /\ Len(config') = n /\ config'[n] = line
  BY GrownLines
<1>2. CASE line.kind = "value"
  BY <1>1, <1>2 DEF Strings
<1>3. CASE line.kind = "open"
  <2>1. Strings(n)' = {j \in n..n : /\ config'[j].kind = "item"
                                  /\ \A k \in n..j : config'[k].kind # "close"}
    BY <1>1, <1>3 DEF Strings
  <2>2. \A j \in n..n : config'[j].kind # "item"
    BY <1>1, <1>3
  <2> QED BY <1>3, <2>1, <2>2
<1> QED BY <1>2, <1>3

\* The array that is open is what the last line for the key says.
LastIsOpen(key, headers) ==
  \E i \in Opened(Len(config)) :
    i \in Said(key, headers) /\ \A j \in Said(key, headers) : j <= i

(* What the last line for a key says changes with a line for it, and with  *)
(* a string of its array.                                                  *)
LEMMA GrownLastSaid ==
  ASSUME NEW line, NEW n, Grown(line, n), NEW key, NEW headers, Fits(headers, n)
  PROVE  LastSaid(key, headers)' =
           IF NewlySaid(line, key, headers) THEN IF line.kind = "value" THEN {n} ELSE {}
           ELSE LastSaid(key, headers)
                  \cup IF line.kind = "item" /\ LastIsOpen(key, headers) THEN {n} ELSE {}
<1>1. /\ Said(key, headers)' = Said(key, headers)
               \cup IF NewlySaid(line, key, headers) THEN {n} ELSE {}
      /\ Said(key, headers) \subseteq 1..Len(config)
  BY GrownSaid
<1>2. Len(config) \in Nat /\ n = Len(config) + 1 /\ n \in Nat
  BY GrownLines
<1>3. LastSaid(key, headers)' =
        UNION {Strings(i)' : i \in {i \in Said(key, headers)' :
                                      \A j \in Said(key, headers)' : j <= i}}
  BY DEF LastSaid
<1>4. ASSUME NewlySaid(line, key, headers)
      PROVE  LastSaid(key, headers)' = IF line.kind = "value" THEN {n} ELSE {}
  <2>1. {i \in Said(key, headers)' : \A j \in Said(key, headers)' : j <= i} = {n}
    <3>1. /\ Said(key, headers)' = Said(key, headers) \cup {n}
          /\ \A i \in Said(key, headers) : i \in Nat /\ i < n
      BY <1>1, <1>2, <1>4
    <3> QED BY <1>2, <3>1
  <2>2. LastSaid(key, headers)' = Strings(n)'
    BY <1>3, <2>1
  <2> QED BY <1>4, <2>2, NewStrings DEF NewlySaid
<1>5. ASSUME ~NewlySaid(line, key, headers)
      PROVE  LastSaid(key, headers)' = LastSaid(key, headers)
                \cup IF line.kind = "item" /\ LastIsOpen(key, headers) THEN {n} ELSE {}
  <2> DEFINE Lasts == {i \in Said(key, headers) : \A j \in Said(key, headers) : j <= i}
  <2>1. LastSaid(key, headers)' = UNION {Strings(i)' : i \in Lasts}
    BY <1>1, <1>3, <1>5
  <2>2. \A i \in Lasts :
          Strings(i)' = Strings(i)
            \cup IF line.kind = "item" /\ i \in Opened(Len(config)) THEN {n} ELSE {}
    <3> TAKE i \in Lasts
    <3>1. i \in 1..Len(config) /\ config[i].kind \in {"value", "open"}
      BY <1>1 DEF Said
    <3> QED BY <3>1, GrownStrings
  <2>3. LastSaid(key, headers) = UNION {Strings(i) : i \in Lasts}
    BY DEF LastSaid
  <2> QED BY <2>1, <2>2, <2>3 DEF LastIsOpen
<1> QED BY <1>4, <1>5

(* Under the line that is read nothing has been said.                      *)
LEMMA SaidBefore ==
  ASSUME NEW line, NEW n, Grown(line, n), NEW key, NEW headers, Fits(headers, n)
  PROVE  LastSaid(key, headers \ {n}) = LastSaid(key, headers)
<1>1. Said(key, headers \ {n}) = Said(key, headers)
  BY GrownUnder DEF Said
<1> QED BY <1>1 DEF LastSaid

-----------------------------------------------------------------------------
(* The inductive invariant of parseFrpcTOML *)

TomlWhere ==
  \A h : LastHeader(h) => toml.cur = InTable(h) /\ toml.prefix = InPrefix(h)

Prefixes == Tables \cup {""}

TomlEntriesTell ==
  \A table \in Nat, prefix \in Prefixes, key \in Keys :
    ValueOf(toml.entries, table, prefix, key) = LastSaid(key, ScopeOf(table, prefix))

\* After the line that has opened an array only lines of it have come.
NoName(name) == name = ""

TomlOpenTells ==
  /\ Opened(Len(config)) = {} <=> NoName(toml.open)
  /\ \A i \in Opened(Len(config)) :
       /\ toml.open = config[i].key
       /\ \A j \in 1..Len(config) : i < j => config[j].kind \in {"item", "blank"}

TomlIInv ==
  format = "toml" =>
    /\ TomlWhere
    /\ TomlEntriesTell
    /\ TomlOpenTells
    /\ InOrder(toml.proxies, HeadersOf("elements", "proxies"))
    /\ InOrder(toml.visitors, HeadersOf("elements", "visitors"))

(* The inductive invariant of parseFrpcINI *)

IniKinds == \A i \in 1..Len(config) : config[i].kind \in {"table", "value", "blank"}

IniWhere ==
  \A h : LastHeader(h) => IF h = 0 THEN NoName(ini.cur) ELSE ini.cur = config[h].name

IniTables == \A e \in ini.entries : e.table \in 0..Len(config)

IniSectionsTell ==
  \A name \in Tables :
    IF HeadersOf("table", name) = {} THEN ini.sections[name] = 0
    ELSE Begins(ini.sections[name], name)

IniEntriesTell ==
  \A name \in Tables, key \in Keys :
    InSection(name, key) = LastSaid(key, HeadersOf("table", name))

IniOrdered ==
  /\ {ini.order[i] : i \in DOMAIN ini.order} = {name \in Tables : ini.sections[name] # 0}
  /\ \A i, j \in DOMAIN ini.order :
       i < j => ini.sections[ini.order[i]] < ini.sections[ini.order[j]]

IniIInv ==
  format = "ini" =>
    /\ IniKinds
    /\ IniWhere
    /\ IniSectionsTell
    /\ IniTables
    /\ IniEntriesTell
    /\ IniOrdered

ConfigIInv == ConfigTypeOK /\ TomlIInv /\ IniIInv

-----------------------------------------------------------------------------
LEMMA GrownOpened ==
  ASSUME NEW line, NEW n, Grown(line, n)
  PROVE  Opened(Len(config))' = IF line.kind = "close" THEN {}
                                ELSE Opened(Len(config)) \cup IF line.kind = "open" THEN {n} ELSE {}
<1>1. /\ Len(config) \in Nat /\ Len(config') = n /\ n = Len(config) + 1
      /\ \A i \in 1..Len(config) : config'[i] = config[i]
      /\ config'[n] = line
  BY GrownLines
<1>2. Opened(Len(config))' =
        {j \in 1..n : config'[j].kind = "open" /\ \A k \in j..n : config'[k].kind # "close"}
  BY <1>1 DEF Opened
<1>3. Opened(Len(config)) =
        {j \in 1..Len(config) : /\ config[j].kind = "open"
                               /\ \A k \in j..Len(config) : config[k].kind # "close"}
  BY DEF Opened
<1>4. \A j \in 1..Len(config) :
        j \in Opened(Len(config))' <=> j \in Opened(Len(config)) /\ line.kind # "close"
  BY <1>1, <1>2, <1>3
<1>5. n \in Opened(Len(config))' <=> line.kind = "open"
  BY <1>1, <1>2
<1>6. Opened(Len(config))' \subseteq 1..Len(config) \cup {n}
  BY <1>1, <1>2
<1>7. Opened(Len(config)) \subseteq 1..Len(config)
  BY <1>3
<1> QED BY <1>4, <1>5, <1>6, <1>7

LEMMA GrownHeadersOf ==
  ASSUME NEW line, NEW n, Grown(line, n), NEW kind \in {"elements", "table"}, NEW name
  PROVE  /\ HeadersOf(kind, name)' = HeadersOf(kind, name)
               \cup IF line.kind = kind /\ line.name = name THEN {n} ELSE {}
         /\ HeadersOf(kind, name) \subseteq Headers /\ n \notin HeadersOf(kind, name)
<1>1. config'[n] = line
  BY GrownLines
<1> QED BY <1>1, GrownHeaders DEF HeadersOf

LEMMA GrownPlace ==
  ASSUME NEW line, NEW n, Grown(line, n)
  PROVE  /\ \A h \in Headers \cup {0} : InTable(h)' = InTable(h) /\ InPrefix(h)' = InPrefix(h)
         /\ InTable(n)' = IF line.kind = "elements" THEN n ELSE 0
         /\ InPrefix(n)' = IF line.kind = "table" THEN line.name ELSE ""
<1>1. config'[n] = line /\ n # 0 /\ n \in Nat
  BY GrownLines
<1>2. \A h \in Headers : config'[h] = config[h]
  BY GrownHeaders
<1> QED BY <1>1, <1>2 DEF InTable, InPrefix

(* A scope may grow by the line that is read.                              *)
LEMMA GrownScope ==
  ASSUME NEW line, NEW n, Grown(line, n), NEW table, NEW prefix
  PROVE  /\ ScopeOf(table, prefix)' \in SUBSET (Headers \cup {0, n})
         /\ ScopeOf(table, prefix) = ScopeOf(table, prefix)' \ {n}
<1>1. /\ Headers' \in {Headers, Headers \cup {n}}
      /\ n \notin Headers \cup {0}
  BY GrownHeaders, GrownLines
<1>2. ScopeOf(table, prefix)' \in SUBSET (Headers \cup {0, n})
  BY <1>1 DEF ScopeOf
<1>3. ScopeOf(table, prefix) = ScopeOf(table, prefix)' \ {n}
  BY <1>1, GrownPlace DEF ScopeOf
<1> QED BY <1>2, <1>3

(* Assign changes the value of the one key.                                *)
LEMMA AssignTells ==
  ASSUME NEW entries, NEW table, NEW prefix, NEW key, NEW value, NEW t, NEW p, NEW k
  PROVE  ValueOf(Assign(entries, table, prefix, key, value), t, p, k) =
           IF t = table /\ p = prefix /\ k = key THEN value ELSE ValueOf(entries, t, p, k)
<1> DEFINE new == [table : {table}, prefix : {prefix}, key : {key}, line : value]
<1>1. \A e \in new : e.table = table /\ e.prefix = prefix /\ e.key = key /\ e.line \in value
  OBVIOUS
<1>2. \A v \in value : \E e \in new : e.line = v
  <2> TAKE v \in value
  <2> WITNESS [table |-> table, prefix |-> prefix, key |-> key, line |-> v] \in new
  <2> QED OBVIOUS
<1> HIDE DEF new
<1>3. Assign(entries, table, prefix, key, value) =
        {e \in entries : ~(e.table = table /\ e.prefix = prefix /\ e.key = key)} \cup new
  BY DEF Assign, new
<1>4. CASE t = table /\ p = prefix /\ k = key
  BY <1>1, <1>2, <1>3, <1>4 DEF ValueOf
<1>5. CASE ~(t = table /\ p = prefix /\ k = key)
  BY <1>1, <1>3, <1>5 DEF ValueOf
<1> QED BY <1>4, <1>5

LEMMA OneMoreInOrder ==
  ASSUME NEW list \in Seq(Nat), NEW headers \in SUBSET Nat, NEW n \in Nat,
         \A h \in headers : h < n, InOrder(list, headers)
  PROVE  InOrder(Append(list, n), headers \cup {n})
<1>1. /\ Len(list) \in Nat /\ Len(Append(list, n)) = Len(list) + 1
      /\ DOMAIN list = 1..Len(list) /\ DOMAIN Append(list, n) = 1..(Len(list) + 1)
      /\ \A i \in 1..Len(list) : Append(list, n)[i] = list[i]
      /\ Append(list, n)[Len(list) + 1] = n
  OBVIOUS
<1>2. /\ \A i, j \in 1..Len(list) : i < j => list[i] < list[j]
      /\ {list[i] : i \in 1..Len(list)} = headers
  BY <1>1 DEF InOrder
<1> DEFINE more == Append(list, n)
<1> HIDE DEF more
<1>3. \A i, j \in 1..(Len(list) + 1) : i < j => more[i] < more[j]
  BY <1>1, <1>2 DEF more
<1>4. {more[i] : i \in 1..(Len(list) + 1)} = {more[i] : i \in 1..Len(list)} \cup {more[Len(list) + 1]}
  BY <1>1
<1>5. {more[i] : i \in 1..(Len(list) + 1)} = headers \cup {n}
  BY <1>1, <1>2, <1>4 DEF more
<1> QED BY <1>1, <1>3, <1>5 DEF InOrder, more

(* An array that is open goes on where the parser is.                      *)
LEMMA OpenIsTheLast ==
  ASSUME config \in Seq(ConfigLine), TomlOpenTells, ~NoName(toml.open),
         NEW n, n = Len(config) + 1, NEW key, NEW headers, Fits(headers, n)
  PROVE  LastIsOpen(key, headers) <=> key = toml.open /\ \E h \in headers : LastHeader(h)
<1>1. PICK i : i \in Opened(Len(config))
  BY DEF TomlOpenTells
<1>2. i \in 1..Len(config) /\ config[i].kind = "open" /\ Len(config) \in Nat
  BY <1>1 DEF Opened
<1>3. /\ config[i].key = toml.open
      /\ \A j \in 1..Len(config) : i < j => config[j].kind \in {"item", "blank"}
  BY <1>1 DEF TomlOpenTells
<1>4. \A j \in Opened(Len(config)) : j = i
  <2> TAKE j \in Opened(Len(config))
  <2>1. /\ j \in 1..Len(config) /\ config[j].kind = "open"
        /\ \A k \in 1..Len(config) : j < k => config[k].kind \in {"item", "blank"}
    BY DEF TomlOpenTells, Opened
  <2> QED BY <1>2, <1>3, <2>1
<1>5. \A g \in Headers : g < i /\ g \in Nat
  BY <1>2, <1>3 DEF Headers
<1>6. \A h \in headers : Under(i, h) <=> LastHeader(h)
  <2>1. n \notin Headers \cup {0} /\ ~(n < i) /\ n \in Nat
    BY <1>2, <1>5
  <2> QED BY <1>2, <1>5, <2>1 DEF Under, LastHeader, Fits
<1>7. \A j \in Said(key, headers) : j <= i
  BY <1>2, <1>3 DEF Said
<1>8. i \in Said(key, headers) <=> key = toml.open /\ \E h \in headers : LastHeader(h)
  BY <1>2, <1>3, <1>6 DEF Said
<1> QED BY <1>1, <1>4, <1>7, <1>8 DEF LastIsOpen

(* The parser is in the scope of the last header, and in no other.         *)
LEMMA ScopeOfTheLast ==
  ASSUME ConfigTypeOK, TomlWhere, NEW table, NEW prefix
  PROVE  (\E h \in ScopeOf(table, prefix) : LastHeader(h)) <=>
           table = toml.cur /\ prefix = toml.prefix
<1>1. PICK g \in Headers \cup {0} : LastHeader(g)
  BY DEF ConfigTypeOK
<1>2. \A h : LastHeader(h) => h = g
  BY <1>1, OneLast DEF ConfigTypeOK
<1> QED BY <1>1, <1>2 DEF TomlWhere, ScopeOf

-----------------------------------------------------------------------------
(* Steps of parseFrpcTOML *)

TomlReads(line, n) ==
  /\ ConfigTypeOK /\ TomlIInv /\ format = "toml" /\ format' = format
  /\ line \in ConfigLine /\ Grown(line, n) /\ Allowed(line)
  /\ toml' = TomlLine(line)

\* What the step changes, of the parser's variables.
LEMMA TomlLineDoes ==
  ASSUME NEW line, NEW n, TomlReads(line, n)
  PROVE  /\ DOMAIN toml' = DOMAIN toml
         /\ line.kind \in {"item", "close"} <=> ~NoName(toml.open) /\ line.kind # "blank"
         /\ toml'.open = CASE line.kind = "open" -> line.key
                           [] line.kind = "close" -> ""
                           [] OTHER -> toml.open
         /\ toml'.cur = CASE line.kind = "elements" -> n
                          [] line.kind = "table" -> 0
                          [] OTHER -> toml.cur
         /\ toml'.prefix = CASE line.kind = "elements" -> ""
                             [] line.kind = "table" -> line.name
                             [] OTHER -> toml.prefix
         /\ toml'.proxies = IF line.kind = "elements" /\ line.name = "proxies"
                            THEN Append(toml.proxies, n) ELSE toml.proxies
         /\ toml'.visitors = IF line.kind = "elements" /\ line.name = "visitors"
                             THEN Append(toml.visitors, n) ELSE toml.visitors
         /\ line.kind \notin {"value", "open", "item"} => toml'.entries = toml.entries
         /\ line.kind \in {"value", "open"} =>
              toml'.entries = Assign(toml.entries, toml.cur, toml.prefix, line.key,
                                     IF line.kind = "value" THEN {n} ELSE {})
         /\ line.kind = "item" =>
              toml'.entries = Assign(toml.entries, toml.cur, toml.prefix, toml.open,
                                     Current(toml.open) \cup {n})
<1>1. /\ DOMAIN toml = {"cur", "prefix", "open", "proxies", "visitors", "entries"}
      /\ toml' = TomlLine(line) /\ Here = n
      /\ line.kind \in {"elements", "table", "value", "open", "item", "close", "blank"}
  BY LineFields DEF TomlReads, ConfigTypeOK, Grown, Here
<1>2. /\ line.kind \in {"item", "close"} => toml.open # ""
      /\ toml.open # "" => line.kind \in {"item", "close", "blank"}
  BY DEF TomlReads, Allowed, TomlIInv, TomlOpenTells, NoName
<1>3. CASE line.kind \in {"value", "open"}
  BY <1>1, <1>2, <1>3 DEF TomlLine, Set, NoName
<1>4. CASE line.kind = "item"
  BY <1>1, <1>2, <1>4 DEF TomlLine, Set, NoName
<1>5. CASE line.kind \in {"close", "blank"}
  BY <1>1, <1>2, <1>5 DEF TomlLine, NoName
<1>6. CASE line.kind = "elements"
  BY <1>1, <1>2, <1>6 DEF TomlLine, Element, NoName
<1>7. CASE line.kind = "table"
  BY <1>1, <1>2, <1>7 DEF TomlLine, EnterTable, NoName
<1> QED BY <1>1, <1>3, <1>4, <1>5, <1>6, <1>7

LEMMA TomlWhereStep ==
  ASSUME NEW line, NEW n, TomlReads(line, n)
  PROVE  TomlWhere'
<1>1. Grown(line, n) /\ (\E h \in Headers \cup {0} : LastHeader(h)) /\ TomlWhere
  BY DEF TomlReads, ConfigTypeOK, TomlIInv
<1>2. CASE line.kind \in {"elements", "table"}
  <2>1. \A h : LastHeader(h)' => h = n
    BY <1>1, <1>2, GrownLast
  <2>2. toml'.cur = InTable(n)' /\ toml'.prefix = InPrefix(n)'
    BY <1>1, <1>2, TomlLineDoes, GrownPlace
  <2> QED BY <2>1, <2>2 DEF TomlWhere
<1>3. CASE line.kind \notin {"elements", "table"}
  <2>1. toml'.cur = toml.cur /\ toml'.prefix = toml.prefix
    BY <1>3, TomlLineDoes
  <2>2. \A h : LastHeader(h)' => LastHeader(h) /\ h \in Headers \cup {0}
    BY <1>1, <1>3, GrownLast DEF LastHeader
  <2>3. \A h \in Headers \cup {0} : InTable(h)' = InTable(h) /\ InPrefix(h)' = InPrefix(h)
    BY <1>1, GrownPlace
  <2> QED BY <1>1, <2>1, <2>2, <2>3 DEF TomlWhere
<1> QED BY <1>2, <1>3

LEMMA TomlEntriesStep ==
  ASSUME NEW line, NEW n, TomlReads(line, n)
  PROVE  TomlEntriesTell'
<1>0. /\ Grown(line, n) /\ ConfigTypeOK /\ TomlWhere /\ TomlEntriesTell /\ TomlOpenTells
      /\ config \in Seq(ConfigLine)
  BY DEF TomlReads, TomlIInv, ConfigTypeOK
<1> SUFFICES ASSUME NEW t \in Nat, NEW p \in Prefixes, NEW k \in Keys
             PROVE  ValueOf(toml'.entries, t, p, k) = LastSaid(k, ScopeOf(t, p))'
  BY DEF TomlEntriesTell
<1>1. PICK scope : scope = ScopeOf(t, p)'
  OBVIOUS
<1>2. Fits(scope, n) /\ ScopeOf(t, p) = scope \ {n}
  <2>1. ScopeOf(t, p)' \in SUBSET (Headers \cup {0, n})
    BY <1>0, GrownScope
  <2>2. ScopeOf(t, p) = ScopeOf(t, p)' \ {n}
    BY <1>0, GrownScope
  <2> QED BY <1>1, <2>1, <2>2 DEF Fits
<1>3. ValueOf(toml.entries, t, p, k) = LastSaid(k, scope)
  <2>1. Grown(line, n) /\ Fits(scope, n)
    BY <1>0, <1>2
  <2>2. LastSaid(k, scope \ {n}) = LastSaid(k, scope)
    BY <2>1, SaidBefore
  <2> QED BY <1>0, <1>2, <2>2 DEF TomlEntriesTell
<1>4. (\E h \in scope : LastHeader(h)) <=> t = toml.cur /\ p = toml.prefix
  <2>1. ~LastHeader(n)
    BY <1>0, GrownHeaders, GrownLines DEF LastHeader
  <2> QED BY <1>0, <1>2, <2>1, ScopeOfTheLast
<1>5. LastSaid(k, ScopeOf(t, p))' = LastSaid(k, scope)'
  BY <1>1
<1>6. LastSaid(k, scope)' =
        IF NewlySaid(line, k, scope) THEN IF line.kind = "value" THEN {n} ELSE {}
        ELSE LastSaid(k, scope) \cup IF line.kind = "item" /\ LastIsOpen(k, scope) THEN {n} ELSE {}
  <2>1. Grown(line, n) /\ Fits(scope, n)
    BY <1>0, <1>2
  <2> QED BY <2>1, GrownLastSaid
<1>7. CASE line.kind \in {"value", "open"}
  <2> DEFINE value == IF line.kind = "value" THEN {n} ELSE {}
  <2>1. NewlySaid(line, k, scope) <=> t = toml.cur /\ p = toml.prefix /\ k = line.key
    BY <1>4, <1>7 DEF NewlySaid
  <2>2. LastSaid(k, scope)' = IF t = toml.cur /\ p = toml.prefix /\ k = line.key
                             THEN value ELSE LastSaid(k, scope)
    BY <1>6, <1>7, <2>1
  <2>3. toml'.entries = Assign(toml.entries, toml.cur, toml.prefix, line.key, value)
    BY <1>7, TomlLineDoes
  <2> HIDE DEF value
  <2> QED BY <1>3, <1>5, <2>2, <2>3, AssignTells
<1>8. CASE line.kind \notin {"value", "open", "item"}
  <2>1. LastSaid(k, scope)' = LastSaid(k, scope)
    BY <1>6, <1>8 DEF NewlySaid
  <2>2. toml'.entries = toml.entries
    BY <1>8, TomlLineDoes
  <2> QED BY <1>3, <1>5, <2>1, <2>2
<1>9. CASE line.kind = "item"
  <2> DEFINE value == Current(toml.open) \cup {n}
  <2>1. ~NoName(toml.open)
    BY <1>9, TomlLineDoes
  <2>2. toml'.entries = Assign(toml.entries, toml.cur, toml.prefix, toml.open, value)
    BY <1>9, TomlLineDoes
  <2>3. LastIsOpen(k, scope) <=> k = toml.open /\ t = toml.cur /\ p = toml.prefix
    <3>1. n = Len(config) + 1
      BY <1>0, GrownLines
    <3> QED BY <1>0, <1>2, <1>4, <2>1, <3>1, OpenIsTheLast
  <2>4. LastSaid(k, scope)' = IF LastIsOpen(k, scope) THEN LastSaid(k, scope) \cup {n}
                             ELSE LastSaid(k, scope)
    BY <1>6, <1>9 DEF NewlySaid
  <2>5. LastIsOpen(k, scope) => value = LastSaid(k, scope) \cup {n}
    BY <1>3, <2>3 DEF Current
  <2>6. ValueOf(toml'.entries, t, p, k) =
          IF LastIsOpen(k, scope) THEN value ELSE ValueOf(toml.entries, t, p, k)
    BY <2>2, <2>3, AssignTells
  <2> QED BY <1>3, <1>5, <2>4, <2>5, <2>6
<1> QED BY <1>7, <1>8, <1>9

LEMMA TomlOpenStep ==
  ASSUME NEW line, NEW n, TomlReads(line, n)
  PROVE  TomlOpenTells'
<1>0. /\ Grown(line, n) /\ TomlOpenTells /\ line \in ConfigLine
      /\ line.kind = "open" => ~NoName(line.key)
  BY LineFields, ConfigAssumption DEF TomlReads, TomlIInv, NoName
<1>1. /\ Len(config) \in Nat /\ n = Len(config) + 1
      /\ \A i \in 1..Len(config) : config'[i] = config[i]
      /\ config'[n] = line /\ 1..Len(config') = 1..Len(config) \cup {n}
  BY <1>0, GrownLines
<1>2. Opened(Len(config))' = IF line.kind = "close" THEN {}
        ELSE Opened(Len(config)) \cup IF line.kind = "open" THEN {n} ELSE {}
  BY <1>0, GrownOpened
<1>3. Opened(Len(config)) \subseteq 1..Len(config)
  BY DEF Opened
<1>4. /\ line.kind \in {"item", "close"} <=> ~NoName(toml.open) /\ line.kind # "blank"
      /\ toml'.open = CASE line.kind = "open" -> line.key
                        [] line.kind = "close" -> ""
                        [] OTHER -> toml.open
  BY TomlLineDoes
<1>5. CASE line.kind \in {"open", "close"}
  <2>1. line.kind = "open" => Opened(Len(config)) = {}
    BY <1>0, <1>4 DEF TomlOpenTells
  <2>2. Opened(Len(config))' = IF line.kind = "open" THEN {n} ELSE {}
    BY <1>2, <1>5, <2>1
  <2>3. toml'.open = IF line.kind = "open" THEN line.key ELSE ""
    BY <1>4, <1>5
  <2>4. NoName(toml'.open) <=> line.kind = "close"
    <3>1. line.kind = "open" => toml'.open = line.key /\ ~NoName(line.key)
      BY <1>0, <2>3
    <3>2. line.kind = "close" => NoName(toml'.open)
      BY <2>3 DEF NoName
    <3> QED BY <1>5, <3>1, <3>2
  <2>5. \A i \in Opened(Len(config))' : i = n /\ line.kind = "open"
    BY <2>2
  <2>6. \A j \in 1..Len(config') : ~(n < j)
    BY <1>1
  <2>7. line.kind = "open" => toml'.open = config'[n].key
    BY <1>1, <2>3
  <2> QED BY <1>5, <2>2, <2>4, <2>5, <2>6, <2>7 DEF TomlOpenTells
<1>6. CASE line.kind \notin {"open", "close"}
  <2>1. Opened(Len(config))' = Opened(Len(config)) /\ toml'.open = toml.open
    BY <1>2, <1>4, <1>6
  <2>2. Opened(Len(config)) # {} => line.kind \in {"item", "blank"}
    BY <1>0, <1>4, <1>6 DEF TomlOpenTells
  <2> QED BY <1>0, <1>1, <1>3, <2>1, <2>2 DEF TomlOpenTells
<1> QED BY <1>5, <1>6

LEMMA TomlStep ==
  ASSUME NEW line, NEW n, TomlReads(line, n)
  PROVE  /\ TomlIInv'
         /\ DOMAIN toml' = DOMAIN toml
         /\ toml'.proxies \in Seq(Nat) /\ toml'.visitors \in Seq(Nat)
<1>0. /\ Grown(line, n) /\ n \in Nat /\ \A h \in Headers : h \in Nat /\ h < n
      /\ toml.proxies \in Seq(Nat) /\ toml.visitors \in Seq(Nat)
      /\ InOrder(toml.proxies, HeadersOf("elements", "proxies"))
      /\ InOrder(toml.visitors, HeadersOf("elements", "visitors"))
  <2>1. Grown(line, n)
    BY DEF TomlReads
  <2>2. n \in Nat /\ \A h \in Headers : h \in Nat /\ h < n
    BY <2>1, GrownLines, GrownHeaders
  <2> QED BY <2>1, <2>2 DEF TomlReads, ConfigTypeOK, TomlIInv
<1>1. ASSUME NEW list \in Seq(Nat), NEW more, NEW name,
             InOrder(list, HeadersOf("elements", name)),
             more = IF line.kind = "elements" /\ line.name = name THEN Append(list, n) ELSE list
      PROVE  InOrder(more, HeadersOf("elements", name)') /\ more \in Seq(Nat)
  <2>1. /\ HeadersOf("elements", name)' = HeadersOf("elements", name)
               \cup IF line.kind = "elements" /\ line.name = name THEN {n} ELSE {}
        /\ HeadersOf("elements", name) \subseteq Headers
    BY <1>0, GrownHeadersOf
  <2>2. HeadersOf("elements", name) \in SUBSET Nat /\ \A h \in HeadersOf("elements", name) : h < n
    BY <1>0, <2>1
  <2>3. CASE line.kind = "elements" /\ line.name = name
    <3>1. more = Append(list, n) /\ HeadersOf("elements", name)' = HeadersOf("elements", name) \cup {n}
      BY <1>1, <2>1, <2>3
    <3>2. InOrder(Append(list, n), HeadersOf("elements", name) \cup {n})
      BY <1>0, <1>1, <2>2, OneMoreInOrder
    <3>3. Append(list, n) \in Seq(Nat)
      BY <1>0
    <3> QED BY <3>1, <3>2, <3>3
  <2>4. CASE ~(line.kind = "elements" /\ line.name = name)
    BY <1>1, <2>1, <2>4
  <2> QED BY <2>3, <2>4
<1>2. /\ InOrder(toml'.proxies, HeadersOf("elements", "proxies")')
      /\ toml'.proxies \in Seq(Nat)
  BY <1>0, <1>1, TomlLineDoes
<1>3. /\ InOrder(toml'.visitors, HeadersOf("elements", "visitors")')
      /\ toml'.visitors \in Seq(Nat)
  BY <1>0, <1>1, TomlLineDoes
<1> QED BY <1>2, <1>3, TomlLineDoes, TomlWhereStep, TomlEntriesStep, TomlOpenStep DEF TomlIInv

-----------------------------------------------------------------------------
(* Steps of parseFrpcINI *)

IniReads(line, n) ==
  /\ ConfigTypeOK /\ IniIInv /\ format = "ini" /\ format' = format
  /\ line \in ConfigLine /\ Grown(line, n) /\ Allowed(line)
  /\ ini' = IniLine(line)

LEMMA IniLineDoes ==
  ASSUME NEW line, NEW n, IniReads(line, n)
  PROVE  /\ DOMAIN ini' = DOMAIN ini
         /\ line.kind \in {"table", "value", "blank"}
         /\ line.kind = "blank" => ini' = ini
         /\ line.kind = "value" =>
              /\ ini'.cur = ini.cur /\ ini'.sections = ini.sections /\ ini'.order = ini.order
              /\ NoName(ini.cur) => ini'.entries = ini.entries
              /\ ~NoName(ini.cur) =>
                   ini'.entries = Assign(ini.entries, ini.sections[ini.cur], "", line.key, {n})
         /\ line.kind = "table" =>
              /\ ini'.cur = line.name /\ ini'.entries = ini.entries
              /\ ini.sections[line.name] # 0 => ini'.sections = ini.sections /\ ini'.order = ini.order
              /\ ini.sections[line.name] = 0 =>
                   /\ ini'.sections = [ini.sections EXCEPT ![line.name] = n]
                   /\ ini'.order = Append(ini.order, line.name)
<1>1. /\ DOMAIN ini = {"cur", "sections", "order", "entries"}
      /\ ini' = IniLine(line) /\ Here = n
      /\ line.kind \in {"table", "value", "blank"}
  BY DEF IniReads, ConfigTypeOK, Grown, Here, Allowed
<1>2. CASE line.kind = "blank"
  BY <1>1, <1>2 DEF IniLine
<1>3. CASE line.kind = "value"
  BY <1>1, <1>3 DEF IniLine, NoName
<1>4. CASE line.kind = "table"
  BY <1>1, <1>4 DEF IniLine, EnterSection
<1> QED BY <1>1, <1>2, <1>3, <1>4

(* A section is known once it has begun, by where it has.                  *)
LEMMA SectionsBegin ==
  ASSUME ConfigTypeOK, IniIInv, format = "ini"
  PROVE  /\ \A name \in Tables : ini.sections[name] = 0 <=> HeadersOf("table", name) = {}
         /\ \A name \in Tables : ini.sections[name] # 0 =>
              /\ Begins(ini.sections[name], name)
              /\ ini.sections[name] \in 1..Len(config)
              /\ config[ini.sections[name]].name = name
<1>1. \A name \in Tables : \A h : Begins(h, name) =>
        /\ h \in HeadersOf("table", name)
        /\ h \in 1..Len(config) /\ config[h].name = name /\ h # 0
  BY DEF Begins, HeadersOf, Headers
<1> QED BY <1>1 DEF IniIInv, IniSectionsTell

LEMMA SectionOfTheLast ==
  ASSUME ConfigTypeOK, IniIInv, format = "ini"
  PROVE  /\ \A name \in Tables :
              (\E h \in HeadersOf("table", name) : LastHeader(h)) <=> ini.cur = name
         /\ ~NoName(ini.cur) => ini.cur \in Tables /\ ini.sections[ini.cur] # 0
<1>1. PICK g \in Headers \cup {0} : LastHeader(g)
  BY DEF ConfigTypeOK
<1>2. \A h : LastHeader(h) => h = g
  BY <1>1, OneLast DEF ConfigTypeOK
<1>3. CASE g = 0
  <2>1. NoName(ini.cur) /\ \A h \in Headers : ~LastHeader(h)
    BY <1>1, <1>2, <1>3 DEF IniIInv, IniWhere, Headers
  <2>2. \A name \in Tables : ~NoName(name)
    BY ConfigAssumption DEF NoName
  <2> QED BY <2>1, <2>2 DEF HeadersOf
<1>4. CASE g # 0
  <2>1. g \in Headers /\ ini.cur = config[g].name
    BY <1>1, <1>4 DEF IniIInv, IniWhere
  <2>2. g \in 1..Len(config) /\ config[g].kind = "table" /\ config[g] \in ConfigLine
    <3>1. g \in 1..Len(config) /\ config[g].kind \in {"elements", "table"}
      BY <2>1 DEF Headers
    <3>2. IniKinds /\ config \in Seq(ConfigLine)
      BY DEF IniIInv, ConfigTypeOK
    <3> QED BY <3>1, <3>2 DEF IniKinds
  <2>3. ini.cur \in Tables
    BY <2>1, <2>2, LineFields
  <2>4. \A name : g \in HeadersOf("table", name) <=> ini.cur = name
    BY <2>1, <2>2 DEF HeadersOf
  <2>5. ini.sections[ini.cur] # 0
    BY <2>3, <2>4, SectionsBegin
  <2> QED BY <1>1, <1>2, <2>3, <2>4, <2>5
<1> QED BY <1>3, <1>4

LEMMA IniWhereStep ==
  ASSUME NEW line, NEW n, IniReads(line, n)
  PROVE  IniKinds' /\ IniWhere'
<1>1. Grown(line, n) /\ (\E h \in Headers \cup {0} : LastHeader(h)) /\ IniWhere /\ IniKinds
  BY DEF IniReads, ConfigTypeOK, IniIInv
<1>2. IniKinds'
  <2>1. line.kind \in {"table", "value", "blank"}
    BY IniLineDoes
  <2> QED BY <1>1, <2>1, GrownLines DEF IniKinds
<1>3. CASE line.kind = "table"
  <2>1. \A h : LastHeader(h)' => h = n
    BY <1>1, <1>3, GrownLast
  <2>2. n # 0 /\ config'[n] = line
    BY <1>1, GrownLines
  <2> QED BY <1>2, <1>3, <2>1, <2>2, IniLineDoes DEF IniWhere
<1>4. CASE line.kind # "table"
  <2>1. ini'.cur = ini.cur /\ line.kind \notin {"elements", "table"}
    BY <1>4, IniLineDoes
  <2>2. \A h : LastHeader(h)' => LastHeader(h) /\ h \in Headers \cup {0}
    BY <1>1, <2>1, GrownLast DEF LastHeader
  <2>3. \A h \in Headers : config'[h] = config[h]
    BY <1>1, GrownHeaders
  <2> QED BY <1>1, <1>2, <2>1, <2>2, <2>3 DEF IniWhere
<1> QED BY <1>3, <1>4

LEMMA IniSectionsDo ==
  ASSUME NEW line, NEW n, IniReads(line, n)
  PROVE  /\ ini'.sections \in [Tables -> Nat]
         /\ \A name \in Tables :
              ini'.sections[name] =
                IF line.kind = "table" /\ line.name = name /\ ini.sections[name] = 0 THEN n
                ELSE ini.sections[name]
<1>1. line \in ConfigLine /\ ini.sections \in [Tables -> Nat] /\ n \in Nat
  BY GrownLines DEF IniReads, ConfigTypeOK
<1>2. line.kind = "table" => line.name \in Tables
  BY <1>1, LineFields
<1>3. ini'.sections = IF line.kind = "table" /\ ini.sections[line.name] = 0
                      THEN [ini.sections EXCEPT ![line.name] = n] ELSE ini.sections
  BY IniLineDoes
<1> QED BY <1>1, <1>2, <1>3

LEMMA IniSectionsStep ==
  ASSUME NEW line, NEW n, IniReads(line, n)
  PROVE  IniSectionsTell' /\ IniTables'
<1>0. /\ Grown(line, n) /\ ConfigTypeOK /\ IniIInv /\ format = "ini" /\ line \in ConfigLine
      /\ ini.sections \in [Tables -> Nat] /\ IniTables /\ IniSectionsTell
  BY DEF IniReads, ConfigTypeOK, IniIInv
<1>1. /\ Len(config) \in Nat /\ n = Len(config) + 1 /\ n \in Nat /\ Len(config') = n
  BY <1>0, GrownLines
<1>3. IniSectionsTell'
  <2> SUFFICES ASSUME NEW name \in Tables
               PROVE  IF HeadersOf("table", name)' = {} THEN ini'.sections[name] = 0
                      ELSE Begins(ini.sections[name], name)'
    BY DEF IniSectionsTell
  <2>1. /\ HeadersOf("table", name)' = HeadersOf("table", name)
              \cup IF line.kind = "table" /\ line.name = name THEN {n} ELSE {}
        /\ \A h \in HeadersOf("table", name) : h < n /\ h \in Nat
    <3>1. /\ HeadersOf("table", name)' = HeadersOf("table", name)
                \cup IF line.kind = "table" /\ line.name = name THEN {n} ELSE {}
          /\ HeadersOf("table", name) \subseteq Headers /\ n \notin HeadersOf("table", name)
      BY <1>0, GrownHeadersOf
    <3> QED BY <1>0, <1>1, <3>1, GrownHeaders
  <2>2. Begins(ini.sections[name], name)' <=>
          /\ ini'.sections[name] \in HeadersOf("table", name)'
          /\ \A g \in HeadersOf("table", name)' : ini'.sections[name] <= g
    BY DEF Begins
  <2>3. \A h : Begins(h, name) <=>
          h \in HeadersOf("table", name) /\ \A g \in HeadersOf("table", name) : h <= g
    BY DEF Begins
  <2>4. /\ ini.sections[name] = 0 <=> HeadersOf("table", name) = {}
        /\ ini.sections[name] # 0 => Begins(ini.sections[name], name)
    BY <1>0, SectionsBegin
  <2>5. ini'.sections[name] =
          IF line.kind = "table" /\ line.name = name /\ ini.sections[name] = 0 THEN n
          ELSE ini.sections[name]
    BY IniSectionsDo
  <2>6. CASE line.kind = "table" /\ line.name = name /\ ini.sections[name] = 0
    BY <1>1, <2>1, <2>2, <2>4, <2>5, <2>6
  <2>7. CASE line.kind = "table" /\ line.name = name /\ ini.sections[name] # 0
    BY <1>1, <2>1, <2>2, <2>3, <2>4, <2>5, <2>7
  <2>8. CASE ~(line.kind = "table" /\ line.name = name)
    BY <2>1, <2>2, <2>3, <2>4, <2>5, <2>8
  <2> QED BY <2>6, <2>7, <2>8
<1>4. IniTables'
  <2>1. \A e \in ini.entries : e.table \in 0..n
    BY <1>0, <1>1 DEF IniTables
  <2>2. CASE ini'.entries = ini.entries
    BY <1>1, <2>1, <2>2 DEF IniTables
  <2>3. CASE ini'.entries # ini.entries
    <3>1. ~NoName(ini.cur)
          /\ ini'.entries = Assign(ini.entries, ini.sections[ini.cur], "", line.key, {n})
      BY <2>3, IniLineDoes
    <3>2. ini.sections[ini.cur] \in 1..Len(config)
      BY <1>0, <3>1, SectionOfTheLast, SectionsBegin
    <3>3. \A e \in ini'.entries : e \in ini.entries \/ e.table = ini.sections[ini.cur]
      BY <3>1 DEF Assign
    <3> QED BY <1>1, <2>1, <3>2, <3>3 DEF IniTables
  <2> QED BY <2>2, <2>3
<1> QED BY <1>3, <1>4

LEMMA IniEntriesStep ==
  ASSUME NEW line, NEW n, IniReads(line, n)
  PROVE  IniEntriesTell'
<1>0. /\ Grown(line, n) /\ ConfigTypeOK /\ IniIInv /\ format = "ini" /\ line \in ConfigLine
      /\ ini.sections \in [Tables -> Nat] /\ IniTables /\ IniEntriesTell
  BY DEF IniReads, ConfigTypeOK, IniIInv
<1> SUFFICES ASSUME NEW name \in Tables, NEW k \in Keys
             PROVE  InSection(name, k)' = LastSaid(k, HeadersOf("table", name))'
  BY DEF IniEntriesTell
<1>1. PICK headers : headers = HeadersOf("table", name)'
  OBVIOUS
<1>2. /\ Len(config) \in Nat /\ n = Len(config) + 1 /\ n \in Nat
  BY <1>0, GrownLines
<1>3. /\ HeadersOf("table", name)' = HeadersOf("table", name)
            \cup IF line.kind = "table" /\ line.name = name THEN {n} ELSE {}
      /\ HeadersOf("table", name) \subseteq Headers /\ n \notin HeadersOf("table", name)
  BY <1>0, GrownHeadersOf
<1>4. Fits(headers, n) /\ HeadersOf("table", name) = headers \ {n}
  BY <1>1, <1>3 DEF Fits
<1>5. InSection(name, k) = LastSaid(k, headers)
  <2>1. LastSaid(k, headers \ {n}) = LastSaid(k, headers)
    BY <1>0, <1>4, SaidBefore
  <2> QED BY <1>0, <1>4, <2>1 DEF IniEntriesTell
<1>6. (\E h \in headers : LastHeader(h)) <=> ini.cur = name
  <2>1. ~LastHeader(n)
    BY <1>0, <1>2, GrownHeaders DEF LastHeader
  <2> QED BY <1>0, <1>4, <2>1, SectionOfTheLast
<1>7. LastSaid(k, HeadersOf("table", name))' = LastSaid(k, headers)'
  BY <1>1
<1>8. LastSaid(k, headers)' =
        IF NewlySaid(line, k, headers) THEN IF line.kind = "value" THEN {n} ELSE {}
        ELSE LastSaid(k, headers) \cup IF line.kind = "item" /\ LastIsOpen(k, headers) THEN {n} ELSE {}
  <2>1. Grown(line, n) /\ Fits(headers, n)
    BY <1>0, <1>4
  <2> QED BY <2>1, GrownLastSaid
<1>9. line.kind \in {"table", "value", "blank"}
  BY IniLineDoes
<1>10. LastSaid(k, headers)' =
         IF line.kind = "value" /\ line.key = k /\ ini.cur = name THEN {n}
         ELSE LastSaid(k, headers)
  BY <1>6, <1>8, <1>9 DEF NewlySaid
<1>11. InSection(name, k)' = IF ini'.sections[name] = 0 THEN {}
                             ELSE ValueOf(ini'.entries, ini'.sections[name], "", k)
  BY DEF InSection
<1>12. InSection(name, k) = IF ini.sections[name] = 0 THEN {}
                            ELSE ValueOf(ini.entries, ini.sections[name], "", k)
  BY DEF InSection
<1>13. CASE line.kind = "table"
  <2>1. ini'.entries = ini.entries
    BY <1>13, IniLineDoes
  <2>2. ini'.sections[name] = IF line.name = name /\ ini.sections[name] = 0 THEN n
                              ELSE ini.sections[name]
    BY <1>13, IniSectionsDo
  <2>3. ValueOf(ini.entries, n, "", k) = {}
    <3>1. \A e \in ini.entries : e.table # n
      BY <1>0, <1>2 DEF IniTables
    <3> QED BY <3>1 DEF ValueOf
  <2> QED BY <1>2, <1>5, <1>7, <1>10, <1>11, <1>12, <1>13, <2>1, <2>2, <2>3
<1>14. CASE line.kind = "value" /\ ~NoName(ini.cur)
  <2>1. /\ ini'.sections = ini.sections
        /\ ini'.entries = Assign(ini.entries, ini.sections[ini.cur], "", line.key, {n})
    BY <1>14, IniLineDoes
  <2>2. /\ ini.cur \in Tables /\ ini.sections[ini.cur] # 0
        /\ ini.sections[name] # 0 /\ ini.sections[name] = ini.sections[ini.cur] => name = ini.cur
    BY <1>0, <1>14, SectionOfTheLast, SectionsBegin
  <2>3. ValueOf(ini'.entries, ini.sections[name], "", k) =
          IF ini.sections[name] = ini.sections[ini.cur] /\ k = line.key THEN {n}
          ELSE ValueOf(ini.entries, ini.sections[name], "", k)
    <3>1. PICK root, value : root = "" /\ value = {n}
      OBVIOUS
    <3>2. ini'.entries = Assign(ini.entries, ini.sections[ini.cur], root, line.key, value)
      BY <2>1, <3>1
    <3>3. ValueOf(ini'.entries, ini.sections[name], root, k) =
            IF ini.sections[name] = ini.sections[ini.cur] /\ root = root /\ k = line.key THEN value
            ELSE ValueOf(ini.entries, ini.sections[name], root, k)
      BY <3>2, AssignTells
    <3> QED BY <3>1, <3>3
  <2> QED BY <1>5, <1>7, <1>10, <1>11, <1>12, <1>14, <2>1, <2>2, <2>3
<1>15. CASE line.kind # "table" /\ ~(line.kind = "value" /\ ~NoName(ini.cur))
  <2>1. ini'.sections = ini.sections /\ ini'.entries = ini.entries
    BY <1>9, <1>15, IniLineDoes
  <2>2. ini.cur = name => line.kind # "value"
    BY <1>15, ConfigAssumption DEF NoName
  <2> QED BY <1>5, <1>7, <1>10, <1>11, <1>12, <2>1, <2>2
<1> QED BY <1>13, <1>14, <1>15

LEMMA IniOrderStep ==
  ASSUME NEW line, NEW n, IniReads(line, n)
  PROVE  IniOrdered' /\ ini'.order \in Seq(Tables)
<1>0. /\ Grown(line, n) /\ ConfigTypeOK /\ IniIInv /\ format = "ini" /\ line \in ConfigLine
      /\ ini.sections \in [Tables -> Nat] /\ ini.order \in Seq(Tables) /\ IniOrdered
  BY DEF IniReads, ConfigTypeOK, IniIInv
<1>1. CASE line.kind = "table" /\ ini.sections[line.name] = 0
  <2> DEFINE more == Append(ini.order, line.name)
  <2>1. line.name \in Tables /\ Len(config) \in Nat /\ n = Len(config) + 1 /\ n \in Nat
    BY <1>0, <1>1, LineFields, GrownLines
  <2>2. /\ ini'.sections = [ini.sections EXCEPT ![line.name] = n]
        /\ ini'.order = more
    BY <1>1, IniLineDoes
  <2>3. /\ more \in Seq(Tables) /\ Len(ini.order) \in Nat
        /\ DOMAIN ini.order = 1..Len(ini.order)
        /\ DOMAIN more = 1..(Len(ini.order) + 1)
        /\ \A i \in 1..Len(ini.order) : more[i] = ini.order[i] /\ ini.order[i] \in Tables
        /\ more[Len(ini.order) + 1] = line.name
    BY <1>0, <2>1
  <2> HIDE DEF more
  <2>4. \A i \in 1..Len(ini.order) :
          /\ ini.sections[ini.order[i]] \in 1..Len(config) /\ ini.order[i] # line.name
    <3>1. \A i \in 1..Len(ini.order) : ini.sections[ini.order[i]] # 0
      BY <1>0, <2>3 DEF IniOrdered
    <3> QED BY <1>0, <1>1, <2>3, <3>1, SectionsBegin
  <2>5. /\ \A i \in 1..Len(ini.order) : ini'.sections[more[i]] = ini.sections[ini.order[i]]
        /\ ini'.sections[more[Len(ini.order) + 1]] = n
    BY <1>0, <2>1, <2>2, <2>3, <2>4
  <2>6. \A i, j \in DOMAIN more : i < j => ini'.sections[more[i]] < ini'.sections[more[j]]
    <3> TAKE i, j \in DOMAIN more
    <3> HAVE i < j
    <3>1. i \in 1..Len(ini.order) /\ ini'.sections[more[i]] = ini.sections[ini.order[i]]
      BY <2>3, <2>5
    <3>2. CASE j = Len(ini.order) + 1
      BY <2>1, <2>4, <2>5, <3>1, <3>2
    <3>3. CASE j \in 1..Len(ini.order)
      BY <1>0, <2>3, <2>5, <3>1, <3>3 DEF IniOrdered
    <3> QED BY <2>3, <3>2, <3>3
  <2>7. {more[i] : i \in DOMAIN more} = {ini.order[i] : i \in DOMAIN ini.order} \cup {line.name}
    BY <2>3
  <2>8. {name \in Tables : ini'.sections[name] # 0} =
          {name \in Tables : ini.sections[name] # 0} \cup {line.name}
    BY <1>0, <2>1, <2>2
  <2>9. {more[i] : i \in DOMAIN more} = {name \in Tables : ini'.sections[name] # 0}
    BY <1>0, <2>7, <2>8 DEF IniOrdered
  <2> QED BY <2>2, <2>3, <2>6, <2>9 DEF IniOrdered
<1>2. CASE ~(line.kind = "table" /\ ini.sections[line.name] = 0)
  <2>1. ini'.sections = ini.sections /\ ini'.order = ini.order
    BY <1>2, IniLineDoes
  <2> QED BY <1>0, <2>1 DEF IniOrdered
<1> QED BY <1>1, <1>2

-----------------------------------------------------------------------------
(* The whole text *)

LEMMA NothingRead ==
  ASSUME ConfigInit
  PROVE  ConfigIInv
<1>1. /\ config = <<>> /\ format \in {"toml", "ini"} /\ toml = TomlStart /\ ini = IniStart
      /\ Len(config) = 0 /\ 1..Len(config) = {}
  BY DEF ConfigInit
<1>2. Headers = {} /\ Opened(Len(config)) = {} /\ \A h : LastHeader(h) <=> h = 0
  BY <1>1 DEF Headers, Opened, LastHeader
<1>3. \A kind, name : HeadersOf(kind, name) = {}
  BY <1>2 DEF HeadersOf
<1>4. \A key, headers : LastSaid(key, headers) = {}
  BY <1>1 DEF LastSaid, Said
<1>5. ConfigTypeOK
  <2>1. /\ DOMAIN toml = {"cur", "prefix", "open", "proxies", "visitors", "entries"}
        /\ toml.proxies = <<>> /\ toml.visitors = <<>>
    BY <1>1 DEF TomlStart
  <2>2. /\ DOMAIN ini = {"cur", "sections", "order", "entries"}
        /\ ini.order = <<>> /\ ini.sections = [t \in Tables |-> 0]
    BY <1>1 DEF IniStart
  <2>3. ini.sections \in [Tables -> Nat]
    BY <2>2
  <2> QED BY <1>1, <1>2, <2>1, <2>2, <2>3 DEF ConfigTypeOK
<1>6. InOrder(<<>>, {})
  BY DEF InOrder
<1>7. TomlIInv
  BY <1>1, <1>2, <1>3, <1>4, <1>6
     DEF TomlIInv, TomlWhere, InTable, InPrefix, TomlEntriesTell, TomlOpenTells,
         TomlStart, NoEntries, ValueOf, NoName
<1>8. IniIInv
  <2>1. IniEntriesTell
    BY <1>1, <1>4 DEF IniEntriesTell, InSection, IniStart
  <2>2. IniOrdered
    <3>1. ini.order = <<>> /\ \A name \in Tables : ini.sections[name] = 0
      BY <1>1 DEF IniStart
    <3>2. DOMAIN ini.order = {}
      BY <3>1
    <3> QED BY <3>1, <3>2 DEF IniOrdered
  <2> QED BY <1>1, <1>2, <1>3, <2>1, <2>2
       DEF IniIInv, IniKinds, IniWhere, IniSectionsTell, IniTables, IniStart, NoEntries, NoName
<1> QED BY <1>5, <1>7, <1>8 DEF ConfigIInv

LEMMA OneLineRead ==
  ASSUME ConfigIInv, ReadConfigLine
  PROVE  ConfigIInv'
<1>1. PICK line \in ConfigLine :
        /\ Allowed(line)
        /\ config' = Append(config, line)
        /\ toml' = IF format = "toml" THEN TomlLine(line) ELSE toml
        /\ ini' = IF format = "ini" THEN IniLine(line) ELSE ini
        /\ format' = format
  BY DEF ReadConfigLine
<1>2. PICK n : n = Len(config) + 1
  OBVIOUS
<1>3. Grown(line, n) /\ ConfigTypeOK /\ TomlIInv /\ IniIInv
  BY <1>1, <1>2 DEF Grown, ConfigIInv, ConfigTypeOK
<1>4. config' \in Seq(ConfigLine) /\ (\E h \in Headers \cup {0} : LastHeader(h))'
  <2>1. \E h \in Headers \cup {0} : LastHeader(h)
    BY <1>3 DEF ConfigTypeOK
  <2> QED BY <1>3, <2>1, GrownLines, GrownLast
<1>5. CASE format = "toml"
  <2>1. TomlReads(line, n) /\ ini' = ini
    BY <1>1, <1>3, <1>5 DEF TomlReads
  <2>2. /\ TomlIInv' /\ DOMAIN toml' = DOMAIN toml
        /\ toml'.proxies \in Seq(Nat) /\ toml'.visitors \in Seq(Nat)
    BY <2>1, TomlStep
  <2>3. ConfigTypeOK'
    BY <1>1, <1>3, <1>4, <2>1, <2>2 DEF ConfigTypeOK
  <2>4. IniIInv'
    BY <1>1, <1>5 DEF IniIInv
  <2> QED BY <2>2, <2>3, <2>4 DEF ConfigIInv
<1>6. CASE format = "ini"
  <2>1. IniReads(line, n) /\ toml' = toml
    BY <1>1, <1>3, <1>6 DEF IniReads
  <2>2. /\ IniIInv' /\ DOMAIN ini' = DOMAIN ini
        /\ ini'.order \in Seq(Tables) /\ ini'.sections \in [Tables -> Nat]
    BY <1>1, <1>6, <2>1, IniWhereStep, IniSectionsDo, IniSectionsStep, IniEntriesStep,
       IniOrderStep, IniLineDoes DEF IniIInv
  <2>3. ConfigTypeOK'
    BY <1>1, <1>3, <1>4, <2>1, <2>2 DEF ConfigTypeOK
  <2>4. TomlIInv'
    BY <1>1, <1>6 DEF TomlIInv
  <2> QED BY <2>2, <2>3, <2>4 DEF ConfigIInv
<1> QED BY <1>3, <1>5, <1>6 DEF ConfigTypeOK

(* Line after line, the variables of the parser hold what the lines read   *)
(* so far say, the last one for a key counting, with or without an array   *)
(* that is still open.                                                     *)
THEOREM ConfigIsTold == ConfigSpec => []ConfigIInv
<1>1. ConfigInit => ConfigIInv
  BY NothingRead
<1>2. ConfigIInv /\ UNCHANGED configVars => ConfigIInv'
  <2> SUFFICES ASSUME ConfigIInv, UNCHANGED configVars
               PROVE  ConfigIInv'
    OBVIOUS
  <2>0. config' = config /\ format' = format /\ toml' = toml /\ ini' = ini
    BY DEF configVars
  <2>1. /\ Headers' = Headers
        /\ \A h : LastHeader(h)' <=> LastHeader(h)
        /\ \A h : InTable(h)' = InTable(h) /\ InPrefix(h)' = InPrefix(h)
        /\ \A kind, name : HeadersOf(kind, name)' = HeadersOf(kind, name)
        /\ Opened(Len(config))' = Opened(Len(config))
    BY <2>0 DEF Headers, LastHeader, InTable, InPrefix, HeadersOf, Opened
  <2>2. \A key, headers : LastSaid(key, headers)' = LastSaid(key, headers)
    BY <2>0, <2>1 DEF LastSaid, Said, Strings, Under
  <2>3. \A table, prefix : ScopeOf(table, prefix)' = ScopeOf(table, prefix)
    BY <2>1 DEF ScopeOf
  <2>4. ConfigTypeOK'
    BY <2>0, <2>1 DEF ConfigIInv, ConfigTypeOK
  <2>5. ASSUME format = "toml" PROVE TomlIInv'
    <3>1. TomlWhere'
      BY <2>0, <2>1, <2>5 DEF ConfigIInv, TomlIInv, TomlWhere
    <3>2. TomlEntriesTell'
      BY <2>0, <2>2, <2>3, <2>5 DEF ConfigIInv, TomlIInv, TomlEntriesTell
    <3>3. TomlOpenTells'
      BY <2>0, <2>1, <2>5 DEF ConfigIInv, TomlIInv, TomlOpenTells
    <3> QED BY <2>0, <2>1, <2>5, <3>1, <3>2, <3>3 DEF ConfigIInv, TomlIInv
  <2>6. ASSUME format = "ini" PROVE IniIInv'
    <3>1. IniWhere' /\ IniKinds' /\ IniTables'
      BY <2>0, <2>1, <2>6 DEF ConfigIInv, IniIInv, IniWhere, IniKinds, IniTables
    <3>2. IniSectionsTell' /\ IniOrdered'
      BY <2>0, <2>1, <2>6 DEF ConfigIInv, IniIInv, IniSectionsTell, Begins, IniOrdered
    <3>3. IniEntriesTell'
      BY <2>0, <2>1, <2>2, <2>6 DEF ConfigIInv, IniIInv, IniEntriesTell, InSection
    <3> QED BY <2>0, <3>1, <3>2, <3>3 DEF IniIInv
  <2> QED BY <2>0, <2>4, <2>5, <2>6 DEF ConfigIInv, TomlIInv, IniIInv
<1>3. ConfigIInv /\ [ConfigNext]_configVars => ConfigIInv'
  BY <1>2, OneLineRead DEF ConfigNext
<1> QED BY <1>1, <1>3, PTL DEF ConfigSpec

(* The scopes of the server and of an element, by their headers.           *)
LEMMA Scopes ==
  ASSUME config \in Seq(ConfigLine)
  PROVE  /\ ScopeOf(0, "") = {0}
         /\ ScopeOf(0, "auth") = HeadersOf("table", "auth")
         /\ \A h \in Headers : config[h].kind = "elements" => ScopeOf(h, "") = {h}
<1>1. \A h \in Headers :
        /\ h # 0 /\ config[h].kind \in {"elements", "table"}
        /\ config[h].kind = "table" => config[h].name \in Tables
  BY LineFields DEF Headers
<1>2. \A name \in Tables : name # ""
  BY ConfigAssumption
<1>3. "auth" \in Tables
  BY ConfigAssumption
<1>4. \A h \in Headers : config[h].kind = "elements" => InTable(h) = h /\ InPrefix(h) = ""
  BY <1>1 DEF InTable, InPrefix
<1>5. \A h \in Headers : config[h].kind = "table" =>
        InTable(h) = 0 /\ InPrefix(h) = config[h].name /\ InPrefix(h) # ""
  BY <1>1, <1>2 DEF InTable, InPrefix
<1>6. InTable(0) = 0 /\ InPrefix(0) = ""
  BY DEF InTable, InPrefix
<1>7. ScopeOf(0, "") = {0}
  BY <1>1, <1>4, <1>5, <1>6 DEF ScopeOf
<1>8. ScopeOf(0, "auth") = HeadersOf("table", "auth")
  BY <1>1, <1>4, <1>5, <1>6 DEF ScopeOf, HeadersOf
<1>9. ASSUME NEW h \in Headers, config[h].kind = "elements"
      PROVE  ScopeOf(h, "") = {h}
  BY <1>1, <1>4, <1>5, <1>6, <1>9 DEF ScopeOf
<1> QED BY <1>7, <1>8, <1>9

(* A TOML file of any length: every key of the server, of a proxy and of a *)
(* visitor is read in the scope it stands in, and the proxies and visitors *)
(* are listed in the order of the file (parseFrpcTOML).                    *)
THEOREM TomlIsReadRight == ConfigSpec => []TomlKeysAreInTheirScope
<1>1. ConfigIInv => TomlKeysAreInTheirScope
  <2> SUFFICES ASSUME ConfigIInv, format = "toml"
               PROVE  TomlKeysAreInTheirScope
    BY DEF TomlKeysAreInTheirScope
  <2>1. TomlEntriesTell /\ config \in Seq(ConfigLine)
    BY DEF ConfigIInv, TomlIInv, ConfigTypeOK
  <2>2. "addr" \in Keys /\ "token" \in Keys /\ "auth" \in Prefixes /\ "" \in Prefixes
    BY ConfigAssumption DEF Prefixes
  <2>3. TomlServer = [addr  |-> LastSaid("addr", {0}),
                      token |-> LastSaid("token", HeadersOf("table", "auth"))]
    <3>1. \A table \in Nat, prefix \in Prefixes, key \in Keys :
            ValueOf(toml.entries, table, prefix, key) = LastSaid(key, ScopeOf(table, prefix))
      BY <2>1 DEF TomlEntriesTell
    <3>2. /\ ValueOf(toml.entries, 0, "", "addr") = LastSaid("addr", ScopeOf(0, ""))
          /\ ValueOf(toml.entries, 0, "auth", "token") = LastSaid("token", ScopeOf(0, "auth"))
      BY <2>2, <3>1
    <3>3. ScopeOf(0, "") = {0} /\ ScopeOf(0, "auth") = HeadersOf("table", "auth")
      BY <2>1, Scopes
    <3> QED BY <3>2, <3>3 DEF TomlServer
  <2>4. ASSUME NEW h \in HeadersOf("elements", "proxies") \cup HeadersOf("elements", "visitors")
        PROVE  Rule(h) = [k \in Keys |-> LastSaid(k, {h})]
    <3>1. h \in Headers /\ h \in Nat /\ config[h].kind = "elements"
      BY DEF HeadersOf, Headers
    <3>2. \A k \in Keys : ValueOf(toml.entries, h, "", k) = LastSaid(k, {h})
      BY <2>1, <2>2, <3>1, Scopes DEF TomlEntriesTell
    <3> QED BY <3>2 DEF Rule
  <2> QED BY <2>3, <2>4 DEF TomlKeysAreInTheirScope, ConfigIInv, TomlIInv
<1> QED BY <1>1, ConfigIsTold, PTL

(* An INI file of any length: a section that stands in several places is   *)
(* one, read with all its keys and listed where it stands first            *)
(* (parseFrpcINI).                                                         *)
THEOREM IniIsReadRight == ConfigSpec => []IniKeysAreInTheirSection
<1>1. ConfigIInv => IniKeysAreInTheirSection
  <2> SUFFICES ASSUME ConfigIInv, format = "ini"
               PROVE  IniKeysAreInTheirSection
    BY DEF IniKeysAreInTheirSection
  <2>1. /\ IniEntriesTell /\ IniOrdered /\ ConfigTypeOK /\ IniIInv
        /\ config \in Seq(ConfigLine) /\ ini.order \in Seq(Tables)
    BY DEF ConfigIInv, IniIInv, ConfigTypeOK
  <2>2. "addr" \in Keys /\ "token" \in Keys /\ "common" \in Tables
    BY ConfigAssumption
  <2>3. IniServer = [addr  |-> LastSaid("addr", HeadersOf("table", "common")),
                     token |-> LastSaid("token", HeadersOf("table", "common"))]
    BY <2>1, <2>2 DEF IniServer, IniEntriesTell
  <2>4. ASSUME NEW name \in Tables
        PROVE  HeadersOf("table", name) # {} /\ ~Common(name) <=>
                 \E i \in IniRules : ini.order[i] = name
    <3>1. HeadersOf("table", name) # {} <=> \E i \in DOMAIN ini.order : ini.order[i] = name
      BY <2>1, SectionsBegin DEF IniOrdered
    <3> QED BY <3>1 DEF IniRules
  <2>5. ASSUME NEW i \in IniRules, NEW j \in IniRules, NEW g \in Headers, NEW h \in Headers,
               i < j, Begins(g, ini.order[i]), Begins(h, ini.order[j])
        PROVE  g < h
    <3>1. i \in DOMAIN ini.order /\ j \in DOMAIN ini.order
      BY DEF IniRules
    <3>2. ini.order[i] \in Tables /\ ini.order[j] \in Tables
      BY <2>1, <3>1
    <3>3. /\ ini.sections[ini.order[i]] # 0 /\ ini.sections[ini.order[j]] # 0
          /\ ini.sections[ini.order[i]] < ini.sections[ini.order[j]]
      BY <2>1, <2>5, <3>1 DEF IniOrdered
    <3>4. ASSUME NEW name \in Tables, NEW f, Begins(f, name), ini.sections[name] # 0
          PROVE  f = ini.sections[name]
      <4>1. Begins(ini.sections[name], name)
        BY <2>1, <3>4, SectionsBegin
      <4> QED BY <3>4, <4>1 DEF Begins, HeadersOf, Headers
    <3> QED BY <2>5, <3>2, <3>3, <3>4
  <2> QED BY <2>1, <2>3, <2>4, <2>5 DEF IniKeysAreInTheirSection, IniEntriesTell
<1> QED BY <1>1, ConfigIsTold, PTL

-----------------------------------------------------------------------------
(* The tail of a log                                                       *)

(* Newest first, the lines stand between neighbours among the cuts, and    *)
(* nothing but newlines comes after the first of these.                    *)
Told(cuts, lines, count) ==
  /\ cuts \in [0..count -> Cuts]
  /\ \A i \in 1..count : IsLine(cuts[i], cuts[i - 1]) /\ lines[i] = Line(cuts[i], cuts[i - 1])
  /\ Blank((cuts[0] + 1)..tail.size)

\* What is left to see, and to read, ends before the cut.
UpTo(cut) ==
  /\ tail.pos < cut /\ tail.left = Line(tail.pos, cut)
  /\ tail.remainder = FirstPart(tail.left)

Short == Len(tail.lines) < tail.n

\* As long as lines are missing; and from then on, whatever comes after them.
ShortTells ==
  Short => \E cuts : Told(cuts, tail.lines, Len(tail.lines)) /\ UpTo(cuts[Len(tail.lines)])

FullTells ==
  ~Short => \E cuts : Told(cuts, tail.lines, tail.n)

Places == SUBSET Nat

Reading == [pc : {"read"}, n : Nat \ {0}, size : Nat, pos : Nat, upto : Nat,
            left : Places, remainder : Places, lines : Seq(Places)]

LogTypeOK ==
  /\ log \in Seq(Bytes \cup {Newline})
  /\ tail.pc = "idle" => tail = NotAsked
  /\ tail.pc # "idle" => tail.size \in Nat /\ tail.size <= Len(log)
  /\ tail.pc = "read" => tail \in Reading
  /\ tail.pc \in {"idle", "read", "done"}

LogIInv ==
  /\ LogTypeOK
  /\ tail.pc = "read" => ShortTells /\ FullTells
  /\ TailIsTheEnd

-----------------------------------------------------------------------------
(* A set of numbers has a smallest one; below a bound, it has a largest.   *)
LEMMA SmallestOne ==
  ASSUME NEW S \in SUBSET Nat, S # {}
  PROVE  \E x \in S : \A y \in S : x <= y
<1>1. PICK R : R = OpToRel(<, Nat)
  OBVIOUS
<1>2. IsWellFoundedOn(R, Nat)
  BY <1>1, NatLessThanWellFounded
<1>3. PICK x \in S : \A y \in S : ~(<<y, x>> \in R)
  BY <1>2, WFMin
<1>4. \A y \in S : ~(y < x)
  BY <1>1, <1>3 DEF OpToRel
<1> QED BY <1>4

LEMMA LargestOne ==
  ASSUME NEW bound \in Nat, NEW S \in SUBSET (0..bound), S # {}
  PROVE  \E x \in S : \A y \in S : y <= x
<1> DEFINE Mirror == {bound - x : x \in S}
<1>1. Mirror \in SUBSET Nat /\ Mirror # {}
  <2>1. \A x \in S : bound - x \in Nat
    OBVIOUS
  <2> QED BY <2>1
<1>2. PICK m \in Mirror : \A y \in Mirror : m <= y
  BY <1>1, SmallestOne
<1>3. PICK x \in S : m = bound - x
  BY <1>2
<1>4. \A y \in S : bound - x <= bound - y
  BY <1>2, <1>3
<1> QED BY <1>4

(* The last newline of a text cuts its last part off.                      *)
LEMMA Parts ==
  ASSUME NEW pos \in Nat, NEW cut \in Nat, Ends(Line(pos, cut)) # {}
  PROVE  \E e \in Ends(Line(pos, cut)) :
           /\ LastPart(Line(pos, cut)) = Line(e, cut) /\ Ends(Line(e, cut)) = {}
           /\ WithoutLast(Line(pos, cut)) = Line(pos, e)
           /\ FirstPart(Line(pos, cut)) = FirstPart(Line(pos, e))
<1> DEFINE text == Line(pos, cut)
<1>1. \A i : i \in text <=> i \in Nat /\ pos < i /\ i < cut
  BY DEF Line
<1>2. \A i : i \in Ends(text) <=> i \in text /\ log[i] = Newline
  BY DEF Ends
<1>3. PICK e \in Ends(text) : \A i \in Ends(text) : i <= e
  <2>1. Ends(text) \in SUBSET (0..cut)
    BY <1>1, <1>2
  <2> QED BY <2>1, LargestOne
<1>4. e \in Nat /\ pos < e /\ e < cut /\ log[e] = Newline
  BY <1>1, <1>2
<1>5. /\ \A i : i \in Line(e, cut) <=> i \in Nat /\ e < i /\ i < cut
      /\ \A i : i \in Line(pos, e) <=> i \in Nat /\ pos < i /\ i < e
  BY <1>4 DEF Line
<1>6. LastPart(text) = Line(e, cut)
  BY <1>1, <1>2, <1>3, <1>4, <1>5 DEF LastPart
<1>7. Ends(Line(e, cut)) = {}
  BY <1>1, <1>2, <1>3, <1>4, <1>5 DEF Ends
<1>8. WithoutLast(text) = Line(pos, e)
  BY <1>1, <1>2, <1>3, <1>4, <1>5 DEF WithoutLast
<1>9. FirstPart(text) = FirstPart(Line(pos, e))
  <2>1. \A i : i \in Ends(Line(pos, e)) <=> i \in Line(pos, e) /\ log[i] = Newline
    BY DEF Ends
  <2> QED BY <1>1, <1>2, <1>3, <1>4, <1>5, <2>1 DEF FirstPart
<1> QED BY <1>3, <1>6, <1>7, <1>8, <1>9

(* A text between two cuts that has no newline is a line.                  *)
LEMMA WholeLine ==
  ASSUME NEW size \in Nat, tail.size = size, NEW from \in Cuts, NEW to \in Cuts,
         from < to, Ends(Line(from, to)) = {}
  PROVE  IsLine(from, to)
<1>1. from \in Nat /\ to \in Nat /\ to <= size + 1
  BY DEF Cuts, Ends
<1>2. \A i \in Line(from, to) : i \in Nat /\ from < i /\ i < to /\ log[i] # Newline
  BY <1>1 DEF Line, Ends
<1>3. \A i \in Cuts : i = 0 \/ i = size + 1 \/ log[i] = Newline
  BY DEF Cuts, Ends
<1> QED BY <1>1, <1>2, <1>3 DEF IsLine

-----------------------------------------------------------------------------
(* Steps *)

\* What is known of a call that reads.
Reads == LogIInv /\ tail.pc = "read"

(* The types of what a call that reads has in its hands.                   *)
LEMMA ReadsKnows ==
  ASSUME Reads
  PROVE  /\ log \in Seq(Bytes \cup {Newline}) /\ tail \in Reading
         /\ tail.n \in Nat \ {0} /\ tail.size \in Nat /\ tail.size <= Len(log)
         /\ tail.pos \in Nat /\ tail.upto \in Nat /\ tail.left \in Places
         /\ tail.remainder \in Places /\ tail.lines \in Seq(Places)
         /\ Len(tail.lines) \in Nat
         /\ ShortTells /\ FullTells
  BY DEF Reads, LogIInv, LogTypeOK, Reading

\* A step of a call that goes on reading.
ReadStep ==
  /\ Reads /\ log' = log /\ tail' \in Reading
  /\ tail'.n = tail.n /\ tail'.size = tail.size

(* While a call reads on, the places of the lines stay what they are.      *)
LEMMA ReadStepSame ==
  ASSUME ReadStep
  PROVE  /\ \A text : Ends(text)' = Ends(text) /\ FirstPart(text)' = FirstPart(text)
         /\ Cuts' = Cuts
         /\ \A cuts, lines, count : Told(cuts, lines, count)' <=> Told(cuts, lines, count)
<1>1. log' = log /\ tail'.size = tail.size
  BY DEF ReadStep
<1>2. \A text : Ends(text)' = Ends(text) /\ FirstPart(text)' = FirstPart(text)
  BY <1>1 DEF Ends, FirstPart
<1>3. Cuts' = Cuts
  BY <1>1, <1>2 DEF Cuts, Ends
<1>4. /\ \A from, to : IsLine(from, to)' <=> IsLine(from, to)
      /\ \A places : Blank(places)' <=> Blank(places)
  BY <1>1, <1>3 DEF IsLine, Line, Blank
<1> QED BY <1>1, <1>2, <1>3, <1>4 DEF Told, Line

LEMMA ReadStepIInv ==
  ASSUME ReadStep, ShortTells', FullTells'
  PROVE  LogIInv'
<1>1. tail'.pc = "read"
  BY DEF ReadStep, Reading
<1>2. LogTypeOK'
  BY <1>1, ReadsKnows DEF ReadStep, LogTypeOK, Reading
<1> QED BY <1>1, <1>2 DEF LogIInv, TailIsTheEnd

(* A block is put before what waits for the rest of its line.              *)
LEMMA ReadBlockIInv ==
  ASSUME Reads, ReadBlock
  PROVE  LogIInv'
<1> DEFINE from == IF tail.pos < BlockSize THEN 0 ELSE tail.pos - BlockSize
           chunk == Chunk(from)
<1>1. /\ tail' = [tail EXCEPT !.pos = from, !.upto = tail.pos, !.left = chunk,
                             !.remainder = FirstPart(chunk)]
      /\ log' = log /\ Ends(tail.left) = {} /\ tail.pos > 0 /\ tail.pos \in Nat
      /\ tail \in Reading
  BY ReadsKnows DEF ReadBlock
<1>2. from \in Nat /\ from < tail.pos
  BY <1>1, LogAssumption
<1>3. chunk \in Places
  BY <1>1, <1>2, ReadsKnows DEF Chunk, Places
<1> HIDE DEF from, chunk
<1>4. FirstPart(chunk) \in Places
  BY <1>3 DEF FirstPart, Places
<1>5. /\ tail' \in Reading /\ tail'.n = tail.n /\ tail'.size = tail.size
      /\ tail'.lines = tail.lines /\ tail'.pos = from /\ tail'.left = chunk
      /\ tail'.remainder = FirstPart(chunk)
  BY <1>1, <1>2, <1>3, <1>4 DEF Reading
<1>6. ReadStep
  BY <1>1, <1>5 DEF ReadStep
<1>7. ShortTells'
  <2> SUFFICES ASSUME Short
               PROVE  \E cuts : /\ Told(cuts, tail.lines, Len(tail.lines))'
                                /\ UpTo(cuts[Len(tail.lines)])'
    BY <1>5 DEF ShortTells, Short
  <2>1. PICK cuts : Told(cuts, tail.lines, Len(tail.lines)) /\ UpTo(cuts[Len(tail.lines)])
    BY ReadsKnows DEF ShortTells
  <2>2. PICK lines, count, cut :
          lines = tail.lines /\ count = Len(tail.lines) /\ cut = cuts[count]
    OBVIOUS
  <2>3. Told(cuts, lines, count)'
    BY <1>6, <2>1, <2>2, ReadStepSame
  <2>4. Told(cuts, tail.lines, Len(tail.lines))'
    BY <1>5, <2>2, <2>3
  <2>5. cut \in Nat /\ UpTo(cut)
    <3>1. cut \in Cuts
      BY <2>1, <2>2, ReadsKnows DEF Told
    <3> QED BY <2>1, <2>2, <3>1, ReadsKnows DEF Cuts, Ends
  <2>6. chunk = Line(from, cut)
    <3>1. tail.remainder = tail.left
      BY <1>1, <2>5 DEF UpTo, FirstPart
    <3>2. tail.left = (tail.pos + 1)..(cut - 1) /\ tail.pos < cut
      BY <2>5 DEF UpTo, Line
    <3> QED BY <1>1, <1>2, <2>5, <3>1, <3>2 DEF chunk, Chunk, Line
  <2>7. from < cut
    BY <1>1, <1>2, <2>5 DEF UpTo
  <2>8. UpTo(cut)'
    BY <1>5, <1>6, <2>6, <2>7, ReadStepSame DEF UpTo, Line
  <2>9. UpTo(cuts[Len(tail.lines)])'
    BY <1>5, <2>2, <2>8
  <2> QED BY <2>4, <2>9
<1>8. FullTells'
  BY <1>5, <1>6, ReadStepSame, ReadsKnows DEF FullTells, Short
<1> QED BY <1>6, <1>7, <1>8, ReadStepIInv

(* The part that the loop comes to next is the line before the last cut.   *)
LEMMA NextPart ==
  ASSUME Reads, Short, Ends(tail.left) # {}
  PROVE  \E cuts, e :
           /\ Told(cuts, tail.lines, Len(tail.lines)) /\ UpTo(cuts[Len(tail.lines)])
           /\ cuts[Len(tail.lines)] \in Cuts \cap Nat
           /\ e \in Cuts \cap Nat /\ tail.pos < e /\ e < cuts[Len(tail.lines)]
           /\ IsLine(e, cuts[Len(tail.lines)])
           /\ LastPart(tail.left) = Line(e, cuts[Len(tail.lines)])
           /\ WithoutLast(tail.left) = Line(tail.pos, e)
           /\ tail.remainder = FirstPart(Line(tail.pos, e))
<1>1. PICK cuts : Told(cuts, tail.lines, Len(tail.lines)) /\ UpTo(cuts[Len(tail.lines)])
  BY ReadsKnows DEF ShortTells
<1>2. PICK cut : cut = cuts[Len(tail.lines)]
  OBVIOUS
<1>3. cut \in Cuts
  BY <1>1, <1>2, ReadsKnows DEF Told
<1>4. \A i \in Cuts : i \in Nat /\ i <= tail.size + 1
  BY ReadsKnows DEF Cuts, Ends
<1>5. tail.pos < cut /\ tail.left = Line(tail.pos, cut) /\ tail.remainder = FirstPart(tail.left)
  BY <1>1, <1>2 DEF UpTo
<1>6. PICK e \in Ends(Line(tail.pos, cut)) :
        /\ LastPart(tail.left) = Line(e, cut) /\ Ends(Line(e, cut)) = {}
        /\ WithoutLast(tail.left) = Line(tail.pos, e)
        /\ FirstPart(tail.left) = FirstPart(Line(tail.pos, e))
  <2>1. tail.pos \in Nat /\ cut \in Nat /\ Ends(Line(tail.pos, cut)) # {}
    BY <1>3, <1>4, <1>5, ReadsKnows
  <2> QED BY <1>5, <2>1, Parts
<1>7. e \in Nat /\ tail.pos < e /\ e < cut /\ log[e] = Newline
  BY <1>3, <1>4, <1>6, ReadsKnows DEF Line, Ends
<1>8. e \in Cuts
  BY <1>3, <1>4, <1>7, ReadsKnows DEF Cuts, Ends
<1>9. IsLine(e, cut)
  BY <1>3, <1>6, <1>7, <1>8, WholeLine, ReadsKnows
<1> QED BY <1>1, <1>2, <1>3, <1>4, <1>5, <1>6, <1>7, <1>8, <1>9

(* A blank part at the end of the file moves the end to the newline        *)
(* before.                                                                 *)
LEMMA SkipBlankIInv ==
  ASSUME Reads, SkipBlank
  PROVE  LogIInv'
<1>1. /\ tail' = [tail EXCEPT !.left = WithoutLast(tail.left)] /\ log' = log
      /\ Ends(tail.left) # {} /\ LastPart(tail.left) = {} /\ tail.lines = <<>>
      /\ tail \in Reading
  BY ReadsKnows DEF SkipBlank, BlankAtTheEnd
<1>2. Short /\ Len(tail.lines) = 0
  BY <1>1, ReadsKnows DEF Short
<1>3. PICK cuts, e :
        /\ Told(cuts, tail.lines, 0) /\ cuts[0] \in Cuts \cap Nat
        /\ e \in Cuts \cap Nat /\ tail.pos < e /\ e < cuts[0]
        /\ LastPart(tail.left) = Line(e, cuts[0])
        /\ WithoutLast(tail.left) = Line(tail.pos, e)
        /\ tail.remainder = FirstPart(Line(tail.pos, e))
  BY <1>1, <1>2, NextPart
<1>4. Line(tail.pos, e) \in Places
  BY <1>3, ReadsKnows DEF Line, Places
<1>5. /\ tail' \in Reading /\ tail'.n = tail.n /\ tail'.size = tail.size
      /\ tail'.lines = <<>> /\ tail'.pos = tail.pos /\ tail'.left = Line(tail.pos, e)
      /\ tail'.remainder = FirstPart(Line(tail.pos, e))
  BY <1>1, <1>3, <1>4 DEF Reading
<1>6. ReadStep
  BY <1>1, <1>5 DEF ReadStep
<1>7. e + 1 = cuts[0]
  <2>1. (e + 1)..(cuts[0] - 1) = {}
    BY <1>1, <1>3 DEF Line
  <2>2. ~(e + 1 \in (e + 1)..(cuts[0] - 1))
    BY <2>1
  <2> QED BY <1>3, <2>2
<1>8. Blank((e + 1)..tail.size)
  <2>1. cuts[0] = tail.size + 1 \/ log[cuts[0]] = Newline
    BY <1>3 DEF Cuts, Ends
  <2>2. \A i \in (cuts[0] + 1)..tail.size : log[i] = Newline
    BY <1>3 DEF Told, Blank
  <2> QED BY <1>3, <1>7, <2>1, <2>2, ReadsKnows DEF Blank
<1>9. PICK shorter : shorter = [i \in 0..0 |-> e]
  OBVIOUS
<1>10. Told(shorter, <<>>, 0) /\ shorter[0] = e
  BY <1>3, <1>8, <1>9 DEF Told
<1>11. Told(shorter, <<>>, 0)'
  BY <1>6, <1>10, ReadStepSame
<1>12. UpTo(e)'
  BY <1>3, <1>5, <1>6, ReadStepSame DEF UpTo, Line
<1>13. ShortTells'
  <2>1. Len(tail'.lines) = 0
    BY <1>5
  <2> QED BY <1>5, <1>10, <1>11, <1>12, <2>1 DEF ShortTells
<1>14. FullTells'
  BY <1>2, <1>5, <1>1, <1>6 DEF FullTells, Short
<1> QED BY <1>6, <1>13, <1>14, ReadStepIInv

(* The line taken is the one before those taken so far; once there are     *)
(* enough, whatever is taken does not change the first ones.               *)
LEMMA TakeLineIInv ==
  ASSUME Reads, TakeLine
  PROVE  LogIInv'
<1>0. PICK found, rest :
        /\ found = Append(tail.lines, LastPart(tail.left))
        /\ rest = IF Len(tail.lines) + 1 >= tail.n THEN {} ELSE WithoutLast(tail.left)
  OBVIOUS
<1>1. /\ tail' = [tail EXCEPT !.lines = found, !.left = rest] /\ log' = log
      /\ Ends(tail.left) # {} /\ tail \in Reading
  BY <1>0, ReadsKnows DEF TakeLine
<1>2. /\ found \in Seq(Places) /\ Len(found) = Len(tail.lines) + 1
      /\ found[Len(tail.lines) + 1] = LastPart(tail.left)
      /\ \A i \in 1..Len(tail.lines) : found[i] = tail.lines[i]
  <2>1. LastPart(tail.left) \in Places
    BY ReadsKnows DEF LastPart, Places
  <2> QED BY <1>0, <2>1, ReadsKnows
<1>3. rest \in Places
  BY <1>0, ReadsKnows DEF WithoutLast, Places
<1>4. /\ tail' \in Reading /\ tail'.n = tail.n /\ tail'.size = tail.size
      /\ tail'.lines = found /\ tail'.pos = tail.pos /\ tail'.left = rest
      /\ tail'.remainder = tail.remainder
  BY <1>1, <1>2, <1>3 DEF Reading
<1>5. ReadStep
  BY <1>1, <1>4 DEF ReadStep
<1>6. CASE Short
  <2>1. PICK count : count = Len(tail.lines) /\ count \in Nat
    BY ReadsKnows
  <2>2. PICK cuts, e :
          /\ Told(cuts, tail.lines, count) /\ cuts[count] \in Cuts \cap Nat
          /\ e \in Cuts \cap Nat /\ tail.pos < e
          /\ IsLine(e, cuts[count])
          /\ LastPart(tail.left) = Line(e, cuts[count])
          /\ WithoutLast(tail.left) = Line(tail.pos, e)
          /\ tail.remainder = FirstPart(Line(tail.pos, e))
    BY <1>1, <1>6, <2>1, NextPart
  <2>3. PICK more : more = [i \in 0..(count + 1) |-> IF i = count + 1 THEN e ELSE cuts[i]]
    OBVIOUS
  <2>4. more[count + 1] = e /\ \A i \in 0..count : more[i] = cuts[i]
    BY <2>1, <2>3
  <2>5. Told(more, found, count + 1)
    <3>1. more \in [0..(count + 1) -> Cuts]
      BY <2>1, <2>2, <2>3 DEF Told
    <3>2. ASSUME NEW i \in 1..(count + 1)
          PROVE  IsLine(more[i], more[i - 1]) /\ found[i] = Line(more[i], more[i - 1])
      <4>1. CASE i = count + 1
        <5>1. more[i] = e /\ more[i - 1] = cuts[count] /\ found[i] = LastPart(tail.left)
          BY <1>2, <2>1, <2>4, <4>1
        <5> QED BY <2>2, <5>1
      <4>2. CASE i # count + 1
        <5>1. i \in 1..count /\ i - 1 \in 0..count /\ i \in 0..count
          BY <2>1, <4>2
        <5>2. more[i] = cuts[i] /\ more[i - 1] = cuts[i - 1] /\ found[i] = tail.lines[i]
          BY <1>2, <2>1, <2>4, <5>1
        <5> QED BY <2>2, <5>1, <5>2 DEF Told
      <4> QED BY <4>1, <4>2
    <3>3. more[0] = cuts[0]
      BY <2>1, <2>4
    <3> QED BY <2>2, <3>1, <3>2, <3>3 DEF Told
  <2>6. Told(more, found, count + 1)'
    BY <1>5, <2>5, ReadStepSame
  <2>7. Len(tail'.lines) = count + 1
    BY <1>2, <1>4, <2>1
  <2>8. ShortTells'
    <3> SUFFICES ASSUME count + 1 < tail.n
                 PROVE  \E c : Told(c, found, count + 1)' /\ UpTo(c[count + 1])'
      BY <1>4, <2>7 DEF ShortTells, Short
    <3>1. rest = Line(tail.pos, e)
      BY <1>0, <2>1, <2>2, ReadsKnows
    <3>2. UpTo(e)'
      BY <1>4, <1>5, <2>2, <3>1, ReadStepSame DEF UpTo, Line
    <3> QED BY <2>4, <2>6, <3>2
  <2>9. FullTells'
    <3> SUFFICES ASSUME ~(count + 1 < tail.n)
                 PROVE  \E c : Told(c, found, tail.n)'
      BY <1>4, <2>7 DEF FullTells, Short
    <3>1. count + 1 = tail.n
      BY <1>6, <2>1, ReadsKnows DEF Short
    <3> QED BY <1>4, <2>6, <3>1
  <2> QED BY <1>5, <2>8, <2>9, ReadStepIInv
<1>7. CASE ~Short
  <2>1. PICK cuts : Told(cuts, tail.lines, tail.n)
    BY <1>7, ReadsKnows DEF FullTells
  <2>2. \A i \in 1..tail.n : found[i] = tail.lines[i]
    BY <1>2, <1>7, ReadsKnows DEF Short
  <2>3. Told(cuts, found, tail.n)
    BY <2>1, <2>2 DEF Told
  <2>4. PICK n : n = tail.n
    OBVIOUS
  <2>5. Told(cuts, found, n)'
    BY <1>5, <2>3, <2>4, ReadStepSame
  <2>6. FullTells'
    BY <1>4, <2>4, <2>5 DEF FullTells
  <2>7. ShortTells'
    BY <1>2, <1>4, <1>7, ReadsKnows DEF ShortTells, Short
  <2> QED BY <1>5, <2>6, <2>7, ReadStepIInv
<1> QED BY <1>6, <1>7

(* What is left of the file when nothing is left to read is its first      *)
(* line.                                                                   *)
LEMMA FinishAnswers ==
  ASSUME Reads, Finish
  PROVE  \E all, count, answer, cuts :
           /\ count \in Nat
           /\ tail' = [pc |-> "done", n |-> tail.n, size |-> tail.size, lines |-> answer]
           /\ answer = [i \in 1..count |-> all[count + 1 - i]]
           /\ Told(cuts, all, count)
           /\ count = tail.n \/ Blank(1..(cuts[count] - 1))
<1>1. PICK all, count, answer :
        /\ all = IF Len(tail.lines) < tail.n /\ tail.remainder # {}
                 THEN Append(tail.lines, tail.remainder) ELSE tail.lines
        /\ count = IF Len(all) < tail.n THEN Len(all) ELSE tail.n
        /\ answer = [i \in 1..count |-> all[count + 1 - i]]
        /\ tail' = [pc |-> "done", n |-> tail.n, size |-> tail.size, lines |-> answer]
  BY DEF Finish
<1>2. Ends(tail.left) = {} /\ (tail.pos = 0 \/ Len(tail.lines) > tail.n)
  BY DEF Finish
<1>3. count \in Nat
  <2>1. all \in Seq(Places)
    BY <1>1, ReadsKnows
  <2> QED BY <1>1, <2>1, ReadsKnows
<1> SUFFICES \E cuts : /\ Told(cuts, all, count)
                       /\ count = tail.n \/ Blank(1..(cuts[count] - 1))
  BY <1>1, <1>3
<1>5. CASE ~Short
  <2>1. PICK cuts : Told(cuts, tail.lines, tail.n)
    BY <1>5, ReadsKnows DEF FullTells
  <2>2. all = tail.lines /\ count = tail.n
    BY <1>1, <1>5, ReadsKnows DEF Short
  <2> QED BY <2>1, <2>2
<1>6. CASE Short
  <2>1. PICK cuts : Told(cuts, tail.lines, Len(tail.lines)) /\ UpTo(cuts[Len(tail.lines)])
    BY <1>6, ReadsKnows DEF ShortTells
  <2>2. PICK some, cut : some = Len(tail.lines) /\ cut = cuts[some] /\ some \in Nat
    BY ReadsKnows
  <2>3. cut \in Cuts /\ cut \in Nat
    <3>1. cut \in Cuts
      BY <2>1, <2>2 DEF Told
    <3> QED BY <3>1, ReadsKnows DEF Cuts, Ends
  <2>4. tail.pos = 0 /\ 0 < cut /\ tail.left = Line(0, cut) /\ tail.remainder = Line(0, cut)
    <3>1. tail.pos = 0
      BY <1>2, <1>6, ReadsKnows DEF Short
    <3> QED BY <1>2, <2>1, <2>2, <3>1 DEF UpTo, FirstPart
  <2>5. CASE tail.remainder = {}
    <3>1. all = tail.lines /\ count = some
      BY <1>1, <1>6, <2>2, <2>5, ReadsKnows DEF Short
    <3>2. Told(cuts, all, count)
      BY <2>1, <2>2, <3>1
    <3>3. \A i \in 1..(cut - 1) : i \in Line(0, cut)
      BY <2>3 DEF Line
    <3>4. Blank(1..(cut - 1))
      BY <2>4, <2>5, <3>3 DEF Blank
    <3> QED BY <2>2, <3>1, <3>2, <3>4
  <2>6. CASE tail.remainder # {}
    <3>1. /\ count = some + 1 /\ all[count] = Line(0, cut)
          /\ \A i \in 1..some : all[i] = tail.lines[i]
      <4>1. all = Append(tail.lines, tail.remainder)
        BY <1>1, <1>6, <2>6 DEF Short
      <4>2. Len(all) = some + 1
        BY <2>2, <4>1, ReadsKnows
      <4>3. count = some + 1
        BY <1>1, <1>6, <2>2, <4>2, ReadsKnows DEF Short
      <4> QED BY <2>2, <2>4, <4>1, <4>3, ReadsKnows
    <3>2. PICK more : more = [i \in 0..count |-> IF i = count THEN 0 ELSE cuts[i]]
      OBVIOUS
    <3>3. more[count] = 0 /\ \A i \in 0..some : more[i] = cuts[i]
      BY <2>2, <3>1, <3>2
    <3>4. IsLine(0, cut)
      <4>1. 0 \in Cuts /\ tail.size \in Nat /\ Ends(Line(0, cut)) = {}
        BY <1>2, <2>4, ReadsKnows DEF Cuts
      <4> QED BY <2>3, <2>4, <4>1, WholeLine
    <3>5. more \in [0..count -> Cuts]
      BY <2>1, <2>2, <3>1, <3>2 DEF Told, Cuts
    <3>6. ASSUME NEW i \in 1..count
          PROVE  IsLine(more[i], more[i - 1]) /\ all[i] = Line(more[i], more[i - 1])
      <4>1. CASE i = count
        <5>1. more[i] = 0 /\ more[i - 1] = cut /\ all[i] = Line(0, cut)
          BY <2>2, <3>1, <3>3, <4>1
        <5> QED BY <3>4, <5>1
      <4>2. CASE i # count
        <5>1. i \in 1..some /\ i - 1 \in 0..some /\ i \in 0..some
          BY <2>2, <3>1, <4>2
        <5>2. more[i] = cuts[i] /\ more[i - 1] = cuts[i - 1] /\ all[i] = tail.lines[i]
          BY <3>1, <3>3, <5>1
        <5> QED BY <2>1, <2>2, <5>1, <5>2 DEF Told
      <4> QED BY <4>1, <4>2
    <3>7. more[0] = cuts[0]
      BY <2>2, <3>3
    <3>8. Told(more, all, count)
      BY <2>1, <3>5, <3>6, <3>7 DEF Told
    <3>9. Blank(1..(more[count] - 1))
      BY <3>3 DEF Blank
    <3> QED BY <3>8, <3>9
  <2> QED BY <2>5, <2>6
<1> QED BY <1>5, <1>6

(* Turned around, the lines found are those the property speaks of.        *)
LEMMA FinishIInv ==
  ASSUME Reads, Finish
  PROVE  LogIInv'
<1>1. PICK all, count, answer, cuts :
        /\ count \in Nat
        /\ tail' = [pc |-> "done", n |-> tail.n, size |-> tail.size, lines |-> answer]
        /\ answer = [i \in 1..count |-> all[count + 1 - i]]
        /\ Told(cuts, all, count)
        /\ count = tail.n \/ Blank(1..(cuts[count] - 1))
  BY FinishAnswers
<1>2. /\ log' = log /\ tail'.pc = "done" /\ tail'.size = tail.size /\ tail'.n = tail.n
      /\ tail'.lines = answer
  <2>1. log' = log
    BY DEF Finish
  <2> QED BY <1>1, <2>1
<1>3. Len(answer) = count
  BY <1>1
<1>4. LogTypeOK'
  BY <1>2, ReadsKnows DEF LogTypeOK
<1>5. Cuts' = Cuts
  BY <1>2 DEF Cuts, Ends
<1>6. PICK upwards : upwards = [i \in 0..count |-> cuts[count - i]]
  OBVIOUS
<1>7. upwards \in [0..count -> Cuts]
  BY <1>1, <1>6 DEF Told
<1>8. ASSUME NEW i \in 1..count
      PROVE  IsLine(upwards[i - 1], upwards[i]) /\ answer[i] = Line(upwards[i - 1], upwards[i])
  <2>1. PICK j : j = count + 1 - i /\ j \in 1..count
    BY <1>1
  <2>2. upwards[i] = cuts[j - 1] /\ upwards[i - 1] = cuts[j] /\ answer[i] = all[j]
    <3>1. i \in 0..count /\ i - 1 \in 0..count /\ count - i = j - 1 /\ count - (i - 1) = j
      BY <1>1, <2>1
    <3> QED BY <1>1, <1>6, <2>1, <3>1
  <2> QED BY <1>1, <2>1, <2>2 DEF Told
<1>9. upwards[count] = cuts[0] /\ upwards[0] = cuts[count]
  BY <1>1, <1>6
<1>10. Blank((upwards[count] + 1)..tail.size) /\ (count = tail.n \/ Blank(1..(upwards[0] - 1)))
  BY <1>1, <1>9 DEF Told
<1>11. TailIsTheEnd'
  <2>1. /\ upwards \in [0..count -> Cuts']
        /\ \A i \in 1..count : /\ IsLine(upwards[i - 1], upwards[i])'
                               /\ answer[i] = Line(upwards[i - 1], upwards[i])
        /\ Blank((upwards[count] + 1)..tail.size)' /\ (count = tail.n \/ Blank(1..(upwards[0] - 1))')
    BY <1>2, <1>5, <1>7, <1>8, <1>10 DEF IsLine, Line, Blank
  <2> QED BY <1>2, <1>3, <2>1 DEF TailIsTheEnd, Line
<1> QED BY <1>2, <1>4, <1>11 DEF LogIInv

(* Nothing is found yet, and all of the file is to be read.                *)
LEMMA OpenIInv ==
  ASSUME LogIInv, NEW n \in 1..MaxTail, Open(n)
  PROVE  LogIInv'
<1>1. log \in Seq(Bytes \cup {Newline}) /\ log' = log /\ Len(log) \in Nat /\ n \in Nat \ {0}
  BY LogAssumption DEF LogIInv, LogTypeOK, Open
<1>2. PICK size : size = Len(log)
  OBVIOUS
<1>3. tail' = [pc |-> "read", n |-> n, size |-> size, pos |-> size, upto |-> size,
               left |-> {}, remainder |-> {}, lines |-> <<>>]
  BY <1>2 DEF Open
<1>4. tail' \in Reading
  BY <1>1, <1>2, <1>3 DEF Reading, Places
<1>5. LogTypeOK'
  BY <1>1, <1>2, <1>3, <1>4 DEF LogTypeOK
<1>6. PICK cuts : cuts = [i \in 0..0 |-> size + 1]
  OBVIOUS
<1>7. Told(cuts, tail.lines, 0)'
  <2>1. cuts \in [0..0 -> Cuts'] /\ cuts[0] = size + 1
    BY <1>3, <1>6 DEF Cuts
  <2>2. Blank((cuts[0] + 1)..tail.size)'
    BY <1>1, <1>2, <1>3, <2>1 DEF Blank
  <2> QED BY <2>1, <2>2 DEF Told
<1>8. UpTo(size + 1)'
  <2>1. Line(size, size + 1) = {}
    BY <1>1, <1>2 DEF Line
  <2>2. FirstPart({})' = {}
    BY DEF FirstPart
  <2> QED BY <1>1, <1>2, <1>3, <2>1, <2>2 DEF UpTo, Line
<1>9. ShortTells'
  <2>1. Len(tail'.lines) = 0 /\ cuts[0] = size + 1
    BY <1>3, <1>6
  <2> QED BY <1>7, <1>8, <2>1 DEF ShortTells
<1>10. FullTells'
  BY <1>1, <1>3 DEF FullTells, Short
<1>11. TailIsTheEnd'
  BY <1>3 DEF TailIsTheEnd
<1> QED BY <1>5, <1>9, <1>10, <1>11 DEF LogIInv

(* What frpc appends comes after the places that a call has in its hands.  *)
LEMMA AppendIInv ==
  ASSUME LogIInv, AppendToLog
  PROVE  LogIInv'
<1>1. PICK byte \in Bytes \cup {Newline} : log' = Append(log, byte)
  BY DEF AppendToLog
<1>2. tail' = tail /\ tail.pc # "done"
  BY DEF AppendToLog
<1>3. /\ log \in Seq(Bytes \cup {Newline}) /\ log' \in Seq(Bytes \cup {Newline})
      /\ Len(log) \in Nat /\ Len(log') = Len(log) + 1
      /\ \A i \in 1..Len(log) : log'[i] = log[i]
  BY <1>1 DEF LogIInv, LogTypeOK
<1>4. LogTypeOK'
  BY <1>2, <1>3 DEF LogIInv, LogTypeOK
<1>5. TailIsTheEnd'
  BY <1>2 DEF TailIsTheEnd
<1>6. ASSUME tail.pc = "read"
      PROVE  ShortTells' /\ FullTells'
  <2>1. Reads
    BY <1>6 DEF Reads
  <2>2. tail.size \in Nat /\ tail.size <= Len(log)
    BY <2>1, ReadsKnows
  <2>3. \A i \in 1..tail.size : log'[i] = log[i]
    BY <1>3, <2>2
  <2>4. Cuts' = Cuts
    BY <1>2, <2>3 DEF Cuts, Ends
  <2>5. ASSUME NEW cuts, NEW lines, NEW count \in Nat, Told(cuts, lines, count)
        PROVE  Told(cuts, lines, count)'
    <3>1. \A from, to : IsLine(from, to)' <=> IsLine(from, to)
      BY <2>4 DEF IsLine, Line
    <3>2. cuts[0] \in Nat
      <4>1. cuts[0] \in Cuts
        BY <2>5 DEF Told
      <4> QED BY <2>2, <4>1 DEF Cuts, Ends
    <3>3. (cuts[0] + 1)..tail.size \subseteq 1..tail.size
      BY <2>2, <3>2
    <3>4. Blank((cuts[0] + 1)..tail.size)'
      BY <1>2, <2>3, <2>5, <3>3 DEF Told, Blank
    <3> QED BY <1>2, <2>4, <2>5, <3>1, <3>4 DEF Told, Line
  <2>6. ASSUME NEW cut \in Cuts, UpTo(cut)
        PROVE  UpTo(cut)'
    <3>1. cut \in Nat /\ cut <= tail.size + 1 /\ tail.pos \in Nat
      BY <2>1, <2>2, ReadsKnows DEF Cuts, Ends
    <3>2. tail.pos < cut /\ tail.left = Line(tail.pos, cut) /\ tail.remainder = FirstPart(tail.left)
      BY <2>6 DEF UpTo
    <3>3. tail.left \subseteq 1..tail.size
      BY <2>2, <3>1, <3>2 DEF Line
    <3>4. FirstPart(tail.left)' = FirstPart(tail.left)
      BY <1>2, <2>3, <3>3 DEF FirstPart, Ends
    <3> QED BY <1>2, <3>2, <3>4 DEF UpTo, Line
  <2>7. PICK lines, some, n :
          lines = tail.lines /\ some = Len(tail.lines) /\ n = tail.n /\ some \in Nat /\ n \in Nat
    BY <2>1, ReadsKnows
  <2>8. ShortTells'
    <3> SUFFICES ASSUME Short
                 PROVE  \E cuts : Told(cuts, lines, some)' /\ UpTo(cuts[some])'
      BY <1>2, <2>7 DEF ShortTells, Short
    <3>1. PICK cuts : Told(cuts, lines, some) /\ UpTo(cuts[some])
      BY <2>1, <2>7, ReadsKnows DEF ShortTells
    <3>2. PICK cut : cut = cuts[some]
      OBVIOUS
    <3>3. cut \in Cuts
      BY <2>7, <3>1, <3>2 DEF Told
    <3>4. UpTo(cut)'
      BY <2>6, <3>1, <3>2, <3>3
    <3> QED BY <2>5, <2>7, <3>1, <3>2, <3>4
  <2>9. FullTells'
    <3> SUFFICES ASSUME ~Short
                 PROVE  \E cuts : Told(cuts, lines, n)'
      BY <1>2, <2>7 DEF FullTells, Short
    <3>1. PICK cuts : Told(cuts, lines, n)
      BY <2>1, <2>7, ReadsKnows DEF FullTells
    <3> QED BY <2>5, <2>7, <3>1
  <2> QED BY <2>8, <2>9
<1> QED BY <1>2, <1>4, <1>5, <1>6 DEF LogIInv

LEMMA LogStep ==
  ASSUME LogIInv, [LogNext]_logVars
  PROVE  LogIInv'
<1>1. CASE ReadBlock
  BY <1>1, ReadBlockIInv DEF Reads, ReadBlock
<1>2. CASE SkipBlank
  BY <1>2, SkipBlankIInv DEF Reads, SkipBlank
<1>3. CASE TakeLine
  BY <1>3, TakeLineIInv DEF Reads, TakeLine
<1>4. CASE Finish
  BY <1>4, FinishIInv DEF Reads, Finish
<1>5. CASE AppendToLog
  BY <1>5, AppendIInv
<1>6. ASSUME NEW n \in 1..MaxTail, Open(n)
      PROVE  LogIInv'
  BY <1>6, OpenIInv
<1>7. CASE UNCHANGED logVars
  <2>1. log' = log /\ tail' = tail
    BY <1>7 DEF logVars
  <2>2. LogTypeOK'
    BY <2>1 DEF LogIInv, LogTypeOK
  <2>3. ASSUME tail.pc = "read"
        PROVE  ShortTells' /\ FullTells'
    <3>1. ReadStep
      BY <2>1, <2>3, ReadsKnows DEF ReadStep, Reads
    <3>2. PICK lines, some, n : lines = tail.lines /\ some = Len(tail.lines) /\ n = tail.n
      OBVIOUS
    <3>3. \A cut : UpTo(cut)' <=> UpTo(cut)
      BY <2>1, <3>1, ReadStepSame DEF UpTo, Line
    <3>4. ShortTells /\ FullTells
      BY <2>3 DEF LogIInv
    <3> QED BY <2>1, <3>1, <3>2, <3>3, <3>4, ReadStepSame DEF ShortTells, FullTells, Short
  <2>4. TailIsTheEnd'
    BY <2>1 DEF LogIInv, TailIsTheEnd, IsLine, Line, Cuts, Ends, Blank
  <2> QED BY <2>1, <2>2, <2>3, <2>4 DEF LogIInv
<1> QED BY <1>1, <1>2, <1>3, <1>4, <1>5, <1>6, <1>7 DEF LogNext

(* The last lines of a log of any length, in blocks of any size, while     *)
(* frpc writes on: whole lines, in their order, up to the end it had when  *)
(* the call asked, and as many as the call asked for (tailLines).          *)
THEOREM TailIsRight == LogSpec => []TailIsTheEnd
<1>1. LogInit => LogIInv
  <2> SUFFICES ASSUME LogInit
               PROVE  LogIInv
    OBVIOUS
  <2>1. tail = NotAsked /\ tail.pc = "idle"
    BY DEF LogInit, NotAsked
  <2>2. log \in Seq(Bytes \cup {Newline})
    <3>1. PICK size \in 0..MaxSize : log \in [1..size -> Bytes \cup {Newline}]
      BY DEF LogInit
    <3> QED BY <3>1, LogAssumption
  <2> QED BY <2>1, <2>2 DEF LogIInv, LogTypeOK, TailIsTheEnd
<1>2. LogIInv /\ [LogNext]_logVars => LogIInv'
  BY LogStep
<1>3. LogIInv => TailIsTheEnd
  BY DEF LogIInv
<1> QED BY <1>1, <1>2, <1>3, PTL DEF LogSpec
=============================================================================
