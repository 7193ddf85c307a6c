---------------------------- MODULE ConfigScanner ----------------------------
(***************************************************************************)
(* The cache of frpc configurations (src/internal/app/configscan.go) and   *)
(* the calls that change them, SaveConfigFile and ImportConfig             *)
(* (src/internal/app/service.go).                                          *)
(*                                                                         *)
(* A refresh scans the files into a new list, then probes the admin API of *)
(* each server and stores the answers.  The loop of Run refreshes every 10 *)
(* seconds, a save or an import refreshes in its own request, and nothing  *)
(* keeps refreshes from overlapping: the mutex of the scanner is held only *)
(* to copy or to replace.                                                  *)
(*                                                                         *)
(* One file is one server.  Of a content matters which one it is, and      *)
(* whether it has an admin port, has none or does not parse.  A file that  *)
(* cannot be read is absent; one that cannot be written is a write that    *)
(* fails.  Edits of a file keep the address of its admin API.              *)
(***************************************************************************)
EXTENDS Naturals

CONSTANTS
  Files,      \* paths in the scanned directories
  Handlers,   \* goroutines serving saves and imports
  Loop,       \* the goroutine of Run
  MaxWrites,  \* bound on the writes, for TLC
  None        \* no file, no server, no status

Workers  == Handlers \cup {Loop}
Status   == {"running", "stopped", "no-admin"}
Content  == [version : Nat, kind : {"admin", "plain", "bad"}]
Server   == [version : Nat, admin : BOOLEAN, status : Status]
Statuses == [Files -> Status \cup {None}]
Listing  == [Files -> Server \cup {None}]
Work     == [pc : {"idle", "write", "discover", "status", "read", "copy", "probe"},
             op : {"none", "save", "import"}, todo : SUBSET Files,
             status : Statuses, list : Listing, cancelled : BOOLEAN]

ASSUME WorkersAssumption ==
  /\ Loop \notin Handlers /\ MaxWrites \in Nat
  /\ None \notin Content /\ None \notin Server /\ None \notin Status

VARIABLES
  files,     \* the files on the disk
  up,        \* the frpc of a file answers its admin API
  cache,     \* ConfigScanner.servers
  work,      \* the loop and the calls
  writes,    \* number of contents written so far: the next one is writes + 1
  quiet,     \* history: refreshes under way that nothing has disturbed
  wasDown    \* history: instances that were down at some time

vars == <<files, up, cache, work, writes, quiet, wasDown>>
history == <<quiet, wasDown>>

NoListing == [f \in Files |-> None]
NoStatus  == [f \in Files |-> None]

Idle == [pc |-> "idle", op |-> "none", todo |-> {},
         status |-> NoStatus, list |-> NoListing, cancelled |-> FALSE]

TypeOK ==
  /\ files \in [Files -> Content \cup {None}]
  /\ up \in [Files -> BOOLEAN]
  /\ cache \in Listing
  /\ work \in [Workers -> Work]
  /\ writes \in Nat
  /\ quiet \in SUBSET Workers /\ wasDown \in SUBSET Files

Init ==
  /\ files \in [Files -> [version : {0}, kind : {"admin", "plain", "bad"}] \cup {None}]
  /\ up \in [Files -> BOOLEAN]
  /\ cache = NoListing
  /\ work = [w \in Workers |-> [Idle EXCEPT !.pc = IF w = Loop THEN "discover" ELSE "idle"]]
  /\ writes = 0
  /\ quiet = {Loop}
  /\ wasDown = {f \in Files : ~up[f]}

At(w, step) == work[w].pc = step
Refreshing(w) == work[w].pc \notin {"idle", "write"}

\* History: a refresh is quiet if no other one overlaps with it and neither
\* the files nor the instances change until its end.
Disturbed == quiet' = {}
Joined(w) == quiet' = IF \E v \in Workers \ {w} : Refreshing(v) THEN {} ELSE {w}

-----------------------------------------------------------------------------
(* The world outside: frpc starts and stops, somebody edits the files.     *)

Turn(f) ==
  /\ up' = [up EXCEPT ![f] = ~@]
  /\ wasDown' = wasDown \cup {f}
  /\ Disturbed
  /\ UNCHANGED <<files, cache, work, writes>>

Edit(f) ==
  /\ writes < MaxWrites
  /\ writes' = writes + 1
  /\ \E c \in [version : {writes + 1}, kind : {"admin", "plain", "bad"}] \cup {None} :
       files' = [files EXCEPT ![f] = c]
  /\ Disturbed
  /\ UNCHANGED <<up, cache, work, wasDown>>

-----------------------------------------------------------------------------
(* Run, SaveConfigFile and ImportConfig                                    *)

LoopTick ==
  /\ At(Loop, "idle")
  /\ work' = [work EXCEPT ![Loop].pc = "discover"]
  /\ Joined(Loop)
  /\ UNCHANGED <<files, up, cache, writes, wasDown>>

CallBegin(h, op, todo) ==
  /\ At(h, "idle")
  /\ work' = [work EXCEPT ![h] = [pc |-> "write", op |-> op, todo |-> todo,
                                  status |-> NoStatus, list |-> NoListing, cancelled |-> FALSE]]
  /\ UNCHANGED <<files, up, cache, writes, history>>

\* A save is for a server of the cache, whether or not the file is there.
SaveBegin(h, f) == cache[f] # None /\ CallBegin(h, "save", {f})

ImportBegin(h, todo) == CallBegin(h, "import", todo)

\* The call goes on writing, with less to do.
CallAt(h, todo) ==
  work' = [work EXCEPT ![h] = [pc |-> "write", op |-> @.op, todo |-> todo,
                               status |-> NoStatus, list |-> NoListing, cancelled |-> FALSE]]

\* atomicWriteFile; the panel writes what it is given, parsed or not.
WriteFile(h, f) ==
  /\ At(h, "write") /\ f \in work[h].todo
  /\ writes < MaxWrites
  /\ writes' = writes + 1
  /\ \E c \in [version : {writes + 1}, kind : {"admin", "plain", "bad"}] :
       files' = [files EXCEPT ![f] = c]
  /\ CallAt(h, work[h].todo \ {f})
  /\ Disturbed
  /\ UNCHANGED <<up, cache, wasDown>>

\* A save returns its error; an import skips the file.
WriteFails(h, f) ==
  /\ At(h, "write") /\ f \in work[h].todo
  /\ IF work[h].op = "save" THEN work' = [work EXCEPT ![h] = Idle]
     ELSE CallAt(h, work[h].todo \ {f})
  /\ UNCHANGED <<files, up, cache, writes, history>>

CallRefresh(h) ==
  /\ At(h, "write") /\ work[h].todo = {}
  /\ work' = [work EXCEPT ![h].pc = "discover"]
  /\ Joined(h)
  /\ UNCHANGED <<files, up, cache, writes, wasDown>>

\* The client gives up, which cancels the context of its request.
Cancel(h) ==
  /\ Refreshing(h)
  /\ work' = [work EXCEPT ![h].cancelled = TRUE]
  /\ quiet' = quiet \ {h}
  /\ UNCHANGED <<files, up, cache, writes, wasDown>>

-----------------------------------------------------------------------------
(* scan *)

\* The refresh goes on to a step with the files it has to do there, the
\* statuses it knows and the list it has made.
GoesOn(w, step, todo, status, list) ==
  work' = [work EXCEPT ![w] = [pc |-> step, op |-> @.op, todo |-> todo,
                               status |-> status, list |-> list, cancelled |-> @.cancelled]]

Discover(w) ==
  /\ At(w, "discover")
  /\ GoesOn(w, "status", {f \in Files : files[f] # None}, NoStatus, NoListing)
  /\ UNCHANGED <<files, up, cache, writes, history>>

\* snapshotStatus
StatusOf(list) == [f \in Files |-> IF list[f] = None THEN None ELSE list[f].status]

SnapshotStatus(w) ==
  /\ At(w, "status")
  /\ GoesOn(w, "read", work[w].todo, StatusOf(cache), NoListing)
  /\ UNCHANGED <<files, up, cache, writes, history>>

\* parseServerFromPath, with the status found before where there is one; a
\* file it cannot parse is no server.
Parses(f) == files[f] # None /\ files[f].kind # "bad"

Parsed(f, known) ==
  [version |-> files[f].version, admin |-> files[f].kind = "admin",
   status |-> IF known # None THEN known
              ELSE IF files[f].kind = "admin" THEN "stopped" ELSE "no-admin"]

Read(w, f) == IF Parses(f) THEN Parsed(f, work[w].status[f]) ELSE None

Mutant_ReadOnlyNew(w, f) ==
  /\ At(w, "read") /\ f \in work[w].todo
  /\ GoesOn(w, "read", work[w].todo \ {f}, work[w].status,
            [work[w].list EXCEPT ![f] = IF cache[f] # None THEN cache[f] ELSE Read(w, f)])
  /\ UNCHANGED <<files, up, cache, writes, history>>
ReadFile(w, f) ==
  /\ At(w, "read") /\ f \in work[w].todo
  /\ GoesOn(w, "read", work[w].todo \ {f}, work[w].status, [work[w].list EXCEPT ![f] = Read(w, f)])
  /\ UNCHANGED <<files, up, cache, writes, history>>

Install(w) ==
  /\ At(w, "read") /\ work[w].todo = {}
  /\ cache' = work[w].list
  /\ GoesOn(w, "copy", {}, NoStatus, NoListing)
  /\ UNCHANGED <<files, up, writes, history>>

-----------------------------------------------------------------------------
(* probeStatuses *)

WithAdmin(list) == {f \in Files : list[f] # None /\ list[f].admin}

Mutant_PlainNotAnswered(w) ==
  /\ At(w, "copy")
  /\ GoesOn(w, "probe", WithAdmin(cache), NoStatus, cache)
  /\ UNCHANGED <<files, up, cache, writes, history>>
CopyServers(w) ==
  /\ At(w, "copy")
  /\ GoesOn(w, "probe", WithAdmin(cache),
            [f \in Files |-> IF cache[f] # None /\ ~cache[f].admin THEN "no-admin" ELSE None],
            cache)
  /\ UNCHANGED <<files, up, cache, writes, history>>

\* ProxyStatus, within the context of the refresh and its own timeout.
Probe(w, f) ==
  /\ At(w, "probe") /\ f \in work[w].todo
  /\ LET answer == IF up[f] /\ ~work[w].cancelled THEN "running" ELSE "stopped"
     IN GoesOn(w, "probe", work[w].todo \ {f}, [work[w].status EXCEPT ![f] = answer], work[w].list)
  /\ UNCHANGED <<files, up, cache, writes, history>>

\* The answers go to the servers that are in the cache by now; then the
\* refresh, and the call it belongs to, return.
Answered(list, status) ==
  [f \in Files |-> IF list[f] # None /\ status[f] # None
                   THEN [list[f] EXCEPT !.status = status[f]] ELSE list[f]]

Mutant_StoreItsCopy(w) ==
  /\ At(w, "probe") /\ work[w].todo = {}
  /\ cache' = Answered(work[w].list, work[w].status)
  /\ work' = [work EXCEPT ![w] = Idle]
  /\ quiet' = quiet \ {w}
  /\ UNCHANGED <<files, up, writes, wasDown>>
StoreStatuses(w) ==
  /\ At(w, "probe") /\ work[w].todo = {}
  /\ cache' = Answered(cache, work[w].status)
  /\ work' = [work EXCEPT ![w] = Idle]
  /\ quiet' = quiet \ {w}
  /\ UNCHANGED <<files, up, writes, wasDown>>

-----------------------------------------------------------------------------
Refresh(w) ==
  \/ Discover(w) \/ SnapshotStatus(w) \/ Install(w) \/ CopyServers(w) \/ StoreStatuses(w)
  \/ \E f \in Files : ReadFile(w, f) \/ Probe(w, f)

Calls(h) ==
  \/ \E f \in Files : SaveBegin(h, f) \/ WriteFile(h, f) \/ WriteFails(h, f)
  \/ \E todo \in SUBSET Files : ImportBegin(h, todo)
  \/ CallRefresh(h) \/ Cancel(h)

Next ==
  \/ \E f \in Files : Turn(f) \/ Edit(f)
  \/ LoopTick
  \/ \E h \in Handlers : Calls(h)
  \/ \E w \in Workers : Refresh(w)

Spec == Init /\ [][Next]_vars

\* The ticker fires, and a refresh goes on: each probe has its timeout.
Fairness == WF_vars(LoopTick) /\ \A w \in Workers : WF_vars(Refresh(w))

FairSpec == Spec /\ Fairness

-----------------------------------------------------------------------------
(* Properties *)

\* The cache lists the files that parse, each with the status of its instance.
Exact ==
  cache = [f \in Files |->
             IF ~Parses(f) THEN None
             ELSE Parsed(f, IF files[f].kind = "plain" THEN "no-admin"
                            ELSE IF up[f] THEN "running" ELSE "stopped")]

(* A refresh that nothing disturbs leaves the cache exact, whatever        *)
(* earlier refreshes, cut off or overlapped, have left in it.              *)
QuietRefreshIsExact ==
  [][\A w \in Workers : StoreStatuses(w) /\ w \in quiet => Exact']_vars

(* What is listed comes from a scan: answers of the probes never bring a   *)
(* server back that a later scan has dropped, nor an older content.        *)
OnlyScansList ==
  [][(\E f \in Files : \/ (cache[f] = None) # (cache'[f] = None)
                       \/ cache[f] # None /\ cache'[f] # None
                            /\ cache[f].version # cache'[f].version)
       => \E w \in Workers : Install(w)]_vars

(* Once nobody changes the files, the cache comes to list them and goes on *)
(* to, however many saves and imports keep refreshing.                     *)
ContentSettles ==
  <>[][FALSE]_files =>
    <>[](\A f \in Files : IF Parses(f) THEN cache[f] # None /\ cache[f].version = files[f].version
                          ELSE cache[f] = None)

(* Once in addition the instances and the calls come to rest, each status  *)
(* is the one of its instance.                                             *)
StatusSettles ==
  <>[][FALSE]_<<files, up>> /\ <>[](\A h \in Handlers : ~Refreshing(h)) => <>[]Exact

(* models.go:131 says that a server is stopped if its admin API cannot be  *)
(* reached: no probe declares an instance stopped that was never down.     *)
StoppedWasDown ==
  [][\A w \in Workers, f \in Files \ wasDown :
       StoreStatuses(w) => work[w].status[f] # "stopped"]_vars
=============================================================================
