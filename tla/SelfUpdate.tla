------------------------------ MODULE SelfUpdate ------------------------------
(***************************************************************************)
(* ApplyUpdate (src/internal/app/selfupdate.go): the panel downloads the   *)
(* newest release of itself, checks it, puts it in the place of its own    *)
(* binary and restarts into it.                                            *)
(*                                                                         *)
(* Every call writes to the same temporary file beside the binary, and     *)
(* nothing keeps two calls apart.  A call that has the file open goes on   *)
(* writing to it wherever a rename has put it meanwhile.  A binary reaches *)
(* a file in two pieces.  Releases are numbered in their order; a build    *)
(* whose version does not parse is Dev.  The signing key is in the build   *)
(* and the process may write to its directory: otherwise ApplyUpdate       *)
(* refuses at once.                                                        *)
(***************************************************************************)
EXTENDS Naturals

CONSTANTS
  Handlers,    \* goroutines serving updateApply
  MaxRelease,  \* bound on the releases, for TLC
  Dev,         \* version of a build of no release
  Garbage,     \* bytes of no release: a bad download, a piece not written yet
  None         \* no file

Version == Nat \cup {Dev}
Piece   == 1..2
Data    == [Piece -> Version \cup {Garbage}]
Request == [pc : {"idle", "fetch", "verify", "open", "write", "chmod", "rename"},
            release : Nat, binary : Nat \cup {Garbage},
            file : {"none", "tmp", "exe", "gone"}, todo : SUBSET Piece]

ASSUME VersionAssumption ==
  MaxRelease \in Nat /\ Dev \notin Nat /\ Garbage \notin Version /\ None \notin Data

VARIABLES
  latest,   \* the newest release on GitHub
  up,       \* the process runs
  running,  \* its version
  exe,      \* the binary on the disk
  tmp,      \* exe + ".update"
  req,      \* the calls; file is where the file is that a call has open
  restart,  \* a restart is due, 800 ms after an update
  told      \* history: the newest release that a call has said is installed

vars == <<latest, up, running, exe, tmp, req, restart, told>>

IdleCall == [pc |-> "idle", release |-> 0, binary |-> Garbage, file |-> "none", todo |-> {}]
AllIdle == [h \in Handlers |-> IdleCall]

Binary(v) == [p \in Piece |-> v]
Whole(data) == data[1] = data[2] /\ data[1] # Garbage

\* What belongs to the process ends with it.
TypeOK ==
  /\ latest \in Nat /\ up \in BOOLEAN /\ running \in Version
  /\ exe \in Data /\ tmp \in Data \cup {None}
  /\ req \in [Handlers -> Request] /\ restart \in BOOLEAN /\ told \in Nat
  /\ ~up => req = AllIdle /\ ~restart

Init ==
  /\ latest \in 0..MaxRelease
  /\ running \in 0..latest \cup {Dev}
  /\ exe = Binary(running) /\ tmp = None
  /\ up = TRUE /\ req = AllIdle /\ restart = FALSE
  /\ told = 0

At(h, step) == req[h].pc = step

-----------------------------------------------------------------------------
(* The world outside                                                       *)

Publish ==
  /\ latest < MaxRelease
  /\ latest' = latest + 1
  /\ UNCHANGED <<up, running, exe, tmp, req, restart, told>>

Stopped == up' = FALSE /\ req' = AllIdle /\ restart' = FALSE

Crash ==
  /\ up
  /\ Stopped
  /\ UNCHANGED <<latest, running, exe, tmp, told>>

\* systemd starts the panel again; a torn binary does not start.
Start ==
  /\ ~up /\ Whole(exe)
  /\ up' = TRUE
  /\ running' = exe[1]
  /\ UNCHANGED <<latest, exe, tmp, req, restart, told>>

-----------------------------------------------------------------------------
(* ApplyUpdate                                                             *)

Newer(current, release) == current # Dev /\ current < release

CheckUpdate(h) ==
  /\ up /\ At(h, "idle") /\ Newer(running, latest)
  /\ req' = [req EXCEPT ![h].pc = "fetch", ![h].release = latest]
  /\ UNCHANGED <<latest, up, running, exe, tmp, restart, told>>

\* fetchUpdateAsset: what comes may not be what was asked for.
Fetch(h) ==
  /\ At(h, "fetch")
  /\ \E b \in {req[h].release, Garbage} :
       req' = [req EXCEPT ![h].pc = "verify", ![h].binary = b]
  /\ UNCHANGED <<latest, up, running, exe, tmp, restart, told>>

\* The signature of the checksums, then the checksum of the binary.
Mutant_VerifyNothing(h) ==
  /\ At(h, "verify")
  /\ req' = [req EXCEPT ![h].pc = "open"]
  /\ UNCHANGED <<latest, up, running, exe, tmp, restart, told>>
Verify(h) ==
  /\ At(h, "verify") /\ req[h].binary = req[h].release
  /\ req' = [req EXCEPT ![h].pc = "open"]
  /\ UNCHANGED <<latest, up, running, exe, tmp, restart, told>>

\* Created, or emptied for whoever else has it open.
Mutant_OpenKeepsOld(h) ==
  /\ At(h, "open")
  /\ tmp' = IF tmp = None THEN Binary(Garbage) ELSE tmp
  /\ req' = [req EXCEPT ![h].pc = "write", ![h].file = "tmp",
                        ![h].todo = IF tmp = None THEN Piece ELSE {}]
  /\ UNCHANGED <<latest, up, running, exe, restart, told>>
Open(h) ==
  /\ At(h, "open")
  /\ tmp' = Binary(Garbage)
  /\ req' = [req EXCEPT ![h].pc = "write", ![h].file = "tmp", ![h].todo = Piece]
  /\ UNCHANGED <<latest, up, running, exe, restart, told>>

Write(h, p) ==
  /\ At(h, "write") /\ p \in req[h].todo /\ \A q \in req[h].todo : p <= q
  /\ tmp' = IF req[h].file = "tmp" THEN [tmp EXCEPT ![p] = req[h].binary] ELSE tmp
  /\ exe' = IF req[h].file = "exe" THEN [exe EXCEPT ![p] = req[h].binary] ELSE exe
  /\ req' = [req EXCEPT ![h].todo = @ \ {p}]
  /\ UNCHANGED <<latest, up, running, restart, told>>

Close(h) ==
  /\ At(h, "write") /\ req[h].todo = {}
  /\ req' = [req EXCEPT ![h].pc = "chmod", ![h].file = "none"]
  /\ UNCHANGED <<latest, up, running, exe, tmp, restart, told>>

\* An error before the file is complete leaves what there is of it.
Fails(h) ==
  /\ req[h].pc \in {"fetch", "verify", "open", "write"}
  /\ req' = [req EXCEPT ![h] = IdleCall]
  /\ UNCHANGED <<latest, up, running, exe, tmp, restart, told>>

Chmod(h) ==
  /\ At(h, "chmod") /\ tmp # None
  /\ req' = [req EXCEPT ![h].pc = "rename"]
  /\ UNCHANGED <<latest, up, running, exe, tmp, restart, told>>

\* The files of the others after h is done and a name has gone.
Moved(h, where) ==
  req' = [g \in Handlers |-> IF g = h THEN IdleCall ELSE [req[g] EXCEPT !.file = where[@]]]

Renamed == [none |-> "none", tmp |-> "exe", exe |-> "gone", gone |-> "gone"]
Removed == [none |-> "none", tmp |-> "gone", exe |-> "exe", gone |-> "gone"]

Newest(a, b) == IF a > b THEN a ELSE b

Mutant_RenameOnly(h) ==
  /\ At(h, "rename") /\ tmp # None
  /\ exe' = tmp /\ tmp' = None
  /\ Moved(h, Renamed)
  /\ told' = Newest(told, req[h].release)
  /\ UNCHANGED <<latest, up, running, restart>>
Rename(h) ==
  /\ At(h, "rename") /\ tmp # None
  /\ exe' = tmp /\ tmp' = None
  /\ Moved(h, Renamed)
  /\ restart' = TRUE
  /\ told' = Newest(told, req[h].release)
  /\ UNCHANGED <<latest, up, running>>

\* An error of chmod or rename, a missing file among them, removes the file.
ReplaceFails(h) ==
  /\ req[h].pc \in {"chmod", "rename"}
  /\ tmp' = None
  /\ Moved(h, Removed)
  /\ UNCHANGED <<latest, up, running, exe, restart, told>>

\* Exec runs the binary in this process.  It fails if that is torn or still
\* being written, and may fail for lack of memory; then the process exits.
Executable == Whole(exe) /\ \A h \in Handlers : req[h].file # "exe"

Exec ==
  /\ restart /\ Executable
  /\ running' = exe[1]
  /\ req' = AllIdle /\ restart' = FALSE
  /\ UNCHANGED <<latest, up, exe, tmp, told>>

Mutant_ExitLeavesTimer ==
  /\ restart
  /\ up' = FALSE /\ req' = AllIdle
  /\ UNCHANGED <<latest, running, exe, tmp, restart, told>>
Exit ==
  /\ restart
  /\ Stopped
  /\ UNCHANGED <<latest, running, exe, tmp, told>>

-----------------------------------------------------------------------------
ApplyUpdate(h) ==
  \/ CheckUpdate(h) \/ Fetch(h) \/ Verify(h) \/ Open(h) \/ Close(h)
  \/ \E p \in Piece : Write(h, p)
  \/ Fails(h) \/ Chmod(h) \/ Rename(h) \/ ReplaceFails(h)

Next ==
  \/ Publish \/ Crash \/ Start \/ Exec \/ Exit
  \/ \E h \in Handlers : ApplyUpdate(h)

Spec == Init /\ [][Next]_vars

\* The timer of the restart fires, and systemd starts what has stopped.
Fairness == WF_vars(Exec \/ Exit) /\ WF_vars(Start)

FairSpec == Spec /\ Fairness

-----------------------------------------------------------------------------
(* Properties *)

(* The comment at selfupdate.go:126 says that a complete binary is on the  *)
(* disk at any time: whatever is written, and wherever the process stops,  *)
(* no restart of the panel meets a torn one or one that was not checked.   *)
ExeIsWhole == Whole(exe)

(* What a call has said is installed, and nothing older, is what the disk  *)
(* has: no leftover of an earlier attempt gets in the place of it.         *)
AnnouncedIsInstalled == told > 0 => exe[1] \in Nat /\ exe[1] >= told

(* What a call has said is installed runs in the end, even if the process  *)
(* dies before the restart it has announced.                               *)
AnnouncedRuns ==
  \A r \in 1..MaxRelease : told = r ~> up /\ running \in Nat /\ running >= r
=============================================================================
