------------------------------ MODULE StateFile ------------------------------
(***************************************************************************)
(* How the panel keeps its state: Open and save of                         *)
(* src/internal/storage/store.go, one system call at a time, with every    *)
(* call allowed to fail, the process allowed to die and the power allowed  *)
(* to go between any two of them.                                          *)
(*                                                                         *)
(* The store's mutex is held by an operation from its change in memory to  *)
(* the end of save, so operations are one after the other and the state is *)
(* one value; TouchSession changes no more than a timestamp the model does *)
(* not distinguish.                                                        *)
(*                                                                         *)
(* The file system: rename is atomic for running processes; data that was  *)
(* not synced may be torn after a power loss; a rename may be undone by a  *)
(* power loss until the disk has settled (the directory is never synced).  *)
(***************************************************************************)
EXTENDS Naturals, FiniteSets

CONSTANTS
  Values,     \* contents of the state, old structure included
  Legacy,     \* those with the v1 structure (hasLegacyState)
  Loaded,     \* Loaded[v]: v after Unmarshal and pruneExpired
  Fresh,      \* the empty state of a first start
  NoFile,     \* no such file
  Torn,       \* an incomplete file
  Down        \* memory of a process that does not run

Modern == Values \ Legacy

ASSUME ValuesAssumption ==
  /\ Legacy \subseteq Values
  /\ Loaded \in [Values -> Modern]
  /\ Fresh \in Modern
  /\ NoFile \notin Values /\ Torn \notin Values /\ Down \notin Values
  /\ NoFile # Torn

Contents == Values \cup {NoFile, Torn}

VARIABLES
  pc,           \* what the process is doing
  serving,      \* Open has returned: the panel answers requests
  mem,          \* Store.st
  saveFailed,   \* the last save returned an error
  tmp,          \* the temporary file of the save in progress
  file,         \* state.json as processes see it
  fileDisk,     \* what a power loss may make of it
  bak,          \* state.json.v1.bak, likewise
  bakDisk,
  migrating     \* state.json was written by v1 (constant during a behaviour)

memory == <<pc, serving, mem, saveFailed, tmp>>
disk   == <<file, fileDisk, bak, bakDisk>>
vars   == <<pc, serving, mem, saveFailed, tmp, file, fileDisk, bak, bakDisk, migrating>>

TypeOK ==
  /\ pc \in {"down", "read", "backup", "idle", "create", "write", "sync", "rename"}
  /\ serving \in BOOLEAN /\ saveFailed \in BOOLEAN /\ migrating \in BOOLEAN
  /\ mem \in Modern \cup {Down}
  /\ pc \in {"down", "read", "backup"} <=> mem = Down
  /\ pc \in {"down", "read", "backup"} => ~serving
  /\ pc = "idle" => serving
  /\ tmp \in {"none", "partial", "written", "synced"}
  /\ pc = "rename" => tmp \in {"written", "synced"}
  /\ file \in Contents /\ fileDisk \in SUBSET Contents
  /\ bak \in Contents /\ bakDisk \in SUBSET Contents

Init ==
  /\ pc = "down" /\ serving = FALSE /\ mem = Down
  /\ saveFailed = FALSE /\ tmp = "none"
  /\ file \in Values \cup {NoFile} /\ fileDisk = {file}
  /\ bak = NoFile /\ bakDisk = {NoFile}
  /\ migrating = (file \in Legacy)

-----------------------------------------------------------------------------
(* Open *)

Start ==
  /\ pc = "down"
  /\ pc' = "read"
  /\ UNCHANGED <<serving, mem, saveFailed, tmp, disk, migrating>>

\* A file of the old structure is backed up first, unless a backup exists.
Mutant_BackupAgain == file \in Legacy
NeedsBackup == file \in Legacy /\ bak = NoFile

\* os.WriteFile creates the backup empty ...
BackupBegins ==
  /\ pc = "read" /\ NeedsBackup
  /\ pc' = "backup"
  /\ bak' = Torn /\ bakDisk' = bakDisk \cup {Torn}
  /\ UNCHANGED <<serving, mem, saveFailed, tmp, file, fileDisk, migrating>>

\* The state that Open builds from the file; a torn file is a parse error.
Load ==
  /\ mem' = IF file = NoFile THEN Fresh ELSE Loaded[file]
  /\ pc' = "create"
  /\ UNCHANGED <<serving, saveFailed, tmp, migrating>>

\* ... and writes it; an error is ignored and leaves what was written.
BackupEnds ==
  /\ pc = "backup"
  /\ \/ bak' = file /\ bakDisk' = bakDisk \cup {file}
     \/ UNCHANGED <<bak, bakDisk>>
  /\ Load
  /\ UNCHANGED <<file, fileDisk>>

\* No backup is needed, or the backup cannot even be created.  On a torn
\* file Open returns the parse error and main exits; NeverTorn is why there
\* is no action for that.
Read ==
  /\ pc = "read" /\ file # Torn
  /\ Load
  /\ UNCHANGED disk

-----------------------------------------------------------------------------
(* An operation changes the memory, then saves; save is CreateTemp, Write  *)
(* and Chmod, Sync and Close, Rename.                                      *)

Change(v) ==
  /\ pc = "idle"
  /\ mem' = v
  /\ pc' = "create"
  /\ UNCHANGED <<serving, saveFailed, tmp, disk, migrating>>

CreateTemp ==
  /\ pc = "create"
  /\ tmp' = "partial"
  /\ pc' = "write"
  /\ UNCHANGED <<serving, mem, saveFailed, disk, migrating>>

WriteTemp ==
  /\ pc = "write"
  /\ tmp' = "written"
  /\ pc' = "sync"
  /\ UNCHANGED <<serving, mem, saveFailed, disk, migrating>>

Mutant_NoSync ==
  /\ pc = "sync"
  /\ pc' = "rename"
  /\ UNCHANGED <<serving, mem, saveFailed, tmp, disk, migrating>>
SyncTemp ==
  /\ pc = "sync"
  /\ tmp' = "synced"
  /\ pc' = "rename"
  /\ UNCHANGED <<serving, mem, saveFailed, disk, migrating>>

\* The save succeeds; from Open, the panel starts serving.
Rename ==
  /\ pc = "rename"
  /\ file' = mem
  /\ fileDisk' = fileDisk \cup {mem} \cup (IF tmp = "synced" THEN {} ELSE {Torn})
  /\ pc' = "idle" /\ serving' = TRUE
  /\ saveFailed' = FALSE /\ tmp' = "none"
  /\ UNCHANGED <<mem, bak, bakDisk, migrating>>

\* Any call of save fails: the operation reports the error and keeps its
\* change in memory; Open gives up and main exits.
Mutant_ErrorSwallowed ==
  /\ pc \in {"create", "write", "sync", "rename"}
  /\ tmp' = "none"
  /\ IF serving
     THEN pc' = "idle" /\ UNCHANGED <<mem, saveFailed>>
     ELSE pc' = "down" /\ mem' = Down /\ UNCHANGED saveFailed
  /\ UNCHANGED <<serving, disk, migrating>>
Mutant_OpenServesAnyway ==
  /\ pc \in {"create", "write", "sync", "rename"}
  /\ tmp' = "none"
  /\ pc' = "idle" /\ saveFailed' = TRUE /\ serving' = TRUE
  /\ UNCHANGED <<mem, disk, migrating>>
SaveFails ==
  /\ pc \in {"create", "write", "sync", "rename"}
  /\ tmp' = "none"
  /\ IF serving
     THEN pc' = "idle" /\ saveFailed' = TRUE /\ UNCHANGED mem
     ELSE pc' = "down" /\ mem' = Down /\ UNCHANGED saveFailed
  /\ UNCHANGED <<serving, disk, migrating>>

-----------------------------------------------------------------------------
(* The environment *)

Dies ==
  /\ pc' = "down" /\ serving' = FALSE /\ mem' = Down
  /\ saveFailed' = FALSE /\ tmp' = "none"
  /\ UNCHANGED migrating

\* The process is killed: the files stay as they are.
Crash ==
  /\ pc # "down"
  /\ Dies
  /\ UNCHANGED disk

\* The machine stops: each file is one of those the disk may hold.
PowerLoss ==
  /\ Dies
  /\ file' \in fileDisk /\ fileDisk' = {file'}
  /\ bak' \in bakDisk /\ bakDisk' = {bak'}

\* The kernel writes everything back.
Settle ==
  /\ <<fileDisk, bakDisk>> # <<{file}, {bak}>>
  /\ fileDisk' = {file} /\ bakDisk' = {bak}
  /\ UNCHANGED <<memory, file, bak, migrating>>

Next ==
  \/ Start \/ BackupBegins \/ BackupEnds \/ Read
  \/ \E v \in Modern : Change(v)
  \/ CreateTemp \/ WriteTemp \/ SyncTemp \/ Rename \/ SaveFails
  \/ Crash \/ PowerLoss \/ Settle

Spec == Init /\ [][Next]_vars

-----------------------------------------------------------------------------
(* Properties *)

(* "After a crash the disk holds the old file or the complete new one"     *)
(* (store.go:149): neither a process nor a power loss ever meets a         *)
(* half-written state.json, whatever call of save was interrupted.         *)
NeverTorn == file # Torn /\ Torn \notin fileDisk

(* An operation that reported success is on the disk: the memory of a      *)
(* serving panel is ahead of state.json only after a save that failed.     *)
ReportedMeansSaved ==
  pc = "idle" /\ ~saveFailed => file = mem

(* The panel answers no request before its state went through a save: a    *)
(* panel that serves has a readable state.json of the new structure.       *)
ServesFromModernFile == serving => file \in Modern

(* A complete backup of the v1 state is never replaced or damaged while    *)
(* the machine stays up, however often the migration is interrupted.       *)
BackupKept ==
  [][(bak \in Legacy) => bak' = bak \/ PowerLoss]_vars

(* The backup exists so that the v1 data is not silently overwritten       *)
(* (store.go:77): once state.json has the new structure, a file that v1    *)
(* wrote is in the backup.                                                 *)
BackedUpBeforeOverwrite ==
  migrating /\ file \in Modern => bak \in Legacy

(* The store implements the register it is used as.                        *)
Register == INSTANCE DurableRegister
              WITH stable <- file, possible <- fileDisk
Implements == Register!RSpec
=============================================================================
