---------------------------- MODULE StoreProofs ----------------------------
(***************************************************************************)
(* Theorems about the store.  StateFile: for every set of states and every *)
(* way of loading them, the state file is never torn, a reported save is   *)
(* on the disk, and the detailed save implements the atomic write of       *)
(* DurableRegister.  AuditLog: for any limit, any sizes of pages and any   *)
(* number of requests, the log keeps the newest entries, says who cleared  *)
(* it, and is read without a gap while it grows.                           *)
(***************************************************************************)
EXTENDS StateFile, AuditLog, FiniteSetTheorems, SequenceTheorems, TLAPS

(* What is renamed has been synced, and the file is one of those the disk  *)
(* may hold.                                                               *)
RenamesSynced == pc = "rename" => tmp = "synced"

(* A backup being written replaces none that is complete.                  *)
BackupIsNew == pc = "backup" => bak = Torn

IInv ==
  /\ TypeOK
  /\ RenamesSynced
  /\ BackupIsNew
  /\ NeverTorn
  /\ file \in fileDisk
  /\ ReportedMeansSaved
  /\ ServesFromModernFile

LEMMA InitIInv == Init => IInv
<1> SUFFICES ASSUME Init PROVE IInv
  OBVIOUS
<1>1. migrating \in BOOLEAN
  <2>1. migrating = (file \in Legacy)
    BY DEF Init
  <2>2. (file \in Legacy) \in BOOLEAN
    OBVIOUS
  <2> QED BY <2>1, <2>2
<1>2. /\ pc = "down" /\ serving = FALSE /\ mem = Down /\ saveFailed = FALSE
      /\ tmp = "none" /\ file \in Values \cup {NoFile} /\ fileDisk = {file}
      /\ bak = NoFile /\ bakDisk = {NoFile}
  BY DEF Init
<1> QED
  BY <1>1, <1>2, ValuesAssumption
  DEF IInv, TypeOK, RenamesSynced, BackupIsNew, NeverTorn, ReportedMeansSaved,
      ServesFromModernFile, Contents, Modern

LEMMA StepIInv == IInv /\ [Next]_vars => IInv'
<1> SUFFICES ASSUME IInv, [Next]_vars PROVE IInv'
  OBVIOUS
<1> USE ValuesAssumption
    DEF IInv, TypeOK, RenamesSynced, BackupIsNew, NeverTorn, ReportedMeansSaved,
        ServesFromModernFile, Contents, Modern, disk, memory
<1>1. CASE Start
  BY <1>1 DEF Start
<1>2. CASE BackupBegins
  BY <1>2 DEF BackupBegins
<1>3. ASSUME Load, pc \in {"read", "backup"}, file # Torn, UNCHANGED <<file, fileDisk>>,
             bak' \in Contents, bakDisk' \in SUBSET Contents
      PROVE  IInv'
  <2>1. mem' \in Modern
    BY <1>3 DEF Load
  <2> QED BY <1>3, <2>1 DEF Load
<1>4. CASE BackupEnds
  BY <1>3, <1>4 DEF BackupEnds
<1>5. CASE Read
  BY <1>3, <1>5 DEF Read
<1>7. ASSUME NEW v \in Modern, Change(v) PROVE IInv'
  BY <1>7 DEF Change
<1>8. CASE CreateTemp
  BY <1>8 DEF CreateTemp
<1>9. CASE WriteTemp
  BY <1>9 DEF WriteTemp
<1>10. CASE SyncTemp
  BY <1>10 DEF SyncTemp
<1>11. CASE Rename
  BY <1>11 DEF Rename
<1>12. CASE SaveFails
  BY <1>12 DEF SaveFails
<1>13. CASE Crash
  BY <1>13 DEF Crash, Dies
<1>14. CASE PowerLoss
  BY <1>14 DEF PowerLoss, Dies
<1>15. CASE Settle
  BY <1>15 DEF Settle
<1>16. CASE UNCHANGED vars
  BY <1>16 DEF vars
<1> QED BY <1>1, <1>2, <1>4, <1>5, <1>7, <1>8, <1>9, <1>10, <1>11,
           <1>12, <1>13, <1>14, <1>15, <1>16 DEF Next

LEMMA InductiveInvariant == Spec => []IInv
BY InitIInv, StepIInv, PTL DEF Spec

-----------------------------------------------------------------------------
(* The process, its memory and the files stay in their ranges.             *)
THEOREM TypeCorrect == Spec => []TypeOK
<1>1. IInv => TypeOK
  BY DEF IInv
<1> QED BY <1>1, InductiveInvariant, PTL

(* No crash and no power loss leaves a half-written state.json.            *)
THEOREM StateFileNeverTorn == Spec => []NeverTorn
<1>1. IInv => NeverTorn
  BY DEF IInv
<1> QED BY <1>1, InductiveInvariant, PTL

(* What an operation reported as saved is in state.json.                   *)
THEOREM ReportedSavesAreOnDisk == Spec => []ReportedMeansSaved
<1>1. IInv => ReportedMeansSaved
  BY DEF IInv
<1> QED BY <1>1, InductiveInvariant, PTL

(* The panel serves only from a file of the new structure.                 *)
THEOREM ServingMeansMigrated == Spec => []ServesFromModernFile
<1>1. IInv => ServesFromModernFile
  BY DEF IInv
<1> QED BY <1>1, InductiveInvariant, PTL

(* No restart of an interrupted migration replaces or damages a complete   *)
(* backup of the v1 state.                                                 *)
THEOREM BackupsAreKept == Spec => BackupKept
<1>1. ASSUME IInv, Next, bak \in Legacy PROVE bak' = bak \/ PowerLoss
  <2>1. pc # "backup" /\ bak # NoFile
    BY <1>1, ValuesAssumption DEF IInv, BackupIsNew
  <2>2. ~BackupBegins /\ ~BackupEnds
    BY <2>1 DEF BackupBegins, NeedsBackup, BackupEnds
  <2>3. CASE Start \/ Read \/ CreateTemp \/ WriteTemp \/ SyncTemp \/ Rename \/ SaveFails
             \/ Crash \/ Settle \/ \E v \in Modern : Change(v)
    BY <2>3 DEF Start, Read, CreateTemp, WriteTemp, SyncTemp, Rename, SaveFails,
                Crash, Settle, Change, disk
  <2> QED BY <1>1, <2>2, <2>3 DEF Next
<1>2. IInv /\ [Next]_vars => [(bak \in Legacy) => bak' = bak \/ PowerLoss]_vars
  BY <1>1
<1> QED BY <1>2, InductiveInvariant, PTL DEF Spec, BackupKept

-----------------------------------------------------------------------------
(* The refinement: every step is a step of the register or leaves it alone.*)
LEMMA StepRefines == IInv /\ [Next]_vars => [Register!RNext]_(Register!rvars)
<1> SUFFICES ASSUME IInv, [Next]_vars
             PROVE  Register!RNext \/ UNCHANGED <<mem, file, fileDisk>>
  BY DEF Register!rvars
<1> USE DEF disk, memory
<1>1. CASE \/ Start \/ BackupBegins \/ CreateTemp
           \/ WriteTemp \/ SyncTemp \/ UNCHANGED vars
  BY <1>1 DEF Start, BackupBegins, CreateTemp, WriteTemp, SyncTemp, vars
<1>2. CASE BackupEnds \/ Read
  <2>1. mem = Down
    BY <1>2 DEF BackupEnds, Read, IInv, TypeOK
  <2>2. Register!Recover
    BY <1>2, <2>1 DEF BackupEnds, Read, Load, Register!Recover
  <2> QED BY <2>2 DEF Register!RNext
<1>3. ASSUME NEW v \in Modern, Change(v) PROVE Register!RNext
  <2>1. mem # Down /\ v \in Values
    BY <1>3 DEF Change, IInv, TypeOK, Modern
  <2>2. Register!Modify
    BY <1>3, <2>1 DEF Change, Register!Modify
  <2> QED BY <2>2 DEF Register!RNext
<1>4. CASE Rename
  <2>1. mem # Down /\ tmp = "synced"
    BY <1>4 DEF Rename, IInv, TypeOK, RenamesSynced
  <2>2. Register!Write
    BY <1>4, <2>1 DEF Rename, Register!Write
  <2> QED BY <2>2 DEF Register!RNext
<1>5. CASE SaveFails
  <2>1. UNCHANGED <<mem, file, fileDisk>> \/ Register!Crash
    BY <1>5 DEF SaveFails, Register!Crash
  <2> QED BY <2>1 DEF Register!RNext
<1>6. CASE Crash
  BY <1>6 DEF Crash, Dies, Register!Crash, Register!RNext
<1>7. CASE PowerLoss
  BY <1>7 DEF PowerLoss, Dies, Register!PowerLoss, Register!RNext
<1>8. CASE Settle
  BY <1>8 DEF Settle, Register!Settle, Register!RNext
<1> QED BY <1>1, <1>2, <1>3, <1>4, <1>5, <1>6, <1>7, <1>8 DEF Next

(* Open and save, with every failure and crash, implement a register whose *)
(* writes are atomic and durable.                                          *)
THEOREM SaveIsAtomic == Spec => Implements
<1>1. Init => Register!RInit
  BY DEF Init, Register!RInit
<1> QED BY <1>1, StepRefines, InductiveInvariant, PTL
    DEF Spec, Implements, Register!RSpec

-----------------------------------------------------------------------------
(* AuditLog: the inductive invariant *)

Served  == [pc : {"served"}, action : Actions]
Paging  == [pc : {"reading", "done"}, query : Query, page : Nat \ {0},
            began : Nat, seen : SUBSET Nat]

AuditTypeOK ==
  /\ audit \in Seq([id : Nat, action : Actions])
  /\ stored \in Nat /\ cleared \in Nat /\ lost \in Nat
  /\ request \in [Callers -> {NoRequest} \cup Served]
  /\ client \in {NotReading} \cup Paging

CountsTell ==
  /\ cleared <= stored
  /\ client # NotReading => client.began <= stored

\* The client looks for what it has not seen where it has not looked yet.
Wanted(i) ==
  /\ i \in Matching(client.query)
  /\ audit[i].id <= client.began /\ audit[i].id \notin client.seen

UnseenComesLater ==
  client.pc = "reading" =>
    \A i \in DOMAIN audit :
      Wanted(i) => (client.page - 1) * Size(client.query) <= Before(client.query, i)

AuditIInv ==
  /\ AuditTypeOK
  /\ CountsTell
  /\ NewestAreKept
  /\ ClearLeavesATrace
  /\ UnseenComesLater
  /\ PagesMissNothing

-----------------------------------------------------------------------------
LEMMA AuditInitIInv == AuditInit => AuditIInv
<1> SUFFICES ASSUME AuditInit PROVE AuditIInv
  OBVIOUS
<1>1. /\ audit = <<>> /\ stored = 0 /\ cleared = 0 /\ lost = 0 /\ client = NotReading
      /\ request = [c \in Callers |-> NoRequest]
  BY DEF AuditInit
<1>2. client.pc = "none" /\ Len(audit) = 0
  BY <1>1 DEF NotReading
<1>3. AuditTypeOK
  BY <1>1, EmptySeq DEF AuditTypeOK
<1> QED
  BY <1>1, <1>2, <1>3, AuditAssumption
  DEF AuditIInv, CountsTell, NewestAreKept, ClearLeavesATrace, UnseenComesLater, PagesMissNothing

LEMMA ReaderReads ==
  ASSUME AuditTypeOK, client.pc \in {"reading", "done"}
  PROVE  client \in Paging /\ client # NotReading
<1>1. NotReading.pc = "none"
  BY DEF NotReading
<1>2. client # NotReading
  BY <1>1
<1> QED BY <1>2 DEF AuditTypeOK

\* The sizes of pages are positive.
LEMMA PagesHaveASize ==
  ASSUME NEW query \in Query
  PROVE  Size(query) \in Nat \ {0}
<1>1. query.size \in 0..(MaxPageSize + 1)
  BY DEF Query
<1>2. query.size \in Nat /\ MaxPageSize \in Nat \ {0} /\ DefaultSize \in Nat \ {0}
  BY <1>1, AuditAssumption
<1> QED BY <1>2 DEF Size, Smaller

LEMMA FewPlaces ==
  ASSUME NEW n \in Nat, NEW S \in SUBSET (1..n)
  PROVE  IsFiniteSet(S) /\ Cardinality(S) \in Nat
<1>1. IsFiniteSet(1..n)
  BY FS_Interval
<1>2. IsFiniteSet(S)
  BY <1>1, FS_Subset
<1> QED BY <1>2, FS_CardinalityType

\* What a query finds is a finite set of places, and what precedes an entry a
\* part of it without the entry.
LEMMA PlacesAreFew ==
  ASSUME AuditTypeOK, NEW query, NEW i \in Matching(query)
  PROVE  /\ IsFiniteSet(Matching(query))
         /\ Before(query, i) \in Nat /\ Before(query, i) < Cardinality(Matching(query))
         /\ Cardinality(Matching(query)) \in Nat
<1>1. DOMAIN audit = 1..Len(audit) /\ Len(audit) \in Nat
  BY LenProperties DEF AuditTypeOK
<1>2. IsFiniteSet(Matching(query))
  <2>1. Matching(query) \in SUBSET (1..Len(audit))
    BY <1>1 DEF Matching
  <2> QED BY <1>1, <2>1, FewPlaces
<1> DEFINE ahead == {j \in Matching(query) : j > i}
<1>3. ahead \in SUBSET Matching(query) /\ i \notin ahead
  <2>1. i \in DOMAIN audit
    BY DEF Matching
  <2>2. i \in Nat
    BY <1>1, <2>1
  <2> QED BY <2>2
<1>4. IsFiniteSet(ahead) /\ Cardinality(ahead) <= Cardinality(Matching(query))
      /\ Cardinality(ahead) # Cardinality(Matching(query))
  BY <1>2, <1>3, FS_Subset
<1>5. Cardinality(ahead) \in Nat /\ Cardinality(Matching(query)) \in Nat
  BY <1>2, <1>4, FS_CardinalityType
<1> QED BY <1>2, <1>4, <1>5 DEF Before

\* The ids of the log are those of the last entries, and none is ahead.
LEMMA IdsAreInOrder ==
  ASSUME AuditTypeOK, NewestAreKept
  PROVE  /\ DOMAIN audit = 1..Len(audit) /\ Len(audit) \in Nat
         /\ \A i \in DOMAIN audit : audit[i].id \in Nat /\ audit[i].id <= stored
<1>1. DOMAIN audit = 1..Len(audit) /\ Len(audit) \in Nat
  BY LenProperties DEF AuditTypeOK
<1>2. \A i \in DOMAIN audit : audit[i] \in [id : Nat, action : Actions]
  BY <1>1, ElementOfSeq DEF AuditTypeOK
<1> QED BY <1>1, <1>2 DEF NewestAreKept, AuditTypeOK

-----------------------------------------------------------------------------
(* Steps that leave the log alone *)

LEMMA SameLog ==
  ASSUME AuditIInv, UNCHANGED <<audit, stored, cleared, client>>,
         AuditTypeOK', ClearLeavesATrace'
  PROVE  AuditIInv'
<1>1. \A i : Before(client.query, i)' = Before(client.query, i)
  BY DEF Before, Matching
<1>2. Size(client.query)' = Size(client.query) /\ \A i : Wanted(i)' = Wanted(i)
  BY DEF Size, Wanted, Matching
<1>3. UnseenComesLater'
  BY <1>1, <1>2 DEF AuditIInv, UnseenComesLater
<1> QED BY <1>3 DEF AuditIInv, CountsTell, NewestAreKept, PagesMissNothing

LEMMA ServeStep ==
  ASSUME AuditIInv, NEW c \in Callers, Serve(c)
  PROVE  AuditIInv'
<1>1. PICK action \in Actions :
        /\ request' = [request EXCEPT ![c] =
             IF action \in Audited THEN [pc |-> "served", action |-> action] ELSE NoRequest]
        /\ IF action = "clear" THEN ClearAuditLogs ELSE UNCHANGED <<audit, cleared>>
  BY DEF Serve
<1>2. /\ request[c] = NoRequest /\ UNCHANGED <<client, stored, lost>>
      /\ request' = [request EXCEPT ![c] = [pc |-> "served", action |-> action]]
  BY <1>1 DEF Serve, Audited
<1>3. [pc |-> "served", action |-> action] \in Served
  BY DEF Served
<1>4. /\ request' \in [Callers -> {NoRequest} \cup Served]
      /\ request'[c] = [pc |-> "served", action |-> action]
      /\ \A d \in Callers : d # c => request'[d] = request[d]
  BY <1>2, <1>3 DEF AuditIInv, AuditTypeOK
<1>5. CASE action = "clear"
  <2>1. audit' = <<>> /\ cleared' = stored
    BY <1>1, <1>5 DEF ClearAuditLogs
  <2>2. AuditTypeOK'
    BY <1>2, <1>4, <2>1, EmptySeq DEF AuditIInv, AuditTypeOK
  <2>3. Len(audit') = 0 /\ DOMAIN audit' = {}
    BY <2>1, EmptySeq
  <2>4. NewestAreKept'
    BY <1>2, <2>1, <2>3, AuditAssumption DEF AuditIInv, AuditTypeOK, NewestAreKept
  <2>5. ClearLeavesATrace'
    <3>1. request'[c] # NoRequest /\ request'[c].action = "clear"
      BY <1>4, <1>5 DEF NoRequest
    <3> QED BY <3>1 DEF ClearLeavesATrace
  <2>6. UnseenComesLater' /\ PagesMissNothing'
    BY <2>3 DEF UnseenComesLater, PagesMissNothing
  <2>7. CountsTell'
    BY <1>2, <2>1 DEF AuditIInv, AuditTypeOK, CountsTell
  <2> QED BY <2>2, <2>4, <2>5, <2>6, <2>7 DEF AuditIInv
<1>6. CASE action # "clear"
  <2>1. UNCHANGED <<audit, cleared, client, stored, lost>>
    BY <1>1, <1>2, <1>6
  <2>2. AuditTypeOK'
    BY <1>4, <2>1 DEF AuditIInv, AuditTypeOK
  <2>3. ClearLeavesATrace'
    BY <1>2, <1>4, <2>1 DEF AuditIInv, ClearLeavesATrace
  <2> QED BY <2>1, <2>2, <2>3, SameLog
<1> QED BY <1>5, <1>6

LEMMA KilledStep ==
  ASSUME AuditIInv, KilledBeforeAudit
  PROVE  AuditIInv'
<1>1. UNCHANGED <<audit, client, stored, cleared>> /\ lost' = lost + 1
      /\ request' = [c \in Callers |-> NoRequest]
  BY DEF KilledBeforeAudit
<1>2. AuditTypeOK'
  BY <1>1 DEF AuditIInv, AuditTypeOK
<1>3. ClearLeavesATrace'
  BY <1>1 DEF AuditIInv, AuditTypeOK, ClearLeavesATrace
<1> QED BY <1>1, <1>2, <1>3, SameLog

-----------------------------------------------------------------------------
(* An entry is stored *)

\* The entry of c, and the log with it: all but the oldest stay when there are
\* too many, and each moves by one.
Newest(c) == [id |-> stored + 1, action |-> request[c].action]

Moved(shift, c) ==
  /\ shift = (IF Len(audit) < MaxAudit THEN 0 ELSE 1)
  /\ DOMAIN audit = 1..Len(audit) /\ Len(audit) \in Nat
  /\ audit' \in Seq([id : Nat, action : Actions])
  /\ DOMAIN audit' = 1..Len(audit') /\ Len(audit') = Len(audit) + 1 - shift
  /\ \A i \in 1..(Len(audit') - 1) : audit'[i] = audit[i + shift]
  /\ audit'[Len(audit')] = Newest(c)

LEMMA KeptEntries ==
  ASSUME AuditIInv, NEW c \in Callers, AddAudit(c)
  PROVE  \E shift \in {0, 1} : Moved(shift, c)
<1> DEFINE E == [id : Nat, action : Actions]
           more == Append(audit, Newest(c))
<1>1. request[c] \in Served /\ stored' = stored + 1 /\ audit' = Kept(more)
  BY DEF AuditIInv, AuditTypeOK, AddAudit, Newest
<1>2. Newest(c) \in E /\ audit \in Seq(E)
  BY <1>1 DEF AuditIInv, AuditTypeOK, Served, Newest
<1>3. MaxAudit \in Nat /\ MaxAudit >= 1
  BY AuditAssumption
<1>4. Len(audit) \in Nat /\ Len(audit) <= MaxAudit /\ DOMAIN audit = 1..Len(audit)
  BY <1>2, <1>3, LenProperties DEF AuditIInv, AuditTypeOK, NewestAreKept
<1>5. /\ more \in Seq(E) /\ Len(more) = Len(audit) + 1
      /\ \A i \in 1..Len(audit) : more[i] = audit[i]
      /\ more[Len(audit) + 1] = Newest(c)
  BY <1>2, AppendProperties
<1> HIDE DEF more, E
<1>6. CASE Len(audit) < MaxAudit
  <2>1. audit' = more
    BY <1>1, <1>3, <1>4, <1>5, <1>6 DEF Kept
  <2>2. DOMAIN audit' = 1..Len(audit')
    BY <1>5, <2>1, LenProperties
  <2>3. Moved(0, c)
    BY <1>4, <1>5, <1>6, <2>1, <2>2 DEF Moved, E
  <2> QED BY <2>3
<1>7. CASE Len(audit) = MaxAudit
  <2>1. Len(more) > MaxAudit /\ Len(more) - MaxAudit + 1 = 2
    BY <1>3, <1>4, <1>5, <1>7
  <2>2. audit' = SubSeq(more, 2, Len(more))
    BY <1>1, <2>1 DEF Kept
  <2>3. \A i \in 2..Len(more) : more[i] \in E
    BY <1>4, <1>5, ElementOfSeq
  <2>4. Len(more) \in Nat /\ Len(more) >= 2
    BY <1>3, <1>4, <1>5, <1>7
  <2>5. /\ audit' \in Seq(E) /\ Len(audit') = Len(more) - 1
        /\ \A i \in 1..(Len(more) - 1) : audit'[i] = more[2 + i - 1]
    BY <2>2, <2>3, <2>4, SubSeqProperties
  <2>6. DOMAIN audit' = 1..Len(audit')
    BY <2>5, LenProperties
  <2>7. \A i \in 1..Len(audit') : audit'[i] = more[i + 1]
    BY <2>4, <2>5
  <2>8. /\ \A i \in 1..(Len(audit') - 1) : audit'[i] = audit[i + 1]
        /\ audit'[Len(audit')] = Newest(c)
    BY <1>3, <1>4, <1>5, <1>7, <2>5, <2>7
  <2>9. Moved(1, c)
    BY <1>3, <1>4, <1>5, <1>7, <2>5, <2>6, <2>8 DEF Moved, E
  <2> QED BY <2>9
<1>8. Len(audit) < MaxAudit \/ Len(audit) = MaxAudit
  <2>1. MaxAudit \in Int /\ Len(audit) \in Int /\ Len(audit) <= MaxAudit
    BY <1>3, <1>4
  <2> QED BY <2>1
<1> QED BY <1>6, <1>7, <1>8

LEMMA KeptIds ==
  ASSUME NEW shift, NEW c, Moved(shift, c)
  PROVE  \A i \in DOMAIN audit' : audit'[i].id \in Nat
<1>1. \A i \in DOMAIN audit' : audit'[i] \in [id : Nat, action : Actions]
  BY ElementOfSeq DEF Moved
<1> QED BY <1>1

\* What a new entry moves, it moves to a later place of the listing.
LEMMA NewestComeFirst ==
  ASSUME AuditIInv, NEW c \in Callers, AddAudit(c), NEW query,
         NEW i \in DOMAIN audit', audit'[i].id <= stored, i \in Matching(query)'
  PROVE  \E k \in Matching(query) : /\ audit[k] = audit'[i]
                                    /\ Before(query, k) <= Before(query, i)'
                                    /\ Before(query, i)' \in Nat
<1>1. PICK shift \in {0, 1} : Moved(shift, c)
  BY KeptEntries
<1> DEFINE k == i + shift
<1>2. /\ stored \in Nat /\ i \in Nat /\ i >= 1 /\ shift \in Nat
      /\ DOMAIN audit = 1..Len(audit) /\ Len(audit) \in Nat
      /\ DOMAIN audit' = 1..Len(audit') /\ Len(audit') = Len(audit) + 1 - shift
      /\ \A j \in 1..(Len(audit') - 1) : audit'[j] = audit[j + shift]
      /\ audit'[Len(audit')].id = stored + 1
  BY <1>1 DEF AuditIInv, AuditTypeOK, Moved, Newest
<1>3. i # Len(audit')
  BY <1>2
<1>4. k \in DOMAIN audit /\ audit[k] = audit'[i]
  <2>1. i \in 1..(Len(audit') - 1) /\ k \in 1..Len(audit)
    BY <1>2, <1>3
  <2> QED BY <1>2, <2>1
<1>5. k \in Matching(query)
  BY <1>4 DEF Matching
<1> DEFINE old == {j \in Matching(query) : j > k}
           new == {j \in Matching(query)' : j > i}
           move == [j \in old |-> j - shift]
<1>6. \A j \in old : j \in Nat /\ j - shift \in new
  <2> SUFFICES ASSUME NEW j \in old PROVE j \in Nat /\ j - shift \in new
    OBVIOUS
  <2>1. j \in DOMAIN audit /\ query.action \in {"", audit[j].action} /\ j > k
    BY DEF Matching
  <2>2. j \in Nat /\ j - shift \in 1..(Len(audit') - 1) /\ j - shift > i
    <3>1. j \in 1..Len(audit)
      BY <1>2, <2>1
    <3>2. j \in Int /\ i \in Int /\ shift \in Int /\ Len(audit) \in Int
      BY <1>2, <3>1
    <3>3. j > k /\ k = i + shift /\ i >= 1
      BY <1>2, <2>1
    <3>4. j - shift <= Len(audit') - 1
      BY <1>2, <3>1, <3>2
    <3> QED BY <1>2, <3>1, <3>2, <3>3, <3>4
  <2>3. audit'[j - shift] = audit[j] /\ j - shift \in DOMAIN audit'
    BY <1>2, <2>2
  <2> QED BY <2>1, <2>2, <2>3 DEF Matching
<1>7. move \in Injection(old, new)
  BY <1>2, <1>6 DEF Injection, IsInjective
<1>8. IsFiniteSet(new) /\ Cardinality(new) \in Nat
  <2>1. new \in SUBSET DOMAIN audit'
    BY DEF Matching
  <2>2. Len(audit') \in Nat /\ new \in SUBSET (1..Len(audit'))
    BY <1>2, <2>1
  <2> QED BY <2>2, FewPlaces
<1>9. Cardinality(old) <= Cardinality(new)
  BY <1>7, <1>8, FS_Injection
<1> QED BY <1>4, <1>5, <1>8, <1>9 DEF Before

LEMMA AddStep ==
  ASSUME AuditIInv, NEW c \in Callers, AddAudit(c)
  PROVE  AuditIInv'
<1>1. PICK shift \in {0, 1} : Moved(shift, c)
  BY KeptEntries
<1>2. /\ stored' = stored + 1 /\ UNCHANGED <<client, cleared, lost>>
      /\ request' = [request EXCEPT ![c] = NoRequest]
  BY DEF AddAudit
<1>3. /\ stored \in Nat /\ cleared \in Nat /\ cleared <= stored
      /\ client # NotReading => client.began \in Nat /\ client.began <= stored
  BY DEF AuditIInv, AuditTypeOK, CountsTell, Paging
<1>4. AuditTypeOK'
  BY <1>1, <1>2 DEF AuditIInv, AuditTypeOK, Moved
<1>5. CountsTell'
  <2>1. cleared' <= stored'
    BY <1>2, <1>3
  <2>2. client' # NotReading => client'.began <= stored'
    BY <1>2, <1>3
  <2> QED BY <2>1, <2>2 DEF CountsTell
<1>6. NewestAreKept'
  <2>1. Len(audit) = (IF stored - cleared < MaxAudit THEN stored - cleared ELSE MaxAudit)
        /\ \A i \in DOMAIN audit : audit[i].id = stored - Len(audit) + i
    BY DEF AuditIInv, NewestAreKept
  <2>2. Len(audit') = (IF stored' - cleared' < MaxAudit THEN stored' - cleared' ELSE MaxAudit)
    <3>1. /\ Len(audit') = Len(audit) + 1 - shift
          /\ shift = (IF Len(audit) < MaxAudit THEN 0 ELSE 1)
      BY <1>1 DEF Moved
    <3>2. stored' - cleared' = stored - cleared + 1 /\ stored - cleared \in Nat
      BY <1>2, <1>3
    <3> QED BY <2>1, <3>1, <3>2, AuditAssumption
  <2>3. ASSUME NEW i \in DOMAIN audit' PROVE audit'[i].id = stored' - Len(audit') + i
    <3>1. /\ Len(audit') = Len(audit) + 1 - shift /\ Len(audit) \in Nat
          /\ i \in 1..Len(audit') /\ DOMAIN audit = 1..Len(audit)
          /\ \A j \in 1..(Len(audit') - 1) : audit'[j] = audit[j + shift]
          /\ audit'[Len(audit')].id = stored + 1
      BY <1>1 DEF Moved, Newest
    <3>2. CASE i < Len(audit')
      <4>1. audit'[i] = audit[i + shift] /\ i + shift \in DOMAIN audit
        BY <3>1, <3>2
      <4>2. audit'[i].id = stored - Len(audit) + (i + shift)
        BY <2>1, <4>1
      <4> QED BY <1>2, <1>3, <3>1, <4>2
    <3>3. CASE i = Len(audit')
      BY <1>2, <1>3, <3>1, <3>3
    <3> QED BY <3>1, <3>2, <3>3
  <2> QED BY <2>2, <2>3 DEF NewestAreKept
<1>7. ClearLeavesATrace'
  <2>1. Len(audit') # 0
    BY <1>1, AuditAssumption DEF Moved
  <2> QED BY <2>1, EmptySeq DEF ClearLeavesATrace
<1>8. PICK query : query = client.query
  OBVIOUS
<1>9. ASSUME client # NotReading, NEW i \in DOMAIN audit', audit'[i].id <= client.began,
             query.action \in {"", audit'[i].action}
      PROVE  /\ i \in Matching(query)'
             /\ \E k \in Matching(query) : /\ audit[k] = audit'[i]
                                           /\ Before(query, k) <= Before(query, i)'
             /\ Before(query, i)' \in Nat
  <2>1. audit'[i].id \in Nat
    BY <1>1, KeptIds
  <2>2. audit'[i].id <= stored
    <3>1. client # NotReading
      BY <1>9
    <3>2. client.began \in Int /\ client.began <= stored /\ stored \in Int
      BY <1>3, <3>1
    <3>3. audit'[i].id <= client.began
      BY <1>9, Zenon
    <3> QED BY <2>1, <3>2, <3>3
  <2>3. i \in Matching(query)'
    BY <1>9 DEF Matching
  <2> QED BY <2>2, <2>3, NewestComeFirst
<1>10. UnseenComesLater'
  <2> SUFFICES ASSUME client.pc = "reading", NEW i \in DOMAIN audit', Wanted(i)'
               PROVE  (client.page - 1) * Size(query) <= Before(query, i)'
    BY <1>2, <1>8 DEF UnseenComesLater, Size, Before, Matching
  <2>1. /\ query.action \in {"", audit'[i].action} /\ audit'[i].id <= client.began
        /\ audit'[i].id \notin client.seen
    BY <1>2, <1>8 DEF Wanted, Matching
  <2>2. client \in Paging /\ client # NotReading
    BY ReaderReads DEF AuditIInv
  <2>3. PICK k \in Matching(query) :
          audit[k] = audit'[i] /\ Before(query, k) <= Before(query, i)'
    BY <1>9, <2>1, <2>2
  <2>4. (client.page - 1) * Size(query) <= Before(query, k)
    BY <1>8, <2>1, <2>3 DEF AuditIInv, UnseenComesLater, Wanted, Matching
  <2>5. (client.page - 1) * Size(query) \in Nat
    <3>1. client.page - 1 \in Nat /\ Size(query) \in Nat
      BY <1>8, <2>2, PagesHaveASize DEF Paging
    <3> QED BY <3>1
  <2>6. Before(query, k) \in Nat /\ Before(query, i)' \in Nat
    BY <1>9, <2>1, <2>2, <2>3, PlacesAreFew DEF AuditIInv
  <2> QED BY <2>3, <2>4, <2>5, <2>6
<1>11. PagesMissNothing'
  <2> SUFFICES ASSUME client.pc = "done", NEW i \in DOMAIN audit',
                      audit'[i].id <= client.began, query.action \in {"", audit'[i].action}
               PROVE  audit'[i].id \in client.seen
    BY <1>2, <1>8 DEF PagesMissNothing
  <2>1. client # NotReading
    BY ReaderReads DEF AuditIInv
  <2>2. PICK k \in Matching(query) : audit[k] = audit'[i]
    BY <1>9, <2>1
  <2> QED BY <1>8, <2>2 DEF AuditIInv, PagesMissNothing, Matching
<1> QED BY <1>4, <1>5, <1>6, <1>7, <1>10, <1>11 DEF AuditIInv

-----------------------------------------------------------------------------
(* The client reads *)

LEMMA StartReadingStep ==
  ASSUME AuditIInv, StartReading
  PROVE  AuditIInv'
<1>1. PICK query \in Query :
        client' = [pc |-> "reading", query |-> query, page |-> 1,
                   began |-> stored, seen |-> {}]
  BY DEF StartReading
<1>2. UNCHANGED <<audit, request, stored, cleared, lost>>
  BY DEF StartReading
<1>3. client' \in Paging
  BY <1>1 DEF Paging, AuditIInv, AuditTypeOK
<1>4. AuditTypeOK'
  BY <1>2, <1>3 DEF AuditIInv, AuditTypeOK
<1>5. CountsTell'
  BY <1>1, <1>2 DEF AuditIInv, AuditTypeOK, CountsTell
<1>6. UnseenComesLater'
  <2> SUFFICES ASSUME NEW i \in DOMAIN audit, i \in Matching(client'.query)
               PROVE  (client'.page - 1) * Size(client'.query) <= Before(client'.query, i)
    BY <1>2 DEF UnseenComesLater, Wanted, Matching, Before, Size
  <2>1. Size(client'.query) \in Nat /\ client'.page - 1 = 0
    BY <1>1, PagesHaveASize
  <2>2. Before(client'.query, i) \in Nat
    BY PlacesAreFew DEF AuditIInv
  <2> QED BY <2>1, <2>2
<1>7. PagesMissNothing'
  BY <1>1 DEF PagesMissNothing
<1> QED BY <1>2, <1>4, <1>5, <1>6, <1>7 DEF AuditIInv, NewestAreKept, ClearLeavesATrace

LEMMA ReadPageStep ==
  ASSUME AuditIInv, ReadPage
  PROVE  AuditIInv'
<1> DEFINE query == client.query
           size  == Size(query)
           items == ListAuditLogs(query, client.page)
           total == Cardinality(Matching(query))
           all   == client.page * size >= total
<1>1. /\ client.pc = "reading" /\ client \in Paging
      /\ UNCHANGED <<audit, request, stored, cleared, lost>>
      /\ client' = [client EXCEPT !.seen = @ \cup {audit[i].id : i \in items},
                                  !.page = IF all THEN @ ELSE @ + 1,
                                  !.pc = IF all THEN "done" ELSE @]
  BY DEF ReadPage, AuditIInv, AuditTypeOK, NotReading
<1>2. /\ client'.query = query /\ client'.began = client.began
      /\ client'.seen = client.seen \cup {audit[i].id : i \in items}
      /\ client'.page = IF all THEN client.page ELSE client.page + 1
      /\ client'.pc = IF all THEN "done" ELSE "reading"
  BY <1>1 DEF Paging
<1>3. items \subseteq DOMAIN audit /\ \A i \in DOMAIN audit : audit[i].id \in Nat
  BY IdsAreInOrder DEF AuditIInv, ListAuditLogs, Matching
<1>4. client' \in Paging
  <2>1. {audit[i].id : i \in items} \subseteq Nat
    BY <1>3
  <2>2. (IF all THEN client.page ELSE client.page + 1) \in Nat \ {0}
    BY <1>1 DEF Paging
  <2> HIDE DEF all, items
  <2>3. client.seen \cup {audit[i].id : i \in items} \in SUBSET Nat
    BY <1>1, <2>1 DEF Paging
  <2>4. (IF all THEN "done" ELSE "reading") \in {"reading", "done"}
    OBVIOUS
  <2> QED BY <1>1, <2>2, <2>3, <2>4 DEF Paging
<1>5. AuditTypeOK'
  BY <1>1, <1>4 DEF AuditIInv, AuditTypeOK
<1>6. CountsTell'
  BY <1>1, <1>2 DEF AuditIInv, CountsTell, NotReading, Paging
<1>7. size \in Nat \ {0} /\ client.page \in Nat \ {0}
  BY <1>1, PagesHaveASize DEF Paging
<1>8. ASSUME NEW i \in Matching(query), audit[i].id <= client.began,
             audit[i].id \notin client'.seen
      PROVE  ~all /\ client.page * size <= Before(query, i)
  <2>1. Before(query, i) \in Nat /\ total \in Nat /\ Before(query, i) < total
    BY PlacesAreFew DEF AuditIInv
  <2>2. (client.page - 1) * size <= Before(query, i)
    BY <1>1, <1>2, <1>8 DEF AuditIInv, UnseenComesLater, Wanted, Matching
  <2>3. i \notin items
    BY <1>2, <1>8
  <2>4. client.page * size <= Before(query, i)
    <3>1. ~(Before(query, i) < client.page * size)
      BY <2>2, <2>3 DEF ListAuditLogs
    <3>2. client.page * size \in Nat
      BY <1>7
    <3> QED BY <2>1, <3>1, <3>2
  <2>5. client.page * size \in Nat
    BY <1>7
  <2> QED BY <2>1, <2>4, <2>5
<1>9. UnseenComesLater'
  <2>1. ASSUME client'.pc = "reading", NEW i \in Matching(query),
               audit[i].id <= client.began, audit[i].id \notin client'.seen
        PROVE  (client'.page - 1) * size <= Before(query, i)
    <3>1. client'.page - 1 = client.page
      BY <1>2, <1>7, <2>1
    <3> QED BY <1>8, <2>1, <3>1
  <2>2. \A i : /\ Wanted(i)' => /\ i \in Matching(query) /\ audit[i].id <= client.began
                                /\ audit[i].id \notin client'.seen
              /\ Before(client.query, i)' = Before(query, i)
    BY <1>1, <1>2 DEF Wanted, Matching, Before
  <2>3. Size(client.query)' = size
    BY <1>2 DEF Size
  <2> QED BY <2>1, <2>2, <2>3 DEF UnseenComesLater
<1>10. PagesMissNothing'
  <2> SUFFICES ASSUME client'.pc = "done", NEW i \in DOMAIN audit,
                      audit[i].id <= client.began, query.action \in {"", audit[i].action},
                      audit[i].id \notin client'.seen
               PROVE  FALSE
    BY <1>1, <1>2 DEF PagesMissNothing
  <2>1. i \in Matching(query)
    BY DEF Matching
  <2> QED BY <1>2, <1>8, <2>1
<1> QED BY <1>1, <1>5, <1>6, <1>9, <1>10 DEF AuditIInv, NewestAreKept, ClearLeavesATrace

LEMMA AuditNextIInv == AuditIInv /\ [AuditNext]_auditVars => AuditIInv'
<1> SUFFICES ASSUME AuditIInv, [AuditNext]_auditVars PROVE AuditIInv'
  OBVIOUS
<1>1. CASE UNCHANGED auditVars
  <2>1. AuditTypeOK' /\ ClearLeavesATrace' /\ UNCHANGED <<audit, stored, cleared, client>>
    BY <1>1 DEF auditVars, AuditIInv, AuditTypeOK, ClearLeavesATrace
  <2> QED BY <2>1, SameLog
<1> QED BY <1>1, ServeStep, AddStep, KilledStep, StartReadingStep, ReadPageStep DEF AuditNext

(* For any limit and any number of requests that end in any order, the log *)
(* holds what was stored last since it was cleared, in that order.         *)
THEOREM NewestEntriesAreKept == AuditSpec => []NewestAreKept
<1>1. AuditIInv => NewestAreKept
  BY DEF AuditIInv
<1> QED BY AuditInitIInv, AuditNextIInv, <1>1, PTL DEF AuditSpec

(* Nobody empties the log and leaves it empty, unless the panel is killed  *)
(* between the two.                                                        *)
THEOREM ClearsAreEntered == AuditSpec => []ClearLeavesATrace
<1>1. AuditIInv => ClearLeavesATrace
  BY DEF AuditIInv
<1> QED BY AuditInitIInv, AuditNextIInv, <1>1, PTL DEF AuditSpec

(* A client that pages through the log misses none of it, for any sizes of *)
(* log and page, whatever is stored, cut off and cleared meanwhile.        *)
THEOREM PagesAreComplete == AuditSpec => []PagesMissNothing
<1>1. AuditIInv => PagesMissNothing
  BY DEF AuditIInv
<1> QED BY AuditInitIInv, AuditNextIInv, <1>1, PTL DEF AuditSpec
=============================================================================
