--------------------------- MODULE SelfUpdateProofs ---------------------------
(***************************************************************************)
(* For any number of releases and of goroutines that serve updateApply:    *)
(* the files and the calls stay in their ranges whatever overlaps, and as  *)
(* long as no two calls of ApplyUpdate overlap, the binary on the disk is  *)
(* whole and no older than announced.  That assumption is needed, and      *)
(* nothing in the code keeps it: the run self_update_overlap shows what    *)
(* two calls do.                                                           *)
(***************************************************************************)
EXTENDS SelfUpdate, TLAPS

OneAtATime == \A g, h \in Handlers : At(g, "idle") \/ At(h, "idle") \/ g = h

(* A call that opens the temporary file has verified what it writes, one   *)
(* that replaces the binary has written all of it.                         *)
WrittenWasVerified ==
  \A h \in Handlers :
    /\ req[h].pc \in {"open", "write", "chmod", "rename"} => req[h].binary = req[h].release
    /\ At(h, "write") => \A p \in Piece \ req[h].todo : tmp[p] = req[h].release
    /\ req[h].pc \in {"chmod", "rename"} => \A p \in Piece : tmp[p] = req[h].release

(* Only a call that writes has a file open, the temporary one.             *)
OpenIsTemporary ==
  \A h \in Handlers :
    /\ At(h, "write") => req[h].file = "tmp"
    /\ ~At(h, "write") => req[h].file = "none"
    /\ req[h].pc \in {"write", "chmod", "rename"} => tmp # None

(* Nothing newer than the newest release is announced, or older than one   *)
(* announced before.                                                       *)
AnnouncedInOrder ==
  /\ told <= latest
  /\ \A h \in Handlers : ~At(h, "idle") => told <= req[h].release /\ req[h].release <= latest

IInv ==
  /\ TypeOK
  /\ ExeIsWhole
  /\ WrittenWasVerified
  /\ OpenIsTemporary
  /\ AnnouncedInOrder
  /\ AnnouncedIsInstalled

-----------------------------------------------------------------------------
LEMMA IdleIsFit ==
  /\ IdleCall \in Request
  /\ IdleCall.pc = "idle" /\ IdleCall.file = "none"
BY DEF IdleCall, Request, Piece

LEMMA BinaryIsData ==
  ASSUME NEW v \in Version \cup {Garbage}
  PROVE  Binary(v) \in Data /\ \A p \in Piece : Binary(v)[p] = v
BY DEF Binary, Data

-----------------------------------------------------------------------------
(* Types.  A call that has the temporary file open keeps it there: whoever *)
(* takes the name away, moves the file of every call.                      *)
OpenIsThere == \A h \in Handlers : req[h].file = "tmp" => tmp # None

TInv == TypeOK /\ OpenIsThere

LEMMA FileMoves ==
  /\ \A f \in {"none", "tmp", "exe", "gone"} :
       /\ Renamed[f] \in {"none", "exe", "gone"}
       /\ Removed[f] \in {"none", "exe", "gone"}
BY DEF Renamed, Removed

LEMMA MovedIsFit ==
  ASSUME TypeOK, NEW h \in Handlers,
         NEW where, \A f \in {"none", "tmp", "exe", "gone"} : where[f] \in {"none", "exe", "gone"},
         Moved(h, where)
  PROVE  /\ req' \in [Handlers -> Request]
         /\ \A g \in Handlers : req'[g].file # "tmp"
<1>1. ASSUME NEW g \in Handlers
      PROVE  req'[g] \in Request /\ req'[g].file # "tmp"
  <2>1. req[g] \in Request
    BY DEF TypeOK
  <2>2. CASE g = h
    BY <2>2, IdleIsFit DEF Moved
  <2>3. CASE g # h
    <3>1. req'[g] = [req[g] EXCEPT !.file = where[req[g].file]]
      BY <2>3 DEF Moved
    <3>2. where[req[g].file] \in {"none", "exe", "gone"}
      BY <2>1 DEF Request
    <3> QED BY <2>1, <3>1, <3>2 DEF Request
  <2> QED BY <2>2, <2>3
<1>2. req' = [g \in Handlers |-> req'[g]]
  BY DEF Moved
<1> QED BY <1>1, <1>2

(* A step of a call that leaves the binary alone.                          *)
LEMMA CallMoves ==
  ASSUME TInv, up, NEW h \in Handlers, NEW r \in Request,
         req' = [req EXCEPT ![h] = r],
         UNCHANGED <<latest, up, running, restart, told>>,
         exe' \in Data, tmp' \in Data \cup {None},
         tmp # None => tmp' # None,
         r.file = "tmp" => tmp' # None
  PROVE  TInv'
<1>1. req' \in [Handlers -> Request] /\ \A g \in Handlers : req'[g] = IF g = h THEN r ELSE req[g]
  BY DEF TInv, TypeOK
<1>2. TypeOK'
  BY <1>1 DEF TInv, TypeOK
<1>3. OpenIsThere'
  BY <1>1 DEF TInv, OpenIsThere
<1> QED BY <1>2, <1>3 DEF TInv

LEMMA CallTInv ==
  ASSUME TInv, NEW h \in Handlers, ApplyUpdate(h)
  PROVE  TInv'
<1>0. /\ req \in [Handlers -> Request] /\ req[h] \in Request
      /\ latest \in Nat /\ exe \in Data /\ tmp \in Data \cup {None}
      /\ req[h].file = "tmp" => tmp # None
      /\ None \notin Data
  BY VersionAssumption DEF TInv, TypeOK, OpenIsThere
<1>1. up
  BY IdleIsFit DEF ApplyUpdate, CheckUpdate, Fetch, Verify, Open, Write, Close, Fails,
                   Chmod, Rename, ReplaceFails, At, TInv, TypeOK, AllIdle
<1>2. ASSUME NEW r \in Request, req' = [req EXCEPT ![h] = r],
             r.file \in {req[h].file, "none"},
             UNCHANGED <<latest, up, running, exe, tmp, restart, told>>
      PROVE  TInv'
  BY <1>0, <1>1, <1>2, CallMoves
<1>3. CASE CheckUpdate(h)
  <2> DEFINE r == [req[h] EXCEPT !.pc = "fetch", !.release = latest]
  <2>1. r \in Request /\ r.file = req[h].file
    BY <1>0 DEF Request
  <2>2. /\ req' = [req EXCEPT ![h] = r]
        /\ UNCHANGED <<latest, up, running, exe, tmp, restart, told>>
    BY <1>3 DEF CheckUpdate
  <2> HIDE DEF r
  <2> QED BY <1>2, <2>1, <2>2
<1>4. CASE Fetch(h)
  <2>1. PICK b \in {req[h].release, Garbage} :
          req' = [req EXCEPT ![h].pc = "verify", ![h].binary = b]
    BY <1>4 DEF Fetch
  <2> DEFINE r == [req[h] EXCEPT !.pc = "verify", !.binary = b]
  <2>2. r \in Request /\ r.file = req[h].file
    BY <1>0, <2>1 DEF Request
  <2>3. /\ req' = [req EXCEPT ![h] = r]
        /\ UNCHANGED <<latest, up, running, exe, tmp, restart, told>>
    BY <1>0, <1>4, <2>1 DEF Fetch
  <2> HIDE DEF r
  <2> QED BY <1>2, <2>2, <2>3
<1>5. CASE Verify(h) \/ Chmod(h)
  <2>1. PICK step \in {"open", "rename"} : req' = [req EXCEPT ![h].pc = step]
    BY <1>5 DEF Verify, Chmod
  <2> DEFINE r == [req[h] EXCEPT !.pc = step]
  <2>2. r \in Request /\ r.file = req[h].file
    BY <1>0 DEF Request
  <2>3. /\ req' = [req EXCEPT ![h] = r]
        /\ UNCHANGED <<latest, up, running, exe, tmp, restart, told>>
    BY <1>5, <2>1 DEF Verify, Chmod
  <2> HIDE DEF r
  <2> QED BY <1>2, <2>2, <2>3
<1>6. CASE Fails(h)
  <2>1. /\ req' = [req EXCEPT ![h] = IdleCall]
        /\ UNCHANGED <<latest, up, running, exe, tmp, restart, told>>
    BY <1>6 DEF Fails
  <2> QED BY <1>2, <2>1, IdleIsFit
<1>7. CASE Close(h)
  <2> DEFINE r == [req[h] EXCEPT !.pc = "chmod", !.file = "none"]
  <2>1. r \in Request /\ r.file = "none"
    BY <1>0 DEF Request
  <2>2. /\ req' = [req EXCEPT ![h] = r]
        /\ UNCHANGED <<latest, up, running, exe, tmp, restart, told>>
    BY <1>7 DEF Close
  <2> HIDE DEF r
  <2> QED BY <1>2, <2>1, <2>2
<1>8. CASE Open(h)
  <2> DEFINE r == [req[h] EXCEPT !.pc = "write", !.file = "tmp", !.todo = Piece]
  <2>1. r \in Request
    BY <1>0 DEF Request
  <2>2. /\ req' = [req EXCEPT ![h] = r] /\ tmp' = Binary(Garbage)
        /\ UNCHANGED <<latest, up, running, exe, restart, told>>
    BY <1>8 DEF Open
  <2>3. tmp' \in Data /\ tmp' # None
    BY <1>0, <2>2, BinaryIsData
  <2> HIDE DEF r
  <2> QED BY <1>0, <1>1, <2>1, <2>2, <2>3, CallMoves
<1>9. ASSUME NEW p \in Piece, Write(h, p) PROVE TInv'
  <2> DEFINE r == [req[h] EXCEPT !.todo = @ \ {p}]
  <2>1. r \in Request /\ r.file = req[h].file
    BY <1>0 DEF Request
  <2>2. /\ req' = [req EXCEPT ![h] = r]
        /\ UNCHANGED <<latest, up, running, restart, told>>
    BY <1>9 DEF Write
  <2>3. req[h].binary \in Version \cup {Garbage}
    BY <1>0 DEF Request, Version
  <2>4. exe' \in Data
    BY <1>0, <1>9, <2>3 DEF Write, Data
  <2>5. tmp' \in Data \cup {None} /\ (tmp # None => tmp' # None)
    <3>1. CASE req[h].file = "tmp"
      <4>1. tmp \in Data /\ tmp' = [tmp EXCEPT ![p] = req[h].binary]
        BY <1>0, <1>9, <3>1 DEF Write
      <4>2. tmp' \in Data
        BY <2>3, <4>1 DEF Data
      <4> QED BY <1>0, <4>2
    <3>2. CASE req[h].file # "tmp"
      BY <1>0, <1>9, <3>2 DEF Write
    <3> QED BY <3>1, <3>2
  <2> HIDE DEF r
  <2> QED BY <1>0, <1>1, <2>1, <2>2, <2>4, <2>5, CallMoves
<1>10. CASE Rename(h) \/ ReplaceFails(h)
  <2>1. req' \in [Handlers -> Request] /\ \A g \in Handlers : req'[g].file # "tmp"
    BY <1>10, FileMoves, MovedIsFit DEF Rename, ReplaceFails, TInv
  <2>2. /\ tmp' = None /\ exe' \in Data /\ restart' \in BOOLEAN
        /\ UNCHANGED <<latest, up, running>>
    BY <1>0, <1>10 DEF Rename, ReplaceFails, TInv, TypeOK
  <2>3. told' \in Nat
    BY <1>0, <1>10 DEF Rename, ReplaceFails, TInv, TypeOK, Request, Newest
  <2>4. TypeOK'
    BY <1>1, <2>1, <2>2, <2>3 DEF TInv, TypeOK
  <2>5. OpenIsThere'
    BY <2>1 DEF OpenIsThere
  <2> QED BY <2>4, <2>5 DEF TInv
<1> QED BY <1>3, <1>4, <1>5, <1>6, <1>7, <1>8, <1>9, <1>10 DEF ApplyUpdate

LEMMA OutsideTypeOK ==
  ASSUME TypeOK, Publish \/ Crash \/ Start \/ Exec \/ Exit
  PROVE  /\ TypeOK' /\ UNCHANGED <<exe, tmp, told>> /\ latest' >= latest
         /\ req' = req \/ req' = AllIdle
<1>1. AllIdle \in [Handlers -> Request]
  BY IdleIsFit DEF AllIdle
<1>2. exe[1] \in Version \cup {Garbage}
  BY DEF TypeOK, Data, Piece
<1>3. Whole(exe) => exe[1] \in Version
  BY <1>2 DEF Whole
<1>4. /\ latest \in Nat /\ up \in BOOLEAN /\ running \in Version
      /\ exe \in Data /\ tmp \in Data \cup {None}
      /\ req \in [Handlers -> Request] /\ restart \in BOOLEAN /\ told \in Nat
      /\ ~up => req = AllIdle /\ ~restart
  BY DEF TypeOK
<1>5. /\ UNCHANGED <<exe, tmp, told>>
      /\ req' = req \/ req' = AllIdle
  BY DEF Publish, Crash, Start, Exec, Exit, Stopped
<1>6. latest' \in Nat /\ latest' >= latest
  BY <1>4 DEF Publish, Crash, Start, Exec, Exit, Stopped
<1>7. running' \in Version
  BY <1>3, <1>4 DEF Publish, Crash, Start, Exec, Exit, Stopped, Executable
<1>8. up' \in BOOLEAN /\ restart' \in BOOLEAN
  BY <1>4 DEF Publish, Crash, Start, Exec, Exit, Stopped
<1>9. ~up' => req' = AllIdle /\ ~restart'
  BY <1>4 DEF Publish, Crash, Start, Exec, Exit, Stopped
<1>10. TypeOK'
  BY <1>1, <1>4, <1>5, <1>6, <1>7, <1>8, <1>9 DEF TypeOK
<1> QED BY <1>5, <1>6, <1>10

LEMMA StepTInv == TInv /\ [Next]_vars => TInv'
<1> SUFFICES ASSUME TInv, [Next]_vars PROVE TInv'
  OBVIOUS
<1>1. CASE Publish \/ Crash \/ Start \/ Exec \/ Exit
  <2>1. TypeOK' /\ tmp' = tmp /\ (req' = req \/ req' = AllIdle)
    BY <1>1, OutsideTypeOK DEF TInv
  <2>2. OpenIsThere'
    BY <2>1, IdleIsFit DEF TInv, OpenIsThere, AllIdle
  <2> QED BY <2>1, <2>2 DEF TInv
<1>2. ASSUME NEW h \in Handlers, ApplyUpdate(h) PROVE TInv'
  BY <1>2, CallTInv
<1>3. CASE UNCHANGED vars
  BY <1>3 DEF vars, TInv, TypeOK, OpenIsThere
<1> QED BY <1>1, <1>2, <1>3 DEF Next

-----------------------------------------------------------------------------
(* One call at a time.                                                     *)
LEMMA InitIInv == Init => IInv
<1> SUFFICES ASSUME Init PROVE IInv
  OBVIOUS
<1>1. latest \in Nat /\ running \in Version /\ told = 0 /\ up = TRUE /\ restart = FALSE
  BY VersionAssumption DEF Init, Version
<1>2. exe \in Data /\ \A p \in Piece : exe[p] = running
  BY <1>1, BinaryIsData DEF Init
<1>3. tmp = None /\ req = AllIdle /\ \A h \in Handlers : req[h] = IdleCall
  BY DEF Init, AllIdle
<1>4. TypeOK
  BY <1>1, <1>2, <1>3, IdleIsFit DEF TypeOK, AllIdle
<1>5. ExeIsWhole
  BY <1>1, <1>2, VersionAssumption DEF ExeIsWhole, Whole, Piece
<1>6. WrittenWasVerified /\ OpenIsTemporary
  BY <1>3, IdleIsFit DEF WrittenWasVerified, OpenIsTemporary, At
<1>7. AnnouncedInOrder /\ AnnouncedIsInstalled
  BY <1>1, <1>3, IdleIsFit DEF AnnouncedInOrder, AnnouncedIsInstalled, At
<1> QED BY <1>4, <1>5, <1>6, <1>7 DEF IInv

-----------------------------------------------------------------------------
(* Steps of the process and of the world outside: the files stay, and no   *)
(* call goes on.                                                           *)
LEMMA QuietIInv ==
  ASSUME IInv, UNCHANGED <<exe, tmp, told>>, TypeOK',
         latest' \in Nat, latest' >= latest,
         req' = req \/ req' = AllIdle
  PROVE  IInv'
<1>1. \A h \in Handlers : req'[h] = req[h] \/ req'[h] = IdleCall
  BY DEF AllIdle
<1>2. latest \in Nat /\ told \in Nat /\ \A h \in Handlers : req[h].release \in Nat
  BY DEF IInv, TypeOK, Request
<1>3. ExeIsWhole' /\ AnnouncedIsInstalled'
  BY DEF IInv, ExeIsWhole, Whole, AnnouncedIsInstalled
<1>4. WrittenWasVerified' /\ OpenIsTemporary'
  BY <1>1, IdleIsFit DEF IInv, WrittenWasVerified, OpenIsTemporary, At
<1>5. AnnouncedInOrder'
  BY <1>1, <1>2, IdleIsFit DEF IInv, AnnouncedInOrder, At
<1> QED BY <1>3, <1>4, <1>5 DEF IInv

LEMMA OutsideIInv ==
  ASSUME IInv, Publish \/ Crash \/ Start \/ Exec \/ Exit
  PROVE  IInv'
<1>1. /\ TypeOK' /\ UNCHANGED <<exe, tmp, told>> /\ latest' >= latest
      /\ req' = req \/ req' = AllIdle
  BY OutsideTypeOK DEF IInv
<1> QED BY <1>1, QuietIInv DEF TypeOK

-----------------------------------------------------------------------------
(* Steps of a call.  One that leaves both files alone keeps the invariant  *)
(* when the call is fit for its new place.                                 *)
LEMMA CallIInv ==
  ASSUME IInv, up, NEW h \in Handlers, NEW r \in Request,
         req' = [req EXCEPT ![h] = r],
         UNCHANGED <<latest, up, running, exe, tmp, restart, told>>,
         r.pc \in {"idle", "fetch", "verify", "open", "chmod", "rename"},
         r.file = "none",
         r.pc \in {"open", "chmod", "rename"} => r.binary = r.release,
         r.pc \in {"chmod", "rename"} =>
           tmp # None /\ \A p \in Piece : tmp[p] = r.release,
         r.pc # "idle" => told <= r.release /\ r.release <= latest
  PROVE  IInv'
<1>1. req' \in [Handlers -> Request] /\ \A g \in Handlers : req'[g] = IF g = h THEN r ELSE req[g]
  BY DEF IInv, TypeOK
<1>2. TypeOK'
  BY <1>1 DEF IInv, TypeOK
<1>3. WrittenWasVerified'
  BY <1>1 DEF IInv, WrittenWasVerified, At
<1>4. OpenIsTemporary'
  BY <1>1 DEF IInv, OpenIsTemporary, At
<1>5. AnnouncedInOrder'
  BY <1>1 DEF IInv, AnnouncedInOrder, At
<1>6. ExeIsWhole' /\ AnnouncedIsInstalled'
  BY DEF IInv, ExeIsWhole, Whole, AnnouncedIsInstalled
<1> QED BY <1>2, <1>3, <1>4, <1>5, <1>6 DEF IInv

(* What a step of a call may rely on.                                      *)
LEMMA CallUnderWay ==
  ASSUME IInv, NEW h \in Handlers, ~At(h, "idle")
  PROVE  /\ up /\ req[h] \in Request
         /\ told <= req[h].release /\ req[h].release <= latest
         /\ ~At(h, "write") => req[h].file = "none"
<1>1. up
  BY IdleIsFit DEF IInv, TypeOK, AllIdle, At
<1> QED BY <1>1 DEF IInv, TypeOK, AnnouncedInOrder, OpenIsTemporary

LEMMA FetchIInv ==
  ASSUME IInv, NEW h \in Handlers,
         CheckUpdate(h) \/ Fetch(h) \/ Verify(h) \/ Fails(h) \/ Chmod(h) \/ Close(h)
  PROVE  IInv'
<1>0. req[h] \in Request /\ latest \in Nat /\ told \in Nat /\ told <= latest
  BY DEF IInv, TypeOK, AnnouncedInOrder
<1>1. CASE CheckUpdate(h)
  <2> DEFINE r == [req[h] EXCEPT !.pc = "fetch", !.release = latest]
  <2>1. r \in Request /\ r.pc = "fetch" /\ r.release = latest /\ r.file = req[h].file
    BY <1>0 DEF Request
  <2>2. req[h].file = "none"
    BY <1>1 DEF CheckUpdate, At, IInv, OpenIsTemporary
  <2>3. /\ up /\ req' = [req EXCEPT ![h] = r]
        /\ UNCHANGED <<latest, up, running, exe, tmp, restart, told>>
    BY <1>1 DEF CheckUpdate
  <2> HIDE DEF r
  <2>4. /\ r.file = "none" /\ told <= r.release /\ r.release <= latest
        /\ r.pc \in {"idle", "fetch", "verify", "open", "chmod", "rename"}
        /\ r.pc \notin {"open", "chmod", "rename"}
    BY <1>0, <2>1, <2>2
  <2> QED BY <2>1, <2>3, <2>4, CallIInv
<1>2. ASSUME ~At(h, "idle"), ~At(h, "write"),
             NEW step \in {"verify", "open", "rename"}, NEW b \in Nat \cup {Garbage},
             step # "verify" => b = req[h].release,
             step = "rename" => /\ tmp # None
                                /\ \A p \in Piece : tmp[p] = req[h].release,
             req' = [req EXCEPT ![h] = [req[h] EXCEPT !.pc = step, !.binary = b]],
             UNCHANGED <<latest, up, running, exe, tmp, restart, told>>
      PROVE  IInv'
  <2> DEFINE r == [req[h] EXCEPT !.pc = step, !.binary = b]
  <2>1. /\ r \in Request /\ r.pc = step /\ r.binary = b
        /\ r.release = req[h].release /\ r.file = req[h].file
    BY <1>0, <1>2 DEF Request
  <2>2. req' = [req EXCEPT ![h] = r]
    BY <1>2
  <2> HIDE DEF r
  <2>3. /\ up /\ r.file = "none" /\ told <= r.release /\ r.release <= latest
        /\ r.pc \in {"idle", "fetch", "verify", "open", "chmod", "rename"}
        /\ r.pc \in {"open", "chmod", "rename"} => r.binary = r.release
    BY <1>2, <2>1, CallUnderWay
  <2>4. r.pc \in {"chmod", "rename"} => tmp # None /\ \A p \in Piece : tmp[p] = r.release
    BY <1>2, <2>1
  <2>5. UNCHANGED <<latest, up, running, exe, tmp, restart, told>>
    BY <1>2
  <2> QED BY <2>1, <2>2, <2>3, <2>4, <2>5, CallIInv
<1>3. CASE Fetch(h)
  <2>1. PICK b \in {req[h].release, Garbage} :
          req' = [req EXCEPT ![h].pc = "verify", ![h].binary = b]
    BY <1>3 DEF Fetch
  <2>2. b \in Nat \cup {Garbage}
    BY <1>0, <2>1 DEF Request
  <2>3. req' = [req EXCEPT ![h] = [req[h] EXCEPT !.pc = "verify", !.binary = b]]
    BY <1>0, <2>1 DEF IInv, TypeOK
  <2>4. At(h, "fetch") /\ UNCHANGED <<latest, up, running, exe, tmp, restart, told>>
    BY <1>3 DEF Fetch
  <2>5. ~At(h, "idle") /\ ~At(h, "write")
    BY <2>4 DEF At
  <2> QED BY <1>2, <2>2, <2>3, <2>4, <2>5
<1>4. ASSUME NEW step \in {"open", "rename"},
             req[h].binary = req[h].release,
             req' = [req EXCEPT ![h].pc = step]
      PROVE  req' = [req EXCEPT ![h] =
                       [req[h] EXCEPT !.pc = step, !.binary = req[h].release]]
  BY <1>0, <1>4 DEF IInv, TypeOK, Request
<1>5. CASE Verify(h)
  <2>1. /\ At(h, "verify") /\ req[h].binary = req[h].release
        /\ req' = [req EXCEPT ![h].pc = "open"]
        /\ UNCHANGED <<latest, up, running, exe, tmp, restart, told>>
    BY <1>5 DEF Verify
  <2>2. ~At(h, "idle") /\ ~At(h, "write") /\ req[h].release \in Nat \cup {Garbage}
    BY <1>0, <2>1 DEF At, Request
  <2> QED BY <1>2, <1>4, <2>1, <2>2
<1>6. CASE Chmod(h)
  <2>1. /\ At(h, "chmod") /\ tmp # None
        /\ req' = [req EXCEPT ![h].pc = "rename"]
        /\ UNCHANGED <<latest, up, running, exe, tmp, restart, told>>
    BY <1>6 DEF Chmod
  <2>2. ~At(h, "idle") /\ ~At(h, "write") /\ req[h].release \in Nat \cup {Garbage}
    BY <1>0, <2>1 DEF At, Request
  <2>3. req[h].binary = req[h].release /\ \A p \in Piece : tmp[p] = req[h].release
    BY <2>1 DEF IInv, WrittenWasVerified, At
  <2> QED BY <1>2, <1>4, <2>1, <2>2, <2>3
<1>7. CASE Fails(h)
  <2>1. ~At(h, "idle") /\ req' = [req EXCEPT ![h] = IdleCall]
        /\ UNCHANGED <<latest, up, running, exe, tmp, restart, told>>
    BY <1>7 DEF Fails, At
  <2> QED BY <2>1, CallUnderWay, IdleIsFit, CallIInv
<1>8. CASE Close(h)
  <2> DEFINE r == [req[h] EXCEPT !.pc = "chmod", !.file = "none"]
  <2>1. /\ r \in Request /\ r.pc = "chmod" /\ r.file = "none"
        /\ r.release = req[h].release /\ r.binary = req[h].binary
    BY <1>0 DEF Request
  <2>2. /\ At(h, "write") /\ req[h].todo = {}
        /\ UNCHANGED <<latest, up, running, exe, tmp, restart, told>>
    BY <1>8 DEF Close
  <2>3. req' = [req EXCEPT ![h] = r]
    BY <1>8 DEF Close
  <2>4. /\ req[h].binary = req[h].release /\ tmp # None
        /\ \A p \in Piece : tmp[p] = req[h].release
    BY <2>2 DEF IInv, WrittenWasVerified, OpenIsTemporary, At
  <2>5. ~At(h, "idle")
    BY <2>2 DEF At
  <2> HIDE DEF r
  <2> QED BY <2>1, <2>2, <2>3, <2>4, <2>5, CallUnderWay, CallIInv
<1> QED BY <1>1, <1>3, <1>5, <1>6, <1>7, <1>8

-----------------------------------------------------------------------------
(* Steps on the files                                                      *)

LEMMA WriteIInv ==
  ASSUME OneAtATime, IInv, NEW h \in Handlers,
         Open(h) \/ \E p \in Piece : Write(h, p)
  PROVE  IInv'
<1>0. /\ req[h] \in Request /\ latest \in Nat /\ told \in Nat
      /\ req \in [Handlers -> Request] /\ tmp \in Data \cup {None}
  BY DEF IInv, TypeOK
<1>1. ~At(h, "idle") /\ req[h].binary = req[h].release
  BY DEF Open, Write, IInv, WrittenWasVerified, At
<1>2. \A g \in Handlers \ {h} : req[g].pc = "idle"
  BY <1>1 DEF OneAtATime, At
<1>3. ASSUME NEW r \in Request, req' = [req EXCEPT ![h] = r],
             r.pc = "write", r.file = "tmp", r.binary = req[h].release,
             r.release = req[h].release,
             tmp' \in Data, \A p \in Piece \ r.todo : tmp'[p] = req[h].release,
             UNCHANGED <<latest, up, running, exe, restart, told>>
      PROVE  IInv'
  <2>1. /\ req' \in [Handlers -> Request]
        /\ \A g \in Handlers : req'[g] = IF g = h THEN r ELSE req[g]
    BY <1>0, <1>3
  <2>2. TypeOK'
    BY <1>1, <1>3, <2>1, CallUnderWay DEF IInv, TypeOK
  <2>3. WrittenWasVerified'
    BY <1>3, <1>2, <2>1 DEF WrittenWasVerified, At
  <2>4. OpenIsTemporary'
    BY <1>3, <1>2, <2>1, VersionAssumption DEF IInv, OpenIsTemporary, At
  <2>5. AnnouncedInOrder'
    BY <1>1, <1>3, <1>2, <2>1, CallUnderWay DEF IInv, AnnouncedInOrder, At
  <2>6. ExeIsWhole' /\ AnnouncedIsInstalled'
    BY <1>3 DEF IInv, ExeIsWhole, Whole, AnnouncedIsInstalled
  <2> QED BY <2>2, <2>3, <2>4, <2>5, <2>6 DEF IInv
<1>4. CASE Open(h)
  <2> DEFINE r == [req[h] EXCEPT !.pc = "write", !.file = "tmp", !.todo = Piece]
  <2>1. /\ r \in Request /\ r.pc = "write" /\ r.file = "tmp" /\ r.todo = Piece
        /\ r.release = req[h].release /\ r.binary = req[h].binary
    BY <1>0 DEF Request
  <2>2. req' = [req EXCEPT ![h] = r] /\ tmp' = Binary(Garbage)
        /\ UNCHANGED <<latest, up, running, exe, restart, told>>
    BY <1>4 DEF Open
  <2> HIDE DEF r
  <2> QED BY <1>1, <1>3, <2>1, <2>2, BinaryIsData
<1>5. ASSUME NEW p \in Piece, Write(h, p) PROVE IInv'
  <2> DEFINE r == [req[h] EXCEPT !.todo = @ \ {p}]
  <2>1. /\ r \in Request /\ r.pc = req[h].pc /\ r.file = req[h].file
        /\ r.todo = req[h].todo \ {p}
        /\ r.release = req[h].release /\ r.binary = req[h].binary
    BY <1>0 DEF Request
  <2>2. At(h, "write") /\ req' = [req EXCEPT ![h] = r]
    BY <1>5 DEF Write
  <2>3. req[h].pc = "write" /\ req[h].file = "tmp" /\ tmp \in Data
    BY <1>0, <2>2 DEF IInv, OpenIsTemporary, At
  <2>4. tmp' = [tmp EXCEPT ![p] = req[h].release] /\ exe' = exe
    BY <1>1, <1>5, <2>3 DEF Write
  <2>5. tmp' \in Data /\ \A q \in Piece : tmp'[q] = IF q = p THEN req[h].release ELSE tmp[q]
    BY <1>0, <2>3, <2>4 DEF Data, Request, Version
  <2>6. \A q \in Piece \ r.todo : tmp'[q] = req[h].release
    BY <2>1, <2>2, <2>5 DEF IInv, WrittenWasVerified
  <2>7. UNCHANGED <<latest, up, running, exe, restart, told>>
    BY <1>5, <2>4 DEF Write
  <2> HIDE DEF r
  <2> QED BY <1>1, <1>3, <2>1, <2>2, <2>3, <2>5, <2>6, <2>7
<1> QED BY <1>4, <1>5

LEMMA ReplaceIInv ==
  ASSUME OneAtATime, IInv, NEW h \in Handlers, Rename(h) \/ ReplaceFails(h)
  PROVE  IInv'
<1>0. /\ req[h] \in Request /\ latest \in Nat /\ told \in Nat
      /\ tmp \in Data \cup {None} /\ TypeOK
  BY DEF IInv, TypeOK
<1>1. ~At(h, "idle") /\ up /\ UNCHANGED <<latest, up, running>>
  BY CallUnderWay DEF Rename, ReplaceFails, At
<1>2. req' \in [Handlers -> Request]
  BY <1>0, FileMoves, MovedIsFit DEF Rename, ReplaceFails
<1>3. ASSUME NEW g \in Handlers
      PROVE  req'[g].pc = "idle" /\ req'[g].file = "none"
  <2>1. CASE g = h
    BY <2>1, IdleIsFit DEF Rename, ReplaceFails, Moved
  <2>2. CASE g # h
    <3>1. req[g] \in Request /\ req[g].pc = "idle" /\ req[g].file = "none"
      BY <1>0, <1>1, <2>2 DEF OneAtATime, At, IInv, OpenIsTemporary, TypeOK
    <3>2. PICK where \in {Renamed, Removed} :
            req'[g] = [req[g] EXCEPT !.file = where[req[g].file]]
      BY <2>2 DEF Rename, ReplaceFails, Moved
    <3>3. where["none"] = "none"
      BY <3>2 DEF Renamed, Removed
    <3> QED BY <3>1, <3>2, <3>3 DEF Request
  <2> QED BY <2>1, <2>2
<1>4. WrittenWasVerified' /\ OpenIsTemporary'
  BY <1>3 DEF WrittenWasVerified, OpenIsTemporary, At
<1>5. CASE Rename(h)
  <2>1. /\ At(h, "rename") /\ tmp # None /\ exe' = tmp /\ tmp' = None
        /\ restart' = TRUE /\ told' = Newest(told, req[h].release)
    BY <1>5 DEF Rename
  <2>2. \A p \in Piece : exe'[p] = req[h].release
    BY <2>1 DEF IInv, WrittenWasVerified, At
  <2>3. req[h].release \in Nat /\ told <= req[h].release /\ req[h].release <= latest
    BY <1>0, <1>1, CallUnderWay DEF Request
  <2>4. told' = req[h].release
    BY <1>0, <2>1, <2>3 DEF Newest
  <2>5. exe'[1] = req[h].release /\ exe'[2] = req[h].release
    BY <2>2 DEF Piece
  <2>6. ExeIsWhole' /\ AnnouncedIsInstalled'
    BY <2>3, <2>4, <2>5, VersionAssumption DEF ExeIsWhole, Whole, AnnouncedIsInstalled, Version
  <2>7. AnnouncedInOrder'
    BY <1>1, <1>3, <2>3, <2>4 DEF AnnouncedInOrder, At
  <2>8. TypeOK'
    BY <1>0, <1>1, <1>2, <2>1, <2>3, <2>4 DEF IInv, TypeOK
  <2> QED BY <1>4, <2>6, <2>7, <2>8 DEF IInv
<1>6. CASE ReplaceFails(h)
  <2>1. tmp' = None /\ UNCHANGED <<exe, restart, told>>
    BY <1>6 DEF ReplaceFails
  <2>2. ExeIsWhole' /\ AnnouncedIsInstalled'
    BY <2>1 DEF IInv, ExeIsWhole, Whole, AnnouncedIsInstalled
  <2>3. AnnouncedInOrder'
    BY <1>1, <1>3, <2>1 DEF IInv, AnnouncedInOrder, At
  <2>4. TypeOK'
    BY <1>1, <1>2, <2>1 DEF IInv, TypeOK
  <2> QED BY <1>4, <2>2, <2>3, <2>4 DEF IInv
<1> QED BY <1>5, <1>6

-----------------------------------------------------------------------------
LEMMA StepIInv == OneAtATime /\ IInv /\ [Next]_vars => IInv'
<1> SUFFICES ASSUME OneAtATime, IInv, [Next]_vars PROVE IInv'
  OBVIOUS
<1>1. CASE Publish \/ Crash \/ Start \/ Exec \/ Exit
  BY <1>1, OutsideIInv
<1>2. ASSUME NEW h \in Handlers, ApplyUpdate(h) PROVE IInv'
  BY <1>2, FetchIInv, WriteIInv, ReplaceIInv DEF ApplyUpdate
<1>3. CASE UNCHANGED vars
  BY <1>3 DEF vars, IInv, TypeOK, ExeIsWhole, Whole, WrittenWasVerified,
              OpenIsTemporary, AnnouncedInOrder, AnnouncedIsInstalled, At
<1> QED BY <1>1, <1>2, <1>3 DEF Next

LEMMA InductiveInvariant == Spec /\ []OneAtATime => []IInv
<1>1. OneAtATime /\ IInv /\ [Next]_vars => IInv'
  BY StepIInv
<1> QED BY InitIInv, <1>1, PTL DEF Spec

(* Whatever calls overlap, and wherever the process stops, the process,    *)
(* its files and its calls stay in their ranges: a call that writes under  *)
(* the temporary name finds a file there.                                  *)
THEOREM TypeCorrect == Spec => []TypeOK
<1>1. Init => TInv
  BY InitIInv DEF IInv, TInv, OpenIsThere, OpenIsTemporary, At
<1>2. TInv /\ [Next]_vars => TInv'
  BY StepTInv
<1>3. TInv => TypeOK
  BY DEF TInv
<1> QED BY <1>1, <1>2, <1>3, PTL DEF Spec

(* While no two calls overlap, no restart of the panel meets a torn binary *)
(* or one that was not checked.                                            *)
THEOREM OneCallKeepsExeWhole == Spec /\ []OneAtATime => []ExeIsWhole
<1>1. IInv => ExeIsWhole
  BY DEF IInv
<1> QED BY <1>1, InductiveInvariant, PTL

(* While no two calls overlap, the binary on the disk is no older than any *)
(* that a call has said is installed.                                      *)
THEOREM OneCallInstalls == Spec /\ []OneAtATime => []AnnouncedIsInstalled
<1>1. IInv => AnnouncedIsInstalled
  BY DEF IInv
<1> QED BY <1>1, InductiveInvariant, PTL
=============================================================================
