----------------------------- MODULE AuthProofs -----------------------------
(***************************************************************************)
(* Theorems about Auth for any number of handlers, passwords, sessions and *)
(* password changes.                                                       *)
(***************************************************************************)
EXTENDS Auth, TLAPS

(* The serial numbers of password writes are in order: nothing is newer    *)
(* than the last write, and what was acknowledged is at least as new in    *)
(* the memory and in the file.                                             *)
WritesInOrder ==
  /\ mem.wrote <= writes /\ disk.wrote <= writes
  /\ acked <= mem.wrote /\ acked <= disk.wrote
  /\ \A h \in Handlers : At(h, "revoke") => req[h].wrote <= mem.wrote

(* The password in force is one that every request under way has seen.     *)
CurrentIsValid ==
  \A h \in Handlers : ~At(h, "idle") => InForce(mem) \in req[h].valid

(* Logged-out sessions and those about to be are sessions once issued.     *)
GoneWereIssued ==
  /\ gone \subseteq 1..issued
  /\ \A h \in Handlers : At(h, "logout") => req[h].sid \in 1..issued

(* A change has verified nothing before its check.                         *)
NotYetVerified ==
  \A h \in Handlers : At(h, "change") => ~req[h].verified

IInv ==
  /\ TypeOK
  /\ NotYetVerified
  /\ WritesInOrder
  /\ CurrentIsValid
  /\ GoneWereIssued
  /\ AcceptedWasInForce
  /\ AckedChangeIsFinal
  /\ LoggedOutStaysOut
  /\ ServedOnlyBehindPassword

-----------------------------------------------------------------------------
LEMMA InitIInv == Init => IInv
<1> SUFFICES ASSUME Init PROVE IInv
  OBVIOUS
<1>1. /\ mem = Empty /\ disk = Empty /\ req = [h \in Handlers |-> IdleRequest]
      /\ expired = {} /\ issued = 0 /\ writes = 0 /\ acked = 0 /\ gone = {}
  BY DEF Init
<1>2. Empty \in State /\ Empty.sessions = {} /\ Empty.wrote = 0
  BY DEF Empty, State
<1>3. IdleRequest \in Request /\ IdleRequest.pc = "idle"
  BY DEF IdleRequest, Request, Steps, Creds
<1>4. TypeOK
  BY <1>1, <1>2, <1>3 DEF TypeOK
<1>5. \A h \in Handlers : At(h, "idle")
  BY <1>1, <1>3 DEF At
<1> QED
  BY <1>1, <1>2, <1>4, <1>5
  DEF IInv, WritesInOrder, CurrentIsValid, GoneWereIssued, NotYetVerified,
      AcceptedWasInForce, AckedChangeIsFinal, LoggedOutStaysOut, ServedOnlyBehindPassword, At

(* A step that leaves the store alone and moves one request keeps the      *)
(* invariant when that request is fit for its new place.                   *)
LEMMA MoveIInv ==
  ASSUME IInv, NEW h \in Handlers, NEW r \in Request,
         req' = [req EXCEPT ![h] = r],
         UNCHANGED <<mem, disk, expired, issued, history>>,
         r.pc # "idle" => InForce(mem) \in r.valid,
         r.pc = "create" \/ (r.pc = "set" /\ r.verified) => r.cred \in r.valid,
         r.pc = "running" => Set(mem),
         r.pc = "logout" => r.sid \in 1..issued,
         r.pc = "change" => ~r.verified,
         r.pc # "revoke"
  PROVE  IInv'
<1>1. req' \in [Handlers -> Request] /\ \A g \in Handlers : req'[g] = IF g = h THEN r ELSE req[g]
  BY DEF IInv, TypeOK
<1>2. mem' = mem /\ disk' = disk /\ expired' = expired /\ issued' = issued
      /\ writes' = writes /\ acked' = acked /\ gone' = gone
  BY DEF history
<1>3. TypeOK'
  BY <1>1, <1>2 DEF IInv, TypeOK
<1>4. WritesInOrder' /\ GoneWereIssued' /\ NotYetVerified'
  BY <1>1, <1>2 DEF IInv, WritesInOrder, GoneWereIssued, NotYetVerified, At
<1>5. CurrentIsValid' /\ AcceptedWasInForce' /\ ServedOnlyBehindPassword'
  BY <1>1, <1>2
  DEF IInv, CurrentIsValid, AcceptedWasInForce, ServedOnlyBehindPassword, At, InForce, Set
<1>6. AckedChangeIsFinal' /\ LoggedOutStaysOut'
  BY <1>2 DEF IInv, AckedChangeIsFinal, LoggedOutStaysOut
<1> QED BY <1>3, <1>4, <1>5, <1>6 DEF IInv

LEMMA IdleIsFit ==
  /\ IdleRequest \in Request
  /\ IdleRequest.pc = "idle"
BY DEF IdleRequest, Request, Steps, Creds

LEMMA LoginIInv ==
  ASSUME IInv, NEW h \in Handlers,
         (\E c \in Creds : LoginBegin(h, c)) \/ LoginVerify(h)
  PROVE  IInv'
<1>0. req[h] \in Request /\ mem \in State /\ InForce(mem) \in Creds
  BY CredsAssumption DEF IInv, TypeOK, InForce, State, Set, Creds
<1>1. ASSUME NEW c \in Creds, LoginBegin(h, c) PROVE IInv'
  <2> DEFINE r == [IdleRequest EXCEPT !.pc = IF Set(mem) THEN "verify" ELSE "create",
                                      !.cred = c, !.valid = {InForce(mem)}]
  <2>1. r \in Request
    BY <1>0 DEF IdleRequest, Request, Steps
  <2>2. r.pc \in {"verify", "create"} /\ r.valid = {InForce(mem)} /\ r.cred = c
    BY DEF IdleRequest
  <2>3. r.pc = "create" => c = InForce(mem)
    BY <1>1 DEF LoginBegin, InForce, IdleRequest
  <2>4. req' = [req EXCEPT ![h] = r] /\ UNCHANGED <<mem, disk, expired, issued, history>>
    BY <1>1 DEF LoginBegin
  <2> HIDE DEF r
  <2> QED BY <2>1, <2>2, <2>3, <2>4, MoveIInv
<1>2. CASE LoginVerify(h)
  <2>1. CASE req[h].cred = mem.hash
    <3> DEFINE r == [req[h] EXCEPT !.pc = "create"]
    <3>1. r \in Request /\ r.pc = "create" /\ r.valid = req[h].valid /\ r.cred = req[h].cred
      BY <1>0 DEF Request, Steps
    <3>2. InForce(mem) \in req[h].valid
      BY <1>2 DEF LoginVerify, At, IInv, CurrentIsValid
    <3>3. InForce(mem) = req[h].cred
      BY <2>1, <1>0, CredsAssumption DEF InForce, Set, Request
    <3>4. req' = [req EXCEPT ![h] = r] /\ UNCHANGED <<mem, disk, expired, issued, history>>
      BY <1>2, <2>1 DEF LoginVerify, Goto
    <3> HIDE DEF r
    <3> QED BY <3>1, <3>2, <3>3, <3>4, MoveIInv
  <2>2. CASE req[h].cred # mem.hash
    BY <1>2, <2>2, MoveIInv, IdleIsFit DEF LoginVerify, Done
  <2> QED BY <2>1, <2>2
<1> QED BY <1>1, <1>2

LEMMA AdmitIInv ==
  ASSUME IInv, NEW h \in Handlers, NEW s \in mem.sessions, NEW c \in Creds,
         NEW step \in {"change", "logout", "api"}, Admit(h, s, c, step)
  PROVE  IInv'
<1> DEFINE r == [IdleRequest EXCEPT !.pc = step, !.sid = s.id, !.cred = c,
                                    !.valid = {InForce(mem)}]
<1>1. s \in Session /\ s.id \in 1..issued /\ InForce(mem) \in Creds /\ s.id \in Nat
  BY CredsAssumption DEF IInv, TypeOK, InForce, State, Set, Creds, Session
<1>2. r \in Request
  BY <1>1 DEF IdleRequest, Request, Steps
<1>3. r.pc = step /\ r.valid = {InForce(mem)} /\ r.sid = s.id /\ ~r.verified
  BY DEF IdleRequest
<1>4. req' = [req EXCEPT ![h] = r] /\ UNCHANGED <<mem, disk, expired, issued, history>>
  BY DEF Admit
<1> HIDE DEF r
<1> QED BY <1>1, <1>2, <1>3, <1>4, MoveIInv

LEMMA RouteIInv ==
  ASSUME IInv, NEW h \in Handlers,
         Gate(h) \/ Finish(h) \/ ChangeCheck(h) \/ ChangeVerify(h)
  PROVE  IInv'
<1>0. req[h] \in Request /\ (~At(h, "idle") => InForce(mem) \in req[h].valid)
  BY DEF IInv, TypeOK, CurrentIsValid
<1>1. ASSUME Done(h), UNCHANGED <<mem, disk, expired, issued, history>> PROVE IInv'
  BY <1>1, MoveIInv, IdleIsFit DEF Done
<1>2. ASSUME NEW step \in {"running", "verifyCurrent", "set"}, Goto(h, step), ~At(h, "idle"),
             step = "running" => Set(mem), step = "set" => ~req[h].verified,
             UNCHANGED <<mem, disk, expired, issued, history>>
      PROVE  IInv'
  <2> DEFINE r == [req[h] EXCEPT !.pc = step]
  <2>1. r \in Request /\ r.pc = step /\ r.valid = req[h].valid /\ r.verified = req[h].verified
    BY <1>0 DEF Request, Steps
  <2>2. req' = [req EXCEPT ![h] = r]
    BY <1>2 DEF Goto
  <2> HIDE DEF r
  <2> QED BY <1>0, <1>2, <2>1, <2>2, MoveIInv
<1>3. CASE Gate(h)
  BY <1>1, <1>2, <1>3 DEF Gate, At
<1>4. CASE Finish(h)
  BY <1>1, <1>4 DEF Finish
<1>5. CASE ChangeCheck(h)
  <2>1. CASE Set(mem)
    BY <1>2, <1>5, <2>1 DEF ChangeCheck, At
  <2>2. CASE ~Set(mem)
    <3> DEFINE r == [req[h] EXCEPT !.pc = "set"]
    <3>1. r \in Request /\ r.pc = "set" /\ r.valid = req[h].valid /\ r.verified = req[h].verified
      BY <1>0 DEF Request, Steps
    <3>2. req' = [req EXCEPT ![h] = r] /\ UNCHANGED <<mem, disk, expired, issued, history>>
      BY <1>5, <2>2 DEF ChangeCheck, Goto
    <3>3. ~req[h].verified
      BY <1>5 DEF ChangeCheck, IInv, NotYetVerified
    <3> HIDE DEF r
    <3> QED BY <1>0, <1>5, <3>1, <3>2, <3>3, MoveIInv DEF ChangeCheck, At
  <2> QED BY <2>1, <2>2
<1>6. CASE ChangeVerify(h)
  <2>1. CASE req[h].cred = mem.hash
    <3> DEFINE r == [req[h] EXCEPT !.pc = "set", !.verified = TRUE]
    <3>1. r \in Request /\ r.pc = "set" /\ r.valid = req[h].valid /\ r.cred = req[h].cred
      BY <1>0 DEF Request, Steps
    <3>2. InForce(mem) \in req[h].valid
      BY <1>0, <1>6 DEF ChangeVerify, At
    <3>3. InForce(mem) = req[h].cred
      BY <2>1, <1>0, CredsAssumption DEF InForce, Set, Request
    <3>4. req' = [req EXCEPT ![h] = r] /\ UNCHANGED <<mem, disk, expired, issued, history>>
      BY <1>6, <2>1, <1>0 DEF ChangeVerify, IInv, TypeOK, Request
    <3> HIDE DEF r
    <3> QED BY <3>1, <3>2, <3>3, <3>4, MoveIInv
  <2>2. CASE req[h].cred # mem.hash
    BY <1>1, <1>6, <2>2 DEF ChangeVerify
  <2> QED BY <2>1, <2>2
<1> QED BY <1>3, <1>4, <1>5, <1>6

-----------------------------------------------------------------------------
(* Steps of the store *)

(* When a request ends in its step, the others stay where they are.        *)
LEMMA OthersStay ==
  ASSUME IInv, NEW h \in Handlers, Done(h)
  PROVE  /\ req' \in [Handlers -> Request]
         /\ \A g \in Handlers : req'[g].pc # "idle" => req'[g] = req[g]
BY IdleIsFit DEF Done, IInv, TypeOK

(* A step that ends a request, keeps the password, and leaves in the       *)
(* memory and the file sessions the invariant allows, keeps it.            *)
LEMMA SessionsIInv ==
  ASSUME IInv, mem' \in State, disk' \in State, expired' \in SUBSET Nat,
         req' \in [Handlers -> Request],
         \A g \in Handlers : req'[g].pc # "idle" => req'[g] = req[g],
         mem'.hash = mem.hash, mem'.wrote = mem.wrote, writes' = writes,
         disk'.wrote \in {disk.wrote, mem.wrote},
         issued' \in Nat, issued' >= issued,
         gone' \subseteq 1..issued', acked' \in Nat,
         acked' <= mem'.wrote, acked' <= disk'.wrote,
         \A s \in mem'.sessions \cup disk'.sessions :
           s.id \in 1..issued' /\ s.born >= acked' /\ s.id \notin gone'
  PROVE  IInv'
<1>1. TypeOK'
  BY DEF IInv, TypeOK
<1>2. WritesInOrder'
  BY DEF IInv, WritesInOrder, At
<1>3. CurrentIsValid' /\ AcceptedWasInForce' /\ ServedOnlyBehindPassword' /\ NotYetVerified'
  BY DEF IInv, CurrentIsValid, AcceptedWasInForce, ServedOnlyBehindPassword,
         NotYetVerified, At, InForce, Set
<1>4. GoneWereIssued'
  BY DEF IInv, TypeOK, GoneWereIssued, At
<1>5. AckedChangeIsFinal' /\ LoggedOutStaysOut'
  BY DEF AckedChangeIsFinal, LoggedOutStaysOut
<1> QED BY <1>1, <1>2, <1>3, <1>4, <1>5 DEF IInv

LEMMA LoginCreateIInv ==
  ASSUME IInv, NEW h \in Handlers, LoginCreate(h)
  PROVE  IInv'
<1>1. PICK ok \in BOOLEAN :
        /\ mem' = [mem EXCEPT !.sessions = @ \cup
             {[id |-> issued', cred |-> req[h].cred, born |-> writes, given |-> ok]}]
        /\ Save(ok)
  BY DEF LoginCreate
<1> DEFINE new == [id |-> issued', cred |-> req[h].cred, born |-> writes, given |-> ok]
<1>2. issued' = issued + 1 /\ UNCHANGED <<expired, writes, acked, gone>> /\ Done(h)
  BY DEF LoginCreate, history
<1>3. mem \in State /\ disk \in State /\ issued \in Nat /\ writes \in Nat /\ acked \in Nat
      /\ expired \in SUBSET Nat /\ req[h] \in Request
  BY DEF IInv, TypeOK
<1>4. new \in Session
  BY <1>2, <1>3 DEF Session, Request
<1>5. new.id = issued' /\ new.born = writes
  OBVIOUS
<1>6. /\ mem' \in State /\ mem'.hash = mem.hash /\ mem'.wrote = mem.wrote
      /\ mem'.sessions = mem.sessions \cup {new}
  BY <1>1, <1>3, <1>4 DEF State
<1> HIDE DEF new
<1>7. disk' = mem' \/ disk' = disk
  BY <1>1 DEF Save
<1>8. acked <= writes /\ acked <= mem.wrote /\ acked <= disk.wrote
  BY <1>3 DEF IInv, WritesInOrder, State
<1>9. gone \subseteq 1..issued
  BY DEF IInv, GoneWereIssued
<1>10. \A s \in mem.sessions \cup disk.sessions :
         s.id \in 1..issued /\ s.born >= acked /\ s.id \notin gone
  BY DEF IInv, TypeOK, AckedChangeIsFinal, LoggedOutStaysOut
<1>11. \A s \in mem'.sessions \cup disk'.sessions :
         s = new \/ s \in mem.sessions \cup disk.sessions
  BY <1>6, <1>7
<1>12. \A s \in mem'.sessions \cup disk'.sessions :
         s.id \in 1..issued' /\ s.born >= acked' /\ s.id \notin gone'
  BY <1>2, <1>3, <1>5, <1>8, <1>9, <1>10, <1>11
<1> QED BY <1>2, <1>3, <1>6, <1>7, <1>8, <1>9, <1>12, OthersStay, SessionsIInv

LEMMA LogoutIInv ==
  ASSUME IInv, NEW h \in Handlers, Logout(h)
  PROVE  IInv'
<1>1. PICK ok \in BOOLEAN : /\ Save(ok)
                            /\ gone' = IF ok THEN gone \cup {req[h].sid} ELSE gone
  BY DEF Logout
<1>2. UNCHANGED <<expired, issued, writes, acked>> /\ Done(h) /\ At(h, "logout")
  BY DEF Logout
<1>3. mem \in State /\ disk \in State /\ issued \in Nat /\ writes \in Nat /\ acked \in Nat
      /\ expired \in SUBSET Nat
  BY DEF IInv, TypeOK
<1>4. /\ mem' \in State /\ mem'.hash = mem.hash /\ mem'.wrote = mem.wrote
      /\ mem'.sessions = {s \in mem.sessions : s.id # req[h].sid}
  BY <1>3 DEF Logout, State
<1>5. disk' = IF ok THEN mem' ELSE disk
  BY <1>1 DEF Save
<1>6. acked <= mem.wrote /\ acked <= disk.wrote /\ gone \subseteq 1..issued
      /\ req[h].sid \in 1..issued
  BY <1>2 DEF IInv, WritesInOrder, GoneWereIssued
<1>7. \A s \in mem.sessions \cup disk.sessions :
         s.id \in 1..issued /\ s.born >= acked /\ s.id \notin gone
  BY DEF IInv, TypeOK, AckedChangeIsFinal, LoggedOutStaysOut
<1>8. \A s \in mem'.sessions \cup disk'.sessions :
         s.id \in 1..issued' /\ s.born >= acked' /\ s.id \notin gone'
  <2>1. CASE ok
    BY <2>1, <1>1, <1>2, <1>4, <1>5, <1>7
  <2>2. CASE ~ok
    BY <2>2, <1>1, <1>2, <1>4, <1>5, <1>7
  <2> QED BY <2>1, <2>2
<1>9. gone' \subseteq 1..issued' /\ issued' >= issued /\ issued' \in Nat
  <2>1. gone' \subseteq gone \cup {req[h].sid}
    BY <1>1
  <2>2. issued' = issued
    BY <1>2
  <2> QED BY <2>1, <2>2, <1>3, <1>6
<1>10. disk'.wrote \in {disk.wrote, mem.wrote} /\ disk' \in State
  BY <1>3, <1>4, <1>5
<1> QED BY <1>2, <1>3, <1>4, <1>6, <1>8, <1>9, <1>10, OthersStay, SessionsIInv

LEMMA ChangeRevokeIInv ==
  ASSUME IInv, NEW h \in Handlers, ChangeRevoke(h)
  PROVE  IInv'
<1>1. PICK ok \in BOOLEAN :
        /\ Save(ok)
        /\ acked' = IF ok /\ req[h].wrote > acked THEN req[h].wrote ELSE acked
  BY DEF ChangeRevoke
<1>2. UNCHANGED <<expired, issued, writes, gone>> /\ Done(h) /\ At(h, "revoke")
  BY DEF ChangeRevoke
<1>3. mem \in State /\ disk \in State /\ issued \in Nat /\ writes \in Nat /\ acked \in Nat
      /\ expired \in SUBSET Nat /\ req[h].wrote \in Nat
  BY DEF IInv, TypeOK, Request
<1>4. /\ mem' \in State /\ mem'.hash = mem.hash /\ mem'.wrote = mem.wrote
      /\ mem'.sessions = {}
  BY <1>3 DEF ChangeRevoke, State
<1>5. disk' = IF ok THEN mem' ELSE disk
  BY <1>1 DEF Save
<1>6. acked <= mem.wrote /\ acked <= disk.wrote /\ gone \subseteq 1..issued
      /\ req[h].wrote <= mem.wrote /\ mem.wrote \in Nat
  BY <1>2, <1>3 DEF IInv, WritesInOrder, GoneWereIssued, State
<1>7. \A s \in disk.sessions : s.id \in 1..issued /\ s.born >= acked /\ s.id \notin gone
  BY DEF IInv, TypeOK, AckedChangeIsFinal, LoggedOutStaysOut
<1>8. \A s \in mem'.sessions \cup disk'.sessions :
         s.id \in 1..issued' /\ s.born >= acked' /\ s.id \notin gone'
  BY <1>1, <1>2, <1>4, <1>5, <1>7
<1>9. acked' \in Nat /\ acked' <= mem'.wrote /\ acked' <= disk'.wrote
  BY <1>1, <1>3, <1>4, <1>5, <1>6
<1>10. disk'.wrote \in {disk.wrote, mem.wrote} /\ disk' \in State
  BY <1>3, <1>4, <1>5
<1>11. /\ issued' \in Nat /\ issued' >= issued /\ writes' = writes
       /\ expired' \in SUBSET Nat /\ gone' \subseteq 1..issued'
  BY <1>2, <1>3, <1>6
<1>12. /\ req' \in [Handlers -> Request]
       /\ \A g \in Handlers : req'[g].pc # "idle" => req'[g] = req[g]
  BY <1>2, OthersStay
<1> QED BY <1>4, <1>8, <1>9, <1>10, <1>11, <1>12, SessionsIInv

(* Expiry of a session, and a save of another part of the panel.           *)
LEMMA ExpireOrSaveIInv ==
  ASSUME IInv, (\E s \in mem.sessions : Expire(s)) \/ OtherSave
  PROVE  IInv'
<1>1. /\ UNCHANGED <<mem, req, issued, writes, acked, gone>>
      /\ disk' \in {disk, mem}
  BY DEF Expire, OtherSave, history
<1>2. expired' \in SUBSET Nat
  <2>1. expired \in SUBSET Nat /\ \A s \in mem.sessions : s.id \in Nat
    BY DEF IInv, TypeOK
  <2> QED BY <2>1 DEF Expire, OtherSave
<1>3. mem \in State /\ disk \in State /\ issued \in Nat /\ acked \in Nat
      /\ req \in [Handlers -> Request]
  BY DEF IInv, TypeOK
<1>4. acked <= mem.wrote /\ acked <= disk.wrote /\ gone \subseteq 1..issued
  BY DEF IInv, WritesInOrder, GoneWereIssued
<1>5. \A s \in mem.sessions \cup disk.sessions :
         s.id \in 1..issued /\ s.born >= acked /\ s.id \notin gone
  BY DEF IInv, TypeOK, AckedChangeIsFinal, LoggedOutStaysOut
<1> QED BY <1>1, <1>2, <1>3, <1>4, <1>5, SessionsIInv

LEMMA ChangeSetIInv ==
  ASSUME IInv, NEW h \in Handlers, NEW p \in Passwords, ChangeSet(h, p)
  PROVE  IInv'
<1>1. PICK ok \in BOOLEAN :
        /\ Save(ok)
        /\ req' = [g \in Handlers |->
             IF g # h THEN Saw(g, p)
             ELSE IF ok THEN [Saw(h, p) EXCEPT !.pc = "revoke", !.wrote = writes']
             ELSE IdleRequest]
  BY DEF ChangeSet
<1>2. writes' = writes + 1 /\ UNCHANGED <<expired, issued, acked, gone>> /\ At(h, "set")
  BY DEF ChangeSet
<1>3. mem \in State /\ disk \in State /\ writes \in Nat /\ acked \in Nat
      /\ mem.wrote \in Nat /\ disk.wrote \in Nat /\ mem.wrote <= writes /\ disk.wrote <= writes
      /\ acked <= mem.wrote /\ acked <= disk.wrote
  BY DEF IInv, TypeOK, State, WritesInOrder
<1>4. /\ mem' \in State /\ mem'.hash = p /\ mem'.wrote = writes'
      /\ mem'.sessions = mem.sessions
  <2>1. mem' = [mem EXCEPT !.hash = p, !.wrote = writes'] /\ writes' \in Nat
    BY <1>2, <1>3 DEF ChangeSet
  <2> QED BY <2>1, <1>3 DEF State
<1>5. disk' = IF ok THEN mem' ELSE disk
  BY <1>1 DEF Save
<1>6. InForce(mem)' = p /\ Set(mem)' /\ p \in Creds
  BY <1>4, CredsAssumption DEF InForce, Set, Creds
<1>7. ASSUME NEW g \in Handlers
      PROVE  /\ Saw(g, p) \in Request
             /\ Saw(g, p).pc = req[g].pc /\ Saw(g, p).cred = req[g].cred
             /\ Saw(g, p).verified = req[g].verified /\ Saw(g, p).sid = req[g].sid
             /\ Saw(g, p).wrote = req[g].wrote
             /\ req[g].valid \subseteq Saw(g, p).valid
             /\ req[g].pc # "idle" => p \in Saw(g, p).valid
  <2>1. req[g] \in Request
    BY DEF IInv, TypeOK
  <2>2. CASE At(g, "idle")
    BY <2>1, <2>2 DEF Saw, At
  <2>3. CASE ~At(g, "idle")
    <3>1. Saw(g, p) = [req[g] EXCEPT !.valid = @ \cup {p}]
      BY <2>3 DEF Saw
    <3> QED BY <2>1, <3>1, <1>6 DEF Request
  <2> QED BY <2>2, <2>3
<1>8. ASSUME NEW g \in Handlers, g # h PROVE req'[g] = Saw(g, p)
  BY <1>1, <1>8
<1>9. CASE ok
  <2>1. req'[h] = [Saw(h, p) EXCEPT !.pc = "revoke", !.wrote = writes']
    BY <1>1, <1>9
  <2>2. req'[h] \in Request /\ req'[h].pc = "revoke" /\ req'[h].wrote = writes'
        /\ p \in req'[h].valid
    <3>1. writes' \in Nat /\ req[h].pc = "set"
      BY <1>2, <1>3 DEF At
    <3>2. Saw(h, p) \in Request /\ p \in Saw(h, p).valid
      BY <1>7, <3>1
    <3> QED BY <2>1, <3>1, <3>2 DEF Request, Steps
  <2> QED
    <3>1. TypeOK'
      BY <1>1, <1>2, <1>3, <1>4, <1>5, <1>7, <1>8, <2>2 DEF IInv, TypeOK
    <3>2. WritesInOrder'
      BY <1>2, <1>3, <1>4, <1>5, <1>7, <1>8, <2>2 DEF IInv, TypeOK, Request, WritesInOrder, At
    <3>3. CurrentIsValid' /\ NotYetVerified' /\ ServedOnlyBehindPassword'
      BY <1>6, <1>7, <1>8, <2>2
      DEF IInv, CurrentIsValid, NotYetVerified, ServedOnlyBehindPassword, At
    <3>4. AcceptedWasInForce'
      BY <1>7, <1>8, <2>2 DEF IInv, AcceptedWasInForce, At
    <3>5. GoneWereIssued'
      BY <1>2, <1>7, <1>8, <2>2 DEF IInv, GoneWereIssued, At
    <3>6. AckedChangeIsFinal' /\ LoggedOutStaysOut'
      BY <1>2, <1>3, <1>4, <1>5 DEF IInv, AckedChangeIsFinal, LoggedOutStaysOut
    <3> QED BY <3>1, <3>2, <3>3, <3>4, <3>5, <3>6 DEF IInv
<1>10. CASE ~ok
  <2>1. req'[h] = IdleRequest
    BY <1>1, <1>10
  <2>2. req'[h] \in Request /\ req'[h].pc = "idle"
    BY <2>1, IdleIsFit
  <2> QED
    <3>1. TypeOK'
      BY <1>1, <1>2, <1>3, <1>4, <1>5, <1>7, <1>8, <2>2 DEF IInv, TypeOK
    <3>2. WritesInOrder'
      BY <1>2, <1>3, <1>4, <1>5, <1>7, <1>8, <2>2 DEF IInv, TypeOK, Request, WritesInOrder, At
    <3>3. CurrentIsValid' /\ NotYetVerified' /\ ServedOnlyBehindPassword'
      BY <1>6, <1>7, <1>8, <2>2
      DEF IInv, CurrentIsValid, NotYetVerified, ServedOnlyBehindPassword, At
    <3>4. AcceptedWasInForce'
      BY <1>7, <1>8, <2>2 DEF IInv, AcceptedWasInForce, At
    <3>5. GoneWereIssued'
      BY <1>2, <1>7, <1>8, <2>2 DEF IInv, GoneWereIssued, At
    <3>6. AckedChangeIsFinal' /\ LoggedOutStaysOut'
      BY <1>2, <1>3, <1>4, <1>5 DEF IInv, AckedChangeIsFinal, LoggedOutStaysOut
    <3> QED BY <3>1, <3>2, <3>3, <3>4, <3>5, <3>6 DEF IInv
<1> QED BY <1>9, <1>10

(* Starting again from the file, with or without the key reset.            *)
LEMMA RestartIInv ==
  ASSUME IInv, Restart \/ ResetKey
  PROVE  IInv'
<1>1. /\ disk' = mem' /\ req' = [h \in Handlers |-> IdleRequest]
      /\ UNCHANGED <<expired, issued, acked, gone>>
  BY DEF Restart, ResetKey, history
<1>2. disk \in State /\ writes \in Nat /\ acked \in Nat /\ disk.wrote \in Nat
      /\ disk.wrote <= writes /\ acked <= disk.wrote
  BY DEF IInv, TypeOK, State, WritesInOrder
<1>3. /\ mem' \in State /\ mem'.sessions \subseteq disk.sessions
      /\ writes' \in Nat /\ mem'.wrote <= writes' /\ mem'.wrote >= disk.wrote
  <2>1. CASE Restart
    BY <2>1, <1>2 DEF Restart, State, history
  <2>2. CASE ResetKey
    BY <2>2, <1>2 DEF ResetKey, State
  <2> QED BY <2>1, <2>2
<1>4. \A h \in Handlers : req'[h].pc = "idle"
  BY <1>1, IdleIsFit
<1>5. TypeOK'
  BY <1>1, <1>3, IdleIsFit DEF IInv, TypeOK
<1>6. WritesInOrder' /\ AckedChangeIsFinal'
  BY <1>1, <1>2, <1>3, <1>4 DEF IInv, TypeOK, State, WritesInOrder, AckedChangeIsFinal, At
<1>7. LoggedOutStaysOut' /\ GoneWereIssued'
  BY <1>1, <1>3, <1>4 DEF IInv, LoggedOutStaysOut, GoneWereIssued, At
<1>8. CurrentIsValid' /\ NotYetVerified' /\ AcceptedWasInForce' /\ ServedOnlyBehindPassword'
  BY <1>4 DEF CurrentIsValid, NotYetVerified, AcceptedWasInForce, ServedOnlyBehindPassword, At
<1> QED BY <1>5, <1>6, <1>7, <1>8 DEF IInv

-----------------------------------------------------------------------------
(* The strengthened invariant is kept by every step.                       *)
LEMMA StepIInv == IInv /\ [Next]_vars => IInv'
<1> SUFFICES ASSUME IInv, [Next]_vars PROVE IInv'
  OBVIOUS
<1>1. ASSUME NEW h \in Handlers, LoginNext(h) PROVE IInv'
  BY <1>1, LoginIInv, LoginCreateIInv DEF LoginNext
<1>2. ASSUME NEW h \in Handlers, ChangeNext(h) PROVE IInv'
  BY <1>2, RouteIInv, ChangeSetIInv, ChangeRevokeIInv DEF ChangeNext
<1>3. ASSUME NEW h \in Handlers, SessionNext(h) PROVE IInv'
  <2>1. ASSUME NEW s \in mem.sessions, NEW c \in Passwords, Admit(h, s, c, "change")
        PROVE  IInv'
    BY <2>1, AdmitIInv DEF Creds
  <2>2. ASSUME NEW s \in mem.sessions, NEW step \in {"logout", "api"},
               Admit(h, s, Initial, step)
        PROVE  IInv'
    BY <2>2, AdmitIInv DEF Creds
  <2> QED BY <1>3, <2>1, <2>2, RouteIInv, LogoutIInv DEF SessionNext
<1>4. CASE \E s \in mem.sessions : Expire(s)
  BY <1>4, ExpireOrSaveIInv
<1>5. CASE OtherSave
  BY <1>5, ExpireOrSaveIInv
<1>6. CASE Restart \/ ResetKey
  BY <1>6, RestartIInv
<1>7. CASE UNCHANGED vars
  BY <1>7 DEF vars, IInv, TypeOK, WritesInOrder, CurrentIsValid, GoneWereIssued,
              NotYetVerified, AcceptedWasInForce, AckedChangeIsFinal,
              LoggedOutStaysOut, ServedOnlyBehindPassword, At, InForce, Set
<1> QED BY <1>1, <1>2, <1>3, <1>4, <1>5, <1>6, <1>7 DEF Next

LEMMA InductiveInvariant == Spec => []IInv
BY InitIInv, StepIInv, PTL DEF Spec

(* The store, the file and the requests stay in their ranges.              *)
THEOREM TypeCorrect == Spec => []TypeOK
<1>1. IInv => TypeOK
  BY DEF IInv
<1> QED BY <1>1, InductiveInvariant, PTL

(* Whatever the interleaving, the two reads of the password by Login and   *)
(* ChangeAccessKey accept only a credential that was in force during the   *)
(* request.                                                                *)
THEOREM LoginIsLinearizable == Spec => []AcceptedWasInForce
<1>1. IInv => AcceptedWasInForce
  BY DEF IInv
<1> QED BY <1>1, InductiveInvariant, PTL

(* A password change reported as done survives every crash, and so does    *)
(* the revocation of the sessions it found.                                *)
THEOREM AckedChangesAreFinal == Spec => []AckedChangeIsFinal
<1>1. IInv => AckedChangeIsFinal
  BY DEF IInv
<1> QED BY <1>1, InductiveInvariant, PTL

(* A saved logout is final.                                                *)
THEOREM LogoutsAreFinal == Spec => []LoggedOutStaysOut
<1>1. IInv => LoggedOutStaysOut
  BY DEF IInv
<1> QED BY <1>1, InductiveInvariant, PTL

(* Business requests are served only behind a password.                    *)
THEOREM SessionsAreGated == Spec => []ServedOnlyBehindPassword
<1>1. IInv => ServedOnlyBehindPassword
  BY DEF IInv
<1> QED BY <1>1, InductiveInvariant, PTL
=============================================================================
