-------------------------------- MODULE Auth --------------------------------
(***************************************************************************)
(* Access to the panel: the password, the sessions and the requests that   *)
(* use them.  src/internal/app/service.go (Login, ChangeAccessKey,         *)
(* VerifySession, RevokeCurrentSession), the middleware and the handlers   *)
(* of src/internal/server, and what they do to src/internal/storage.       *)
(*                                                                         *)
(* Requests run concurrently.  Each call of the store takes its mutex, so  *)
(* a call is one step and a request is a sequence of them; bcrypt runs     *)
(* between two steps.  A call that saves may fail: it then keeps its       *)
(* change in memory and leaves the file as it was (module StateFile shows  *)
(* that save is atomic).  The process may stop at any point and start      *)
(* again from the file.                                                    *)
(*                                                                         *)
(* req[h].valid, sessions' born, wrote, acked and gone are history: they   *)
(* record what happened and guard nothing.                                 *)
(***************************************************************************)
EXTENDS Naturals, FiniteSets

CONSTANTS
  Handlers,      \* goroutines serving requests
  Passwords,     \* passwords users choose (and the bcrypt hashes of them)
  Initial,       \* initialAccessKey()
  Unset,         \* no access_key_hash, or an empty one
  MaxSessions,   \* bound on the sessions ever created, for TLC
  MaxWrites      \* bound on the writes of access_key_hash, for TLC

Creds == Passwords \cup {Initial}

ASSUME CredsAssumption ==
  /\ Unset \notin Creds /\ Initial \notin Passwords
  /\ MaxSessions \in Nat /\ MaxWrites \in Nat

\* A session: the credential and the number of password writes at the time
\* it was created, and whether its token reached the client.
Session == [id : Nat, cred : Creds, born : Nat, given : BOOLEAN]

\* The part of Store.st this module is about, with the serial number of the
\* write that set the password.
State == [hash : Passwords \cup {Unset}, sessions : SUBSET Session, wrote : Nat]

Steps == {"idle", "verify", "create",                           \* login
          "change", "verifyCurrent", "set", "revoke",           \* access-key
          "logout",                                             \* logout
          "api", "running"}                                     \* the others

Request == [pc : Steps, cred : Creds, sid : Nat, verified : BOOLEAN,
            wrote : Nat, valid : SUBSET Creds]

IdleRequest == [pc |-> "idle", cred |-> Initial, sid |-> 0,
                verified |-> FALSE, wrote |-> 0, valid |-> {}]

VARIABLES
  mem,       \* Store.st
  disk,      \* state.json
  req,       \* what each handler is serving
  expired,   \* sessions whose ExpiresAt has passed
  issued,    \* number of sessions created so far
  writes,    \* number of writes of access_key_hash so far
  acked,     \* the latest write whose ChangeAccessKey returned nil
  gone       \* sessions whose logout was saved

history == <<writes, acked, gone>>
vars == <<mem, disk, req, expired, issued, writes, acked, gone>>

TypeOK ==
  /\ mem \in State /\ disk \in State
  /\ req \in [Handlers -> Request]
  /\ expired \in SUBSET Nat /\ gone \in SUBSET Nat
  /\ issued \in Nat /\ writes \in Nat /\ acked \in Nat
  /\ \A s \in mem.sessions \cup disk.sessions : s.id \in 1..issued

Empty == [hash |-> Unset, sessions |-> {}, wrote |-> 0]

Init ==
  /\ mem = Empty /\ disk = Empty
  /\ req = [h \in Handlers |-> IdleRequest]
  /\ expired = {} /\ issued = 0
  /\ writes = 0 /\ acked = 0 /\ gone = {}

-----------------------------------------------------------------------------
At(h, step) == req[h].pc = step

Goto(h, step) == req' = [req EXCEPT ![h].pc = step]

Done(h) == req' = [req EXCEPT ![h] = IdleRequest]

\* hasUserPassword, on the state m.
Set(m) == m.hash # Unset

\* What a login is checked against.
InForce(m) == IF Set(m) THEN m.hash ELSE Initial

\* save: the whole state is written, or an error is returned.
Save(ok) == disk' = IF ok THEN mem' ELSE disk

-----------------------------------------------------------------------------
(* Login *)

\* The first look at the password; a wrong initial key ends the request.
LoginBegin(h, c) ==
  /\ At(h, "idle")
  /\ Set(mem) \/ c = Initial
  /\ req' = [req EXCEPT ![h] =
       [IdleRequest EXCEPT !.pc = IF Set(mem) THEN "verify" ELSE "create",
                           !.cred = c, !.valid = {InForce(mem)}]]
  /\ UNCHANGED <<mem, disk, expired, issued, history>>

\* verifyUserPassword reads the hash again.
Mutant_InitialKeyStaysValid(h) ==
  /\ At(h, "verify")
  /\ IF req[h].cred \in {mem.hash, Initial} THEN Goto(h, "create") ELSE Done(h)
  /\ UNCHANGED <<mem, disk, expired, issued, history>>
LoginVerify(h) ==
  /\ At(h, "verify")
  /\ IF req[h].cred = mem.hash THEN Goto(h, "create") ELSE Done(h)
  /\ UNCHANGED <<mem, disk, expired, issued, history>>

\* newSession; when the save fails the client gets an error and no token.
Mutant_TokenReused(h) ==
  /\ At(h, "create")
  /\ issued < MaxSessions
  /\ issued' = Cardinality(mem.sessions) + 1
  /\ \E ok \in BOOLEAN :
       /\ mem' = [mem EXCEPT !.sessions = @ \cup
            {[id |-> issued', cred |-> req[h].cred, born |-> writes, given |-> ok]}]
       /\ Save(ok)
  /\ Done(h)
  /\ UNCHANGED <<expired, history>>
LoginCreate(h) ==
  /\ At(h, "create")
  /\ issued < MaxSessions
  /\ issued' = issued + 1
  /\ \E ok \in BOOLEAN :
       /\ mem' = [mem EXCEPT !.sessions = @ \cup
            {[id |-> issued', cred |-> req[h].cred, born |-> writes, given |-> ok]}]
       /\ Save(ok)
  /\ Done(h)
  /\ UNCHANGED <<expired, history>>

-----------------------------------------------------------------------------
(* Requests that need a session *)

\* VerifySession, for a client that holds the token of s; c is the current
\* password it sends along (access-key only).
Admit(h, s, c, step) ==
  /\ At(h, "idle")
  /\ s \in mem.sessions /\ s.given /\ s.id \notin expired
  /\ req' = [req EXCEPT ![h] =
       [IdleRequest EXCEPT !.pc = step, !.sid = s.id, !.cred = c,
                           !.valid = {InForce(mem)}]]
  /\ UNCHANGED <<mem, disk, expired, issued, history>>

\* RequiresPasswordChange lets no other route through than access-key.
Mutant_GateOpen(h) ==
  /\ At(h, "api")
  /\ Goto(h, "running")
  /\ UNCHANGED <<mem, disk, expired, issued, history>>
Gate(h) ==
  /\ At(h, "api")
  /\ IF Set(mem) THEN Goto(h, "running") ELSE Done(h)
  /\ UNCHANGED <<mem, disk, expired, issued, history>>

Finish(h) ==
  /\ At(h, "running")
  /\ Done(h)
  /\ UNCHANGED <<mem, disk, expired, issued, history>>

\* The handler ignores the result of RevokeCurrentSession.
Mutant_LogoutUnsaved(h) ==
  /\ At(h, "logout")
  /\ mem' = [mem EXCEPT !.sessions = {s \in @ : s.id # req[h].sid}]
  /\ gone' = gone \cup {req[h].sid}
  /\ Done(h)
  /\ UNCHANGED <<disk, expired, issued, writes, acked>>
Logout(h) ==
  /\ At(h, "logout")
  /\ mem' = [mem EXCEPT !.sessions = {s \in @ : s.id # req[h].sid}]
  /\ \E ok \in BOOLEAN :
       /\ Save(ok)
       /\ gone' = IF ok THEN gone \cup {req[h].sid} ELSE gone
  /\ Done(h)
  /\ UNCHANGED <<expired, issued, writes, acked>>

-----------------------------------------------------------------------------
(* ChangeAccessKey *)

\* hasUserPassword: the first password needs no current one.
ChangeCheck(h) ==
  /\ At(h, "change")
  /\ Goto(h, IF Set(mem) THEN "verifyCurrent" ELSE "set")
  /\ UNCHANGED <<mem, disk, expired, issued, history>>

ChangeVerify(h) ==
  /\ At(h, "verifyCurrent")
  /\ IF req[h].cred = mem.hash
     THEN req' = [req EXCEPT ![h].pc = "set", ![h].verified = TRUE]
     ELSE Done(h)
  /\ UNCHANGED <<mem, disk, expired, issued, history>>

\* History: for a request under way p was in force at some moment.
Saw(g, p) ==
  IF At(g, "idle") THEN req[g] ELSE [req[g] EXCEPT !.valid = @ \cup {p}]

\* SetSetting.
ChangeSet(h, p) ==
  /\ At(h, "set")
  /\ writes < MaxWrites
  /\ writes' = writes + 1
  /\ mem' = [mem EXCEPT !.hash = p, !.wrote = writes']
  /\ \E ok \in BOOLEAN :
       /\ Save(ok)
       /\ req' = [g \in Handlers |->
            IF g # h THEN Saw(g, p)
            ELSE IF ok THEN [Saw(h, p) EXCEPT !.pc = "revoke", !.wrote = writes']
            ELSE IdleRequest]
  /\ UNCHANGED <<expired, issued, acked, gone>>

\* RevokeAllSessions; only now the change is reported as done.
Mutant_RevokeUnsaved(h) ==
  /\ At(h, "revoke")
  /\ mem' = [mem EXCEPT !.sessions = {}]
  /\ acked' = IF req[h].wrote > acked THEN req[h].wrote ELSE acked
  /\ Done(h)
  /\ UNCHANGED <<disk, expired, issued, writes, gone>>
ChangeRevoke(h) ==
  /\ At(h, "revoke")
  /\ mem' = [mem EXCEPT !.sessions = {}]
  /\ \E ok \in BOOLEAN :
       /\ Save(ok)
       /\ acked' = IF ok /\ req[h].wrote > acked THEN req[h].wrote ELSE acked
  /\ Done(h)
  /\ UNCHANGED <<expired, issued, writes, gone>>

-----------------------------------------------------------------------------
(* The environment *)

Expire(s) ==
  /\ s \in mem.sessions /\ s.id \notin expired
  /\ expired' = expired \cup {s.id}
  /\ UNCHANGED <<mem, disk, req, issued, history>>

\* Any other operation that saves (audit log, settings) writes all of it.
OtherSave ==
  /\ disk # mem
  /\ disk' = mem
  /\ UNCHANGED <<mem, req, expired, issued, history>>

\* The process ends, whatever the handlers are doing, and Open starts from
\* the file without its expired sessions.
Restart ==
  /\ mem' = [disk EXCEPT !.sessions = {s \in @ : s.id \notin expired}]
  /\ disk' = mem'
  /\ req' = [h \in Handlers |-> IdleRequest]
  /\ UNCHANGED <<expired, issued, history>>

\* The same through a run with FRPC_WEB_RESET_KEY: the password is cleared.
ResetKey ==
  /\ writes < MaxWrites
  /\ writes' = writes + 1
  /\ mem' = [hash |-> Unset, wrote |-> writes',
             sessions |-> {s \in disk.sessions : s.id \notin expired}]
  /\ disk' = mem'
  /\ req' = [h \in Handlers |-> IdleRequest]
  /\ UNCHANGED <<expired, issued, acked, gone>>

LoginNext(h) ==
  \/ \E c \in Creds : LoginBegin(h, c)
  \/ LoginVerify(h)
  \/ LoginCreate(h)

ChangeNext(h) ==
  \/ ChangeCheck(h)
  \/ ChangeVerify(h)
  \/ \E p \in Passwords : ChangeSet(h, p)
  \/ ChangeRevoke(h)

SessionNext(h) ==
  \/ \E s \in mem.sessions, c \in Passwords : Admit(h, s, c, "change")
  \/ \E s \in mem.sessions, step \in {"logout", "api"} : Admit(h, s, Initial, step)
  \/ Gate(h)
  \/ Finish(h)
  \/ Logout(h)

Next ==
  \/ \E h \in Handlers : LoginNext(h) \/ ChangeNext(h) \/ SessionNext(h)
  \/ \E s \in mem.sessions : Expire(s)
  \/ OtherSave
  \/ Restart
  \/ ResetKey

Spec == Init /\ [][Next]_vars

-----------------------------------------------------------------------------
(* Properties *)

(* Login and ChangeAccessKey look at the password twice, in two critical   *)
(* sections.  Nevertheless a credential they accept was the one in force   *)
(* at some moment of that same request: no mixture of an old and a new     *)
(* state of the settings lets another one in.                              *)
AcceptedWasInForce ==
  \A h \in Handlers :
    At(h, "create") \/ (At(h, "set") /\ req[h].verified)
      => req[h].cred \in req[h].valid

(* Once a password change has been reported as done, no session from       *)
(* before it exists, in memory or in the file, and the file holds that     *)
(* password or a later one: a crash at any point cannot take it back.      *)
AckedChangeIsFinal ==
  /\ disk.wrote >= acked
  /\ \A s \in mem.sessions \cup disk.sessions : s.born >= acked

(* A logout that was saved is final: neither a concurrent request nor a    *)
(* restart brings the session back.                                        *)
LoggedOutStaysOut ==
  \A s \in mem.sessions \cup disk.sessions : s.id \notin gone

(* The server, not only the page, enforces the first password change       *)
(* (auth.go:26): a request of any other route is served only while a       *)
(* password is set, through failed saves and resets.                       *)
ServedOnlyBehindPassword ==
  \A h \in Handlers : At(h, "running") => Set(mem)

(* service.go:189 says that after a password change the old password and   *)
(* its sessions are invalid at once: with the last write of the password   *)
(* reported as done, every session was opened with that password.          *)
OnlySessionsOfThePassword ==
  acked = mem.wrote /\ Set(mem) =>
    \A s \in mem.sessions : s.cred = mem.hash
=============================================================================
