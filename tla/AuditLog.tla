------------------------------ MODULE AuditLog ------------------------------
(***************************************************************************)
(* The audit log: the requests that are audited (auditMiddleware in        *)
(* src/internal/server/auth.go), the entries the store keeps of them       *)
(* (AddAudit, ClearAuditLogs in src/internal/storage/store.go), and a      *)
(* client that reads the log page by page (ListAuditLogs) while it grows,  *)
(* is cut and is cleared.                                                  *)
(*                                                                         *)
(* What the store writes to its file is the matter of StateFile: here what *)
(* is stored is stored, and a request whose process is killed before its   *)
(* entry is stored leaves none.                                            *)
(***************************************************************************)
EXTENDS Naturals, Sequences, FiniteSets

CONSTANTS
  MaxAudit,     \* maxAuditEntries
  MaxPageSize,  \* the largest page, and the size of one when none is given
  DefaultSize,
  Callers,      \* requests under way; a bound for TLC
  MaxEntries,   \* bound: entries ever stored
  MaxLosses     \* bound: times the process is killed

ASSUME AuditAssumption ==
  /\ MaxAudit \in Nat \ {0}
  /\ MaxPageSize \in Nat \ {0} /\ DefaultSize \in 1..MaxPageSize
  /\ MaxEntries \in Nat /\ MaxLosses \in Nat

VARIABLES
  audit,    \* st.Audit
  request,  \* the audited requests under way: what the entry of each will say
  client,   \* the reading of the log
  stored,   \* history: entries ever stored, and how many of them the last clear found
  cleared,
  lost      \* history: processes killed

auditVars == <<audit, request, client, stored, cleared, lost>>

\* Two of the actions of auditMetaFor: "change" is any but the clearing.  Whether
\* the request succeeded is a second thing to filter by, and is left out.
Actions == {"change", "clear"}
Entry   == [id : 1..MaxEntries, action : Actions]
Query   == [action : Actions \cup {""}, size : 0..(MaxPageSize + 1)]

NoRequest == [pc |-> "none"]
NotReading == [pc |-> "none"]

AuditInit ==
  /\ audit = <<>> /\ stored = 0 /\ cleared = 0 /\ lost = 0
  /\ request = [c \in Callers |-> NoRequest]
  /\ client = NotReading

-----------------------------------------------------------------------------
(* Writing *)

Mutant_ClearUnnamed == {"change"}
\* auditMetaFor
Audited == Actions

ClearAuditLogs == audit' = <<>> /\ cleared' = stored

\* The handler of an audited request, and the status it has answered with.
Serve(c) ==
  /\ request[c] = NoRequest
  /\ \E action \in Actions :
       /\ request' = [request EXCEPT ![c] =
            IF action \in Audited THEN [pc |-> "served", action |-> action] ELSE NoRequest]
       /\ IF action = "clear" THEN ClearAuditLogs
          ELSE UNCHANGED <<audit, cleared>>
  /\ UNCHANGED <<client, stored, lost>>

Mutant_KeptFromTheHead(entries) ==
  IF Len(entries) > MaxAudit THEN SubSeq(entries, 1, MaxAudit) ELSE entries
Kept(entries) ==
  IF Len(entries) > MaxAudit THEN SubSeq(entries, Len(entries) - MaxAudit + 1, Len(entries))
  ELSE entries

\* auditMiddleware after the handler, and AddAudit
AddAudit(c) ==
  /\ request[c] # NoRequest /\ stored < MaxEntries
  /\ stored' = stored + 1
  /\ audit' = Kept(Append(audit, [id |-> stored', action |-> request[c].action]))
  /\ request' = [request EXCEPT ![c] = NoRequest]
  /\ UNCHANGED <<client, cleared, lost>>

\* The panel is killed and starts anew with what it has stored.
KilledBeforeAudit ==
  /\ lost < MaxLosses
  /\ \E c \in Callers : request[c] # NoRequest
  /\ request' = [c \in Callers |-> NoRequest]
  /\ lost' = lost + 1
  /\ UNCHANGED <<audit, client, stored, cleared>>

-----------------------------------------------------------------------------
(* Reading *)

Smaller(a, b) == IF a < b THEN a ELSE b

Size(query) ==
  IF query.size < 1 THEN DefaultSize
  ELSE Smaller(query.size, MaxPageSize)

\* Where the entries stand in the log that have what is asked for, and how many
\* of them come before the one at i: they are listed from the end of the log.
Matching(query) == {i \in DOMAIN audit : query.action \in {"", audit[i].action}}

Mutant_OldestFirst(query, i) == Cardinality({j \in Matching(query) : j < i})
Before(query, i) == Cardinality({j \in Matching(query) : j > i})

\* A page past the end is empty.
ListAuditLogs(query, page) ==
  {i \in Matching(query) : /\ (page - 1) * Size(query) <= Before(query, i)
                           /\ Before(query, i) < page * Size(query)}

StartReading ==
  /\ client = NotReading
  /\ \E query \in Query :
       client' = [pc |-> "reading", query |-> query, page |-> 1,
                  began |-> stored, seen |-> {}]
  /\ UNCHANGED <<audit, request, stored, cleared, lost>>

\* The client asks for pages until it has seen as many entries as there are.
ReadPage ==
  /\ client.pc = "reading"
  /\ LET items == ListAuditLogs(client.query, client.page)
         all   == client.page * Size(client.query) >= Cardinality(Matching(client.query))
     IN  client' = [client EXCEPT !.seen = @ \cup {audit[i].id : i \in items},
                                  !.page = IF all THEN @ ELSE @ + 1,
                                  !.pc = IF all THEN "done" ELSE @]
  /\ UNCHANGED <<audit, request, stored, cleared, lost>>

AuditNext ==
  \/ \E c \in Callers : Serve(c) \/ AddAudit(c)
  \/ KilledBeforeAudit
  \/ StartReading
  \/ ReadPage

AuditSpec == AuditInit /\ [][AuditNext]_auditVars

-----------------------------------------------------------------------------
(* Properties *)

\* The log holds the entries stored since it was cleared, in the order in which
\* they were stored, and when there are more than the limit it is the newest
\* that it holds (AddAudit, ClearAuditLogs).
NewestAreKept ==
  /\ Len(audit) = (IF stored - cleared < MaxAudit THEN stored - cleared ELSE MaxAudit)
  /\ \A i \in DOMAIN audit : audit[i].id = stored - Len(audit) + i

\* Who empties the log is in it: of a log that has had entries none is left only
\* while the request that cleared it has yet to be entered (auditMiddleware
\* enters it after the handler), or the panel was killed in between.
ClearLeavesATrace ==
  audit = <<>> /\ cleared > 0 => lost > 0 \/ \E c \in Callers : request[c] # NoRequest
                                                              /\ request[c].action = "clear"

\* A client that reads page after page misses nothing that was in the log when
\* it began and still is, whatever is stored, cut off and cleared in between:
\* the newest come first, so that what is stored meanwhile only moves entries
\* to later pages (ListAuditLogs).
PagesMissNothing ==
  client.pc = "done" =>
    \A i \in DOMAIN audit :
      audit[i].id <= client.began /\ client.query.action \in {"", audit[i].action}
        => audit[i].id \in client.seen
=============================================================================
