------------------------- MODULE EmployeeDirectory -------------------------
(***************************************************************************)
(* The employee REST handlers of internal/employee: listing, reading and   *)
(* updating employees in the directory through the in-process cache.       *)
(*                                                                         *)
(* Every request runs on a goroutine of its own.  The goroutines share the *)
(* cache and the list version; between two steps of one of them any other  *)
(* may run, and each LDAP call is a step in which the directory answers or *)
(* fails.  A directory search is not a snapshot: it returns one entry      *)
(* after another.  All list requests are taken to carry the same limit,    *)
(* offset and filter: those are part of the cache key and never change, so *)
(* two different queries never share an entry.                             *)
(***************************************************************************)
EXTENDS ActiveDirectory, Functions, FiniteSets

CONSTANTS
    Handlers,    \* the goroutines serving employee requests
    None,        \* no value (Go's nil, or an empty old value)
    Requests,    \* the kinds of request clients send: "list", "get", "put"
    Bodies,      \* the non-empty fields an update may carry
    OutsideAttrs,\* the attributes administrators edit with other tools
    MaxPuts,     \* bound: updates accepted in one life of the process
    MaxCrashes   \* bound: restarts of the process

ASSUME InputAssumption ==
    /\ Requests \subseteq {"list", "get", "put"}
    /\ Bodies \subseteq SUBSET {"telephoneNumber", "physicalDeliveryOfficeName"}
    /\ OutsideAttrs \subseteq EditableAttrs

\* There are never but finitely many goroutines.
ASSUME HandlersAssumption == IsFiniteSet(Handlers) /\ MaxCrashes \in Nat

ASSUME NoneAssumption == None \notin Record /\ None \notin Employees

VARIABLES
    empCache,    \* pkgCache, the "employee:<dn>" keys
    listCache,   \* pkgCache, the "list:v<version>:..." keys
    listVersion, \* listVersion, bumped by each update
    pc,          \* where each handler is
    target,      \* the dn of a read or an update
    ver,         \* the list version a request saw when it started
    got,         \* the listing a list request has read so far
    seen,        \* the record a read replies with; the old values of an update
    todo,        \* the attributes an update has still to write
    last,        \* the outcome of an update's latest modification
    audit,       \* the update_employee events handed to the audit logger
    crashes,     \* history: restarts so far
    late,        \* history: the entries a read had read, but not yet stored,
                 \* when an update invalidated them
    wrote,       \* history: what an update was told it stored
    promised     \* history: promised[v + 1] is what the updates finished
                 \* when the list version became v had stored

cacheVars  == <<empCache, listCache, listVersion>>
localVars  == <<pc, target, ver, got, seen, todo, last, wrote>>
ghostVars  == <<crashes, late, promised>>
vars == <<ad, mods, empCache, listCache, listVersion, pc, target, ver, got,
          seen, todo, last, audit, crashes, late, wrote, promised>>

\* The body fields of an update, in the order the handler writes them.
PutFields == {"telephoneNumber", "physicalDeliveryOfficeName"}
NextField(S) == IF "telephoneNumber" \in S THEN "telephoneNumber"
                                           ELSE "physicalDeliveryOfficeName"

Blank   == [a \in EditableAttrs |-> 0]
Unread  == [e \in Employees |-> None]
NoModify == [value |-> 0, ok |-> TRUE]

Larger(m, n) == IF m < n THEN n ELSE m

PcLabels ==
    {"idle",
     "listGet", "listRead", "listSet", "listDone",
     "getRead", "getSet", "getDone",
     "putOld", "putModify", "putAudit", "putDelete", "putBump", "putReread",
     "putDone"}

AuditEvent == [dn: Employees, attr: EditableAttrs, old: Nat \cup {None},
               new: Nat, ok: BOOLEAN]

CacheTypeOK ==
    /\ DOMAIN empCache \subseteq Employees
    /\ \A e \in DOMAIN empCache : empCache[e] \in Record
    /\ DOMAIN listCache \subseteq Nat
    /\ \A v \in DOMAIN listCache : listCache[v] \in Listing
    /\ listVersion \in Nat

LocalTypeOK ==
    /\ pc \in [Handlers -> PcLabels]
    /\ target \in [Handlers -> Employees \cup {None}]
    /\ ver \in [Handlers -> Nat]
    /\ got \in [Handlers -> [Employees -> Record \cup {None}]]
    /\ seen \in [Handlers -> Record \cup {None}]
    /\ todo \in [Handlers -> SUBSET PutFields]
    /\ last \in [Handlers -> [value: Nat, ok: BOOLEAN]]
    /\ wrote \in [Handlers -> Record]

\* An update has a target until it replies, a write has something to write,
\* and a listing is complete when it is stored or sent.
PcTypeOK ==
    \A h \in Handlers :
        /\ pc[h] \in {"getRead", "getSet", "getDone", "putOld", "putModify",
                     "putAudit", "putDelete", "putBump", "putReread"} =>
              target[h] \in Employees
        /\ pc[h] \in {"getSet", "getDone"} => seen[h] \in Record
        /\ pc[h] \in {"listSet", "listDone"} => got[h] \in Listing

HistoryTypeOK ==
    /\ audit \subseteq AuditEvent
    /\ crashes \in Nat
    /\ late \subseteq Employees
    /\ promised \in Seq(Listing)
    /\ Len(promised) = listVersion + 1

TypeOK == AdTypeOK /\ CacheTypeOK /\ LocalTypeOK /\ PcTypeOK /\ HistoryTypeOK

-----------------------------------------------------------------------------
(* The cache.  A key is present until it is deleted or its TTL has elapsed; *)
(* a present key may expire at any moment.                                 *)

CacheSet(c, k, x) == [i \in DOMAIN c \cup {k} |-> IF i = k THEN x ELSE c[i]]
CacheDelete(c, k) == Restrict(c, DOMAIN c \ {k})

EmptyCache == [k \in {} |-> None]

\* Mutant: records are set without an expiry.
ExpireEmployeeNever(e) ==
    /\ FALSE
    /\ UNCHANGED vars

ExpireEmployee(e) ==
    /\ e \in DOMAIN empCache
    /\ empCache' = CacheDelete(empCache, e)
    /\ UNCHANGED <<ad, mods, listCache, listVersion, localVars, audit,
                   ghostVars>>

ExpireList(v) ==
    /\ v \in DOMAIN listCache
    /\ listCache' = CacheDelete(listCache, v)
    /\ UNCHANGED <<ad, mods, empCache, listVersion, localVars, audit,
                   ghostVars>>

-----------------------------------------------------------------------------
(* GET /api/v1/employees *)

\* The key takes the list version of this moment.
ListStart(h) ==
    /\ pc[h] = "idle"
    /\ ver' = [ver EXCEPT ![h] = listVersion]
    /\ pc' = [pc EXCEPT ![h] = "listGet"]
    /\ UNCHANGED <<ad, mods, cacheVars, target, got, seen, todo, last, wrote,
                   audit, ghostVars>>

ListHit(h) ==
    /\ pc[h] = "listGet"
    /\ ver[h] \in DOMAIN listCache
    /\ got' = [got EXCEPT ![h] = listCache[ver[h]]]
    /\ pc' = [pc EXCEPT ![h] = "listDone"]
    /\ UNCHANGED <<ad, mods, cacheVars, target, ver, seen, todo, last, wrote,
                   audit, ghostVars>>

ListMiss(h) ==
    /\ pc[h] = "listGet"
    /\ ver[h] \notin DOMAIN listCache
    /\ pc' = [pc EXCEPT ![h] = "listRead"]
    /\ UNCHANGED <<ad, mods, cacheVars, target, ver, got, seen, todo, last,
                   wrote, audit, ghostVars>>

\* The search returns its entries one by one, each as it is when read.
ListReadEntry(h, e) ==
    /\ pc[h] = "listRead"
    /\ got[h][e] = None
    /\ got' = [got EXCEPT ![h][e] = ad[e]]
    /\ pc' = [pc EXCEPT ![h] =
                 IF \A d \in Employees \ {e} : got[h][d] # None
                 THEN "listSet" ELSE "listRead"]
    /\ UNCHANGED <<ad, mods, cacheVars, target, ver, seen, todo, last, wrote,
                   audit, ghostVars>>

\* Mutant: the error is ignored and what was read so far is stored.
ListReadErrorIgnored(h) ==
    /\ pc[h] = "listRead"
    /\ pc' = [pc EXCEPT ![h] = "listSet"]
    /\ UNCHANGED <<ad, mods, cacheVars, target, ver, got, seen, todo, last,
                   wrote, audit, ghostVars>>

\* The dial, the bind or the search fails: the reply is an error.
ListReadError(h) ==
    /\ pc[h] = "listRead"
    /\ got' = [got EXCEPT ![h] = Unread]
    /\ ver' = [ver EXCEPT ![h] = 0]
    /\ pc' = [pc EXCEPT ![h] = "idle"]
    /\ UNCHANGED <<ad, mods, cacheVars, target, seen, todo, last, wrote, audit,
                   ghostVars>>

\* Mutant: the key is built when the listing is stored.
ListSetNewKey(h) ==
    /\ pc[h] = "listSet"
    /\ listCache' = CacheSet(listCache, listVersion, got[h])
    /\ pc' = [pc EXCEPT ![h] = "listDone"]
    /\ UNCHANGED <<ad, mods, empCache, listVersion, target, ver, got, seen,
                   todo, last, wrote, audit, ghostVars>>

ListSet(h) ==
    /\ pc[h] = "listSet"
    /\ listCache' = CacheSet(listCache, ver[h], got[h])
    /\ pc' = [pc EXCEPT ![h] = "listDone"]
    /\ UNCHANGED <<ad, mods, empCache, listVersion, target, ver, got, seen,
                   todo, last, wrote, audit, ghostVars>>

-----------------------------------------------------------------------------
(* GET /api/v1/employees/:dn *)

GetHit(h, e) ==
    /\ pc[h] = "idle"
    /\ e \in DOMAIN empCache
    /\ target' = [target EXCEPT ![h] = e]
    /\ ver' = [ver EXCEPT ![h] = listVersion]
    /\ seen' = [seen EXCEPT ![h] = empCache[e]]
    /\ pc' = [pc EXCEPT ![h] = "getDone"]
    /\ UNCHANGED <<ad, mods, cacheVars, got, todo, last, wrote, audit,
                   ghostVars>>

GetMiss(h, e) ==
    /\ pc[h] = "idle"
    /\ e \notin DOMAIN empCache
    /\ target' = [target EXCEPT ![h] = e]
    /\ ver' = [ver EXCEPT ![h] = listVersion]
    /\ pc' = [pc EXCEPT ![h] = "getRead"]
    /\ UNCHANGED <<ad, mods, cacheVars, got, seen, todo, last, wrote, audit,
                   ghostVars>>

GetRead(h) ==
    /\ pc[h] = "getRead"
    /\ seen' = [seen EXCEPT ![h] = ad[target[h]]]
    /\ pc' = [pc EXCEPT ![h] = "getSet"]
    /\ UNCHANGED <<ad, mods, cacheVars, target, ver, got, todo, last, wrote,
                   audit, ghostVars>>

\* 404 or 500: nothing is cached.
GetReadError(h) ==
    /\ pc[h] = "getRead"
    /\ target' = [target EXCEPT ![h] = None]
    /\ ver' = [ver EXCEPT ![h] = 0]
    /\ pc' = [pc EXCEPT ![h] = "idle"]
    /\ UNCHANGED <<ad, mods, cacheVars, got, seen, todo, last, wrote, audit,
                   ghostVars>>

GetSet(h) ==
    /\ pc[h] = "getSet"
    /\ empCache' = CacheSet(empCache, target[h], seen[h])
    /\ pc' = [pc EXCEPT ![h] = "getDone"]
    /\ UNCHANGED <<ad, mods, listCache, listVersion, target, ver, got, seen,
                   todo, last, wrote, audit, ghostVars>>

-----------------------------------------------------------------------------
(* PUT /api/v1/employees/:dn *)

Updating(h) == pc[h] \in {"putOld", "putModify", "putAudit", "putDelete",
                          "putBump"}

\* S is the set of the non-empty fields of the body; it may be empty.
PutStart(h, e, S) ==
    /\ pc[h] = "idle"
    /\ listVersion + Cardinality({g \in Handlers : Updating(g)}) < MaxPuts
    /\ target' = [target EXCEPT ![h] = e]
    /\ todo' = [todo EXCEPT ![h] = S]
    /\ pc' = [pc EXCEPT ![h] = "putOld"]
    /\ UNCHANGED <<ad, mods, cacheVars, ver, got, seen, last, wrote, audit,
                   ghostVars>>

\* The old values are fetched, or left empty when the lookup fails.
PutReadOld(h) ==
    /\ pc[h] = "putOld"
    /\ \E r \in {ad[target[h]], None} : seen' = [seen EXCEPT ![h] = r]
    /\ pc' = [pc EXCEPT ![h] = IF todo[h] = {} THEN "putDelete"
                                               ELSE "putModify"]
    /\ UNCHANGED <<ad, mods, cacheVars, target, ver, got, todo, last, wrote,
                   audit, ghostVars>>

\* The directory stores the value and says so.
PutModifyOK(h) ==
    LET a == NextField(todo[h]) IN
    /\ pc[h] = "putModify"
    /\ Store(target[h], a, "program")
    /\ last' = [last EXCEPT ![h] = [value |-> Len(mods) + 1, ok |-> TRUE]]
    /\ wrote' = [wrote EXCEPT ![h][a] = Len(mods) + 1]
    /\ pc' = [pc EXCEPT ![h] = "putAudit"]
    /\ UNCHANGED <<cacheVars, target, ver, got, seen, todo, audit, ghostVars>>

\* The call returns an error: the modification was made and its answer lost,
\* or it was never made, and then the value has no name.
PutModifyError(h) ==
    /\ pc[h] = "putModify"
    /\ \/ /\ Store(target[h], NextField(todo[h]), "program")
          /\ last' = [last EXCEPT ![h] = [value |-> Len(mods) + 1,
                                         ok |-> FALSE]]
       \/ /\ Refuse
          /\ last' = [last EXCEPT ![h] = [value |-> 0, ok |-> FALSE]]
    /\ pc' = [pc EXCEPT ![h] = "putAudit"]
    /\ UNCHANGED <<cacheVars, target, ver, got, seen, todo, wrote, audit,
                   ghostVars>>

\* Mutant: the old values are swapped.
OldValueSwapped(h, a) ==
    IF seen[h] = None THEN None
    ELSE seen[h][CHOOSE b \in PutFields : b # a]

OldValue(h, a) == IF seen[h] = None THEN None ELSE seen[h][a]

\* Mutant: after an error the handler replies before it audits.
PutAuditSuccessOnly(h) ==
    LET a == NextField(todo[h]) IN
    /\ pc[h] = "putAudit"
    /\ audit' = IF ~last[h].ok THEN audit ELSE
                audit \cup {[dn |-> target[h], attr |-> a,
                             old |-> OldValue(h, a), new |-> last[h].value,
                             ok |-> TRUE]}
    /\ todo' = [todo EXCEPT ![h] = @ \ {a}]
    /\ pc' = [pc EXCEPT ![h] =
                 IF ~last[h].ok THEN "putDone"
                 ELSE IF todo[h] = {a} THEN "putDelete" ELSE "putModify"]
    /\ UNCHANGED <<ad, mods, cacheVars, target, ver, got, seen, last, wrote,
                   ghostVars>>

\* The attempt is audited; after an error the handler replies 500 at once.
PutAudit(h) ==
    LET a == NextField(todo[h]) IN
    /\ pc[h] = "putAudit"
    /\ audit' = audit \cup {[dn |-> target[h], attr |-> a,
                             old |-> OldValue(h, a), new |-> last[h].value,
                             ok |-> last[h].ok]}
    /\ todo' = [todo EXCEPT ![h] = @ \ {a}]
    /\ pc' = [pc EXCEPT ![h] =
                 IF ~last[h].ok THEN "putDone"
                 ELSE IF todo[h] = {a} THEN "putDelete" ELSE "putModify"]
    /\ UNCHANGED <<ad, mods, cacheVars, target, ver, got, seen, last, wrote,
                   ghostVars>>

\* Mutant: the record is left in the cache.
PutDeleteNothing(h) ==
    /\ pc[h] = "putDelete"
    /\ pc' = [pc EXCEPT ![h] = "putBump"]
    /\ UNCHANGED <<ad, mods, cacheVars, target, ver, got, seen, todo, last,
                   wrote, audit, ghostVars>>

PutDelete(h) ==
    /\ pc[h] = "putDelete"
    /\ empCache' = CacheDelete(empCache, target[h])
    /\ late' = IF \E g \in Handlers : pc[g] = "getSet" /\ target[g] = target[h]
               THEN late \cup {target[h]} ELSE late \ {target[h]}
    /\ pc' = [pc EXCEPT ![h] = "putBump"]
    /\ UNCHANGED <<ad, mods, listCache, listVersion, target, ver, got, seen,
                   todo, last, wrote, audit, crashes, promised>>

\* What an update of e that stored w adds to a promised listing.
Promise(p, e, w) ==
    [p EXCEPT ![e] = [a \in EditableAttrs |-> Larger(p[e][a], w[a])]]

PutBump(h) ==
    /\ pc[h] = "putBump"
    /\ listVersion' = listVersion + 1
    /\ promised' = Append(promised,
                          Promise(promised[listVersion + 1], target[h],
                                  wrote[h]))
    /\ pc' = [pc EXCEPT ![h] = "putReread"]
    /\ UNCHANGED <<ad, mods, empCache, listCache, target, ver, got, seen, todo,
                   last, wrote, audit, crashes, late>>

\* The reply is the record read back, or an error when that fails.
PutReread(h) ==
    /\ pc[h] = "putReread"
    /\ \E r \in {ad[target[h]], None} : seen' = [seen EXCEPT ![h] = r]
    /\ pc' = [pc EXCEPT ![h] = "putDone"]
    /\ UNCHANGED <<ad, mods, cacheVars, target, ver, got, todo, last, wrote,
                   audit, ghostVars>>

-----------------------------------------------------------------------------
\* The reply is on its way and the goroutine ends.
Reply(h) ==
    /\ pc[h] \in {"listDone", "getDone", "putDone"}
    /\ pc' = [pc EXCEPT ![h] = "idle"]
    /\ target' = [target EXCEPT ![h] = None]
    /\ ver' = [ver EXCEPT ![h] = 0]
    /\ got' = [got EXCEPT ![h] = Unread]
    /\ seen' = [seen EXCEPT ![h] = None]
    /\ todo' = [todo EXCEPT ![h] = {}]
    /\ last' = [last EXCEPT ![h] = NoModify]
    /\ wrote' = [wrote EXCEPT ![h] = Blank]
    /\ UNCHANGED <<ad, mods, cacheVars, audit, ghostVars>>

Init ==
    /\ AdInit
    /\ empCache = EmptyCache
    /\ listCache = EmptyCache
    /\ listVersion = 0
    /\ pc = [h \in Handlers |-> "idle"]
    /\ target = [h \in Handlers |-> None]
    /\ ver = [h \in Handlers |-> 0]
    /\ got = [h \in Handlers |-> Unread]
    /\ seen = [h \in Handlers |-> None]
    /\ todo = [h \in Handlers |-> {}]
    /\ last = [h \in Handlers |-> NoModify]
    /\ wrote = [h \in Handlers |-> Blank]
    /\ audit = {}
    /\ crashes = 0
    /\ late = {}
    /\ promised = <<[e \in Employees |-> Blank]>>

\* The process dies and is started again: nothing of it is persistent but
\* the audit trail.  What had been promised before is promised still.
Crash ==
    /\ crashes < MaxCrashes
    /\ crashes' = crashes + 1
    /\ empCache' = EmptyCache
    /\ listCache' = EmptyCache
    /\ listVersion' = 0
    /\ pc' = [h \in Handlers |-> "idle"]
    /\ target' = [h \in Handlers |-> None]
    /\ ver' = [h \in Handlers |-> 0]
    /\ got' = [h \in Handlers |-> Unread]
    /\ seen' = [h \in Handlers |-> None]
    /\ todo' = [h \in Handlers |-> {}]
    /\ last' = [h \in Handlers |-> NoModify]
    /\ wrote' = [h \in Handlers |-> Blank]
    /\ late' = {}
    /\ promised' = <<promised[listVersion + 1]>>
    /\ UNCHANGED <<ad, mods, audit>>

\* An administrator edits an entry behind the program's back.
OutsideChange(e, a) ==
    /\ OutsideEdit(e, a)
    /\ UNCHANGED <<cacheVars, localVars, audit, ghostVars>>

ListStep(h) ==
    \/ ListHit(h) \/ ListMiss(h) \/ ListReadError(h) \/ ListSet(h)
    \/ \E e \in Employees : ListReadEntry(h, e)

GetStep(h) == GetRead(h) \/ GetReadError(h) \/ GetSet(h)

PutStep(h) ==
    \/ PutReadOld(h) \/ PutModifyOK(h) \/ PutModifyError(h) \/ PutAudit(h)
    \/ PutDelete(h) \/ PutBump(h) \/ PutReread(h)

\* A handler that has a request goes on with it.
HandlerStep(h) == ListStep(h) \/ GetStep(h) \/ PutStep(h) \/ Reply(h)

Request(h) ==
    \/ /\ "list" \in Requests
       /\ ListStart(h)
    \/ /\ "get" \in Requests
       /\ \E e \in Employees : GetHit(h, e) \/ GetMiss(h, e)
    \/ /\ "put" \in Requests
       /\ \E e \in Employees, S \in Bodies : PutStart(h, e, S)

Expiry ==
    \/ \E e \in Employees : ExpireEmployee(e)
    \/ \E v \in DOMAIN listCache : ExpireList(v)

Next ==
    \/ \E h \in Handlers : Request(h) \/ HandlerStep(h)
    \/ Expiry
    \/ Crash
    \/ \E e \in Employees, a \in OutsideAttrs : OutsideChange(e, a)

Spec == Init /\ [][Next]_vars

(***************************************************************************)
(* Fairness.  A cached record expires: the clock moves and a record is set *)
(* again only after a miss.  Nobody is obliged to send requests, and one   *)
(* in progress may hang: for what the cache promises that makes no         *)
(* difference.                                                             *)
(***************************************************************************)
FairSpec ==
    /\ Spec
    /\ \A e \in Employees : WF_vars(ExpireEmployee(e))

-----------------------------------------------------------------------------
(* Properties *)

AtLeast(r, s) == \A a \in EditableAttrs : r[a] >= s[a]

\* A listing shows every update that had been answered with success, or was
\* past its version bump, when the list request was received: no list reply
\* comes from before an update its sender may already know of.
\* (ListEmployeesHandler, "invalidated globally on any successful PUT")
ListServesCommitted ==
    \A h \in Handlers : pc[h] = "listDone" =>
        \A e \in Employees : AtLeast(got[h][e], promised[ver[h] + 1][e])

\* The same of a single read, GetEmployeeHandler: "Individual records are
\* cached for cacheTTL and invalidated on PUT."
GetServesCommitted ==
    \A h \in Handlers : pc[h] = "getDone" =>
        AtLeast(seen[h], promised[ver[h] + 1][target[h]])

\* The modifications of the program that no event names and no handler is
\* about to hand over.
Unaudited ==
    {i \in 1..Len(mods) :
        /\ mods[i].by = "program"
        /\ ~\E ev \in audit :
              ev.new = i /\ ev.dn = mods[i].dn /\ ev.attr = mods[i].attr
        /\ ~\E h \in Handlers : pc[h] = "putAudit" /\ last[h].value = i}

\* The modification new was made by the program to that attribute.
MadeTo(new, dn, attr) ==
    /\ new \in 1..Len(mods) /\ mods[new].by = "program"
    /\ mods[new].dn = dn /\ mods[new].attr = attr

\* What the trail names was done, to that entry and that attribute, be the
\* answer of the directory lost or not.
EventsWereMade ==
    \A ev \in audit :
        /\ ev.ok => ev.new # 0
        /\ ev.new # 0 => MadeTo(ev.new, ev.dn, ev.attr)

\* The trail and the directory agree.  Every modification the program made is
\* in the trail, as a success or as a failure, but for one in each request a
\* restart cut short; and what the trail names was done.
\* (UpdateEmployeeHandler audits each attribute with its own outcome)
TrailMatchesDirectory ==
    /\ Cardinality(Unaudited) <= crashes * Cardinality(Handlers)
    /\ EventsWereMade

\* What a record of e holds that no late read has put back: what the updates
\* that are past their version bump stored, and those past their delete.
Owed(e, r) ==
    /\ AtLeast(r, promised[listVersion + 1][e])
    /\ \A h \in Handlers : pc[h] = "putBump" /\ target[h] = e =>
          AtLeast(r, wrote[h])

\* What GetServesCommitted leaves true: a record in the cache, or about to go
\* there, is older than an update only when a read had it in hand while the
\* update invalidated it.
\* (UpdateEmployeeHandler deletes the key after the last modification)
StaleOnlyIfLate ==
    \A e \in Employees \ late :
        /\ e \in DOMAIN empCache => Owed(e, empCache[e])
        /\ \A h \in Handlers : pc[h] = "getSet" /\ target[h] = e =>
              Owed(e, seen[h])

\* The attribute held that value at some time; 0 is what it held at first.
WasHeld(value, dn, attr) ==
    value # 0 => /\ value \in 1..Len(mods)
                 /\ mods[value].dn = dn /\ mods[value].attr = attr

\* The old value of a success event is one the attribute held no later than
\* the one that was replaced.  It need not be that one: the old values are
\* looked up once, before the first modification.
AuditedOldWasHeld ==
    \A ev \in audit : ev.ok /\ ev.old # None =>
        /\ ev.old <= mods[ev.new].old
        /\ WasHeld(ev.old, ev.dn, ev.attr)

\* What the trail rests on: a handler that is about to audit holds the name of
\* the modification it made, and old values that are no younger than what it
\* replaced.
HandlersNameTheirs ==
    \A h \in Handlers : pc[h] = "putAudit" =>
        /\ last[h].ok => last[h].value # 0
        /\ last[h].value # 0 =>
              MadeTo(last[h].value, target[h], NextField(todo[h]))

AdIsNamed ==
    \A e \in Employees, a \in EditableAttrs : WasHeld(ad[e][a], e, a)

OldValuesWereHeld ==
    \A h \in Handlers : pc[h] \in {"putModify", "putAudit"} /\ seen[h] # None =>
        /\ \A a \in EditableAttrs :
              /\ WasHeld(seen[h][a], target[h], a)
              /\ seen[h][a] <= ad[target[h]][a]
        /\ pc[h] = "putAudit" /\ last[h].value # 0 =>
              seen[h][NextField(todo[h])] <= mods[last[h].value].old

TrailIsTrue ==
    /\ HandlersNameTheirs /\ AdIsNamed /\ OldValuesWereHeld
    /\ AuditedOldWasHeld /\ EventsWereMade

TrailInv == TrailIsTrue /\ TrailMatchesDirectory

\* What ListServesCommitted rests on.  The directory never holds less than
\* was promised, and a listing, in the cache or half read, never less than
\* what was promised when its version was current.
AdKeepsPromises ==
    \A v \in 1..Len(promised), e \in Employees :
        AtLeast(ad[e], promised[v][e])

AdNewestFirst ==
    \A e \in Employees, a \in EditableAttrs : ad[e][a] <= Len(mods)

UpdatesAreInAd ==
    \A h \in Handlers :
        /\ target[h] \in Employees => AtLeast(ad[target[h]], wrote[h])
        /\ pc[h] \in {"idle", "listGet", "listRead", "listSet", "listDone",
                     "getRead", "getSet", "getDone"} => wrote[h] = Blank

ListsKeepPromises ==
    /\ \A v \in DOMAIN listCache :
          /\ v <= listVersion
          /\ \A e \in Employees : AtLeast(listCache[v][e], promised[v + 1][e])
    /\ \A h \in Handlers :
          /\ ver[h] <= listVersion
          /\ \A e \in Employees :
                got[h][e] # None => AtLeast(got[h][e], promised[ver[h] + 1][e])
          /\ pc[h] \notin {"listRead", "listSet", "listDone"} =>
                got[h] = Unread

ListInv == TypeOK /\ AdNewestFirst /\ AdKeepsPromises /\ UpdatesAreInAd
                  /\ ListsKeepPromises

\* After a while without edits the cache holds no record but those of the
\* directory, whatever the updates left behind in it: the records of updates
\* that failed halfway, those a slow read put back after an invalidation, and
\* the edits of others that invalidate nothing.
\* (Cache.Get and its TTL, the only thing that mends a stale record)
CacheConverges ==
    <>[](\A e \in DOMAIN empCache : empCache[e] = ad[e])
-----------------------------------------------------------------------------
\* What a client of the API may know of the request h serves.  Single reads
\* promise nothing (see GetServesCommitted) and do not show.
ServiceOp(h) ==
    CASE pc[h] \in {"listGet", "listRead", "listSet"} ->
             [kind |-> "asked", floor |-> promised[ver[h] + 1]]
      [] pc[h] = "listDone" -> [kind |-> "shown", listing |-> got[h]]
      [] pc[h] \in {"putOld", "putModify", "putAudit", "putDelete", "putBump"} ->
             [kind |-> "updating", dn |-> target[h], stored |-> wrote[h]]
      [] pc[h] = "putReread" -> [kind |-> "committed", dn |-> target[h]]
      [] pc[h] = "putDone" /\ ~last[h].ok -> [kind |-> "refused"]
      [] pc[h] = "putDone" /\ last[h].ok /\ seen[h] = None ->
             [kind |-> "unconfirmed"]
      [] pc[h] = "putDone" /\ last[h].ok /\ seen[h] # None ->
             [kind |-> "acknowledged", dn |-> target[h], record |-> seen[h]]
      [] OTHER -> [kind |-> "idle"]

Service == INSTANCE EmployeeService WITH
    Attrs <- EditableAttrs,
    committed <- promised[listVersion + 1],
    op <- [h \in Handlers |-> ServiceOp(h)]

\* Lists and updates behave as if there were no cache: each update takes effect
\* at one moment before its reply, or fails and promises nothing; each list
\* reply shows at least what was in effect when its request came, and the reply
\* to an update what is in effect when it is sent.  Restarts included.
\* (ListEmployeesHandler; UpdateEmployeeHandler, "Returns the updated employee
\* object on success")
ImplementsService == Service!Spec

\* What it rests on beside ListInv: an update whose modification failed goes
\* no further than its audit event and its reply.
FailureEnds ==
    \A h \in Handlers : ~last[h].ok => pc[h] \in {"putAudit", "putDone"}
=============================================================================
