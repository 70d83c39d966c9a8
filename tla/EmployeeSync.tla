---------------------------- MODULE EmployeeSync ----------------------------
(***************************************************************************)
(* POST /api/v1/sync: services/sync_service.go reads all employees over    *)
(* the one LDAP connection that main opened, writes them to the table      *)
(* employees in one transaction and keeps the result of the run.  Nothing  *)
(* keeps two runs apart but the table's write lock.                        *)
(*                                                                         *)
(* The search is not a snapshot, and it lists enabled accounts only.  Rows *)
(* are never deleted.  A run is named by the order in which runs started.  *)
(***************************************************************************)
EXTENDS ActiveDirectory

CONSTANTS
    Runners,     \* the goroutines serving sync requests
    None,
    SyncAttrs,   \* the attributes that change while syncs run
    MaxRuns,     \* bound: runs started
    MaxCrashes   \* bound: restarts of the process

ASSUME SyncAssumption ==
    /\ SyncAttrs \subseteq EditableAttrs
    /\ MaxRuns \in Nat /\ MaxCrashes \in Nat
    /\ None \notin Record /\ None \notin [Employees -> Record \cup {None}]
    /\ None \notin Nat /\ None \notin Runners

VARIABLES
    enabled,     \* the accounts the search filter lets through
    connected,   \* the LDAP connection is usable
    table,       \* the rows of the table employees
    tx,          \* the runner whose transaction is open, or None
    staged,      \* the table as that transaction sees it
    pc, id,      \* where each runner is, and the number of its run
    todo,        \* the entries it has still to read, or to write
    got,         \* what the search returned
    last,        \* syncService.last
    runs,        \* history: what each run knew when it started
    committed,   \* history: the runs that committed
    answered,    \* history: the runs answered since the last restart
    overtaken,   \* history: runs not yet answered after which an older one
                 \* committed
    whole,       \* history: the table the committed runs add up to
    crashes      \* history: restarts so far

runVars == <<pc, id, todo, got>>
ghostVars == <<runs, committed, answered, overtaken, whole, crashes>>
vars == <<ad, mods, enabled, connected, table, tx, staged, runVars, last,
          ghostVars>>

Rows == [Employees -> Record \cup {None}]
NoRows == [e \in Employees |-> None]

TypeOK ==
    /\ AdTypeOK
    /\ enabled \subseteq Employees /\ connected \in BOOLEAN
    /\ table \in Rows /\ whole \in Rows /\ staged \in Rows
    /\ tx \in Runners \cup {None}
    /\ pc \in [Runners -> {"idle", "fetch", "upsert", "write", "store",
                           "reply"}]
    /\ id \in [Runners -> Nat]
    /\ todo \in [Runners -> SUBSET Employees]
    /\ got \in [Runners -> Rows]
    /\ last \in Nat \cup {None}
    /\ runs \in Seq([base: Listing, prior: SUBSET Nat])
    /\ {committed, answered, overtaken} \subseteq SUBSET Nat
    /\ crashes \in Nat

Init ==
    /\ AdInit
    /\ enabled = Employees /\ connected = TRUE
    /\ table = NoRows /\ whole = NoRows /\ staged = NoRows
    /\ tx = None
    /\ pc = [r \in Runners |-> "idle"] /\ id = [r \in Runners |-> 0]
    /\ todo = [r \in Runners |-> {}] /\ got = [r \in Runners |-> NoRows]
    /\ last = None
    /\ runs = <<>> /\ committed = {} /\ answered = {} /\ overtaken = {}
    /\ crashes = 0

Goto(r, label) == pc' = [pc EXCEPT ![r] = label]

Ends(r) ==
    /\ Goto(r, "idle")
    /\ id' = [id EXCEPT ![r] = 0]
    /\ todo' = [todo EXCEPT ![r] = {}]
    /\ got' = [got EXCEPT ![r] = NoRows]

-----------------------------------------------------------------------------
Start(r) ==
    /\ pc[r] = "idle" /\ Len(runs) < MaxRuns
    /\ Goto(r, "fetch")
    /\ id' = [id EXCEPT ![r] = Len(runs) + 1]
    /\ todo' = [todo EXCEPT ![r] = Employees]
    /\ runs' = Append(runs, [base |-> ad, prior |-> answered])
    /\ UNCHANGED <<ad, mods, enabled, connected, table, tx, staged, got, last,
                   committed, answered, overtaken, whole, crashes>>

\* SyncEmployees, one entry of the paged search.
FetchEntry(r, e) ==
    /\ pc[r] = "fetch" /\ connected /\ e \in todo[r]
    /\ got' = [got EXCEPT ![r][e] = IF e \in enabled THEN ad[e] ELSE None]
    /\ todo' = [todo EXCEPT ![r] = @ \ {e}]
    /\ Goto(r, IF todo[r] = {e} THEN "upsert" ELSE "fetch")
    /\ UNCHANGED <<ad, mods, enabled, connected, table, tx, staged, id, last,
                   ghostVars>>

\* The search fails.  When the connection is gone it is gone for good.
FetchFails(r) ==
    /\ pc[r] = "fetch"
    /\ connected' \in {FALSE, connected}
    /\ Ends(r)
    /\ UNCHANGED <<ad, mods, enabled, table, tx, staged, last, ghostVars>>

-----------------------------------------------------------------------------
(* Upsert *)

Found(r) == {e \in Employees : got[r][e] # None}

\* Only one transaction writes; another waits, or fails.
BeginTx(r) ==
    /\ pc[r] = "upsert" /\ tx = None
    /\ tx' = r
    /\ staged' = table
    /\ todo' = [todo EXCEPT ![r] = Found(r)]
    /\ Goto(r, "write")
    /\ UNCHANGED <<ad, mods, enabled, connected, table, id, got, last,
                   ghostVars>>

\* Mutant: each row is written outside the transaction.
UpsertRowAtOnce(r, e) ==
    /\ pc[r] = "write" /\ e \in todo[r]
    /\ staged' = [staged EXCEPT ![e] = got[r][e]]
    /\ table' = [table EXCEPT ![e] = got[r][e]]
    /\ todo' = [todo EXCEPT ![r] = @ \ {e}]
    /\ UNCHANGED <<ad, mods, enabled, connected, tx, pc, id, got, last,
                   ghostVars>>

\* Mutant: ON CONFLICT DO NOTHING.
UpsertRowIgnore(r, e) ==
    /\ pc[r] = "write" /\ e \in todo[r]
    /\ staged' = [staged EXCEPT ![e] = IF @ = None THEN got[r][e] ELSE @]
    /\ todo' = [todo EXCEPT ![r] = @ \ {e}]
    /\ UNCHANGED <<ad, mods, enabled, connected, table, tx, pc, id, got, last,
                   ghostVars>>

UpsertRow(r, e) ==
    /\ pc[r] = "write" /\ e \in todo[r]
    /\ staged' = [staged EXCEPT ![e] = got[r][e]]
    /\ todo' = [todo EXCEPT ![r] = @ \ {e}]
    /\ UNCHANGED <<ad, mods, enabled, connected, table, tx, pc, id, got, last,
                   ghostVars>>

\* The committed runs that started after r are no longer the newest rows.
Commit(r) ==
    /\ pc[r] = "write" /\ todo[r] = {}
    /\ table' = staged
    /\ whole' = [e \in Employees |-> IF e \in Found(r) THEN got[r][e]
                                                      ELSE whole[e]]
    /\ overtaken' = overtaken \cup
          {id[g] : g \in {g \in Runners : pc[g] \in {"store", "reply"} /\
                                          id[g] > id[r]}}
    /\ committed' = committed \cup {id[r]}
    /\ tx' = None /\ staged' = NoRows
    /\ Goto(r, "store")
    /\ UNCHANGED <<ad, mods, enabled, connected, id, todo, got, last, runs,
                   answered, crashes>>

\* Mutant: no Rollback is deferred.
UpsertFailsOpen(r) ==
    /\ pc[r] \in {"upsert", "write"}
    /\ Ends(r)
    /\ UNCHANGED <<ad, mods, enabled, connected, table, tx, staged, last,
                   ghostVars>>

\* Mutant: the error of Upsert is logged and the result is stored.
UpsertFailsUnnoticed(r) ==
    /\ pc[r] \in {"upsert", "write"}
    /\ tx' = IF tx = r THEN None ELSE tx
    /\ staged' = IF tx = r THEN NoRows ELSE staged
    /\ Goto(r, "store")
    /\ UNCHANGED <<ad, mods, enabled, connected, table, id, todo, got, last,
                   ghostVars>>

\* An error, a lock held by another, or a client that has gone: the deferred
\* Rollback undoes what was written.
UpsertFails(r) ==
    /\ pc[r] \in {"upsert", "write"}
    /\ tx' = IF tx = r THEN None ELSE tx
    /\ staged' = IF tx = r THEN NoRows ELSE staged
    /\ Ends(r)
    /\ UNCHANGED <<ad, mods, enabled, connected, table, last, ghostVars>>

StoreLast(r) ==
    /\ pc[r] = "store"
    /\ last' = id[r]
    /\ Goto(r, "reply")
    /\ UNCHANGED <<ad, mods, enabled, connected, table, tx, staged, id, todo,
                   got, ghostVars>>

Reply(r) ==
    /\ pc[r] = "reply"
    /\ answered' = answered \cup {id[r]}
    /\ overtaken' = overtaken \ {id[r]}
    /\ Ends(r)
    /\ UNCHANGED <<ad, mods, enabled, connected, table, tx, staged, last,
                   runs, committed, whole, crashes>>

-----------------------------------------------------------------------------
\* Administrators edit entries, and disable and enable accounts.
Edit(e, a) ==
    /\ OutsideEdit(e, a)
    /\ UNCHANGED <<enabled, connected, table, tx, staged, runVars, last,
                   ghostVars>>

Toggle(e) ==
    /\ enabled' = IF e \in enabled THEN enabled \ {e} ELSE enabled \cup {e}
    /\ UNCHANGED <<ad, mods, connected, table, tx, staged, runVars, last,
                   ghostVars>>

\* An open transaction is rolled back; main opens a new connection.
Crash ==
    /\ crashes < MaxCrashes
    /\ crashes' = crashes + 1
    /\ connected' = TRUE
    /\ tx' = None /\ staged' = NoRows
    /\ pc' = [r \in Runners |-> "idle"] /\ id' = [r \in Runners |-> 0]
    /\ todo' = [r \in Runners |-> {}] /\ got' = [r \in Runners |-> NoRows]
    /\ last' = None /\ answered' = {} /\ overtaken' = {}
    /\ UNCHANGED <<ad, mods, enabled, table, runs, committed, whole>>

Step(r) ==
    \/ FetchFails(r) \/ BeginTx(r) \/ Commit(r) \/ UpsertFails(r)
    \/ StoreLast(r) \/ Reply(r)
    \/ \E e \in Employees : FetchEntry(r, e) \/ UpsertRow(r, e)

Next ==
    \/ \E r \in Runners : Start(r) \/ Step(r)
    \/ \E e \in Employees : Toggle(e) \/ \E a \in SyncAttrs : Edit(e, a)
    \/ Crash

Spec == Init /\ [][Next]_vars

-----------------------------------------------------------------------------
(* Properties *)

\* The table is what the committed runs add up to, each of them all or
\* nothing: no row comes from a run that failed, was rolled back or died, and
\* none of a committed run is missing.  (employeeRepo.Upsert)
TableIsWhole == table = whole

\* What it rests on: the lock is held by the runner that is writing and by
\* nobody else, whichever way a run ends, and its transaction sees the table
\* with the rows written so far on top.
LockIsHeld == \A r \in Runners : tx = r <=> pc[r] = "write"

StagedIsTable ==
    \A r \in Runners : pc[r] = "write" =>
        /\ todo[r] \subseteq Found(r)
        /\ \A e \in Employees :
              staged[e] = IF e \in Found(r) \ todo[r] THEN got[r][e]
                                                      ELSE table[e]

\* The table and its lock.
TableInv == TypeOK /\ LockIsHeld /\ StagedIsTable /\ TableIsWhole

\* When a sync is answered, and from its commit on, the table shows every
\* account it listed at least as it was when the sync was asked for, unless a
\* sync that started earlier committed later.
\* (syncService.Run, "Triggers an immediate full sync and blocks until it
\* completes")
AnsweredSyncIsVisible ==
    \A r \in Runners : pc[r] \in {"store", "reply"} /\ id[r] \notin overtaken =>
        \A e \in Found(r) : \A a \in EditableAttrs :
            table[e][a] >= runs[id[r]].base[e][a]

\* LastResult names a run that committed, none that an answered run started
\* after, and there is one as soon as a run is answered.
\* (syncService.LastResult; runs that overlap may store in either order)
LastResultIsRecent ==
    /\ last # None => last \in committed
    /\ answered # {} => last # None
    /\ \A q \in answered : last \notin runs[q].prior

\* What it rests on: a run under way has a number of its own, not answered yet,
\* and knows only runs that were answered; so none of them is ever the last
\* result of a run that has stored its own.  And a run that stores has committed.
Underway(r) == pc[r] # "idle"

RunsAreTold ==
    /\ answered \subseteq 1..Len(runs)
    /\ \A q \in answered : runs[q].prior \subseteq answered
    /\ \A r \in Runners : Underway(r) =>
          /\ id[r] \in (1..Len(runs)) \ answered
          /\ runs[id[r]].prior \subseteq answered
          /\ \A g \in Runners : Underway(g) /\ id[g] = id[r] => g = r
    /\ \A r \in Runners : pc[r] \in {"store", "reply"} => id[r] \in committed
    /\ \A r \in Runners : pc[r] = "reply" =>
          last # None /\ last \notin runs[id[r]].prior

\* What the answered rows rest on: the directory only moves forward, so a run
\* that started later knows at least as much, and what a run has read is no
\* older than what it knew.
NotOlder(new, old) ==
    \A e \in Employees : \A a \in EditableAttrs : new[e][a] >= old[e][a]

ReadsAreFresh(r) ==
    \A e \in Found(r) : \A a \in EditableAttrs :
        got[r][e][a] >= runs[id[r]].base[e][a]

KnowledgeGrows ==
    /\ \A e \in Employees : \A a \in EditableAttrs : ad[e][a] <= Len(mods)
    /\ \A q \in 1..Len(runs) : NotOlder(ad, runs[q].base)
    /\ \A q \in 1..Len(runs) : \A p \in 1..q :
          NotOlder(runs[q].base, runs[p].base)
    /\ \A r \in Runners :
          IF Underway(r) THEN ReadsAreFresh(r) ELSE Found(r) = {}
    /\ \A r \in Runners : pc[r] \in {"store", "reply"} /\ id[r] \notin overtaken =>
          \A e \in Found(r) : table[e] # None

\* Everything above, together: the lock, the table and the results.
\* (syncService.Run)
SyncInv ==
    /\ TableInv /\ RunsAreTold /\ LastResultIsRecent
    /\ KnowledgeGrows /\ AnsweredSyncIsVisible
=============================================================================
