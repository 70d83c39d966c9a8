------------------------- MODULE EmployeeSyncProofs -------------------------
(***************************************************************************)
(* What TLAPS proves of EmployeeSync for any employees, runners, runs and  *)
(* restarts: the table is always what the committed runs add up to, it     *)
(* shows what an answered run listed, and the last result is none that an  *)
(* answered run started after.                                             *)
(***************************************************************************)
EXTENDS EmployeeSync, TLAPS

USE SyncAssumption, MaxModsAssumption
USE DEF Goto, Ends

LEMMA NoRowsAreRows == NoRows \in Rows
  BY DEF NoRows, Rows

LEMMA TableInit == Init => TableInv
  <1> SUFFICES ASSUME Init PROVE TableInv
    OBVIOUS
  <1>1. AdTypeOK
    <2>1. ad \in Listing
      BY DEF Init, AdInit, Listing, Record
    <2> QED
      BY <2>1 DEF Init, AdInit, AdTypeOK
  <1>2. TypeOK
    BY <1>1, NoRowsAreRows DEF Init, TypeOK
  <1> QED
    BY <1>2 DEF TableInv, Init, LockIsHeld, StagedIsTable, TableIsWhole

\* An edit of the directory keeps its type.
LEMMA EditKeepsAd ==
  ASSUME AdTypeOK, NEW e \in Employees, NEW a \in SyncAttrs, OutsideEdit(e, a)
  PROVE  AdTypeOK'
  <1> USE DEF OutsideEdit, Store
  <1>1. a \in EditableAttrs /\ Len(mods) + 1 \in Nat
    BY DEF AdTypeOK
  <1>2. ad' \in Listing
    BY <1>1 DEF AdTypeOK, Listing, Record
  <1>3. ad[e][a] \in Nat
    BY <1>1 DEF AdTypeOK, Listing, Record
  <1>4. [dn |-> e, attr |-> a, old |-> ad[e][a], by |-> "outside"] \in Modification
    BY <1>1, <1>3 DEF Modification
  <1> QED
    BY <1>2, <1>4 DEF AdTypeOK

\* Steps that touch neither the transaction nor the table, and move a runner
\* that does not write between places where it does not write.
LEMMA Elsewhere ==
  ASSUME TableInv, UNCHANGED <<table, whole, tx, staged>>,
         \A r \in Runners : /\ pc'[r] = "write" <=> pc[r] = "write"
                            /\ pc[r] = "write" => todo'[r] = todo[r] /\ got'[r] = got[r]
  PROVE  (LockIsHeld /\ StagedIsTable /\ TableIsWhole)'
  BY DEF TableInv, LockIsHeld, StagedIsTable, TableIsWhole, Found

LEMMA StartKeeps == ASSUME TableInv, NEW r \in Runners, Start(r) PROVE TableInv'
  <1> USE DEF Start
  <1>1. TypeOK'
    <2>1. [base |-> ad, prior |-> answered] \in [base: Listing, prior: SUBSET Nat]
      BY DEF TableInv, TypeOK, AdTypeOK
    <2>2. Len(runs) + 1 \in Nat
      BY DEF TableInv, TypeOK
    <2> QED
      BY <2>1, <2>2 DEF TableInv, TypeOK, AdTypeOK
  <1> QED
    BY <1>1, Elsewhere DEF TableInv, TypeOK

LEMMA FetchEntryKeeps ==
  ASSUME TableInv, NEW r \in Runners, NEW e \in Employees, FetchEntry(r, e)
  PROVE  TableInv'
  <1> USE DEF FetchEntry, ghostVars
  <1>1. TypeOK'
    <2>1. ad[e] \in Record
      BY DEF TableInv, TypeOK, AdTypeOK, Listing
    <2>2. got' \in [Runners -> Rows]
      BY <2>1 DEF TableInv, TypeOK, Rows
    <2> QED
      BY <2>2 DEF TableInv, TypeOK, AdTypeOK
  <1>2. \A g \in Runners : g # r => got'[g] = got[g] /\ todo'[g] = todo[g] /\ pc'[g] = pc[g]
    BY DEF TableInv, TypeOK
  <1>3. pc[r] # "write" /\ pc'[r] # "write"
    BY DEF TableInv, TypeOK
  <1> QED
    BY <1>1, <1>2, <1>3, Elsewhere DEF TableInv

\* A run fails before its transaction, a result is stored or answered, or
\* somebody else acts.
LEMMA OthersKeep ==
  ASSUME TableInv,
         \/ \E r \in Runners : FetchFails(r) \/ StoreLast(r) \/ Reply(r)
         \/ \E e \in Employees : Toggle(e) \/ \E a \in SyncAttrs : Edit(e, a)
         \/ UNCHANGED vars
  PROVE  TableInv'
  <1> USE DEF ghostVars, runVars
  <1>1. ASSUME NEW r \in Runners, FetchFails(r) PROVE TableInv'
    <2> USE <1>1 DEF FetchFails
    <2>1. TypeOK'
      BY NoRowsAreRows DEF TableInv, TypeOK, AdTypeOK
    <2> QED
      BY <2>1, Elsewhere DEF TableInv, TypeOK
  <1>2. ASSUME NEW r \in Runners, StoreLast(r) PROVE TableInv'
    <2> USE <1>2 DEF StoreLast
    <2>1. TypeOK'
      BY DEF TableInv, TypeOK, AdTypeOK
    <2> QED
      BY <2>1, Elsewhere DEF TableInv, TypeOK
  <1>3. ASSUME NEW r \in Runners, Reply(r) PROVE TableInv'
    <2> USE <1>3 DEF Reply
    <2>1. TypeOK'
      BY NoRowsAreRows DEF TableInv, TypeOK, AdTypeOK
    <2> QED
      BY <2>1, Elsewhere DEF TableInv, TypeOK
  <1>4. ASSUME NEW e \in Employees, Toggle(e) PROVE TableInv'
    <2> USE <1>4 DEF Toggle
    <2>1. TypeOK'
      BY DEF TableInv, TypeOK, AdTypeOK
    <2> QED
      BY <2>1, Elsewhere DEF TableInv
  <1>5. ASSUME NEW e \in Employees, NEW a \in SyncAttrs, Edit(e, a) PROVE TableInv'
    <2> USE <1>5 DEF Edit
    <2>1. AdTypeOK'
      BY EditKeepsAd DEF TableInv, TypeOK
    <2>2. TypeOK'
      BY <2>1 DEF TableInv, TypeOK
    <2> QED
      BY <2>2, Elsewhere DEF TableInv
  <1>6. CASE UNCHANGED vars
    <2> USE <1>6 DEF vars
    <2>1. TypeOK'
      BY DEF TableInv, TypeOK, AdTypeOK
    <2> QED
      BY <2>1, Elsewhere DEF TableInv
  <1> QED
    BY <1>1, <1>2, <1>3, <1>4, <1>5, <1>6

\* The transaction begins with the table, and nothing written.
LEMMA BeginTxKeeps == ASSUME TableInv, NEW r \in Runners, BeginTx(r) PROVE TableInv'
  <1> USE DEF BeginTx, ghostVars
  <1>1. TypeOK'
    BY DEF TableInv, TypeOK, AdTypeOK, Found
  <1>2. \A g \in Runners : pc[g] # "write"
    BY DEF TableInv, TypeOK, LockIsHeld
  <1>3. LockIsHeld'
    BY <1>2 DEF TableInv, TypeOK, LockIsHeld
  <1>4. StagedIsTable'
    BY <1>2 DEF TableInv, TypeOK, StagedIsTable, Found
  <1> QED
    BY <1>1, <1>3, <1>4 DEF TableInv, TableIsWhole

LEMMA UpsertRowKeeps ==
  ASSUME TableInv, NEW r \in Runners, NEW e \in Employees, UpsertRow(r, e)
  PROVE  TableInv'
  <1> USE DEF UpsertRow, ghostVars
  <1>1. TypeOK'
    <2>1. got[r][e] \in Record \cup {None}
      BY DEF TableInv, TypeOK, Rows
    <2>2. staged' \in Rows
      BY <2>1 DEF TableInv, TypeOK, Rows
    <2> QED
      BY <2>2 DEF TableInv, TypeOK, AdTypeOK
  <1>2. \A g \in Runners : pc[g] = "write" => g = r
    BY DEF TableInv, LockIsHeld
  <1>3. StagedIsTable'
    BY <1>2 DEF TableInv, TypeOK, StagedIsTable, Found, Rows
  <1> QED
    BY <1>1, <1>3 DEF TableInv, LockIsHeld, TableIsWhole

\* A commit adds the whole run to the table.
LEMMA CommitKeeps == ASSUME TableInv, NEW r \in Runners, Commit(r) PROVE TableInv'
  <1> USE DEF Commit
  <1>1. whole' \in Rows
    BY DEF TableInv, TypeOK, Rows, Found
  <1>2. TypeOK'
    <2>1. TypeOK
      BY DEF TableInv
    <2>2. pc' \in [Runners -> {"idle", "fetch", "upsert", "write", "store", "reply"}]
      BY <2>1 DEF TypeOK
    <2>3. overtaken' \subseteq Nat
      <3> DEFINE passed == {id[g] : g \in {g \in Runners : pc[g] \in {"store", "reply"} /\
                                                            id[g] > id[r]}}
      <3>1. \A g \in Runners : id[g] \in Nat
        BY <2>1 DEF TypeOK
      <3>2. passed \subseteq Nat
        BY <3>1
      <3>3. overtaken' = overtaken \cup passed
        OBVIOUS
      <3>4. overtaken \subseteq Nat
        BY <2>1 DEF TypeOK
      <3> HIDE DEF passed
      <3> QED
        BY <3>2, <3>3, <3>4
    <2>4. table' \in Rows /\ staged' \in Rows /\ tx' \in Runners \cup {None}
      BY <2>1, NoRowsAreRows DEF TypeOK
    <2>5. AdTypeOK'
      BY <2>1 DEF TypeOK, AdTypeOK
    <2> QED
      BY <1>1, <2>1, <2>2, <2>3, <2>4, <2>5 DEF TypeOK
  <1>3. \A g \in Runners : pc'[g] # "write"
    BY DEF TableInv, TypeOK, LockIsHeld
  <1>4. TableIsWhole'
    <2>1. \A e \in Employees : staged[e] = whole'[e]
      BY DEF TableInv, StagedIsTable, TableIsWhole, TypeOK, Rows
    <2> QED
      BY <1>1, <2>1 DEF TableInv, TypeOK, Rows, TableIsWhole
  <1>5. LockIsHeld' /\ StagedIsTable'
    BY <1>3 DEF LockIsHeld, StagedIsTable
  <1> QED
    BY <1>2, <1>4, <1>5 DEF TableInv

\* A run that fails leaves the table, and gives up the lock it holds.
LEMMA UpsertFailsKeeps ==
  ASSUME TableInv, NEW r \in Runners, UpsertFails(r) PROVE TableInv'
  <1> USE DEF UpsertFails, ghostVars
  <1>1. TypeOK'
    BY NoRowsAreRows DEF TableInv, TypeOK, AdTypeOK
  <1>2. /\ pc'[r] = "idle"
        /\ \A g \in Runners : g # r => /\ pc'[g] = pc[g] /\ todo'[g] = todo[g]
                                       /\ got'[g] = got[g]
    BY DEF TableInv, TypeOK
  <1>3. LockIsHeld'
    BY <1>2 DEF TableInv, LockIsHeld
  <1>4. StagedIsTable'
    BY <1>2 DEF TableInv, LockIsHeld, StagedIsTable, Found
  <1> QED
    BY <1>1, <1>3, <1>4 DEF TableInv, TableIsWhole

LEMMA CrashKeeps == ASSUME TableInv, Crash PROVE TableInv'
  <1> USE DEF Crash
  <1>1. TypeOK'
    BY NoRowsAreRows DEF TableInv, TypeOK, AdTypeOK
  <1> QED
    BY <1>1 DEF TableInv, LockIsHeld, StagedIsTable, TableIsWhole

LEMMA TableNext == TableInv /\ [Next]_vars => TableInv'
  BY StartKeeps, FetchEntryKeeps, OthersKeep, BeginTxKeeps, UpsertRowKeeps,
     CommitKeeps, UpsertFailsKeeps, CrashKeeps DEF Next, Step

\* Steps that start, answer and store nothing, and end no life of the process.
LEMMA NothingTold ==
  ASSUME RunsAreTold, LastResultIsRecent, UNCHANGED <<answered, runs, last>>,
         committed \subseteq committed',
         \A r \in Runners : Underway(r)' =>
            Underway(r) /\ id'[r] = id[r] /\ (pc'[r] = "reply" => pc[r] = "reply"),
         \A r \in Runners : pc'[r] = "store" => id'[r] \in committed'
  PROVE  RunsAreTold' /\ LastResultIsRecent'
  BY DEF RunsAreTold, LastResultIsRecent, Underway

\* A run that starts gets the next number, and knows the runs answered so far.
LEMMA StartTells ==
  ASSUME SyncInv, NEW r \in Runners, Start(r)
  PROVE  RunsAreTold' /\ LastResultIsRecent'
  <1> USE DEF Start
  <1>1. /\ Len(runs) \in Nat /\ Len(runs') = Len(runs) + 1
        /\ runs'[Len(runs) + 1].prior = answered
        /\ \A q \in 1..Len(runs) : runs'[q] = runs[q]
    BY DEF SyncInv, TableInv, TypeOK
  <1>2. /\ id'[r] = Len(runs) + 1 /\ pc'[r] = "fetch"
        /\ \A g \in Runners : g # r => id'[g] = id[g] /\ pc'[g] = pc[g]
    BY DEF SyncInv, TableInv, TypeOK
  <1>3. \A q \in answered : q \in 1..Len(runs) /\ runs'[q] = runs[q]
    BY <1>1 DEF SyncInv, RunsAreTold
  <1>4. \A g \in Runners : g # r /\ Underway(g)' =>
          /\ Underway(g) /\ id'[g] \in (1..Len(runs)) \ answered
          /\ runs'[id'[g]] = runs[id[g]]
    BY <1>1, <1>2 DEF SyncInv, RunsAreTold, Underway
  <1>5. RunsAreTold'
    BY <1>1, <1>2, <1>3, <1>4 DEF SyncInv, RunsAreTold, Underway
  <1> QED
    BY <1>3, <1>5 DEF SyncInv, LastResultIsRecent

\* What is stored is the number of a run that nobody was told of.
LEMMA StoreTells ==
  ASSUME SyncInv, NEW r \in Runners, StoreLast(r)
  PROVE  RunsAreTold' /\ LastResultIsRecent'
  <1> USE DEF StoreLast, ghostVars
  <1>1. /\ last' = id[r] /\ id' = id /\ Underway(r) /\ pc'[r] = "reply"
        /\ \A g \in Runners : g # r => pc'[g] = pc[g]
    BY DEF SyncInv, TableInv, TypeOK, Underway
  <1>2. id[r] \in Nat /\ id[r] \notin answered /\ id[r] # None
    BY <1>1 DEF SyncInv, TableInv, TypeOK, RunsAreTold
  <1> QED
    BY <1>1, <1>2 DEF SyncInv, RunsAreTold, LastResultIsRecent, Underway

LEMMA ReplyTells ==
  ASSUME SyncInv, NEW r \in Runners, Reply(r)
  PROVE  RunsAreTold' /\ LastResultIsRecent'
  <1> USE DEF Reply
  <1>1. /\ Underway(r) /\ ~Underway(r)' /\ answered' = answered \cup {id[r]}
        /\ \A g \in Runners : g # r => id'[g] = id[g] /\ pc'[g] = pc[g]
    BY DEF SyncInv, TableInv, TypeOK, Underway
  <1>2. \A g \in Runners : Underway(g)' => g # r /\ Underway(g) /\ id[g] # id[r]
    BY <1>1 DEF SyncInv, RunsAreTold, Underway
  <1>3. /\ id[r] \in (1..Len(runs)) \ answered /\ runs[id[r]].prior \subseteq answered
        /\ last # None /\ last \notin runs[id[r]].prior
        /\ runs' = runs /\ last' = last
    BY <1>1 DEF SyncInv, RunsAreTold
  <1>4. /\ answered' \subseteq 1..Len(runs)
        /\ \A q \in answered' : runs[q].prior \subseteq answered'
    BY <1>1, <1>3 DEF SyncInv, RunsAreTold
  <1>5. \A g \in Runners : Underway(g)' =>
          /\ id'[g] \in (1..Len(runs)) \ answered'
          /\ runs[id'[g]].prior \subseteq answered'
          /\ \A k \in Runners : Underway(k)' /\ id'[k] = id'[g] => k = g
    BY <1>1, <1>2 DEF SyncInv, RunsAreTold
  <1>6. \A g \in Runners : pc'[g] = "reply" => last \notin runs[id'[g]].prior
    BY <1>1, <1>2 DEF SyncInv, RunsAreTold, Underway
  <1>7. RunsAreTold'
    <2>1. \A g \in Runners : pc'[g] \in {"store", "reply"} => id'[g] \in committed'
      BY <1>1, <1>2 DEF SyncInv, RunsAreTold, Underway
    <2>2. \A g \in Runners : pc'[g] = "reply" => last' # None
      BY <1>3
    <2> QED
      BY <1>3, <1>4, <1>5, <1>6, <2>1, <2>2 DEF RunsAreTold
  <1>8. \A q \in answered \cup {id[r]} : last \notin runs[q].prior
    BY <1>3 DEF SyncInv, LastResultIsRecent
  <1>9. LastResultIsRecent'
    BY <1>1, <1>3, <1>8 DEF SyncInv, LastResultIsRecent
  <1> QED
    BY <1>7, <1>9

LEMMA CrashTells ==
  ASSUME SyncInv, Crash
  PROVE  RunsAreTold' /\ LastResultIsRecent'
  BY DEF Crash, RunsAreTold, LastResultIsRecent, Underway

LEMMA RunsNext == SyncInv /\ [Next]_vars => RunsAreTold' /\ LastResultIsRecent'
  <1> SUFFICES ASSUME SyncInv, [Next]_vars
               PROVE  RunsAreTold' /\ LastResultIsRecent'
    OBVIOUS
  <1> USE DEF ghostVars, runVars, Underway
  <1>1. ASSUME NEW r \in Runners, NEW e \in Employees, FetchEntry(r, e)
        PROVE  RunsAreTold' /\ LastResultIsRecent'
    BY <1>1, NothingTold DEF FetchEntry, SyncInv, TableInv, TypeOK, RunsAreTold
  <1>2. ASSUME NEW r \in Runners, FetchFails(r) \/ UpsertFails(r)
        PROVE  RunsAreTold' /\ LastResultIsRecent'
    <2>1. \A g \in Runners : Underway(g)' => pc'[g] = pc[g] /\ id'[g] = id[g]
      BY <1>2 DEF FetchFails, UpsertFails, SyncInv, TableInv, TypeOK
    <2> QED
      BY <1>2, <2>1, NothingTold DEF FetchFails, UpsertFails, SyncInv, RunsAreTold
  <1>3. ASSUME NEW r \in Runners, BeginTx(r) \/ Commit(r)
        PROVE  RunsAreTold' /\ LastResultIsRecent'
    <2>1. \A g \in Runners : Underway(g)' =>
             Underway(g) /\ id'[g] = id[g] /\ (pc'[g] = "reply" => pc[g] = "reply")
      BY <1>3 DEF BeginTx, Commit, SyncInv, TableInv, TypeOK
    <2>2. \A g \in Runners : pc'[g] = "store" => id'[g] \in committed'
      BY <1>3 DEF BeginTx, Commit, SyncInv, TableInv, TypeOK, RunsAreTold
    <2> QED
      BY <1>3, <2>1, <2>2, NothingTold DEF BeginTx, Commit, SyncInv
  <1>4. ASSUME NEW r \in Runners, NEW e \in Employees, UpsertRow(r, e)
        PROVE  RunsAreTold' /\ LastResultIsRecent'
    BY <1>4, NothingTold DEF UpsertRow, SyncInv, RunsAreTold
  <1>5. ASSUME NEW e \in Employees, Toggle(e) \/ \E a \in SyncAttrs : Edit(e, a)
        PROVE  RunsAreTold' /\ LastResultIsRecent'
    BY <1>5, NothingTold DEF Toggle, Edit, SyncInv, RunsAreTold
  <1>6. CASE UNCHANGED vars
    BY <1>6, NothingTold DEF vars, SyncInv, RunsAreTold
  <1> QED
    BY <1>1, <1>2, <1>3, <1>4, <1>5, <1>6, StartTells, StoreTells, ReplyTells,
       CrashTells DEF Next, Step

\* Values are compared as numbers.
LEMMA ValuesAreNumbers ==
  ASSUME TypeOK
  PROVE  /\ \A e \in Employees, a \in EditableAttrs : ad[e][a] \in Nat
         /\ \A q \in 1..Len(runs), e \in Employees, a \in EditableAttrs :
               runs[q].base[e][a] \in Nat
         /\ \A r \in Runners, e \in Employees, a \in EditableAttrs :
               got[r][e] # None => got[r][e][a] \in Nat
         /\ \A e \in Employees, a \in EditableAttrs :
               table[e] # None => table[e][a] \in Nat
  <1>1. \A q \in 1..Len(runs) : runs[q].base \in Listing
    <2> DEFINE Known == [base: Listing, prior: SUBSET Nat]
    <2>1. runs \in Seq(Known)
      BY DEF TypeOK
    <2> HIDE DEF Known
    <2>2. \A q \in 1..Len(runs) : runs[q] \in Known
      BY <2>1
    <2> QED
      BY <2>2 DEF Known
  <1>2. \A r \in Runners, e \in Employees : got[r][e] \in Record \cup {None}
    BY DEF TypeOK, Rows
  <1>3. \A e \in Employees : table[e] \in Record \cup {None}
    BY DEF TypeOK, Rows
  <1>4. ad \in Listing
    BY DEF TypeOK, AdTypeOK
  <1> QED
    BY <1>1, <1>2, <1>3, <1>4 DEF Listing, Record

\* No step takes the directory back.
LEMMA DirectoryMovesOn ==
  ASSUME TypeOK, KnowledgeGrows, [Next]_vars
  PROVE  \A e \in Employees : \A a \in EditableAttrs :
            ad'[e][a] \in Nat /\ ad'[e][a] >= ad[e][a] /\ ad'[e][a] <= Len(mods')
  <1>0. \A e \in Employees : \A a \in EditableAttrs :
            ad[e][a] \in Nat /\ ad[e][a] <= Len(mods)
    BY ValuesAreNumbers DEF KnowledgeGrows
  <1>1. CASE UNCHANGED <<ad, mods>>
    BY <1>0, <1>1
  <1>2. ASSUME NEW e \in Employees, NEW a \in SyncAttrs, Edit(e, a)
        PROVE  \A f \in Employees : \A b \in EditableAttrs :
                  /\ ad'[f][b] \in Nat
                  /\ ad'[f][b] >= ad[f][b] /\ ad'[f][b] <= Len(mods')
    <2> USE <1>2 DEF Edit, OutsideEdit, Store
    <2>1. Len(mods) \in Nat /\ Len(mods') = Len(mods) + 1
      BY DEF TypeOK, AdTypeOK
    <2>2. ad \in [Employees -> [EditableAttrs -> Nat]]
      BY DEF TypeOK, AdTypeOK, Listing, Record
    <2>3. \A f \in Employees : \A b \in EditableAttrs :
             ad'[f][b] = IF f = e /\ b = a THEN Len(mods) + 1 ELSE ad[f][b]
      BY <2>2
    <2> QED
      BY <1>0, <2>1, <2>3
  <1>3. \/ UNCHANGED <<ad, mods>>
        \/ \E e \in Employees : \E a \in SyncAttrs : Edit(e, a)
    BY DEF Next, Step, vars, Start, FetchEntry, FetchFails, BeginTx, UpsertRow,
           Commit, UpsertFails, StoreLast, Reply, Toggle, Crash
  <1> QED
    BY <1>1, <1>2, <1>3

\* Steps that neither start a run nor read or commit: what the runs under way
\* have read is what it was, and no run becomes the newest again.
LEMMA KnowledgeStays ==
  ASSUME SyncInv, TypeOK', [Next]_vars, UNCHANGED <<runs, table>>,
         \A g \in Runners : ~Underway(g)' => 
            got'[g] = NoRows \/ (got'[g] = got[g] /\ ~Underway(g)),
         \A g \in Runners : Underway(g)' =>
            /\ Underway(g) /\ id'[g] = id[g] /\ got'[g] = got[g]
            /\ pc'[g] \in {"store", "reply"} =>
                  /\ pc[g] \in {"store", "reply"}
                  /\ id[g] \in overtaken => id[g] \in overtaken'
  PROVE  KnowledgeGrows' /\ AnsweredSyncIsVisible'
  <1>1. TypeOK /\ KnowledgeGrows /\ AnsweredSyncIsVisible
    BY DEF SyncInv, TableInv
  <1>2. \A e \in Employees : \A a \in EditableAttrs :
            ad'[e][a] \in Nat /\ ad'[e][a] >= ad[e][a] /\ ad'[e][a] <= Len(mods')
    BY <1>1, DirectoryMovesOn
  <1>3. \A q \in 1..Len(runs) : NotOlder(ad', runs[q].base)
    BY <1>1, <1>2, ValuesAreNumbers DEF KnowledgeGrows, NotOlder
  <1>4. \A r \in Runners :
           IF Underway(r)' THEN ReadsAreFresh(r)' ELSE Found(r)' = {}
    BY <1>1 DEF KnowledgeGrows, ReadsAreFresh, Found, NoRows
  <1>5. \A r \in Runners : pc'[r] \in {"store", "reply"} /\ id'[r] \notin overtaken' =>
           /\ pc[r] \in {"store", "reply"} /\ id[r] \notin overtaken
           /\ id'[r] = id[r] /\ got'[r] = got[r]
    BY DEF Underway
  <1>6. KnowledgeGrows'
    BY <1>1, <1>2, <1>3, <1>4, <1>5 DEF KnowledgeGrows, Found, NotOlder
  <1>7. AnsweredSyncIsVisible'
    BY <1>1, <1>5 DEF AnsweredSyncIsVisible, Found
  <1> QED
    BY <1>6, <1>7

\* A run that starts knows the directory as it is, so at least what every run
\* before it knew.
LEMMA StartKnows ==
  ASSUME SyncInv, TypeOK', NEW r \in Runners, Start(r)
  PROVE  KnowledgeGrows' /\ AnsweredSyncIsVisible'
  <1> USE DEF Start
  <1>1. TypeOK /\ KnowledgeGrows /\ AnsweredSyncIsVisible /\ RunsAreTold
    BY DEF SyncInv, TableInv
  <1>2. /\ Len(runs) \in Nat /\ Len(runs') = Len(runs) + 1
        /\ runs'[Len(runs) + 1].base = ad
        /\ \A q \in 1..Len(runs) : runs'[q] = runs[q]
    BY <1>1 DEF TypeOK
  <1>3. /\ id'[r] = Len(runs) + 1 /\ pc'[r] = "fetch" /\ got' = got
        /\ \A g \in Runners : g # r => id'[g] = id[g] /\ pc'[g] = pc[g]
    BY <1>1 DEF TypeOK
  <1>4. \A g \in Runners : g # r /\ Underway(g)' =>
           Underway(g) /\ id[g] \in 1..Len(runs) /\ runs'[id'[g]] = runs[id[g]]
    BY <1>1, <1>2, <1>3 DEF RunsAreTold, Underway
  <1>5. \A q \in 1..Len(runs') : NotOlder(ad', runs'[q].base)
    BY <1>1, <1>2, ValuesAreNumbers DEF KnowledgeGrows, NotOlder
  <1>6. \A q \in 1..Len(runs') : \A p \in 1..q : NotOlder(runs'[q].base, runs'[p].base)
    <2> SUFFICES ASSUME NEW q \in 1..Len(runs'), NEW p \in 1..q
                 PROVE  NotOlder(runs'[q].base, runs'[p].base)
      OBVIOUS
    <2>1. CASE q = Len(runs) + 1
      <3>1. p \in 1..Len(runs')
        BY <1>2, <2>1
      <3> QED
        BY <1>2, <1>5, <2>1, <3>1
    <2>2. CASE q \in 1..Len(runs)
      <3>1. p \in 1..Len(runs)
        BY <1>2, <2>2
      <3>2. NotOlder(runs[q].base, runs[p].base)
        BY <1>1, <2>2 DEF KnowledgeGrows
      <3> QED
        BY <1>2, <2>2, <3>1, <3>2
    <2> QED
      BY <1>2, <2>1, <2>2
  <1>7. \A g \in Runners :
           IF Underway(g)' THEN ReadsAreFresh(g)' ELSE Found(g)' = {}
    <2> SUFFICES ASSUME NEW g \in Runners
                 PROVE  IF Underway(g)' THEN ReadsAreFresh(g)' ELSE Found(g)' = {}
      OBVIOUS
    <2>1. CASE g = r
      <3>1. Found(r)' = {}
        BY <1>1, <1>3 DEF KnowledgeGrows, Found, Underway
      <3> QED
        BY <2>1, <3>1 DEF ReadsAreFresh
    <2>2. CASE g # r
      BY <1>1, <1>3, <1>4, <2>2 DEF KnowledgeGrows, ReadsAreFresh, Found, Underway
    <2> QED
      BY <2>1, <2>2
  <1>8. KnowledgeGrows'
    BY <1>1, <1>3, <1>4, <1>5, <1>6, <1>7 DEF KnowledgeGrows, Found, Underway
  <1>9. AnsweredSyncIsVisible'
    BY <1>1, <1>3, <1>4 DEF AnsweredSyncIsVisible, Found, Underway
  <1> QED
    BY <1>8, <1>9

\* What a run reads is the directory as it is now.
LEMMA FetchKnows ==
  ASSUME SyncInv, TypeOK', NEW r \in Runners, NEW e \in Employees, FetchEntry(r, e)
  PROVE  KnowledgeGrows' /\ AnsweredSyncIsVisible'
  <1> USE DEF FetchEntry, ghostVars
  <1>1. TypeOK /\ KnowledgeGrows /\ AnsweredSyncIsVisible /\ RunsAreTold
    BY DEF SyncInv, TableInv
  <1>2. /\ pc[r] = "fetch" /\ pc'[r] \in {"fetch", "upsert"} /\ id' = id
        /\ \A g \in Runners : g # r => got'[g] = got[g] /\ pc'[g] = pc[g]
        /\ \A f \in Employees : f # e => got'[r][f] = got[r][f]
        /\ got'[r][e] \in {ad[e], None}
    BY <1>1 DEF TypeOK, Rows
  <1>3. id[r] \in 1..Len(runs) /\ Underway(r) /\ Underway(r)'
    BY <1>1, <1>2 DEF RunsAreTold, Underway
  <1>4. ReadsAreFresh(r)'
    <2>1. ReadsAreFresh(r) /\ NotOlder(ad, runs[id[r]].base)
      BY <1>1, <1>3 DEF KnowledgeGrows
    <2> QED
      BY <1>2, <2>1 DEF ReadsAreFresh, NotOlder, Found
  <1>5. \A g \in Runners :
           IF Underway(g)' THEN ReadsAreFresh(g)' ELSE Found(g)' = {}
    <2> SUFFICES ASSUME NEW g \in Runners
                 PROVE  IF Underway(g)' THEN ReadsAreFresh(g)' ELSE Found(g)' = {}
      OBVIOUS
    <2>1. CASE g = r
      BY <1>3, <1>4, <2>1
    <2>2. CASE g # r
      BY <1>1, <1>2, <2>2 DEF KnowledgeGrows, ReadsAreFresh, Found, Underway
    <2> QED
      BY <2>1, <2>2
  <1>6. KnowledgeGrows'
    BY <1>1, <1>2, <1>5 DEF KnowledgeGrows, Found
  <1>7. AnsweredSyncIsVisible'
    BY <1>1, <1>2 DEF AnsweredSyncIsVisible, Found
  <1> QED
    BY <1>6, <1>7

\* A commit shows what the run has read; the runs not overtaken by it started
\* before it, and knew no more.
LEMMA CommitKnows ==
  ASSUME SyncInv, TypeOK', NEW r \in Runners, Commit(r)
  PROVE  KnowledgeGrows' /\ AnsweredSyncIsVisible'
  <1> USE DEF Commit
  <1>1. /\ TypeOK /\ KnowledgeGrows /\ AnsweredSyncIsVisible /\ RunsAreTold
        /\ StagedIsTable
    BY DEF SyncInv, TableInv
  <1>2. /\ Underway(r) /\ id[r] \in 1..Len(runs) /\ ReadsAreFresh(r)
        /\ \A e \in Employees :
              table'[e] = IF e \in Found(r) THEN got[r][e] ELSE table[e]
    BY <1>1 DEF KnowledgeGrows, RunsAreTold, Underway, StagedIsTable
  <1>3. /\ pc'[r] = "store"
        /\ \A g \in Runners : g # r => pc'[g] = pc[g]
    BY <1>1 DEF TypeOK
  <1>4. \A g \in Runners : g # r /\ pc[g] \in {"store", "reply"} /\ id[g] \notin overtaken' =>
           /\ Underway(g) /\ id[g] \notin overtaken
           /\ id[g] \in 1..id[r] /\ id[g] \in 1..Len(runs)
    <2> SUFFICES ASSUME NEW g \in Runners, g # r, pc[g] \in {"store", "reply"},
                        id[g] \notin overtaken'
                 PROVE  /\ Underway(g) /\ id[g] \notin overtaken
                        /\ id[g] \in 1..id[r] /\ id[g] \in 1..Len(runs)
      OBVIOUS
    <2>1. ~(id[g] > id[r]) /\ id[g] \notin overtaken
      OBVIOUS
    <2>2. Underway(g) /\ id[g] \in 1..Len(runs)
      BY <1>1 DEF RunsAreTold, Underway
    <2> QED
      BY <1>2, <2>1, <2>2
  <1>5. ASSUME NEW g \in Runners, pc'[g] \in {"store", "reply"}, id'[g] \notin overtaken',
               NEW e \in Found(g)
        PROVE  /\ table'[e] # None
               /\ \A a \in EditableAttrs : table'[e][a] >= runs[id[g]].base[e][a]
    <2>0. e \in Employees
      BY <1>5 DEF Found
    <2>1. CASE e \in Found(r)
      <3>1. table'[e] = got[r][e] /\ got[r][e] # None
        BY <1>2, <2>0, <2>1 DEF Found
      <3>2. \A a \in EditableAttrs : /\ got[r][e][a] \in Nat
                                     /\ got[r][e][a] >= runs[id[r]].base[e][a]
        BY <1>1, <1>2, <2>0, <2>1, <3>1, ValuesAreNumbers DEF ReadsAreFresh
      <3>3. id[g] \in 1..id[r] /\ id[g] \in 1..Len(runs)
        BY <1>2, <1>3, <1>4, <1>5
      <3>4. NotOlder(runs[id[r]].base, runs[id[g]].base)
        BY <1>1, <1>2, <3>3 DEF KnowledgeGrows
      <3> QED
        BY <1>1, <1>2, <2>0, <3>1, <3>2, <3>3, <3>4, ValuesAreNumbers DEF NotOlder
    <2>2. CASE e \notin Found(r)
      <3>1. g # r /\ pc[g] \in {"store", "reply"} /\ id[g] \notin overtaken
        BY <1>3, <1>4, <1>5, <2>2
      <3>2. table'[e] = table[e]
        BY <1>2, <2>0, <2>2
      <3> QED
        BY <1>1, <1>5, <3>1, <3>2 DEF KnowledgeGrows, AnsweredSyncIsVisible
    <2> QED
      BY <2>1, <2>2
  <1>6. \A g \in Runners :
           IF Underway(g)' THEN ReadsAreFresh(g)' ELSE Found(g)' = {}
    BY <1>1, <1>2, <1>3 DEF KnowledgeGrows, ReadsAreFresh, Found, Underway
  <1>7. KnowledgeGrows'
    BY <1>1, <1>5, <1>6 DEF KnowledgeGrows, Found
  <1>8. AnsweredSyncIsVisible'
    BY <1>5 DEF AnsweredSyncIsVisible, Found
  <1> QED
    BY <1>7, <1>8

LEMMA KnowledgeNext ==
  ASSUME SyncInv, TypeOK', [Next]_vars
  PROVE  KnowledgeGrows' /\ AnsweredSyncIsVisible'
  <1> USE DEF ghostVars, runVars, Underway
  <1>0. TypeOK /\ RunsAreTold
    BY DEF SyncInv, TableInv
  <1>1. ASSUME NEW r \in Runners, FetchFails(r) \/ UpsertFails(r)
        PROVE  KnowledgeGrows' /\ AnsweredSyncIsVisible'
    <2>1. /\ pc'[r] = "idle" /\ got'[r] = NoRows
          /\ \A g \in Runners : g # r => pc'[g] = pc[g] /\ id'[g] = id[g] /\ got'[g] = got[g]
      BY <1>0, <1>1 DEF FetchFails, UpsertFails, TypeOK
    <2>2. \A g \in Runners : Underway(g)' => g # r
      BY <2>1
    <2>3. runs' = runs /\ table' = table /\ overtaken' = overtaken
      BY <1>1 DEF FetchFails, UpsertFails
    <2>4. \A g \in Runners : ~Underway(g)' => 
            got'[g] = NoRows \/ (got'[g] = got[g] /\ ~Underway(g))
      BY <2>1
    <2>5. \A g \in Runners : Underway(g)' =>
            /\ Underway(g) /\ id'[g] = id[g] /\ got'[g] = got[g]
            /\ pc'[g] \in {"store", "reply"} =>
                  /\ pc[g] \in {"store", "reply"}
                  /\ id[g] \in overtaken => id[g] \in overtaken'
      BY <2>1, <2>2, <2>3
    <2> HIDE DEF Underway
    <2> QED
      BY <2>3, <2>4, <2>5, KnowledgeStays
  <1>2. ASSUME NEW r \in Runners, BeginTx(r)
        PROVE  KnowledgeGrows' /\ AnsweredSyncIsVisible'
    <2>1. /\ pc[r] = "upsert" /\ pc'[r] = "write"
          /\ \A g \in Runners : g # r => pc'[g] = pc[g]
      BY <1>0, <1>2 DEF BeginTx, TypeOK
    <2> QED
      BY <1>2, <2>1, KnowledgeStays DEF BeginTx
  <1>3. ASSUME NEW r \in Runners, NEW e \in Employees, UpsertRow(r, e)
        PROVE  KnowledgeGrows' /\ AnsweredSyncIsVisible'
    BY <1>3, KnowledgeStays DEF UpsertRow
  <1>4. ASSUME NEW r \in Runners, StoreLast(r)
        PROVE  KnowledgeGrows' /\ AnsweredSyncIsVisible'
    <2>1. /\ pc[r] = "store" /\ pc'[r] = "reply"
          /\ \A g \in Runners : g # r => pc'[g] = pc[g]
      BY <1>0, <1>4 DEF StoreLast, TypeOK
    <2> QED
      BY <1>4, <2>1, KnowledgeStays DEF StoreLast
  <1>5. ASSUME NEW r \in Runners, Reply(r)
        PROVE  KnowledgeGrows' /\ AnsweredSyncIsVisible'
    <2>1. /\ pc[r] = "reply" /\ pc'[r] = "idle" /\ got'[r] = NoRows
          /\ \A g \in Runners : g # r => pc'[g] = pc[g] /\ id'[g] = id[g] /\ got'[g] = got[g]
      BY <1>0, <1>5 DEF Reply, TypeOK
    <2>2. \A g \in Runners : g # r /\ Underway(g) => id[g] # id[r]
      BY <1>0, <2>1 DEF RunsAreTold
    <2>3. \A g \in Runners : Underway(g)' => g # r
      BY <2>1
    <2>4. runs' = runs /\ table' = table /\ overtaken' = overtaken \ {id[r]}
      BY <1>5 DEF Reply
    <2>5. \A g \in Runners : g # r /\ Underway(g) /\ id[g] \in overtaken => id[g] \in overtaken'
      BY <2>2, <2>4
    <2> QED
      BY <2>1, <2>3, <2>4, <2>5, KnowledgeStays
  <1>6. ASSUME NEW e \in Employees, Toggle(e) \/ \E a \in SyncAttrs : Edit(e, a)
        PROVE  KnowledgeGrows' /\ AnsweredSyncIsVisible'
    BY <1>6, KnowledgeStays DEF Toggle, Edit
  <1>7. CASE Crash
    <2>1. runs' = runs /\ table' = table
      BY <1>7 DEF Crash
    <2>2. \A g \in Runners : pc'[g] = "idle" /\ got'[g] = NoRows
      BY <1>7 DEF Crash
    <2> QED
      BY <2>1, <2>2, KnowledgeStays
  <1>8. CASE UNCHANGED vars
    BY <1>8, KnowledgeStays DEF vars
  <1> QED
    BY <1>1, <1>2, <1>3, <1>4, <1>5, <1>6, <1>7, <1>8, StartKnows, FetchKnows,
       CommitKnows DEF Next, Step

\* The lock is held by the runner that writes, whichever way a run ends, and
\* the runs know what they were told, and no less than those before them.
THEOREM SyncInvariant == Spec => []SyncInv
  <1>1. Init => SyncInv
    <2> SUFFICES ASSUME Init PROVE SyncInv
      OBVIOUS
    <2>1. TableInv /\ RunsAreTold /\ LastResultIsRecent
      BY TableInit DEF Init, RunsAreTold, LastResultIsRecent, Underway
    <2>2. KnowledgeGrows /\ AnsweredSyncIsVisible
      BY DEF Init, AdInit, KnowledgeGrows, AnsweredSyncIsVisible, Underway,
             Found, NoRows
    <2> QED
      BY <2>1, <2>2 DEF SyncInv
  <1>2. SyncInv /\ [Next]_vars => SyncInv'
    <2> SUFFICES ASSUME SyncInv, [Next]_vars PROVE SyncInv'
      OBVIOUS
    <2>1. TableInv' /\ RunsAreTold' /\ LastResultIsRecent'
      BY TableNext, RunsNext DEF SyncInv
    <2>2. TypeOK'
      BY <2>1 DEF TableInv
    <2>3. KnowledgeGrows' /\ AnsweredSyncIsVisible'
      BY <2>2, KnowledgeNext
    <2> QED
      BY <2>1, <2>3 DEF SyncInv
  <1> QED
    BY <1>1, <1>2, PTL DEF Spec

\* The table is what the committed runs add up to.
THEOREM TableIsAlwaysWhole == Spec => []TableIsWhole
  <1>1. SyncInv => TableIsWhole
    BY DEF SyncInv, TableInv
  <1> QED
    BY SyncInvariant, <1>1, PTL

\* The last result is none that an answered run started after.
THEOREM LastResultsAreRecent == Spec => []LastResultIsRecent
  <1>1. SyncInv => LastResultIsRecent
    BY DEF SyncInv
  <1> QED
    BY SyncInvariant, <1>1, PTL

\* From its commit on the table shows what a sync listed at least as it was
\* when the sync was asked for, unless an older sync committed after it.
THEOREM AnsweredSyncsAreVisible == Spec => []AnsweredSyncIsVisible
  <1>1. SyncInv => AnsweredSyncIsVisible
    BY DEF SyncInv
  <1> QED
    BY SyncInvariant, <1>1, PTL
=============================================================================
