---------------------- MODULE EmployeeDirectoryProofs ----------------------
(***************************************************************************)
(* What TLAPS proves of EmployeeDirectory for any employees, any handlers, *)
(* any mix of requests and every bound: its type invariant, that list      *)
(* replies show every finished update, that a stale record in the cache is *)
(* a late read, that the trail and the directory agree, and that lists and *)
(* updates are those of EmployeeService.                                   *)
(***************************************************************************)
EXTENDS EmployeeDirectory, FiniteSetTheorems, TLAPS

USE DEF Record, Listing

-----------------------------------------------------------------------------
(* Types of the operators the actions are built from. *)

LEMMA BlankType == Blank \in Record /\ Unread \in [Employees -> Record \cup {None}]
  BY DEF Blank, Unread

\* Replacing one attribute keeps the directory a directory.
LEMMA StoreType ==
  ASSUME AdTypeOK, NEW e \in Employees, NEW a \in EditableAttrs,
         NEW by \in {"program", "outside"}, Store(e, a, by)
  PROVE  /\ AdTypeOK'
         /\ Len(mods) \in Nat
         /\ Len(mods') = Len(mods) + 1
         /\ ad' = [ad EXCEPT ![e][a] = Len(mods) + 1]
  <1>1. Len(mods) \in Nat
    BY DEF AdTypeOK
  <1>2. ad' \in Listing
    BY <1>1 DEF Store, AdTypeOK
  <1>3. [dn |-> e, attr |-> a, old |-> ad[e][a], by |-> by] \in Modification
    BY DEF Modification, AdTypeOK
  <1>4. mods' \in Seq(Modification) /\ Len(mods') = Len(mods) + 1
    BY <1>3 DEF Store, AdTypeOK
  <1> QED
    BY <1>1, <1>2, <1>4 DEF AdTypeOK, Store

\* The field an update writes next is one it still has to write.
LEMMA NextFieldType ==
  ASSUME NEW S \in SUBSET PutFields
  PROVE  NextField(S) \in EditableAttrs /\ NextField(S) \in PutFields
  BY DEF NextField, PutFields, EditableAttrs

-----------------------------------------------------------------------------
(* The type invariant. *)

LEMMA TypeInit == Init => TypeOK
  <1> SUFFICES ASSUME Init PROVE TypeOK
    OBVIOUS
  <1>1. AdTypeOK
    BY DEF Init, AdInit, AdTypeOK
  <1>2. CacheTypeOK
    BY DEF Init, EmptyCache, CacheTypeOK
  <1>3. LocalTypeOK
    BY BlankType DEF Init, LocalTypeOK, NoModify, PcLabels
  <1>4. PcTypeOK
    BY DEF Init, PcTypeOK
  <1>5. HistoryTypeOK
    BY DEF Init, HistoryTypeOK, Blank
  <1> QED
    BY <1>1, <1>2, <1>3, <1>4, <1>5 DEF TypeOK

\* Type correctness of the directory is kept by every step.
LEMMA AdTypeNext == TypeOK /\ [Next]_vars => AdTypeOK'
  <1> SUFFICES ASSUME TypeOK, [Next]_vars PROVE AdTypeOK'
    OBVIOUS
  <1>1. ASSUME NEW h \in Handlers, ListStart(h) PROVE AdTypeOK'
    BY <1>1 DEF ListStart, AdTypeOK, TypeOK
  <1>2. ASSUME NEW h \in Handlers, ListHit(h) PROVE AdTypeOK'
    BY <1>2 DEF ListHit, AdTypeOK, TypeOK
  <1>3. ASSUME NEW h \in Handlers, ListMiss(h) PROVE AdTypeOK'
    BY <1>3 DEF ListMiss, AdTypeOK, TypeOK
  <1>4. ASSUME NEW h \in Handlers, NEW e \in Employees, ListReadEntry(h, e)
        PROVE AdTypeOK'
    BY <1>4 DEF ListReadEntry, AdTypeOK, TypeOK
  <1>5. ASSUME NEW h \in Handlers, ListReadError(h) PROVE AdTypeOK'
    BY <1>5 DEF ListReadError, AdTypeOK, TypeOK
  <1>6. ASSUME NEW h \in Handlers, ListSet(h) PROVE AdTypeOK'
    BY <1>6 DEF ListSet, AdTypeOK, TypeOK
  <1>7. ASSUME NEW h \in Handlers, NEW e \in Employees, GetHit(h, e)
        PROVE AdTypeOK'
    BY <1>7 DEF GetHit, AdTypeOK, TypeOK
  <1>8. ASSUME NEW h \in Handlers, NEW e \in Employees, GetMiss(h, e)
        PROVE AdTypeOK'
    BY <1>8 DEF GetMiss, AdTypeOK, TypeOK
  <1>9. ASSUME NEW h \in Handlers, GetRead(h) PROVE AdTypeOK'
    BY <1>9 DEF GetRead, AdTypeOK, TypeOK
  <1>10. ASSUME NEW h \in Handlers, GetReadError(h) PROVE AdTypeOK'
    BY <1>10 DEF GetReadError, AdTypeOK, TypeOK
  <1>11. ASSUME NEW h \in Handlers, GetSet(h) PROVE AdTypeOK'
    BY <1>11 DEF GetSet, AdTypeOK, TypeOK
  <1>12. ASSUME NEW h \in Handlers, NEW e \in Employees, NEW S \in Bodies,
        PutStart(h, e, S)
        PROVE AdTypeOK'
    BY <1>12 DEF PutStart, AdTypeOK, TypeOK
  <1>13. ASSUME NEW h \in Handlers, PutReadOld(h) PROVE AdTypeOK'
    BY <1>13 DEF PutReadOld, AdTypeOK, TypeOK
  <1>14. ASSUME NEW h \in Handlers, PutModifyOK(h) PROVE AdTypeOK'
    BY <1>14, StoreType, NextFieldType DEF PutModifyOK, TypeOK, PcTypeOK,
        LocalTypeOK
  <1>15. ASSUME NEW h \in Handlers, PutModifyError(h) PROVE AdTypeOK'
    BY <1>15, StoreType, NextFieldType DEF PutModifyError, TypeOK, PcTypeOK,
        LocalTypeOK, Refuse, adVars, AdTypeOK
  <1>16. ASSUME NEW h \in Handlers, PutAudit(h) PROVE AdTypeOK'
    BY <1>16 DEF PutAudit, AdTypeOK, TypeOK
  <1>17. ASSUME NEW h \in Handlers, PutDelete(h) PROVE AdTypeOK'
    BY <1>17 DEF PutDelete, AdTypeOK, TypeOK
  <1>18. ASSUME NEW h \in Handlers, PutBump(h) PROVE AdTypeOK'
    BY <1>18 DEF PutBump, AdTypeOK, TypeOK
  <1>19. ASSUME NEW h \in Handlers, PutReread(h) PROVE AdTypeOK'
    BY <1>19 DEF PutReread, AdTypeOK, TypeOK
  <1>20. ASSUME NEW h \in Handlers, Reply(h) PROVE AdTypeOK'
    BY <1>20 DEF Reply, AdTypeOK, TypeOK
  <1>21. ASSUME NEW e \in Employees, ExpireEmployee(e) PROVE AdTypeOK'
    BY <1>21 DEF ExpireEmployee, AdTypeOK, TypeOK
  <1>22. ASSUME NEW v \in DOMAIN listCache, ExpireList(v) PROVE AdTypeOK'
    BY <1>22 DEF ExpireList, AdTypeOK, TypeOK
  <1>23. ASSUME Crash PROVE AdTypeOK'
    BY <1>23 DEF Crash, AdTypeOK, TypeOK
  <1>24. ASSUME NEW e \in Employees, NEW a \in OutsideAttrs, OutsideChange(e,
        a)
        PROVE AdTypeOK'
    BY <1>24, StoreType, InputAssumption DEF OutsideChange, TypeOK,
        OutsideEdit
  <1>25. CASE UNCHANGED vars
    BY <1>25 DEF vars, AdTypeOK, TypeOK
  <1> QED
    BY <1>1, <1>2, <1>3, <1>4, <1>5, <1>6, <1>7, <1>8, <1>9, <1>10, <1>11,
        <1>12, <1>13, <1>14, <1>15, <1>16, <1>17, <1>18, <1>19, <1>20, <1>21,
        <1>22, <1>23, <1>24, <1>25 DEF Next, Request, HandlerStep, ListStep,
        GetStep, PutStep, Expiry

\* Type correctness of the cache and its version is kept by every step.
LEMMA CacheTypeNext == TypeOK /\ [Next]_vars => CacheTypeOK'
  <1> SUFFICES ASSUME TypeOK, [Next]_vars PROVE CacheTypeOK'
    OBVIOUS
  <1> USE DEF cacheVars
  <1>1. ASSUME NEW h \in Handlers, ListStart(h) PROVE CacheTypeOK'
    BY <1>1 DEF ListStart, TypeOK, CacheTypeOK
  <1>2. ASSUME NEW h \in Handlers, ListHit(h) PROVE CacheTypeOK'
    BY <1>2 DEF ListHit, TypeOK, CacheTypeOK
  <1>3. ASSUME NEW h \in Handlers, ListMiss(h) PROVE CacheTypeOK'
    BY <1>3 DEF ListMiss, TypeOK, CacheTypeOK
  <1>4. ASSUME NEW h \in Handlers, NEW e \in Employees, ListReadEntry(h, e)
        PROVE CacheTypeOK'
    BY <1>4 DEF ListReadEntry, TypeOK, CacheTypeOK
  <1>5. ASSUME NEW h \in Handlers, ListReadError(h) PROVE CacheTypeOK'
    BY <1>5 DEF ListReadError, TypeOK, CacheTypeOK
  <1>6. ASSUME NEW h \in Handlers, ListSet(h) PROVE CacheTypeOK'
    BY <1>6 DEF ListSet, TypeOK, CacheTypeOK, LocalTypeOK, PcTypeOK, CacheSet
  <1>7. ASSUME NEW h \in Handlers, NEW e \in Employees, GetHit(h, e)
        PROVE CacheTypeOK'
    BY <1>7 DEF GetHit, TypeOK, CacheTypeOK
  <1>8. ASSUME NEW h \in Handlers, NEW e \in Employees, GetMiss(h, e)
        PROVE CacheTypeOK'
    BY <1>8 DEF GetMiss, TypeOK, CacheTypeOK
  <1>9. ASSUME NEW h \in Handlers, GetRead(h) PROVE CacheTypeOK'
    BY <1>9 DEF GetRead, TypeOK, CacheTypeOK
  <1>10. ASSUME NEW h \in Handlers, GetReadError(h) PROVE CacheTypeOK'
    BY <1>10 DEF GetReadError, TypeOK, CacheTypeOK
  <1>11. ASSUME NEW h \in Handlers, GetSet(h) PROVE CacheTypeOK'
    BY <1>11 DEF GetSet, TypeOK, CacheTypeOK, LocalTypeOK, PcTypeOK, CacheSet
  <1>12. ASSUME NEW h \in Handlers, NEW e \in Employees, NEW S \in Bodies,
        PutStart(h, e, S)
        PROVE CacheTypeOK'
    BY <1>12 DEF PutStart, TypeOK, CacheTypeOK
  <1>13. ASSUME NEW h \in Handlers, PutReadOld(h) PROVE CacheTypeOK'
    BY <1>13 DEF PutReadOld, TypeOK, CacheTypeOK
  <1>14. ASSUME NEW h \in Handlers, PutModifyOK(h) PROVE CacheTypeOK'
    BY <1>14 DEF PutModifyOK, TypeOK, CacheTypeOK
  <1>15. ASSUME NEW h \in Handlers, PutModifyError(h) PROVE CacheTypeOK'
    BY <1>15 DEF PutModifyError, TypeOK, CacheTypeOK
  <1>16. ASSUME NEW h \in Handlers, PutAudit(h) PROVE CacheTypeOK'
    BY <1>16 DEF PutAudit, TypeOK, CacheTypeOK
  <1>17. ASSUME NEW h \in Handlers, PutDelete(h) PROVE CacheTypeOK'
    BY <1>17 DEF PutDelete, TypeOK, CacheTypeOK, LocalTypeOK, PcTypeOK,
        CacheDelete, Restrict
  <1>18. ASSUME NEW h \in Handlers, PutBump(h) PROVE CacheTypeOK'
    BY <1>18 DEF PutBump, TypeOK, CacheTypeOK
  <1>19. ASSUME NEW h \in Handlers, PutReread(h) PROVE CacheTypeOK'
    BY <1>19 DEF PutReread, TypeOK, CacheTypeOK
  <1>20. ASSUME NEW h \in Handlers, Reply(h) PROVE CacheTypeOK'
    BY <1>20 DEF Reply, TypeOK, CacheTypeOK
  <1>21. ASSUME NEW e \in Employees, ExpireEmployee(e) PROVE CacheTypeOK'
    BY <1>21 DEF ExpireEmployee, TypeOK, CacheTypeOK, LocalTypeOK, PcTypeOK,
        CacheDelete, Restrict
  <1>22. ASSUME NEW v \in DOMAIN listCache, ExpireList(v) PROVE CacheTypeOK'
    BY <1>22 DEF ExpireList, TypeOK, CacheTypeOK, LocalTypeOK, PcTypeOK,
        CacheDelete, Restrict
  <1>23. ASSUME Crash PROVE CacheTypeOK'
    BY <1>23 DEF Crash, CacheTypeOK, EmptyCache
  <1>24. ASSUME NEW e \in Employees, NEW a \in OutsideAttrs, OutsideChange(e,
        a)
        PROVE CacheTypeOK'
    BY <1>24 DEF OutsideChange, TypeOK, CacheTypeOK
  <1>25. CASE UNCHANGED vars
    BY <1>25 DEF vars, TypeOK, CacheTypeOK
  <1> QED
    BY <1>1, <1>2, <1>3, <1>4, <1>5, <1>6, <1>7, <1>8, <1>9, <1>10, <1>11,
        <1>12, <1>13, <1>14, <1>15, <1>16, <1>17, <1>18, <1>19, <1>20, <1>21,
        <1>22, <1>23, <1>24, <1>25 DEF Next, Request, HandlerStep, ListStep,
        GetStep, PutStep, Expiry

\* Type correctness of what the handlers keep is kept by every step.
LEMMA LocalTypeNext == TypeOK /\ [Next]_vars => LocalTypeOK'
  <1> SUFFICES ASSUME TypeOK, [Next]_vars PROVE LocalTypeOK'
    OBVIOUS
  <1> USE DEF localVars
  <1>1. ASSUME NEW h \in Handlers, ListStart(h) PROVE LocalTypeOK'
    BY <1>1 DEF ListStart, TypeOK, LocalTypeOK, PcLabels, CacheTypeOK,
        AdTypeOK, PcTypeOK
  <1>2. ASSUME NEW h \in Handlers, ListHit(h) PROVE LocalTypeOK'
    BY <1>2 DEF ListHit, TypeOK, LocalTypeOK, PcLabels, CacheTypeOK, AdTypeOK,
        PcTypeOK
  <1>3. ASSUME NEW h \in Handlers, ListMiss(h) PROVE LocalTypeOK'
    BY <1>3 DEF ListMiss, TypeOK, LocalTypeOK, PcLabels
  <1>4. ASSUME NEW h \in Handlers, NEW e \in Employees, ListReadEntry(h, e)
        PROVE LocalTypeOK'
    BY <1>4 DEF ListReadEntry, TypeOK, LocalTypeOK, PcLabels, CacheTypeOK,
        AdTypeOK, PcTypeOK
  <1>5. ASSUME NEW h \in Handlers, ListReadError(h) PROVE LocalTypeOK'
    BY <1>5, BlankType DEF ListReadError, TypeOK, LocalTypeOK, PcLabels,
        NoModify
  <1>6. ASSUME NEW h \in Handlers, ListSet(h) PROVE LocalTypeOK'
    BY <1>6 DEF ListSet, TypeOK, LocalTypeOK, PcLabels
  <1>7. ASSUME NEW h \in Handlers, NEW e \in Employees, GetHit(h, e)
        PROVE LocalTypeOK'
    BY <1>7 DEF GetHit, TypeOK, LocalTypeOK, PcLabels, CacheTypeOK, AdTypeOK,
        PcTypeOK
  <1>8. ASSUME NEW h \in Handlers, NEW e \in Employees, GetMiss(h, e)
        PROVE LocalTypeOK'
    BY <1>8 DEF GetMiss, TypeOK, LocalTypeOK, PcLabels, CacheTypeOK, AdTypeOK,
        PcTypeOK
  <1>9. ASSUME NEW h \in Handlers, GetRead(h) PROVE LocalTypeOK'
    BY <1>9 DEF GetRead, TypeOK, LocalTypeOK, PcLabels, CacheTypeOK, AdTypeOK,
        PcTypeOK
  <1>10. ASSUME NEW h \in Handlers, GetReadError(h) PROVE LocalTypeOK'
    BY <1>10, BlankType DEF GetReadError, TypeOK, LocalTypeOK, PcLabels,
        NoModify
  <1>11. ASSUME NEW h \in Handlers, GetSet(h) PROVE LocalTypeOK'
    BY <1>11 DEF GetSet, TypeOK, LocalTypeOK, PcLabels
  <1>12. ASSUME NEW h \in Handlers, NEW e \in Employees, NEW S \in Bodies,
        PutStart(h, e, S)
        PROVE LocalTypeOK'
    BY <1>12, InputAssumption DEF PutStart, TypeOK, LocalTypeOK, PcLabels,
        PutFields
  <1>13. ASSUME NEW h \in Handlers, PutReadOld(h) PROVE LocalTypeOK'
    BY <1>13 DEF PutReadOld, TypeOK, LocalTypeOK, PcLabels, CacheTypeOK,
        AdTypeOK, PcTypeOK
  <1>14. ASSUME NEW h \in Handlers, PutModifyOK(h) PROVE LocalTypeOK'
    BY <1>14, StoreType, NextFieldType DEF PutModifyOK, TypeOK, LocalTypeOK,
        PcLabels, PcTypeOK
  <1>15. ASSUME NEW h \in Handlers, PutModifyError(h) PROVE LocalTypeOK'
    <2>1. Len(mods) + 1 \in Nat
      BY DEF TypeOK, AdTypeOK
    <2>2. PICK n \in Nat : last' = [last EXCEPT ![h] = [value |-> n, ok |-> FALSE]]
      BY <1>15, <2>1 DEF PutModifyError
    <2>3. last' \in [Handlers -> [value: Nat, ok: BOOLEAN]]
      BY <2>2 DEF TypeOK, LocalTypeOK
    <2> QED
      BY <1>15, <2>3 DEF PutModifyError, TypeOK, LocalTypeOK, PcLabels
  <1>16. ASSUME NEW h \in Handlers, PutAudit(h) PROVE LocalTypeOK'
    BY <1>16 DEF PutAudit, TypeOK, LocalTypeOK, PcLabels
  <1>17. ASSUME NEW h \in Handlers, PutDelete(h) PROVE LocalTypeOK'
    BY <1>17 DEF PutDelete, TypeOK, LocalTypeOK, PcLabels
  <1>18. ASSUME NEW h \in Handlers, PutBump(h) PROVE LocalTypeOK'
    BY <1>18 DEF PutBump, TypeOK, LocalTypeOK, PcLabels
  <1>19. ASSUME NEW h \in Handlers, PutReread(h) PROVE LocalTypeOK'
    BY <1>19 DEF PutReread, TypeOK, LocalTypeOK, PcLabels, CacheTypeOK,
        AdTypeOK, PcTypeOK
  <1>20. ASSUME NEW h \in Handlers, Reply(h) PROVE LocalTypeOK'
    BY <1>20, BlankType DEF Reply, TypeOK, LocalTypeOK, PcLabels, NoModify
  <1>21. ASSUME NEW e \in Employees, ExpireEmployee(e) PROVE LocalTypeOK'
    BY <1>21 DEF ExpireEmployee, TypeOK, LocalTypeOK, PcLabels
  <1>22. ASSUME NEW v \in DOMAIN listCache, ExpireList(v) PROVE LocalTypeOK'
    BY <1>22 DEF ExpireList, TypeOK, LocalTypeOK, PcLabels
  <1>23. ASSUME Crash PROVE LocalTypeOK'
    BY <1>23, BlankType DEF Crash, TypeOK, LocalTypeOK, PcLabels, NoModify
  <1>24. ASSUME NEW e \in Employees, NEW a \in OutsideAttrs, OutsideChange(e,
        a)
        PROVE LocalTypeOK'
    BY <1>24 DEF OutsideChange, TypeOK, LocalTypeOK, PcLabels
  <1>25. CASE UNCHANGED vars
    BY <1>25 DEF vars, TypeOK, LocalTypeOK, PcLabels
  <1> QED
    BY <1>1, <1>2, <1>3, <1>4, <1>5, <1>6, <1>7, <1>8, <1>9, <1>10, <1>11,
        <1>12, <1>13, <1>14, <1>15, <1>16, <1>17, <1>18, <1>19, <1>20, <1>21,
        <1>22, <1>23, <1>24, <1>25 DEF Next, Request, HandlerStep, ListStep,
        GetStep, PutStep, Expiry

\* What a handler holds fits the place it is at, after every step.
LEMMA PcTypeNext == TypeOK /\ [Next]_vars => PcTypeOK'
  <1> SUFFICES ASSUME TypeOK, [Next]_vars PROVE PcTypeOK'
    OBVIOUS
  <1> USE DEF localVars
  <1>1. ASSUME NEW h \in Handlers, ListStart(h) PROVE PcTypeOK'
    BY <1>1 DEF ListStart, TypeOK, LocalTypeOK, PcTypeOK
  <1>2. ASSUME NEW h \in Handlers, ListHit(h) PROVE PcTypeOK'
    BY <1>2, NoneAssumption DEF ListHit, TypeOK, LocalTypeOK, PcLabels,
        CacheTypeOK, AdTypeOK, PcTypeOK
  <1>3. ASSUME NEW h \in Handlers, ListMiss(h) PROVE PcTypeOK'
    BY <1>3 DEF ListMiss, TypeOK, LocalTypeOK, PcTypeOK
  <1>4. ASSUME NEW h \in Handlers, NEW e \in Employees, ListReadEntry(h, e)
        PROVE PcTypeOK'
    BY <1>4, NoneAssumption DEF ListReadEntry, TypeOK, LocalTypeOK, PcLabels,
        CacheTypeOK, AdTypeOK, PcTypeOK
  <1>5. ASSUME NEW h \in Handlers, ListReadError(h) PROVE PcTypeOK'
    BY <1>5 DEF ListReadError, TypeOK, LocalTypeOK, PcTypeOK
  <1>6. ASSUME NEW h \in Handlers, ListSet(h) PROVE PcTypeOK'
    BY <1>6 DEF ListSet, TypeOK, LocalTypeOK, PcTypeOK
  <1>7. ASSUME NEW h \in Handlers, NEW e \in Employees, GetHit(h, e)
        PROVE PcTypeOK'
    BY <1>7, NoneAssumption DEF GetHit, TypeOK, LocalTypeOK, PcLabels,
        CacheTypeOK, AdTypeOK, PcTypeOK
  <1>8. ASSUME NEW h \in Handlers, NEW e \in Employees, GetMiss(h, e)
        PROVE PcTypeOK'
    BY <1>8 DEF GetMiss, TypeOK, LocalTypeOK, PcTypeOK
  <1>9. ASSUME NEW h \in Handlers, GetRead(h) PROVE PcTypeOK'
    BY <1>9, NoneAssumption DEF GetRead, TypeOK, LocalTypeOK, PcLabels,
        CacheTypeOK, AdTypeOK, PcTypeOK
  <1>10. ASSUME NEW h \in Handlers, GetReadError(h) PROVE PcTypeOK'
    BY <1>10 DEF GetReadError, TypeOK, LocalTypeOK, PcTypeOK
  <1>11. ASSUME NEW h \in Handlers, GetSet(h) PROVE PcTypeOK'
    BY <1>11 DEF GetSet, TypeOK, LocalTypeOK, PcTypeOK
  <1>12. ASSUME NEW h \in Handlers, NEW e \in Employees, NEW S \in Bodies,
        PutStart(h, e, S)
        PROVE PcTypeOK'
    BY <1>12 DEF PutStart, TypeOK, LocalTypeOK, PcTypeOK
  <1>13. ASSUME NEW h \in Handlers, PutReadOld(h) PROVE PcTypeOK'
    BY <1>13, NoneAssumption DEF PutReadOld, TypeOK, LocalTypeOK, PcLabels,
        CacheTypeOK, AdTypeOK, PcTypeOK
  <1>14. ASSUME NEW h \in Handlers, PutModifyOK(h) PROVE PcTypeOK'
    BY <1>14 DEF PutModifyOK, TypeOK, LocalTypeOK, PcTypeOK
  <1>15. ASSUME NEW h \in Handlers, PutModifyError(h) PROVE PcTypeOK'
    BY <1>15 DEF PutModifyError, TypeOK, LocalTypeOK, PcTypeOK
  <1>16. ASSUME NEW h \in Handlers, PutAudit(h) PROVE PcTypeOK'
    BY <1>16 DEF PutAudit, TypeOK, LocalTypeOK, PcTypeOK
  <1>17. ASSUME NEW h \in Handlers, PutDelete(h) PROVE PcTypeOK'
    BY <1>17 DEF PutDelete, TypeOK, LocalTypeOK, PcTypeOK
  <1>18. ASSUME NEW h \in Handlers, PutBump(h) PROVE PcTypeOK'
    BY <1>18 DEF PutBump, TypeOK, LocalTypeOK, PcTypeOK
  <1>19. ASSUME NEW h \in Handlers, PutReread(h) PROVE PcTypeOK'
    BY <1>19, NoneAssumption DEF PutReread, TypeOK, LocalTypeOK, PcLabels,
        CacheTypeOK, AdTypeOK, PcTypeOK
  <1>20. ASSUME NEW h \in Handlers, Reply(h) PROVE PcTypeOK'
    BY <1>20 DEF Reply, TypeOK, LocalTypeOK, PcTypeOK
  <1>21. ASSUME NEW e \in Employees, ExpireEmployee(e) PROVE PcTypeOK'
    BY <1>21 DEF ExpireEmployee, TypeOK, LocalTypeOK, PcTypeOK
  <1>22. ASSUME NEW v \in DOMAIN listCache, ExpireList(v) PROVE PcTypeOK'
    BY <1>22 DEF ExpireList, TypeOK, LocalTypeOK, PcTypeOK
  <1>23. ASSUME Crash PROVE PcTypeOK'
    BY <1>23 DEF Crash, TypeOK, LocalTypeOK, PcTypeOK
  <1>24. ASSUME NEW e \in Employees, NEW a \in OutsideAttrs, OutsideChange(e,
        a)
        PROVE PcTypeOK'
    BY <1>24 DEF OutsideChange, TypeOK, LocalTypeOK, PcTypeOK
  <1>25. CASE UNCHANGED vars
    BY <1>25 DEF vars, TypeOK, LocalTypeOK, PcTypeOK
  <1> QED
    BY <1>1, <1>2, <1>3, <1>4, <1>5, <1>6, <1>7, <1>8, <1>9, <1>10, <1>11,
        <1>12, <1>13, <1>14, <1>15, <1>16, <1>17, <1>18, <1>19, <1>20, <1>21,
        <1>22, <1>23, <1>24, <1>25 DEF Next, Request, HandlerStep, ListStep,
        GetStep, PutStep, Expiry

\* Type correctness of the trail and the histories is kept by every step.
LEMMA HistoryTypeNext == TypeOK /\ [Next]_vars => HistoryTypeOK'
  <1> SUFFICES ASSUME TypeOK, [Next]_vars PROVE HistoryTypeOK'
    OBVIOUS
  <1> USE DEF ghostVars
  <1>1. ASSUME NEW h \in Handlers, ListStart(h) PROVE HistoryTypeOK'
    BY <1>1 DEF ListStart, TypeOK, HistoryTypeOK, CacheTypeOK, cacheVars
  <1>2. ASSUME NEW h \in Handlers, ListHit(h) PROVE HistoryTypeOK'
    BY <1>2 DEF ListHit, TypeOK, HistoryTypeOK, CacheTypeOK, cacheVars
  <1>3. ASSUME NEW h \in Handlers, ListMiss(h) PROVE HistoryTypeOK'
    BY <1>3 DEF ListMiss, TypeOK, HistoryTypeOK, CacheTypeOK, cacheVars
  <1>4. ASSUME NEW h \in Handlers, NEW e \in Employees, ListReadEntry(h, e)
        PROVE HistoryTypeOK'
    BY <1>4 DEF ListReadEntry, TypeOK, HistoryTypeOK, CacheTypeOK, cacheVars
  <1>5. ASSUME NEW h \in Handlers, ListReadError(h) PROVE HistoryTypeOK'
    BY <1>5 DEF ListReadError, TypeOK, HistoryTypeOK, CacheTypeOK, cacheVars
  <1>6. ASSUME NEW h \in Handlers, ListSet(h) PROVE HistoryTypeOK'
    BY <1>6 DEF ListSet, TypeOK, HistoryTypeOK, CacheTypeOK, cacheVars
  <1>7. ASSUME NEW h \in Handlers, NEW e \in Employees, GetHit(h, e)
        PROVE HistoryTypeOK'
    BY <1>7 DEF GetHit, TypeOK, HistoryTypeOK, CacheTypeOK, cacheVars
  <1>8. ASSUME NEW h \in Handlers, NEW e \in Employees, GetMiss(h, e)
        PROVE HistoryTypeOK'
    BY <1>8 DEF GetMiss, TypeOK, HistoryTypeOK, CacheTypeOK, cacheVars
  <1>9. ASSUME NEW h \in Handlers, GetRead(h) PROVE HistoryTypeOK'
    BY <1>9 DEF GetRead, TypeOK, HistoryTypeOK, CacheTypeOK, cacheVars
  <1>10. ASSUME NEW h \in Handlers, GetReadError(h) PROVE HistoryTypeOK'
    BY <1>10 DEF GetReadError, TypeOK, HistoryTypeOK, CacheTypeOK, cacheVars
  <1>11. ASSUME NEW h \in Handlers, GetSet(h) PROVE HistoryTypeOK'
    BY <1>11 DEF GetSet, TypeOK, HistoryTypeOK, CacheTypeOK, cacheVars
  <1>12. ASSUME NEW h \in Handlers, NEW e \in Employees, NEW S \in Bodies,
        PutStart(h, e, S)
        PROVE HistoryTypeOK'
    BY <1>12 DEF PutStart, TypeOK, HistoryTypeOK, CacheTypeOK, cacheVars
  <1>13. ASSUME NEW h \in Handlers, PutReadOld(h) PROVE HistoryTypeOK'
    BY <1>13 DEF PutReadOld, TypeOK, HistoryTypeOK, CacheTypeOK, cacheVars
  <1>14. ASSUME NEW h \in Handlers, PutModifyOK(h) PROVE HistoryTypeOK'
    BY <1>14 DEF PutModifyOK, TypeOK, HistoryTypeOK, CacheTypeOK, cacheVars
  <1>15. ASSUME NEW h \in Handlers, PutModifyError(h) PROVE HistoryTypeOK'
    BY <1>15 DEF PutModifyError, TypeOK, HistoryTypeOK, CacheTypeOK, cacheVars
  <1>16. ASSUME NEW h \in Handlers, PutAudit(h) PROVE HistoryTypeOK'
    BY <1>16, NextFieldType DEF PutAudit, TypeOK, HistoryTypeOK, CacheTypeOK,
        cacheVars, LocalTypeOK, PcTypeOK, AuditEvent, OldValue
  <1>17. ASSUME NEW h \in Handlers, PutDelete(h) PROVE HistoryTypeOK'
    BY <1>17 DEF PutDelete, TypeOK, HistoryTypeOK, CacheTypeOK, cacheVars,
        LocalTypeOK, PcTypeOK
  <1>18. ASSUME NEW h \in Handlers, PutBump(h) PROVE HistoryTypeOK'
    BY <1>18 DEF PutBump, TypeOK, HistoryTypeOK, CacheTypeOK, LocalTypeOK,
        PcTypeOK, Promise, Larger
  <1>19. ASSUME NEW h \in Handlers, PutReread(h) PROVE HistoryTypeOK'
    BY <1>19 DEF PutReread, TypeOK, HistoryTypeOK, CacheTypeOK, cacheVars
  <1>20. ASSUME NEW h \in Handlers, Reply(h) PROVE HistoryTypeOK'
    BY <1>20 DEF Reply, TypeOK, HistoryTypeOK, CacheTypeOK, cacheVars
  <1>21. ASSUME NEW e \in Employees, ExpireEmployee(e) PROVE HistoryTypeOK'
    BY <1>21 DEF ExpireEmployee, TypeOK, HistoryTypeOK, CacheTypeOK, cacheVars
  <1>22. ASSUME NEW v \in DOMAIN listCache, ExpireList(v) PROVE HistoryTypeOK'
    BY <1>22 DEF ExpireList, TypeOK, HistoryTypeOK, CacheTypeOK, cacheVars
  <1>23. ASSUME Crash PROVE HistoryTypeOK'
    BY <1>23 DEF Crash, TypeOK, HistoryTypeOK, CacheTypeOK, cacheVars
  <1>24. ASSUME NEW e \in Employees, NEW a \in OutsideAttrs, OutsideChange(e,
        a)
        PROVE HistoryTypeOK'
    BY <1>24 DEF OutsideChange, TypeOK, HistoryTypeOK, CacheTypeOK, cacheVars
  <1>25. CASE UNCHANGED vars
    BY <1>25 DEF vars, TypeOK, HistoryTypeOK, CacheTypeOK, cacheVars
  <1> QED
    BY <1>1, <1>2, <1>3, <1>4, <1>5, <1>6, <1>7, <1>8, <1>9, <1>10, <1>11,
        <1>12, <1>13, <1>14, <1>15, <1>16, <1>17, <1>18, <1>19, <1>20, <1>21,
        <1>22, <1>23, <1>24, <1>25 DEF Next, Request, HandlerStep, ListStep,
        GetStep, PutStep, Expiry

\* Every state of the handlers, the caches and the directory is well typed,
\* and each handler holds what its next step needs.
THEOREM TypeCorrect == Spec => []TypeOK
  <1>1. TypeOK /\ [Next]_vars => TypeOK'
    BY AdTypeNext, CacheTypeNext, LocalTypeNext, PcTypeNext, HistoryTypeNext
    DEF TypeOK
  <1> QED
    BY TypeInit, <1>1, PTL DEF Spec

-----------------------------------------------------------------------------
(* Lists serve what was promised. *)

\* A store makes one attribute newer than everything before it.
LEMMA StoreGrows ==
  ASSUME AdTypeOK, AdNewestFirst, NEW e \in Employees,
         NEW a \in EditableAttrs, NEW by \in {"program", "outside"},
         Store(e, a, by)
  PROVE  /\ AdNewestFirst'
         /\ \A d \in Employees : AtLeast(ad'[d], ad[d])
         /\ ad'[e][a] = Len(mods) + 1
  <1>1. /\ ad \in Listing /\ ad' = [ad EXCEPT ![e][a] = Len(mods) + 1]
        /\ Len(mods) \in Nat /\ Len(mods') = Len(mods) + 1
    BY StoreType DEF AdTypeOK
  <1>2. \A d \in Employees, b \in EditableAttrs :
          ad'[d][b] = IF d = e /\ b = a THEN Len(mods) + 1 ELSE ad[d][b]
    BY <1>1
  <1>3. \A d \in Employees, b \in EditableAttrs : ad[d][b] \in Nat
    BY <1>1
  <1> QED
    BY <1>1, <1>2, <1>3 DEF AdNewestFirst, AtLeast

\* No step takes the directory back.
AdGrown == \A e \in Employees : AtLeast(ad'[e], ad[e])

\* Every step replaces values in the directory by newer ones only.
LEMMA AdGrows ==
  TypeOK /\ AdNewestFirst /\ [Next]_vars => AdNewestFirst' /\ AdGrown
  <1> SUFFICES ASSUME TypeOK /\ AdNewestFirst, [Next]_vars PROVE AdNewestFirst' /\ AdGrown
    OBVIOUS
  <1> USE DEF AdGrown
  <1>1. ASSUME NEW h \in Handlers, ListStart(h)
        PROVE AdNewestFirst' /\ AdGrown
    BY <1>1 DEF ListStart, TypeOK, AdTypeOK, AdNewestFirst, AtLeast
  <1>2. ASSUME NEW h \in Handlers, ListHit(h) PROVE AdNewestFirst' /\ AdGrown
    BY <1>2 DEF ListHit, TypeOK, AdTypeOK, AdNewestFirst, AtLeast
  <1>3. ASSUME NEW h \in Handlers, ListMiss(h) PROVE AdNewestFirst' /\ AdGrown
    BY <1>3 DEF ListMiss, TypeOK, AdTypeOK, AdNewestFirst, AtLeast
  <1>4. ASSUME NEW h \in Handlers, NEW e \in Employees, ListReadEntry(h, e)
        PROVE AdNewestFirst' /\ AdGrown
    BY <1>4 DEF ListReadEntry, TypeOK, AdTypeOK, AdNewestFirst, AtLeast
  <1>5. ASSUME NEW h \in Handlers, ListReadError(h)
        PROVE AdNewestFirst' /\ AdGrown
    BY <1>5 DEF ListReadError, TypeOK, AdTypeOK, AdNewestFirst, AtLeast
  <1>6. ASSUME NEW h \in Handlers, ListSet(h) PROVE AdNewestFirst' /\ AdGrown
    BY <1>6 DEF ListSet, TypeOK, AdTypeOK, AdNewestFirst, AtLeast
  <1>7. ASSUME NEW h \in Handlers, NEW e \in Employees, GetHit(h, e)
        PROVE AdNewestFirst' /\ AdGrown
    BY <1>7 DEF GetHit, TypeOK, AdTypeOK, AdNewestFirst, AtLeast
  <1>8. ASSUME NEW h \in Handlers, NEW e \in Employees, GetMiss(h, e)
        PROVE AdNewestFirst' /\ AdGrown
    BY <1>8 DEF GetMiss, TypeOK, AdTypeOK, AdNewestFirst, AtLeast
  <1>9. ASSUME NEW h \in Handlers, GetRead(h) PROVE AdNewestFirst' /\ AdGrown
    BY <1>9 DEF GetRead, TypeOK, AdTypeOK, AdNewestFirst, AtLeast
  <1>10. ASSUME NEW h \in Handlers, GetReadError(h)
        PROVE AdNewestFirst' /\ AdGrown
    BY <1>10 DEF GetReadError, TypeOK, AdTypeOK, AdNewestFirst, AtLeast
  <1>11. ASSUME NEW h \in Handlers, GetSet(h) PROVE AdNewestFirst' /\ AdGrown
    BY <1>11 DEF GetSet, TypeOK, AdTypeOK, AdNewestFirst, AtLeast
  <1>12. ASSUME NEW h \in Handlers, NEW e \in Employees, NEW S \in Bodies,
        PutStart(h, e, S)
        PROVE AdNewestFirst' /\ AdGrown
    BY <1>12 DEF PutStart, TypeOK, AdTypeOK, AdNewestFirst, AtLeast
  <1>13. ASSUME NEW h \in Handlers, PutReadOld(h)
        PROVE AdNewestFirst' /\ AdGrown
    BY <1>13 DEF PutReadOld, TypeOK, AdTypeOK, AdNewestFirst, AtLeast
  <1>14. ASSUME NEW h \in Handlers, PutModifyOK(h)
        PROVE AdNewestFirst' /\ AdGrown
    BY <1>14, StoreGrows, NextFieldType DEF PutModifyOK, TypeOK, PcTypeOK,
        LocalTypeOK
  <1>15. ASSUME NEW h \in Handlers, PutModifyError(h)
        PROVE AdNewestFirst' /\ AdGrown
    <2>1. target[h] \in Employees /\ NextField(todo[h]) \in EditableAttrs /\ AdTypeOK
      BY <1>15, NextFieldType DEF PutModifyError, TypeOK, PcTypeOK, LocalTypeOK
    <2>2. CASE Store(target[h], NextField(todo[h]), "program")
      BY <2>1, <2>2, StoreGrows
    <2>3. CASE Refuse
      BY <2>1, <2>3 DEF Refuse, adVars, AdTypeOK, AdNewestFirst, AtLeast
    <2> QED
      BY <1>15, <2>2, <2>3 DEF PutModifyError
  <1>16. ASSUME NEW h \in Handlers, PutAudit(h)
        PROVE AdNewestFirst' /\ AdGrown
    BY <1>16 DEF PutAudit, TypeOK, AdTypeOK, AdNewestFirst, AtLeast
  <1>17. ASSUME NEW h \in Handlers, PutDelete(h)
        PROVE AdNewestFirst' /\ AdGrown
    BY <1>17 DEF PutDelete, TypeOK, AdTypeOK, AdNewestFirst, AtLeast
  <1>18. ASSUME NEW h \in Handlers, PutBump(h) PROVE AdNewestFirst' /\ AdGrown
    BY <1>18 DEF PutBump, TypeOK, AdTypeOK, AdNewestFirst, AtLeast
  <1>19. ASSUME NEW h \in Handlers, PutReread(h)
        PROVE AdNewestFirst' /\ AdGrown
    BY <1>19 DEF PutReread, TypeOK, AdTypeOK, AdNewestFirst, AtLeast
  <1>20. ASSUME NEW h \in Handlers, Reply(h) PROVE AdNewestFirst' /\ AdGrown
    BY <1>20 DEF Reply, TypeOK, AdTypeOK, AdNewestFirst, AtLeast
  <1>21. ASSUME NEW e \in Employees, ExpireEmployee(e)
        PROVE AdNewestFirst' /\ AdGrown
    BY <1>21 DEF ExpireEmployee, TypeOK, AdTypeOK, AdNewestFirst, AtLeast
  <1>22. ASSUME NEW v \in DOMAIN listCache, ExpireList(v)
        PROVE AdNewestFirst' /\ AdGrown
    BY <1>22 DEF ExpireList, TypeOK, AdTypeOK, AdNewestFirst, AtLeast
  <1>23. ASSUME Crash PROVE AdNewestFirst' /\ AdGrown
    BY <1>23 DEF Crash, TypeOK, AdTypeOK, AdNewestFirst, AtLeast
  <1>24. ASSUME NEW e \in Employees, NEW a \in OutsideAttrs, OutsideChange(e,
        a)
        PROVE AdNewestFirst' /\ AdGrown
    BY <1>24, StoreGrows, InputAssumption DEF OutsideChange, TypeOK,
        OutsideEdit
  <1>25. CASE UNCHANGED vars
    BY <1>25 DEF vars, TypeOK, AdTypeOK, AdNewestFirst, AtLeast
  <1> QED
    BY <1>1, <1>2, <1>3, <1>4, <1>5, <1>6, <1>7, <1>8, <1>9, <1>10, <1>11,
        <1>12, <1>13, <1>14, <1>15, <1>16, <1>17, <1>18, <1>19, <1>20, <1>21,
        <1>22, <1>23, <1>24, <1>25 DEF Next, Request, HandlerStep, ListStep,
        GetStep, PutStep, Expiry

\* Newness of records is transitive.
LEMMA AtLeastTransitive ==
  ASSUME NEW r \in Record, NEW s \in Record, NEW t \in Record,
         AtLeast(r, s), AtLeast(s, t)
  PROVE  AtLeast(r, t)
  BY DEF AtLeast

\* The initial state, and every record, is at least the blank one.
LEMMA AtLeastBlank == \A r \in Record : AtLeast(r, Blank)
  BY DEF AtLeast, Blank

\* A bump that adds what an update stored promises no more than the directory
\* holds, if it holds what was promised before and what the update stored.
LEMMA PromiseKept ==
  ASSUME NEW p \in Listing, NEW e \in Employees, NEW w \in Record,
         NEW l \in Listing, AtLeast(l[e], w),
         \A d \in Employees : AtLeast(l[d], p[d])
  PROVE  /\ Promise(p, e, w) \in Listing
         /\ \A d \in Employees : AtLeast(l[d], Promise(p, e, w)[d])
  BY DEF AtLeast, Promise, Larger

\* The directory keeps holding what was promised.
LEMMA AdKeepsPromisesNext ==
  TypeOK /\ AdNewestFirst /\ AdKeepsPromises /\ UpdatesAreInAd /\ [Next]_vars
      => AdKeepsPromises'
  <1> SUFFICES ASSUME TypeOK /\ AdNewestFirst /\ AdKeepsPromises
                          /\ UpdatesAreInAd, [Next]_vars
               PROVE  AdKeepsPromises'
    OBVIOUS
  <1> USE DEF ghostVars
  <1>a. promised' = promised => AdKeepsPromises'
    <2> SUFFICES ASSUME promised' = promised, NEW v \in 1..Len(promised),
                        NEW e \in Employees
                 PROVE  AtLeast(ad'[e], promised[v][e])
      BY DEF AdKeepsPromises
    <2>1. AtLeast(ad'[e], ad[e]) /\ AtLeast(ad[e], promised[v][e])
      BY AdGrows DEF AdKeepsPromises, AdGrown
    <2>2. ad'[e] \in Record /\ ad[e] \in Record /\ promised[v][e] \in Record
      BY AdTypeNext DEF TypeOK, AdTypeOK, HistoryTypeOK
    <2> QED
      BY <2>1, <2>2, AtLeastTransitive
  <1>1. ASSUME NEW h \in Handlers, ListStart(h) PROVE AdKeepsPromises'
    BY <1>1, <1>a DEF ListStart, TypeOK, HistoryTypeOK, cacheVars
  <1>2. ASSUME NEW h \in Handlers, ListHit(h) PROVE AdKeepsPromises'
    BY <1>2, <1>a DEF ListHit, TypeOK, HistoryTypeOK, cacheVars
  <1>3. ASSUME NEW h \in Handlers, ListMiss(h) PROVE AdKeepsPromises'
    BY <1>3, <1>a DEF ListMiss, TypeOK, HistoryTypeOK, cacheVars
  <1>4. ASSUME NEW h \in Handlers, NEW e \in Employees, ListReadEntry(h, e)
        PROVE AdKeepsPromises'
    BY <1>4, <1>a DEF ListReadEntry, TypeOK, HistoryTypeOK, cacheVars
  <1>5. ASSUME NEW h \in Handlers, ListReadError(h) PROVE AdKeepsPromises'
    BY <1>5, <1>a DEF ListReadError, TypeOK, HistoryTypeOK, cacheVars
  <1>6. ASSUME NEW h \in Handlers, ListSet(h) PROVE AdKeepsPromises'
    BY <1>6, <1>a DEF ListSet, TypeOK, HistoryTypeOK, cacheVars
  <1>7. ASSUME NEW h \in Handlers, NEW e \in Employees, GetHit(h, e)
        PROVE AdKeepsPromises'
    BY <1>7, <1>a DEF GetHit, TypeOK, HistoryTypeOK, cacheVars
  <1>8. ASSUME NEW h \in Handlers, NEW e \in Employees, GetMiss(h, e)
        PROVE AdKeepsPromises'
    BY <1>8, <1>a DEF GetMiss, TypeOK, HistoryTypeOK, cacheVars
  <1>9. ASSUME NEW h \in Handlers, GetRead(h) PROVE AdKeepsPromises'
    BY <1>9, <1>a DEF GetRead, TypeOK, HistoryTypeOK, cacheVars
  <1>10. ASSUME NEW h \in Handlers, GetReadError(h) PROVE AdKeepsPromises'
    BY <1>10, <1>a DEF GetReadError, TypeOK, HistoryTypeOK, cacheVars
  <1>11. ASSUME NEW h \in Handlers, GetSet(h) PROVE AdKeepsPromises'
    BY <1>11, <1>a DEF GetSet, TypeOK, HistoryTypeOK, cacheVars
  <1>12. ASSUME NEW h \in Handlers, NEW e \in Employees, NEW S \in Bodies,
        PutStart(h, e, S)
        PROVE AdKeepsPromises'
    BY <1>12, <1>a DEF PutStart, TypeOK, HistoryTypeOK, cacheVars
  <1>13. ASSUME NEW h \in Handlers, PutReadOld(h) PROVE AdKeepsPromises'
    BY <1>13, <1>a DEF PutReadOld, TypeOK, HistoryTypeOK, cacheVars
  <1>14. ASSUME NEW h \in Handlers, PutModifyOK(h) PROVE AdKeepsPromises'
    BY <1>14, <1>a DEF PutModifyOK, TypeOK, HistoryTypeOK, cacheVars
  <1>15. ASSUME NEW h \in Handlers, PutModifyError(h) PROVE AdKeepsPromises'
    BY <1>15, <1>a DEF PutModifyError, TypeOK, HistoryTypeOK, cacheVars
  <1>16. ASSUME NEW h \in Handlers, PutAudit(h) PROVE AdKeepsPromises'
    BY <1>16, <1>a DEF PutAudit, TypeOK, HistoryTypeOK, cacheVars
  <1>17. ASSUME NEW h \in Handlers, PutDelete(h) PROVE AdKeepsPromises'
    BY <1>17, <1>a DEF PutDelete, TypeOK, HistoryTypeOK, cacheVars
  <1>18. ASSUME NEW h \in Handlers, PutBump(h) PROVE AdKeepsPromises'
    <2> DEFINE q == Promise(promised[listVersion + 1], target[h], wrote[h])
    <2>1. /\ promised \in Seq(Listing) /\ Len(promised) = listVersion + 1
          /\ listVersion \in Nat
          /\ target[h] \in Employees /\ wrote[h] \in Record
          /\ ad \in Listing
      BY <1>18 DEF PutBump, TypeOK, HistoryTypeOK, CacheTypeOK, LocalTypeOK,
                   PcTypeOK, AdTypeOK
    <2>2. promised[listVersion + 1] \in Listing
      BY <2>1
    <2>3. /\ AtLeast(ad[target[h]], wrote[h])
          /\ \A d \in Employees : AtLeast(ad[d], promised[listVersion + 1][d])
      BY <2>1 DEF UpdatesAreInAd, AdKeepsPromises
    <2>4. q \in Listing /\ \A d \in Employees : AtLeast(ad[d], q[d])
      BY <2>1, <2>2, <2>3, PromiseKept
    <2>5. /\ promised' = Append(promised, q) /\ ad' = ad
      BY <1>18 DEF PutBump
    <2>6. /\ Len(promised') = Len(promised) + 1
          /\ \A v \in 1..Len(promised) : promised'[v] = promised[v]
          /\ promised'[Len(promised) + 1] = q
      BY <2>1, <2>4, <2>5
    <2> QED
      BY <2>1, <2>4, <2>5, <2>6 DEF AdKeepsPromises
  <1>19. ASSUME NEW h \in Handlers, PutReread(h) PROVE AdKeepsPromises'
    BY <1>19, <1>a DEF PutReread, TypeOK, HistoryTypeOK, cacheVars
  <1>20. ASSUME NEW h \in Handlers, Reply(h) PROVE AdKeepsPromises'
    BY <1>20, <1>a DEF Reply, TypeOK, HistoryTypeOK, cacheVars
  <1>21. ASSUME NEW e \in Employees, ExpireEmployee(e) PROVE AdKeepsPromises'
    BY <1>21, <1>a DEF ExpireEmployee, TypeOK, HistoryTypeOK, cacheVars
  <1>22. ASSUME NEW v \in DOMAIN listCache, ExpireList(v)
        PROVE AdKeepsPromises'
    BY <1>22, <1>a DEF ExpireList, TypeOK, HistoryTypeOK, cacheVars
  <1>23. ASSUME Crash PROVE AdKeepsPromises'
    BY <1>23 DEF Crash, Crash, TypeOK, HistoryTypeOK, CacheTypeOK,
        AdKeepsPromises, ghostVars
  <1>24. ASSUME NEW e \in Employees, NEW a \in OutsideAttrs, OutsideChange(e,
        a)
        PROVE AdKeepsPromises'
    BY <1>24, <1>a DEF OutsideChange, TypeOK, HistoryTypeOK, cacheVars
  <1>25. CASE UNCHANGED vars
    BY <1>25, <1>a DEF vars, TypeOK, HistoryTypeOK, cacheVars
  <1> QED
    BY <1>1, <1>2, <1>3, <1>4, <1>5, <1>6, <1>7, <1>8, <1>9, <1>10, <1>11,
        <1>12, <1>13, <1>14, <1>15, <1>16, <1>17, <1>18, <1>19, <1>20, <1>21,
        <1>22, <1>23, <1>24, <1>25 DEF Next, Request, HandlerStep, ListStep,
        GetStep, PutStep, Expiry

\* The directory keeps holding what updates in progress stored.
LEMMA UpdatesAreInAdNext ==
  TypeOK /\ AdNewestFirst /\ AdKeepsPromises /\ UpdatesAreInAd /\ [Next]_vars
      => UpdatesAreInAd'
  <1> SUFFICES ASSUME TypeOK /\ AdNewestFirst /\ AdKeepsPromises
                          /\ UpdatesAreInAd, [Next]_vars
               PROVE  UpdatesAreInAd'
    OBVIOUS
  <1> USE DEF localVars
  <1> DEFINE NoUpdate == {"idle", "listGet", "listRead", "listSet", "listDone",
                          "getRead", "getSet", "getDone"}
  <1>a. \A h \in Handlers :
          /\ target[h] \in Employees => AtLeast(ad'[target[h]], wrote[h])
          /\ pc[h] \in NoUpdate => wrote[h] = Blank
    <2> SUFFICES ASSUME NEW h \in Handlers, target[h] \in Employees
                 PROVE  AtLeast(ad'[target[h]], wrote[h])
      BY DEF UpdatesAreInAd
    <2>1. AtLeast(ad'[target[h]], ad[target[h]])
      BY AdGrows DEF AdGrown
    <2>2. AtLeast(ad[target[h]], wrote[h])
      BY DEF UpdatesAreInAd
    <2>3. /\ ad'[target[h]] \in Record /\ ad[target[h]] \in Record
          /\ wrote[h] \in Record
      BY AdTypeNext DEF TypeOK, AdTypeOK, LocalTypeOK
    <2> QED
      BY <2>1, <2>2, <2>3, AtLeastTransitive
  <1>b. \A e \in Employees : AtLeast(ad'[e], Blank)
    BY AdTypeNext, AtLeastBlank DEF AdTypeOK
  <1> USE DEF UpdatesAreInAd
  <1>1. ASSUME NEW h \in Handlers, ListStart(h) PROVE UpdatesAreInAd'
    BY <1>1, <1>a DEF ListStart, TypeOK, LocalTypeOK
  <1>2. ASSUME NEW h \in Handlers, ListHit(h) PROVE UpdatesAreInAd'
    BY <1>2, <1>a DEF ListHit, TypeOK, LocalTypeOK
  <1>3. ASSUME NEW h \in Handlers, ListMiss(h) PROVE UpdatesAreInAd'
    BY <1>3, <1>a DEF ListMiss, TypeOK, LocalTypeOK
  <1>4. ASSUME NEW h \in Handlers, NEW e \in Employees, ListReadEntry(h, e)
        PROVE UpdatesAreInAd'
    BY <1>4, <1>a DEF ListReadEntry, TypeOK, LocalTypeOK
  <1>5. ASSUME NEW h \in Handlers, ListReadError(h) PROVE UpdatesAreInAd'
    BY <1>5, <1>a DEF ListReadError, TypeOK, LocalTypeOK
  <1>6. ASSUME NEW h \in Handlers, ListSet(h) PROVE UpdatesAreInAd'
    BY <1>6, <1>a DEF ListSet, TypeOK, LocalTypeOK
  <1>7. ASSUME NEW h \in Handlers, NEW e \in Employees, GetHit(h, e)
        PROVE UpdatesAreInAd'
    BY <1>7, <1>a, <1>b DEF GetHit, TypeOK, LocalTypeOK, UpdatesAreInAd
  <1>8. ASSUME NEW h \in Handlers, NEW e \in Employees, GetMiss(h, e)
        PROVE UpdatesAreInAd'
    BY <1>8, <1>a, <1>b DEF GetMiss, TypeOK, LocalTypeOK, UpdatesAreInAd
  <1>9. ASSUME NEW h \in Handlers, GetRead(h) PROVE UpdatesAreInAd'
    BY <1>9, <1>a DEF GetRead, TypeOK, LocalTypeOK
  <1>10. ASSUME NEW h \in Handlers, GetReadError(h) PROVE UpdatesAreInAd'
    BY <1>10, <1>a, NoneAssumption DEF GetReadError, TypeOK, LocalTypeOK
  <1>11. ASSUME NEW h \in Handlers, GetSet(h) PROVE UpdatesAreInAd'
    BY <1>11, <1>a DEF GetSet, TypeOK, LocalTypeOK
  <1>12. ASSUME NEW h \in Handlers, NEW e \in Employees, NEW S \in Bodies,
        PutStart(h, e, S)
        PROVE UpdatesAreInAd'
    BY <1>12, <1>a, <1>b DEF PutStart, TypeOK, LocalTypeOK, UpdatesAreInAd
  <1>13. ASSUME NEW h \in Handlers, PutReadOld(h) PROVE UpdatesAreInAd'
    BY <1>13, <1>a DEF PutReadOld, TypeOK, LocalTypeOK
  <1>14. ASSUME NEW h \in Handlers, PutModifyOK(h) PROVE UpdatesAreInAd'
    <2> DEFINE a == NextField(todo[h])
               e == target[h]
    <2>1. /\ e \in Employees /\ a \in EditableAttrs
          /\ AdTypeOK /\ Store(e, a, "program")
          /\ Len(mods) + 1 \in Nat
      BY <1>14, NextFieldType
      DEF PutModifyOK, TypeOK, PcTypeOK, LocalTypeOK, AdTypeOK
    <2>2. ad'[e][a] = Len(mods) + 1
      BY <2>1, StoreGrows
    <2>3. /\ target' = target
          /\ wrote' = [wrote EXCEPT ![h][a] = Len(mods) + 1]
          /\ pc' = [pc EXCEPT ![h] = "putAudit"]
      BY <1>14 DEF PutModifyOK
    <2>4. ASSUME NEW g \in Handlers, target'[g] \in Employees
          PROVE  AtLeast(ad'[target'[g]], wrote'[g])
      <3>1. AtLeast(ad'[target[g]], wrote[g])
        BY <1>a, <2>3, <2>4
      <3>2. wrote[g] \in Record
        BY DEF TypeOK, LocalTypeOK
      <3>3. CASE g = h
        BY <2>1, <2>2, <2>3, <3>1, <3>2, <3>3 DEF AtLeast, TypeOK, LocalTypeOK
      <3>4. CASE g # h
        BY <2>3, <3>1, <3>4 DEF TypeOK, LocalTypeOK
      <3> QED
        BY <3>3, <3>4
    <2>5. ASSUME NEW g \in Handlers, pc'[g] \in NoUpdate
          PROVE  wrote'[g] = Blank
      BY <2>3, <2>5 DEF TypeOK, LocalTypeOK, UpdatesAreInAd
    <2> QED
      BY <2>4, <2>5 DEF UpdatesAreInAd
  <1>15. ASSUME NEW h \in Handlers, PutModifyError(h) PROVE UpdatesAreInAd'
    BY <1>15, <1>a DEF PutModifyError, TypeOK, LocalTypeOK
  <1>16. ASSUME NEW h \in Handlers, PutAudit(h) PROVE UpdatesAreInAd'
    BY <1>16, <1>a DEF PutAudit, TypeOK, LocalTypeOK
  <1>17. ASSUME NEW h \in Handlers, PutDelete(h) PROVE UpdatesAreInAd'
    BY <1>17, <1>a DEF PutDelete, TypeOK, LocalTypeOK
  <1>18. ASSUME NEW h \in Handlers, PutBump(h) PROVE UpdatesAreInAd'
    BY <1>18, <1>a DEF PutBump, TypeOK, LocalTypeOK
  <1>19. ASSUME NEW h \in Handlers, PutReread(h) PROVE UpdatesAreInAd'
    BY <1>19, <1>a DEF PutReread, TypeOK, LocalTypeOK
  <1>20. ASSUME NEW h \in Handlers, Reply(h) PROVE UpdatesAreInAd'
    BY <1>20, <1>a, NoneAssumption DEF Reply, TypeOK, LocalTypeOK
  <1>21. ASSUME NEW e \in Employees, ExpireEmployee(e) PROVE UpdatesAreInAd'
    BY <1>21, <1>a DEF ExpireEmployee, TypeOK, LocalTypeOK
  <1>22. ASSUME NEW v \in DOMAIN listCache, ExpireList(v)
        PROVE UpdatesAreInAd'
    BY <1>22, <1>a DEF ExpireList, TypeOK, LocalTypeOK
  <1>23. ASSUME Crash PROVE UpdatesAreInAd'
    BY <1>23, <1>a, NoneAssumption DEF Crash, TypeOK, LocalTypeOK
  <1>24. ASSUME NEW e \in Employees, NEW a \in OutsideAttrs, OutsideChange(e,
        a)
        PROVE UpdatesAreInAd'
    BY <1>24, <1>a DEF OutsideChange, TypeOK, LocalTypeOK
  <1>25. CASE UNCHANGED vars
    BY <1>25, <1>a DEF vars, TypeOK, LocalTypeOK
  <1> QED
    BY <1>1, <1>2, <1>3, <1>4, <1>5, <1>6, <1>7, <1>8, <1>9, <1>10, <1>11,
        <1>12, <1>13, <1>14, <1>15, <1>16, <1>17, <1>18, <1>19, <1>20, <1>21,
        <1>22, <1>23, <1>24, <1>25 DEF Next, Request, HandlerStep, ListStep,
        GetStep, PutStep, Expiry

\* There is nothing to keep at first.
LEMMA ListsKeepPromisesInit == Init => ListsKeepPromises
  BY DEF Init, EmptyCache, ListsKeepPromises, Unread

\* Every listing, cached or half read, keeps what was promised when its version
\* was current: the entries a search adds come from the directory, and a bump
\* opens a new version.
LEMMA ListsKeepPromisesNext ==
  TypeOK /\ AdKeepsPromises /\ ListsKeepPromises /\ [Next]_vars
      => ListsKeepPromises'
  <1> SUFFICES ASSUME TypeOK /\ AdKeepsPromises /\ ListsKeepPromises,
                      [Next]_vars
               PROVE  ListsKeepPromises'
    OBVIOUS
  <1>a. listVersion \in Nat /\ ListsKeepPromises
    BY DEF TypeOK, CacheTypeOK
  <1>b. \A e \in Employees : Unread[e] = None
    BY DEF Unread
  <1>1. ASSUME NEW h \in Handlers, ListStart(h) PROVE ListsKeepPromises'
    BY <1>1, <1>a, <1>b DEF ListStart, TypeOK, CacheTypeOK, LocalTypeOK,
        cacheVars, ghostVars, ListsKeepPromises, Unread
  <1>2. ASSUME NEW h \in Handlers, ListHit(h) PROVE ListsKeepPromises'
    BY <1>2, <1>a DEF ListHit, TypeOK, CacheTypeOK, LocalTypeOK, cacheVars,
        ghostVars, ListsKeepPromises
  <1>3. ASSUME NEW h \in Handlers, ListMiss(h) PROVE ListsKeepPromises'
    BY <1>3, <1>a DEF ListMiss, TypeOK, CacheTypeOK, LocalTypeOK, cacheVars,
        ghostVars, ListsKeepPromises
  <1>4. ASSUME NEW h \in Handlers, NEW e \in Employees, ListReadEntry(h, e)
        PROVE ListsKeepPromises'
    <2>1. AtLeast(ad[e], promised[ver[h] + 1][e])
      BY DEF AdKeepsPromises, ListsKeepPromises, TypeOK, HistoryTypeOK,
             CacheTypeOK, LocalTypeOK
    <2>2. /\ got' = [got EXCEPT ![h][e] = ad[e]] /\ ver' = ver
          /\ pc[h] = "listRead" /\ pc'[h] \in {"listRead", "listSet"}
          /\ \A g \in Handlers \ {h} : pc'[g] = pc[g]
          /\ UNCHANGED <<listCache, listVersion, promised>>
      BY <1>4 DEF ListReadEntry, cacheVars, ghostVars, TypeOK, LocalTypeOK
    <2>3. \A g \in Handlers, d \in Employees :
             got'[g][d] = IF g = h /\ d = e THEN ad[e] ELSE got[g][d]
      BY <2>2 DEF TypeOK, LocalTypeOK
    <2>4. \A g \in Handlers \ {h} : got'[g] = got[g]
      BY <2>2 DEF TypeOK, LocalTypeOK
    <2> QED
      BY <2>1, <2>2, <2>3, <2>4 DEF ListsKeepPromises
  <1>5. ASSUME NEW h \in Handlers, ListReadError(h) PROVE ListsKeepPromises'
    BY <1>5, <1>a, <1>b DEF ListReadError, TypeOK, CacheTypeOK, LocalTypeOK,
        cacheVars, ghostVars, ListsKeepPromises, Unread
  <1>6. ASSUME NEW h \in Handlers, ListSet(h) PROVE ListsKeepPromises'
    <2>1. \A e \in Employees : AtLeast(got[h][e], promised[ver[h] + 1][e])
      BY <1>6, NoneAssumption DEF ListSet, ListsKeepPromises, TypeOK, PcTypeOK
    <2>2. \A v \in DOMAIN listCache' :
            \/ v = ver[h] /\ listCache'[v] = got[h]
            \/ v \in DOMAIN listCache /\ listCache'[v] = listCache[v]
      BY <1>6 DEF ListSet, CacheSet
    <2> QED
      BY <1>6, <2>1, <2>2 DEF ListSet, ListsKeepPromises, ghostVars, TypeOK, LocalTypeOK
  <1>7. ASSUME NEW h \in Handlers, NEW e \in Employees, GetHit(h, e)
        PROVE ListsKeepPromises'
    BY <1>7, <1>a, <1>b DEF GetHit, TypeOK, CacheTypeOK, LocalTypeOK,
        cacheVars, ghostVars, ListsKeepPromises, Unread
  <1>8. ASSUME NEW h \in Handlers, NEW e \in Employees, GetMiss(h, e)
        PROVE ListsKeepPromises'
    BY <1>8, <1>a, <1>b DEF GetMiss, TypeOK, CacheTypeOK, LocalTypeOK,
        cacheVars, ghostVars, ListsKeepPromises, Unread
  <1>9. ASSUME NEW h \in Handlers, GetRead(h) PROVE ListsKeepPromises'
    BY <1>9, <1>a DEF GetRead, TypeOK, CacheTypeOK, LocalTypeOK, cacheVars,
        ghostVars, ListsKeepPromises
  <1>10. ASSUME NEW h \in Handlers, GetReadError(h) PROVE ListsKeepPromises'
    BY <1>10, <1>a, <1>b DEF GetReadError, TypeOK, CacheTypeOK, LocalTypeOK,
        cacheVars, ghostVars, ListsKeepPromises, Unread
  <1>11. ASSUME NEW h \in Handlers, GetSet(h) PROVE ListsKeepPromises'
    BY <1>11, <1>a DEF GetSet, TypeOK, CacheTypeOK, LocalTypeOK, cacheVars,
        ghostVars, ListsKeepPromises
  <1>12. ASSUME NEW h \in Handlers, NEW e \in Employees, NEW S \in Bodies,
        PutStart(h, e, S)
        PROVE ListsKeepPromises'
    BY <1>12, <1>a DEF PutStart, TypeOK, CacheTypeOK, LocalTypeOK, cacheVars,
        ghostVars, ListsKeepPromises
  <1>13. ASSUME NEW h \in Handlers, PutReadOld(h) PROVE ListsKeepPromises'
    BY <1>13, <1>a DEF PutReadOld, TypeOK, CacheTypeOK, LocalTypeOK,
        cacheVars, ghostVars, ListsKeepPromises
  <1>14. ASSUME NEW h \in Handlers, PutModifyOK(h) PROVE ListsKeepPromises'
    BY <1>14, <1>a DEF PutModifyOK, TypeOK, CacheTypeOK, LocalTypeOK,
        cacheVars, ghostVars, ListsKeepPromises
  <1>15. ASSUME NEW h \in Handlers, PutModifyError(h) PROVE ListsKeepPromises'
    BY <1>15, <1>a DEF PutModifyError, TypeOK, CacheTypeOK, LocalTypeOK,
        cacheVars, ghostVars, ListsKeepPromises
  <1>16. ASSUME NEW h \in Handlers, PutAudit(h) PROVE ListsKeepPromises'
    BY <1>16, <1>a DEF PutAudit, TypeOK, CacheTypeOK, LocalTypeOK, cacheVars,
        ghostVars, ListsKeepPromises
  <1>17. ASSUME NEW h \in Handlers, PutDelete(h) PROVE ListsKeepPromises'
    BY <1>17, <1>a DEF PutDelete, TypeOK, CacheTypeOK, LocalTypeOK, cacheVars,
        ghostVars, ListsKeepPromises
  <1>18. ASSUME NEW h \in Handlers, PutBump(h) PROVE ListsKeepPromises'
    <2> DEFINE q == Promise(promised[listVersion + 1], target[h], wrote[h])
    <2>1. /\ promised' = Append(promised, q) /\ listVersion' = listVersion + 1
          /\ UNCHANGED <<listCache, ver, got>>
          /\ pc' = [pc EXCEPT ![h] = "putReread"] /\ pc[h] = "putBump"
      BY <1>18 DEF PutBump
    <2>2. \A v \in 1..Len(promised) : promised'[v] = promised[v]
      BY <2>1 DEF TypeOK, HistoryTypeOK
    <2>3. \A v \in Nat : v <= listVersion => promised'[v + 1] = promised[v + 1]
      BY <2>2 DEF TypeOK, HistoryTypeOK, CacheTypeOK
    <2>4. listVersion' = listVersion + 1
      BY <2>1
    <2>5. /\ listVersion \in Nat /\ DOMAIN listCache \subseteq Nat
          /\ ver \in [Handlers -> Nat]
      BY DEF TypeOK, CacheTypeOK, LocalTypeOK
    <2>6. ASSUME NEW v \in DOMAIN listCache'
          PROVE  /\ v <= listVersion'
                 /\ \A e \in Employees :
                       AtLeast(listCache'[v][e], promised'[v + 1][e])
      <3>1. v \in Nat /\ v <= listVersion /\ listCache' = listCache
        BY <2>1, <2>5 DEF ListsKeepPromises
      <3>2. promised'[v + 1] = promised[v + 1] /\ v <= listVersion'
        BY <2>3, <2>5, <2>4, <3>1
      <3> QED
        BY <3>1, <3>2 DEF ListsKeepPromises
    <2>7. ASSUME NEW g \in Handlers
          PROVE  /\ ver'[g] <= listVersion'
                 /\ promised'[ver'[g] + 1] = promised[ver[g] + 1]
      <3>1. ver[g] \in Nat /\ ver[g] <= listVersion /\ ver' = ver
        BY <2>1, <2>5 DEF ListsKeepPromises
      <3> QED
        BY <2>3, <2>5, <2>4, <3>1
    <2>8. ASSUME NEW g \in Handlers,
                 pc'[g] \notin {"listRead", "listSet", "listDone"}
          PROVE  got'[g] = Unread
      BY <2>1, <2>8 DEF ListsKeepPromises, TypeOK, LocalTypeOK
    <2> QED
      BY <2>1, <2>6, <2>7, <2>8 DEF ListsKeepPromises
  <1>19. ASSUME NEW h \in Handlers, PutReread(h) PROVE ListsKeepPromises'
    BY <1>19, <1>a DEF PutReread, TypeOK, CacheTypeOK, LocalTypeOK, cacheVars,
        ghostVars, ListsKeepPromises
  <1>20. ASSUME NEW h \in Handlers, Reply(h) PROVE ListsKeepPromises'
    BY <1>20, <1>a, <1>b DEF Reply, TypeOK, CacheTypeOK, LocalTypeOK,
        cacheVars, ghostVars, ListsKeepPromises, Unread
  <1>21. ASSUME NEW e \in Employees, ExpireEmployee(e)
        PROVE ListsKeepPromises'
    BY <1>21 DEF ExpireEmployee, ListsKeepPromises, localVars, ghostVars
  <1>22. ASSUME NEW v \in DOMAIN listCache, ExpireList(v)
        PROVE ListsKeepPromises'
    BY <1>22 DEF ExpireList, ListsKeepPromises, localVars, ghostVars,
        CacheDelete, Restrict
  <1>23. ASSUME Crash PROVE ListsKeepPromises'
    BY <1>23 DEF Crash, ListsKeepPromises, EmptyCache, Unread
  <1>24. ASSUME NEW e \in Employees, NEW a \in OutsideAttrs, OutsideChange(e,
        a)
        PROVE ListsKeepPromises'
    BY <1>24 DEF OutsideChange, ListsKeepPromises, localVars, ghostVars,
        cacheVars
  <1>25. CASE UNCHANGED vars
    BY <1>25, <1>a DEF vars, TypeOK, CacheTypeOK, LocalTypeOK, cacheVars,
        ghostVars, ListsKeepPromises
  <1> QED
    BY <1>1, <1>2, <1>3, <1>4, <1>5, <1>6, <1>7, <1>8, <1>9, <1>10, <1>11,
        <1>12, <1>13, <1>14, <1>15, <1>16, <1>17, <1>18, <1>19, <1>20, <1>21,
        <1>22, <1>23, <1>24, <1>25 DEF Next, Request, HandlerStep, ListStep,
        GetStep, PutStep, Expiry

\* The inductive invariant holds at first.
LEMMA ListInvInit == Init => ListInv
  <1> SUFFICES ASSUME Init PROVE ListInv
    OBVIOUS
  <1>1. AdNewestFirst
    BY DEF Init, AdInit, AdNewestFirst
  <1>2. AdKeepsPromises
    BY DEF Init, AdInit, AdKeepsPromises, AtLeast, Blank
  <1>3. UpdatesAreInAd
    BY NoneAssumption DEF Init, UpdatesAreInAd
  <1> QED
    BY <1>1, <1>2, <1>3, TypeInit, ListsKeepPromisesInit DEF ListInv

\* Every step keeps the inductive invariant.
LEMMA ListInvNext == ListInv /\ [Next]_vars => ListInv'
  <1> SUFFICES ASSUME ListInv, [Next]_vars PROVE ListInv'
    OBVIOUS
  <1>1. TypeOK'
    BY AdTypeNext, CacheTypeNext, LocalTypeNext, PcTypeNext, HistoryTypeNext
    DEF ListInv, TypeOK
  <1>2. AdNewestFirst'
    BY AdGrows DEF ListInv
  <1>3. AdKeepsPromises'
    BY AdKeepsPromisesNext DEF ListInv
  <1>4. UpdatesAreInAd'
    BY UpdatesAreInAdNext DEF ListInv
  <1>5. ListsKeepPromises'
    BY ListsKeepPromisesNext DEF ListInv
  <1> QED
    BY <1>1, <1>2, <1>3, <1>4, <1>5 DEF ListInv

\* The inductive invariant behind the next theorem.
THEOREM ListInvariant == Spec => []ListInv
  BY ListInvInit, ListInvNext, PTL DEF Spec

LEMMA ListsServe == ListInv => ListServesCommitted
  BY NoneAssumption
  DEF ListInv, ListsKeepPromises, ListServesCommitted, TypeOK, PcTypeOK

\* A listing served to a client, read or cached, contains every update that
\* was past its version bump when the list request came in, for any number of
\* handlers, employees, edits and restarts.
THEOREM ListsServeCommitted == Spec => []ListServesCommitted
  BY ListInvariant, ListsServe, PTL

-----------------------------------------------------------------------------
(* What was modified stays modified. *)

\* Later modifications do not touch the history of the earlier ones.
ModsKept ==
    /\ Len(mods) \in Nat /\ Len(mods') \in Nat /\ Len(mods) <= Len(mods')
    /\ \A i \in 1..Len(mods) : mods'[i] = mods[i]

\* A store adds to it.
LEMMA StoreKeepsMods ==
  ASSUME AdTypeOK, NEW e, NEW a, NEW by, Store(e, a, by)
  PROVE  ModsKept
  BY DEF AdTypeOK, Store, ModsKept

\* What does not modify the directory leaves it as it is.
LEMMA SameKeepsMods ==
  ASSUME AdTypeOK, UNCHANGED mods PROVE ModsKept
  BY DEF AdTypeOK, ModsKept

\* A step modifies the directory once or not at all.
LEMMA AdMoves ==
  TypeOK /\ [Next]_vars =>
    \/ UNCHANGED adVars
    \/ \E e \in Employees, a \in EditableAttrs, by \in {"program", "outside"} :
          Store(e, a, by)
  <1> SUFFICES ASSUME TypeOK, [Next]_vars, ~UNCHANGED adVars
               PROVE  \E e \in Employees, a \in EditableAttrs,
                         by \in {"program", "outside"} : Store(e, a, by)
    OBVIOUS
  <1> USE DEF adVars
  <1>1. ASSUME NEW h \in Handlers PROVE ~Request(h)
    BY DEF Request, ListStart, GetHit, GetMiss, PutStart
  <1>2. ASSUME NEW h \in Handlers PROVE ~(ListStep(h) \/ GetStep(h) \/ Reply(h))
    BY DEF ListStep, ListHit, ListMiss, ListReadError, ListSet, ListReadEntry,
           GetStep, GetRead, GetReadError, GetSet, Reply
  <1>3. ASSUME NEW h \in Handlers, PutStep(h)
        PROVE  \E e \in Employees, a \in EditableAttrs : Store(e, a, "program")
    <2>1. PutModifyOK(h) \/ PutModifyError(h)
      BY <1>3 DEF PutStep, PutReadOld, PutAudit, PutDelete, PutBump, PutReread
    <2>2. target[h] \in Employees /\ NextField(todo[h]) \in EditableAttrs
      BY <2>1, NextFieldType
      DEF PutModifyOK, PutModifyError, TypeOK, PcTypeOK, LocalTypeOK
    <2> QED
      BY <2>1, <2>2 DEF PutModifyOK, PutModifyError, Refuse
  <1>4. ~(Expiry \/ Crash \/ UNCHANGED vars)
    BY DEF Expiry, ExpireEmployee, ExpireList, Crash, vars
  <1> QED
    BY <1>1, <1>2, <1>3, <1>4, InputAssumption
    DEF Next, HandlerStep, OutsideChange, OutsideEdit

\* So no step touches the history of earlier modifications.
LEMMA DirectoryKeepsMods == TypeOK /\ [Next]_vars => ModsKept
  BY AdMoves, StoreKeepsMods, SameKeepsMods DEF TypeOK, adVars

-----------------------------------------------------------------------------
(* Stale records are late reads. *)

\* What is owed to a record of e after a step, and the invariant in these words.
OwedThen(e, r) ==
    /\ AtLeast(r, promised'[listVersion' + 1][e])
    /\ \A h \in Handlers : pc'[h] = "putBump" /\ target'[h] = e =>
          AtLeast(r, wrote'[h])

StaleThenOnlyIfLate ==
    \A e \in Employees \ late' :
        /\ e \in DOMAIN empCache' => OwedThen(e, empCache'[e])
        /\ \A h \in Handlers : pc'[h] = "getSet" /\ target'[h] = e =>
              OwedThen(e, seen'[h])

\* The two say the same.
LEMMA StaleThen == StaleThenOnlyIfLate => StaleOnlyIfLate'
  BY DEF StaleThenOnlyIfLate, StaleOnlyIfLate, OwedThen, Owed, AtLeast

\* No more is owed to a record of e than before.
OwedStays(e) ==
    /\ promised'[listVersion' + 1][e] = promised[listVersion + 1][e]
    /\ \A h \in Handlers : pc'[h] = "putBump" /\ target'[h] = e =>
          pc[h] = "putBump" /\ target[h] = e /\ wrote'[h] = wrote[h]

\* What met a debt that did not grow still meets it.
LEMMA OwedStill ==
  ASSUME NEW e, NEW r, OwedStays(e), Owed(e, r) PROVE OwedThen(e, r)
  BY DEF OwedStays, Owed, OwedThen

\* Every record in the cache, or on its way there, was one before.
RecordsStay(e) ==
    /\ e \in DOMAIN empCache' => e \in DOMAIN empCache /\ empCache'[e] = empCache[e]
    /\ \A h \in Handlers : pc'[h] = "getSet" /\ target'[h] = e =>
          pc[h] = "getSet" /\ target[h] = e /\ seen'[h] = seen[h]

\* Most steps neither promise anything nor bring a record.
LEMMA StaleStays ==
  ASSUME StaleOnlyIfLate, late' = late,
         \A e \in Employees : OwedStays(e) /\ RecordsStay(e)
  PROVE  StaleOnlyIfLate'
  <1>1. ASSUME NEW e \in Employees \ late, e \in DOMAIN empCache'
        PROVE  OwedThen(e, empCache'[e])
    BY <1>1, OwedStill DEF StaleOnlyIfLate, RecordsStay
  <1>2. ASSUME NEW e \in Employees \ late, NEW h \in Handlers,
               pc'[h] = "getSet", target'[h] = e
        PROVE  OwedThen(e, seen'[h])
    BY <1>2, OwedStill DEF StaleOnlyIfLate, RecordsStay
  <1> QED
    BY <1>1, <1>2, StaleThen DEF StaleThenOnlyIfLate

\* What the directory holds is owed nothing.
LEMMA AdOwesNothing ==
  ASSUME ListInv, NEW e \in Employees PROVE Owed(e, ad[e])
  <1>1. AtLeast(ad[e], promised[listVersion + 1][e])
    BY DEF ListInv, TypeOK, HistoryTypeOK, CacheTypeOK, AdKeepsPromises
  <1>2. \A h \in Handlers : target[h] = e => AtLeast(ad[e], wrote[h])
    BY DEF ListInv, UpdatesAreInAd
  <1> QED
    BY <1>1, <1>2 DEF Owed

\* A step that is not about records.
LEMMA ElsewhereStaleStays ==
  ASSUME ListInv, StaleOnlyIfLate, NEW h \in Handlers,
         UNCHANGED <<empCache, listVersion, late, promised>>,
         \A g \in Handlers \ {h} :
            pc'[g] = pc[g] /\ target'[g] = target[g] /\ seen'[g] = seen[g]
               /\ wrote'[g] = wrote[g],
         pc'[h] \notin {"getSet", "putBump"}
  PROVE  StaleOnlyIfLate'
  <1>1. \A e \in Employees : OwedStays(e) /\ RecordsStay(e)
    BY DEF OwedStays, RecordsStay
  <1> QED
    BY <1>1, StaleStays

\* A read takes its record from the directory.
LEMMA GetReadStale ==
  ASSUME ListInv, StaleOnlyIfLate, NEW h \in Handlers, GetRead(h)
  PROVE  StaleOnlyIfLate'
  <1>1. /\ UNCHANGED <<empCache, listVersion, target, wrote, late, promised>>
        /\ pc' = [pc EXCEPT ![h] = "getSet"]
        /\ seen' = [seen EXCEPT ![h] = ad[target[h]]]
        /\ pc \in [Handlers -> PcLabels] /\ seen \in [Handlers -> Record \cup {None}]
    BY DEF GetRead, cacheVars, ghostVars, ListInv, TypeOK, LocalTypeOK
  <1>2. \A e \in Employees : OwedStays(e)
    BY <1>1 DEF OwedStays
  <1>3. ASSUME NEW e \in Employees \ late, e \in DOMAIN empCache'
        PROVE  OwedThen(e, empCache'[e])
    BY <1>1, <1>2, <1>3, OwedStill DEF StaleOnlyIfLate
  <1>4. ASSUME NEW e \in Employees \ late, NEW g \in Handlers,
               pc'[g] = "getSet", target'[g] = e
        PROVE  OwedThen(e, seen'[g])
    <2>1. CASE g = h
      BY <1>1, <1>2, <1>4, <2>1, AdOwesNothing, OwedStill
    <2>2. CASE g # h
      BY <1>1, <1>2, <1>4, <2>2, OwedStill DEF StaleOnlyIfLate
    <2> QED
      BY <2>1, <2>2
  <1> QED
    BY <1>1, <1>3, <1>4, StaleThen DEF StaleThenOnlyIfLate

\* What a read stores it had in hand.
LEMMA GetSetStale ==
  ASSUME ListInv, StaleOnlyIfLate, NEW h \in Handlers, GetSet(h)
  PROVE  StaleOnlyIfLate'
  <1>1. /\ UNCHANGED <<listVersion, target, seen, wrote, late, promised>>
        /\ pc[h] = "getSet" /\ pc' = [pc EXCEPT ![h] = "getDone"]
        /\ empCache' = CacheSet(empCache, target[h], seen[h])
        /\ pc \in [Handlers -> PcLabels]
    BY DEF GetSet, cacheVars, ghostVars, ListInv, TypeOK, LocalTypeOK
  <1>2. \A e \in Employees : OwedStays(e)
    BY <1>1 DEF OwedStays
  <1>3. ASSUME NEW e \in Employees \ late, e \in DOMAIN empCache'
        PROVE  OwedThen(e, empCache'[e])
    <2>1. CASE e = target[h]
      <3>1. empCache'[e] = seen[h]
        BY <1>1, <1>3, <2>1 DEF CacheSet
      <3> QED
        BY <1>1, <1>2, <2>1, <3>1, OwedStill DEF StaleOnlyIfLate
    <2>2. CASE e # target[h]
      <3>1. e \in DOMAIN empCache /\ empCache'[e] = empCache[e]
        BY <1>1, <1>3, <2>2 DEF CacheSet
      <3> QED
        BY <1>2, <3>1, OwedStill DEF StaleOnlyIfLate
    <2> QED
      BY <2>1, <2>2
  <1>4. ASSUME NEW e \in Employees \ late, NEW g \in Handlers,
               pc'[g] = "getSet", target'[g] = e
        PROVE  OwedThen(e, seen'[g])
    BY <1>1, <1>2, <1>4, OwedStill DEF StaleOnlyIfLate
  <1> QED
    BY <1>1, <1>3, <1>4, StaleThen DEF StaleThenOnlyIfLate

\* The record leaves the cache; who has just read it is late.
LEMMA PutDeleteStale ==
  ASSUME ListInv, StaleOnlyIfLate, NEW h \in Handlers, PutDelete(h)
  PROVE  StaleOnlyIfLate'
  <1>1. /\ UNCHANGED <<listVersion, target, seen, wrote, promised>>
        /\ pc' = [pc EXCEPT ![h] = "putBump"]
        /\ empCache' = CacheDelete(empCache, target[h])
        /\ late' = IF \E g \in Handlers : pc[g] = "getSet" /\ target[g] = target[h]
                   THEN late \cup {target[h]} ELSE late \ {target[h]}
        /\ pc \in [Handlers -> PcLabels]
    BY DEF PutDelete, ListInv, TypeOK, LocalTypeOK
  <1>2. \A e \in Employees : e # target[h] => OwedStays(e) /\ RecordsStay(e)
    BY <1>1 DEF OwedStays, RecordsStay, CacheDelete, Restrict
  <1>3. ASSUME NEW e \in Employees \ late', e # target[h]
        PROVE  /\ e \in DOMAIN empCache' => OwedThen(e, empCache'[e])
               /\ \A g \in Handlers : pc'[g] = "getSet" /\ target'[g] = e =>
                     OwedThen(e, seen'[g])
    <2>1. e \notin late
      BY <1>1, <1>3
    <2> QED
      BY <1>2, <1>3, <2>1, OwedStill DEF StaleOnlyIfLate, RecordsStay
  <1>4. ASSUME target[h] \notin late'
        PROVE  /\ target[h] \notin DOMAIN empCache'
               /\ \A g \in Handlers : ~(pc'[g] = "getSet" /\ target'[g] = target[h])
    <2>1. target[h] \notin DOMAIN empCache'
      BY <1>1 DEF CacheDelete, Restrict
    <2>2. \A g \in Handlers : ~(pc[g] = "getSet" /\ target[g] = target[h])
      BY <1>1, <1>4
    <2> QED
      BY <1>1, <2>1, <2>2
  <1> QED
    BY <1>3, <1>4, StaleThen DEF StaleThenOnlyIfLate

\* What the update stored is owed from here on as a promise.
LEMMA PutBumpStale ==
  ASSUME ListInv, StaleOnlyIfLate, NEW h \in Handlers, PutBump(h)
  PROVE  StaleOnlyIfLate'
  <1> DEFINE p == promised[listVersion + 1]
             t == target[h]
  <1>1. /\ UNCHANGED <<empCache, target, seen, wrote, late>>
        /\ pc[h] = "putBump" /\ pc' = [pc EXCEPT ![h] = "putReread"]
        /\ listVersion' = listVersion + 1
        /\ promised' = Append(promised, Promise(p, t, wrote[h]))
        /\ pc \in [Handlers -> PcLabels] /\ listVersion \in Nat
        /\ promised \in Seq(Listing) /\ Len(promised) = listVersion + 1
        /\ t \in Employees /\ wrote[h] \in Record
    BY DEF PutBump, ListInv, TypeOK, LocalTypeOK, CacheTypeOK, HistoryTypeOK, PcTypeOK
  <1>2. promised'[listVersion' + 1] = Promise(p, t, wrote[h])
    BY <1>1
  <1>3. p \in Listing
    BY <1>1
  <1> HIDE DEF p
  <1>4. ASSUME NEW e \in Employees, NEW r, Owed(e, r) PROVE OwedThen(e, r)
    <2>1. AtLeast(r, p[e])
      BY <1>4 DEF Owed, p
    <2>2. AtLeast(r, Promise(p, t, wrote[h])[e])
      <3>1. CASE e = t
        <4>1. AtLeast(r, wrote[h])
          BY <1>1, <1>4, <3>1 DEF Owed
        <4> QED
          BY <1>1, <1>3, <2>1, <3>1, <4>1 DEF AtLeast, Promise, Larger
      <3>2. CASE e # t
        BY <1>3, <2>1, <3>2 DEF Promise
      <3> QED
        BY <3>1, <3>2
    <2>3. \A g \in Handlers : pc'[g] = "putBump" /\ target'[g] = e => AtLeast(r, wrote'[g])
      BY <1>1, <1>4 DEF Owed
    <2> QED
      BY <1>2, <2>2, <2>3 DEF OwedThen
  <1>5. ASSUME NEW e \in Employees \ late, e \in DOMAIN empCache'
        PROVE  OwedThen(e, empCache'[e])
    BY <1>1, <1>4, <1>5 DEF StaleOnlyIfLate
  <1>6. ASSUME NEW e \in Employees \ late, NEW g \in Handlers,
               pc'[g] = "getSet", target'[g] = e
        PROVE  OwedThen(e, seen'[g])
    BY <1>1, <1>4, <1>6 DEF StaleOnlyIfLate
  <1> QED
    BY <1>1, <1>5, <1>6, StaleThen DEF StaleThenOnlyIfLate

\* Every step keeps it.
LEMMA StaleNext == ListInv /\ StaleOnlyIfLate /\ [Next]_vars => StaleOnlyIfLate'
  <1> SUFFICES ASSUME ListInv, StaleOnlyIfLate, [Next]_vars PROVE StaleOnlyIfLate'
    OBVIOUS
  <1> USE DEF cacheVars, ghostVars
  <1>0. /\ pc \in [Handlers -> PcLabels]
        /\ target \in [Handlers -> Employees \cup {None}]
        /\ seen \in [Handlers -> Record \cup {None}]
        /\ wrote \in [Handlers -> Record]
    BY DEF ListInv, TypeOK, LocalTypeOK
  <1>1. ASSUME NEW h \in Handlers, Request(h) PROVE StaleOnlyIfLate'
    <2>1. ASSUME NEW e \in Employees, NEW S \in Bodies, PutStart(h, e, S)
          PROVE  StaleOnlyIfLate'
      BY <1>0, <2>1, ElsewhereStaleStays DEF PutStart
    <2>2. ASSUME ListStart(h) PROVE StaleOnlyIfLate'
      BY <1>0, <2>2, ElsewhereStaleStays DEF ListStart
    <2>3. ASSUME NEW e \in Employees, GetHit(h, e) \/ GetMiss(h, e)
          PROVE  StaleOnlyIfLate'
      BY <1>0, <2>3, ElsewhereStaleStays DEF GetHit, GetMiss
    <2> QED
      BY <1>1, <2>1, <2>2, <2>3 DEF Request
  <1>2. ASSUME NEW h \in Handlers, ListStep(h) PROVE StaleOnlyIfLate'
    BY <1>0, <1>2, ElsewhereStaleStays
    DEF ListStep, ListHit, ListMiss, ListReadError, ListSet, ListReadEntry
  <1>3. ASSUME NEW h \in Handlers, GetStep(h) PROVE StaleOnlyIfLate'
    <2>1. CASE GetReadError(h)
      BY <1>0, <2>1, ElsewhereStaleStays DEF GetReadError
    <2> QED
      BY <1>3, <2>1, GetReadStale, GetSetStale DEF GetStep
  <1>4. ASSUME NEW h \in Handlers, PutStep(h) PROVE StaleOnlyIfLate'
    <2>1. CASE PutReadOld(h) \/ PutAudit(h) \/ PutReread(h)
      BY <1>0, <2>1, ElsewhereStaleStays DEF PutReadOld, PutAudit, PutReread
    <2>2. CASE PutModifyOK(h) \/ PutModifyError(h)
      BY <1>0, <2>2, ElsewhereStaleStays DEF PutModifyOK, PutModifyError
    <2> QED
      BY <1>4, <2>1, <2>2, PutDeleteStale, PutBumpStale DEF PutStep
  <1>5. ASSUME NEW h \in Handlers, Reply(h) PROVE StaleOnlyIfLate'
    BY <1>0, <1>5, ElsewhereStaleStays DEF Reply
  <1>6. ASSUME Expiry PROVE StaleOnlyIfLate'
    <2>1. /\ late' = late
          /\ \A e \in Employees : OwedStays(e) /\ RecordsStay(e)
      BY <1>6 DEF Expiry, ExpireEmployee, ExpireList, localVars, OwedStays,
         RecordsStay, CacheDelete, Restrict
    <2> QED
      BY <2>1, StaleStays
  <1>7. ASSUME Crash PROVE StaleOnlyIfLate'
    BY <1>7, StaleThen DEF Crash, EmptyCache, StaleThenOnlyIfLate
  <1>8. ASSUME UNCHANGED vars
               \/ \E e \in Employees, a \in OutsideAttrs : OutsideChange(e, a)
        PROVE  StaleOnlyIfLate'
    <2>1. UNCHANGED <<empCache, listVersion, pc, target, seen, wrote, late, promised>>
      BY <1>8 DEF OutsideChange, vars, localVars
    <2> QED
      BY <2>1, StaleStays DEF OwedStays, RecordsStay
  <1> QED
    BY <1>1, <1>2, <1>3, <1>4, <1>5, <1>6, <1>7, <1>8 DEF Next, HandlerStep

\* A record older than an update past its delete is in the cache, or about to
\* go there, only when a read had it in hand while an update invalidated it,
\* for any number of handlers, employees, edits and restarts.
THEOREM StaleRecordsAreLate == Spec => []StaleOnlyIfLate
  <1>1. Init => StaleOnlyIfLate
    BY DEF Init, EmptyCache, StaleOnlyIfLate
  <1> QED
    BY <1>1, ListInvariant, StaleNext, PTL DEF Spec

-----------------------------------------------------------------------------
(* The trail and the directory agree. *)

\* What the trail's invariant needs of the rest of the state.
TrailBase == TypeOK /\ AdNewestFirst /\ TrailIsTrue

\* What was held, or made, was held or made still when there are more
\* modifications.
WasHeldThen(value, dn, attr) ==
    value # 0 => /\ value \in 1..Len(mods')
                 /\ mods'[value].dn = dn /\ mods'[value].attr = attr

MadeToThen(new, dn, attr) ==
    /\ new \in 1..Len(mods') /\ mods'[new].by = "program"
    /\ mods'[new].dn = dn /\ mods'[new].attr = attr

\* History only grows.
LEMMA HistoryStays ==
  ASSUME ModsKept
  PROVE  /\ \A v, d, a : WasHeld(v, d, a) => WasHeldThen(v, d, a)
         /\ \A v, d, a : MadeTo(v, d, a) => MadeToThen(v, d, a)
         /\ \A v, d, a : MadeTo(v, d, a) => mods'[v].old = mods[v].old
  BY DEF ModsKept, WasHeld, WasHeldThen, MadeTo, MadeToThen

\* Every value in the directory is named by the modification that stored it.
LEMMA StoreIsNamed ==
  ASSUME AdTypeOK, AdIsNamed, NEW e \in Employees, NEW a \in EditableAttrs,
         NEW by \in {"program", "outside"}, Store(e, a, by)
  PROVE  AdIsNamed'
  <1>1. /\ Len(mods) \in Nat /\ Len(mods') = Len(mods) + 1
        /\ mods'[Len(mods) + 1] = [dn |-> e, attr |-> a, old |-> ad[e][a], by |-> by]
        /\ \A d \in Employees, b \in EditableAttrs :
              ad'[d][b] = IF d = e /\ b = a THEN Len(mods) + 1 ELSE ad[d][b]
    BY DEF AdTypeOK, Store
  <1>2. ModsKept
    BY StoreKeepsMods
  <1>3. ASSUME NEW d \in Employees, NEW b \in EditableAttrs
        PROVE  WasHeldThen(ad'[d][b], d, b)
    <2>1. CASE d = e /\ b = a
      BY <1>1, <2>1 DEF WasHeldThen
    <2>2. CASE ~(d = e /\ b = a)
      BY <1>1, <1>2, <2>2, HistoryStays DEF AdIsNamed
    <2> QED
      BY <2>1, <2>2
  <1> QED
    BY <1>3 DEF AdIsNamed, WasHeld, WasHeldThen

LEMMA AdIsNamedNext ==
  ASSUME TypeOK, AdIsNamed, [Next]_vars PROVE AdIsNamed'
  <1>1. CASE UNCHANGED adVars
    BY <1>1 DEF adVars, AdIsNamed, WasHeld
  <1> QED
    BY <1>1, AdMoves, StoreIsNamed DEF TypeOK

\* What the trail already says stays true.
EventIsTrue(ev) ==
    /\ ev.ok => ev.new # 0
    /\ ev.new # 0 => MadeTo(ev.new, ev.dn, ev.attr)
    /\ ev.ok /\ ev.old # None =>
          ev.old <= mods[ev.new].old /\ WasHeld(ev.old, ev.dn, ev.attr)

EventIsTrueThen(ev) ==
    /\ ev.ok => ev.new # 0
    /\ ev.new # 0 => MadeToThen(ev.new, ev.dn, ev.attr)
    /\ ev.ok /\ ev.old # None =>
          ev.old <= mods'[ev.new].old /\ WasHeldThen(ev.old, ev.dn, ev.attr)

\* No step makes an event false.
LEMMA EventsStayTrue ==
  ASSUME TrailIsTrue, ModsKept PROVE \A ev \in audit : EventIsTrueThen(ev)
  BY HistoryStays DEF TrailIsTrue, EventsWereMade, AuditedOldWasHeld, EventIsTrueThen

\* What the handlers have in hand, before and after.
HandIsTrueThen(h) ==
    /\ pc'[h] = "putAudit" =>
          /\ last'[h].ok => last'[h].value # 0
          /\ last'[h].value # 0 =>
                MadeToThen(last'[h].value, target'[h], NextField(todo'[h]))
    /\ pc'[h] \in {"putModify", "putAudit"} /\ seen'[h] # None =>
          /\ \A a \in EditableAttrs :
                /\ WasHeldThen(seen'[h][a], target'[h], a)
                /\ seen'[h][a] <= ad'[target'[h]][a]
          /\ pc'[h] = "putAudit" /\ last'[h].value # 0 =>
                seen'[h][NextField(todo'[h])] <= mods'[last'[h].value].old

\* A handler that did not move keeps what it has in hand.
SameHand(h) ==
    /\ pc'[h] = pc[h] /\ target'[h] = target[h] /\ todo'[h] = todo[h]
    /\ seen'[h] = seen[h] /\ last'[h] = last[h]

\* Nor what a handler that did not move has in hand.
LEMMA HandStaysTrue ==
  ASSUME TypeOK, AdTypeOK', TrailIsTrue, ModsKept, AdGrown,
         NEW h \in Handlers, SameHand(h)
  PROVE  HandIsTrueThen(h)
  <1> USE DEF SameHand
  <1>1. CASE pc[h] \in {"putModify", "putAudit"}
    <2>1. /\ target[h] \in Employees /\ NextField(todo[h]) \in EditableAttrs
          /\ seen[h] # None => seen[h] \in Record
          /\ ad \in Listing /\ ad' \in Listing
      BY <1>1, NextFieldType DEF TypeOK, AdTypeOK, PcTypeOK, LocalTypeOK
    <2>2. \A a \in EditableAttrs : ad[target[h]][a] <= ad'[target[h]][a]
      BY <2>1 DEF AdGrown, AtLeast
    <2>3. ASSUME pc[h] = "putAudit"
          PROVE  /\ last[h].ok => last[h].value # 0
                 /\ last[h].value # 0 =>
                       MadeTo(last[h].value, target[h], NextField(todo[h]))
      BY <2>3 DEF TrailIsTrue, HandlersNameTheirs
    <2>4. ASSUME seen[h] # None
          PROVE  /\ \A a \in EditableAttrs :
                       /\ WasHeld(seen[h][a], target[h], a)
                       /\ seen[h][a] <= ad[target[h]][a]
                 /\ pc[h] = "putAudit" /\ last[h].value # 0 =>
                       seen[h][NextField(todo[h])] <= mods[last[h].value].old
      BY <1>1, <2>4 DEF TrailIsTrue, OldValuesWereHeld
    <2>5. ASSUME seen[h] # None, NEW a \in EditableAttrs
          PROVE  seen[h][a] <= ad'[target[h]][a]
      <3>1. seen[h][a] \in Nat /\ ad[target[h]][a] \in Nat /\ ad'[target[h]][a] \in Nat
        BY <2>1, <2>5
      <3>2. seen[h][a] <= ad[target[h]][a] /\ ad[target[h]][a] <= ad'[target[h]][a]
        BY <2>2, <2>4, <2>5
      <3> QED
        BY <3>1, <3>2
    <2>6. /\ pc[h] = "putAudit" =>
               /\ last[h].ok => last[h].value # 0
               /\ last[h].value # 0 =>
                     /\ MadeToThen(last[h].value, target[h], NextField(todo[h]))
                     /\ mods'[last[h].value].old = mods[last[h].value].old
      BY <2>3, HistoryStays
    <2>7. seen[h] # None =>
            \A a \in EditableAttrs : WasHeldThen(seen[h][a], target[h], a)
      BY <2>4, HistoryStays
    <2> QED
      BY <2>4, <2>5, <2>6, <2>7 DEF HandIsTrueThen
  <1>2. CASE pc[h] \notin {"putModify", "putAudit"}
    BY <1>2 DEF HandIsTrueThen
  <1> QED
    BY <1>1, <1>2

\* A handler that is about to write or to audit nothing has nothing in hand.
LEMMA EmptyHand ==
  ASSUME NEW h \in Handlers, pc'[h] \notin {"putModify", "putAudit"}
  PROVE  HandIsTrueThen(h)
  BY DEF HandIsTrueThen

\* Modifications are finitely many, and so are those the trail misses.
LEMMA UnauditedFinite ==
  ASSUME TypeOK
  PROVE  IsFiniteSet(Unaudited) /\ Cardinality(Unaudited) \in Nat
  <1>1. Len(mods) \in Nat
    BY DEF TypeOK, AdTypeOK
  <1>2. IsFiniteSet(1..Len(mods))
    BY <1>1, FS_Interval
  <1>3. Unaudited \subseteq 1..Len(mods)
    BY DEF Unaudited
  <1> QED
    BY <1>2, <1>3, FS_Subset, FS_CardinalityType

\* A step that loses no modification keeps the bound on those the trail misses.
LEMMA CountStays ==
  ASSUME TypeOK, TrailMatchesDirectory, Unaudited' \subseteq Unaudited,
         crashes' = crashes
  PROVE  (Cardinality(Unaudited) <= crashes * Cardinality(Handlers))'
  <1>1. /\ IsFiniteSet(Unaudited) /\ Cardinality(Unaudited) \in Nat
        /\ Cardinality(Unaudited) <= crashes * Cardinality(Handlers)
    BY UnauditedFinite DEF TrailMatchesDirectory
  <1>2. /\ Cardinality(Unaudited') \in Nat
        /\ Cardinality(Unaudited') <= Cardinality(Unaudited)
    BY <1>1, FS_Subset, FS_CardinalityType
  <1>3. Cardinality(Handlers) \in Nat /\ crashes \in Nat
    BY FS_CardinalityType, HandlersAssumption DEF TypeOK, HistoryTypeOK
  <1>4. crashes * Cardinality(Handlers) \in Nat
    BY <1>3
  <1>5. Cardinality(Unaudited') <= crashes * Cardinality(Handlers)
    BY <1>1, <1>2, <1>4
  <1> QED
    BY <1>5

\* The parts of the invariant, after a step.
LEMMA TrailThen ==
  ASSUME AdIsNamed', \A ev \in audit' : EventIsTrueThen(ev),
         \A h \in Handlers : HandIsTrueThen(h)
  PROVE  TrailIsTrue'
  <1>1. HandlersNameTheirs'
    BY DEF HandIsTrueThen, HandlersNameTheirs, MadeTo, MadeToThen
  <1>2. OldValuesWereHeld'
    BY DEF HandIsTrueThen, OldValuesWereHeld, WasHeld, WasHeldThen
  <1>3. AuditedOldWasHeld'
    BY DEF EventIsTrueThen, AuditedOldWasHeld, WasHeld, WasHeldThen
  <1>4. EventsWereMade'
    BY DEF EventIsTrueThen, EventsWereMade, MadeTo, MadeToThen
  <1> QED
    BY <1>1, <1>2, <1>3, <1>4 DEF TrailIsTrue

\* What every step does, as far as the trail is concerned.
TrailMoves ==
    TypeOK /\ AdTypeOK' /\ TrailIsTrue /\ AdIsNamed' /\ ModsKept /\ AdGrown

\* Every step does.
LEMMA StepMovesTrail == TrailBase /\ [Next]_vars => TrailMoves
  BY AdTypeNext, AdIsNamedNext, DirectoryKeepsMods, AdGrows
  DEF TrailBase, TrailMoves, TrailIsTrue

\* What every step but a restart keeps.
TrailKept == TrailIsTrue' /\ Unaudited' \subseteq Unaudited /\ crashes' = crashes

\* A step without modification, event or restart in which no handler comes to
\* a write or leaves an audit.
LEMMA QuietKeepsTrail ==
  ASSUME TrailMoves, UNCHANGED <<mods, audit, crashes>>,
         \A h \in Handlers :
            \/ SameHand(h)
            \/ pc[h] # "putAudit" /\ pc'[h] \notin {"putModify", "putAudit"}
  PROVE  TrailKept
  <1> USE DEF TrailMoves
  <1>1. \A h \in Handlers : HandIsTrueThen(h)
    BY HandStaysTrue, EmptyHand
  <1>2. \A ev \in audit' : EventIsTrueThen(ev)
    BY EventsStayTrue
  <1>3. Unaudited' \subseteq Unaudited
    BY DEF Unaudited, SameHand
  <1> QED
    BY <1>1, <1>2, <1>3, TrailThen DEF TrailKept

\* The old values are those of the directory, or unknown.
LEMMA PutReadOldTrail ==
  ASSUME TrailMoves, NEW h \in Handlers, PutReadOld(h) PROVE TrailKept
  <1> USE DEF TrailMoves
  <1>1. PICK r \in {ad[target[h]], None} : seen' = [seen EXCEPT ![h] = r]
    BY DEF PutReadOld
  <1>2. /\ UNCHANGED <<ad, mods, audit, crashes, target, todo, last>>
        /\ pc[h] = "putOld" /\ pc'[h] \in {"putDelete", "putModify"} /\ seen'[h] = r
        /\ \A g \in Handlers \ {h} : SameHand(g)
        /\ target[h] \in Employees /\ ad \in Listing
    BY <1>1 DEF PutReadOld, ghostVars, TypeOK, LocalTypeOK, PcTypeOK, AdTypeOK, SameHand
  <1>3. HandIsTrueThen(h)
    <2>1. ASSUME r # None, NEW a \in EditableAttrs
          PROVE  WasHeldThen(r[a], target[h], a) /\ r[a] <= ad[target[h]][a]
      <3>1. r = ad[target[h]] /\ r[a] \in Nat
        BY <1>2, <2>1
      <3>2. WasHeld(r[a], target[h], a)
        BY <1>2, <3>1 DEF TrailIsTrue, AdIsNamed
      <3> QED
        BY <3>1, <3>2, HistoryStays
    <2> QED
      BY <1>2, <2>1 DEF HandIsTrueThen
  <1>4. \A g \in Handlers : HandIsTrueThen(g)
    BY <1>2, <1>3, HandStaysTrue
  <1>5. \A ev \in audit' : EventIsTrueThen(ev)
    BY <1>2, EventsStayTrue
  <1>6. Unaudited' \subseteq Unaudited
    BY <1>2 DEF Unaudited, SameHand
  <1> QED
    BY <1>2, <1>4, <1>5, <1>6, TrailThen DEF TrailKept

\* The directory makes a modification, whatever it answers: the handler holds
\* its name.
LEMMA ModifyTrail ==
  ASSUME TrailMoves, NEW h \in Handlers, pc[h] = "putModify", NEW ok \in BOOLEAN,
         Store(target[h], NextField(todo[h]), "program"),
         last' = [last EXCEPT ![h] = [value |-> Len(mods) + 1, ok |-> ok]],
         pc' = [pc EXCEPT ![h] = "putAudit"],
         UNCHANGED <<target, seen, todo, audit, crashes>>
  PROVE  TrailKept
  <1> DEFINE n == Len(mods) + 1
             a == NextField(todo[h])
             e == target[h]
  <1> USE DEF TrailMoves
  <1>1. /\ e \in Employees /\ a \in EditableAttrs /\ n \in Nat /\ n # 0
        /\ seen[h] # None => seen[h] \in Record
        /\ ad \in Listing /\ ad' \in Listing
    BY NextFieldType DEF TypeOK, LocalTypeOK, PcTypeOK, AdTypeOK
  <1>2. /\ Len(mods') = n
        /\ mods'[n] = [dn |-> e, attr |-> a, old |-> ad[e][a], by |-> "program"]
    BY DEF Store, TypeOK, AdTypeOK
  <1>3. /\ pc'[h] = "putAudit" /\ last'[h].value = n
        /\ \A g \in Handlers \ {h} : SameHand(g)
    BY DEF TypeOK, LocalTypeOK, SameHand
  <1> HIDE DEF n, a, e
  <1>4. HandIsTrueThen(h)
    <2>1. MadeToThen(n, e, a) /\ mods'[n].old = ad[e][a]
      BY <1>1, <1>2 DEF MadeToThen
    <2>2. ASSUME seen[h] # None
          PROVE  \A b \in EditableAttrs :
                    /\ WasHeldThen(seen[h][b], e, b)
                    /\ seen[h][b] <= ad[e][b]
      BY <2>2, HistoryStays DEF TrailIsTrue, OldValuesWereHeld, e
    <2>3. ASSUME seen[h] # None, NEW b \in EditableAttrs
          PROVE  seen[h][b] <= ad'[e][b]
      <3>1. seen[h][b] \in Nat /\ ad[e][b] \in Nat /\ ad'[e][b] \in Nat
        BY <1>1, <2>3
      <3>2. ad[e][b] <= ad'[e][b]
        BY <1>1, <2>3 DEF AdGrown, AtLeast
      <3> QED
        BY <2>2, <2>3, <3>1, <3>2
    <2> QED
      BY <1>1, <1>3, <2>1, <2>2, <2>3 DEF HandIsTrueThen, a, e
  <1>5. \A g \in Handlers : HandIsTrueThen(g)
    BY <1>3, <1>4, HandStaysTrue
  <1>6. \A ev \in audit' : EventIsTrueThen(ev)
    BY EventsStayTrue
  <1>7. Unaudited' \subseteq Unaudited
    <2> SUFFICES ASSUME NEW i \in Unaudited' PROVE i \in Unaudited
      OBVIOUS
    <2>1. /\ i \in 1..Len(mods') /\ mods'[i].by = "program"
          /\ ~\E ev \in audit :
                ev.new = i /\ ev.dn = mods'[i].dn /\ ev.attr = mods'[i].attr
          /\ ~\E g \in Handlers : pc'[g] = "putAudit" /\ last'[g].value = i
      BY DEF Unaudited
    <2>2. i # n
      BY <1>3, <2>1
    <2>3. i \in 1..Len(mods)
      BY <1>1, <1>2, <2>1, <2>2 DEF n, TypeOK, AdTypeOK
    <2>4. mods'[i] = mods[i]
      BY <2>3 DEF ModsKept
    <2>5. ~\E g \in Handlers : pc[g] = "putAudit" /\ last[g].value = i
      BY <1>3, <2>1 DEF SameHand
    <2> QED
      BY <2>1, <2>3, <2>4, <2>5 DEF Unaudited
  <1> QED
    BY <1>5, <1>6, <1>7, TrailThen DEF TrailKept

\* Nothing was modified, and the handler is about to say that.
LEMMA RefusedTrail ==
  ASSUME TrailMoves, NEW h \in Handlers, pc[h] = "putModify",
         UNCHANGED <<ad, mods, target, seen, todo, audit, crashes>>,
         last' = [last EXCEPT ![h] = [value |-> 0, ok |-> FALSE]],
         pc' = [pc EXCEPT ![h] = "putAudit"]
  PROVE  TrailKept
  <1> USE DEF TrailMoves
  <1>1. /\ pc'[h] = "putAudit" /\ last'[h].value = 0 /\ ~last'[h].ok
        /\ \A g \in Handlers \ {h} : SameHand(g)
    BY DEF TypeOK, LocalTypeOK, SameHand
  <1>2. HandIsTrueThen(h)
    BY <1>1, HistoryStays DEF HandIsTrueThen, TrailIsTrue, OldValuesWereHeld
  <1>3. \A g \in Handlers : HandIsTrueThen(g)
    BY <1>1, <1>2, HandStaysTrue
  <1>4. \A ev \in audit' : EventIsTrueThen(ev)
    BY EventsStayTrue
  <1>5. Unaudited' \subseteq Unaudited
    BY <1>1 DEF Unaudited, SameHand
  <1> QED
    BY <1>3, <1>4, <1>5, TrailThen DEF TrailKept

\* The event says what the handler had in hand.
LEMMA PutAuditTrail ==
  ASSUME TrailMoves, NEW h \in Handlers, PutAudit(h) PROVE TrailKept
  <1> DEFINE a == NextField(todo[h])
             e == target[h]
             ev == [dn |-> e, attr |-> a, old |-> OldValue(h, a),
                    new |-> last[h].value, ok |-> last[h].ok]
  <1> USE DEF TrailMoves
  <1>1. /\ UNCHANGED <<ad, mods, crashes>> /\ audit' = audit \cup {ev}
        /\ pc[h] = "putAudit" /\ pc'[h] \in {"putDone", "putDelete", "putModify"}
        /\ UNCHANGED <<target, seen, last>>
        /\ \A g \in Handlers \ {h} : SameHand(g)
        /\ a \in EditableAttrs
    BY NextFieldType DEF PutAudit, ghostVars, TypeOK, LocalTypeOK, SameHand
  <1>2. /\ last[h].ok => last[h].value # 0
        /\ last[h].value # 0 => MadeTo(last[h].value, e, a)
    BY <1>1 DEF TrailIsTrue, HandlersNameTheirs
  <1>3. seen[h] # None =>
          /\ \A b \in EditableAttrs :
                WasHeld(seen[h][b], e, b) /\ seen[h][b] <= ad[e][b]
          /\ last[h].value # 0 => seen[h][a] <= mods[last[h].value].old
    BY <1>1 DEF TrailIsTrue, OldValuesWereHeld
  <1> HIDE DEF a
  <1>4. EventIsTrueThen(ev)
    <2>1. ev.old # None => seen[h] # None /\ ev.old = seen[h][a]
      BY DEF OldValue
    <2>2. last[h].value # 0 =>
            /\ MadeToThen(last[h].value, e, a)
            /\ mods'[last[h].value].old = mods[last[h].value].old
      BY <1>2, HistoryStays
    <2>3. seen[h] # None => WasHeldThen(seen[h][a], e, a)
      BY <1>1, <1>3, HistoryStays
    <2> QED
      BY <1>2, <1>3, <2>1, <2>2, <2>3 DEF EventIsTrueThen
  <1>5. \A x \in audit' : EventIsTrueThen(x)
    BY <1>1, <1>4, EventsStayTrue
  <1>6. HandIsTrueThen(h)
    BY <1>1, <1>3, HistoryStays DEF HandIsTrueThen
  <1>7. \A g \in Handlers : HandIsTrueThen(g)
    BY <1>1, <1>6, HandStaysTrue
  <1>8. Unaudited' \subseteq Unaudited
    <2> SUFFICES ASSUME NEW i \in Unaudited' PROVE i \in Unaudited
      OBVIOUS
    <2>1. /\ i \in 1..Len(mods) /\ mods[i].by = "program"
          /\ ~\E x \in audit' :
                x.new = i /\ x.dn = mods[i].dn /\ x.attr = mods[i].attr
          /\ ~\E g \in Handlers : pc'[g] = "putAudit" /\ last'[g].value = i
      BY <1>1 DEF Unaudited
    <2>2. ~(ev.new = i /\ ev.dn = mods[i].dn /\ ev.attr = mods[i].attr)
      BY <1>1, <2>1
    <2>3. i # 0
      BY <2>1 DEF TypeOK, AdTypeOK
    <2>4. last[h].value # i
      BY <1>2, <2>2, <2>3 DEF MadeTo
    <2>5. ~\E g \in Handlers : pc[g] = "putAudit" /\ last[g].value = i
      BY <1>1, <2>1, <2>4 DEF SameHand
    <2> QED
      BY <1>1, <2>1, <2>5 DEF Unaudited
  <1> QED
    BY <1>1, <1>5, <1>7, <1>8, TrailThen DEF TrailKept

\* An administrator's edit is not the program's to audit.
LEMMA OutsideTrail ==
  ASSUME TrailMoves, NEW e \in Employees, NEW a \in OutsideAttrs, OutsideChange(e, a)
  PROVE  TrailKept
  <1> USE DEF TrailMoves
  <1>1. /\ UNCHANGED <<audit, crashes, pc, target, seen, todo, last>>
        /\ Len(mods) \in Nat /\ Len(mods') = Len(mods) + 1
        /\ mods'[Len(mods) + 1].by = "outside"
    BY DEF OutsideChange, OutsideEdit, Store, localVars, ghostVars, TypeOK, AdTypeOK
  <1>2. \A g \in Handlers : HandIsTrueThen(g)
    BY <1>1, HandStaysTrue DEF SameHand
  <1>3. \A ev \in audit' : EventIsTrueThen(ev)
    BY <1>1, EventsStayTrue
  <1>4. Unaudited' \subseteq Unaudited
    <2> SUFFICES ASSUME NEW i \in Unaudited' PROVE i \in Unaudited
      OBVIOUS
    <2>1. i \in 1..Len(mods') /\ mods'[i].by = "program"
      BY DEF Unaudited
    <2>2. i # Len(mods) + 1
      BY <1>1, <2>1
    <2>3. i \in 1..Len(mods) /\ mods'[i] = mods[i]
      BY <1>1, <2>1, <2>2 DEF ModsKept
    <2> QED
      BY <1>1, <2>3 DEF Unaudited
  <1> QED
    BY <1>1, <1>2, <1>3, <1>4, TrailThen DEF TrailKept

\* After a restart there is nothing in hand.
LEMMA CrashTrail ==
  ASSUME TrailMoves, Crash PROVE TrailIsTrue'
  <1> USE DEF TrailMoves
  <1>1. UNCHANGED <<mods, audit>> /\ \A h \in Handlers : pc'[h] = "idle"
    BY DEF Crash
  <1>2. \A h \in Handlers : HandIsTrueThen(h)
    BY <1>1, EmptyHand
  <1>3. \A ev \in audit' : EventIsTrueThen(ev)
    BY <1>1, EventsStayTrue
  <1> QED
    BY <1>2, <1>3, TrailThen

\* A restart loses what the handlers had in hand, one modification each.
LEMMA CrashCount ==
  ASSUME TypeOK, TrailMatchesDirectory, Crash
  PROVE  (Cardinality(Unaudited) <= crashes * Cardinality(Handlers))'
  <1> DEFINE InHand == {last[h].value : h \in Handlers}
             C == Cardinality(Handlers)
  <1>1. UNCHANGED <<mods, audit>> /\ crashes' = crashes + 1
    BY DEF Crash
  <1>2. Unaudited' \subseteq Unaudited \cup InHand
    BY <1>1 DEF Unaudited
  <1>3. IsFiniteSet(InHand) /\ Cardinality(InHand) <= C /\ C \in Nat
    <2> DEFINE f == [h \in Handlers |-> last[h].value]
    <2>1. f \in Surjection(Handlers, InHand)
      BY DEF Surjection
    <2> QED
      BY <2>1, FS_Surjection, FS_CardinalityType, HandlersAssumption
  <1>4. /\ IsFiniteSet(Unaudited) /\ Cardinality(Unaudited) \in Nat
        /\ Cardinality(Unaudited) <= crashes * C /\ crashes \in Nat
    BY UnauditedFinite
    DEF TrailMatchesDirectory, TypeOK, HistoryTypeOK
  <1> HIDE DEF C, InHand
  <1>5. /\ IsFiniteSet(Unaudited \cup InHand)
        /\ Cardinality(Unaudited \cup InHand) <= Cardinality(Unaudited) + Cardinality(InHand)
    <2>1. /\ IsFiniteSet(Unaudited \cap InHand)
          /\ Cardinality(Unaudited \cap InHand) \in Nat
      BY <1>4, FS_Intersection, FS_CardinalityType
    <2>2. /\ IsFiniteSet(Unaudited \cup InHand)
          /\ Cardinality(Unaudited \cup InHand) =
                Cardinality(Unaudited) + Cardinality(InHand)
                   - Cardinality(Unaudited \cap InHand)
      BY <1>3, <1>4, FS_Union
    <2>3. Cardinality(InHand) \in Nat
      BY <1>3, FS_CardinalityType
    <2> QED
      BY <1>4, <2>1, <2>2, <2>3
  <1>6. Cardinality(Unaudited') <= Cardinality(Unaudited \cup InHand)
        /\ Cardinality(Unaudited') \in Nat
    BY <1>2, <1>5, FS_Subset, FS_CardinalityType
  <1>7. (crashes + 1) * C = crashes * C + C /\ crashes * C \in Nat
    BY <1>3, <1>4
  <1>8. Cardinality(Unaudited') <= crashes' * C
    <2>1. Cardinality(InHand) \in Nat /\ Cardinality(Unaudited \cup InHand) \in Nat
      BY <1>3, <1>5, FS_CardinalityType
    <2> QED
      BY <1>1, <1>3, <1>4, <1>5, <1>6, <1>7, <2>1
  <1> QED
    BY <1>8 DEF C

\* Every step keeps it, a restart excepted.
LEMMA TrailNext == TrailBase /\ [Next]_vars => TrailKept \/ Crash
  <1> SUFFICES ASSUME TrailBase, [Next]_vars PROVE TrailKept \/ Crash
    OBVIOUS
  <1> USE DEF ghostVars
  <1>0. /\ TrailMoves
        /\ pc \in [Handlers -> PcLabels]
        /\ target \in [Handlers -> Employees \cup {None}]
        /\ seen \in [Handlers -> Record \cup {None}]
        /\ todo \in [Handlers -> SUBSET PutFields]
        /\ last \in [Handlers -> [value: Nat, ok: BOOLEAN]]
    BY StepMovesTrail DEF TrailBase, TypeOK, LocalTypeOK
  <1>1. ASSUME NEW h \in Handlers, Request(h) PROVE TrailKept
    <2>1. ASSUME NEW e \in Employees, NEW S \in Bodies, PutStart(h, e, S)
          PROVE  TrailKept
      BY <1>0, <2>1, QuietKeepsTrail DEF PutStart, SameHand
    <2>2. ASSUME ListStart(h) PROVE TrailKept
      BY <1>0, <2>2, QuietKeepsTrail DEF ListStart, SameHand
    <2>3. ASSUME NEW e \in Employees, GetHit(h, e) \/ GetMiss(h, e)
          PROVE  TrailKept
      BY <1>0, <2>3, QuietKeepsTrail DEF GetHit, GetMiss, SameHand
    <2> QED
      BY <1>1, <2>1, <2>2, <2>3 DEF Request
  <1>2. ASSUME NEW h \in Handlers, ListStep(h) PROVE TrailKept
    BY <1>0, <1>2, QuietKeepsTrail
    DEF ListStep, ListHit, ListMiss, ListReadError, ListSet, ListReadEntry, SameHand
  <1>3. ASSUME NEW h \in Handlers, GetStep(h) PROVE TrailKept
    BY <1>0, <1>3, QuietKeepsTrail
    DEF GetStep, GetRead, GetReadError, GetSet, SameHand
  <1>4. ASSUME NEW h \in Handlers, PutStep(h) PROVE TrailKept
    <2>1. CASE PutDelete(h) \/ PutBump(h) \/ PutReread(h)
      BY <1>0, <2>1, QuietKeepsTrail DEF PutDelete, PutBump, PutReread, SameHand
    <2>2. CASE PutModifyOK(h)
      BY <1>0, <2>2, ModifyTrail DEF PutModifyOK
    <2>3. CASE PutModifyError(h)
      BY <1>0, <2>3, ModifyTrail, RefusedTrail DEF PutModifyError, Refuse, adVars
    <2> QED
      BY <1>0, <1>4, <2>1, <2>2, <2>3, PutReadOldTrail, PutAuditTrail DEF PutStep
  <1>5. ASSUME NEW h \in Handlers, Reply(h) PROVE TrailKept
    BY <1>0, <1>5, QuietKeepsTrail DEF Reply, SameHand
  <1>6. ASSUME Expiry \/ UNCHANGED vars PROVE TrailKept
    <2>1. UNCHANGED <<mods, audit, crashes>> /\ \A h \in Handlers : SameHand(h)
      BY <1>6 DEF Expiry, ExpireEmployee, ExpireList, localVars, vars, SameHand
    <2> QED
      BY <1>0, <2>1, QuietKeepsTrail
  <1> QED
    BY <1>0, <1>1, <1>2, <1>3, <1>4, <1>5, <1>6, OutsideTrail
    DEF Next, HandlerStep

\* So the trail never says what is not so.
LEMMA TruthNext == TrailBase /\ [Next]_vars => TrailIsTrue'
  BY TrailNext, StepMovesTrail, CrashTrail DEF TrailKept

\* There is nothing to be wrong about at first.
LEMMA TrailInit == Init => TrailIsTrue
  <1>1. Init => AdIsNamed
    BY DEF Init, AdInit, AdIsNamed, WasHeld
  <1> QED
    BY <1>1 DEF Init, TrailIsTrue, HandlersNameTheirs, OldValuesWereHeld,
                AuditedOldWasHeld, EventsWereMade

\* The inductive invariant behind the next two theorems.
THEOREM TrailInvariant == Spec => []TrailInv
  <1>1. Init => TrailInv
    <2> SUFFICES ASSUME Init PROVE TrailInv
      OBVIOUS
    <2>1. TrailIsTrue
      BY TrailInit
    <2>2. Unaudited = {}
      BY DEF Init, AdInit, Unaudited
    <2>3. TrailMatchesDirectory
      BY <2>1, <2>2, FS_EmptySet, FS_CardinalityType, HandlersAssumption
      DEF Init, TrailIsTrue, TrailMatchesDirectory
    <2> QED
      BY <2>1, <2>3 DEF TrailInv
  <1>2. ListInv /\ TrailInv /\ [Next]_vars => TrailInv'
    <2> SUFFICES ASSUME ListInv, TrailInv, [Next]_vars PROVE TrailInv'
      OBVIOUS
    <2>1. TrailBase /\ TrailMatchesDirectory /\ TypeOK
      BY DEF TrailBase, TrailInv, ListInv
    <2>2. (Cardinality(Unaudited) <= crashes * Cardinality(Handlers))'
      BY <2>1, TrailNext, CountStays, CrashCount DEF TrailKept
    <2>3. TrailIsTrue'
      BY <2>1, TruthNext
    <2> QED
      BY <2>2, <2>3 DEF TrailInv, TrailIsTrue, TrailMatchesDirectory
  <1> QED
    BY <1>1, <1>2, ListInvariant, PTL DEF Spec

\* The trail and the directory agree: a restart costs the trail at most one
\* modification of each handler, and no event names what was not done.
THEOREM TrailIsComplete == Spec => []TrailMatchesDirectory
  <1>1. TrailInv => TrailMatchesDirectory
    BY DEF TrailInv
  <1> QED
    BY TrailInvariant, <1>1, PTL

\* An audited old value is one the attribute held, no later than the value that
\* was replaced.
THEOREM OldValuesAreTrue == Spec => []AuditedOldWasHeld
  <1>1. TrailInv => AuditedOldWasHeld
    BY DEF TrailInv, TrailIsTrue
  <1> QED
    BY TrailInvariant, <1>1, PTL

-----------------------------------------------------------------------------
(* The handlers implement EmployeeService.                                  *)

LEMMA FailureEndsNext == TypeOK /\ FailureEnds /\ [Next]_vars => FailureEnds'
  <1> SUFFICES ASSUME TypeOK, FailureEnds, [Next]_vars PROVE FailureEnds'
    OBVIOUS
  <1> USE DEF FailureEnds
  <1>0. pc \in [Handlers -> PcLabels] /\ last \in [Handlers -> [value: Nat, ok: BOOLEAN]]
    BY DEF TypeOK, LocalTypeOK
  <1>1. ASSUME NEW h \in Handlers, last' = last,
               \A g \in Handlers \ {h} : pc'[g] = pc[g],
               pc[h] \notin {"putAudit", "putDone"}
        PROVE  FailureEnds'
    BY <1>1
  <1>2. ASSUME NEW h \in Handlers, PutModifyOK(h) \/ PutModifyError(h)
        PROVE  FailureEnds'
    <2>1. /\ pc' = [pc EXCEPT ![h] = "putAudit"]
          /\ \A g \in Handlers \ {h} : last'[g] = last[g]
      BY <1>0, <1>2 DEF PutModifyOK, PutModifyError
    <2> QED
      BY <1>0, <2>1
  <1>3. ASSUME NEW h \in Handlers, PutAudit(h) PROVE FailureEnds'
    <2>1. /\ last' = last /\ \A g \in Handlers \ {h} : pc'[g] = pc[g]
          /\ ~last[h].ok => pc'[h] = "putDone"
      BY <1>0, <1>3 DEF PutAudit
    <2> QED
      BY <2>1
  <1>4. ASSUME NEW h \in Handlers, Reply(h) PROVE FailureEnds'
    <2>1. /\ \A g \in Handlers \ {h} : pc'[g] = pc[g] /\ last'[g] = last[g]
          /\ last'[h].ok
      BY <1>0, <1>4 DEF Reply, NoModify
    <2> QED
      BY <2>1
  <1>5. CASE Crash
    BY <1>5 DEF Crash, NoModify
  <1>6. CASE Expiry \/ UNCHANGED vars
             \/ \E e \in Employees, a \in OutsideAttrs : OutsideChange(e, a)
    BY <1>6 DEF Expiry, ExpireEmployee, ExpireList, OutsideChange, localVars, vars
  <1>7. ASSUME NEW h \in Handlers, Request(h) \/ ListStep(h) \/ GetStep(h)
        PROVE  FailureEnds'
    <2>1. /\ last' = last /\ \A g \in Handlers \ {h} : pc'[g] = pc[g]
          /\ pc[h] \notin {"putAudit", "putDone"}
      BY <1>0, <1>7
      DEF Request, ListStep, GetStep, ListStart, ListHit, ListMiss, ListReadEntry,
          ListReadError, ListSet, GetHit, GetMiss, GetRead, GetReadError, GetSet,
          PutStart
    <2> QED
      BY <2>1, <1>1
  <1>8. ASSUME NEW h \in Handlers,
               PutReadOld(h) \/ PutDelete(h) \/ PutBump(h) \/ PutReread(h)
        PROVE  FailureEnds'
    <2>1. /\ last' = last /\ \A g \in Handlers \ {h} : pc'[g] = pc[g]
          /\ pc[h] \notin {"putAudit", "putDone"}
      BY <1>0, <1>8 DEF PutReadOld, PutDelete, PutBump, PutReread
    <2> QED
      BY <2>1, <1>1
  <1> QED
    BY <1>2, <1>3, <1>4, <1>5, <1>6, <1>7, <1>8 DEF Next, HandlerStep, PutStep

\* The state of the abstract service.
Op == [g \in Handlers |-> ServiceOp(g)]

ServiceVars == <<promised[listVersion + 1], Op>>

ServiceInv == ListInv /\ FailureEnds

\* What was promised before a step of a handler is promised still.
PromisesStand == \A v \in 0..listVersion : promised'[v + 1] = promised[v + 1]

\* Nothing a client may know of the requests of the others changes.
OthersWait(h) ==
    \A g \in Handlers \ {h} :
        /\ pc'[g] = pc[g] /\ target'[g] = target[g] /\ ver'[g] = ver[g]
        /\ got'[g] = got[g] /\ seen'[g] = seen[g] /\ last'[g] = last[g]
        /\ wrote'[g] = wrote[g]

\* Then the service moves in one place.
LEMMA OneMoves ==
  ASSUME ListInv, NEW h \in Handlers, PromisesStand, OthersWait(h)
  PROVE  Op' = [Op EXCEPT ![h] = ServiceOp(h)']
  <1>1. \A g \in Handlers : ver[g] \in 0..listVersion
    BY DEF ListInv, TypeOK, CacheTypeOK, LocalTypeOK, ListsKeepPromises
  <1>2. ASSUME NEW g \in Handlers \ {h} PROVE ServiceOp(g)' = ServiceOp(g)
    <2>1. promised'[ver'[g] + 1] = promised[ver[g] + 1]
      BY <1>1 DEF PromisesStand, OthersWait
    <2> QED
      BY <2>1 DEF ServiceOp, OthersWait
  <1> QED
    BY <1>2 DEF Op

LEMMA ServiceInit == Init => Service!Init
  <1> SUFFICES ASSUME Init PROVE Service!Init
    OBVIOUS
  <1>1. promised[listVersion + 1] = [e \in Employees |-> [a \in EditableAttrs |-> 0]]
    BY DEF Init, Blank
  <1>2. \A h \in Handlers : ServiceOp(h) = [kind |-> "idle"]
    BY DEF Init, ServiceOp
  <1> QED
    BY <1>1, <1>2 DEF Service!Init, Service!Nothing, Service!Idle

\* A step of a list request: it is taken, turned away, answered or goes on.
LEMMA ListSteps ==
  ASSUME ServiceInv, NEW h \in Handlers, ListStart(h) \/ ListStep(h)
  PROVE  \/ Service!Ask(h) \/ Service!Show(h) \/ Service!TurnAway(h)
         \/ UNCHANGED ServiceVars
  <1> USE DEF ServiceInv
  <1>0. /\ pc \in [Handlers -> PcLabels] /\ ver \in [Handlers -> Nat]
        /\ got \in [Handlers -> [Employees -> Record \cup {None}]]
        /\ Op[h] = ServiceOp(h) /\ Op'[h] = ServiceOp(h)'
    BY DEF ListInv, TypeOK, LocalTypeOK, Op
  <1>1. /\ PromisesStand /\ UNCHANGED <<promised, listVersion>>
        /\ OthersWait(h)
    BY <1>0
    DEF ListStep, ListStart, ListHit, ListMiss, ListReadEntry, ListReadError,
        ListSet, cacheVars, ghostVars, PromisesStand, OthersWait
  <1>2. Op' = [Op EXCEPT ![h] = ServiceOp(h)']
    BY <1>1, OneMoves
  <1>3. CASE ListStart(h)
    <2>1. /\ ServiceOp(h) = Service!Idle
          /\ ServiceOp(h)' = Service!Asked(promised[listVersion + 1])
      BY <1>0, <1>1, <1>3 DEF ListStart, ServiceOp, Service!Idle, Service!Asked
    <2> QED
      BY <1>0, <1>1, <1>2, <2>1 DEF Service!Ask, Service!Becomes, Op
  <1>4. CASE ListHit(h) \/ ListSet(h)
    <2>1. /\ ServiceOp(h) = Service!Asked(promised[ver[h] + 1])
          /\ ServiceOp(h)' = Service!Shown(got'[h])
      BY <1>0, <1>4
      DEF ListHit, ListSet, ServiceOp, Service!Asked, Service!Shown
    <2>2. /\ got'[h] \in Listing
          /\ \A e \in Employees : AtLeast(got'[h][e], promised[ver[h] + 1][e])
      <3>1. CASE ListHit(h)
        BY <1>0, <3>1
        DEF ListHit, ListInv, ListsKeepPromises, TypeOK, CacheTypeOK
      <3>2. CASE ListSet(h)
        BY <3>2, NoneAssumption
        DEF ListSet, ListInv, ListsKeepPromises, TypeOK, PcTypeOK
      <3> QED
        BY <1>4, <3>1, <3>2
    <2>3. /\ Op[h].kind = "asked" /\ Op[h].floor = promised[ver[h] + 1]
          /\ Op'[h].kind = "shown" /\ Op'[h].listing = got'[h]
      BY <1>0, <2>1 DEF Service!Asked, Service!Shown
    <2>4. Op' = [Op EXCEPT ![h] = Service!Shown(Op'[h].listing)]
      BY <1>2, <2>1, <2>3
    <2>5. /\ Op'[h].listing \in Service!Listing
          /\ \A e \in Employees :
                Service!Covers(Op'[h].listing[e], Op[h].floor[e])
      BY <2>2, <2>3
      DEF Service!Listing, Service!Record, Service!Covers, AtLeast
    <2> QED
      BY <1>1, <2>3, <2>4, <2>5 DEF Service!Show, Service!Becomes, Op
  <1>5. CASE ListReadError(h)
    <2>1. /\ ServiceOp(h) = Service!Asked(promised[ver[h] + 1])
          /\ ServiceOp(h)' = Service!Idle
      BY <1>0, <1>5 DEF ListReadError, ServiceOp, Service!Asked, Service!Idle
    <2> QED
      BY <1>0, <1>1, <1>2, <2>1
      DEF Service!TurnAway, Service!Becomes, Service!Asked, Op
  <1>6. CASE ListMiss(h) \/ \E e \in Employees : ListReadEntry(h, e)
    <2>1. /\ pc[h] \in {"listGet", "listRead"} /\ ver' = ver
          /\ pc'[h] \in {"listRead", "listSet"}
      BY <1>0, <1>6 DEF ListMiss, ListReadEntry
    <2>2. ServiceOp(h)' = ServiceOp(h)
      BY <1>1, <2>1 DEF ServiceOp
    <2> QED
      BY <1>0, <1>1, <1>2, <2>2 DEF ServiceVars, Op
  <1> QED
    BY <1>3, <1>4, <1>5, <1>6 DEF ListStep

\* Single reads do not show.
LEMMA GetSteps ==
  ASSUME ServiceInv, NEW h \in Handlers,
         GetStep(h) \/ \E e \in Employees : GetHit(h, e) \/ GetMiss(h, e)
  PROVE  UNCHANGED ServiceVars
  <1> USE DEF ServiceInv
  <1>0. pc \in [Handlers -> PcLabels]
    BY DEF ListInv, TypeOK, LocalTypeOK
  <1>1. /\ PromisesStand /\ UNCHANGED <<promised, listVersion>>
        /\ OthersWait(h)
        /\ pc[h] \in {"idle", "getRead", "getSet"}
        /\ pc'[h] \in {"idle", "getRead", "getSet", "getDone"}
    BY <1>0
    DEF GetStep, GetHit, GetMiss, GetRead, GetReadError, GetSet, cacheVars,
        ghostVars, PromisesStand, OthersWait, ListInv, TypeOK, LocalTypeOK
  <1>2. ServiceOp(h)' = ServiceOp(h)
    BY <1>1 DEF ServiceOp
  <1> QED
    BY <1>1, <1>2, OneMoves DEF ServiceVars, Op

\* An update begins, stores, takes effect or is refused, and is answered.
LEMMA PutSteps ==
  ASSUME ServiceInv, NEW h \in Handlers,
         PutStep(h) \/ \E e \in Employees, S \in Bodies : PutStart(h, e, S)
  PROVE  \/ \E e \in Employees : Service!Begin(h, e)
         \/ \E a \in EditableAttrs : Service!Store(h, a)
         \/ Service!Commit(h) \/ Service!Refuse(h)
         \/ Service!Acknowledge(h) \/ Service!LeaveOpen(h)
         \/ UNCHANGED ServiceVars
  <1> USE DEF ServiceInv
  <1>0. /\ pc \in [Handlers -> PcLabels] /\ wrote \in [Handlers -> Record]
        /\ target \in [Handlers -> Employees \cup {None}]
        /\ seen \in [Handlers -> Record \cup {None}]
        /\ last \in [Handlers -> [value: Nat, ok: BOOLEAN]]
        /\ Op[h] = ServiceOp(h) /\ Op'[h] = ServiceOp(h)'
    BY DEF ListInv, TypeOK, LocalTypeOK, Op
  <1>a. OthersWait(h)
    BY <1>0
    DEF PutStep, PutStart, PutReadOld, PutModifyOK, PutModifyError, PutAudit,
        PutDelete, PutBump, PutReread, OthersWait, cacheVars, ghostVars
  <1>1. ASSUME UNCHANGED <<promised, listVersion>>
        PROVE  /\ UNCHANGED promised[listVersion + 1]
               /\ Op' = [Op EXCEPT ![h] = ServiceOp(h)']
    BY <1>1, <1>a, OneMoves DEF PromisesStand
  <1>2. ASSUME NEW e \in Employees, NEW S \in Bodies, PutStart(h, e, S)
        PROVE  Service!Begin(h, e)
    <2>1. wrote[h] = Blank /\ wrote' = wrote
      BY <1>2 DEF PutStart, ListInv, UpdatesAreInAd
    <2>2. /\ ServiceOp(h) = Service!Idle
          /\ ServiceOp(h)' = Service!Updating(e, Service!Nothing)
      BY <1>0, <1>2, <2>1
      DEF PutStart, ServiceOp, Service!Idle, Service!Updating, Service!Nothing, Blank
    <2>3. UNCHANGED <<promised, listVersion>>
      BY <1>2 DEF PutStart, cacheVars, ghostVars
    <2> QED
      BY <1>0, <1>1, <2>2, <2>3 DEF Service!Begin, Service!Becomes, Op
  <1>3. ASSUME PutReadOld(h) \/ PutModifyError(h) \/ PutDelete(h)
               \/ (PutAudit(h) /\ last[h].ok)
        PROVE  UNCHANGED ServiceVars
    <2>1. /\ UNCHANGED <<promised, listVersion, target, wrote>>
          /\ pc[h] \in {"putOld", "putModify", "putAudit", "putDelete"}
          /\ pc'[h] \in {"putModify", "putAudit", "putDelete", "putBump"}
      BY <1>0, <1>3
      DEF PutReadOld, PutModifyError, PutDelete, PutAudit, cacheVars, ghostVars
    <2>2. ServiceOp(h)' = ServiceOp(h)
      BY <2>1 DEF ServiceOp
    <2> QED
      BY <1>0, <1>1, <2>1, <2>2 DEF ServiceVars, Op
  <1>4. ASSUME PutModifyOK(h)
        PROVE  \E a \in EditableAttrs : Service!Store(h, a)
    <2> DEFINE a == NextField(todo[h])
    <2>1. /\ UNCHANGED <<promised, listVersion, target>>
          /\ pc[h] = "putModify" /\ pc'[h] = "putAudit"
          /\ wrote'[h] = [wrote[h] EXCEPT ![a] = Len(mods) + 1]
      BY <1>0, <1>4 DEF PutModifyOK, cacheVars, ghostVars
    <2>2. a \in EditableAttrs /\ Len(mods) + 1 \in Nat
      BY DEF NextField, EditableAttrs, ListInv, TypeOK, AdTypeOK
    <2>3. /\ ServiceOp(h) = Service!Updating(target[h], wrote[h])
          /\ ServiceOp(h)' = Service!Updating(target[h], wrote'[h])
      BY <2>1 DEF ServiceOp, Service!Updating
    <2>4. wrote'[h][a] = Len(mods) + 1
      BY <1>0, <2>1, <2>2
    <2>5. /\ Op[h].kind = "updating" /\ Op[h].dn = target[h]
          /\ Op[h].stored = wrote[h]
          /\ Op'[h].kind = "updating" /\ Op'[h].stored = wrote'[h]
      BY <1>0, <2>3 DEF Service!Updating
    <2>6. wrote'[h] = [Op[h].stored EXCEPT ![a] = Op'[h].stored[a]]
      BY <2>1, <2>4, <2>5
    <2>7. Op' = [Op EXCEPT ![h] = Service!Updating(Op[h].dn,
                              [Op[h].stored EXCEPT ![a] = Op'[h].stored[a]])]
      BY <1>1, <2>1, <2>3, <2>5, <2>6
    <2>8. Op'[h].stored[a] \in Nat
      BY <2>2, <2>4, <2>5
    <2>9. Service!Store(h, a)
      BY <1>1, <2>1, <2>5, <2>7, <2>8 DEF Service!Store, Service!Becomes, Op
    <2> QED
      BY <2>2, <2>9
  <1>5. ASSUME PutAudit(h), ~last[h].ok PROVE Service!Refuse(h)
    <2>1. /\ UNCHANGED <<promised, listVersion, last>>
          /\ pc[h] = "putAudit" /\ pc'[h] = "putDone"
      BY <1>0, <1>5 DEF PutAudit, cacheVars, ghostVars
    <2>2. /\ ServiceOp(h) = Service!Updating(target[h], wrote[h])
          /\ ServiceOp(h)' = Service!Refused
      BY <1>5, <2>1 DEF ServiceOp, Service!Updating, Service!Refused
    <2> QED
      BY <1>0, <1>1, <2>1, <2>2
      DEF Service!Refuse, Service!Becomes, Service!Updating, Op
  <1>6. ASSUME PutBump(h) PROVE Service!Commit(h)
    <2> DEFINE p == promised[listVersion + 1]
               q == Promise(p, target[h], wrote[h])
    <2>1. /\ promised' = Append(promised, q) /\ listVersion' = listVersion + 1
          /\ pc[h] = "putBump" /\ pc'[h] = "putReread" /\ UNCHANGED <<target, wrote>>
      BY <1>0, <1>6 DEF PutBump
    <2>2. /\ promised \in Seq(Listing) /\ Len(promised) = listVersion + 1
          /\ listVersion \in Nat
      BY DEF ListInv, TypeOK, CacheTypeOK, HistoryTypeOK
    <2>3. /\ PromisesStand
          /\ promised'[listVersion' + 1] = q
      BY <2>1, <2>2 DEF PromisesStand
    <2>4. Op' = [Op EXCEPT ![h] = ServiceOp(h)']
      BY <1>a, <2>3, OneMoves
    <2>5. /\ ServiceOp(h) = Service!Updating(target[h], wrote[h])
          /\ ServiceOp(h)' = Service!Committed(target[h])
      BY <2>1 DEF ServiceOp, Service!Updating, Service!Committed
    <2>6. p \in Listing
      BY <2>2
    <2>7. q = [p EXCEPT ![target[h]] =
                 [a \in EditableAttrs |-> IF @[a] < wrote[h][a] THEN wrote[h][a]
                                                               ELSE @[a]]]
      BY <2>6 DEF Promise, Larger
    <2>8. /\ Op[h].kind = "updating" /\ Op[h].dn = target[h]
          /\ Op[h].stored = wrote[h]
      BY <1>0, <2>5 DEF Service!Updating
    <2>9. Op' = [Op EXCEPT ![h] = Service!Committed(Op[h].dn)]
      BY <2>4, <2>5, <2>8
    <2>10. promised'[listVersion' + 1] =
             [p EXCEPT ![Op[h].dn] =
                [a \in EditableAttrs |-> IF @[a] < Op[h].stored[a]
                                         THEN Op[h].stored[a] ELSE @[a]]]
      BY <2>3, <2>7, <2>8
    <2> QED
      BY <2>8, <2>9, <2>10 DEF Service!Commit, Service!Becomes, Op
  <1>7. ASSUME PutReread(h) PROVE Service!Acknowledge(h) \/ Service!LeaveOpen(h)
    <2>1. /\ UNCHANGED <<promised, listVersion, target, last>>
          /\ pc[h] = "putReread" /\ pc'[h] = "putDone"
          /\ seen'[h] \in {ad[target[h]], None}
      BY <1>0, <1>7 DEF PutReread, cacheVars, ghostVars
    <2>2. last[h].ok /\ target[h] \in Employees
      BY <2>1 DEF FailureEnds, ListInv, TypeOK, PcTypeOK
    <2>3. ServiceOp(h) = Service!Committed(target[h])
      BY <2>1 DEF ServiceOp, Service!Committed
    <2>4. CASE seen'[h] = None
      <3>1. ServiceOp(h)' = Service!Unconfirmed
        BY <2>1, <2>2, <2>4 DEF ServiceOp, Service!Unconfirmed
      <3> QED
        BY <1>0, <1>1, <2>1, <2>3, <3>1
        DEF Service!LeaveOpen, Service!Becomes, Service!Committed, Op
    <2>5. CASE seen'[h] # None
      <3>1. ServiceOp(h)' = Service!Acknowledged(target[h], ad[target[h]])
        BY <2>1, <2>2, <2>5 DEF ServiceOp, Service!Acknowledged
      <3>2. /\ ad[target[h]] \in Record
            /\ AtLeast(ad[target[h]], promised[listVersion + 1][target[h]])
        BY <2>2
        DEF ListInv, TypeOK, AdTypeOK, AdKeepsPromises, HistoryTypeOK, CacheTypeOK
      <3>3. /\ Op[h].kind = "committed" /\ Op[h].dn = target[h]
            /\ Op'[h].kind = "acknowledged" /\ Op'[h].record = ad[target[h]]
        BY <1>0, <2>3, <3>1 DEF Service!Committed, Service!Acknowledged
      <3>4. /\ Op'[h].record \in Service!Record
            /\ Service!Covers(Op'[h].record, promised[listVersion + 1][Op[h].dn])
        BY <3>2, <3>3 DEF Service!Record, Service!Covers, AtLeast
      <3>5. Op' = [Op EXCEPT ![h] =
                      Service!Acknowledged(Op[h].dn, Op'[h].record)]
        BY <1>1, <2>1, <3>1, <3>3
      <3> QED
        BY <1>1, <2>1, <3>3, <3>4, <3>5
        DEF Service!Acknowledge, Service!Becomes, Op
    <2> QED
      BY <2>4, <2>5
  <1> QED
    BY <1>2, <1>3, <1>4, <1>5, <1>6, <1>7 DEF PutStep

LEMMA ReplyEnds ==
  ASSUME ServiceInv, NEW h \in Handlers, Reply(h)
  PROVE  Service!End(h) \/ UNCHANGED ServiceVars
  <1> USE DEF ServiceInv
  <1>0. /\ pc \in [Handlers -> PcLabels]
        /\ last \in [Handlers -> [value: Nat, ok: BOOLEAN]]
        /\ Op[h] = ServiceOp(h) /\ Op'[h] = ServiceOp(h)'
    BY DEF ListInv, TypeOK, LocalTypeOK, Op
  <1>1. /\ PromisesStand /\ UNCHANGED <<promised, listVersion>>
        /\ OthersWait(h)
        /\ pc[h] \in {"listDone", "getDone", "putDone"} /\ pc'[h] = "idle"
    BY <1>0
    DEF Reply, cacheVars, ghostVars, PromisesStand, OthersWait, ListInv, TypeOK,
        LocalTypeOK
  <1>2. ServiceOp(h)' = Service!Idle
    BY <1>1 DEF ServiceOp, Service!Idle
  <1>3. Op' = [Op EXCEPT ![h] = Service!Idle]
    BY <1>1, <1>2, OneMoves
  <1>4. CASE pc[h] = "getDone"
    <2>1. ServiceOp(h) = Service!Idle
      BY <1>4 DEF ServiceOp, Service!Idle
    <2> QED
      BY <1>0, <1>1, <1>3, <2>1 DEF ServiceVars, Op
  <1>5. CASE pc[h] \in {"listDone", "putDone"}
    <2>1. Op[h].kind \in {"shown", "acknowledged", "unconfirmed", "refused"}
      BY <1>0, <1>5 DEF ServiceOp
    <2> QED
      BY <1>1, <1>3, <2>1 DEF Service!End, Service!Becomes, Op
  <1> QED
    BY <1>1, <1>4, <1>5

\* Every step is one of the service's, or does not show.
LEMMA StepsAreService ==
  ServiceInv /\ [Next]_vars => Service!Next \/ UNCHANGED ServiceVars
  <1> SUFFICES ASSUME ServiceInv, [Next]_vars
               PROVE  Service!Next \/ UNCHANGED ServiceVars
    OBVIOUS
  <1>1. ASSUME NEW h \in Handlers, Request(h) \/ HandlerStep(h)
        PROVE  Service!HandlerNext(h) \/ UNCHANGED ServiceVars
    <2>1. CASE ListStart(h) \/ ListStep(h)
      BY <2>1, ListSteps DEF Service!HandlerNext
    <2>2. CASE GetStep(h) \/ \E e \in Employees : GetHit(h, e) \/ GetMiss(h, e)
      BY <2>2, GetSteps
    <2>3. CASE PutStep(h) \/ \E e \in Employees, S \in Bodies : PutStart(h, e, S)
      BY <2>3, PutSteps DEF Service!HandlerNext
    <2>4. CASE Reply(h)
      BY <2>4, ReplyEnds DEF Service!HandlerNext
    <2> QED
      BY <1>1, <2>1, <2>2, <2>3, <2>4 DEF Request, HandlerStep
  <1>2. CASE Crash
    <2>1. /\ promised'[listVersion' + 1] = promised[listVersion + 1]
          /\ \A h \in Handlers : ServiceOp(h)' = Service!Idle
      BY <1>2 DEF Crash, ServiceOp, Service!Idle
    <2> QED
      BY <2>1 DEF Service!Next, Service!Restart
  <1>3. CASE Expiry \/ UNCHANGED vars
             \/ \E e \in Employees, a \in OutsideAttrs : OutsideChange(e, a)
    <2>1. UNCHANGED <<promised, listVersion, pc, target, ver, got, seen, last, wrote>>
      BY <1>3 DEF Expiry, ExpireEmployee, ExpireList, OutsideChange, localVars,
                  ghostVars, cacheVars, vars
    <2> QED
      BY <2>1 DEF ServiceVars, Op, ServiceOp
  <1> QED
    BY <1>1, <1>2, <1>3 DEF Next, Service!Next

LEMMA FailureEndsInit == Init => FailureEnds
  BY DEF Init, NoModify, FailureEnds

\* The handlers implement the abstract service: whatever the cache holds, a
\* list reply shows what was in effect when its request came, an update takes
\* effect at one moment or not at all, and nothing in effect is taken back, not
\* by a restart either.
THEOREM HandlersImplementService == Spec => ImplementsService
  <1>1. ServiceInv /\ [Next]_vars => FailureEnds'
    BY FailureEndsNext DEF ServiceInv, ListInv
  <1>2. Spec => []ServiceInv
    BY ListInvInit, ListInvNext, FailureEndsInit, <1>1, PTL DEF Spec, ServiceInv
  <1>3. ServiceInv /\ [Next]_vars =>
          [Service!Next]_<<promised[listVersion + 1],
                           [h \in Handlers |-> ServiceOp(h)]>>
    BY StepsAreService DEF ServiceVars, Op
  <1> QED
    BY ServiceInit, <1>2, <1>3, PTL DEF Spec, ImplementsService, Service!Spec
=============================================================================
