----------------------- MODULE IntegrityCheckerProofs -----------------------
(***************************************************************************)
(* Proofs about IntegrityChecker, for any number of employees, contents    *)
(* and callers, whichever failures there are.                              *)
(*                                                                         *)
(* CheckerInv is inductive.  The lock makes every step of an operation the *)
(* step of the only one there is, so what it has found, saved or passed    *)
(* over stays true of the baseline until it ends.                          *)
(***************************************************************************)
EXTENDS IntegrityChecker, TLAPS

\* The goroutines are distinct, and none of them is None.
LEMMA ProcsDistinct ==
    /\ Ticker \in Procs /\ Callers \subseteq Procs
    /\ None \notin Procs /\ Ticker \notin Callers
    /\ \A p \in Procs : p = Ticker \/ p \in Callers
BY CheckerAssumption DEF CheckerAssumption, Procs

\* The types after an operation has ended.
LEMMA IdleType ==
    ASSUME TypeOK, NEW p \in Procs, Idle(p)
    PROVE  /\ snap' \in [Procs -> [Employees -> Entry]]
           /\ rest' \in [Procs -> SUBSET Employees]
           /\ found' \in [Procs -> SUBSET Mismatch]
           /\ current' \in [Procs -> Employees \cup {None}]
           /\ unread' \in [Procs -> SUBSET Employees]
           /\ unsaved' \in [Procs -> SUBSET Employees]
           /\ autoUpdate' \in BOOLEAN
BY DEF TypeOK, Idle, Entry

\* What Note adds is a mismatch.
LEMMA NoteType ==
    ASSUME TypeOK, ListedIsCompared, NEW p \in Procs, NEW e \in Employees,
           Comparing(p), e \in rest[p], Note(p, e)
    PROVE  found' \in [Procs -> SUBSET Mismatch]
<1>1. snap[p][e] \in Contents
    BY DEF TypeOK, ListedIsCompared, Listed, Entry
<1>2. Differs(p, e) => baseline[e] \in Contents
    BY DEF TypeOK, Differs, Entry
<1>3. Differs(p, e) =>
        [dn |-> e, old |-> baseline[e], new |-> snap[p][e]] \in Mismatch
    BY <1>1, <1>2 DEF Mismatch
<1> QED  BY <1>3 DEF TypeOK, Note

LEMMA TypeNext ==
    TypeOK /\ OperationsExclude /\ ListedIsCompared /\ [Next]_vars => TypeOK'
<1> SUFFICES ASSUME TypeOK, OperationsExclude, ListedIsCompared, [Next]_vars
             PROVE  TypeOK'
    OBVIOUS
<1> USE ProcsDistinct
<1>1. ASSUME NEW e \in Employees, NEW x \in Entry, Change(e, x) PROVE TypeOK'
    BY <1>1 DEF TypeOK, Change, history
<1>2. ASSUME NEW p \in Procs, Begin(p) PROVE TypeOK'
    BY <1>2 DEF TypeOK, Begin, history
<1>3. ASSUME NEW p \in Procs, NEW e \in Employees, ListEntry(p, e) PROVE TypeOK'
  <2>1. snap' \in [Procs -> [Employees -> Entry]]
    BY <1>3 DEF TypeOK, ListEntry
  <2>2. rest' \in [Procs -> SUBSET Employees]
    <3>1. {d \in Employees : snap'[p][d] # None} \in SUBSET Employees
        OBVIOUS
    <3>2. rest[p] \ {e} \in SUBSET Employees
        BY DEF TypeOK
    <3>3. \E r \in SUBSET Employees : rest' = [rest EXCEPT ![p] = r]
        BY <3>1, <3>2, <1>3 DEF ListEntry
    <3> QED  BY <3>3 DEF TypeOK
  <2>3. pc' \in [Procs -> {"idle", "list", "compare", "save", "done"}]
    BY <1>3 DEF TypeOK, ListEntry
  <2> QED  BY <2>1, <2>2, <2>3, <1>3 DEF TypeOK, ListEntry, history
<1>4. ASSUME NEW p \in Procs, ListError(p) PROVE TypeOK'
    BY <1>4, IdleType DEF TypeOK, ListError
<1>5. ASSUME NEW p \in Procs, Save(p) PROVE TypeOK'
  <2>1. current[p] \in Employees /\ snap[p][current[p]] \in Entry
    BY <1>5 DEF TypeOK, Save, OperationsExclude
  <2>2. baseline' \in [Employees -> Entry]
    BY <2>1, <1>5 DEF TypeOK, Save
  <2>4. unsaved' \in [Procs -> SUBSET Employees]
    <3>1. unsaved[p] \cup {current[p]} \in SUBSET Employees
        BY <2>1 DEF TypeOK
    <3> QED  BY <3>1, <1>5 DEF TypeOK, Save
  <2>3. rest' \in [Procs -> SUBSET Employees] /\
        current' \in [Procs -> Employees \cup {None}] /\
        pc' \in [Procs -> {"idle", "list", "compare", "save", "done"}]
    BY <1>5 DEF TypeOK, Save
  <2> QED  BY <2>2, <2>3, <2>4, <1>5 DEF TypeOK, Save
<1>6. ASSUME NEW e \in Employees, CheckRead(e) PROVE TypeOK'
  <2>1. found' \in [Procs -> SUBSET Mismatch]
    BY <1>6, NoteType DEF CheckRead, Comparing
  <2>2. rest' \in [Procs -> SUBSET Employees] /\
        current' \in [Procs -> Employees \cup {None}] /\
        pc' \in [Procs -> {"idle", "list", "compare", "save", "done"}]
    <3>1. CASE GoSave(Ticker, e)
        BY <3>1 DEF TypeOK, GoSave
    <3>2. CASE Skip(Ticker, e)
        BY <3>2 DEF TypeOK, Skip
    <3> QED  BY <3>1, <3>2, <1>6 DEF CheckRead
  <2> QED  BY <2>1, <2>2, <1>6 DEF TypeOK, CheckRead, history
<1>7. ASSUME NEW e \in Employees, CheckReadError(e) PROVE TypeOK'
    BY <1>7 DEF TypeOK, CheckReadError, Skip
<1>8. ASSUME CheckEnds PROVE TypeOK'
    BY <1>8, IdleType DEF TypeOK, CheckEnds
<1>9. ASSUME Stop \/ StartReturns PROVE TypeOK'
    BY <1>9 DEF TypeOK, Stop, StartReturns, history
<1>10. ASSUME NEW p \in Callers, NEW e \in Employees, ResetRead(p, e)
       PROVE  TypeOK'
  <2>1. found' \in [Procs -> SUBSET Mismatch]
    BY <1>10, NoteType DEF ResetRead, Comparing
  <2> QED  BY <2>1, <1>10 DEF TypeOK, ResetRead, GoSave, history
<1>11. ASSUME NEW p \in Callers, NEW e \in Employees, ResetReadError(p, e)
       PROVE  TypeOK'
    BY <1>11 DEF TypeOK, ResetReadError, GoSave
<1>12. ASSUME NEW p \in Callers, ResetEnds(p) PROVE TypeOK'
    BY <1>12, IdleType DEF TypeOK, ResetEnds
<1>13. ASSUME NEW p \in Callers, ClientLeaves(p) PROVE TypeOK'
    BY <1>13 DEF TypeOK, ClientLeaves, history
<1>14. ASSUME Restart PROVE TypeOK'
    BY <1>14 DEF TypeOK, Restart, Entry
<1>15. CASE UNCHANGED vars
    BY <1>15 DEF TypeOK, vars
<1> QED
    BY <1>1, <1>2, <1>3, <1>4, <1>5, <1>6, <1>7, <1>8, <1>9, <1>10, <1>11,
       <1>12, <1>13, <1>14, <1>15
    DEF Next, CheckStep, ResetStep, ListStep

-----------------------------------------------------------------------------
\* What CheckerInv says beyond the types.
Excluded ==
    /\ OperationsExclude
    /\ ReportStaysTrue /\ ListedIsCompared /\ FoundIsTrue /\ DriftIsRecorded
    /\ ResetsOverwrite /\ ChecksCompare

\* While one operation runs no other compares or has found anything.
LEMMA OthersAreIdle ==
    ASSUME CheckerInv, NEW p \in Procs, pc[p] \in {"list", "compare", "save"}
    PROVE  /\ running = p
           /\ \A q \in Procs : q # p =>
                 pc[q] \in {"idle", "done"} /\ ~Comparing(q) /\ found[q] = {}
BY DEF CheckerInv, TypeOK, OperationsExclude, ListedIsCompared, Comparing

LEMMA InitExcluded == Init => CheckerInv
<1> SUFFICES ASSUME Init PROVE CheckerInv
    OBVIOUS
<1> USE ProcsDistinct DEF Init, ProcsIdle
<1>1. TypeOK
    BY DEF TypeOK, Entry
<1>2. OperationsExclude
    BY DEF OperationsExclude
<1>3. ReportStaysTrue /\ ListedIsCompared /\ FoundIsTrue /\ DriftIsRecorded
    BY DEF ReportStaysTrue, ListedIsCompared, FoundIsTrue, DriftIsRecorded,
           Comparing
<1>4. ResetsOverwrite /\ ChecksCompare
    BY DEF ResetsOverwrite, ChecksCompare, Comparing
<1> QED  BY <1>1, <1>2, <1>3, <1>4 DEF CheckerInv

\* The directory and the contexts are in none of it.
LEMMA SameKeeps ==
    ASSUME CheckerInv,
           UNCHANGED <<baseline, running, last, pc, snap, rest, found, current,
                       history>>
    PROVE  Excluded'
BY DEF CheckerInv, Excluded, OperationsExclude, ReportStaysTrue,
       ListedIsCompared, FoundIsTrue, DriftIsRecorded, ResetsOverwrite,
       ChecksCompare, Comparing, StillTrue, Listed, Recorded, Differs, Behind,
       history

LEMMA StartReturnsKeeps == ASSUME CheckerInv, StartReturns PROVE Excluded'
<1> USE ProcsDistinct DEF CheckerInv, TypeOK, StartReturns, history
<1>1. \A p \in Procs : Comparing(p)' <=> Comparing(p)
    BY DEF Comparing
<1>2. OperationsExclude' /\ DriftIsRecorded'
    BY DEF OperationsExclude, DriftIsRecorded, Recorded, Differs
<1>3. ReportStaysTrue' /\ ListedIsCompared'
    BY <1>1 DEF ReportStaysTrue, ListedIsCompared, StillTrue, Listed
<1>4. FoundIsTrue'
    BY DEF FoundIsTrue, StillTrue
<1>5. ResetsOverwrite' /\ ChecksCompare'
    BY <1>1 DEF ResetsOverwrite, ChecksCompare, Behind, Listed
<1> QED  BY <1>2, <1>3, <1>4, <1>5 DEF Excluded

LEMMA BeginKeeps ==
    ASSUME CheckerInv, NEW p \in Procs, Begin(p) PROVE Excluded'
<1> USE ProcsDistinct DEF CheckerInv, TypeOK, Begin, history
<1>1. \A q \in Procs : ~Comparing(q) /\ ~Comparing(q)' /\ found[q] = {}
    BY DEF Comparing, OperationsExclude, ListedIsCompared
<1>2. OperationsExclude' /\ DriftIsRecorded'
    BY <1>1 DEF OperationsExclude, DriftIsRecorded, Comparing
<1>3. ReportStaysTrue' /\ ListedIsCompared' /\ FoundIsTrue'
    BY <1>1 DEF ReportStaysTrue, ListedIsCompared, FoundIsTrue, StillTrue
<1>4. ResetsOverwrite' /\ ChecksCompare'
    BY <1>1 DEF ResetsOverwrite, ChecksCompare
<1> QED  BY <1>2, <1>3, <1>4 DEF Excluded

LEMMA ListEntryKeeps ==
    ASSUME CheckerInv, NEW p \in Procs, NEW e \in Employees, ListEntry(p, e)
    PROVE  Excluded'
<1> USE ProcsDistinct
<1>1. /\ pc[p] = "list" /\ running = p
      /\ \A q \in Procs : ~Comparing(q) /\ found[q] = {}
      /\ \A q \in Procs : q # p => ~Comparing(q)' /\ pc'[q] = pc[q]
    BY OthersAreIdle
    DEF CheckerInv, TypeOK, Comparing, ListEntry, ListedIsCompared
<1>2. \/ pc'[p] = "list"
      \/ pc'[p] = "compare" /\ rest'[p] = Listed(p)'
    BY DEF CheckerInv, TypeOK, ListEntry, Listed
<1>8. UNCHANGED running
    BY DEF ListEntry
<1>3. OperationsExclude'
    BY <1>1, <1>2, <1>8 DEF CheckerInv, OperationsExclude, Comparing
<1>7. DriftIsRecorded'
    BY <1>1, <1>2 DEF DriftIsRecorded, Comparing
<1>4. ReportStaysTrue'
  <2>1. \A m \in last : StillTrue(m)
    BY <1>1 DEF CheckerInv, ReportStaysTrue
  <2> QED  BY <2>1 DEF ReportStaysTrue, StillTrue, ListEntry, history
<1>5. ListedIsCompared' /\ FoundIsTrue'
    BY <1>1, <1>2 DEF ListedIsCompared, FoundIsTrue, Comparing, ListEntry
<1>6. ResetsOverwrite' /\ ChecksCompare'
    BY <1>1, <1>2 DEF ResetsOverwrite, ChecksCompare, Behind, Comparing
<1> QED  BY <1>3, <1>4, <1>5, <1>6, <1>7 DEF Excluded

\* An operation that ends leaves nothing behind but the report and the baseline.
LEMMA EndKeeps ==
    ASSUME CheckerInv, NEW p \in Procs, Idle(p), pc[p] \in {"list", "compare"},
           running' = None, pc' = [pc EXCEPT ![p] = "idle"],
           UNCHANGED baseline, \A m \in last' : StillTrue(m)
    PROVE  Excluded'
<1> USE ProcsDistinct
<1>1. \A q \in Procs : ~Comparing(q)' /\ found'[q] = {} /\
                       pc'[q] \in {"idle", "done"}
    BY OthersAreIdle DEF CheckerInv, TypeOK, Idle, Comparing
<1>2. OperationsExclude' /\ DriftIsRecorded'
    BY <1>1 DEF OperationsExclude, DriftIsRecorded
<1>3. ReportStaysTrue'
    BY DEF ReportStaysTrue, StillTrue, Idle
<1>4. ListedIsCompared' /\ FoundIsTrue' /\ ResetsOverwrite' /\ ChecksCompare'
    BY <1>1 DEF ListedIsCompared, FoundIsTrue, ResetsOverwrite, ChecksCompare
<1> QED  BY <1>2, <1>3, <1>4 DEF Excluded

LEMMA EndsKeep ==
    ASSUME CheckerInv, NEW p \in Procs,
           \/ ListError(p)
           \/ p = Ticker /\ CheckEnds
           \/ p \in Callers /\ ResetEnds(p)
    PROVE  Excluded'
<1>1. CASE ListError(p)
  <2>1. \A m \in last : StillTrue(m)
    BY <1>1, OthersAreIdle
    DEF CheckerInv, ListError, ReportStaysTrue, Comparing
  <2> QED  BY <1>1, <2>1, EndKeeps DEF ListError
<1>2. CASE p = Ticker /\ CheckEnds
  <2>1. \A m \in last' : StillTrue(m)
    BY <1>2 DEF CheckerInv, FoundIsTrue, CheckEnds
  <2> QED  BY <1>2, <2>1, EndKeeps DEF CheckEnds
<1>3. CASE p \in Callers /\ ResetEnds(p)
    BY <1>3, EndKeeps DEF ResetEnds
<1> QED  BY <1>1, <1>2, <1>3

LEMMA RestartKeeps == ASSUME Restart PROVE Excluded'
<1> USE ProcsDistinct DEF Restart
<1>1. OperationsExclude'
    BY DEF OperationsExclude
<1>2. ReportStaysTrue' /\ ListedIsCompared' /\ FoundIsTrue' /\ DriftIsRecorded'
    BY DEF ReportStaysTrue, ListedIsCompared, FoundIsTrue, DriftIsRecorded,
           Comparing
<1>3. ResetsOverwrite' /\ ChecksCompare'
    BY DEF ResetsOverwrite, ChecksCompare, Comparing
<1> QED  BY <1>1, <1>2, <1>3 DEF Excluded

-----------------------------------------------------------------------------
\* The employee that is saved leaves rest, and its baseline is what was listed,
\* or it joins unsaved.
LEMMA SaveKeeps ==
    ASSUME CheckerInv, NEW p \in Procs, Save(p) PROVE Excluded'
<1> USE ProcsDistinct
<1>1. /\ pc[p] = "save" /\ running = p /\ current[p] \in rest[p]
      /\ current[p] \in Employees
      /\ \A q \in Procs : q # p =>
            /\ pc'[q] = pc[q] /\ pc[q] \in {"idle", "done"}
            /\ ~Comparing(q)' /\ found[q] = {}
    BY OthersAreIdle
    DEF CheckerInv, TypeOK, OperationsExclude, Save, Comparing
<1>2. /\ pc'[p] = "compare" /\ Comparing(p)
      /\ rest'[p] = rest[p] \ {current[p]}
    BY <1>1 DEF CheckerInv, TypeOK, Save, Comparing
<1>3. /\ \A e \in Employees \ {current[p]} : baseline'[e] = baseline[e]
      /\ \/ baseline'[current[p]] = snap[p][current[p]] /\ unsaved' = unsaved
         \/ /\ baseline' = baseline
            /\ unsaved'[p] = unsaved[p] \cup {current[p]}
    BY <1>1 DEF CheckerInv, TypeOK, Save
<1>4. OperationsExclude' /\ DriftIsRecorded'
    BY <1>1, <1>2 DEF CheckerInv, OperationsExclude, DriftIsRecorded, Save
<1>5. ReportStaysTrue'
    BY <1>2 DEF ReportStaysTrue, Comparing
<1>6. ListedIsCompared'
    BY <1>1, <1>2 DEF CheckerInv, ListedIsCompared, Listed, Comparing, Save
<1>7. FoundIsTrue'
  <2>1. CASE p # Ticker
    BY <2>1, <1>1 DEF FoundIsTrue, Save
  <2>2. CASE p = Ticker
    <3> SUFFICES ASSUME NEW m \in found[Ticker]
                 PROVE  /\ m.new = snap[Ticker][m.dn] /\ StillTrue(m)'
                        /\ m.dn \notin rest'[Ticker]
        BY DEF FoundIsTrue, Save
    <3>1. /\ m.new = snap[Ticker][m.dn] /\ StillTrue(m) /\ m.dn \in Employees
          /\ m.dn \in rest[Ticker] => current[Ticker] = m.dn /\ autoUpdate
        BY DEF CheckerInv, FoundIsTrue, TypeOK, Mismatch
    <3>2. m.dn \notin rest'[Ticker]
        BY <3>1, <2>2, <1>2
    <3>5. UNCHANGED autoUpdate
        BY DEF Save
    <3>3. \/ baseline'[m.dn] = baseline[m.dn]
          \/ m.dn = current[p] /\ baseline'[m.dn] = m.new
        BY <3>1, <2>2, <1>1, <1>3
    <3>4. m.dn = current[p] => autoUpdate
        BY <3>1, <2>2, <1>1
    <3>6. StillTrue(m)'
        BY <3>1, <3>3, <3>4, <3>5, Zenon DEF StillTrue
    <3> QED  BY <3>1, <3>2, <3>6
  <2> QED  BY <2>1, <2>2
<1>8. ResetsOverwrite' /\ ChecksCompare'
  <2>1. \A e \in Behind(p)' :
          /\ e \in Employees
          /\ \/ e \in Behind(p) /\ baseline'[e] = baseline[e]
             \/ baseline'[e] = snap[p][e]
    BY <1>1, <1>2, <1>3 DEF Behind, Listed, Save
  <2>2. UNCHANGED <<snap, found, unread>>
    BY DEF Save
  <2>3. ASSUME p \in Callers PROVE ResetsOverwrite' /\ ChecksCompare'
    BY <2>1, <2>2, <2>3, <1>1, <1>2 DEF CheckerInv, ResetsOverwrite, ChecksCompare
  <2>4. ASSUME p = Ticker PROVE ResetsOverwrite' /\ ChecksCompare'
    BY <2>1, <2>2, <2>4, <1>1, <1>2 DEF CheckerInv, ResetsOverwrite, ChecksCompare
  <2> QED  BY <2>3, <2>4
<1> QED  BY <1>4, <1>5, <1>6, <1>7, <1>8 DEF Excluded

\* What Note adds is true of the baseline, and everything else found is of
\* employees that are behind.
LEMMA NoteAdds ==
    ASSUME CheckerInv, NEW p \in Procs, NEW e \in Employees,
           pc[p] = "compare", e \in rest[p], Note(p, e)
    PROVE  LET new == [dn |-> e, old |-> baseline[e], new |-> snap[p][e]] IN
           /\ found[p] \subseteq found'[p]
           /\ \A m \in found'[p] : m \in found[p] \/ (m = new /\ Differs(p, e))
           /\ Differs(p, e) => new \in found'[p]
           /\ \A q \in Procs : q # p => found'[q] = found[q]
BY DEF CheckerInv, TypeOK, Note

LEMMA CheckReadKeeps ==
    ASSUME CheckerInv, NEW e \in Employees, CheckRead(e) PROVE Excluded'
<1> USE ProcsDistinct
<1> DEFINE new == [dn |-> e, old |-> baseline[e], new |-> snap[Ticker][e]]
<1>1. /\ pc[Ticker] = "compare" /\ running = Ticker /\ e \in rest[Ticker]
      /\ Comparing(Ticker)
      /\ \A q \in Procs : q # Ticker =>
            pc[q] \in {"idle", "done"} /\ ~Comparing(q) /\ found[q] = {}
    BY OthersAreIdle DEF CheckRead, Comparing
<1>2. /\ found[Ticker] \subseteq found'[Ticker]
      /\ \A m \in found'[Ticker] :
            m \in found[Ticker] \/ (m = new /\ Differs(Ticker, e))
      /\ Differs(Ticker, e) => new \in found'[Ticker]
      /\ \A q \in Procs : q # Ticker => found'[q] = found[q]
    BY <1>1, NoteAdds DEF CheckRead
<1>3. UNCHANGED <<baseline, running, last, snap, autoUpdate, unread, unsaved>>
    BY DEF CheckRead, history
<1>4. \/ /\ pc' = [pc EXCEPT ![Ticker] = "save"] /\ rest' = rest
         /\ current'[Ticker] = e
         /\ baseline[e] = None \/ (Differs(Ticker, e) /\ autoUpdate)
      \/ /\ pc' = pc /\ rest' = [rest EXCEPT ![Ticker] = @ \ {e}]
         /\ baseline[e] # None /\ ~(Differs(Ticker, e) /\ autoUpdate)
    BY DEF CheckerInv, TypeOK, CheckRead, GoSave, Skip
<1>5. /\ pc'[Ticker] \in {"compare", "save"}
      /\ \A q \in Procs : q # Ticker => pc'[q] = pc[q] /\ rest'[q] = rest[q]
      /\ pc'[Ticker] = "save" => current'[Ticker] = e /\ e \in rest'[Ticker]
      /\ rest'[Ticker] \subseteq rest[Ticker]
    BY <1>1, <1>4 DEF CheckerInv, TypeOK
<1>6. OperationsExclude'
    BY <1>1, <1>3, <1>5 DEF CheckerInv, OperationsExclude
<1>7. ReportStaysTrue'
    BY <1>5 DEF ReportStaysTrue, Comparing
<1>8. ListedIsCompared'
    BY <1>1, <1>2, <1>3, <1>5 DEF CheckerInv, ListedIsCompared, Listed, Comparing
<1>9. FoundIsTrue'
  <2> SUFFICES ASSUME NEW m \in found'[Ticker]
               PROVE  /\ m.new = snap[Ticker][m.dn] /\ StillTrue(m)'
                      /\ m.dn \in rest'[Ticker] =>
                            /\ pc'[Ticker] = "save" /\ current'[Ticker] = m.dn
                            /\ autoUpdate'
      BY <1>3 DEF FoundIsTrue
  <2>1. CASE m \in found[Ticker]
    <3>1. /\ m.new = snap[Ticker][m.dn] /\ StillTrue(m)
          /\ m.dn \notin rest[Ticker]
        BY <2>1, <1>1 DEF CheckerInv, FoundIsTrue
    <3>2. StillTrue(m)'
        BY <3>1, <1>3, Zenon DEF StillTrue
    <3> QED  BY <3>1, <3>2, <1>5
  <2>2. CASE m = new /\ Differs(Ticker, e)
    <3>1. m.dn = e /\ m.new = snap[Ticker][e] /\ baseline[m.dn] = m.old
        BY <2>2
    <3>2. StillTrue(m)'
        BY <3>1, <1>3, Zenon DEF StillTrue
    <3>3. e \in rest'[Ticker] => pc'[Ticker] = "save" /\ autoUpdate
        BY <2>2, <1>1, <1>4 DEF CheckerInv, TypeOK, Differs
    <3> QED  BY <3>1, <3>2, <3>3, <1>3, <1>5
  <2> QED  BY <2>1, <2>2, <1>2
<1>10. DriftIsRecorded'
    BY <1>1, <1>2, <1>3, <1>5 DEF DriftIsRecorded, Recorded, Differs
<1>11. ResetsOverwrite'
    BY <1>1, <1>5 DEF ResetsOverwrite, Comparing
<1>12. ChecksCompare'
  <2> SUFFICES ASSUME NEW d \in Behind(Ticker)' \ unread'[Ticker]
               PROVE  \/ baseline[d] = snap[Ticker][d]
                      \/ \E m \in found'[Ticker] : m.dn = d
      BY <1>3 DEF ChecksCompare
  <2>1. CASE d = e
    <3>1. pc' = pc /\ ~(Differs(Ticker, e) /\ autoUpdate) /\ baseline[e] # None
        BY <2>1, <1>1, <1>4 DEF Behind, CheckerInv, TypeOK
    <3>2. CASE Differs(Ticker, e)
      <4>1. new \in found'[Ticker] /\ new.dn = e
        BY <3>2, <1>2
      <4> QED  BY <4>1, <2>1
    <3>3. CASE ~Differs(Ticker, e)
        BY <3>1, <3>3, <2>1 DEF Differs
    <3> QED  BY <3>2, <3>3
  <2>2. CASE d # e
    <3>1. d \in Behind(Ticker) \ unread[Ticker]
        BY <2>2, <1>1, <1>3, <1>4 DEF Behind, Listed, CheckerInv, TypeOK
    <3> QED  BY <3>1, <1>1, <1>2 DEF CheckerInv, ChecksCompare
  <2> QED  BY <2>1, <2>2
<1> QED
    BY <1>6, <1>7, <1>8, <1>9, <1>10, <1>11, <1>12 DEF Excluded

\* An employee passed over is one whose baseline could not be read.
LEMMA CheckReadErrorKeeps ==
    ASSUME CheckerInv, NEW e \in Employees, CheckReadError(e) PROVE Excluded'
<1> USE ProcsDistinct
<1>1. /\ pc[Ticker] = "compare" /\ running = Ticker /\ e \in rest[Ticker]
      /\ Comparing(Ticker)
      /\ \A q \in Procs : q # Ticker => pc[q] \in {"idle", "done"}
    BY OthersAreIdle DEF CheckReadError, Comparing
<1>2. UNCHANGED <<baseline, running, last, pc, snap, found, current, autoUpdate,
                  unsaved>>
    BY DEF CheckReadError, Skip
<1>3. /\ rest' = [rest EXCEPT ![Ticker] = @ \ {e}]
      /\ rest'[Ticker] = rest[Ticker] \ {e}
      /\ unread'[Ticker] = unread[Ticker] \cup {e}
    BY DEF CheckerInv, TypeOK, CheckReadError, Skip
<1>4. OperationsExclude' /\ ReportStaysTrue'
    BY <1>1, <1>2
    DEF CheckerInv, OperationsExclude, ReportStaysTrue, StillTrue, Comparing
<1>5. ListedIsCompared' /\ FoundIsTrue'
    BY <1>1, <1>2, <1>3
    DEF CheckerInv, TypeOK, ListedIsCompared, FoundIsTrue, StillTrue, Listed,
        Comparing
<1>6. DriftIsRecorded' /\ ResetsOverwrite'
    BY <1>1, <1>2 DEF DriftIsRecorded, ResetsOverwrite, Comparing
<1>7. ChecksCompare'
    BY <1>1, <1>2, <1>3
    DEF CheckerInv, ChecksCompare, Comparing, Behind, Listed
<1> QED  BY <1>4, <1>5, <1>6, <1>7 DEF Excluded

\* A reset is about to save an employee: it has recorded the drift, or failed
\* to read the baseline.
LEMMA ResetReadKeeps ==
    ASSUME CheckerInv, NEW p \in Callers, NEW e \in Employees,
           ResetRead(p, e) \/ ResetReadError(p, e)
    PROVE  Excluded'
<1> USE ProcsDistinct
<1> DEFINE new == [dn |-> e, old |-> baseline[e], new |-> snap[p][e]]
<1>1. /\ pc[p] = "compare" /\ running = p /\ e \in rest[p] /\ Comparing(p)
      /\ \A q \in Procs : q # p =>
            pc[q] \in {"idle", "done"} /\ ~Comparing(q) /\ found[q] = {}
    BY OthersAreIdle DEF ResetRead, ResetReadError, Comparing
<1>2. /\ UNCHANGED <<baseline, running, snap, rest, autoUpdate, unsaved>>
      /\ \A q \in Procs : q # p => pc'[q] = pc[q] /\ found'[q] = found[q]
      /\ pc'[p] = "save" /\ current'[p] = e
    BY DEF CheckerInv, TypeOK, ResetRead, ResetReadError, GoSave, Note, history
<1>3. Differs(p, e) => new \in found'[p] \/ e \in unread'[p]
  <2>1. CASE ResetRead(p, e)
    BY <2>1, <1>1, NoteAdds DEF ResetRead
  <2>2. CASE ResetReadError(p, e)
    BY <2>2 DEF ResetReadError, CheckerInv, TypeOK
  <2> QED  BY <2>1, <2>2
<1>4. OperationsExclude' /\ ReportStaysTrue'
    BY <1>1, <1>2 DEF CheckerInv, OperationsExclude, ReportStaysTrue, Comparing
<1>5. ListedIsCompared' /\ FoundIsTrue'
    BY <1>1, <1>2 DEF CheckerInv, ListedIsCompared, FoundIsTrue, Listed, Comparing
<1>6. DriftIsRecorded'
    BY <1>1, <1>2, <1>3 DEF DriftIsRecorded, Recorded, Differs
<1>7. ResetsOverwrite'
    BY <1>1, <1>2
    DEF CheckerInv, ResetsOverwrite, Comparing, Behind, Listed
<1>8. ChecksCompare'
    BY <1>1, <1>2 DEF ChecksCompare, Comparing
<1> QED  BY <1>4, <1>5, <1>6, <1>7, <1>8 DEF Excluded

LEMMA CheckerInvNext == CheckerInv /\ [Next]_vars => CheckerInv'
<1> SUFFICES ASSUME CheckerInv, [Next]_vars PROVE CheckerInv'
    OBVIOUS
<1> USE ProcsDistinct
<1>1. TypeOK'
    BY TypeNext DEF CheckerInv
<1>2. ASSUME \E e \in Employees, x \in Entry : Change(e, x)
      PROVE  Excluded'
    BY <1>2, SameKeeps DEF Change
<1>3. ASSUME \E p \in Procs : Begin(p)
      PROVE  Excluded'
    BY <1>3, BeginKeeps
<1>4. ASSUME \E p \in Procs : ListStep(p)
      PROVE  Excluded'
    BY <1>4, ListEntryKeeps, EndsKeep DEF ListStep
<1>5. ASSUME \E p \in Procs : Save(p)
      PROVE  Excluded'
    BY <1>5, SaveKeeps
<1>6. ASSUME \E e \in Employees : CheckRead(e) \/ CheckReadError(e)
      PROVE  Excluded'
    BY <1>6, CheckReadKeeps, CheckReadErrorKeeps
<1>7. ASSUME \E p \in Callers, e \in Employees :
                 ResetRead(p, e) \/ ResetReadError(p, e)
      PROVE  Excluded'
    BY <1>7, ResetReadKeeps
<1>8. ASSUME CheckEnds \/ \E p \in Callers : ResetEnds(p)
      PROVE  Excluded'
    BY <1>8, EndsKeep
<1>9. ASSUME Stop \/ \E p \in Callers : ClientLeaves(p)
      PROVE  Excluded'
    BY <1>9, SameKeeps DEF Stop, ClientLeaves
<1>10. ASSUME StartReturns
      PROVE  Excluded'
    BY <1>10, StartReturnsKeeps
<1>11. ASSUME Restart
      PROVE  Excluded'
    BY <1>11, RestartKeeps
<1>12. ASSUME UNCHANGED vars
      PROVE  Excluded'
    BY <1>12, SameKeeps DEF vars, history
<1>13. Excluded'
    BY <1>2, <1>3, <1>4, <1>5, <1>6, <1>7, <1>8, <1>9, <1>10, <1>11, <1>12
    DEF Next, CheckStep, ResetStep
<1> QED  BY <1>1, <1>13 DEF CheckerInv, Excluded

-----------------------------------------------------------------------------
\* The lock, the report, what an operation has found and what it has done.
\* (Checker.runOnce, doRun, Reset)
THEOREM CheckerInvariant == Spec => []CheckerInv
<1>1. Init => CheckerInv
    BY InitExcluded
<1>2. CheckerInv /\ [Next]_vars => CheckerInv'
    BY CheckerInvNext
<1> QED  BY <1>1, <1>2, PTL DEF Spec

\* Between operations the report speaks of the baseline that is stored.
\* (LastResult, Reset)
THEOREM ReportsMatchBaselines == Spec => []ReportMatchesBaseline
<1>1. CheckerInv => ReportMatchesBaseline
    BY ProcsDistinct
    DEF CheckerInv, OperationsExclude, ReportStaysTrue, ReportMatchesBaseline,
        Comparing
<1> QED  BY <1>1, CheckerInvariant, PTL

\* The steps that change a baseline are the saves.
LEMMA OnlySavesReplace ==
    ASSUME CheckerInv, [Next]_vars, NEW e \in Employees, Replaced(e)
    PROVE  \E p \in Procs : Save(p) /\ current[p] = e
                           /\ baseline'[e] = snap[p][e]
<1>1. baseline' # baseline
    BY DEF Replaced
<1>2. PICK p \in Procs : Save(p)
    BY <1>1, ProcsDistinct
    DEF Next, vars, Change, Begin, CheckStep, ListStep, ListError, ListEntry,
        CheckRead, CheckReadError, CheckEnds, Stop, StartReturns, ResetStep,
        ResetRead, ResetReadError, ResetEnds, ClientLeaves, Restart
<1> QED  BY <1>2 DEF Save, Replaced, CheckerInv, TypeOK

\* A baseline is replaced by an operation that has recorded the drift, or by a
\* reset that could not read it.  (checker.go:91-92)
THEOREM DriftIsRecordedIfRead == Spec => DriftRecordedIfRead
<1>1. CheckerInv /\ [Next]_vars =>
        \A e \in Employees : Replaced(e) =>
            \/ Recorded(e, baseline'[e])
            \/ \E p \in Callers : running = p /\ e \in unread[p]
  <2> SUFFICES ASSUME CheckerInv, [Next]_vars, NEW e \in Employees, Replaced(e)
               PROVE  \/ Recorded(e, baseline'[e])
                      \/ \E p \in Callers : running = p /\ e \in unread[p]
    OBVIOUS
  <2>1. PICK p \in Procs : Save(p) /\ current[p] = e /\ baseline'[e] = snap[p][e]
    BY OnlySavesReplace
  <2>2. pc[p] = "save" /\ running = p /\ Differs(p, e)
    BY <2>1 DEF CheckerInv, OperationsExclude, Save, Replaced, Differs
  <2> QED  BY <2>1, <2>2 DEF CheckerInv, DriftIsRecorded
<1> QED  BY <1>1, CheckerInvariant, PTL DEF Spec, DriftRecordedIfRead

\* A reset that ends has overwritten the baseline of all it listed and could
\* write.  (handlers.go:36-41)
THEOREM ResetsOverwriteBaselines == Spec => ResetOverwrites
<1>1. CheckerInv =>
        \A p \in Callers : ResetEnds(p) =>
            \A e \in Listed(p) \ unsaved[p] : baseline[e] = snap[p][e]
    BY DEF CheckerInv, ResetsOverwrite, ResetEnds, Comparing, Behind
<1> QED  BY <1>1, CheckerInvariant, PTL DEF ResetOverwrites

\* A summary that says success speaks of all that could be read and written.
\* (emitSummary)
THEOREM SuccessesMeanMatches == Spec => SuccessMeansMatch
<1>1. CheckerInv => (CheckEnds /\ found[Ticker] = {} =>
        \A e \in Listed(Ticker) \ (unread[Ticker] \cup unsaved[Ticker]) :
            baseline[e] = snap[Ticker][e])
    BY DEF CheckerInv, ChecksCompare, CheckEnds, Comparing, Behind
<1> QED  BY <1>1, CheckerInvariant, PTL DEF SuccessMeansMatch
=============================================================================
