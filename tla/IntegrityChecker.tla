-------------------------- MODULE IntegrityChecker --------------------------
(***************************************************************************)
(* The integrity checker of internal/integrity: a goroutine that compares  *)
(* the directory with the stored baseline at every tick, and the requests  *)
(* that reset the baseline.                                                *)
(*                                                                         *)
(* The two exclude each other by TryLock, but the directory moves on under *)
(* both, the baseline is read and written one employee at a time, every    *)
(* one of these calls can fail, and the context they run in can be         *)
(* cancelled half way.  A hash is named by the content it is the hash of.  *)
(* A tick or a reset that finds the lock taken does nothing, which is a    *)
(* stuttering step.                                                        *)
(***************************************************************************)
EXTENDS FiniteSets

CONSTANTS
    Employees,
    Contents,    \* what the monitored attributes of an entry may hold
    None,        \* no entry, or no baseline
    Ticker,      \* the goroutine of Start
    Callers,     \* the goroutines of reset requests
    Failures     \* what may go wrong: see FailureNames

FailureNames ==
    {"list",     \* the lister fails
     "read",     \* a query for a baseline fails
     "save",     \* a write of a baseline fails
     "gone",     \* the client of a reset goes away: its context is cancelled
     "stop",     \* the process shuts down: the context of Start is cancelled
     "crash"}    \* the process is killed and started again

ASSUME CheckerAssumption ==
    /\ None \notin Contents
    /\ Ticker \notin Callers /\ None \notin Callers \cup {Ticker}
    /\ Failures \subseteq FailureNames

VARIABLES
    ad,          \* ad[e]: the content of the entry, None if there is none
    baseline,    \* the table integrity_baseline
    running,     \* the holder of c.running, or None
    last,        \* c.last
    pc,          \* where each goroutine is
    snap,        \* the listing it works on
    rest,        \* the employees still to list, or to compare
    found,       \* the mismatches found so far
    current,     \* the employee whose baseline it is about to save
    cancelled,   \* its context is cancelled
    autoUpdate,  \* cfg.Integrity.AutoUpdate, read when the process starts
    unread,      \* history: employees whose baseline this operation failed to
                 \* read
    unsaved      \* history: and those for whom it failed to write it

vars == <<ad, baseline, running, last, pc, snap, rest, found, current,
          cancelled, autoUpdate, unread, unsaved>>
history == <<autoUpdate, unread, unsaved>>

Procs == Callers \cup {Ticker}
Entry == Contents \cup {None}
Mismatch == [dn: Employees, old: Contents, new: Contents]

Listed(p) == {e \in Employees : snap[p][e] # None}

TypeOK ==
    /\ ad \in [Employees -> Entry]
    /\ baseline \in [Employees -> Entry]
    /\ running \in Procs \cup {None}
    /\ last \subseteq Mismatch
    /\ pc \in [Procs -> {"idle", "list", "compare", "save", "done"}]
    /\ snap \in [Procs -> [Employees -> Entry]]
    /\ rest \in [Procs -> SUBSET Employees]
    /\ found \in [Procs -> SUBSET Mismatch]
    /\ current \in [Procs -> Employees \cup {None}]
    /\ cancelled \in [Procs -> BOOLEAN]
    /\ autoUpdate \in BOOLEAN
    /\ unread \in [Procs -> SUBSET Employees]
    /\ unsaved \in [Procs -> SUBSET Employees]

Idle(p) ==
    /\ snap' = [snap EXCEPT ![p] = [e \in Employees |-> None]]
    /\ rest' = [rest EXCEPT ![p] = {}]
    /\ found' = [found EXCEPT ![p] = {}]
    /\ current' = [current EXCEPT ![p] = None]
    /\ unread' = [unread EXCEPT ![p] = {}]
    /\ unsaved' = [unsaved EXCEPT ![p] = {}]
    /\ UNCHANGED autoUpdate

ProcsIdle ==
    /\ running = None
    /\ last = {}
    /\ pc = [p \in Procs |-> "idle"]
    /\ snap = [p \in Procs |-> [e \in Employees |-> None]]
    /\ rest = [p \in Procs |-> {}]
    /\ found = [p \in Procs |-> {}]
    /\ current = [p \in Procs |-> None]
    /\ cancelled = [p \in Procs |-> FALSE]
    /\ autoUpdate \in BOOLEAN
    /\ unread = [p \in Procs |-> {}]
    /\ unsaved = [p \in Procs |-> {}]

Init ==
    /\ ad \in [Employees -> Entry]
    /\ baseline = [e \in Employees |-> None]
    /\ ProcsIdle

-----------------------------------------------------------------------------
(* The directory. *)

\* An entry is edited, created or removed, by the program or by others.
Change(e, x) ==
    /\ x # ad[e]
    /\ ad' = [ad EXCEPT ![e] = x]
    /\ UNCHANGED <<baseline, running, last, pc, snap, rest, found, current,
                   cancelled, history>>

-----------------------------------------------------------------------------
(* What a check and a reset share: the lock and the listing. *)

\* Mutant: the operations do not exclude each other.
BeginUnlocked(p) ==
    /\ pc[p] = "idle"
    /\ running' = p
    /\ pc' = [pc EXCEPT ![p] = "list"]
    /\ rest' = [rest EXCEPT ![p] = Employees]
    /\ UNCHANGED <<ad, baseline, last, snap, found, current, cancelled,
                   history>>

Begin(p) ==
    /\ pc[p] = "idle"
    /\ running = None
    /\ running' = p
    /\ pc' = [pc EXCEPT ![p] = "list"]
    /\ rest' = [rest EXCEPT ![p] = Employees]
    /\ UNCHANGED <<ad, baseline, last, snap, found, current, cancelled,
                   history>>

\* The search returns its entries one by one; after the last of them the
\* loop over what was listed begins.
ListEntry(p, e) ==
    /\ pc[p] = "list"
    /\ e \in rest[p]
    /\ snap' = [snap EXCEPT ![p][e] = ad[e]]
    /\ IF rest[p] = {e}
       THEN /\ pc' = [pc EXCEPT ![p] = "compare"]
            /\ rest' = [rest EXCEPT ![p] =
                           {d \in Employees : snap'[p][d] # None}]
       ELSE /\ rest' = [rest EXCEPT ![p] = @ \ {e}]
            /\ pc' = pc
    /\ UNCHANGED <<ad, baseline, running, last, found, current, cancelled,
                   history>>

\* The operation ends with an error and leaves last as it was.
ListError(p) ==
    /\ "list" \in Failures
    /\ pc[p] = "list"
    /\ running' = None
    /\ pc' = [pc EXCEPT ![p] = "idle"]
    /\ cancelled' = [cancelled EXCEPT ![p] = @ /\ p = Ticker]
    /\ Idle(p)
    /\ UNCHANGED <<ad, baseline, last>>

Differs(p, e) == baseline[e] # None /\ baseline[e] # snap[p][e]

Note(p, e) ==
    found' = [found EXCEPT ![p] = IF Differs(p, e)
        THEN @ \cup {[dn |-> e, old |-> baseline[e], new |-> snap[p][e]]}
        ELSE @]

\* On to the next employee, or to saving the baseline of this one.
Skip(p, e) ==
    /\ rest' = [rest EXCEPT ![p] = @ \ {e}]
    /\ UNCHANGED <<pc, current>>

GoSave(p, e) ==
    /\ pc' = [pc EXCEPT ![p] = "save"]
    /\ current' = [current EXCEPT ![p] = e]
    /\ rest' = rest

\* The upsert; its error is ignored.
Save(p) ==
    /\ pc[p] = "save"
    /\ \/ /\ ~cancelled[p]
          /\ baseline' = [baseline EXCEPT ![current[p]] = snap[p][current[p]]]
          /\ unsaved' = unsaved
       \/ /\ "save" \in Failures \/ cancelled[p]
          /\ baseline' = baseline
          /\ unsaved' = [unsaved EXCEPT ![p] = @ \cup {current[p]}]
    /\ rest' = [rest EXCEPT ![p] = @ \ {current[p]}]
    /\ current' = [current EXCEPT ![p] = None]
    /\ pc' = [pc EXCEPT ![p] = "compare"]
    /\ UNCHANGED <<ad, running, last, snap, found, cancelled, autoUpdate, unread>>

-----------------------------------------------------------------------------
(* Start, runOnce and doRun. *)

\* Mutant: a mismatch is handled but not recorded.
CheckReadUnrecorded(e) ==
    /\ pc[Ticker] = "compare"
    /\ e \in rest[Ticker]
    /\ ~cancelled[Ticker]
    /\ IF baseline[e] = None \/ (Differs(Ticker, e) /\ autoUpdate)
       THEN GoSave(Ticker, e)
       ELSE Skip(Ticker, e)
    /\ UNCHANGED <<ad, baseline, running, last, snap, found, cancelled,
                   history>>

\* Mutant: an employee without a baseline is passed over.
CheckReadNewSkipped(e) ==
    /\ pc[Ticker] = "compare"
    /\ e \in rest[Ticker]
    /\ ~cancelled[Ticker]
    /\ Note(Ticker, e)
    /\ IF Differs(Ticker, e) /\ autoUpdate THEN GoSave(Ticker, e)
                                           ELSE Skip(Ticker, e)
    /\ UNCHANGED <<ad, baseline, running, last, snap, cancelled, history>>

\* An employee seen for the first time gets a baseline; a mismatch is logged
\* and, with AutoUpdate, becomes the baseline.
CheckRead(e) ==
    /\ pc[Ticker] = "compare"
    /\ e \in rest[Ticker]
    /\ ~cancelled[Ticker]
    /\ Note(Ticker, e)
    /\ IF baseline[e] = None \/ (Differs(Ticker, e) /\ autoUpdate)
       THEN GoSave(Ticker, e)
       ELSE Skip(Ticker, e)
    /\ UNCHANGED <<ad, baseline, running, last, snap, cancelled, history>>

CheckReadError(e) ==
    /\ "read" \in Failures \/ cancelled[Ticker]
    /\ pc[Ticker] = "compare"
    /\ e \in rest[Ticker]
    /\ Skip(Ticker, e)
    /\ unread' = [unread EXCEPT ![Ticker] = @ \cup {e}]
    /\ UNCHANGED <<ad, baseline, running, last, snap, found, cancelled,
                   autoUpdate, unsaved>>

\* Mutant: the lock is not released.
CheckEndsLocked ==
    /\ pc[Ticker] = "compare"
    /\ rest[Ticker] = {}
    /\ last' = found[Ticker]
    /\ pc' = [pc EXCEPT ![Ticker] = "idle"]
    /\ Idle(Ticker)
    /\ UNCHANGED <<ad, baseline, running, cancelled>>

\* The summary is logged, as a success when no mismatch was found.
CheckEnds ==
    /\ pc[Ticker] = "compare"
    /\ rest[Ticker] = {}
    /\ last' = found[Ticker]
    /\ running' = None
    /\ pc' = [pc EXCEPT ![Ticker] = "idle"]
    /\ Idle(Ticker)
    /\ UNCHANGED <<ad, baseline, cancelled>>

\* The context of Start is cancelled by main; Start sees it between checks.
Stop ==
    /\ "stop" \in Failures
    /\ ~cancelled[Ticker]
    /\ cancelled' = [cancelled EXCEPT ![Ticker] = TRUE]
    /\ UNCHANGED <<ad, baseline, running, last, pc, snap, rest, found, current,
                   history>>

StartReturns ==
    /\ pc[Ticker] = "idle"
    /\ cancelled[Ticker]
    /\ pc' = [pc EXCEPT ![Ticker] = "done"]
    /\ UNCHANGED <<ad, baseline, running, last, snap, rest, found, current,
                   cancelled, history>>

-----------------------------------------------------------------------------
(* Reset *)

\* Mutant: only mismatches are saved.
ResetReadMismatch(p, e) ==
    /\ pc[p] = "compare"
    /\ e \in rest[p]
    /\ ~cancelled[p]
    /\ Note(p, e)
    /\ IF Differs(p, e) THEN GoSave(p, e) ELSE Skip(p, e)
    /\ UNCHANGED <<ad, baseline, running, last, snap, cancelled, history>>

ResetRead(p, e) ==
    /\ pc[p] = "compare"
    /\ e \in rest[p]
    /\ ~cancelled[p]
    /\ Note(p, e)
    /\ GoSave(p, e)
    /\ UNCHANGED <<ad, baseline, running, last, snap, cancelled, history>>

\* The error is ignored and the employee taken for one without a baseline.
ResetReadError(p, e) ==
    /\ "read" \in Failures \/ cancelled[p]
    /\ pc[p] = "compare"
    /\ e \in rest[p]
    /\ GoSave(p, e)
    /\ unread' = [unread EXCEPT ![p] = @ \cup {e}]
    /\ UNCHANGED <<ad, baseline, running, last, snap, found, cancelled,
                   autoUpdate, unsaved>>

\* Mutant: the report of the last check stays.
ResetEndsKeepingLast(p) ==
    /\ pc[p] = "compare"
    /\ rest[p] = {}
    /\ running' = None
    /\ pc' = [pc EXCEPT ![p] = "idle"]
    /\ cancelled' = [cancelled EXCEPT ![p] = FALSE]
    /\ Idle(p)
    /\ UNCHANGED <<ad, baseline, last>>

\* The reply counts the mismatches and says baseline_updated.
ResetEnds(p) ==
    /\ pc[p] = "compare"
    /\ rest[p] = {}
    /\ last' = {}
    /\ running' = None
    /\ pc' = [pc EXCEPT ![p] = "idle"]
    /\ cancelled' = [cancelled EXCEPT ![p] = FALSE]
    /\ Idle(p)
    /\ UNCHANGED <<ad, baseline>>

ClientLeaves(p) ==
    /\ "gone" \in Failures
    /\ pc[p] # "idle"
    /\ ~cancelled[p]
    /\ cancelled' = [cancelled EXCEPT ![p] = TRUE]
    /\ UNCHANGED <<ad, baseline, running, last, pc, snap, rest, found, current,
                   history>>

-----------------------------------------------------------------------------
\* The baselines are all that a restart leaves.
Restart ==
    /\ "crash" \in Failures
    /\ UNCHANGED <<ad, baseline>>
    /\ running' = None
    /\ last' = {}
    /\ pc' = [p \in Procs |-> "idle"]
    /\ snap' = [p \in Procs |-> [e \in Employees |-> None]]
    /\ rest' = [p \in Procs |-> {}]
    /\ found' = [p \in Procs |-> {}]
    /\ current' = [p \in Procs |-> None]
    /\ cancelled' = [p \in Procs |-> FALSE]
    /\ autoUpdate' \in BOOLEAN
    /\ unread' = [p \in Procs |-> {}]
    /\ unsaved' = [p \in Procs |-> {}]

ListStep(p) == ListError(p) \/ \E e \in Employees : ListEntry(p, e)

CheckStep ==
    \/ ListStep(Ticker)
    \/ \E e \in Employees : CheckRead(e) \/ CheckReadError(e)
    \/ Save(Ticker)
    \/ CheckEnds

ResetStep(p) ==
    \/ ListStep(p)
    \/ \E e \in Employees : ResetRead(p, e) \/ ResetReadError(p, e)
    \/ Save(p)
    \/ ResetEnds(p)

Next ==
    \/ \E e \in Employees, x \in Entry : Change(e, x)
    \/ Begin(Ticker) \/ CheckStep \/ Stop \/ StartReturns
    \/ \E p \in Callers : Begin(p) \/ ResetStep(p) \/ ClientLeaves(p)
    \/ Restart

Spec == Init /\ [][Next]_vars

(***************************************************************************)
(* Fairness: the ticker ticks, so a check begins again and again unless    *)
(* the lock is always taken when it does, and an operation that holds the  *)
(* lock goes on.  Nobody is obliged to send a reset.                       *)
(***************************************************************************)
FairSpec ==
    /\ Spec
    /\ WF_vars(Begin(Ticker)) /\ WF_vars(CheckStep)
    /\ \A p \in Callers : WF_vars(ResetStep(p))

-----------------------------------------------------------------------------
(* Properties *)

\* An operation that lists, compares or saves holds the lock, whatever became
\* of those before it, and it is the only one.  (TryLock, defer Unlock)
OperationsExclude ==
    /\ \A p \in Procs : pc[p] \in {"list", "compare", "save"} <=> running = p
    /\ \A p \in Procs : pc[p] = "save" => current[p] \in rest[p]

\* The report speaks of the baseline that is stored, or of the one AutoUpdate
\* has replaced by what it found.
StillTrue(m) ==
    \/ baseline[m.dn] = m.old
    \/ autoUpdate /\ baseline[m.dn] = m.new

\* Between operations every mismatch the report shows is one against the
\* baseline that is stored, or against the one AutoUpdate has just replaced:
\* what a reset acknowledged never comes back.  (LastResult, Reset)
ReportMatchesBaseline == running = None => \A m \in last : StillTrue(m)

\* What the properties rest on.  An operation that fails to list leaves the
\* report and the baseline as they were.
Comparing(p) == pc[p] \in {"compare", "save"}

ReportStaysTrue ==
    (\A p \in Procs : ~Comparing(p)) => \A m \in last : StillTrue(m)

\* It compares what it listed.
ListedIsCompared ==
    \A p \in Procs :
        /\ Comparing(p) => rest[p] \subseteq Listed(p)
        /\ found[p] # {} => Comparing(p)

\* What a check has found is true of the baseline, and stays so while the check
\* saves others: it saves over a mismatch only with AutoUpdate.
FoundIsTrue ==
    \A m \in found[Ticker] :
        /\ m.new = snap[Ticker][m.dn] /\ StillTrue(m)
        /\ m.dn \in rest[Ticker] =>
              pc[Ticker] = "save" /\ current[Ticker] = m.dn /\ autoUpdate

Recorded(e, new) ==
    \E p \in Procs : [dn |-> e, old |-> baseline[e], new |-> new] \in found[p]

\* A hash about to be replaced has been recorded, or could not be read.
DriftIsRecorded ==
    \A p \in Procs : pc[p] = "save" /\ Differs(p, current[p]) =>
        \/ Recorded(current[p], snap[p][current[p]])
        \/ p \in Callers /\ current[p] \in unread[p]

\* A reset has overwritten, and a check has compared, those behind it.
Behind(p) == (Listed(p) \ rest[p]) \ unsaved[p]

ResetsOverwrite ==
    \A p \in Callers : Comparing(p) =>
        \A e \in Behind(p) : baseline[e] = snap[p][e]

ChecksCompare ==
    Comparing(Ticker) =>
        \A e \in Behind(Ticker) \ unread[Ticker] :
            baseline[e] = snap[Ticker][e] \/ \E m \in found[Ticker] : m.dn = e

CheckerInv ==
    /\ TypeOK /\ OperationsExclude
    /\ ReportStaysTrue /\ ListedIsCompared /\ FoundIsTrue /\ DriftIsRecorded
    /\ ResetsOverwrite /\ ChecksCompare

Replaced(e) == baseline[e] # None /\ baseline'[e] # baseline[e]

\* A stored baseline is replaced by another hash only by an operation that
\* has recorded the mismatch, or by a reset that failed to read the baseline it
\* replaces: no other drift is absorbed unseen.  (Reset "records mismatches
\* against the stored baseline, then overwrites every baseline entry with the
\* fresh hash", checker.go:91-92)
DriftRecordedIfRead ==
    [][\A e \in Employees : Replaced(e) =>
          \/ Recorded(e, baseline'[e])
          \/ \E p \in Callers : running = p /\ e \in unread[p]]_vars

\* A reset that ends has overwritten the baseline of every employee it
\* listed, even if the old one could not be read, save those whose upsert
\* failed.  ("baseline_updated": true, handlers.go:36-41)
ResetOverwrites ==
    [][\A p \in Callers : ResetEnds(p) =>
          \A e \in Listed(p) \ unsaved[p] : baseline[e] = snap[p][e]]_vars

\* A check whose summary is a success leaves every employee it listed with
\* the hash it listed as the baseline, save those it could not read or could
\* not write.  (emitSummary)
SuccessMeansMatch ==
    [][CheckEnds /\ found[Ticker] = {} =>
          \A e \in Listed(Ticker) \ (unread[Ticker] \cup unsaved[Ticker]) :
              baseline[e] = snap[Ticker][e]]_vars

\* The lock is free again and again: no error path, cancellation or restart
\* leaves an operation holding it, and so no tick is skipped for ever.
\* (TryLock, defer Unlock)
LockIsReleased == []<>(running = None)
=============================================================================
