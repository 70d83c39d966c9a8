------------------------- MODULE MarkdownCorrection -------------------------
(***************************************************************************)
(* The Markdown handlers of internal/markdown, composed with the employee  *)
(* handlers that share the directory and hold its records in a cache.      *)
(*                                                                         *)
(* A document is a sequence of blocks; each well-formed block is one       *)
(* operation.  Validate looks every operation up and replies; apply looks  *)
(* every operation up, then makes the modifications one after another, and *)
(* reports all of them in one audit event before it replies.  A document   *)
(* without its title, or a body that is not JSON, is refused before any of *)
(* this and changes nothing.                                               *)
(***************************************************************************)
EXTENDS EmployeeDirectory

CONSTANTS
    Technicians, \* the goroutines serving Markdown requests
    Ghost,       \* a DN the directory does not have
    Documents,   \* the documents clients send
    MaxReports   \* bound: events after which no document is sent

\* A block names an employee, an attribute and a new value; None is a field
\* that is missing, "other" an attribute that is not on the allowlist.
Names == Employees \cup {Ghost, None}
Attrs == EditableAttrs \cup {"other", None}
Block == [dn: Names, attr: Attrs, new: BOOLEAN]

\* parseBlock: the blocks that become an operation.
WellFormed(b) == b.dn # None /\ b.attr # None /\ b.new

ASSUME DocumentsAssumption ==
    /\ Documents \subseteq Seq(Block)
    /\ Ghost \notin Employees \cup {None}
    /\ MaxReports \in Nat

VARIABLES
    phase,       \* where each Markdown request is
    blocks,      \* the blocks of its document still to look up
    ops,         \* those it has looked up
    results,     \* what became of those it has tried to apply
    reports,     \* the apply_markdown events handed to the audit logger
    lost         \* history: modifications whose request a restart cut short

mdLocals == <<phase, blocks, ops, results>>
mdVars == <<mdLocals, reports, lost>>

Operation == [dn: Names, attr: Attrs, valid: BOOLEAN, old: Nat]
Result == [ok: BOOLEAN, new: Nat]
Change == [dn: Names, attr: Attrs, old: Nat, new: Nat, ok: BOOLEAN]

MdTypeOK ==
    /\ phase \in [Technicians -> {"idle", "validate", "lookup", "apply"}]
    /\ blocks \in [Technicians -> Seq(Block)]
    /\ ops \in [Technicians -> Seq(Operation)]
    /\ results \in [Technicians -> Seq(Result)]
    /\ reports \subseteq Seq(Change)
    /\ lost \subseteq Nat

MdInit ==
    /\ Init
    /\ phase = [w \in Technicians |-> "idle"]
    /\ blocks = [w \in Technicians |-> <<>>]
    /\ ops = [w \in Technicians |-> <<>>]
    /\ results = [w \in Technicians |-> <<>>]
    /\ reports = {} /\ lost = {}

-----------------------------------------------------------------------------
Submit(w, kind, doc) ==
    /\ phase[w] = "idle"
    /\ Cardinality(reports) < MaxReports
    /\ phase' = [phase EXCEPT ![w] = kind]
    /\ blocks' = [blocks EXCEPT ![w] = doc]
    /\ UNCHANGED <<vars, ops, results, reports, lost>>

\* ParseMarkdown makes no operation of it.
SkipBlock(w) ==
    /\ blocks[w] # <<>> /\ ~WellFormed(Head(blocks[w]))
    /\ blocks' = [blocks EXCEPT ![w] = Tail(@)]
    /\ UNCHANGED <<vars, phase, ops, results, reports, lost>>

\* Mutant: an operation stays valid when the lookup of its employee fails.
LookUpTrusting(w) ==
    LET b == Head(blocks[w])
        Add(valid, old) == ops' = [ops EXCEPT ![w] =
            Append(@, [dn |-> b.dn, attr |-> b.attr, valid |-> valid, old |-> old])]
    IN
    /\ phase[w] \in {"validate", "lookup"}
    /\ blocks[w] # <<>> /\ WellFormed(b)
    /\ \/ Add(b.attr \in EditableAttrs, 0)
       \/ /\ b.dn \in Employees /\ b.attr \in EditableAttrs
          /\ Add(TRUE, ad[b.dn][b.attr])
    /\ blocks' = [blocks EXCEPT ![w] = Tail(@)]
    /\ UNCHANGED <<vars, phase, results, reports, lost>>

\* ValidateOperations, one operation.  Only a known attribute is looked up; a
\* lookup that fails makes the operation invalid, like a missing employee.
LookUp(w) ==
    LET b == Head(blocks[w])
        Add(valid, old) == ops' = [ops EXCEPT ![w] =
            Append(@, [dn |-> b.dn, attr |-> b.attr, valid |-> valid, old |-> old])]
    IN
    /\ phase[w] \in {"validate", "lookup"}
    /\ blocks[w] # <<>> /\ WellFormed(b)
    /\ \/ Add(FALSE, 0)
       \/ /\ b.dn \in Employees /\ b.attr \in EditableAttrs
          /\ Add(TRUE, ad[b.dn][b.attr])
    /\ blocks' = [blocks EXCEPT ![w] = Tail(@)]
    /\ UNCHANGED <<vars, phase, results, reports, lost>>

MdEnds(w) ==
    /\ phase' = [phase EXCEPT ![w] = "idle"]
    /\ ops' = [ops EXCEPT ![w] = <<>>]
    /\ results' = [results EXCEPT ![w] = <<>>]

\* Validate replies with what it found.
ValidateReply(w) ==
    /\ phase[w] = "validate" /\ blocks[w] = <<>>
    /\ MdEnds(w)
    /\ UNCHANGED <<vars, blocks, reports, lost>>

\* Apply goes on with what ValidateOperations returned, errors or not.
BeginApply(w) ==
    /\ phase[w] = "lookup" /\ blocks[w] = <<>>
    /\ phase' = [phase EXCEPT ![w] = "apply"]
    /\ UNCHANGED <<vars, blocks, ops, results, reports, lost>>

Trying(w) == phase[w] = "apply" /\ Len(results[w]) < Len(ops[w])
Current(w) == ops[w][Len(results[w]) + 1]

Outcome(w, ok, new) ==
    results' = [results EXCEPT ![w] = Append(@, [ok |-> ok, new |-> new])]

ApplyInvalid(w) ==
    /\ Trying(w) /\ ~Current(w).valid
    /\ Outcome(w, FALSE, 0)
    /\ UNCHANGED <<vars, phase, blocks, ops, reports, lost>>

\* Mutant: the old value is taken from the directory at the last moment.
ApplyModifiesRereading(w) ==
    /\ Trying(w) /\ Current(w).valid
    /\ Store(Current(w).dn, Current(w).attr, "program")
    /\ Outcome(w, TRUE, Len(mods) + 1)
    /\ ops' = [ops EXCEPT ![w][Len(results[w]) + 1].old =
                  ad[Current(w).dn][Current(w).attr]]
    /\ UNCHANGED <<cacheVars, localVars, audit, ghostVars, phase, blocks,
                   reports, lost>>

\* The cached records and listings of the employee are left as they are.
ApplyModifies(w) ==
    /\ Trying(w) /\ Current(w).valid
    /\ Store(Current(w).dn, Current(w).attr, "program")
    /\ Outcome(w, TRUE, Len(mods) + 1)
    /\ UNCHANGED <<cacheVars, localVars, audit, ghostVars, phase, blocks, ops,
                   reports, lost>>

\* Mutant: the first error ends the request.
ApplyErrorEnds(w) ==
    /\ Trying(w) /\ Current(w).valid
    /\ Store(Current(w).dn, Current(w).attr, "program") \/ Refuse
    /\ MdEnds(w)
    /\ UNCHANGED <<cacheVars, localVars, audit, ghostVars, blocks, reports,
                   lost>>

\* The modification fails, or its answer is lost; the rest is tried anyway.
ApplyError(w) ==
    /\ Trying(w) /\ Current(w).valid
    /\ \/ /\ Store(Current(w).dn, Current(w).attr, "program")
          /\ Outcome(w, FALSE, Len(mods) + 1)
       \/ /\ Refuse
          /\ Outcome(w, FALSE, 0)
    /\ UNCHANGED <<cacheVars, localVars, audit, ghostVars, phase, blocks, ops,
                   reports, lost>>

\* Mutant: a failed operation leaves no result.
ChangesOfSuccesses(w) ==
    LET rs == SelectSeq(results[w], LAMBDA r : r.ok)
    IN  [i \in 1..Len(rs) |->
            [dn |-> ops[w][i].dn, attr |-> ops[w][i].attr,
             old |-> ops[w][i].old, new |-> rs[i].new, ok |-> TRUE]]

\* The changes pair the operations with their results by position.
Changes(w) ==
    [i \in 1..Len(results[w]) |->
        [dn |-> ops[w][i].dn, attr |-> ops[w][i].attr, old |-> ops[w][i].old,
         new |-> results[w][i].new, ok |-> results[w][i].ok]]

ApplyReply(w) ==
    /\ phase[w] = "apply" /\ Len(results[w]) = Len(ops[w])
    /\ reports' = reports \cup {Changes(w)}
    /\ MdEnds(w)
    /\ UNCHANGED <<vars, blocks, lost>>

-----------------------------------------------------------------------------
\* The modifications a request has made and not yet handed to the logger.
Unreported ==
    {i \in 1..Len(mods) :
        \/ \E w \in Technicians : \E k \in 1..Len(results[w]) :
              results[w][k].new = i
        \/ \E h \in Handlers : pc[h] = "putAudit" /\ last[h].value = i}

MdCrash ==
    /\ Crash
    /\ phase' = [w \in Technicians |-> "idle"]
    /\ blocks' = [w \in Technicians |-> <<>>]
    /\ ops' = [w \in Technicians |-> <<>>]
    /\ results' = [w \in Technicians |-> <<>>]
    /\ lost' = lost \cup Unreported
    /\ UNCHANGED reports

MdStep(w) ==
    \/ SkipBlock(w) \/ LookUp(w) \/ ValidateReply(w) \/ BeginApply(w)
    \/ ApplyInvalid(w) \/ ApplyModifies(w) \/ ApplyError(w) \/ ApplyReply(w)

DirectoryStep ==
    /\ \/ \E h \in Handlers : Request(h) \/ HandlerStep(h)
       \/ Expiry
       \/ \E e \in Employees, a \in OutsideAttrs : OutsideChange(e, a)
    /\ UNCHANGED mdVars

MdNext ==
    \/ \E w \in Technicians, kind \in {"validate", "lookup"},
          doc \in Documents : Submit(w, kind, doc)
    \/ \E w \in Technicians : MdStep(w)
    \/ DirectoryStep
    \/ MdCrash

MdSpec == MdInit /\ [][MdNext]_<<vars, mdVars>>

\* As in EmployeeDirectory: cached records expire, and nothing else must happen.
MdFairSpec ==
    /\ MdSpec
    /\ \A e \in Employees :
          WF_<<vars, mdVars>>(ExpireEmployee(e) /\ UNCHANGED mdVars)

-----------------------------------------------------------------------------
(* Properties *)

Reported == {c.new : c \in UNION {Range(r) : r \in reports}}

\* Whatever fails on the way, each modification the program makes is named by
\* an event, of a correction or an update, or was in the hands of a request
\* that is still running or that a restart cut short.  A correction has more
\* of them in its hands than an update: it reports only at its end.
\* (ApplyMarkdownHandler, "Partial success is allowed")
ModificationsAreReported ==
    \A i \in 1..Len(mods) : mods[i].by = "program" =>
        i \in Reported \cup {ev.new : ev \in audit} \cup Unreported \cup lost

\* The changes of an event are about the operations they say: what is reported
\* as done was done by the program to that entry and attribute.
\* (ApplyMarkdownHandler pairs details[i] with ops[i])
ReportsMatchDirectory ==
    \A r \in reports : \A i \in 1..Len(r) :
        /\ r[i].ok => r[i].new # 0
        /\ r[i].new # 0 => MadeTo(r[i].new, r[i].dn, r[i].attr)

\* The old values of an event undo it: all of them were read before the first
\* of its modifications, so none of them is a value the same event stored, even
\* when a document corrects an attribute twice, and none is younger than what
\* was replaced.
\* (ApplyMarkdownHandler validates the whole document before it applies any)
OldValuesUndo ==
    \A r \in reports : \A i, j \in 1..Len(r) :
        /\ r[i].dn = r[j].dn /\ r[i].attr = r[j].attr
        /\ r[j].new # 0 /\ r[i].new # 0
        => r[i].old <= mods[r[j].new].old

\* What these two rest on: the operations are looked up before any result, a
\* valid one names an entry, a result is about the operation in its place, and
\* no old value is younger than what the directory holds or was told to store.
LookUpsComeFirst(w) ==
    /\ phase[w] # "apply" => results[w] = <<>>
    /\ Len(results[w]) <= Len(ops[w])

OperationsAreKnown(w) ==
    \A i \in 1..Len(ops[w]) : ops[w][i].valid =>
        ops[w][i].dn \in Employees /\ ops[w][i].attr \in EditableAttrs

ResultsMatchOperations(w) ==
    \A i \in 1..Len(results[w]) :
        /\ results[w][i].ok => results[w][i].new # 0
        /\ results[w][i].new # 0 =>
              MadeTo(results[w][i].new, ops[w][i].dn, ops[w][i].attr)

OldValuesAreOld(w) ==
    \A i \in 1..Len(ops[w]) :
        LET o == ops[w][i] IN
        /\ o.dn \in Employees /\ o.attr \in EditableAttrs =>
              o.old <= ad[o.dn][o.attr]
        /\ \A j \in 1..Len(results[w]) :
              /\ ops[w][j].dn = o.dn /\ ops[w][j].attr = o.attr
              /\ results[w][j].new # 0
              => o.old <= mods[results[w][j].new].old

Settled(w) ==
    /\ LookUpsComeFirst(w) /\ OperationsAreKnown(w)
    /\ ResultsMatchOperations(w) /\ OldValuesAreOld(w)

\* Together with the events handed over so far.
\* (ValidateOperations and ApplyOperations return slices of equal length)
MdInv ==
    /\ TypeOK /\ MdTypeOK /\ AdNewestFirst
    /\ \A w \in Technicians : Settled(w)
    /\ ReportsMatchDirectory /\ OldValuesUndo

\* What the employee handlers promise by themselves survives the corrections,
\* which write the same directory, invalidate nothing and keep their own events:
\* listings, single records and the trail of updates.  Not the completeness of
\* that trail: ModificationsAreReported stands for it here.
HandlersInv == ListInv /\ StaleOnlyIfLate /\ TrailIsTrue
=============================================================================
