---------------------- MODULE MarkdownCorrectionProofs ----------------------
(***************************************************************************)
(* What TLAPS proves of MarkdownCorrection for any documents, employees,   *)
(* handlers and bounds: each event tells what the program did, its old     *)
(* values undo it, and no modification of the program goes untold.         *)
(***************************************************************************)
EXTENDS MarkdownCorrection, EmployeeDirectoryProofs

USE DocumentsAssumption

\* What a step of the directory part, or none, does to what it owns.
DirectoryMoves == TypeOK' /\ AdNewestFirst' /\ AdGrown /\ ModsKept

LEMMA NextMoves == TypeOK /\ AdNewestFirst /\ [Next]_vars => DirectoryMoves
  BY AdTypeNext, CacheTypeNext, LocalTypeNext, PcTypeNext, HistoryTypeNext,
     AdGrows, DirectoryKeepsMods DEF TypeOK, DirectoryMoves

LEMMA SameMoves == TypeOK /\ AdNewestFirst /\ UNCHANGED vars => DirectoryMoves
  BY NextMoves

\* A modification made by a correction moves the directory and nothing else.
LEMMA StoreMoves ==
  ASSUME TypeOK, AdNewestFirst, NEW e \in Employees, NEW a \in EditableAttrs,
         NEW n, n = Len(mods) + 1,
         Store(e, a, "program"), UNCHANGED <<cacheVars, localVars, audit, ghostVars>>
  PROVE  /\ DirectoryMoves
         /\ MadeTo(n, e, a)'
         /\ mods'[n].old = ad[e][a]
  <1>1. AdTypeOK' /\ AdNewestFirst' /\ AdGrown /\ ModsKept
    BY StoreType, StoreGrows, StoreKeepsMods DEF TypeOK, AdGrown
  <1>2. (CacheTypeOK /\ LocalTypeOK /\ PcTypeOK /\ HistoryTypeOK)'
    BY DEF TypeOK, CacheTypeOK, LocalTypeOK, PcTypeOK, HistoryTypeOK, cacheVars,
           localVars, ghostVars
  <1>3. MadeTo(n, e, a)' /\ mods'[n].old = ad[e][a]
    <2>1. Len(mods) \in Nat /\ mods \in Seq(Modification)
      BY DEF TypeOK, AdTypeOK
    <2>2. /\ mods'[n] = [dn |-> e, attr |-> a, old |-> ad[e][a], by |-> "program"]
          /\ n \in 1..Len(mods')
      BY <2>1 DEF Store
    <2> QED
      BY <2>2 DEF MadeTo
  <1> QED
    BY <1>1, <1>2, <1>3 DEF TypeOK, DirectoryMoves

-----------------------------------------------------------------------------
\* Numbers that are compared.
LEMMA Numbers ==
  ASSUME MdInv
  PROVE  /\ \A e \in Employees, a \in EditableAttrs : ad[e][a] \in Nat
         /\ \A w \in Technicians :
               /\ Len(ops[w]) \in Nat /\ Len(results[w]) \in Nat
               /\ \A i \in 1..Len(ops[w]) : ops[w][i].old \in Nat
               /\ \A i \in 1..Len(results[w]) : results[w][i] \in Result
         /\ \A i \in 1..Len(mods) : mods[i].old \in Nat
  <1>1. \A e \in Employees, a \in EditableAttrs : ad[e][a] \in Nat
    BY DEF MdInv, TypeOK, AdTypeOK, Listing, Record
  <1>2. ASSUME NEW w \in Technicians
        PROVE  /\ Len(ops[w]) \in Nat /\ Len(results[w]) \in Nat
               /\ \A i \in 1..Len(ops[w]) : ops[w][i].old \in Nat
               /\ \A i \in 1..Len(results[w]) : results[w][i] \in Result
    <2>1. ops[w] \in Seq(Operation) /\ results[w] \in Seq(Result)
      BY DEF MdInv, MdTypeOK
    <2>2. \A i \in 1..Len(ops[w]) : ops[w][i] \in Operation
      BY <2>1
    <2> QED
      BY <2>1, <2>2 DEF Operation
  <1>3. \A i \in 1..Len(mods) : mods[i] \in Modification
    BY DEF MdInv, TypeOK, AdTypeOK
  <1> QED
    BY <1>1, <1>2, <1>3 DEF Modification

\* <= is transitive, without the rest of the state in sight.
LEMMA OlderStill == \A x, y, z \in Nat : x <= y /\ y <= z => x <= z
  OBVIOUS

\* An old value that was looked up stays no younger than the entry.
LEMMA LookedUpStaysOld ==
  ASSUME MdInv, DirectoryMoves, NEW w \in Technicians, NEW i \in 1..Len(ops[w]),
         ops[w][i].dn \in Employees, ops[w][i].attr \in EditableAttrs
  PROVE  /\ ops[w][i].old <= ad[ops[w][i].dn][ops[w][i].attr]
         /\ ops[w][i].old <= ad'[ops[w][i].dn][ops[w][i].attr]
  <1> DEFINE o == ops[w][i]
  <1>1. OldValuesAreOld(w)
    BY DEF MdInv, Settled
  <1>2. o.old <= ad[o.dn][o.attr]
    BY <1>1 DEF OldValuesAreOld
  <1>3. o.old \in Nat /\ ad[o.dn][o.attr] \in Nat
    BY Numbers
  <1>4. AdGrown /\ ad' \in [Employees -> [EditableAttrs -> Nat]]
    BY DEF DirectoryMoves, TypeOK, AdTypeOK, Listing, Record
  <1>5. ad'[o.dn][o.attr] \in Nat
    BY <1>4
  <1>6. ad[o.dn][o.attr] <= ad'[o.dn][o.attr]
    BY <1>4 DEF AdGrown, AtLeast
  <1> HIDE DEF o
  <1> QED
    BY <1>2, <1>3, <1>5, <1>6, OlderStill DEF o

\* What a technician has stays settled while the directory grows.
LEMMA OthersStaySettled ==
  ASSUME MdInv, DirectoryMoves, NEW w \in Technicians,
         phase'[w] = phase[w], ops'[w] = ops[w], results'[w] = results[w]
  PROVE  Settled(w)'
  <1> USE Numbers
  <1>1. Settled(w) /\ ModsKept /\ AdGrown
    BY DEF MdInv, DirectoryMoves
  <1>2. \A e \in Employees, a \in EditableAttrs : ad'[e][a] \in Nat /\ ad[e][a] <= ad'[e][a]
    BY <1>1 DEF DirectoryMoves, TypeOK, AdTypeOK, Listing, Record, AdGrown, AtLeast
  <1>3. LookUpsComeFirst(w)' /\ OperationsAreKnown(w)'
    BY <1>1 DEF Settled, LookUpsComeFirst, OperationsAreKnown
  <1>4. ResultsMatchOperations(w)'
    BY <1>1 DEF Settled, ResultsMatchOperations, MadeTo, ModsKept
  <1>5. OldValuesAreOld(w)'
    <2>1. \A j \in 1..Len(results[w]) : results[w][j].new # 0 =>
             results[w][j].new \in 1..Len(mods)
      BY <1>1 DEF Settled, ResultsMatchOperations, MadeTo
    <2>2. \A i \in 1..Len(ops[w]) :
             ops[w][i].dn \in Employees /\ ops[w][i].attr \in EditableAttrs =>
             ops[w][i].old <= ad'[ops[w][i].dn][ops[w][i].attr]
      BY LookedUpStaysOld
    <2>3. \A j \in 1..Len(results[w]) : results[w][j].new # 0 =>
             mods'[results[w][j].new] = mods[results[w][j].new]
      BY <1>1, <2>1 DEF ModsKept
    <2> QED
      BY <1>1, <2>2, <2>3 DEF Settled, OldValuesAreOld
  <1> QED
    BY <1>3, <1>4, <1>5 DEF Settled

\* The events stay true.
LEMMA ReportsStay ==
  ASSUME MdInv, DirectoryMoves, UNCHANGED reports
  PROVE  ReportsMatchDirectory' /\ OldValuesUndo'
  <1>1. ReportsMatchDirectory /\ OldValuesUndo /\ ModsKept
    BY DEF MdInv, DirectoryMoves
  <1>2. ReportsMatchDirectory'
    BY <1>1 DEF ReportsMatchDirectory, MadeTo, ModsKept
  <1>3. OldValuesUndo'
    <2>1. \A r \in reports : \A j \in 1..Len(r) : r[j].new # 0 => r[j].new \in 1..Len(mods)
      BY <1>1 DEF ReportsMatchDirectory, MadeTo
    <2> QED
      BY <1>1, <2>1 DEF OldValuesUndo, ModsKept
  <1> QED
    BY <1>2, <1>3

\* A request without operations or results is settled.
LEMMA EmptyIsSettled ==
  ASSUME NEW w \in Technicians, ops'[w] = <<>>, results'[w] = <<>>
  PROVE  Settled(w)'
  BY DEF Settled, LookUpsComeFirst, OperationsAreKnown, ResultsMatchOperations,
         OldValuesAreOld

\* An operation is looked up before there is any result.
LEMMA LookUpSettles ==
  ASSUME MdInv, NEW w \in Technicians, LookUp(w) PROVE Settled(w)'
  <1> USE Numbers DEF LookUp
  <1>1. PICK valid \in BOOLEAN, old \in Nat :
          /\ ops' = [ops EXCEPT ![w] = Append(@, [dn |-> Head(blocks[w]).dn,
                        attr |-> Head(blocks[w]).attr, valid |-> valid, old |-> old])]
          /\ valid \/ old # 0 =>
                /\ Head(blocks[w]).dn \in Employees
                /\ Head(blocks[w]).attr \in EditableAttrs
                /\ old = ad[Head(blocks[w]).dn][Head(blocks[w]).attr]
    <2>1. CASE ops' = [ops EXCEPT ![w] = Append(@, [dn |-> Head(blocks[w]).dn,
                        attr |-> Head(blocks[w]).attr, valid |-> FALSE, old |-> 0])]
      BY <2>1
    <2>2. CASE /\ Head(blocks[w]).dn \in Employees
               /\ Head(blocks[w]).attr \in EditableAttrs
               /\ ops' = [ops EXCEPT ![w] = Append(@, [dn |-> Head(blocks[w]).dn,
                            attr |-> Head(blocks[w]).attr, valid |-> TRUE,
                            old |-> ad[Head(blocks[w]).dn][Head(blocks[w]).attr]])]
      BY <2>2
    <2> QED
      BY <2>1, <2>2
  <1> DEFINE o == [dn |-> Head(blocks[w]).dn, attr |-> Head(blocks[w]).attr,
                   valid |-> valid, old |-> old]
             n == Len(ops[w])
  <1>2. /\ phase[w] # "apply" /\ results[w] = <<>> /\ Settled(w)
        /\ results' = results /\ phase' = phase /\ ad' = ad /\ n \in Nat
    BY DEF MdInv, Settled, LookUpsComeFirst, vars
  <1>3. /\ Len(ops'[w]) = n + 1 /\ ops'[w][n + 1] = o
        /\ \A i \in 1..n : ops'[w][i] = ops[w][i]
    BY <1>1 DEF MdInv, MdTypeOK
  <1>4. LookUpsComeFirst(w)' /\ ResultsMatchOperations(w)'
    BY <1>2, <1>3 DEF LookUpsComeFirst, ResultsMatchOperations
  <1>5. \A i \in 1..(n + 1) : i \in 1..n \/ i = n + 1
    BY <1>2
  <1>6. OperationsAreKnown(w)'
    BY <1>1, <1>2, <1>3, <1>5 DEF Settled, OperationsAreKnown
  <1>7. OldValuesAreOld(w)'
    <2>1. ASSUME NEW i \in 1..(n + 1),
                 ops'[w][i].dn \in Employees, ops'[w][i].attr \in EditableAttrs
          PROVE  ops'[w][i].old <= ad[ops'[w][i].dn][ops'[w][i].attr]
      <3>1. CASE i \in 1..n
        BY <1>2, <1>3, <2>1, <3>1 DEF Settled, OldValuesAreOld
      <3>2. CASE i = n + 1
        BY <1>1, <1>3, <2>1, <3>2
      <3> QED
        BY <1>5, <3>1, <3>2
    <2> QED
      BY <1>2, <1>3, <2>1 DEF OldValuesAreOld
  <1> QED
    BY <1>4, <1>6, <1>7 DEF Settled

\* One operation gets its result, which is about it.
LEMMA OutcomeSettles ==
  ASSUME MdInv, DirectoryMoves, NEW w \in Technicians, Trying(w),
         NEW e, e = Current(w).dn, NEW a, a = Current(w).attr,
         NEW ok \in BOOLEAN, NEW n \in Nat, Outcome(w, ok, n),
         ok => n # 0,
         n # 0 => /\ e \in Employees /\ a \in EditableAttrs
                  /\ MadeTo(n, e, a)' /\ mods'[n].old = ad[e][a],
         phase'[w] = phase[w], ops'[w] = ops[w]
  PROVE  Settled(w)'
  <1> USE Numbers DEF Outcome, Trying, Current
  <1>0. PICK k \in Nat : k = Len(results[w])
    OBVIOUS
  <1> USE <1>0
  <1>1. /\ Len(results'[w]) = k + 1 /\ results'[w][k + 1] = [ok |-> ok, new |-> n]
        /\ \A i \in 1..k : results'[w][i] = results[w][i]
        /\ k + 1 \in 1..Len(ops[w])
    BY DEF MdInv, MdTypeOK
  <1>2. Settled(w) /\ ModsKept /\ AdGrown
    BY DEF MdInv, DirectoryMoves
  <1>3. \A f \in Employees, b \in EditableAttrs : ad'[f][b] \in Nat /\ ad[f][b] <= ad'[f][b]
    BY <1>2 DEF DirectoryMoves, TypeOK, AdTypeOK, Listing, Record, AdGrown, AtLeast
  <1>4. \A i \in 1..(k + 1) : i \in 1..k \/ i = k + 1
    BY <1>1
  <1>5. \A i \in 1..k : results[w][i].new # 0 =>
          /\ results[w][i].new \in 1..Len(mods)
          /\ mods'[results[w][i].new] = mods[results[w][i].new]
    BY <1>2 DEF Settled, ResultsMatchOperations, MadeTo, ModsKept
  <1>6. LookUpsComeFirst(w)' /\ OperationsAreKnown(w)'
    BY <1>1, <1>2 DEF Settled, LookUpsComeFirst, OperationsAreKnown
  <1>7. ResultsMatchOperations(w)'
    <2>1. ASSUME NEW i \in 1..k, results[w][i].new # 0
          PROVE  MadeTo(results[w][i].new, ops[w][i].dn, ops[w][i].attr)
      BY <1>2, <2>1 DEF Settled, ResultsMatchOperations
    <2>2. ASSUME NEW i \in 1..k
          PROVE  /\ results'[w][i].ok => results'[w][i].new # 0
                 /\ results'[w][i].new # 0 =>
                       MadeTo(results[w][i].new, ops[w][i].dn, ops[w][i].attr)'
      <3>1. results'[w][i] = results[w][i] /\ ops'[w][i] = ops[w][i]
        BY <1>1
      <3>2. results[w][i].ok => results[w][i].new # 0
        BY <1>2 DEF Settled, ResultsMatchOperations
      <3>3. results[w][i].new # 0 =>
              /\ results[w][i].new \in 1..Len(mods')
              /\ mods'[results[w][i].new] = mods[results[w][i].new]
        BY <1>2, <1>5 DEF ModsKept
      <3>4. results[w][i].new # 0 =>
              /\ mods[results[w][i].new].by = "program"
              /\ mods[results[w][i].new].dn = ops[w][i].dn
              /\ mods[results[w][i].new].attr = ops[w][i].attr
        BY <2>1 DEF MadeTo
      <3>5. results'[w][i].new # 0 =>
              /\ results'[w][i].new \in 1..Len(mods')
              /\ mods'[results'[w][i].new].by = "program"
              /\ mods'[results'[w][i].new].dn = ops'[w][i].dn
              /\ mods'[results'[w][i].new].attr = ops'[w][i].attr
        BY <3>1, <3>3, <3>4
      <3> QED
        BY <3>1, <3>2, <3>5 DEF MadeTo
    <2>3. /\ results'[w][k + 1].ok => results'[w][k + 1].new # 0
          /\ results'[w][k + 1].new # 0 =>
                MadeTo(results[w][k + 1].new, ops[w][k + 1].dn, ops[w][k + 1].attr)'
      <3>1. /\ results'[w][k + 1].new = n /\ results'[w][k + 1].ok = ok
            /\ ops'[w][k + 1].dn = e /\ ops'[w][k + 1].attr = a
        BY <1>1
      <3>2. n # 0 => /\ n \in 1..Len(mods') /\ mods'[n].by = "program"
                     /\ mods'[n].dn = e /\ mods'[n].attr = a
        BY DEF MadeTo
      <3> QED
        BY <3>1, <3>2 DEF MadeTo
    <2> QED
      BY <1>1, <1>4, <2>2, <2>3 DEF ResultsMatchOperations
  <1>8. OldValuesAreOld(w)'
    <2>1. ASSUME NEW i \in 1..Len(ops[w]),
                 ops[w][i].dn \in Employees, ops[w][i].attr \in EditableAttrs
          PROVE  /\ ops[w][i].old <= ad[ops[w][i].dn][ops[w][i].attr]
                 /\ ops[w][i].old <= ad'[ops[w][i].dn][ops[w][i].attr]
      BY <2>1, LookedUpStaysOld
    <2>2. ASSUME NEW i \in 1..Len(ops[w]), NEW j \in 1..(k + 1),
                 ops[w][j].dn = ops[w][i].dn, ops[w][j].attr = ops[w][i].attr,
                 results'[w][j].new # 0
          PROVE  ops[w][i].old <= mods'[results'[w][j].new].old
      <3>1. CASE j \in 1..k
        <4>1. ops[w][i].old <= mods[results[w][j].new].old
          BY <1>1, <1>2, <2>2, <3>1 DEF Settled, OldValuesAreOld
        <4> QED
          BY <1>1, <1>5, <2>2, <3>1, <4>1
      <3>2. CASE j = k + 1
        <4>1. results'[w][j].new = n /\ n # 0 /\ ops[w][j].dn = e /\ ops[w][j].attr = a
          BY <1>1, <2>2, <3>2
        <4>2. mods'[n].old = ad[e][a] /\ e \in Employees /\ a \in EditableAttrs
          BY <4>1
        <4>3. ops[w][i].old <= ad[e][a]
          BY <2>1, <2>2, <4>1, <4>2
        <4> QED
          BY <4>1, <4>2, <4>3
      <3> QED
        BY <1>4, <3>1, <3>2
    <2>3. /\ \A i \in 1..Len(ops'[w]) :
                ops'[w][i].dn \in Employees /\ ops'[w][i].attr \in EditableAttrs =>
                ops'[w][i].old <= ad'[ops'[w][i].dn][ops'[w][i].attr]
          /\ \A i \in 1..Len(ops'[w]) : \A j \in 1..Len(results'[w]) :
                /\ ops'[w][j].dn = ops'[w][i].dn /\ ops'[w][j].attr = ops'[w][i].attr
                /\ results'[w][j].new # 0
                => ops'[w][i].old <= mods'[results'[w][j].new].old
      BY <1>1, <2>1, <2>2
    <2> QED
      BY <2>3 DEF OldValuesAreOld
  <1> QED
    BY <1>6, <1>7, <1>8 DEF Settled

-----------------------------------------------------------------------------
(* The types. *)

LEMMA MdTypeInit == MdInit => MdTypeOK
  BY DEF MdInit, MdTypeOK

\* The changes of an event are made of operations and results.
LEMMA ChangesType ==
  ASSUME MdInv, NEW w \in Technicians, phase[w] = "apply"
  PROVE  /\ Changes(w) \in Seq(Change)
         /\ Len(Changes(w)) = Len(results[w])
         /\ \A i \in 1..Len(results[w]) :
               /\ Changes(w)[i].dn = ops[w][i].dn /\ Changes(w)[i].attr = ops[w][i].attr
               /\ Changes(w)[i].old = ops[w][i].old
               /\ Changes(w)[i].new = results[w][i].new
               /\ Changes(w)[i].ok = results[w][i].ok
  <1>1. /\ ops[w] \in Seq(Operation) /\ results[w] \in Seq(Result)
        /\ Len(results[w]) \in Nat /\ Len(results[w]) <= Len(ops[w])
    BY DEF MdInv, MdTypeOK, Settled, LookUpsComeFirst
  <1>2. \A i \in 1..Len(results[w]) : ops[w][i] \in Operation /\ results[w][i] \in Result
    BY <1>1
  <1>3. \A i \in 1..Len(results[w]) :
          [dn |-> ops[w][i].dn, attr |-> ops[w][i].attr, old |-> ops[w][i].old,
           new |-> results[w][i].new, ok |-> results[w][i].ok] \in Change
    BY <1>2 DEF Operation, Result, Change
  <1> QED
    BY <1>1, <1>3 DEF Changes

LEMMA MdTypeNext == MdInv /\ [MdNext]_<<vars, mdVars>> => MdTypeOK'
  <1> SUFFICES ASSUME MdInv, [MdNext]_<<vars, mdVars>> PROVE MdTypeOK'
    OBVIOUS
  <1> USE DEF MdInv, MdTypeOK
  <1>1. ASSUME NEW w \in Technicians, NEW kind \in {"validate", "lookup"},
               NEW doc \in Documents, Submit(w, kind, doc)
        PROVE  MdTypeOK'
    BY <1>1 DEF Submit
  <1>2. ASSUME NEW w \in Technicians, SkipBlock(w) PROVE MdTypeOK'
    BY <1>2 DEF SkipBlock
  <1>3. ASSUME NEW w \in Technicians, LookUp(w) PROVE MdTypeOK'
    <2>1. blocks[w] \in Seq(Block) /\ blocks[w] # <<>>
      BY <1>3 DEF LookUp
    <2>2. Head(blocks[w]).dn \in Names /\ Head(blocks[w]).attr \in Attrs
      <3>1. Head(blocks[w]) \in Block
        BY <2>1
      <3> QED
        BY <3>1 DEF Block
    <2>3. \A valid \in BOOLEAN, old \in Nat :
            [dn |-> Head(blocks[w]).dn, attr |-> Head(blocks[w]).attr,
             valid |-> valid, old |-> old] \in Operation
      BY <2>2 DEF Operation
    <2>4. PICK o \in Operation : ops' = [ops EXCEPT ![w] = Append(@, o)]
      <3>1. CASE ops' = [ops EXCEPT ![w] = Append(@, [dn |-> Head(blocks[w]).dn,
                           attr |-> Head(blocks[w]).attr, valid |-> FALSE, old |-> 0])]
        BY <2>3, <3>1
      <3>2. CASE /\ Head(blocks[w]).dn \in Employees
                 /\ Head(blocks[w]).attr \in EditableAttrs
                 /\ ops' = [ops EXCEPT ![w] = Append(@, [dn |-> Head(blocks[w]).dn,
                              attr |-> Head(blocks[w]).attr, valid |-> TRUE,
                              old |-> ad[Head(blocks[w]).dn][Head(blocks[w]).attr]])]
        <4>1. ad[Head(blocks[w]).dn][Head(blocks[w]).attr] \in Nat
          BY <3>2, Numbers
        <4> QED
          BY <2>3, <3>2, <4>1
      <3> QED
        BY <1>3, <3>1, <3>2 DEF LookUp
    <2> QED
      BY <1>3, <2>1, <2>4 DEF LookUp
  <1>4. ASSUME NEW w \in Technicians, ValidateReply(w) \/ BeginApply(w) PROVE MdTypeOK'
    <2>1. CASE ValidateReply(w)
      BY <2>1 DEF ValidateReply, MdEnds
    <2>2. CASE BeginApply(w)
      BY <2>2 DEF BeginApply
    <2> QED
      BY <1>4, <2>1, <2>2
  <1>5. ASSUME NEW w \in Technicians, NEW ok \in BOOLEAN, NEW n \in Nat,
               Outcome(w, ok, n), UNCHANGED <<phase, blocks, ops, reports, lost>>
        PROVE  MdTypeOK'
    <2>1. [ok |-> ok, new |-> n] \in Result
      BY DEF Result
    <2> QED
      BY <1>5, <2>1 DEF Outcome
  <1>6. ASSUME NEW w \in Technicians,
               ApplyInvalid(w) \/ ApplyModifies(w) \/ ApplyError(w)
        PROVE  MdTypeOK'
    <2>1. Len(mods) + 1 \in Nat
      BY DEF TypeOK, AdTypeOK
    <2> QED
      BY <1>5, <1>6, <2>1 DEF ApplyInvalid, ApplyModifies, ApplyError
  <1>7. ASSUME NEW w \in Technicians, ApplyReply(w) PROVE MdTypeOK'
    <2>1. Changes(w) \in Seq(Change)
      BY <1>7, ChangesType DEF ApplyReply
    <2> QED
      BY <1>7, <2>1 DEF ApplyReply, MdEnds
  <1>8. ASSUME MdCrash PROVE MdTypeOK'
    <2>1. Unreported \subseteq Nat
      BY DEF Unreported, TypeOK, AdTypeOK
    <2> QED
      BY <1>8, <2>1 DEF MdCrash
  <1>9. CASE DirectoryStep \/ UNCHANGED <<vars, mdVars>>
    BY <1>9 DEF DirectoryStep, mdVars, mdLocals
  <1> QED
    BY <1>1, <1>2, <1>3, <1>4, <1>6, <1>7, <1>8, <1>9 DEF MdNext, MdStep

-----------------------------------------------------------------------------
(* The invariant. *)

\* What is left to show of a step that hands over no event.
Progress(w) == Settled(w)' /\ DirectoryMoves

\* A step of one technician.
LEMMA TechnicianKeeps ==
  ASSUME MdInv, MdTypeOK', NEW w \in Technicians, Progress(w), UNCHANGED reports,
         \A v \in Technicians \ {w} :
            phase'[v] = phase[v] /\ ops'[v] = ops[v] /\ results'[v] = results[v]
  PROVE  MdInv'
  <1>1. \A v \in Technicians : Settled(v)'
    BY OthersStaySettled DEF Progress
  <1> QED
    BY <1>1, ReportsStay DEF MdInv, Progress, DirectoryMoves

LEMMA SubmitKeeps ==
  ASSUME MdInv, MdTypeOK', NEW w \in Technicians, NEW kind \in {"validate", "lookup"},
         NEW doc \in Documents, Submit(w, kind, doc)
  PROVE  MdInv'
  <1> USE DEF Submit
  <1>1. DirectoryMoves
    BY SameMoves DEF MdInv
  <1>2. results[w] = <<>> /\ results'[w] = <<>> /\ ops'[w] = ops[w]
    BY DEF MdInv, Settled, LookUpsComeFirst
  <1>3. Settled(w)'
    BY <1>1, <1>2 DEF MdInv, Settled, LookUpsComeFirst, OperationsAreKnown,
       ResultsMatchOperations, OldValuesAreOld, vars
  <1> QED
    BY <1>1, <1>3, TechnicianKeeps DEF Progress, MdInv, MdTypeOK

LEMMA BeginApplyKeeps ==
  ASSUME MdInv, MdTypeOK', NEW w \in Technicians, BeginApply(w) \/ SkipBlock(w)
  PROVE  MdInv'
  <1> USE DEF BeginApply, SkipBlock
  <1>1. DirectoryMoves
    BY SameMoves DEF MdInv
  <1>2. Settled(w)'
    <2>1. CASE BeginApply(w)
      BY <2>1 DEF MdInv, MdTypeOK, Settled, LookUpsComeFirst, OperationsAreKnown,
         ResultsMatchOperations, OldValuesAreOld, vars
    <2>2. CASE SkipBlock(w)
      BY <1>1, <2>2, OthersStaySettled
    <2> QED
      BY <2>1, <2>2
  <1> QED
    BY <1>1, <1>2, TechnicianKeeps DEF Progress, MdInv, MdTypeOK

LEMMA LookUpKeeps ==
  ASSUME MdInv, MdTypeOK', NEW w \in Technicians, LookUp(w) PROVE MdInv'
  <1>1. DirectoryMoves
    BY SameMoves DEF MdInv, LookUp
  <1>2. /\ phase' = phase /\ results' = results /\ reports' = reports
        /\ \A v \in Technicians \ {w} : ops'[v] = ops[v]
    BY DEF LookUp, MdInv, MdTypeOK
  <1> QED
    BY <1>1, <1>2, LookUpSettles, TechnicianKeeps DEF Progress

LEMMA ValidateReplyKeeps ==
  ASSUME MdInv, MdTypeOK', NEW w \in Technicians, ValidateReply(w) PROVE MdInv'
  <1> USE DEF ValidateReply, MdEnds
  <1>1. DirectoryMoves
    BY SameMoves DEF MdInv
  <1>2. Settled(w)'
    BY EmptyIsSettled DEF MdInv, MdTypeOK
  <1> QED
    BY <1>1, <1>2, TechnicianKeeps DEF Progress, MdInv, MdTypeOK

LEMMA ApplyKeeps ==
  ASSUME MdInv, MdTypeOK', NEW w \in Technicians,
         ApplyInvalid(w) \/ ApplyModifies(w) \/ ApplyError(w)
  PROVE  MdInv'
  <1>1. PICK e : e = Current(w).dn
    OBVIOUS
  <1>2. PICK a : a = Current(w).attr
    OBVIOUS
  <1>3. PICK n \in Nat : n = Len(mods) + 1
    BY DEF MdInv, TypeOK, AdTypeOK
  <1>4. /\ Trying(w) /\ UNCHANGED <<phase, ops, reports>>
        /\ \A v \in Technicians \ {w} : results'[v] = results[v]
    BY DEF ApplyInvalid, ApplyModifies, ApplyError, Outcome, MdInv, MdTypeOK
  <1>5. CASE UNCHANGED vars /\ Outcome(w, FALSE, 0)
    <2>1. DirectoryMoves
      BY <1>5, SameMoves DEF MdInv
    <2>2. Settled(w)'
      BY <1>1, <1>2, <1>4, <1>5, <2>1, OutcomeSettles
    <2> QED
      BY <1>4, <2>1, <2>2, TechnicianKeeps DEF Progress
  <1>6. ASSUME NEW ok \in BOOLEAN, Outcome(w, ok, n), Current(w).valid,
               Store(e, a, "program"),
               UNCHANGED <<cacheVars, localVars, audit, ghostVars>>
        PROVE  MdInv'
    <2>1. e \in Employees /\ a \in EditableAttrs
      <3>1. Len(results[w]) + 1 \in 1..Len(ops[w])
        BY <1>4, Numbers DEF Trying
      <3> QED
        BY <1>1, <1>2, <1>6, <3>1 DEF MdInv, Settled, OperationsAreKnown, Current
    <2>2. /\ DirectoryMoves
          /\ MadeTo(n, e, a)' /\ mods'[n].old = ad[e][a]
      BY <1>3, <1>6, <2>1, StoreMoves DEF MdInv
    <2>3. n # 0
      BY <1>3 DEF MdInv, TypeOK, AdTypeOK
    <2>4. Settled(w)'
      BY <1>1, <1>2, <1>4, <1>6, <2>1, <2>2, <2>3, OutcomeSettles
    <2> QED
      BY <1>4, <2>2, <2>4, TechnicianKeeps DEF Progress
  <1>7. CASE ApplyInvalid(w)
    BY <1>5, <1>7 DEF ApplyInvalid
  <1>8. CASE ApplyModifies(w)
    BY <1>1, <1>2, <1>3, <1>6, <1>8 DEF ApplyModifies
  <1>9. CASE ApplyError(w)
    <2>1. CASE Refuse /\ Outcome(w, FALSE, 0)
      BY <1>5, <1>9, <2>1 DEF ApplyError, Refuse, adVars, vars, cacheVars,
         localVars, ghostVars
    <2>2. CASE Store(Current(w).dn, Current(w).attr, "program")
               /\ Outcome(w, FALSE, Len(mods) + 1)
      BY <1>1, <1>2, <1>3, <1>6, <1>9, <2>2 DEF ApplyError
    <2> QED
      BY <1>9, <2>1, <2>2 DEF ApplyError
  <1> QED
    BY <1>7, <1>8, <1>9

\* The event tells of settled operations.
LEMMA ApplyReplyKeeps ==
  ASSUME MdInv, MdTypeOK', NEW w \in Technicians, ApplyReply(w) PROVE MdInv'
  <1> USE DEF ApplyReply, MdEnds
  <1>1. DirectoryMoves /\ mods' = mods
    BY SameMoves DEF MdInv, vars
  <1>2. \A v \in Technicians : Settled(v)'
    <2>1. Settled(w)'
      BY EmptyIsSettled DEF MdInv, MdTypeOK
    <2>2. ASSUME NEW v \in Technicians, v # w PROVE Settled(v)'
      BY <1>1, <2>2, OthersStaySettled DEF MdInv, MdTypeOK
    <2> QED
      BY <2>1, <2>2
  <1>3. PICK r \in Seq(Change) :
          /\ r = Changes(w) /\ Len(r) = Len(results[w])
          /\ \A i \in 1..Len(results[w]) :
                /\ r[i].dn = ops[w][i].dn /\ r[i].attr = ops[w][i].attr
                /\ r[i].old = ops[w][i].old /\ r[i].new = results[w][i].new
                /\ r[i].ok = results[w][i].ok
    BY ChangesType
  <1>4. Settled(w) /\ reports' = reports \cup {r} /\ Len(results[w]) = Len(ops[w])
    BY <1>3 DEF MdInv
  <1>5. ReportsMatchDirectory'
    <2>1. \A i \in 1..Len(r) :
            /\ r[i].ok => r[i].new # 0
            /\ r[i].new # 0 => MadeTo(r[i].new, r[i].dn, r[i].attr)
      BY <1>3, <1>4 DEF Settled, ResultsMatchOperations
    <2> QED
      BY <1>1, <1>4, <2>1 DEF MdInv, ReportsMatchDirectory, MadeTo
  <1>6. OldValuesUndo'
    <2>1. \A i, j \in 1..Len(r) :
            /\ r[i].dn = r[j].dn /\ r[i].attr = r[j].attr
            /\ r[j].new # 0 /\ r[i].new # 0
            => r[i].old <= mods[r[j].new].old
      BY <1>3, <1>4 DEF Settled, OldValuesAreOld
    <2> QED
      BY <1>1, <1>4, <2>1 DEF MdInv, OldValuesUndo
  <1> QED
    BY <1>1, <1>2, <1>5, <1>6 DEF MdInv, DirectoryMoves

LEMMA MdCrashKeeps == ASSUME MdInv, MdTypeOK', MdCrash PROVE MdInv'
  <1>1. DirectoryMoves
    BY NextMoves DEF MdInv, MdCrash, Next
  <1>2. \A v \in Technicians : Settled(v)'
    BY EmptyIsSettled DEF MdCrash
  <1> QED
    BY <1>1, <1>2, ReportsStay DEF MdInv, DirectoryMoves, MdCrash

LEMMA DirectoryStepKeeps ==
  ASSUME MdInv, MdTypeOK', DirectoryStep \/ UNCHANGED <<vars, mdVars>>
  PROVE  MdInv'
  <1>1. [Next]_vars
    BY DEF DirectoryStep, Next
  <1>2. DirectoryMoves
    BY <1>1, NextMoves DEF MdInv
  <1>3. UNCHANGED <<phase, ops, results, reports>>
    BY DEF DirectoryStep, mdVars, mdLocals
  <1>4. \A v \in Technicians : Settled(v)'
    BY <1>2, <1>3, OthersStaySettled
  <1> QED
    BY <1>2, <1>3, <1>4, ReportsStay DEF MdInv, DirectoryMoves

LEMMA MdInvNext == MdInv /\ [MdNext]_<<vars, mdVars>> => MdInv'
  <1> SUFFICES ASSUME MdInv, [MdNext]_<<vars, mdVars>> PROVE MdInv'
    OBVIOUS
  <1>1. MdTypeOK'
    BY MdTypeNext
  <1> QED
    BY <1>1, SubmitKeeps, BeginApplyKeeps, LookUpKeeps, ValidateReplyKeeps,
       ApplyKeeps, ApplyReplyKeeps, MdCrashKeeps, DirectoryStepKeeps
    DEF MdNext, MdStep

\* What the technicians have in hand, and the events they handed over, match
\* the directory.
THEOREM MdInvariant == MdSpec => []MdInv
  <1>1. MdInit => MdInv
    <2> SUFFICES ASSUME MdInit PROVE MdInv
      OBVIOUS
    <2>1. TypeOK /\ AdNewestFirst
      BY ListInvInit DEF MdInit, ListInv
    <2>2. \A w \in Technicians : Settled(w)
      BY DEF MdInit, Settled, LookUpsComeFirst, OperationsAreKnown,
             ResultsMatchOperations, OldValuesAreOld
    <2> QED
      BY <2>1, <2>2, MdTypeInit
      DEF MdInit, MdInv, ReportsMatchDirectory, OldValuesUndo
  <1> QED
    BY <1>1, MdInvNext, PTL DEF MdSpec

\* What an event reports as done was done.
THEOREM ReportsAreTrue == MdSpec => []ReportsMatchDirectory
  <1>1. MdInv => ReportsMatchDirectory
    BY DEF MdInv
  <1> QED
    BY MdInvariant, <1>1, PTL

\* The old values of an event undo it.
THEOREM EventsCanBeUndone == MdSpec => []OldValuesUndo
  <1>1. MdInv => OldValuesUndo
    BY DEF MdInv
  <1> QED
    BY MdInvariant, <1>1, PTL

-----------------------------------------------------------------------------
(* Every modification is reported. *)

\* What a step of the directory part does with modifications: a handler gives
\* the one it holds to nobody but an event, and a new one of the program is in
\* the hands of the handler that made it.
HandsOver ==
    /\ audit \subseteq audit'
    /\ \A g \in Handlers : pc[g] = "putAudit" =>
          \/ pc'[g] = "putAudit" /\ last'[g].value = last[g].value
          \/ \E ev \in audit' : ev.new = last[g].value
    /\ \A i \in 1..Len(mods') : mods'[i].by = "program" =>
          \/ i \in 1..Len(mods)
          \/ \E g \in Handlers : pc'[g] = "putAudit" /\ last'[g].value = i

\* A step that makes no modification of the program, and moves no handler that
\* is about to audit.
LEMMA QuietHandsOver ==
  ASSUME UNCHANGED <<mods, audit>>,
         \A g \in Handlers : pc[g] = "putAudit" =>
            pc'[g] = "putAudit" /\ last'[g] = last[g]
  PROVE  HandsOver
  BY DEF HandsOver

LEMMA ModifyHandsOver ==
  ASSUME TypeOK, NEW h \in Handlers, PutModifyOK(h) \/ PutModifyError(h)
  PROVE  HandsOver
  <1>1. /\ pc[h] = "putModify" /\ pc'[h] = "putAudit" /\ audit' = audit
        /\ \A g \in Handlers : g # h => pc'[g] = pc[g] /\ last'[g] = last[g]
    BY DEF PutModifyOK, PutModifyError, TypeOK, LocalTypeOK
  <1>2. \/ mods' = mods
        \/ /\ \E e, a : Store(e, a, "program")
           /\ last'[h].value = Len(mods) + 1
    BY DEF PutModifyOK, PutModifyError, TypeOK, LocalTypeOK, Refuse, adVars
  <1>3. CASE mods' = mods
    BY <1>1, <1>3, QuietHandsOver
  <1>4. CASE /\ \E e, a : Store(e, a, "program")
             /\ last'[h].value = Len(mods) + 1
    <2>1. Len(mods) \in Nat /\ Len(mods') = Len(mods) + 1
      BY <1>4 DEF Store, TypeOK, AdTypeOK
    <2>2. \A i \in 1..Len(mods') : i \in 1..Len(mods) \/ i = last'[h].value
      BY <1>4, <2>1
    <2> QED
      BY <1>1, <2>2 DEF HandsOver
  <1> QED
    BY <1>2, <1>3, <1>4

LEMMA AuditHandsOver ==
  ASSUME TypeOK, NEW h \in Handlers, PutAudit(h) PROVE HandsOver
  <1> DEFINE a == NextField(todo[h])
             event == [dn |-> target[h], attr |-> a, old |-> OldValue(h, a),
                       new |-> last[h].value, ok |-> last[h].ok]
  <1>1. audit' = audit \cup {event} /\ event.new = last[h].value
    BY DEF PutAudit
  <1>2. /\ mods' = mods /\ last' = last
        /\ \A g \in Handlers : g # h => pc'[g] = pc[g]
    BY DEF PutAudit, TypeOK, LocalTypeOK
  <1> QED
    BY <1>1, <1>2 DEF HandsOver

LEMMA OutsideHandsOver ==
  ASSUME TypeOK, NEW e \in Employees, NEW a \in OutsideAttrs, OutsideChange(e, a)
  PROVE  HandsOver
  <1>1. /\ Len(mods) \in Nat /\ Len(mods') = Len(mods) + 1
        /\ mods'[Len(mods) + 1].by = "outside"
        /\ pc' = pc /\ last' = last /\ audit' = audit
    BY DEF OutsideChange, OutsideEdit, Store, TypeOK, AdTypeOK, localVars
  <1>2. \A i \in 1..Len(mods') : i \in 1..Len(mods) \/ i = Len(mods) + 1
    BY <1>1
  <1> QED
    BY <1>1, <1>2 DEF HandsOver

LEMMA DirectoryHandsOver ==
  ASSUME TypeOK, DirectoryStep PROVE HandsOver
  <1> USE DEF ghostVars
  <1>0. pc \in [Handlers -> PcLabels]
    BY DEF TypeOK, LocalTypeOK
  <1>1. ASSUME NEW h \in Handlers, Request(h) PROVE HandsOver
    BY <1>0, <1>1, QuietHandsOver DEF Request, ListStart, GetHit, GetMiss, PutStart
  <1>2. ASSUME NEW h \in Handlers, ListStep(h) PROVE HandsOver
    BY <1>0, <1>2, QuietHandsOver
    DEF ListStep, ListHit, ListMiss, ListReadError, ListSet, ListReadEntry
  <1>3. ASSUME NEW h \in Handlers, GetStep(h) PROVE HandsOver
    BY <1>0, <1>3, QuietHandsOver DEF GetStep, GetRead, GetReadError, GetSet
  <1>4. ASSUME NEW h \in Handlers, PutStep(h) PROVE HandsOver
    <2>1. CASE PutReadOld(h) \/ PutDelete(h) \/ PutBump(h) \/ PutReread(h)
      BY <1>0, <2>1, QuietHandsOver DEF PutReadOld, PutDelete, PutBump, PutReread
    <2> QED
      BY <1>4, <2>1, ModifyHandsOver, AuditHandsOver DEF PutStep
  <1>5. ASSUME NEW h \in Handlers, Reply(h) PROVE HandsOver
    <2>1. /\ pc[h] # "putAudit" /\ UNCHANGED <<mods, audit>>
          /\ \A g \in Handlers : g # h => pc'[g] = pc[g] /\ last'[g] = last[g]
      BY <1>0, <1>5 DEF Reply, TypeOK, LocalTypeOK
    <2> QED
      BY <2>1, QuietHandsOver
  <1>6. ASSUME Expiry PROVE HandsOver
    BY <1>6, QuietHandsOver DEF Expiry, ExpireEmployee, ExpireList, localVars
  <1> QED
    BY <1>1, <1>2, <1>3, <1>4, <1>5, <1>6, OutsideHandsOver
    DEF DirectoryStep, HandlerStep

\* Where a modification may be: with a correction, with an update, or told.
WithCorrection(i) ==
    \E w \in Technicians : \E k \in 1..Len(results[w]) : results[w][k].new = i
WithUpdate(i) ==
    \E h \in Handlers : pc[h] = "putAudit" /\ last[h].value = i
Told(i) == i \in Reported \/ (\E ev \in audit : ev.new = i) \/ i \in lost

LEMMA WhereTheyAre ==
  ModificationsAreReported <=>
    \A i \in 1..Len(mods) : mods[i].by = "program" =>
        WithCorrection(i) \/ WithUpdate(i) \/ Told(i)
  BY DEF ModificationsAreReported, Unreported, WithCorrection, WithUpdate, Told

\* What is told stays told.
LEMMA ToldStays ==
  ASSUME reports \subseteq reports', audit \subseteq audit', lost \subseteq lost',
         NEW i, Told(i)
  PROVE  Told(i)'
  BY DEF Told, Reported

\* A modification is never dropped, and a new one is in somebody's hands.
Carried ==
    /\ \A i \in 1..Len(mods) : WithCorrection(i) \/ WithUpdate(i) =>
          WithCorrection(i)' \/ WithUpdate(i)' \/ Told(i)'
    /\ \A i \in 1..Len(mods') : mods'[i].by = "program" =>
          i \in 1..Len(mods) \/ WithCorrection(i)' \/ WithUpdate(i)'

LEMMA CarriedIsReported ==
  ASSUME ModificationsAreReported, ModsKept, Carried,
         reports \subseteq reports', audit \subseteq audit', lost \subseteq lost'
  PROVE  ModificationsAreReported'
  <1>1. ASSUME NEW i \in 1..Len(mods'), mods'[i].by = "program"
        PROVE  WithCorrection(i)' \/ WithUpdate(i)' \/ Told(i)'
    <2>1. CASE i \in 1..Len(mods)
      <3>1. mods[i].by = "program"
        BY <1>1, <2>1 DEF ModsKept
      <3>2. WithCorrection(i) \/ WithUpdate(i) \/ Told(i)
        BY <2>1, <3>1, WhereTheyAre
      <3> QED
        BY <2>1, <3>2, ToldStays DEF Carried
    <2>2. CASE i \notin 1..Len(mods)
      BY <1>1, <2>2 DEF Carried
    <2> QED
      BY <2>1, <2>2
  <1> QED
    BY <1>1 DEF ModificationsAreReported, Unreported, WithCorrection, WithUpdate, Told

LEMMA DirectoryStepReports ==
  ASSUME MdInv, ModificationsAreReported, DirectoryStep
  PROVE  ModificationsAreReported'
  <1>1. HandsOver /\ ModsKept
    <2>1. TypeOK /\ [Next]_vars
      BY DEF MdInv, DirectoryStep, Next
    <2> QED
      BY <2>1, DirectoryHandsOver, DirectoryKeepsMods
  <1>2. UNCHANGED <<results, reports, lost>>
    BY DEF DirectoryStep, mdVars, mdLocals
  <1>3. ASSUME NEW i \in 1..Len(mods), WithCorrection(i) \/ WithUpdate(i)
        PROVE  WithCorrection(i)' \/ WithUpdate(i)' \/ Told(i)'
    BY <1>1, <1>2, <1>3 DEF HandsOver, WithCorrection, WithUpdate, Told
  <1>4. Carried
    BY <1>1, <1>3 DEF Carried, HandsOver, WithUpdate
  <1> QED
    BY <1>1, <1>2, <1>4, CarriedIsReported DEF HandsOver

\* Steps of a correction that make no modification and end no application.
LEMMA QuietCorrection ==
  ASSUME MdInv, ModificationsAreReported,
         UNCHANGED <<vars, reports, lost>>,
         \A w \in Technicians : results'[w] = results[w]
  PROVE  ModificationsAreReported'
  <1>1. ModsKept
    BY SameMoves DEF MdInv, DirectoryMoves
  <1>2. \A i : (WithCorrection(i) => WithCorrection(i)') /\ (WithUpdate(i) => WithUpdate(i)')
    BY DEF WithCorrection, WithUpdate, vars
  <1>3. Carried
    BY <1>2 DEF Carried, vars
  <1> QED
    BY <1>1, <1>3, CarriedIsReported DEF vars

\* An outcome joins the results; the modification it names, if any, is new.
LEMMA ApplyReports ==
  ASSUME MdInv, ModificationsAreReported, NEW w \in Technicians,
         ApplyInvalid(w) \/ ApplyModifies(w) \/ ApplyError(w)
  PROVE  ModificationsAreReported'
  <1>1. UNCHANGED <<pc, last, audit, reports, lost>>
    BY DEF ApplyInvalid, ApplyModifies, ApplyError, vars, localVars, Refuse
  <1>2. PICK ok \in BOOLEAN, n \in Nat :
          /\ Outcome(w, ok, n)
          /\ \/ mods' = mods
             \/ /\ \E e, a : Store(e, a, "program")
                /\ n = Len(mods) + 1
    <2>1. Len(mods) + 1 \in Nat
      BY DEF MdInv, TypeOK, AdTypeOK
    <2> QED
      BY <2>1 DEF ApplyInvalid, ApplyModifies, ApplyError, vars, Refuse, adVars
  <1>3. ModsKept
    BY <1>2, StoreKeepsMods, SameKeepsMods DEF MdInv, TypeOK
  <1>4. /\ Len(results[w]) \in Nat
        /\ Len(results'[w]) = Len(results[w]) + 1
        /\ results'[w][Len(results[w]) + 1].new = n
        /\ \A k \in 1..Len(results[w]) : results'[w][k] = results[w][k]
        /\ \A v \in Technicians : v # w => results'[v] = results[v]
    BY <1>2 DEF Outcome, MdInv, MdTypeOK
  <1>5. ASSUME NEW i, WithCorrection(i) PROVE WithCorrection(i)'
    <2>1. PICK v \in Technicians : \E k \in 1..Len(results[v]) : results[v][k].new = i
      BY <1>5 DEF WithCorrection
    <2>2. PICK k \in 1..Len(results[v]) : results[v][k].new = i
      BY <2>1
    <2>3. k \in 1..Len(results'[v]) /\ results'[v][k].new = i
      BY <1>4, <2>2
    <2> QED
      BY <2>3 DEF WithCorrection
  <1>6. WithCorrection(n)'
    <2>1. Len(results[w]) + 1 \in 1..Len(results'[w])
      BY <1>4
    <2> QED
      BY <1>4, <2>1 DEF WithCorrection
  <1>7. \A i \in 1..Len(mods') : i \in 1..Len(mods) \/ i = n
    <2>1. CASE mods' = mods
      BY <2>1
    <2>2. CASE /\ \E e, a : Store(e, a, "program")
               /\ n = Len(mods) + 1
      <3>1. Len(mods) \in Nat /\ Len(mods') = Len(mods) + 1
        BY <2>2 DEF Store, MdInv, TypeOK, AdTypeOK
      <3> QED
        BY <2>2, <3>1
    <2> QED
      BY <1>2, <2>1, <2>2
  <1>8. \A i : WithUpdate(i) => WithUpdate(i)'
    BY <1>1 DEF WithUpdate
  <1>9. Carried
    BY <1>5, <1>6, <1>7, <1>8 DEF Carried
  <1> QED
    BY <1>1, <1>3, <1>9, CarriedIsReported

\* The event of a correction names all its modifications.
LEMMA ApplyReplyReports ==
  ASSUME MdInv, ModificationsAreReported, NEW w \in Technicians, ApplyReply(w)
  PROVE  ModificationsAreReported'
  <1> USE DEF ApplyReply, MdEnds
  <1>1. ModsKept
    BY SameMoves DEF MdInv, DirectoryMoves
  <1>2. PICK r \in Seq(Change) :
          /\ r = Changes(w) /\ Len(r) = Len(results[w])
          /\ \A i \in 1..Len(results[w]) : r[i].new = results[w][i].new
    BY ChangesType
  <1>3. r \in reports' /\ UNCHANGED <<pc, last, audit, lost>> /\ reports \subseteq reports'
    BY <1>2 DEF vars
  <1>4. ASSUME NEW k \in 1..Len(results[w]) PROVE results[w][k].new \in Reported'
    <2>1. k \in DOMAIN r /\ r[k].new = results[w][k].new
      BY <1>2
    <2>2. r[k] \in Range(r)
      BY <2>1 DEF Range
    <2>3. r[k] \in UNION {Range(s) : s \in reports'}
      BY <1>3, <2>2
    <2> QED
      BY <2>1, <2>3 DEF Reported
  <1>5. \A v \in Technicians : v # w => results'[v] = results[v]
    BY DEF MdInv, MdTypeOK
  <1>6. \A i : WithCorrection(i) => WithCorrection(i)' \/ Told(i)'
    BY <1>4, <1>5 DEF WithCorrection, Told
  <1>7. \A i : WithUpdate(i) => WithUpdate(i)'
    BY <1>3 DEF WithUpdate
  <1>8. Carried
    BY <1>6, <1>7 DEF Carried, vars
  <1> QED
    BY <1>1, <1>3, <1>8, CarriedIsReported

\* A restart forgets what was in hand.
LEMMA MdCrashReports ==
  ASSUME MdInv, ModificationsAreReported, MdCrash PROVE ModificationsAreReported'
  <1>1. mods' = mods /\ audit' = audit /\ reports' = reports /\ lost \subseteq lost'
    BY DEF MdCrash, Crash
  <1>2. ModsKept
    BY <1>1, SameKeepsMods DEF MdInv, TypeOK
  <1>3. ASSUME NEW i \in 1..Len(mods), WithCorrection(i) \/ WithUpdate(i) PROVE Told(i)'
    BY <1>3 DEF MdCrash, Unreported, WithCorrection, WithUpdate, Told
  <1>4. Carried
    BY <1>1, <1>3 DEF Carried
  <1> QED
    BY <1>1, <1>2, <1>4, CarriedIsReported

LEMMA ReportedNext ==
  MdInv /\ ModificationsAreReported /\ [MdNext]_<<vars, mdVars>> =>
    ModificationsAreReported'
  <1> SUFFICES ASSUME MdInv, ModificationsAreReported, [MdNext]_<<vars, mdVars>>
               PROVE  ModificationsAreReported'
    OBVIOUS
  <1>1. ASSUME NEW w \in Technicians, NEW kind \in {"validate", "lookup"},
               NEW doc \in Documents, Submit(w, kind, doc)
        PROVE  ModificationsAreReported'
    BY <1>1, QuietCorrection DEF Submit
  <1>2. ASSUME NEW w \in Technicians, SkipBlock(w) \/ LookUp(w) \/ BeginApply(w)
        PROVE  ModificationsAreReported'
    BY <1>2, QuietCorrection DEF SkipBlock, LookUp, BeginApply
  <1>3. ASSUME NEW w \in Technicians, ValidateReply(w)
        PROVE  ModificationsAreReported'
    <2>1. \A v \in Technicians : results'[v] = results[v]
      BY <1>3 DEF ValidateReply, MdEnds, MdInv, MdTypeOK, Settled, LookUpsComeFirst
    <2> QED
      BY <1>3, <2>1, QuietCorrection DEF ValidateReply
  <1>4. CASE UNCHANGED <<vars, mdVars>>
    BY <1>4, QuietCorrection DEF mdVars, mdLocals
  <1> QED
    BY <1>1, <1>2, <1>3, <1>4, ApplyReports, ApplyReplyReports, MdCrashReports,
       DirectoryStepReports DEF MdNext, MdStep

\* Whatever fails, each modification of the program is named by an event, in
\* the hands of a request, or was when a restart cut the request short.
THEOREM AllModificationsAreReported == MdSpec => []ModificationsAreReported
  <1>1. MdInit => ModificationsAreReported
    BY DEF MdInit, Init, AdInit, ModificationsAreReported
  <1> QED
    BY MdInvariant, <1>1, ReportedNext, PTL DEF MdSpec

-----------------------------------------------------------------------------
(* What the employee handlers promise survives the corrections. *)

\* A modification behind the back of the handlers.
StoresOnly(e, a) ==
    /\ Store(e, a, "program")
    /\ UNCHANGED <<cacheVars, localVars, audit, ghostVars>>

\* The directory holds no less than before, and nobody was told of more.
LEMMA StoreKeepsLists ==
  ASSUME ListInv, NEW e \in Employees, NEW a \in EditableAttrs, StoresOnly(e, a)
  PROVE  ListInv'
  <1> USE DEF StoresOnly, cacheVars, localVars, ghostVars
  <1>1. /\ TypeOK /\ AdNewestFirst /\ AdKeepsPromises /\ UpdatesAreInAd
        /\ ListsKeepPromises
    BY DEF ListInv
  <1>2. TypeOK' /\ AdNewestFirst' /\ AdGrown
    BY <1>1, StoreMoves DEF DirectoryMoves
  <1>3. ad \in Listing /\ ad' \in Listing
    BY <1>1, <1>2 DEF TypeOK, AdTypeOK
  <1>4. \A d \in Employees, r \in Record : AtLeast(ad[d], r) => AtLeast(ad'[d], r)
    BY <1>2, <1>3, AtLeastTransitive DEF AdGrown, Listing
  <1>5. AdKeepsPromises'
    <2>1. \A v \in 1..Len(promised), d \in Employees : promised[v][d] \in Record
      BY <1>1 DEF TypeOK, HistoryTypeOK, Listing
    <2> QED
      BY <1>1, <1>4, <2>1 DEF AdKeepsPromises
  <1>6. UpdatesAreInAd'
    BY <1>1, <1>4 DEF UpdatesAreInAd, TypeOK, LocalTypeOK
  <1>7. ListsKeepPromises'
    BY <1>1 DEF ListsKeepPromises
  <1> QED
    BY <1>2, <1>5, <1>6, <1>7 DEF ListInv

\* What is owed to the records does not depend on the directory.
LEMMA StoreKeepsRecords ==
  ASSUME StaleOnlyIfLate, NEW e, NEW a, StoresOnly(e, a)
  PROVE  StaleOnlyIfLate'
  BY DEF StoresOnly, cacheVars, localVars, ghostVars, StaleOnlyIfLate, Owed, AtLeast

\* The trail of the updates is not touched.
LEMMA StoreKeepsTrail ==
  ASSUME TypeOK, AdNewestFirst, TrailIsTrue,
         NEW e \in Employees, NEW a \in EditableAttrs, StoresOnly(e, a)
  PROVE  TrailIsTrue'
  <1> USE DEF StoresOnly, localVars
  <1>1. AdTypeOK' /\ ModsKept /\ AdGrown
    BY StoreType, StoreGrows, StoreKeepsMods DEF TypeOK, AdGrown
  <1>2. AdIsNamed'
    BY StoreIsNamed DEF TypeOK, TrailIsTrue
  <1>3. \A h \in Handlers : HandIsTrueThen(h)
    BY <1>1, HandStaysTrue DEF SameHand
  <1>4. \A ev \in audit' : EventIsTrueThen(ev)
    BY <1>1, EventsStayTrue
  <1> QED
    BY <1>2, <1>3, <1>4, TrailThen

\* A step is one of the handlers', or a modification behind their back.
LEMMA CorrectionsOnlyStore ==
  ASSUME MdInv, [MdNext]_<<vars, mdVars>>
  PROVE  \/ [Next]_vars
         \/ \E e \in Employees, a \in EditableAttrs : StoresOnly(e, a)
  <1>1. CASE DirectoryStep \/ MdCrash \/ UNCHANGED <<vars, mdVars>>
    BY <1>1 DEF DirectoryStep, MdCrash, Next
  <1>2. ASSUME NEW w \in Technicians, MdStep(w)
        PROVE  \/ UNCHANGED vars
               \/ \E e \in Employees, a \in EditableAttrs : StoresOnly(e, a)
    <2>1. CASE ~(ApplyModifies(w) \/ ApplyError(w))
      BY <1>2, <2>1
      DEF MdStep, SkipBlock, LookUp, ValidateReply, BeginApply, ApplyInvalid, ApplyReply
    <2>2. ASSUME ApplyModifies(w) \/ ApplyError(w)
          PROVE  Current(w).dn \in Employees /\ Current(w).attr \in EditableAttrs
      <3>1. Trying(w) /\ Current(w).valid
        BY <2>2 DEF ApplyModifies, ApplyError
      <3>2. Len(results[w]) + 1 \in 1..Len(ops[w])
        BY <3>1, Numbers DEF Trying
      <3> QED
        BY <3>1, <3>2 DEF MdInv, Settled, OperationsAreKnown, Current
    <2>3. CASE ApplyModifies(w)
      BY <2>2, <2>3 DEF ApplyModifies, StoresOnly
    <2>4. CASE ApplyError(w)
      <3>1. CASE Refuse
        BY <2>4, <3>1 DEF ApplyError, Refuse, adVars, vars, cacheVars, localVars,
                          ghostVars
      <3>2. CASE Store(Current(w).dn, Current(w).attr, "program")
        BY <2>2, <2>4, <3>2 DEF ApplyError, StoresOnly
      <3> QED
        BY <2>4, <3>1, <3>2 DEF ApplyError
    <2> QED
      BY <2>1, <2>3, <2>4
  <1>3. ASSUME NEW w \in Technicians, NEW kind \in {"validate", "lookup"},
               NEW doc \in Documents, Submit(w, kind, doc)
        PROVE  UNCHANGED vars
    BY <1>3 DEF Submit
  <1> QED
    BY <1>1, <1>2, <1>3 DEF MdNext

LEMMA HandlersNext ==
  MdInv /\ HandlersInv /\ [MdNext]_<<vars, mdVars>> => HandlersInv'
  <1> SUFFICES ASSUME MdInv, HandlersInv, [MdNext]_<<vars, mdVars>>
               PROVE  HandlersInv'
    OBVIOUS
  <1> USE DEF HandlersInv
  <1>1. CASE [Next]_vars
    BY <1>1, ListInvNext, StaleNext, TruthNext DEF TrailBase, ListInv
  <1>2. ASSUME NEW e \in Employees, NEW a \in EditableAttrs, StoresOnly(e, a)
        PROVE  HandlersInv'
    BY <1>2, StoreKeepsLists, StoreKeepsRecords, StoreKeepsTrail DEF ListInv
  <1> QED
    BY <1>1, <1>2, CorrectionsOnlyStore

\* The employee handlers keep their invariants next to the corrections.
THEOREM HandlersKeepTheirWord == MdSpec => []HandlersInv
  <1>1. MdInit => HandlersInv
    <2> SUFFICES ASSUME MdInit PROVE HandlersInv
      OBVIOUS
    <2>1. Init
      BY DEF MdInit
    <2>2. ListInv
      BY <2>1, ListInvInit
    <2>3. StaleOnlyIfLate
      BY <2>1 DEF Init, EmptyCache, StaleOnlyIfLate
    <2>4. TrailIsTrue
      BY <2>1, TrailInit
    <2> QED
      BY <2>2, <2>3, <2>4 DEF HandlersInv
  <1> QED
    BY MdInvariant, <1>1, HandlersNext, PTL DEF MdSpec

\* A listing shows every update that was past its version bump when the list
\* request came in, corrections or not.
THEOREM ListsServeCommittedStill == MdSpec => []ListServesCommitted
  <1>1. ListInv => ListServesCommitted
    BY ListsServe
  <1> QED
    BY <1>1, HandlersKeepTheirWord, PTL DEF HandlersInv

\* Corrections do not show in what the handlers promise: the composition still
\* implements the abstract service.
THEOREM ServiceStandsBesideCorrections == MdSpec => ImplementsService
  <1> DEFINE Inv == MdInv /\ HandlersInv /\ FailureEnds
  <1>1. ASSUME NEW e \in Employees, NEW a \in EditableAttrs, StoresOnly(e, a)
        PROVE  UNCHANGED <<promised, listVersion, pc, target, ver, got, seen,
                           last, wrote>>
    BY <1>1 DEF StoresOnly, cacheVars, localVars, ghostVars
  <1>2. MdInit => Service!Init /\ FailureEnds
    BY ServiceInit, FailureEndsInit DEF MdInit
  <1>3. Inv /\ [MdNext]_<<vars, mdVars>> => FailureEnds'
    <2> SUFFICES ASSUME Inv, [MdNext]_<<vars, mdVars>> PROVE FailureEnds'
      OBVIOUS
    <2>1. CASE [Next]_vars
      BY <2>1, FailureEndsNext DEF HandlersInv, ListInv
    <2>2. ASSUME NEW e \in Employees, NEW a \in EditableAttrs, StoresOnly(e, a)
          PROVE  FailureEnds'
      BY <1>1, <2>2 DEF FailureEnds
    <2> QED
      BY <2>1, <2>2, CorrectionsOnlyStore
  <1>4. Inv /\ [MdNext]_<<vars, mdVars>> =>
          [Service!Next]_<<promised[listVersion + 1],
                           [h \in Handlers |-> ServiceOp(h)]>>
    <2> SUFFICES ASSUME Inv, [MdNext]_<<vars, mdVars>>
                 PROVE  Service!Next \/ UNCHANGED ServiceVars
      BY DEF ServiceVars, Op
    <2>1. CASE [Next]_vars
      BY <2>1, StepsAreService DEF HandlersInv, ServiceInv
    <2>2. ASSUME NEW e \in Employees, NEW a \in EditableAttrs, StoresOnly(e, a)
          PROVE  UNCHANGED ServiceVars
      BY <1>1, <2>2 DEF ServiceVars, Op, ServiceOp
    <2> QED
      BY <2>1, <2>2, CorrectionsOnlyStore
  <1> QED
    BY MdInvariant, HandlersKeepTheirWord, <1>2, <1>3, <1>4, PTL
    DEF MdSpec, ImplementsService, Service!Spec
=============================================================================
