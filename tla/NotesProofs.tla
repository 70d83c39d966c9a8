---------------------------- MODULE NotesProofs ----------------------------
(***************************************************************************)
(* Theorems about Notes, for any number of notes, employees, handlers and  *)
(* restarts: the inductive invariant, and the three properties it implies. *)
(***************************************************************************)
EXTENDS Notes, TLAPS

LEMMA NotesInit == Init => NotesInv
  <1> SUFFICES ASSUME Init PROVE NotesInv
    OBVIOUS
  <1>1. TypeOK
    BY NotesAssumption DEF Init, TypeOK, NotesAssumption
  <1>2. \A n \in Notes : Writing(n) = {}
    BY DEF Init, Writing
  <1>3. OneCleanWriter /\ WritersHaveFiles /\ DamageHasCause
    BY <1>2 DEF Init, OneCleanWriter, WritersHaveFiles, DamageHasCause
  <1>4. NamesAreUsed /\ HeldNotesAreKnown /\ RemovedStaysRemoved /\ ListingsReadAll
    BY DEF Init, NamesAreUsed, HeldNotesAreKnown, RemovedStaysRemoved,
           ListingsReadAll
  <1> QED
    BY <1>1, <1>3, <1>4 DEF NotesInv

\* Steps that touch no file and write nothing: who writes stays the same.
LEMMA SameWriters ==
  ASSUME NotesInv, UNCHANGED <<files, cut>>, \A n \in Notes : Writing(n)' = Writing(n)
  PROVE  (OneCleanWriter /\ WritersHaveFiles /\ DamageHasCause)'
  BY DEF NotesInv, OneCleanWriter, WritersHaveFiles, DamageHasCause, Whole

\* Steps that leave the files, the notes given out and those removed alone, and
\* open no file, keep all that is said of names.
LEMMA SameNames ==
  ASSUME NotesInv, UNCHANGED <<files, used, deleted, inHand>>,
         \A h \in Handlers : pc'[h] = "open" => pc[h] = "open" /\ note'[h] = note[h]
  PROVE  (NamesAreUsed /\ HeldNotesAreKnown /\ RemovedStaysRemoved)'
  BY DEF NotesInv, NamesAreUsed, HeldNotesAreKnown, RemovedStaysRemoved

\* A handler that begins something has not written before.
LEMMA CreateKeeps ==
  ASSUME NotesInv, NEW h \in Handlers, NEW n \in Notes, NEW e \in Employees,
         NEW b \in 1..MaxBody, Create(h, n, e, b)
  PROVE  NotesInv'
  <1> USE DEF Create, Begin, Goto
  <1>1. TypeOK'
    BY NotesAssumption DEF NotesInv, TypeOK, NotesAssumption
  <1>2. \A m \in Notes : Writing(m)' = Writing(m)
    BY DEF NotesInv, TypeOK, Writing
  <1>3. NamesAreUsed' /\ HeldNotesAreKnown' /\ RemovedStaysRemoved'
    BY DEF NotesInv, TypeOK, NamesAreUsed, HeldNotesAreKnown, RemovedStaysRemoved
  <1>4. ListingsReadAll'
    BY DEF NotesInv, TypeOK, ListingsReadAll
  <1> QED
    BY <1>1, <1>2, <1>3, <1>4, SameWriters DEF NotesInv

LEMMA UpdateKeeps ==
  ASSUME NotesInv, NEW h \in Handlers, NEW n \in Notes, NEW b \in 1..MaxBody,
         Update(h, n, b)
  PROVE  NotesInv'
  <1> USE DEF Update, Begin, Goto, ghosts
  <1>1. TypeOK'
    <2>1. files[n].emp \in Employees
      BY DEF NotesInv, TypeOK, Whole, File
    <2> QED
      BY <2>1, NotesAssumption DEF NotesInv, TypeOK, NotesAssumption
  <1>2. \A m \in Notes : Writing(m)' = Writing(m)
    BY DEF NotesInv, TypeOK, Writing
  <1>3. NamesAreUsed' /\ HeldNotesAreKnown' /\ RemovedStaysRemoved'
    BY DEF NotesInv, TypeOK, NamesAreUsed, HeldNotesAreKnown, RemovedStaysRemoved,
           Whole
  <1>4. ListingsReadAll'
    BY DEF NotesInv, TypeOK, ListingsReadAll
  <1> QED
    BY <1>1, <1>2, <1>3, <1>4, SameWriters DEF NotesInv

\* A delete or a listing begins.
LEMMA BeginKeeps ==
  ASSUME NotesInv, NEW h \in Handlers,
         \/ \E n \in Notes : Delete(h, n)
         \/ \E e \in Employees : List(h, e)
  PROVE  NotesInv'
  <1> USE DEF Delete, List, Begin, Goto, ghosts
  <1>1. TypeOK'
    BY NotesAssumption DEF NotesInv, TypeOK, NotesAssumption, NotesOf
  <1>2. UNCHANGED <<files, cut, used, deleted, inHand>>
    OBVIOUS
  <1>3. \A m \in Notes : Writing(m)' = Writing(m)
    BY DEF NotesInv, TypeOK, Writing
  <1>4. \A g \in Handlers : pc'[g] = "open" => pc[g] = "open" /\ note'[g] = note[g]
    BY DEF NotesInv, TypeOK
  <1>5. ListingsReadAll'
    BY DEF NotesInv, TypeOK, ListingsReadAll
  <1> QED
    BY <1>1, <1>2, <1>3, <1>4, <1>5, SameWriters, SameNames DEF NotesInv

LEMMA OpenKeeps == ASSUME NotesInv, NEW h \in Handlers, Open(h) PROVE NotesInv'
  <1> USE DEF Open, Goto
  <1> DEFINE n == note[h]
  <1>1. n \in Notes /\ owner[h] \in Employees /\ pc[h] = "open"
    BY DEF NotesInv, TypeOK
  <1>2. TypeOK'
    <2>1. [emp |-> owner[h], body |-> 0] \in File
      BY <1>1, NotesAssumption DEF File, NotesAssumption
    <2> QED
      BY <1>1, <2>1 DEF NotesInv, TypeOK
  <1>3. /\ Writing(n)' = Writing(n) \cup {h}
        /\ \A m \in Notes : m # n => Writing(m)' = Writing(m)
    BY <1>1, <1>2 DEF NotesInv, TypeOK, Writing
  <1>4. /\ files'[n] = [emp |-> owner[h], body |-> 0] /\ files'[n] # None
        /\ \A m \in Notes : m # n => files'[m] = files[m]
    BY <1>1, NotesAssumption DEF NotesInv, TypeOK, NotesAssumption
  <1>5. OneCleanWriter' /\ WritersHaveFiles' /\ DamageHasCause'
    BY <1>1, <1>3, <1>4
    DEF NotesInv, OneCleanWriter, WritersHaveFiles, DamageHasCause, Whole
  <1>6. NamesAreUsed' /\ HeldNotesAreKnown' /\ RemovedStaysRemoved'
    BY <1>1, <1>4
    DEF NotesInv, TypeOK, NamesAreUsed, HeldNotesAreKnown, RemovedStaysRemoved
  <1>7. ListingsReadAll'
    BY DEF NotesInv, TypeOK, ListingsReadAll
  <1> QED
    BY <1>2, <1>5, <1>6, <1>7 DEF NotesInv

LEMMA WriteKeeps == ASSUME NotesInv, NEW h \in Handlers, Write(h) PROVE NotesInv'
  <1> USE DEF Write, Goto, ghosts
  <1> DEFINE n == note[h]
             b == IF files[n].body > body[h] THEN 0 ELSE body[h]
  <1>1. /\ n \in Notes /\ pc[h] = "write" /\ body[h] \in 1..MaxBody
        /\ h \in Writing(n) /\ files[n] \in File /\ files[n] # None
    BY DEF NotesInv, TypeOK, Writing, WritersHaveFiles
  <1>2. /\ files'[n] = [emp |-> files[n].emp, body |-> b]
        /\ files'[n] \in File /\ files'[n] # None
        /\ \A m \in Notes : m # n => files'[m] = files[m]
        /\ files' \in [Notes -> File \cup {None}]
    BY <1>1, NotesAssumption DEF NotesInv, TypeOK, File, NotesAssumption
  <1>3. TypeOK'
    BY <1>1, <1>2 DEF NotesInv, TypeOK
  <1>4. /\ Writing(n)' = Writing(n) \ {h}
        /\ \A m \in Notes : m # n => Writing(m)' = Writing(m)
    BY <1>1 DEF NotesInv, TypeOK, Writing
  <1>5. n \notin cut => Writing(n) = {h} /\ b = body[h]
    BY <1>1 DEF NotesInv, OneCleanWriter
  <1>6. OneCleanWriter' /\ WritersHaveFiles' /\ DamageHasCause'
    BY <1>1, <1>2, <1>4, <1>5
    DEF NotesInv, OneCleanWriter, WritersHaveFiles, DamageHasCause, Whole
  <1>7. NamesAreUsed' /\ HeldNotesAreKnown' /\ RemovedStaysRemoved'
    BY <1>1, <1>2
    DEF NotesInv, TypeOK, NamesAreUsed, HeldNotesAreKnown, RemovedStaysRemoved, File
  <1>8. ListingsReadAll'
    BY DEF NotesInv, TypeOK, ListingsReadAll
  <1> QED
    BY <1>3, <1>6, <1>7, <1>8 DEF NotesInv

LEMMA WriteFailsKeeps ==
  ASSUME NotesInv, NEW h \in Handlers, WriteFails(h) PROVE NotesInv'
  <1> USE DEF WriteFails, Ends, Goto
  <1>1. PICK n \in Notes : /\ n = note[h] /\ pc[h] = "write" /\ h \in Writing(n)
                          /\ files[n] \in File /\ files[n] # None
    <2>1. note[h] \in Notes /\ pc[h] = "write"
      BY DEF NotesInv, TypeOK
    <2>2. h \in Writing(note[h])
      BY <2>1 DEF Writing
    <2> QED
      BY <2>1, <2>2 DEF NotesInv, TypeOK, WritersHaveFiles
  <1>2. /\ files'[n] \in File /\ files'[n] # None /\ files'[n].body = 0
        /\ \A m \in Notes : m # n => files'[m] = files[m]
        /\ files' \in [Notes -> File \cup {None}]
    BY <1>1, NotesAssumption DEF NotesInv, TypeOK, File, NotesAssumption
  <1>3. TypeOK'
    BY <1>1, <1>2, NotesAssumption DEF NotesInv, TypeOK, NotesAssumption
  <1>4. /\ Writing(n)' = Writing(n) \ {h}
        /\ \A m \in Notes : m # n => Writing(m)' = Writing(m)
    BY <1>1 DEF NotesInv, TypeOK, Writing
  <1>5. OneCleanWriter' /\ WritersHaveFiles' /\ DamageHasCause'
    BY <1>1, <1>2, <1>4
    DEF NotesInv, OneCleanWriter, WritersHaveFiles, DamageHasCause, Whole
  <1>6. NamesAreUsed' /\ HeldNotesAreKnown' /\ RemovedStaysRemoved'
    BY <1>1, <1>2
    DEF NotesInv, TypeOK, NamesAreUsed, HeldNotesAreKnown, RemovedStaysRemoved, File
  <1>7. ListingsReadAll'
    BY DEF NotesInv, TypeOK, ListingsReadAll
  <1> QED
    BY <1>3, <1>5, <1>6, <1>7 DEF NotesInv

LEMMA RemoveKeeps == ASSUME NotesInv, NEW h \in Handlers, Remove(h) PROVE NotesInv'
  <1> USE DEF Remove
  <1> DEFINE n == note[h]
  <1>1. n \in Notes
    BY DEF NotesInv, TypeOK
  <1>2. TypeOK'
    BY <1>1 DEF NotesInv, TypeOK, Writing
  <1>3. /\ files'[n] = None
        /\ \A m \in Notes : m # n => files'[m] = files[m]
    BY <1>1 DEF NotesInv, TypeOK
  <1>4. /\ Writing(n)' = {}
        /\ \A m \in Notes : m # n => Writing(m)' = Writing(m)
    BY <1>1 DEF NotesInv, TypeOK, Writing
  <1>5. OneCleanWriter' /\ WritersHaveFiles' /\ DamageHasCause'
    BY <1>1, <1>3, <1>4
    DEF NotesInv, OneCleanWriter, WritersHaveFiles, DamageHasCause, Whole
  <1>6. \A g \in Handlers : pc'[g] = "open" => pc[g] = "open"
    BY DEF NotesInv, TypeOK, Writing
  <1>7. NamesAreUsed' /\ HeldNotesAreKnown' /\ RemovedStaysRemoved'
    BY <1>1, <1>3, <1>6
    DEF NotesInv, TypeOK, NamesAreUsed, HeldNotesAreKnown, RemovedStaysRemoved
  <1>8. ListingsReadAll'
    <2>1. \A g \in Handlers : pc'[g] = "read" => pc[g] = "read"
      BY DEF NotesInv, TypeOK, Writing
    <2> QED
      BY <2>1 DEF NotesInv, TypeOK, ListingsReadAll
  <1> QED
    BY <1>2, <1>5, <1>7, <1>8 DEF NotesInv

\* A request is answered, or a write goes to a file that has no name.
LEMMA ReplyKeeps ==
  ASSUME NotesInv, NEW h \in Handlers,
         \/ WriteGone(h) \/ SaveReply(h) \/ DeleteReply(h)
         \/ ReadFails(h) \/ ListReply(h)
  PROVE  NotesInv'
  <1> USE DEF WriteGone, SaveReply, DeleteReply, ReadFails, ListReply, Ends, Goto,
              ghosts
  <1>1. /\ pc[h] # "write" /\ pc'[h] \in {"idle", "created"}
        /\ \A g \in Handlers : g # h => pc'[g] = pc[g] /\ note'[g] = note[g]
    BY DEF NotesInv, TypeOK
  <1>2. UNCHANGED <<files, cut, used, deleted, inHand>>
    OBVIOUS
  <1>3. TypeOK'
    <2> USE NotesAssumption DEF NotesInv, TypeOK, NotesAssumption
    <2>1. CASE WriteGone(h)
      BY <2>1
    <2>2. CASE SaveReply(h)
      <3>1. acked' \subseteq Notes
        BY <2>2
      <3> QED
        BY <2>2, <3>1
    <2>3. CASE DeleteReply(h)
      BY <2>3
    <2>4. CASE ReadFails(h) \/ ListReply(h)
      BY <2>4
    <2> QED
      BY <2>1, <2>2, <2>3, <2>4
  <1>4. \A m \in Notes : Writing(m)' = Writing(m)
    BY <1>1 DEF Writing
  <1>5. \A g \in Handlers : pc'[g] = "open" => pc[g] = "open" /\ note'[g] = note[g]
    BY <1>1
  <1>6. ListingsReadAll'
    BY DEF NotesInv, TypeOK, ListingsReadAll
  <1> QED
    BY <1>2, <1>3, <1>4, <1>5, <1>6, SameWriters, SameNames DEF NotesInv

LEMMA ReadNoteKeeps ==
  ASSUME NotesInv, NEW h \in Handlers, NEW n \in Notes, ReadNote(h, n)
  PROVE  NotesInv'
  <1> USE DEF ReadNote, ghosts
  <1>1. TypeOK'
    BY DEF NotesInv, TypeOK
  <1>2. \A m \in Notes : Writing(m)' = Writing(m)
    BY DEF Writing
  <1>3. ListingsReadAll'
    BY DEF NotesInv, TypeOK, ListingsReadAll
  <1> QED
    BY <1>1, <1>2, <1>3, SameWriters, SameNames DEF NotesInv

LEMMA CrashKeeps == ASSUME NotesInv, Crash PROVE NotesInv'
  <1> USE DEF Crash
  <1>1. TypeOK'
    BY NotesAssumption DEF NotesInv, TypeOK, NotesAssumption
  <1>2. \A n \in Notes : Writing(n)' = {}
    BY DEF Writing
  <1>3. OneCleanWriter' /\ WritersHaveFiles' /\ DamageHasCause'
    BY <1>2 DEF NotesInv, OneCleanWriter, WritersHaveFiles, DamageHasCause, Whole
  <1>4. ListingsReadAll'
    BY DEF ListingsReadAll
  <1> QED
    BY <1>1, <1>3, <1>4, SameNames DEF NotesInv

LEMMA NotesNext == NotesInv /\ [Next]_vars => NotesInv'
  <1> SUFFICES ASSUME NotesInv, [Next]_vars PROVE NotesInv'
    OBVIOUS
  <1>1. ASSUME NEW h \in Handlers, Request(h) PROVE NotesInv'
    BY <1>1, CreateKeeps, UpdateKeeps, BeginKeeps DEF Request
  <1>2. ASSUME NEW h \in Handlers, Step(h) PROVE NotesInv'
    BY <1>2, OpenKeeps, WriteKeeps, WriteFailsKeeps, RemoveKeeps, ReplyKeeps,
       ReadNoteKeeps DEF Step
  <1>3. CASE UNCHANGED vars
    <2> USE <1>3 DEF vars, locals, ghosts
    <2>1. TypeOK'
      BY DEF NotesInv, TypeOK
    <2>2. \A m \in Notes : Writing(m)' = Writing(m)
      BY DEF Writing
    <2>3. ListingsReadAll'
      BY DEF NotesInv, ListingsReadAll
    <2> QED
      BY <2>1, <2>2, <2>3, SameWriters, SameNames DEF NotesInv
  <1> QED
    BY <1>1, <1>2, <1>3, CrashKeeps DEF Next

\* Types, one clean writer to a file without trouble, names and listings.
THEOREM NotesInvariant == Spec => []NotesInv
  BY NotesInit, NotesNext, PTL DEF Spec

\* A damaged file that nobody writes has a cause.
THEOREM DamageHasCauses == Spec => []DamageHasCause
  <1>1. NotesInv => DamageHasCause
    BY DEF NotesInv
  <1> QED
    BY NotesInvariant, <1>1, PTL

\* A listing shows everything that it owes, or fails.
THEOREM ListingsAreWhole == Spec => []ListsAreWhole
  <1>1. NotesInv => ListsAreWhole
    BY DEF NotesInv, ListingsReadAll, ListsAreWhole
  <1> QED
    BY NotesInvariant, <1>1, PTL

\* A removed note comes back only through an update that had read it.
THEOREM RemovedNotesStayRemoved == Spec => []RemovedStaysRemoved
  <1>1. NotesInv => RemovedStaysRemoved
    BY DEF NotesInv
  <1> QED
    BY NotesInvariant, <1>1, PTL
=============================================================================
