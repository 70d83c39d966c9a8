------------------------------- MODULE Notes -------------------------------
(***************************************************************************)
(* The notes of internal/services/note_service.go: one JSON file per note, *)
(* below a directory per employee, read and written by request goroutines  *)
(* without a lock.  os.WriteFile truncates the file and then writes it;    *)
(* an open file that is removed lives on without a name.                   *)
(*                                                                         *)
(* A file's content is 0 while it is no whole note, and otherwise the body *)
(* it was written for; a larger body makes a longer file.  What the walks  *)
(* of FindByID and Delete do not find, and what a handler refuses before   *)
(* it touches a file, changes nothing and is left out.                     *)
(***************************************************************************)
EXTENDS Naturals

CONSTANTS
    Notes,       \* the identifiers uuid.NewString can return
    Employees,
    Handlers,    \* the goroutines that serve requests
    None,
    MaxBody,     \* bound: the longest body
    MaxCrashes   \* bound: restarts of the process

ASSUME NotesAssumption ==
    /\ MaxBody \in Nat \ {0} /\ MaxCrashes \in Nat
    /\ None \notin Notes /\ None \notin Employees
    /\ None \notin [emp: Employees, body: 0..MaxBody]

VARIABLES
    files,       \* files[n]: the file of note n, or None
    pc,          \* where each handler is
    note,        \* the note it saves or removes
    owner,       \* the employee of that note, or of a listing
    body,        \* the body it is to save
    todo,        \* the names a listing has still to read
    shown,       \* the notes it has read
    used,        \* history: the identifiers handed out
    acked,       \* history: the notes whose creation was answered
    deleted,     \* history: the notes that were removed
    inHand,      \* history: those removed while an update held them
    cut,         \* history: notes with a write cut short or overlapped
    expected,    \* history: the notes a listing owes its client
    crashes      \* history: restarts so far

locals == <<pc, note, owner, body, todo, shown>>
ghosts == <<used, acked, deleted, inHand, cut, expected, crashes>>
vars == <<files, locals, ghosts>>

File == [emp: Employees, body: 0..MaxBody]

TypeOK ==
    /\ files \in [Notes -> File \cup {None}]
    /\ pc \in [Handlers -> {"idle", "open", "write", "writeGone", "created",
                            "remove", "removed", "read"}]
    /\ note \in [Handlers -> Notes \cup {None}]
    /\ owner \in [Handlers -> Employees \cup {None}]
    /\ body \in [Handlers -> 0..MaxBody]
    /\ \A h \in Handlers : pc[h] \in {"open", "write"} =>
          note[h] \in Notes /\ owner[h] \in Employees /\ body[h] # 0
    /\ \A h \in Handlers :
          pc[h] \in {"writeGone", "created", "remove"} => note[h] \in Notes
    /\ todo \in [Handlers -> SUBSET Notes]
    /\ shown \in [Handlers -> SUBSET Notes]
    /\ expected \in [Handlers -> SUBSET Notes]
    /\ used \subseteq Notes /\ acked \subseteq Notes
    /\ deleted \subseteq Notes /\ inHand \subseteq Notes /\ cut \subseteq Notes
    /\ crashes \in Nat

Init ==
    /\ files = [n \in Notes |-> None]
    /\ pc = [h \in Handlers |-> "idle"]
    /\ note = [h \in Handlers |-> None] /\ owner = [h \in Handlers |-> None]
    /\ body = [h \in Handlers |-> 0]
    /\ todo = [h \in Handlers |-> {}] /\ shown = [h \in Handlers |-> {}]
    /\ expected = [h \in Handlers |-> {}]
    /\ used = {} /\ acked = {} /\ deleted = {} /\ inHand = {} /\ cut = {}
    /\ crashes = 0

Goto(h, label) == pc' = [pc EXCEPT ![h] = label]
Whole(n) == files[n] # None /\ files[n].body # 0
Writing(n) == {h \in Handlers : pc[h] = "write" /\ note[h] = n}

\* The goroutine ends, and its locals with it.
Ends(h) ==
    /\ Goto(h, "idle")
    /\ note' = [note EXCEPT ![h] = None] /\ owner' = [owner EXCEPT ![h] = None]
    /\ body' = [body EXCEPT ![h] = 0]
    /\ todo' = [todo EXCEPT ![h] = {}] /\ shown' = [shown EXCEPT ![h] = {}]

Begin(h, label, n, e, b) ==
    /\ pc[h] = "idle"
    /\ Goto(h, label)
    /\ note' = [note EXCEPT ![h] = n]
    /\ owner' = [owner EXCEPT ![h] = e]
    /\ body' = [body EXCEPT ![h] = b]

-----------------------------------------------------------------------------
(* POST /employees/:id/notes and PUT /notes/:id *)

\* Mutant: identifiers count the notes, and are given out again.
CreateReusing(h, n, e, b) ==
    /\ files[n] = None
    /\ Begin(h, "open", n, e, b)
    /\ used' = used \cup {n}
    /\ UNCHANGED <<files, todo, shown, acked, deleted, inHand, cut, expected,
                   crashes>>

Create(h, n, e, b) ==
    /\ n \notin used
    /\ Begin(h, "open", n, e, b)
    /\ used' = used \cup {n}
    /\ UNCHANGED <<files, todo, shown, acked, deleted, inHand, cut, expected,
                   crashes>>

\* FindByID: what the file holds is read now, and saved again later.
Update(h, n, b) ==
    /\ Whole(n)
    /\ Begin(h, "open", n, files[n].emp, b)
    /\ UNCHANGED <<files, todo, shown, ghosts>>

\* Mutant: the file is opened without truncating it.
OpenKeeping(h) ==
    LET n == note[h] IN
    /\ pc[h] = "open"
    /\ files' = [files EXCEPT ![n] =
                    [emp |-> owner[h],
                     body |-> IF files[n] = None THEN 0 ELSE files[n].body]]
    /\ cut' = IF Writing(n) = {} THEN cut ELSE cut \cup {n}
    /\ Goto(h, "write")
    /\ UNCHANGED <<note, owner, body, todo, shown, used, acked, deleted,
                   inHand, expected, crashes>>

\* Save: the directory is there, and the file is created or truncated.
Open(h) ==
    LET n == note[h] IN
    /\ pc[h] = "open"
    /\ files' = [files EXCEPT ![n] = [emp |-> owner[h], body |-> 0]]
    /\ cut' = IF Writing(n) = {} THEN cut ELSE cut \cup {n}
    /\ Goto(h, "write")
    /\ UNCHANGED <<note, owner, body, todo, shown, used, acked, deleted,
                   inHand, expected, crashes>>

\* The handler writes from the start of the file.  What another one wrote
\* since this one opened it stays visible behind, when it is longer.
Write(h) ==
    LET n == note[h] IN
    /\ pc[h] = "write"
    /\ files' = [files EXCEPT ![n] =
                    [emp |-> @.emp,
                     body |-> IF @.body > body[h] THEN 0 ELSE body[h]]]
    /\ Goto(h, "created")
    /\ UNCHANGED <<note, owner, body, todo, shown, ghosts>>

\* The disk is full: part of the file was written, the reply is an error.
WriteFails(h) ==
    LET n == note[h] IN
    /\ pc[h] = "write"
    /\ files' = [files EXCEPT ![n] = [emp |-> @.emp, body |-> 0]]
    /\ cut' = cut \cup {n}
    /\ Ends(h)
    /\ UNCHANGED <<used, acked, deleted, inHand, expected, crashes>>

\* The file was removed after it was opened: the write goes nowhere.
WriteGone(h) ==
    /\ pc[h] = "writeGone"
    /\ Goto(h, "created")
    /\ UNCHANGED <<files, note, owner, body, todo, shown, ghosts>>

\* 201 or 200; a save that cannot open its file is answered with an error.
SaveReply(h) ==
    /\ pc[h] \in {"open", "created"}
    /\ acked' = IF pc[h] = "created" THEN acked \cup {note[h]} ELSE acked
    /\ Ends(h)
    /\ UNCHANGED <<files, used, deleted, inHand, cut, expected, crashes>>

-----------------------------------------------------------------------------
(* DELETE /notes/:id *)

\* The walk finds the file, whole or not.
Delete(h, n) ==
    /\ files[n] # None
    /\ Begin(h, "remove", n, None, 0)
    /\ UNCHANGED <<files, todo, shown, ghosts>>

\* os.Remove; a handler that has the file open keeps writing to it.
Remove(h) ==
    LET n == note[h] IN
    /\ pc[h] = "remove"
    /\ files[n] # None
    /\ files' = [files EXCEPT ![n] = None]
    /\ pc' = [g \in Handlers |-> IF g = h THEN "removed"
                                 ELSE IF g \in Writing(n) THEN "writeGone"
                                 ELSE pc[g]]
    /\ deleted' = deleted \cup {n}
    /\ inHand' = IF \E g \in Handlers : pc[g] = "open" /\ note[g] = n
                 THEN inHand \cup {n} ELSE inHand \ {n}
    /\ cut' = cut \ {n}
    /\ expected' = [g \in Handlers |-> expected[g] \ {n}]
    /\ UNCHANGED <<note, owner, body, todo, shown, used, acked, crashes>>

\* 204; or 404, when another delete was first.
DeleteReply(h) ==
    /\ \/ pc[h] = "removed"
       \/ pc[h] = "remove" /\ files[note[h]] = None
    /\ Ends(h)
    /\ UNCHANGED <<files, ghosts>>

-----------------------------------------------------------------------------
(* GET /employees/:id/notes *)

NotesOf(e) == {n \in Notes : files[n] # None /\ files[n].emp = e}

\* Mutant: a file that is still empty is left out.
ListNonEmpty(h, e) ==
    /\ Begin(h, "read", None, e, 0)
    /\ todo' = [todo EXCEPT ![h] = {n \in NotesOf(e) : files[n].body # 0}]
    /\ shown' = [shown EXCEPT ![h] = {}]
    /\ expected' = [expected EXCEPT ![h] = acked \cap NotesOf(e)]
    /\ UNCHANGED <<files, used, acked, deleted, inHand, cut, crashes>>

\* ReadDir
List(h, e) ==
    /\ Begin(h, "read", None, e, 0)
    /\ todo' = [todo EXCEPT ![h] = NotesOf(e)]
    /\ shown' = [shown EXCEPT ![h] = {}]
    /\ expected' = [expected EXCEPT ![h] = acked \cap NotesOf(e)]
    /\ UNCHANGED <<files, used, acked, deleted, inHand, cut, crashes>>

\* Mutant: a file that cannot be read is passed over.
ReadNoteOrSkip(h, n) ==
    /\ pc[h] = "read" /\ n \in todo[h]
    /\ todo' = [todo EXCEPT ![h] = @ \ {n}]
    /\ shown' = [shown EXCEPT ![h] = IF Whole(n) THEN @ \cup {n} ELSE @]
    /\ UNCHANGED <<files, pc, note, owner, body, ghosts>>

ReadNote(h, n) ==
    /\ pc[h] = "read" /\ n \in todo[h] /\ Whole(n)
    /\ todo' = [todo EXCEPT ![h] = @ \ {n}]
    /\ shown' = [shown EXCEPT ![h] = @ \cup {n}]
    /\ UNCHANGED <<files, pc, note, owner, body, ghosts>>

\* One file that is gone or no whole note fails the listing.
ReadFails(h) ==
    /\ pc[h] = "read" /\ \E n \in todo[h] : ~Whole(n)
    /\ Ends(h)
    /\ expected' = [expected EXCEPT ![h] = {}]
    /\ UNCHANGED <<files, used, acked, deleted, inHand, cut, crashes>>

ListReply(h) ==
    /\ pc[h] = "read" /\ todo[h] = {}
    /\ Ends(h)
    /\ expected' = [expected EXCEPT ![h] = {}]
    /\ UNCHANGED <<files, used, acked, deleted, inHand, cut, crashes>>

-----------------------------------------------------------------------------
\* The files stay as they are.
Crash ==
    /\ crashes < MaxCrashes
    /\ crashes' = crashes + 1
    /\ cut' = cut \cup {n \in Notes : Writing(n) # {}}
    /\ pc' = [h \in Handlers |-> "idle"]
    /\ note' = [h \in Handlers |-> None] /\ owner' = [h \in Handlers |-> None]
    /\ body' = [h \in Handlers |-> 0]
    /\ todo' = [h \in Handlers |-> {}] /\ shown' = [h \in Handlers |-> {}]
    /\ expected' = [h \in Handlers |-> {}]
    /\ UNCHANGED <<files, used, acked, deleted, inHand>>

Request(h) ==
    \/ \E n \in Notes, b \in 1..MaxBody :
          \/ \E e \in Employees : Create(h, n, e, b)
          \/ Update(h, n, b)
    \/ \E n \in Notes : Delete(h, n)
    \/ \E e \in Employees : List(h, e)

Step(h) ==
    \/ Open(h) \/ Write(h) \/ WriteFails(h) \/ WriteGone(h) \/ SaveReply(h)
    \/ Remove(h) \/ DeleteReply(h)
    \/ ReadFails(h) \/ ListReply(h)
    \/ \E n \in Notes : ReadNote(h, n)

Next == Crash \/ \E h \in Handlers : Request(h) \/ Step(h)

Spec == Init /\ [][Next]_vars

-----------------------------------------------------------------------------
(* Properties *)

\* A file that is no whole note, and that nobody is writing, is the remains of
\* a write that a crash or a full disk cut short, or of two that overlapped.
\* It stays: an update of it fails to read it, and only a delete, which reads
\* nothing, clears it.  (noteRepo.Save writes in place)
DamageHasCause ==
    \A n \in Notes :
        files[n] # None /\ ~Whole(n) /\ Writing(n) = {} => n \in cut

\* A listing shows everything or fails: no note whose creation was answered
\* before, and that nobody removes meanwhile, is silently missing.
\* (FindByEmployee returns the first error of readNote)
ListsAreWhole ==
    \A h \in Handlers : pc[h] = "read" /\ todo[h] = {} =>
        expected[h] \subseteq shown[h]

\* A removed note comes back only through an update that had read it before.
\* (noteService.Update finds, then saves)
RemovedStaysRemoved ==
    \A n \in deleted : files[n] # None => n \in inHand

\* What these rest on.  A file with one writer, and no trouble, has been
\* truncated by that writer and holds nothing yet.
OneCleanWriter ==
    \A n \in Notes : n \notin cut =>
        \A g, h \in Writing(n) : g = h /\ files[n].body = 0

WritersHaveFiles == \A n \in Notes : Writing(n) # {} => files[n] # None

\* No file has a name that was not handed out.
NamesAreUsed ==
    /\ \A n \in Notes : files[n] # None => n \in used
    /\ deleted \subseteq used

\* A removed note is held only by the updates that were under way.
HeldNotesAreKnown ==
    \A h \in Handlers : pc[h] = "open" =>
        note[h] \in used /\ (note[h] \in deleted => note[h] \in inHand)

\* A listing has read, or has still to read, what it owes.
ListingsReadAll ==
    \A h \in Handlers : pc[h] = "read" => expected[h] \subseteq shown[h] \cup todo[h]

NotesInv ==
    /\ TypeOK
    /\ OneCleanWriter /\ WritersHaveFiles /\ DamageHasCause
    /\ NamesAreUsed /\ HeldNotesAreKnown /\ RemovedStaysRemoved
    /\ ListingsReadAll
=============================================================================
