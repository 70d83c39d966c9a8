--------------------------- MODULE AuditPipeline ---------------------------
(***************************************************************************)
(* The path of an audit event from the goroutine that logs it to the file  *)
(* and the database, and the shutdown of the process around it: the        *)
(* AsyncLogger and MultiLogger of internal/audit, the deferred calls of    *)
(* cmd/server/main.go, the request handlers and the integrity checker's    *)
(* goroutine that log.                                                     *)
(*                                                                         *)
(* An event is named by its place in the order of the Log calls.           *)
(***************************************************************************)
EXTENDS Integers, Sequences

CONSTANTS
    Handlers,          \* request goroutines
    BufSize,           \* capacity of the channel
    Failures,          \* what may go wrong: see FailureNames
    MaxEvents,         \* bound: events the handlers log
    MaxRuns,           \* bound: integrity checks
    MaxViolations      \* bound: violations found by one check

FailureNames ==
    {"file",     \* a write to the log file fails
     "db",       \* a write to the database fails
     "timeout",  \* a request outlasts the 15 s of the graceful shutdown
     "listen",   \* ListenAndServe fails
     "kill"}     \* the process is killed

ASSUME BoundsAssumption ==
    /\ BufSize \in Nat \ {0}
    /\ MaxEvents \in Nat /\ MaxRuns \in Nat /\ MaxViolations \in Nat
    /\ Failures \subseteq FailureNames

VARIABLES
    main,        \* where main() is
    cancelled,   \* the integrity context is cancelled
    handler,     \* handler[h]: "idle" or "working" on a request
    checker,     \* where the checker's goroutine is
    queue,       \* a.ch
    closed,      \* a.ch is closed
    worker,      \* where drain is
    current,     \* the event drain is writing
    file, db,    \* the events in the log file and in audit_logs
    logged,      \* history: the calls of Log so far
    accepted,    \* history: the events that went into the channel
    taken,       \* history: the events drain took out of it
    events,      \* history: the events the handlers logged
    runs,        \* history: the checks begun
    violations   \* history: the violations of the check in progress

vars == <<main, cancelled, handler, checker, queue, closed, worker, current,
          file, db, logged, accepted, taken, events, runs, violations>>

queueVars   == <<queue, closed, logged, accepted>>
workerVars  == <<worker, current, file, db, taken>>
checkerVars == <<cancelled, checker, runs, violations>>
handlerVars == <<handler, events>>

Ended == {"exited", "aborted", "panicked", "killed"}
MainLabels ==
    {"serving", "shutdown", "cancel", "close", "wait"} \cup Ended
CheckerLabels == {"off", "waiting", "checking", "violation", "summary", "done"}

Increasing(s) == \A i, j \in 1..Len(s) : i < j => s[i] < s[j]

TypeOK ==
    /\ main \in MainLabels
    /\ cancelled \in BOOLEAN
    /\ handler \in [Handlers -> {"idle", "working"}]
    /\ checker \in CheckerLabels
    /\ queue \in Seq(Nat) /\ accepted \in Seq(Nat) /\ taken \in Seq(Nat)
    /\ file \in Seq(Nat) /\ db \in Seq(Nat)
    /\ closed \in BOOLEAN
    /\ worker \in {"receive", "file", "db", "done"}
    /\ current \in Nat /\ logged \in Nat /\ events \in Nat /\ runs \in Nat
    /\ violations \in Nat

Init ==
    /\ main = "serving"
    /\ cancelled = FALSE
    /\ handler = [h \in Handlers |-> "idle"]
    /\ checker \in {"off", "waiting"}  \* cfg.Integrity.Enabled or not
    /\ queue = <<>> /\ accepted = <<>> /\ taken = <<>>
    /\ file = <<>> /\ db = <<>>
    /\ closed = FALSE
    /\ worker = "receive"
    /\ current = 0 /\ logged = 0 /\ events = 0 /\ runs = 0 /\ violations = 0

Alive == main \notin Ended

-----------------------------------------------------------------------------
(* AsyncLogger.Log, called by a handler or by the checker. *)

\* Mutant: one event too many is let in.
EnqueueOneMore ==
    /\ ~closed
    /\ Len(queue) <= BufSize
    /\ queue' = Append(queue, logged + 1)
    /\ accepted' = Append(accepted, logged + 1)
    /\ logged' = logged + 1
    /\ UNCHANGED <<closed, main>>

\* There is room: the event goes in.
Enqueue ==
    /\ ~closed
    /\ Len(queue) < BufSize
    /\ queue' = Append(queue, logged + 1)
    /\ accepted' = Append(accepted, logged + 1)
    /\ logged' = logged + 1
    /\ UNCHANGED <<closed, main>>

\* The buffer is full: the event is dropped, the caller is not told.
Drop ==
    /\ ~closed
    /\ Len(queue) >= BufSize
    /\ logged' = logged + 1
    /\ UNCHANGED <<queue, accepted, closed, main>>

\* Sending on a closed channel panics, and the panic of the checker's goroutine,
\* which nobody recovers from, ends the process.  (gin would recover from that
\* of a handler, but see NoRequestLogsAfterClose: none comes here.)
SendOnClosed ==
    /\ closed
    /\ logged' = logged + 1
    /\ main' = "panicked"
    /\ UNCHANGED <<queue, accepted, closed>>

Log == Enqueue \/ Drop \/ SendOnClosed

-----------------------------------------------------------------------------
(* Request handlers.  A request may log any number of events. *)

RequestArrives(h) ==
    /\ main = "serving"
    /\ handler[h] = "idle"
    /\ handler' = [handler EXCEPT ![h] = "working"]
    /\ UNCHANGED <<main, queueVars, workerVars, checkerVars, events>>

HandlerLogs(h) ==
    /\ Alive
    /\ handler[h] = "working"
    /\ events < MaxEvents
    /\ events' = events + 1
    /\ Log
    /\ UNCHANGED <<workerVars, checkerVars, handler>>

HandlerReplies(h) ==
    /\ Alive
    /\ handler[h] = "working"
    /\ handler' = [handler EXCEPT ![h] = "idle"]
    /\ UNCHANGED <<main, queueVars, workerVars, checkerVars, events>>

-----------------------------------------------------------------------------
(* The goroutine of Checker.Start: a check at start and at each tick until *)
(* the context is cancelled.  When both are ready the select may take      *)
(* either, so a check may still begin after the cancellation.              *)

CheckerTick ==
    /\ Alive
    /\ checker = "waiting"
    /\ runs < MaxRuns
    /\ runs' = runs + 1
    /\ violations' = 0
    /\ \E next \in {"checking", "waiting"} : checker' = next  \* or lister fails
    /\ UNCHANGED <<main, queueVars, workerVars, handlerVars, cancelled>>

\* A baseline that differs; reading one fails once the context is cancelled.
CheckerFinds ==
    /\ Alive
    /\ checker = "checking"
    /\ ~cancelled
    /\ violations < MaxViolations
    /\ violations' = violations + 1
    /\ checker' = "violation"
    /\ UNCHANGED <<main, queueVars, workerVars, handlerVars, cancelled, runs>>

CheckerLogsViolation ==
    /\ Alive
    /\ checker = "violation"
    /\ checker' = "checking"
    /\ Log
    /\ UNCHANGED <<workerVars, handlerVars, cancelled, runs, violations>>

\* Every employee is seen: the summary is logged, cancelled or not.
CheckerLogsSummary ==
    /\ Alive
    /\ checker = "checking"
    /\ checker' = "waiting"
    /\ Log
    /\ UNCHANGED <<workerVars, handlerVars, cancelled, runs, violations>>

CheckerStops ==
    /\ Alive
    /\ checker = "waiting"
    /\ cancelled
    /\ checker' = "done"
    /\ UNCHANGED <<main, queueVars, workerVars, handlerVars, cancelled, runs,
                   violations>>

-----------------------------------------------------------------------------
(* AsyncLogger.drain: one goroutine empties the channel into the file and  *)
(* then the database (MultiLogger.Log); either write may fail alone.       *)

Receive ==
    /\ Alive
    /\ worker = "receive"
    /\ queue # <<>>
    /\ current' = Head(queue)
    /\ taken' = Append(taken, Head(queue))
    /\ queue' = Tail(queue)
    /\ worker' = "file"
    /\ UNCHANGED <<main, checkerVars, handlerVars, closed, logged, accepted,
                   file, db>>

\* Mutant: a failed write ends the goroutine.
WriteFileGivesUp ==
    /\ Alive
    /\ worker = "file"
    /\ \/ file' = Append(file, current) /\ worker' = "db"
       \/ "file" \in Failures /\ file' = file /\ worker' = "done"
    /\ UNCHANGED <<main, checkerVars, handlerVars, queueVars, current, db,
                   taken>>

WriteFile ==
    /\ Alive
    /\ worker = "file"
    /\ \/ file' = Append(file, current)
       \/ "file" \in Failures /\ file' = file
    /\ worker' = "db"
    /\ UNCHANGED <<main, checkerVars, handlerVars, queueVars, current, db,
                   taken>>

\* Mutant: an event the database refused goes back into the channel.
WriteDBRetries ==
    /\ Alive
    /\ worker = "db"
    /\ \/ db' = Append(db, current) /\ UNCHANGED queue
       \/ "db" \in Failures /\ db' = db /\ queue' = Append(queue, current)
    /\ worker' = "receive"
    /\ current' = 0
    /\ UNCHANGED <<main, checkerVars, handlerVars, closed, logged, accepted,
                   file, taken>>

WriteDB ==
    /\ Alive
    /\ worker = "db"
    /\ \/ db' = Append(db, current)
       \/ "db" \in Failures /\ db' = db
    /\ worker' = "receive"
    /\ current' = 0
    /\ UNCHANGED <<main, checkerVars, handlerVars, queueVars, file, taken>>

\* The range over the channel ends when it is closed and empty.
DrainEnds ==
    /\ Alive
    /\ worker = "receive"
    /\ closed /\ queue = <<>>
    /\ worker' = "done"
    /\ UNCHANGED <<main, checkerVars, handlerVars, queueVars, current, file,
                   db, taken>>

-----------------------------------------------------------------------------
(* main: a signal, the server's graceful shutdown, the deferred calls. *)

Signal ==
    /\ main = "serving"
    /\ main' = "shutdown"
    /\ UNCHANGED <<checkerVars, handlerVars, queueVars, workerVars>>

\* ListenAndServe fails while main waits for the signal: os.Exit(1).
ServerFails ==
    /\ "listen" \in Failures
    /\ main = "serving"
    /\ main' = "aborted"
    /\ UNCHANGED <<checkerVars, handlerVars, queueVars, workerVars>>

\* Mutant: the server is closed without waiting for its requests.
ShutdownReturnsAtOnce ==
    /\ main = "shutdown"
    /\ main' = "cancel"
    /\ UNCHANGED <<checkerVars, handlerVars, queueVars, workerVars>>

\* srv.Shutdown returns once no request is active.
ShutdownReturns ==
    /\ main = "shutdown"
    /\ \A h \in Handlers : handler[h] = "idle"
    /\ main' = "cancel"
    /\ UNCHANGED <<checkerVars, handlerVars, queueVars, workerVars>>

\* A request is still active after 15 s: os.Exit(1), no deferred call runs.
ShutdownTimesOut ==
    /\ "timeout" \in Failures
    /\ main = "shutdown"
    /\ \E h \in Handlers : handler[h] = "working"
    /\ main' = "aborted"
    /\ UNCHANGED <<checkerVars, handlerVars, queueVars, workerVars>>

\* integrityCancel: the checker is told, not waited for.
CancelChecker ==
    /\ main = "cancel"
    /\ cancelled' = TRUE
    /\ main' = "close"
    /\ UNCHANGED <<checker, runs, violations, handlerVars, queueVars,
                   workerVars>>

\* Mutant: Close waits for drain without closing the channel.
CloseChannelForgotten ==
    /\ main = "close"
    /\ main' = "wait"
    /\ UNCHANGED <<checkerVars, handlerVars, workerVars, queueVars>>

\* AsyncLogger.Close: close the channel, wait for drain, close the loggers.
CloseChannel ==
    /\ main = "close"
    /\ closed' = TRUE
    /\ main' = "wait"
    /\ UNCHANGED <<checkerVars, handlerVars, workerVars, queue, logged,
                   accepted>>

\* Mutant: Close does not wait for drain.
CloseReturnsAtOnce ==
    /\ main = "wait"
    /\ main' = "exited"
    /\ UNCHANGED <<checkerVars, handlerVars, queueVars, workerVars>>

CloseReturns ==
    /\ main = "wait"
    /\ worker = "done"
    /\ main' = "exited"
    /\ UNCHANGED <<checkerVars, handlerVars, queueVars, workerVars>>

\* The process is killed, or its machine fails.
Kill ==
    /\ "kill" \in Failures
    /\ Alive
    /\ main' = "killed"
    /\ UNCHANGED <<checkerVars, handlerVars, queueVars, workerVars>>

HandlerStep(h) == HandlerLogs(h) \/ HandlerReplies(h)
CheckerStep == CheckerTick \/ CheckerFinds \/ CheckerLogsViolation
                   \/ CheckerLogsSummary \/ CheckerStops
WorkerStep == Receive \/ WriteFile \/ WriteDB \/ DrainEnds
CloseStep  == ShutdownReturns \/ ShutdownTimesOut \/ CancelChecker
                  \/ CloseChannel \/ CloseReturns

Next ==
    \/ \E h \in Handlers : RequestArrives(h) \/ HandlerStep(h)
    \/ CheckerStep
    \/ WorkerStep
    \/ Signal \/ ServerFails \/ CloseStep
    \/ Kill

Spec == Init /\ [][Next]_vars

(***************************************************************************)
(* Fairness: main and the drain goroutine go on (a file or database write  *)
(* ends, well or badly), and a request in progress ends.  Nobody is        *)
(* obliged to send a request or a signal.                                  *)
(***************************************************************************)
FairSpec ==
    /\ Spec
    /\ WF_vars(CloseStep)
    /\ WF_vars(WorkerStep)
    /\ \A h \in Handlers : WF_vars(HandlerReplies(h))

-----------------------------------------------------------------------------
(* Properties *)

\* The channel loses, invents and reorders nothing: what went in is what
\* drain took out followed by what still waits.  (AsyncLogger)
NothingLostInChannel == accepted = taken \o queue

\* Both trails list events in the order in which they were logged, each once,
\* whatever writes failed in between.  (drain, MultiLogger.Log)
TrailsInOrder == Increasing(file) /\ Increasing(db)

\* By the time the channel is closed no request can log any more: the server
\* is shut down first.  (the order of main's deferred calls)
NoRequestLogsAfterClose ==
    closed => \A h \in Handlers : handler[h] = "idle"

\* "Call Close at application shutdown to drain the queue before exit."
\* (multi.go:52)  A process that exits by itself has handed every event it
\* accepted to both loggers.
DrainedAtExit ==
    main = "exited" => taken = accepted /\ worker = "done"

\* The same of every end the process comes to once it has called Close, a
\* crash from outside apart.
CloseDrains ==
    closed /\ main \in Ended \ {"killed"} => taken = accepted

\* Without the integrity checker nothing can come between: every end after
\* Close has drained the queue.
CloseDrainsWithoutChecker == checker = "off" => CloseDrains

\* Once told to stop the process ends: main cannot be left waiting for a
\* request, for drain or for the checker.
ShutdownEnds == main = "shutdown" ~> main \in Ended

\* As long as the process lives every accepted event is offered to the file and
\* to the database in the end.
AcceptedIsOffered ==
    \A n \in 1..(MaxEvents + MaxRuns * (MaxViolations + 1)) :
        (\E i \in 1..Len(accepted) : accepted[i] = n) ~>
            (~Alive \/ \E i \in 1..Len(taken) : taken[i] = n /\ current # n)

\* What the properties of shutdown rest on: requests are over before the
\* deferred calls begin, and drain ends only with a closed, empty channel.
ShutdownOrder ==
    /\ main \in {"serving", "shutdown", "cancel", "close", "aborted"} => ~closed
    /\ main \in {"cancel", "close", "wait", "exited"} \/ closed =>
          \A h \in Handlers : handler[h] = "idle"
    /\ worker = "done" => closed /\ queue = <<>>
    /\ main = "exited" => worker = "done"
    /\ checker = "off" => main # "panicked"

\* The channel is a FIFO of bounded length, in every phase of the shutdown.
ChannelInv ==
    TypeOK /\ NothingLostInChannel /\ Len(queue) <= BufSize /\ ShutdownOrder

\* What the order of the trails rests on: the events that wait are younger than
\* all that were written, and the one drain holds is between them.
AllBefore(s, n) == \A i \in 1..Len(s) : s[i] < n

EventsInOrder ==
    /\ TrailsInOrder /\ Increasing(queue)
    /\ \A s \in {file, db, queue} : AllBefore(s, logged + 1)
    /\ \A j \in 1..Len(queue) :
          AllBefore(file, queue[j]) /\ AllBefore(db, queue[j])
    /\ worker = "file" => AllBefore(file, current)
    /\ worker \in {"file", "db"} =>
          /\ AllBefore(db, current)
          /\ current <= logged
          /\ \A j \in 1..Len(queue) : current < queue[j]

\* All of it together, the inductive invariant.  (AsyncLogger, main)
PipelineInv == ChannelInv /\ EventsInOrder

\* The pipeline is the queue its callers may rely on.
Channel == INSTANCE AuditChannel WITH
    Event <- Nat, Capacity <- BufSize, delivered <- taken, sealed <- closed

ImplementsChannel == Channel!Spec
=============================================================================
