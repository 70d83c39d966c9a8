------------------------ MODULE AuditPipelineProofs ------------------------
(***************************************************************************)
(* What TLAPS proves of AuditPipeline for any number of handlers, any      *)
(* buffer size and any failures: its channel loses and reorders nothing,   *)
(* it is an AuditChannel, both trails are in the order of the calls,       *)
(* requests are over before the channel is closed, and a process that      *)
(* exits has drained it.                                                   *)
(***************************************************************************)
EXTENDS AuditPipeline, SequenceTheorems, TLAPS

USE BoundsAssumption
USE DEF Ended, MainLabels, CheckerLabels, Alive,
        queueVars, workerVars, checkerVars, handlerVars

-----------------------------------------------------------------------------
(* The channel as a sequence. *)

LEMMA AppendBehind ==
  ASSUME NEW s \in Seq(Nat), NEW t \in Seq(Nat), NEW x \in Nat
  PROVE  Append(s \o t, x) = s \o Append(t, x)
  <1>1. s \o t \in Seq(Nat) /\ <<x>> \in Seq(Nat)
    BY ConcatProperties
  <1>2. Append(s \o t, x) = (s \o t) \o <<x>> /\ Append(t, x) = t \o <<x>>
    BY <1>1, AppendIsConcat
  <1>3. ASSUME NEW u \in Seq(Nat) PROVE (s \o t) \o u = s \o (t \o u)
    BY ConcatAssociative, SMTT(30)
  <1> QED
    BY <1>1, <1>2, <1>3

\* Moving the head of t to the end of s leaves their concatenation as it is:
\* what Receive does to taken and queue.
LEMMA HeadMoves ==
  ASSUME NEW s \in Seq(Nat), NEW t \in Seq(Nat), t # <<>>
  PROVE  /\ s \o t = Append(s, Head(t)) \o Tail(t)
         /\ Head(t) \in Nat /\ Tail(t) \in Seq(Nat)
         /\ Len(Tail(t)) = Len(t) - 1 /\ Len(t) > 0
         /\ Len(s \o t) = Len(s) + Len(t)
         /\ (s \o t)[Len(s) + 1] = Head(t)
  <1>1. Head(t) \in Nat /\ Tail(t) \in Seq(Nat) /\ Len(Tail(t)) = Len(t) - 1
    BY HeadTailProperties
  <1>2. Len(t) \in Nat /\ Len(t) > 0 /\ Len(s) \in Nat
    BY EmptySeq
  <1>3. Len(s \o t) = Len(s) + Len(t) /\ (s \o t)[Len(s) + 1] = t[1]
    BY <1>2, ConcatProperties
  <1>4. <<Head(t)>> \in Seq(Nat) /\ t = <<Head(t)>> \o Tail(t)
    <2>1. <<Head(t)>> \in Seq(Nat) /\ Len(<<Head(t)>>) = 1
      BY <1>1
    <2>2. /\ <<Head(t)>> \o Tail(t) \in Seq(Nat)
          /\ Len(<<Head(t)>> \o Tail(t)) = Len(t)
          /\ \A i \in 1..Len(t) : (<<Head(t)>> \o Tail(t))[i] =
                IF i <= 1 THEN <<Head(t)>>[i] ELSE Tail(t)[i - 1]
      BY <1>1, <1>2, <2>1, ConcatProperties
    <2>3. \A i \in 1..Len(Tail(t)) : Tail(t)[i] = t[i + 1]
      BY HeadTailProperties
    <2>4. \A i \in 1..Len(t) : (<<Head(t)>> \o Tail(t))[i] = t[i]
      BY <1>1, <1>2, <2>2, <2>3
    <2> QED
      BY <2>1, <2>2, <2>4, SeqEqual
  <1>5. Append(s, Head(t)) = s \o <<Head(t)>>
    BY <1>1, AppendIsConcat
  <1>6. s \o t = Append(s, Head(t)) \o Tail(t)
    <2>1. (s \o <<Head(t)>>) \o Tail(t) = s \o (<<Head(t)>> \o Tail(t))
      BY <1>1, <1>4, ConcatAssociative
    <2> QED
      BY <1>4, <1>5, <2>1
  <1> QED
    BY <1>1, <1>2, <1>3, <1>6

-----------------------------------------------------------------------------
(* The channel and the shutdown. *)

LEMMA ChannelInvInit == Init => ChannelInv
  <1> SUFFICES ASSUME Init PROVE ChannelInv
    OBVIOUS
  <1>1. TypeOK
    BY EmptySeq DEF Init, TypeOK
  <1>2. NothingLostInChannel /\ Len(queue) <= BufSize
    BY DEF Init, NothingLostInChannel
  <1>3. ShutdownOrder
    BY DEF Init, ShutdownOrder
  <1> QED
    BY <1>1, <1>2, <1>3 DEF ChannelInv

\* A call of Log keeps the channel whole, whatever becomes of the event.
LEMMA LogKeepsChannel ==
  ASSUME TypeOK, NothingLostInChannel, Len(queue) <= BufSize, Log,
         UNCHANGED taken
  PROVE  /\ NothingLostInChannel' /\ Len(queue') <= BufSize
         /\ queue' \in Seq(Nat) /\ accepted' \in Seq(Nat)
         /\ logged' \in Nat /\ closed' = closed
         /\ closed => queue' = queue
         /\ main' = main \/ (closed /\ main' = "panicked")
  <1>1. CASE Enqueue
    <2>1. /\ queue \in Seq(Nat) /\ taken \in Seq(Nat) /\ accepted \in Seq(Nat)
          /\ logged + 1 \in Nat /\ accepted = taken \o queue
      BY DEF TypeOK, NothingLostInChannel
    <2>2. /\ queue' = Append(queue, logged + 1) /\ logged' = logged + 1
          /\ accepted' = Append(accepted, logged + 1)
          /\ ~closed /\ Len(queue) < BufSize /\ closed' = closed
          /\ main' = main
      BY <1>1 DEF Enqueue
    <2>3. queue' \in Seq(Nat) /\ Len(queue') = Len(queue) + 1
      BY <2>1, <2>2, AppendProperties
    <2>4. accepted' \in Seq(Nat)
      BY <2>1, <2>2, AppendProperties
    <2>5. accepted' = taken \o queue'
      BY <2>1, <2>2, AppendBehind
    <2>6. Len(queue) \in Nat /\ Len(queue') <= BufSize
      BY <2>1, <2>2, <2>3
    <2>7. NothingLostInChannel'
      BY <2>5 DEF NothingLostInChannel
    <2> QED
      BY <2>1, <2>2, <2>3, <2>4, <2>6, <2>7
  <1>2. CASE UNCHANGED <<queue, accepted, closed>>
    <2>1. NothingLostInChannel' /\ queue' = queue /\ accepted' = accepted
      BY <1>2 DEF NothingLostInChannel
    <2>2. closed' = closed
      BY <1>2
    <2>3. logged' = logged + 1 /\ (main' = main \/ (closed /\ main' = "panicked"))
      BY <1>2 DEF Log, Enqueue, Drop, SendOnClosed
    <2>4. queue \in Seq(Nat) /\ accepted \in Seq(Nat) /\ logged + 1 \in Nat
      BY DEF TypeOK
    <2> QED
      BY <2>1, <2>2, <2>3, <2>4
  <1> QED
    BY <1>1, <1>2 DEF Log, Drop, SendOnClosed

\* Receive hands the oldest event on.
LEMMA ReceiveKeepsChannel ==
  ASSUME TypeOK, NothingLostInChannel, Len(queue) <= BufSize, Receive
  PROVE  /\ NothingLostInChannel' /\ Len(queue') <= BufSize
         /\ queue' \in Seq(Nat) /\ taken' \in Seq(Nat) /\ current' \in Nat
         /\ taken' = Append(taken, accepted[Len(taken) + 1])
         /\ Len(taken) < Len(accepted)
  <1>1. /\ queue \in Seq(Nat) /\ taken \in Seq(Nat) /\ queue # <<>>
        /\ accepted = taken \o queue
    BY DEF TypeOK, NothingLostInChannel, Receive
  <1>2. /\ accepted = Append(taken, Head(queue)) \o Tail(queue)
        /\ Head(queue) \in Nat /\ Tail(queue) \in Seq(Nat)
        /\ Len(Tail(queue)) = Len(queue) - 1 /\ Len(queue) > 0
        /\ Len(accepted) = Len(taken) + Len(queue)
        /\ accepted[Len(taken) + 1] = Head(queue)
    BY <1>1, HeadMoves
  <1>3. Append(taken, Head(queue)) \in Seq(Nat)
    BY <1>1, <1>2, AppendProperties
  <1>4. Len(taken) \in Nat /\ Len(queue) \in Nat
    BY <1>1
  <1>5. /\ queue' = Tail(queue) /\ taken' = Append(taken, Head(queue))
        /\ current' = Head(queue) /\ accepted' = accepted
    BY DEF Receive
  <1> QED
    BY <1>1, <1>2, <1>3, <1>4, <1>5 DEF NothingLostInChannel

\* Every step keeps ChannelInv: the calls of Log by LogKeepsChannel, drain's
\* receive by ReceiveKeepsChannel, the rest from what they leave alone.
LEMMA ChannelInvNext == ChannelInv /\ [Next]_vars => ChannelInv'
  <1> SUFFICES ASSUME ChannelInv, [Next]_vars PROVE ChannelInv'
    OBVIOUS
  <1>0. TypeOK /\ NothingLostInChannel /\ Len(queue) <= BufSize /\ ShutdownOrder
    BY DEF ChannelInv
  <1>1. ASSUME NEW h \in Handlers, RequestArrives(h) PROVE ChannelInv'
    <2>1. TypeOK'
      BY <1>0, <1>1 DEF RequestArrives, TypeOK
    <2>2. ShutdownOrder'
      BY <1>0, <1>1 DEF RequestArrives, TypeOK, ShutdownOrder
    <2>3. NothingLostInChannel' /\ Len(queue') <= BufSize
      BY <1>0, <1>1 DEF RequestArrives, NothingLostInChannel
    <2> QED
      BY <2>1, <2>2, <2>3 DEF ChannelInv
  <1>2. ASSUME NEW h \in Handlers, HandlerLogs(h) PROVE ChannelInv'
    <2>1. Log /\ UNCHANGED taken
      BY <1>2 DEF HandlerLogs
    <2>2. /\ NothingLostInChannel' /\ Len(queue') <= BufSize
          /\ queue' \in Seq(Nat) /\ accepted' \in Seq(Nat)
          /\ logged' \in Nat /\ closed' = closed
          /\ closed => queue' = queue
          /\ main' = main \/ (closed /\ main' = "panicked")
      BY <1>0, <2>1, LogKeepsChannel
    <2>3. TypeOK'
      BY <1>0, <1>2, <2>2 DEF HandlerLogs, TypeOK
    <2>4. ShutdownOrder'
      BY <1>0, <1>2, <2>2 DEF HandlerLogs, TypeOK, ShutdownOrder
    <2> QED
      BY <2>2, <2>3, <2>4 DEF ChannelInv
  <1>3. ASSUME NEW h \in Handlers, HandlerReplies(h) PROVE ChannelInv'
    <2>1. TypeOK'
      BY <1>0, <1>3 DEF HandlerReplies, TypeOK
    <2>2. ShutdownOrder'
      BY <1>0, <1>3 DEF HandlerReplies, TypeOK, ShutdownOrder
    <2>3. NothingLostInChannel' /\ Len(queue') <= BufSize
      BY <1>0, <1>3 DEF HandlerReplies, NothingLostInChannel
    <2> QED
      BY <2>1, <2>2, <2>3 DEF ChannelInv
  <1>4. ASSUME CheckerTick PROVE ChannelInv'
    <2>1. TypeOK'
      BY <1>0, <1>4 DEF CheckerTick, TypeOK
    <2>2. ShutdownOrder'
      BY <1>0, <1>4 DEF CheckerTick, TypeOK, ShutdownOrder
    <2>3. NothingLostInChannel' /\ Len(queue') <= BufSize
      BY <1>0, <1>4 DEF CheckerTick, NothingLostInChannel
    <2> QED
      BY <2>1, <2>2, <2>3 DEF ChannelInv
  <1>5. ASSUME CheckerFinds PROVE ChannelInv'
    <2>1. TypeOK'
      BY <1>0, <1>5 DEF CheckerFinds, TypeOK
    <2>2. ShutdownOrder'
      BY <1>0, <1>5 DEF CheckerFinds, TypeOK, ShutdownOrder
    <2>3. NothingLostInChannel' /\ Len(queue') <= BufSize
      BY <1>0, <1>5 DEF CheckerFinds, NothingLostInChannel
    <2> QED
      BY <2>1, <2>2, <2>3 DEF ChannelInv
  <1>6. ASSUME CheckerLogsViolation PROVE ChannelInv'
    <2>1. Log /\ UNCHANGED taken
      BY <1>6 DEF CheckerLogsViolation
    <2>2. /\ NothingLostInChannel' /\ Len(queue') <= BufSize
          /\ queue' \in Seq(Nat) /\ accepted' \in Seq(Nat)
          /\ logged' \in Nat /\ closed' = closed
          /\ closed => queue' = queue
          /\ main' = main \/ (closed /\ main' = "panicked")
      BY <1>0, <2>1, LogKeepsChannel
    <2>3. TypeOK'
      BY <1>0, <1>6, <2>2 DEF CheckerLogsViolation, TypeOK
    <2>4. ShutdownOrder'
      BY <1>0, <1>6, <2>2 DEF CheckerLogsViolation, TypeOK, ShutdownOrder
    <2> QED
      BY <2>2, <2>3, <2>4 DEF ChannelInv
  <1>7. ASSUME CheckerLogsSummary PROVE ChannelInv'
    <2>1. Log /\ UNCHANGED taken
      BY <1>7 DEF CheckerLogsSummary
    <2>2. /\ NothingLostInChannel' /\ Len(queue') <= BufSize
          /\ queue' \in Seq(Nat) /\ accepted' \in Seq(Nat)
          /\ logged' \in Nat /\ closed' = closed
          /\ closed => queue' = queue
          /\ main' = main \/ (closed /\ main' = "panicked")
      BY <1>0, <2>1, LogKeepsChannel
    <2>3. TypeOK'
      BY <1>0, <1>7, <2>2 DEF CheckerLogsSummary, TypeOK
    <2>4. ShutdownOrder'
      BY <1>0, <1>7, <2>2 DEF CheckerLogsSummary, TypeOK, ShutdownOrder
    <2> QED
      BY <2>2, <2>3, <2>4 DEF ChannelInv
  <1>8. ASSUME CheckerStops PROVE ChannelInv'
    <2>1. TypeOK'
      BY <1>0, <1>8 DEF CheckerStops, TypeOK
    <2>2. ShutdownOrder'
      BY <1>0, <1>8 DEF CheckerStops, TypeOK, ShutdownOrder
    <2>3. NothingLostInChannel' /\ Len(queue') <= BufSize
      BY <1>0, <1>8 DEF CheckerStops, NothingLostInChannel
    <2> QED
      BY <2>1, <2>2, <2>3 DEF ChannelInv
  <1>9. ASSUME Receive PROVE ChannelInv'
    <2>1. /\ NothingLostInChannel' /\ Len(queue') <= BufSize
          /\ queue' \in Seq(Nat) /\ taken' \in Seq(Nat) /\ current' \in Nat
      BY <1>0, <1>9, ReceiveKeepsChannel
    <2>2. TypeOK' /\ ShutdownOrder'
      BY <1>0, <1>9, <2>1 DEF Receive, TypeOK, ShutdownOrder
    <2> QED
      BY <2>1, <2>2 DEF ChannelInv
  <1>10. ASSUME WriteFile PROVE ChannelInv'
    <2>1. TypeOK'
      <3>1. current \in Nat /\ file \in Seq(Nat)
        BY <1>0 DEF TypeOK
      <3>2. file' = Append(file, current) \/ file' = file
        BY <1>10 DEF WriteFile
      <3>3. file' \in Seq(Nat)
        BY <3>1, <3>2, AppendProperties
      <3> QED
        BY <1>0, <1>10, <3>3 DEF WriteFile, TypeOK
    <2>2. ShutdownOrder'
      BY <1>0, <1>10 DEF WriteFile, TypeOK, ShutdownOrder
    <2>3. NothingLostInChannel' /\ Len(queue') <= BufSize
      BY <1>0, <1>10 DEF WriteFile, NothingLostInChannel
    <2> QED
      BY <2>1, <2>2, <2>3 DEF ChannelInv
  <1>11. ASSUME WriteDB PROVE ChannelInv'
    <2>1. TypeOK'
      <3>1. current \in Nat /\ db \in Seq(Nat)
        BY <1>0 DEF TypeOK
      <3>2. db' = Append(db, current) \/ db' = db
        BY <1>11 DEF WriteDB
      <3>3. db' \in Seq(Nat)
        BY <3>1, <3>2, AppendProperties
      <3> QED
        BY <1>0, <1>11, <3>3 DEF WriteDB, TypeOK
    <2>2. ShutdownOrder'
      BY <1>0, <1>11 DEF WriteDB, TypeOK, ShutdownOrder
    <2>3. NothingLostInChannel' /\ Len(queue') <= BufSize
      BY <1>0, <1>11 DEF WriteDB, NothingLostInChannel
    <2> QED
      BY <2>1, <2>2, <2>3 DEF ChannelInv
  <1>12. ASSUME DrainEnds PROVE ChannelInv'
    <2>1. TypeOK'
      BY <1>0, <1>12 DEF DrainEnds, TypeOK
    <2>2. ShutdownOrder'
      BY <1>0, <1>12 DEF DrainEnds, TypeOK, ShutdownOrder
    <2>3. NothingLostInChannel' /\ Len(queue') <= BufSize
      BY <1>0, <1>12 DEF DrainEnds, NothingLostInChannel
    <2> QED
      BY <2>1, <2>2, <2>3 DEF ChannelInv
  <1>13. ASSUME Signal PROVE ChannelInv'
    <2>1. TypeOK'
      BY <1>0, <1>13 DEF Signal, TypeOK
    <2>2. ShutdownOrder'
      BY <1>0, <1>13 DEF Signal, TypeOK, ShutdownOrder
    <2>3. NothingLostInChannel' /\ Len(queue') <= BufSize
      BY <1>0, <1>13 DEF Signal, NothingLostInChannel
    <2> QED
      BY <2>1, <2>2, <2>3 DEF ChannelInv
  <1>14. ASSUME ShutdownReturns PROVE ChannelInv'
    <2>1. TypeOK'
      BY <1>0, <1>14 DEF ShutdownReturns, TypeOK
    <2>2. ShutdownOrder'
      BY <1>0, <1>14 DEF ShutdownReturns, TypeOK, ShutdownOrder
    <2>3. NothingLostInChannel' /\ Len(queue') <= BufSize
      BY <1>0, <1>14 DEF ShutdownReturns, NothingLostInChannel
    <2> QED
      BY <2>1, <2>2, <2>3 DEF ChannelInv
  <1>15. ASSUME ShutdownTimesOut PROVE ChannelInv'
    <2>1. TypeOK'
      BY <1>0, <1>15 DEF ShutdownTimesOut, TypeOK
    <2>2. ShutdownOrder'
      BY <1>0, <1>15 DEF ShutdownTimesOut, TypeOK, ShutdownOrder
    <2>3. NothingLostInChannel' /\ Len(queue') <= BufSize
      BY <1>0, <1>15 DEF ShutdownTimesOut, NothingLostInChannel
    <2> QED
      BY <2>1, <2>2, <2>3 DEF ChannelInv
  <1>16. ASSUME CancelChecker PROVE ChannelInv'
    <2>1. TypeOK'
      BY <1>0, <1>16 DEF CancelChecker, TypeOK
    <2>2. ShutdownOrder'
      BY <1>0, <1>16 DEF CancelChecker, TypeOK, ShutdownOrder
    <2>3. NothingLostInChannel' /\ Len(queue') <= BufSize
      BY <1>0, <1>16 DEF CancelChecker, NothingLostInChannel
    <2> QED
      BY <2>1, <2>2, <2>3 DEF ChannelInv
  <1>17. ASSUME CloseChannel PROVE ChannelInv'
    <2>1. TypeOK'
      BY <1>0, <1>17 DEF CloseChannel, TypeOK
    <2>2. ShutdownOrder'
      BY <1>0, <1>17 DEF CloseChannel, TypeOK, ShutdownOrder
    <2>3. NothingLostInChannel' /\ Len(queue') <= BufSize
      BY <1>0, <1>17 DEF CloseChannel, NothingLostInChannel
    <2> QED
      BY <2>1, <2>2, <2>3 DEF ChannelInv
  <1>18. ASSUME CloseReturns PROVE ChannelInv'
    <2>1. TypeOK'
      BY <1>0, <1>18 DEF CloseReturns, TypeOK
    <2>2. ShutdownOrder'
      BY <1>0, <1>18 DEF CloseReturns, TypeOK, ShutdownOrder
    <2>3. NothingLostInChannel' /\ Len(queue') <= BufSize
      BY <1>0, <1>18 DEF CloseReturns, NothingLostInChannel
    <2> QED
      BY <2>1, <2>2, <2>3 DEF ChannelInv
  <1>19. ASSUME Kill PROVE ChannelInv'
    <2>1. TypeOK'
      BY <1>0, <1>19 DEF Kill, TypeOK
    <2>2. ShutdownOrder'
      BY <1>0, <1>19 DEF Kill, TypeOK, ShutdownOrder
    <2>3. NothingLostInChannel' /\ Len(queue') <= BufSize
      BY <1>0, <1>19 DEF Kill, NothingLostInChannel
    <2> QED
      BY <2>1, <2>2, <2>3 DEF ChannelInv
  <1>20. ASSUME ServerFails PROVE ChannelInv'
    <2>1. TypeOK'
      BY <1>0, <1>20 DEF ServerFails, TypeOK
    <2>2. ShutdownOrder'
      BY <1>0, <1>20 DEF ServerFails, TypeOK, ShutdownOrder
    <2>3. NothingLostInChannel' /\ Len(queue') <= BufSize
      BY <1>0, <1>20 DEF ServerFails, NothingLostInChannel
    <2> QED
      BY <2>1, <2>2, <2>3 DEF ChannelInv
  <1>21. CASE UNCHANGED vars
    BY <1>0, <1>21 DEF vars, ChannelInv, TypeOK, NothingLostInChannel,
        ShutdownOrder
  <1> QED
    BY <1>1, <1>2, <1>3, <1>4, <1>5, <1>6, <1>7, <1>8, <1>9, <1>10, <1>11,
       <1>12, <1>13, <1>14, <1>15, <1>16, <1>17, <1>18, <1>19, <1>20, <1>21
    DEF Next, HandlerStep, CheckerStep, WorkerStep, CloseStep

-----------------------------------------------------------------------------
(* The order of the events. *)

\* A younger event at the end keeps a sequence in order.
LEMMA AppendYounger ==
  ASSUME NEW s \in Seq(Nat), NEW n \in Nat, Increasing(s), AllBefore(s, n)
  PROVE  /\ Append(s, n) \in Seq(Nat) /\ Increasing(Append(s, n))
         /\ \A m \in Nat : AllBefore(s, m) /\ n < m => AllBefore(Append(s, n), m)
  <1>1. /\ Append(s, n) \in Seq(Nat) /\ Len(Append(s, n)) = Len(s) + 1
        /\ Len(s) \in Nat
        /\ \A i \in 1..(Len(s) + 1) : Append(s, n)[i] =
              IF i = Len(s) + 1 THEN n ELSE s[i]
    BY AppendProperties
  <1>2. \A i \in 1..(Len(s) + 1) : i # Len(s) + 1 => i \in 1..Len(s)
    BY <1>1
  <1>3. ASSUME NEW i \in 1..(Len(s) + 1), NEW j \in 1..(Len(s) + 1), i < j
        PROVE  Append(s, n)[i] < Append(s, n)[j]
    <2>1. i \in 1..Len(s) /\ Append(s, n)[i] = s[i]
      BY <1>1, <1>3
    <2>2. CASE j = Len(s) + 1
      BY <1>1, <2>1, <2>2 DEF AllBefore
    <2>3. CASE j # Len(s) + 1
      BY <1>1, <1>2, <1>3, <2>1, <2>3 DEF Increasing
    <2> QED
      BY <2>2, <2>3
  <1> QED
    BY <1>1, <1>2, <1>3 DEF Increasing, AllBefore

\* A bound may be raised.
LEMMA AllBeforeMore ==
  ASSUME NEW s \in Seq(Nat), NEW m \in Nat, NEW n \in Nat, m <= n, AllBefore(s, m)
  PROVE  AllBefore(s, n)
  <1>1. \A i \in 1..Len(s) : s[i] \in Nat
    OBVIOUS
  <1> QED
    BY <1>1 DEF AllBefore

\* The oldest event of a queue in order is older than the others.
LEMMA HeadIsOldest ==
  ASSUME NEW s \in Seq(Nat), s # <<>>, Increasing(s)
  PROVE  /\ Head(s) = s[1] /\ 1 \in 1..Len(s) /\ Tail(s) \in Seq(Nat)
         /\ Increasing(Tail(s))
         /\ \A j \in 1..Len(Tail(s)) :
               j + 1 \in 1..Len(s) /\ Tail(s)[j] = s[j + 1] /\ Head(s) < Tail(s)[j]
  <1>1. /\ Len(s) \in Nat /\ Len(s) > 0 /\ Head(s) = s[1] /\ Tail(s) \in Seq(Nat)
        /\ Len(Tail(s)) = Len(s) - 1
        /\ \A j \in 1..Len(Tail(s)) : Tail(s)[j] = s[j + 1]
    BY EmptySeq, HeadTailProperties
  <1>2. \A j \in 1..Len(Tail(s)) : j + 1 \in 1..Len(s) /\ 1 < j + 1
    BY <1>1
  <1>3. 1 \in 1..Len(s)
    BY <1>1
  <1>4. Increasing(Tail(s))
    <2> SUFFICES ASSUME NEW i \in 1..Len(Tail(s)), NEW j \in 1..Len(Tail(s)), i < j
                 PROVE  Tail(s)[i] < Tail(s)[j]
      BY DEF Increasing
    <2>1. i + 1 < j + 1
      OBVIOUS
    <2> QED
      BY <1>1, <1>2, <2>1 DEF Increasing
  <1> QED
    BY <1>1, <1>2, <1>3, <1>4 DEF Increasing

\* An event that goes into the channel is the youngest.
LEMMA LogKeepsOrder ==
  ASSUME TypeOK, EventsInOrder, Log, UNCHANGED workerVars
  PROVE  EventsInOrder'
  <1> DEFINE n == logged + 1
  <1>1. /\ queue \in Seq(Nat) /\ file \in Seq(Nat) /\ db \in Seq(Nat)
        /\ n \in Nat /\ n + 1 \in Nat /\ n <= n + 1 /\ current \in Nat /\ logged \in Nat
        /\ logged' = n
    BY DEF TypeOK, Log, Enqueue, Drop, SendOnClosed
  <1>2. \A s \in {file, db, queue} : AllBefore(s, n) /\ AllBefore(s, n + 1)
    BY <1>1, AllBeforeMore DEF EventsInOrder
  <1>3. worker \in {"file", "db"} => current < n /\ current <= n
    BY <1>1 DEF EventsInOrder
  <1>4. CASE Enqueue
    <2>1. /\ queue' = Append(queue, n) /\ Increasing(queue) /\ AllBefore(queue, n)
          /\ n < n + 1
      BY <1>1, <1>2, <1>4 DEF Enqueue, EventsInOrder
    <2>2. Increasing(queue') /\ AllBefore(queue', n + 1)
      BY <1>1, <1>2, <2>1, AppendYounger
    <2>3. \A j \in 1..Len(queue') : queue'[j] = n \/ \E k \in 1..Len(queue) : queue'[j] = queue[k]
      <3>1. /\ Len(queue') = Len(queue) + 1 /\ Len(queue) \in Nat
            /\ \A j \in 1..(Len(queue) + 1) : queue'[j] =
                  IF j = Len(queue) + 1 THEN n ELSE queue[j]
        BY <1>1, <2>1, AppendProperties
      <3>2. \A j \in 1..(Len(queue) + 1) : j # Len(queue) + 1 => j \in 1..Len(queue)
        BY <3>1
      <3> QED
        BY <3>1, <3>2
    <2> HIDE DEF n
    <2>4. \A j \in 1..Len(queue') : AllBefore(file, queue'[j]) /\ AllBefore(db, queue'[j])
      BY <1>2, <2>3 DEF EventsInOrder
    <2>5. worker \in {"file", "db"} => \A j \in 1..Len(queue') : current < queue'[j]
      BY <1>3, <2>3 DEF EventsInOrder
    <2> QED
      BY <1>1, <1>2, <1>3, <2>2, <2>4, <2>5
      DEF EventsInOrder, TrailsInOrder, AllBefore, Increasing
  <1>5. CASE queue' = queue
    <2> HIDE DEF n
    <2> QED
      BY <1>1, <1>2, <1>3, <1>5
      DEF EventsInOrder, TrailsInOrder, AllBefore, Increasing
  <1> QED
    BY <1>4, <1>5 DEF Log, Drop, SendOnClosed

\* drain takes the oldest event that waits.
LEMMA ReceiveKeepsOrder ==
  ASSUME TypeOK, EventsInOrder, Receive PROVE EventsInOrder'
  <1>1. /\ queue \in Seq(Nat) /\ queue # <<>> /\ Increasing(queue)
        /\ UNCHANGED <<file, db, logged>> /\ worker' = "file"
        /\ current' = Head(queue) /\ queue' = Tail(queue)
        /\ logged \in Nat
    BY DEF TypeOK, EventsInOrder, Receive
  <1>2. /\ Head(queue) = queue[1] /\ 1 \in 1..Len(queue)
        /\ Increasing(Tail(queue))
        /\ \A j \in 1..Len(Tail(queue)) :
              /\ j + 1 \in 1..Len(queue) /\ Tail(queue)[j] = queue[j + 1]
              /\ Head(queue) < Tail(queue)[j]
    BY <1>1, HeadIsOldest
  <1>3. AllBefore(file, queue[1]) /\ AllBefore(db, queue[1]) /\ queue[1] < logged + 1
    BY <1>2 DEF EventsInOrder, AllBefore
  <1>4. queue[1] <= logged
    BY <1>1, <1>2, <1>3
  <1>5. AllBefore(queue', logged + 1)
    BY <1>1, <1>2 DEF EventsInOrder, AllBefore
  <1>6. \A j \in 1..Len(queue') : AllBefore(file, queue'[j]) /\ AllBefore(db, queue'[j])
    BY <1>1, <1>2 DEF EventsInOrder
  <1> QED
    BY <1>1, <1>2, <1>3, <1>4, <1>5, <1>6
    DEF EventsInOrder, TrailsInOrder, AllBefore, Increasing

\* A write that fails leaves a gap, no disorder.
LEMMA WriteFileKeepsOrder ==
  ASSUME TypeOK, EventsInOrder, WriteFile PROVE EventsInOrder'
  <1>1. /\ file \in Seq(Nat) /\ current \in Nat /\ logged \in Nat /\ queue \in Seq(Nat)
        /\ UNCHANGED <<db, queue, current, logged>>
        /\ worker = "file" /\ worker' = "db"
        /\ file' = Append(file, current) \/ file' = file
    BY DEF TypeOK, WriteFile
  <1>2. /\ Increasing(file) /\ AllBefore(file, current)
        /\ current <= logged /\ \A j \in 1..Len(queue) : current < queue[j]
    BY <1>1 DEF EventsInOrder, TrailsInOrder
  <1>3. current < logged + 1 /\ logged + 1 \in Nat /\ \A j \in 1..Len(queue) : queue[j] \in Nat
    BY <1>1, <1>2
  <1>4. /\ Increasing(file') /\ AllBefore(file', logged + 1)
        /\ \A j \in 1..Len(queue) : AllBefore(file', queue[j])
    BY <1>1, <1>2, <1>3, AppendYounger DEF EventsInOrder
  <1> QED
    BY <1>1, <1>4 DEF EventsInOrder, TrailsInOrder, AllBefore, Increasing

\* Nor does one to the database.
LEMMA WriteDBKeepsOrder ==
  ASSUME TypeOK, EventsInOrder, WriteDB PROVE EventsInOrder'
  <1>1. /\ db \in Seq(Nat) /\ current \in Nat /\ logged \in Nat /\ queue \in Seq(Nat)
        /\ UNCHANGED <<file, queue, logged>>
        /\ worker = "db" /\ worker' = "receive"
        /\ db' = Append(db, current) \/ db' = db
    BY DEF TypeOK, WriteDB
  <1>2. /\ Increasing(db) /\ AllBefore(db, current)
        /\ current <= logged /\ \A j \in 1..Len(queue) : current < queue[j]
    BY <1>1 DEF EventsInOrder, TrailsInOrder
  <1>3. current < logged + 1 /\ logged + 1 \in Nat /\ \A j \in 1..Len(queue) : queue[j] \in Nat
    BY <1>1, <1>2
  <1>4. /\ Increasing(db') /\ AllBefore(db', logged + 1)
        /\ \A j \in 1..Len(queue) : AllBefore(db', queue[j])
    BY <1>1, <1>2, <1>3, AppendYounger DEF EventsInOrder
  <1> QED
    BY <1>1, <1>4 DEF EventsInOrder, TrailsInOrder, AllBefore, Increasing

\* Every step keeps the events in order.
LEMMA EventsInOrderNext ==
  TypeOK /\ EventsInOrder /\ [Next]_vars => EventsInOrder'
  <1> SUFFICES ASSUME TypeOK, EventsInOrder, [Next]_vars PROVE EventsInOrder'
    OBVIOUS
  <1>1. ASSUME UNCHANGED <<queue, file, db, logged, current>>,
               worker' \in {"receive", "done"} \/ worker' = worker
        PROVE  EventsInOrder'
    BY <1>1 DEF EventsInOrder, TrailsInOrder, AllBefore, Increasing
  <1>2. ASSUME NEW h \in Handlers, RequestArrives(h) \/ HandlerStep(h)
        PROVE  EventsInOrder'
    BY <1>1, <1>2, LogKeepsOrder
    DEF RequestArrives, HandlerStep, HandlerLogs, HandlerReplies
  <1>3. ASSUME CheckerStep PROVE EventsInOrder'
    BY <1>1, <1>3, LogKeepsOrder
    DEF CheckerStep, CheckerTick, CheckerFinds, CheckerLogsViolation,
        CheckerLogsSummary, CheckerStops
  <1>4. ASSUME WorkerStep PROVE EventsInOrder'
    BY <1>1, <1>4, ReceiveKeepsOrder, WriteFileKeepsOrder, WriteDBKeepsOrder
    DEF WorkerStep, DrainEnds
  <1>5. ASSUME Signal \/ ServerFails \/ CloseStep \/ Kill PROVE EventsInOrder'
    BY <1>1, <1>5
    DEF Signal, ServerFails, CloseStep, Kill, ShutdownReturns, ShutdownTimesOut,
        CancelChecker, CloseChannel, CloseReturns
  <1>6. CASE UNCHANGED vars
    BY <1>1, <1>6 DEF vars
  <1> QED
    BY <1>2, <1>3, <1>4, <1>5, <1>6 DEF Next

-----------------------------------------------------------------------------
(* Both together. *)

\* The inductive invariant holds at first.
LEMMA PipelineInvInit == Init => PipelineInv
  <1>1. Init => EventsInOrder
    BY DEF Init, EventsInOrder, TrailsInOrder, Increasing, AllBefore
  <1> QED
    BY <1>1, ChannelInvInit DEF PipelineInv

\* Every step keeps it.
LEMMA PipelineInvNext == PipelineInv /\ [Next]_vars => PipelineInv'
  BY ChannelInvNext, EventsInOrderNext DEF PipelineInv, ChannelInv

\* The inductive invariant holds throughout: types, the channel as a FIFO of at
\* most BufSize events, the order of the shutdown and that of the events.
THEOREM PipelineInvariant == Spec => []PipelineInv
  BY PipelineInvInit, PipelineInvNext, PTL DEF Spec

-----------------------------------------------------------------------------
(* What follows from it. *)

\* Of what went into the channel nothing is lost, doubled or reordered,
\* however full it gets and however the process ends.
THEOREM ChannelKeepsEvents == Spec => []NothingLostInChannel
  BY PipelineInvariant, PTL DEF PipelineInv, ChannelInv

\* Both trails list the events in the order of the Log calls, each once,
\* whatever writes fail and however full the channel gets.
THEOREM TrailsStayInOrder == Spec => []TrailsInOrder
  <1>1. PipelineInv => TrailsInOrder
    BY DEF PipelineInv, EventsInOrder
  <1> QED
    BY PipelineInvariant, <1>1, PTL

\* Requests are over before the channel is closed, so no request can meet the
\* panic of a send on a closed channel.
THEOREM RequestsEndFirst == Spec => []NoRequestLogsAfterClose
  <1>1. PipelineInv => NoRequestLogsAfterClose
    BY DEF PipelineInv, ChannelInv, ShutdownOrder, NoRequestLogsAfterClose
  <1> QED
    BY PipelineInvariant, <1>1, PTL

\* A process that comes to its own end has offered every event it accepted to
\* both loggers.
THEOREM ExitDrains == Spec => []DrainedAtExit
  <1>1. PipelineInv => DrainedAtExit
    BY ConcatEmptySeq
    DEF PipelineInv, ChannelInv, ShutdownOrder, DrainedAtExit, NothingLostInChannel, TypeOK
  <1> QED
    BY PipelineInvariant, <1>1, PTL

\* Without the integrity checker Close always drains: the checker's goroutine
\* is the only one that can log after it.
THEOREM DrainsWithoutChecker == Spec => []CloseDrainsWithoutChecker
  <1>1. PipelineInv => CloseDrainsWithoutChecker
    BY ConcatEmptySeq
    DEF PipelineInv, ChannelInv, ShutdownOrder, CloseDrainsWithoutChecker, CloseDrains,
        NothingLostInChannel, TypeOK
  <1> QED
    BY PipelineInvariant, <1>1, PTL

\* The AsyncLogger implements the abstract audit queue.
THEOREM PipelineImplementsChannel == Spec => ImplementsChannel
  <1> USE DEF ImplementsChannel, Channel!Spec
  <1>1. Init => Channel!Init
    BY DEF Init, Channel!Init
  <1>2. PipelineInv /\ [Next]_vars => [Channel!Next]_(<<accepted, taken, closed>>)
    <2> SUFFICES ASSUME PipelineInv, [Next]_vars
                 PROVE  \/ Channel!Next
                        \/ UNCHANGED <<accepted, taken, closed>>
      OBVIOUS
    <2>0. /\ TypeOK /\ NothingLostInChannel /\ Len(queue) <= BufSize
          /\ Len(accepted) = Len(taken) + Len(queue)
          /\ Len(taken) \in Nat /\ Len(queue) \in Nat
          /\ accepted \in Seq(Nat)
      BY ConcatProperties DEF PipelineInv, ChannelInv, TypeOK, NothingLostInChannel
    <2>1. ASSUME Log, UNCHANGED taken
          PROVE  Channel!Accept \/ UNCHANGED <<accepted, taken, closed>>
      <3>1. CASE Enqueue
        <4>1. /\ Len(accepted) - Len(taken) < BufSize
              /\ accepted' = Append(accepted, logged + 1)
              /\ logged + 1 \in Nat /\ closed' = closed /\ ~closed
          BY <2>0, <3>1 DEF Enqueue, TypeOK
        <4>2. \A x \in Nat : /\ Len(Append(accepted, x)) = Len(accepted) + 1
                             /\ Append(accepted, x)[Len(accepted) + 1] = x
          BY <2>0, AppendProperties
        <4>3. /\ Len(accepted') = Len(accepted) + 1
              /\ accepted'[Len(accepted) + 1] = logged + 1
          BY <4>1, <4>2
        <4> QED
          BY <2>1, <4>1, <4>3 DEF Channel!Accept
      <3> QED
        BY <2>1, <3>1 DEF Log, Drop, SendOnClosed
    <2>2. ASSUME Receive PROVE Channel!Deliver
      BY <2>0, <2>2, ReceiveKeepsChannel DEF Receive, Channel!Deliver
    <2>3. ASSUME CloseChannel PROVE Channel!Seal
      BY <2>3 DEF CloseChannel, Channel!Seal, PipelineInv, ChannelInv, ShutdownOrder
    <2>4. CASE UNCHANGED vars
      BY <2>4 DEF vars
    <2>5. ASSUME NEW h \in Handlers, HandlerLogs(h)
          PROVE  Channel!Accept \/ UNCHANGED <<accepted, taken, closed>>
      BY <2>1, <2>5 DEF HandlerLogs
    <2>6. ASSUME CheckerLogsViolation \/ CheckerLogsSummary
          PROVE  Channel!Accept \/ UNCHANGED <<accepted, taken, closed>>
      BY <2>1, <2>6 DEF CheckerLogsViolation, CheckerLogsSummary
    <2> QED
      BY <2>2, <2>3, <2>4, <2>5, <2>6
      DEF Next, HandlerStep, CheckerStep, WorkerStep, CloseStep, Channel!Next,
          RequestArrives, HandlerReplies, CheckerTick, CheckerFinds,
          CheckerStops, WriteFile, WriteDB, DrainEnds, Signal, ServerFails,
          ShutdownReturns, ShutdownTimesOut, CancelChecker, CloseReturns, Kill
  <1> QED
    BY PipelineInvariant, <1>1, <1>2, PTL DEF Spec
=============================================================================
