--------------------------- MODULE LspClientProofs ---------------------------
(***************************************************************************)
(* Proofs about LspClient, for any number of requests, any bound on the    *)
(* server's own and every combination of faults: nobody waits where nobody *)
(* would tell them.                                                        *)
(***************************************************************************)
EXTENDS LspClient, TLAPS

\* A stopped client stays stopped: its process is gone, so nobody can send.
StoppedIsGone == stopping = "done" => proc = "gone"
NotStartedIsIdle == proc = "none" => stopping = "no"

\* A call that is expiring no longer waits, and never will again.
ExpiringIsCancelled == \A c \in expiring : fut[c] = "cancelled"

\* initialize and shutdown are sent once.
SentOnce == /\ proc = "none" => fut[Initialize] = "none"
            /\ stopping = "no" => fut[Shutdown] = "none"

IInv == /\ TypeOK /\ WaitingIsPending /\ StoppedLeavesNobodyWaiting
        /\ StoppedIsGone /\ NotStartedIsIdle /\ ExpiringIsCancelled /\ SentOnce

\* Initially nobody waits.
LEMMA InitIInv == Init => IInv
<1>1. Initialize \in Calls /\ Shutdown \in Calls
  BY DEF Calls
<1>2. <<>> \in Seq(Calls \cup Notices \cup {Sentinel}) /\ <<>> \in Seq(Answers \cup {Ask})
  OBVIOUS
<1>3. ASSUME Init PROVE TypeOK
  <2>1. queue \in Seq(Calls \cup Notices \cup {Sentinel}) /\ stdout \in Seq(Answers \cup {Ask})
    BY <1>2, <1>3 DEF Init
  <2>2. fut \in [Calls -> {"none", "open", "ok", "error", "cancelled"}]
    BY <1>3 DEF Init
  <2>3. asked \in 0..MaxAsks
    BY <1>3, MaxAsksAssumption DEF Init
  <2>4. QED
    BY <1>3, <2>1, <2>2, <2>3 DEF Init, TypeOK, StopPc
<1>4. QED
  BY <1>1, <1>3 DEF Init, IInv, WaitingIsPending, StoppedLeavesNobodyWaiting,
     StoppedIsGone, NotStartedIsIdle, ExpiringIsCancelled, SentOnce

\* _send_request: the new future is pending, and everything else as it was.
LEMMA SendStep ==
  ASSUME IInv, NEW c \in Calls, Send(c)
  PROVE  /\ fut' \in [Calls -> {"none", "open", "ok", "error", "cancelled"}]
         /\ pending' \subseteq Calls
         /\ queue' \in Seq(Calls \cup Notices \cup {Sentinel})
         /\ \A b \in Calls : fut'[b] = "open" => b \in pending'
BY DEF Send, IInv, TypeOK, WaitingIsPending

\* _fail_pending: nobody waits any more.
LEMMA FailPendingStep ==
  ASSUME IInv, FailPending
  PROVE  /\ fut' \in [Calls -> {"none", "open", "ok", "error", "cancelled"}]
         /\ pending' \subseteq Calls
         /\ \A b \in Calls : fut'[b] # "open"
BY DEF FailPending, IInv, TypeOK, WaitingIsPending

\* The callers.
LEMMA CallerIInv == ASSUME IInv, Step(Caller) PROVE IInv'
<1> USE DEF Step, IInv, TypeOK, WaitingIsPending, StoppedLeavesNobodyWaiting, StoppedIsGone,
        NotStartedIsIdle, ExpiringIsCancelled, SentOnce
<1>0. /\ Initialize \in Calls /\ Shutdown \in Calls /\ Initialize # Shutdown
      /\ \A c \in Requests : c \in Calls /\ c # Initialize /\ c # Shutdown
  BY RequestsAssumption DEF Calls, Initialize, Shutdown
<1>a. ASSUME NEW c \in Calls, Send(c), fut[c] = "none", UNCHANGED expiring
      PROVE  ExpiringIsCancelled'
  BY <1>a DEF Send
<1>1. CASE Start
  <2>1. Send(Initialize)
    BY <1>1 DEF Start
  <2>2. stopping' = "no" /\ proc' = "alive" /\ fut'[Shutdown] = "none"
    BY <1>0, <1>1, <2>1 DEF Start, Send
  <2>3. TypeOK' /\ WaitingIsPending'
    BY <1>0, <1>1, <2>1, <2>2, SendStep DEF Start, StopPc
  <2>4. QED
    BY <1>0, <1>a, <1>1, <2>1, <2>2, <2>3 DEF Start
<1>2. CASE Started
  <2>1. queue' \in Seq(Calls \cup Notices \cup {Sentinel})
    BY <1>2 DEF Started, Notices
  <2>2. QED
    BY <1>2, <2>1 DEF Started
<1>3. ASSUME NEW c \in Requests, Request(c) PROVE IInv'
  <2>1. c \in Calls /\ Send(c) /\ fut[c] = "none" /\ stopping' # "done"
    BY <1>0, <1>3 DEF Request
  <2>2. proc' = proc /\ stopping' = stopping /\ UNCHANGED expiring
    BY <1>3 DEF Request
  <2>3. fut'[Initialize] = fut[Initialize] /\ fut'[Shutdown] = fut[Shutdown]
    BY <1>0, <2>1 DEF Send
  <2>4. TypeOK' /\ WaitingIsPending'
    BY <1>3, <2>1, SendStep DEF Request
  <2>5. QED
    BY <1>a, <2>1, <2>2, <2>3, <2>4
<1>4. ASSUME NEW c \in Requests, RequestRefused(c) PROVE IInv'
  BY <1>0, <1>4 DEF RequestRefused
<1>5. ASSUME NEW c \in Calls, Expire(c) PROVE IInv'
  BY <1>0, <1>5 DEF Expire
<1>6. ASSUME NEW c \in Calls, Expired(c) PROVE IInv'
  BY <1>6 DEF Expired, WithdrawnBy
<1>7. ASSUME NEW c \in Calls, CancelCaller(c) PROVE IInv'
  BY <1>0, <1>7 DEF CancelCaller
<1>8. QED
  BY <1>1, <1>2, <1>3, <1>4, <1>5, <1>6, <1>7 DEF Caller

\* The writer task.
LEMMA WriterIInv == ASSUME IInv, Step(Writer) PROVE IInv'
<1> USE DEF Step, IInv, TypeOK, WaitingIsPending, StoppedLeavesNobodyWaiting, StoppedIsGone,
        NotStartedIsIdle, ExpiringIsCancelled, SentOnce
<1>0. Initialize \in Calls /\ Shutdown \in Calls
  BY DEF Calls
<1>1. CASE WriterTakes
  <2>1. /\ queue' \in Seq(Calls \cup Notices \cup {Sentinel})
        /\ Head(queue) \in Calls \cup Notices
    BY <1>1 DEF WriterTakes, IsSentinel
  <2>2. QED
    BY <1>1, <2>1 DEF WriterTakes
<1>2. ASSUME FailPending PROVE ExpiringIsCancelled /\ UNCHANGED expiring => ExpiringIsCancelled'
  BY <1>2 DEF FailPending
<1>3. ASSUME FailPending PROVE fut'[Initialize] = "none" <=> fut[Initialize] = "none"
  BY <1>0, <1>3 DEF FailPending
<1>4. ASSUME FailPending PROVE fut'[Shutdown] = "none" <=> fut[Shutdown] = "none"
  BY <1>0, <1>4 DEF FailPending
<1>5. CASE WriterTakesSentinel
  <2>1. queue' \in Seq(Calls \cup Notices \cup {Sentinel}) /\ FailPending
    BY <1>5 DEF WriterTakesSentinel, WriterEnds
  <2>2. QED
    BY <1>2, <1>3, <1>4, <1>5, <2>1, FailPendingStep DEF WriterTakesSentinel, WriterEnds
<1>6. CASE Drained
  BY <1>6 DEF Drained
<1>7. CASE DrainRaises
  <2>1. FailPending
    BY <1>7 DEF DrainRaises, WriterEnds
  <2>2. QED
    BY <1>2, <1>3, <1>4, <1>7, <2>1, FailPendingStep DEF DrainRaises, WriterEnds
<1>8. CASE DrainTimesOut
  <2>1. FailPending
    BY <1>8 DEF DrainTimesOut, WriterEnds
  <2>2. QED
    BY <1>2, <1>3, <1>4, <1>8, <2>1, FailPendingStep DEF DrainTimesOut, WriterEnds
<1>9. QED
  BY <1>1, <1>5, <1>6, <1>7, <1>8 DEF Writer

\* The reader task.
LEMMA ReaderIInv == ASSUME IInv, Step(Reader) PROVE IInv'
<1> USE DEF Step, IInv, TypeOK, WaitingIsPending, StoppedLeavesNobodyWaiting, StoppedIsGone,
        NotStartedIsIdle, ExpiringIsCancelled, SentOnce
<1>0. Initialize \in Calls /\ Shutdown \in Calls
  BY DEF Calls
<1>1. ASSUME stdout # <<>>
      PROVE  /\ Tail(stdout) \in Seq(Answers \cup {Ask})
             /\ Head(stdout) \in Answers \cup {Ask}
  BY <1>1
<1>2. CASE ReadUnknown
  BY <1>1, <1>2 DEF ReadUnknown, Answer
<1>3. ASSUME NEW c \in pending, Answer(c), fut[c] = "open",
             fut' = [fut EXCEPT ![c] = Head(stdout).outcome]
      PROVE  /\ fut' \in [Calls -> {"none", "open", "ok", "error", "cancelled"}]
             /\ fut'[c] \in {"ok", "error"} /\ \A b \in Calls \ {c} : fut'[b] = fut[b]
  <2>1. Head(stdout).outcome \in {"ok", "error"}
    BY <1>1, <1>3 DEF Answer, Answers, Ask
  <2>2. QED
    BY <1>3, <2>1
<1>4. CASE ReadAnswer
  <2>1. PICK c \in pending : /\ Answer(c) /\ fut[c] = "open"
                             /\ fut' = [fut EXCEPT ![c] = Head(stdout).outcome]
                             /\ pending' = pending \ {c}
                             /\ stdout' = Tail(stdout)
    BY <1>4 DEF ReadAnswer
  <2>2. stdout' \in Seq(Answers \cup {Ask})
    BY <1>1, <2>1 DEF Answer
  <2>3. c \in Calls /\ UNCHANGED <<proc, started, expiring, queue, writer, reader, inbox,
                                  asked, stopping>>
    BY <1>4 DEF ReadAnswer
  <2>4. /\ fut' \in [Calls -> {"none", "open", "ok", "error", "cancelled"}]
        /\ fut'[c] \in {"ok", "error"} /\ \A b \in Calls \ {c} : fut'[b] = fut[b]
    BY <1>3, <2>1
  <2>5. TypeOK' /\ WaitingIsPending' /\ StoppedLeavesNobodyWaiting'
    BY <2>1, <2>2, <2>3, <2>4
  <2>6. ExpiringIsCancelled' /\ SentOnce'
    BY <1>0, <2>1, <2>3, <2>4
  <2>7. QED
    BY <2>3, <2>5, <2>6
<1>5. CASE ReadCancelled
  BY <1>1, <1>5 DEF ReadCancelled, Answer
<1>6. CASE ReadAsk
  <2>1. queue' \in Seq(Calls \cup Notices \cup {Sentinel})
    BY <1>6 DEF ReadAsk, Notices
  <2>2. QED
    BY <1>1, <1>6, <2>1 DEF ReadAsk
<1>7. CASE ReadEnd
  BY <1>7 DEF ReadEnd
<1>8. QED
  BY <1>2, <1>4, <1>5, <1>6, <1>7 DEF Reader

\* The server.
LEMMA ServerIInv == ASSUME IInv, Step(Server) PROVE IInv'
<1> USE DEF Step, IInv, TypeOK, WaitingIsPending, StoppedLeavesNobodyWaiting, StoppedIsGone,
        NotStartedIsIdle, ExpiringIsCancelled, SentOnce
<1>1. ASSUME NEW c \in Calls, ServerAnswers(c) PROVE IInv'
  <2>1. stdout' \in Seq(Answers \cup {Ask})
    BY <1>1 DEF ServerAnswers, Answers
  <2>2. QED
    BY <1>1, <2>1 DEF ServerAnswers
<1>2. CASE ServerReadsNotice
  BY <1>2 DEF ServerReadsNotice
<1>3. CASE ServerAsks
  <2>1. stdout' \in Seq(Answers \cup {Ask})
    BY <1>3 DEF ServerAsks
  <2>2. asked' \in 0..MaxAsks
    BY <1>3, MaxAsksAssumption DEF ServerAsks
  <2>3. QED
    BY <1>3, <2>1, <2>2 DEF ServerAsks
<1>4. CASE ServerExits
  BY <1>4 DEF ServerExits
<1>5. QED
  BY <1>1, <1>2, <1>3, <1>4 DEF Server

\* stop().
LEMMA StopIInv == ASSUME IInv, Step(Stop) PROVE IInv'
<1> USE DEF Step, IInv, TypeOK, WaitingIsPending, StoppedLeavesNobodyWaiting, StoppedIsGone,
        NotStartedIsIdle, ExpiringIsCancelled, SentOnce, StopPc
<1>0. Initialize \in Calls /\ Shutdown \in Calls /\ Initialize # Shutdown
  BY DEF Calls, Initialize, Shutdown
<1>1. CASE StopBegins
  <2>1. CASE proc = "alive"
    <3>1. Send(Shutdown) /\ stopping' = "shutdown" /\ proc' = "alive"
      BY <1>1, <2>1 DEF StopBegins
    <3>2. ExpiringIsCancelled'
      BY <1>0, <1>1, <3>1 DEF StopBegins, Send
    <3>3. QED
      BY <1>0, <1>1, <3>1, <3>2, SendStep DEF StopBegins
  <2>2. CASE proc # "alive"
    BY <1>1, <2>2 DEF StopBegins
  <2>3. QED
    BY <2>1, <2>2
<1>2. CASE ShutdownReturns
  <2>1. queue' \in Seq(Calls \cup Notices \cup {Sentinel})
    BY <1>2 DEF ShutdownReturns, Notices
  <2>2. QED
    BY <1>2, <2>1 DEF ShutdownReturns
<1>3. CASE StopReader
  <2>1. queue' \in Seq(Calls \cup Notices \cup {Sentinel})
    BY <1>3 DEF StopReader
  <2>2. QED
    BY <1>3, <2>1 DEF StopReader
<1>4. CASE WriterStopped
  BY <1>4 DEF WriterStopped
<1>5. CASE WriterStopTimesOut
  BY <1>5 DEF WriterStopTimesOut
<1>6. CASE Terminate
  BY <1>6 DEF Terminate
<1>7. CASE Kill
  BY <1>7 DEF Kill, KillDue
<1>8. CASE Stopped
  <2>1. FailPending
    BY <1>8 DEF Stopped
  <2>2. ExpiringIsCancelled'
    BY <1>8, <2>1 DEF Stopped, FailPending
  <2>3. QED
    BY <1>8, <2>1, <2>2, FailPendingStep DEF Stopped
<1>9. CASE CancelStop
  BY <1>0, <1>9 DEF CancelStop
<1>10. QED
  BY <1>1, <1>2, <1>3, <1>4, <1>5, <1>6, <1>7, <1>8, <1>9 DEF Stop

LEMMA NextIInv == IInv /\ [Next]_vars => IInv'
<1>1. ASSUME IInv, UNCHANGED vars PROVE IInv'
  BY <1>1 DEF vars, IInv, TypeOK, WaitingIsPending, StoppedLeavesNobodyWaiting,
     StoppedIsGone, NotStartedIsIdle, ExpiringIsCancelled, SentOnce
<1>2. QED
  BY <1>1, CallerIInv, WriterIInv, ReaderIInv, ServerIInv, StopIInv DEF Next, Step

\* In every reachable state, whoever waits for an answer is where the reader and
\* _fail_pending find it, and nobody waits for a server that stop() has stopped
\* (_send_request, _read_loop, _fail_pending and stop of lsp_client.py).
THEOREM ClientSafe ==
  Spec => [](TypeOK /\ WaitingIsPending /\ StoppedLeavesNobodyWaiting)
<1>1. IInv => TypeOK /\ WaitingIsPending /\ StoppedLeavesNobodyWaiting
  BY DEF IInv
<1>2. QED
  BY InitIInv, NextIInv, <1>1, PTL DEF Spec

\* The table of pending requests, the write queue and the tasks of the client keep
\* their types (LspClient.__init__), for any requests and faults.
THEOREM ClientTyped == Spec => []TypeOK
BY ClientSafe, PTL

-----------------------------------------------------------------------------
(* No future is left behind *)

\* A call that is added to _pending waits.
LEMMA SendAbandonsNobody ==
  ASSUME IInv, NoAbandonedFuture, NEW c \in Calls, Send(c),
         UNCHANGED expiring, UNCHANGED faults
  PROVE  NoAbandonedFuture'
BY DEF Send, IInv, TypeOK, NoAbandonedFuture

\* A call leaves _pending, or _pending loses all of them, with its future settled.
LEMMA FewerPendingAbandonsNobody ==
  ASSUME NoAbandonedFuture, pending' \subseteq pending, UNCHANGED faults,
         \A c \in pending' : fut'[c] = fut[c] /\ (c \in expiring => c \in expiring')
  PROVE  NoAbandonedFuture'
BY DEF NoAbandonedFuture

\* No caller leaves a settled future behind: who times out is expiring until it has
\* withdrawn its entry, and nobody is cancelled.
LEMMA CallerAbandonsNobody ==
  ASSUME IInv, NoAbandonedFuture, Step(Caller) PROVE NoAbandonedFuture'
<1>0. /\ UNCHANGED faults /\ fut \in [Calls -> {"none", "open", "ok", "error", "cancelled"}]
      /\ pending \subseteq Calls /\ Initialize \in Calls /\ Requests \subseteq Calls
  BY DEF Step, IInv, TypeOK, Calls
<1>1. CASE Start
  <2>1. Send(Initialize) /\ UNCHANGED expiring
    BY <1>1 DEF Start
  <2>2. QED
    BY <1>0, <2>1, SendAbandonsNobody
<1>2. CASE Started
  BY <1>0, <1>2, FewerPendingAbandonsNobody DEF Started
<1>3. ASSUME NEW c \in Requests, Request(c) PROVE NoAbandonedFuture'
  <2>1. c \in Calls /\ Send(c) /\ UNCHANGED expiring
    BY <1>0, <1>3 DEF Request
  <2>2. QED
    BY <1>0, <2>1, SendAbandonsNobody
<1>4. ASSUME NEW c \in Requests, RequestRefused(c) PROVE NoAbandonedFuture'
  BY <1>0, <1>4 DEF RequestRefused, NoAbandonedFuture
<1>5. ASSUME NEW c \in Calls, Expire(c) PROVE NoAbandonedFuture'
  BY <1>0, <1>5 DEF Expire, NoAbandonedFuture
<1>6. ASSUME NEW c \in Calls, Expired(c) PROVE NoAbandonedFuture'
  BY <1>0, <1>6 DEF Expired, WithdrawnBy, NoAbandonedFuture
<1>7. ASSUME NEW c \in Calls, CancelCaller(c) PROVE NoAbandonedFuture'
  BY <1>0, <1>7 DEF CancelCaller, NoAbandonedFuture
<1>8. QED
  BY <1>1, <1>2, <1>3, <1>4, <1>5, <1>6, <1>7 DEF Step, Caller

\* The tasks and the server: only _fail_pending and an answer shorten the table.
LEMMA TasksAbandonNobody ==
  ASSUME IInv, NoAbandonedFuture, Step(Writer \/ Reader \/ Server)
  PROVE  NoAbandonedFuture'
<1>0. UNCHANGED faults /\ fut \in [Calls -> {"none", "open", "ok", "error", "cancelled"}]
  BY DEF Step, IInv, TypeOK
<1>1. CASE Writer
  BY <1>0, <1>1, FewerPendingAbandonsNobody DEF Writer, WriterTakes, WriterTakesSentinel,
     Drained, DrainRaises, DrainTimesOut, WriterEnds, FailPending
<1>2. CASE Reader
  <2>1. CASE ReadAnswer
    <3>1. PICK c \in pending : /\ fut' = [fut EXCEPT ![c] = Head(stdout).outcome]
                               /\ pending' = pending \ {c}
      BY <2>1 DEF ReadAnswer
    <3>2. UNCHANGED expiring /\ \A b \in pending' : fut'[b] = fut[b]
      BY <1>0, <2>1, <3>1 DEF ReadAnswer
    <3>3. QED
      BY <1>0, <3>1, <3>2, FewerPendingAbandonsNobody
  <2>2. CASE ReadUnknown \/ ReadCancelled \/ ReadAsk \/ ReadEnd
    BY <1>0, <2>2, FewerPendingAbandonsNobody DEF ReadUnknown, ReadCancelled, ReadAsk, ReadEnd
  <2>3. QED
    BY <1>2, <2>1, <2>2 DEF Reader
<1>3. CASE Server
  BY <1>0, <1>3, FewerPendingAbandonsNobody DEF Server, ServerAnswers, ServerReadsNotice,
     ServerAsks, ServerExits
<1>4. QED
  BY <1>1, <1>2, <1>3 DEF Step

\* stop(): shutdown is a request like any other, and is not cut off.
LEMMA StopAbandonsNobody ==
  ASSUME IInv, NoAbandonedFuture, Step(Stop) PROVE NoAbandonedFuture'
<1>0. /\ UNCHANGED faults /\ fut \in [Calls -> {"none", "open", "ok", "error", "cancelled"}]
      /\ Shutdown \in Calls
  BY DEF Step, IInv, TypeOK, Calls
<1>1. CASE StopBegins
  <2>1. CASE Send(Shutdown)
    BY <1>0, <1>1, <2>1, SendAbandonsNobody DEF StopBegins
  <2>2. CASE UNCHANGED <<fut, pending, queue>>
    BY <1>0, <1>1, <2>2, FewerPendingAbandonsNobody DEF StopBegins
  <2>3. QED
    BY <1>1, <2>1, <2>2 DEF StopBegins
<1>2. CASE Stopped
  BY <1>0, <1>2, FewerPendingAbandonsNobody DEF Stopped, FailPending
<1>3. CASE CancelStop
  BY <1>0, <1>3 DEF CancelStop, NoAbandonedFuture
<1>4. CASE \/ ShutdownReturns \/ StopReader \/ WriterStopped \/ WriterStopTimesOut
           \/ Terminate \/ Kill
  BY <1>0, <1>4, FewerPendingAbandonsNobody DEF ShutdownReturns, StopReader, WriterStopped,
     WriterStopTimesOut, Terminate, Kill
<1>5. QED
  BY <1>1, <1>2, <1>3, <1>4 DEF Step, Stop

\* Where no caller is cancelled, every future in _pending is still waited for, or its
\* caller is about to withdraw it: the reader meets a settled future only between a
\* timeout and the caller that it wakes (_send_request and _read_loop of lsp_client.py).
THEOREM NothingIsAbandoned == Spec => []NoAbandonedFuture
<1>1. Init => NoAbandonedFuture
  BY DEF Init, NoAbandonedFuture
<1>2. ASSUME IInv, NoAbandonedFuture, [Next]_vars PROVE NoAbandonedFuture'
  <2>1. CASE UNCHANGED vars
    BY <1>2, <2>1 DEF vars, NoAbandonedFuture
  <2>2. CASE Next
    BY <1>2, <2>2, CallerAbandonsNobody, TasksAbandonNobody, StopAbandonsNobody DEF Next, Step
  <2>3. QED
    BY <1>2, <2>1, <2>2
<1>3. QED
  BY <1>1, <1>2, InitIInv, NextIInv, PTL DEF Spec
=============================================================================
