------------------------------ MODULE LspClient ------------------------------
(***************************************************************************)
(* One LspClient (lsp_client.py): the tasks that share the connection to   *)
(* one LSP server.  Callers put requests on a queue and wait on a future;  *)
(* a single writer task drains the queue to the server's stdin, a single   *)
(* reader task resolves the futures from its stdout, and stop() takes all  *)
(* of it down.  Requests time out, callers are cancelled, and the server   *)
(* may exit or stop reading at any time.                                   *)
(***************************************************************************)
EXTENDS Naturals, Sequences, FiniteSets

CONSTANTS
  Requests,   \* requests of the sessions, one call of _send_request each
  MaxAsks,    \* bound: requests the server makes of the client
  Scenarios   \* combinations of the faults below that behaviours may meet

(***************************************************************************)
(* "cancel": the frontend of a waiting request or of a stop disconnects, or *)
(* start() is cut off by its own 60s.                                      *)
(* "timeout": a response takes longer than the request timeout.            *)
(* "exit": the server process ends by itself.                              *)
(* "slow": the server leaves its stdin unread for the 5s of a drain.       *)
(***************************************************************************)
Faults == {"cancel", "timeout", "exit", "slow"}
ASSUME ScenariosAssumption == Scenarios \subseteq SUBSET Faults
ASSUME MaxAsksAssumption == MaxAsks \in Nat

Initialize == "initialize"
Shutdown == "shutdown"
Calls == Requests \cup {Initialize, Shutdown}
Notices == {"initialized", "exit", "reply"}
Sentinel == "sentinel"   \* the poison pill of the write queue
ASSUME RequestsAssumption ==
  Requests \cap ({Initialize, Shutdown, Sentinel, "ask"} \cup Notices) = {}

VARIABLES
  proc,      \* _process: "none", "alive", "exited" (returncode set), "gone" (None again)
  started,   \* start() has returned: sessions may send requests
  fut,       \* the future of each call
  pending,   \* _pending: the calls that the reader can resolve
  expiring,  \* calls whose wait_for has cancelled the future and not yet resumed
  queue,     \* _write_queue
  writer,    \* the writer task: "none", "get", "drain", "done"
  reader,    \* the reader task: "none", "read", "done"
  inbox,     \* calls the server has read and not answered
  stdout,    \* what the server has written and the reader has not read
  asked,     \* requests the server made so far
  stopping,  \* where stop() is
  faults     \* the faults that may happen in this behaviour

vars == <<proc, started, fut, pending, expiring, queue, writer, reader, inbox,
          stdout, asked, stopping, faults>>

StopPc == {"no", "shutdown", "reader", "writer", "process", "terminating", "done", "cut"}
Answers == [call : Calls, outcome : {"ok", "error"}]
Ask == [call |-> "ask", outcome |-> "ok"]   \* a request of the server

Init ==
  /\ proc = "none" /\ writer = "none" /\ reader = "none" /\ stopping = "no"
  /\ started = FALSE
  /\ fut = [c \in Calls |-> "none"]
  /\ pending = {} /\ expiring = {} /\ inbox = {}
  /\ queue = <<>> /\ stdout = <<>> /\ asked = 0
  /\ faults \in Scenarios

-----------------------------------------------------------------------------
(* Callers *)

\* _send_request up to its await.
Send(c) ==
  /\ fut' = [fut EXCEPT ![c] = "open"]
  /\ pending' = pending \cup {c}
  /\ queue' = Append(queue, c)

\* Spawn the process, start both tasks and send initialize.
Start ==
  /\ proc = "none"
  /\ proc' = "alive" /\ writer' = "get" /\ reader' = "read"
  /\ Send(Initialize)
  /\ UNCHANGED <<started, expiring, inbox, stdout, asked, stopping>>

\* start() resumes with the answer to initialize.
Started ==
  /\ fut[Initialize] = "ok" /\ ~started /\ stopping = "no"
  /\ started' = TRUE
  /\ queue' = Append(queue, "initialized")
  /\ UNCHANGED <<proc, fut, pending, expiring, writer, reader, inbox, stdout, asked,
                 stopping>>

Request(c) ==
  /\ started /\ fut[c] = "none"
  /\ proc # "gone"
  /\ Send(c)
  /\ UNCHANGED <<proc, started, expiring, writer, reader, inbox, stdout, asked,
                 stopping>>

\* _process is None: the call raises at once.
RequestRefused(c) ==
  /\ started /\ fut[c] = "none"
  /\ proc = "gone"
  /\ fut' = [fut EXCEPT ![c] = "error"]
  /\ UNCHANGED <<proc, started, pending, expiring, queue, writer, reader, inbox,
                 stdout, asked, stopping>>

\* The timer of wait_for cancels the future; the caller is only scheduled.
Expire(c) ==
  /\ "timeout" \in faults \/ c = Shutdown
  /\ fut[c] = "open"
  /\ fut' = [fut EXCEPT ![c] = "cancelled"]
  /\ expiring' = expiring \cup {c}
  /\ UNCHANGED <<proc, started, pending, queue, writer, reader, inbox, stdout, asked,
                 stopping>>

\* Mutant: the caller gives up and leaves its entry.
ForgottenBy(c) == pending

\* What an expired caller leaves in _pending.
WithdrawnBy(c) == pending \ {c}

\* The caller resumes with TimeoutError and withdraws its request.
Expired(c) ==
  /\ c \in expiring
  /\ expiring' = expiring \ {c}
  /\ pending' = WithdrawnBy(c)
  /\ UNCHANGED <<proc, started, fut, queue, writer, reader, inbox, stdout, asked,
                 stopping>>

\* The caller is cancelled: CancelledError passes the handler of TimeoutError, so
\* the cancelled future stays in _pending.
CancelCaller(c) ==
  /\ "cancel" \in faults /\ c # Shutdown
  /\ fut[c] = "open"
  /\ fut' = [fut EXCEPT ![c] = "cancelled"]
  /\ UNCHANGED <<proc, started, pending, expiring, queue, writer, reader, inbox,
                 stdout, asked, stopping>>

-----------------------------------------------------------------------------
(* The writer task *)

\* Mutant: the futures are dropped and nobody told.
DropPending ==
  /\ UNCHANGED fut
  /\ pending' = {}

\* _fail_pending
FailPending ==
  /\ fut' = [c \in Calls |-> IF c \in pending /\ fut[c] = "open" THEN "error" ELSE fut[c]]
  /\ pending' = {}

WriterEnds == writer' = "done" /\ FailPending

\* Mutant: the poison pill is not recognised.
NoSentinel(m) == FALSE

IsSentinel(m) == m = Sentinel

\* The loop takes a message; a write to a process that has exited may still be
\* accepted, and is lost.
WriterTakes ==
  /\ writer = "get" /\ queue # <<>> /\ ~IsSentinel(Head(queue))
  /\ queue' = Tail(queue)
  /\ writer' = "drain"
  /\ inbox' = IF proc = "alive" THEN inbox \cup {Head(queue)} ELSE inbox
  /\ UNCHANGED <<proc, started, fut, pending, expiring, reader, stdout, asked, stopping>>

WriterTakesSentinel ==
  /\ writer = "get" /\ queue # <<>> /\ IsSentinel(Head(queue))
  /\ queue' = Tail(queue)
  /\ WriterEnds
  /\ UNCHANGED <<proc, started, expiring, reader, inbox, stdout, asked, stopping>>

Drained ==
  /\ writer = "drain"
  /\ writer' = "get"
  /\ UNCHANGED <<proc, started, fut, pending, expiring, queue, reader, inbox, stdout,
                 asked, stopping>>

\* drain() raises: the pipe is closed.
DrainRaises ==
  /\ writer = "drain" /\ proc = "exited"
  /\ WriterEnds
  /\ UNCHANGED <<proc, started, expiring, queue, reader, inbox, stdout, asked, stopping>>

\* The process is killed when it leaves its stdin unread.
DrainTimesOut ==
  /\ "slow" \in faults
  /\ writer = "drain" /\ proc = "alive"
  /\ proc' = "exited" /\ inbox' = {}
  /\ WriterEnds
  /\ UNCHANGED <<started, expiring, queue, reader, stdout, asked, stopping>>

-----------------------------------------------------------------------------
(* The reader task *)

Answer(c) == stdout # <<>> /\ Head(stdout).call = c

\* A response to a call that is not pending is ignored.
ReadUnknown ==
  \E c \in Calls \ pending :
    /\ reader = "read" /\ Answer(c)
    /\ stdout' = Tail(stdout)
    /\ UNCHANGED <<proc, started, fut, pending, expiring, queue, writer, reader, inbox,
                   asked, stopping>>

\* Its future is resolved.
ReadAnswer ==
  \E c \in pending :
    /\ reader = "read" /\ Answer(c) /\ fut[c] = "open"
    /\ fut' = [fut EXCEPT ![c] = Head(stdout).outcome]
    /\ pending' = pending \ {c}
    /\ stdout' = Tail(stdout)
    /\ UNCHANGED <<proc, started, expiring, queue, writer, reader, inbox, asked,
                   stopping>>

\* Its future is already cancelled: set_result raises InvalidStateError and the
\* loop ends.
ReadCancelled ==
  \E c \in pending :
    /\ reader = "read" /\ Answer(c) /\ fut[c] = "cancelled"
    /\ pending' = pending \ {c}
    /\ stdout' = Tail(stdout)
    /\ reader' = "done"
    /\ UNCHANGED <<proc, started, fut, expiring, queue, writer, inbox, asked, stopping>>

\* A request of the server is answered through the write queue.
ReadAsk ==
  /\ reader = "read" /\ stdout # <<>> /\ Head(stdout) = Ask
  /\ stdout' = Tail(stdout)
  /\ queue' = Append(queue, "reply")
  /\ UNCHANGED <<proc, started, fut, pending, expiring, writer, reader, inbox, asked,
                 stopping>>

EndOfFile == stdout = <<>> /\ proc = "exited"

\* End of file ends the loop; nobody is told.
ReadEnd ==
  /\ reader = "read" /\ EndOfFile
  /\ reader' = "done"
  /\ UNCHANGED <<proc, started, fut, pending, expiring, queue, writer, inbox, stdout,
                 asked, stopping>>

-----------------------------------------------------------------------------
(* The LSP server (external) *)

ServerAnswers(c) ==
  /\ proc = "alive" /\ c \in inbox
  /\ inbox' = inbox \ {c}
  /\ \E o \in {"ok", "error"} :
       stdout' = Append(stdout, [call |-> c, outcome |-> o])
  /\ UNCHANGED <<proc, started, fut, pending, expiring, queue, writer, reader, asked,
                 stopping>>

ServerReadsNotice ==
  /\ proc = "alive"
  /\ \E n \in inbox \cap Notices :
       /\ inbox' = IF n = "exit" THEN {} ELSE inbox \ {n}
       /\ proc' = IF n = "exit" THEN "exited" ELSE proc
  /\ UNCHANGED <<started, fut, pending, expiring, queue, writer, reader, stdout, asked,
                 stopping>>

ServerAsks ==
  /\ proc = "alive" /\ started /\ asked < MaxAsks
  /\ asked' = asked + 1
  /\ stdout' = Append(stdout, Ask)
  /\ UNCHANGED <<proc, started, fut, pending, expiring, queue, writer, reader, inbox,
                 stopping>>

ServerExits ==
  /\ "exit" \in faults \/ stopping = "terminating"
  /\ proc = "alive"
  /\ proc' = "exited" /\ inbox' = {}
  /\ UNCHANGED <<started, fut, pending, expiring, queue, writer, reader, stdout, asked,
                 stopping>>

-----------------------------------------------------------------------------
(* stop(): called by the registry once start() has returned, or timed out *)

StopBegins ==
  /\ stopping = "no" /\ proc \in {"alive", "exited"} /\ fut[Initialize] # "open"
  /\ started \/ fut[Initialize] = "cancelled"
  /\ IF proc = "alive"
     THEN stopping' = "shutdown" /\ Send(Shutdown)
     ELSE stopping' = "reader" /\ UNCHANGED <<fut, pending, queue>>
  /\ UNCHANGED <<proc, started, expiring, writer, reader, inbox, stdout, asked>>

\* The shutdown request was answered, failed or timed out.
ShutdownReturns ==
  /\ stopping = "shutdown" /\ fut[Shutdown] # "open" /\ Shutdown \notin expiring
  /\ stopping' = "reader"
  /\ queue' = Append(queue, "exit")
  /\ UNCHANGED <<proc, started, fut, pending, expiring, writer, reader, inbox, stdout,
                 asked>>

\* The reader is cancelled and awaited, and the writer is sent the sentinel.
StopReader ==
  /\ stopping = "reader"
  /\ stopping' = "writer"
  /\ reader' = "done"
  /\ queue' = Append(queue, Sentinel)
  /\ UNCHANGED <<proc, started, fut, pending, expiring, writer, inbox, stdout, asked>>

WriterStopped ==
  /\ stopping = "writer" /\ writer = "done"
  /\ stopping' = "process"
  /\ UNCHANGED <<proc, started, fut, pending, expiring, queue, writer, reader, inbox,
                 stdout, asked>>

\* After 5s the writer is cancelled, and fails nobody.
WriterStopTimesOut ==
  /\ stopping = "writer" /\ writer # "done"
  /\ writer' = "done"
  /\ stopping' = "process"
  /\ UNCHANGED <<proc, started, fut, pending, expiring, queue, reader, inbox, stdout,
                 asked>>

Terminate ==
  /\ stopping = "process" /\ proc = "alive"
  /\ stopping' = "terminating"
  /\ UNCHANGED <<proc, started, fut, pending, expiring, queue, writer, reader, inbox,
                 stdout, asked>>

\* Mutant: no escalation.
NeverKilled == FALSE

\* The process outlives the 5s that terminate() gives it.
KillDue == stopping = "terminating" /\ proc = "alive"

Kill ==
  /\ KillDue
  /\ proc' = "exited" /\ inbox' = {}
  /\ UNCHANGED <<started, fut, pending, expiring, queue, writer, reader, stdout, asked,
                 stopping>>

Stopped ==
  /\ stopping \in {"process", "terminating"} /\ proc = "exited"
  /\ stopping' = "done"
  /\ proc' = "gone"
  /\ FailPending
  /\ UNCHANGED <<started, expiring, queue, writer, reader, inbox, stdout, asked>>

\* The caller of stop() is cancelled.  Every other await of stop() swallows it.
CancelStop ==
  /\ "cancel" \in faults
  /\ \/ stopping = "shutdown" /\ fut[Shutdown] = "open"
        /\ fut' = [fut EXCEPT ![Shutdown] = "cancelled"]
     \/ stopping = "terminating" /\ UNCHANGED fut
  /\ stopping' = "cut"
  /\ UNCHANGED <<proc, started, pending, expiring, queue, writer, reader, inbox, stdout,
                 asked>>

-----------------------------------------------------------------------------
Caller == \/ Start \/ Started
          \/ \E c \in Requests : Request(c) \/ RequestRefused(c)
          \/ \E c \in Calls : Expire(c) \/ Expired(c) \/ CancelCaller(c)
Writer == WriterTakes \/ WriterTakesSentinel \/ Drained \/ DrainRaises \/ DrainTimesOut
Reader == ReadUnknown \/ ReadAnswer \/ ReadCancelled \/ ReadAsk \/ ReadEnd
Server == \/ \E c \in Calls : ServerAnswers(c)
          \/ ServerReadsNotice \/ ServerAsks \/ ServerExits
Stop == \/ StopBegins \/ ShutdownReturns \/ StopReader \/ WriterStopped
        \/ WriterStopTimesOut \/ Terminate \/ Kill \/ Stopped \/ CancelStop

Step(A) == A /\ UNCHANGED faults
Next == Step(Caller \/ Writer \/ Reader \/ Server \/ Stop)

Spec == Init /\ [][Next]_vars

\* asyncio runs its ready tasks and fires its timers; the server answers what it
\* reads.  Sessions, cancellations and faults are never forced.
Fairness ==
  /\ WF_vars(Step(Started)) /\ WF_vars(Step(Writer)) /\ WF_vars(Step(Reader))
  /\ \A c \in Calls : WF_vars(Step(Expired(c))) /\ WF_vars(Step(ServerAnswers(c)))
  /\ WF_vars(Step(ServerReadsNotice))
  /\ WF_vars(Step(Expire(Shutdown)))
  /\ WF_vars(Step(ShutdownReturns \/ StopReader \/ WriterStopped \/ WriterStopTimesOut
                  \/ Terminate \/ Kill \/ Stopped))
FairSpec == Spec /\ Fairness

-----------------------------------------------------------------------------
(* Properties *)

TypeOK ==
  /\ proc \in {"none", "alive", "exited", "gone"}
  /\ started \in BOOLEAN
  /\ fut \in [Calls -> {"none", "open", "ok", "error", "cancelled"}]
  /\ pending \subseteq Calls /\ expiring \subseteq Calls
  /\ queue \in Seq(Calls \cup Notices \cup {Sentinel})
  /\ writer \in {"none", "get", "drain", "done"}
  /\ reader \in {"none", "read", "done"}
  /\ inbox \subseteq Calls \cup Notices
  /\ stdout \in Seq(Answers \cup {Ask})
  /\ asked \in 0..MaxAsks
  /\ stopping \in StopPc
  /\ faults \in Scenarios

\* Whoever waits can be told: the future of every waiting caller is in _pending,
\* where the reader and _fail_pending look for it.
WaitingIsPending == \A c \in Calls : fut[c] = "open" => c \in pending

\* When stop() has returned, nobody waits for the server it stopped, not even a
\* caller that sent its request while stop() was under way.
StoppedLeavesNobodyWaiting ==
  stopping = "done" => \A c \in Calls : fut[c] # "open"

\* Without cancellation, what is left in _pending is waited for or is just being
\* withdrawn: an answered, failed or timed out call leaves nothing behind.
NoAbandonedFuture ==
  "cancel" \notin faults => \A c \in pending : fut[c] = "open" \/ c \in expiring

\* Without faults every request is answered by the server, or failed by stop(),
\* while others are written, read, answered and refused.
RequestsAreAnswered ==
  \A c \in Requests :
    fut[c] = "open" /\ faults = {} ~> fut[c] \in {"ok", "error"}

\* stop() ends the process, whatever the server, the reader, the writer and the
\* callers are doing, unless its own caller is cancelled.
StopEndsProcess == stopping # "no" ~> proc = "gone" \/ stopping = "cut"
=============================================================================
