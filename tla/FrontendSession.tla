--------------------------- MODULE FrontendSession ---------------------------
(***************************************************************************)
(* The connections of frontends to the daemon: at one end the client that  *)
(* server.py caches (daemon_client.py, DaemonClient), at the other the     *)
(* session (daemon.py, _FrontendSession), which runs every request as a    *)
(* task of its own, cancels its tasks when the frontend disconnects and    *)
(* then returns the registrations it made.  The calls register and         *)
(* deregister one project, whose registry is reduced to its lock and its   *)
(* tokens (ProjectRegistry has the rest); a call that does neither behaves *)
(* as a register that fails.                                               *)
(***************************************************************************)
EXTENDS Sequences

CONSTANTS
  Frontends,  \* frontend processes
  Calls,      \* calls of tools; a call that registers is its own token
  Owner,      \* the frontend of each call
  Workloads,  \* what the calls may ask for
  None,
  Scenarios   \* combinations of faults that behaviours may meet

ASSUME OwnerAssumption == Owner \in [Calls -> Frontends]
ASSUME NoneAssumption == None \notin Calls

\* A deregister returns the token of a register, or force register, of its frontend.
Requests == [op : {"register", "force"}, arg : {None}] \cup
            [op : {"deregister"}, arg : Calls]
ASSUME WorkloadsAssumption ==
  /\ Workloads \subseteq [Calls -> Requests]
  /\ \A w \in Workloads : \A c \in Calls : w[c].op = "deregister" =>
       Owner[w[c].arg] = Owner[c] /\ w[w[c].arg].op # "deregister"

\* "cancel": a call is cancelled; "timeout": it takes longer than 180s; "signal": the
\* daemon shuts down; "crash": it is killed.
ASSUME ScenariosAssumption ==
  Scenarios \subseteq SUBSET {"cancel", "timeout", "signal", "crash"}

VARIABLES
  link,        \* the cached client and its connection, by frontend
  reader,      \* _reader_task: "none", "reads", "ended"
  call,        \* where each call is in _request
  asks,        \* what each call asks for
  pending,     \* _pending of each frontend's client
  up, down,    \* requests and answers on each connection
  session,     \* where each frontend's session is in handle()
  task,        \* where the task of each request is in _handle_request
  cancelled,   \* tasks whose cancellation is yet to be delivered
  tokens,      \* registered_tokens of each session
  todo,        \* tokens that _cleanup has still to deregister
  registered,  \* the registrations the registry knows
  daemon,      \* "up", "closing", "gone"
  faults       \* the faults that may happen in this behaviour

vars == <<link, reader, call, asks, pending, up, down, session, task, cancelled,
          tokens, todo, registered, daemon, faults>>
client == <<link, reader, call, asks, pending>>
server == <<session, task, cancelled, tokens, todo, registered, daemon>>

Of(f) == {c \in Calls : Owner[c] = f}
Running(c) == task[c] \notin {"none", "done"}
Locked == \E c \in Calls : task[c] \in {"stopOld", "starting", "stopLast"}

Init ==
  /\ link = [f \in Frontends |-> "none"] /\ reader = [f \in Frontends |-> "none"]
  /\ call = [c \in Calls |-> "idle"]
  /\ pending = [f \in Frontends |-> {}]
  /\ up = [f \in Frontends |-> <<>>] /\ down = [f \in Frontends |-> <<>>]
  /\ session = [f \in Frontends |-> "none"] /\ task = [c \in Calls |-> "none"]
  /\ cancelled = {} /\ registered = {}
  /\ tokens = [f \in Frontends |-> {}] /\ todo = [f \in Frontends |-> {}]
  /\ daemon = "up" /\ faults \in Scenarios /\ asks \in Workloads

-----------------------------------------------------------------------------
(* The frontend *)

Becomes(c, s) == call' = [call EXCEPT ![c] = s]
Links(f, s) == link' = [link EXCEPT ![f] = s]

\* The first call of a tool makes the client and keeps it, before it connects.
Connect(c) ==
  /\ call[c] = "idle" /\ link[Owner[c]] = "none"
  /\ Becomes(c, "connects") /\ Links(Owner[c], "connecting")
  /\ UNCHANGED <<reader, asks, pending, up, down, server>>

\* To the daemon that is there, or one that is started (DaemonLifecycle); the client
\* then serves this call and those that waited for _client_lock.
Connected(c) ==
  LET f == Owner[c] IN
  /\ call[c] = "connects" /\ link[f] = "connecting" /\ daemon # "closing"
  /\ Becomes(c, "idle") /\ Links(f, "open")
  /\ reader' = [reader EXCEPT ![f] = "reads"]
  /\ session' = [session EXCEPT ![f] = "open"]
  /\ daemon' = "up"
  /\ UNCHANGED <<asks, pending, up, down, task, cancelled, tokens, todo, registered>>

\* No daemon in 5s, or the call is cancelled: the client is kept all the same.
ConnectFails(c) ==
  /\ call[c] = "connects" /\ link[Owner[c]] = "connecting"
  /\ \/ Becomes(c, "failed")
     \/ "cancel" \in faults /\ Becomes(c, "cancelled")
  /\ Links(Owner[c], "unconnected")
  /\ UNCHANGED <<reader, asks, pending, up, down, server>>

\* A frontend returns tokens it was given.
Send(c) ==
  LET f == Owner[c] IN
  /\ call[c] = "idle" /\ link[f] = "open"
  /\ asks[c].op = "deregister" => call[asks[c].arg] = "ok"
  /\ Becomes(c, "waits")
  /\ pending' = [pending EXCEPT ![f] = @ \cup {c}]
  /\ up' = [up EXCEPT ![f] = Append(@, c)]
  /\ UNCHANGED <<link, reader, asks, down, server>>

\* send_request on the cached client raises: it never connected, or its connection
\* is lost and drain() raises, the future staying in _pending.
SendRaises(c) ==
  LET f == Owner[c] IN
  /\ call[c] = "idle" /\ link[f] \in {"unconnected", "lost"}
  /\ Becomes(c, "failed")
  /\ pending' = IF link[f] = "lost" THEN [pending EXCEPT ![f] = @ \cup {c}] ELSE pending
  /\ UNCHANGED <<link, reader, asks, up, down, server>>

\* wait_for leaves the cancelled future in _pending.
CancelCall(c) ==
  /\ "cancel" \in faults /\ call[c] = "waits"
  /\ Becomes(c, "cancelled")
  /\ UNCHANGED <<link, reader, asks, pending, up, down, server>>

TimesOut(c) ==
  /\ "timeout" \in faults /\ call[c] = "waits"
  /\ Becomes(c, "timedOut")
  /\ pending' = [pending EXCEPT ![Owner[c]] = @ \ {c}]
  /\ UNCHANGED <<link, reader, asks, up, down, server>>

\* The reader ends and fails every call it would have answered.
ReaderEnds(f, unread) ==
  /\ reader' = [reader EXCEPT ![f] = "ended"]
  /\ call' = [c \in Calls |-> IF c \in unread /\ call[c] = "waits" THEN "failed"
                              ELSE call[c]]
  /\ pending' = [pending EXCEPT ![f] = {}]

\* An answer nobody waits for any more is dropped; one whose caller was cancelled
\* raises InvalidStateError.
Receive(f) ==
  /\ reader[f] = "reads" /\ down[f] # <<>>
  /\ LET c == Head(down[f]).call IN
       IF c \notin pending[f] THEN UNCHANGED <<reader, call, pending>>
       ELSE IF call[c] = "cancelled" THEN ReaderEnds(f, pending[f] \ {c})
       ELSE /\ Becomes(c, Head(down[f]).outcome)
            /\ pending' = [pending EXCEPT ![f] = @ \ {c}]
            /\ UNCHANGED reader
  /\ down' = [down EXCEPT ![f] = Tail(@)]
  /\ UNCHANGED <<link, asks, up, server>>

EndOfFile(f) ==
  /\ reader[f] = "reads" /\ down[f] = <<>> /\ link[f] = "lost"
  /\ ReaderEnds(f, pending[f])
  /\ UNCHANGED <<link, asks, up, down, server>>

\* The frontend's process ends.
Leave(f) ==
  /\ link[f] # "gone"
  /\ Links(f, "gone")
  /\ reader' = [reader EXCEPT ![f] = "ended"]
  /\ call' = [c \in Calls |-> IF Owner[c] = f THEN "gone" ELSE call[c]]
  /\ pending' = [pending EXCEPT ![f] = {}]
  /\ down' = [down EXCEPT ![f] = <<>>]
  /\ UNCHANGED <<asks, up, server>>

-----------------------------------------------------------------------------
(* The tasks of a session *)

Goes(c, s) == task' = [task EXCEPT ![c] = s]
Due(c, s) == task[c] = s /\ c \notin cancelled

\* handle() reads a message and makes a task of it.
Take(f) ==
  /\ session[f] = "open" /\ up[f] # <<>>
  /\ Goes(Head(up[f]), "queued")
  /\ up' = [up EXCEPT ![f] = Tail(@)]
  /\ UNCHANGED <<link, reader, call, asks, pending, down, session, cancelled,
                 tokens, todo, registered, daemon>>

\* The registry knows the token, and so does the session.
Registered(c) ==
  /\ registered' = registered \cup {c}
  /\ tokens' = [tokens EXCEPT ![Owner[c]] = @ \cup {c}]
  /\ Goes(c, "ok")

\* An entry is there, whoever made it, or a server is started.
Register(c) ==
  /\ Due(c, "queued") /\ asks[c].op = "register" /\ ~Locked
  /\ \/ Registered(c)
     \/ registered = {} /\ Goes(c, "starting") /\ UNCHANGED <<registered, tokens>>
  /\ UNCHANGED <<client, up, down, session, cancelled, todo, daemon>>

\* force, or regenerate_index: every token is invalidated, in the registry only.
RegisterForce(c) ==
  /\ Due(c, "queued") /\ asks[c].op = "force" /\ ~Locked
  /\ \E s \in {"stopOld", "starting"} :
       (s = "starting" => registered = {}) /\ Goes(c, s)
  /\ registered' = {}
  /\ UNCHANGED <<client, up, down, session, cancelled, tokens, todo, daemon>>

OldStopped(c) ==
  /\ Due(c, "stopOld")
  /\ Goes(c, "starting")
  /\ UNCHANGED <<client, up, down, session, cancelled, tokens, todo, registered, daemon>>

Started(c) ==
  /\ Due(c, "starting")
  /\ \/ Registered(c)
     \/ Goes(c, "failed") /\ UNCHANGED <<registered, tokens>>
  /\ UNCHANGED <<client, up, down, session, cancelled, todo, daemon>>

\* Mutant: the project goes, not the token.
ProjectForgotten(k) == {}

\* The registry forgets the token.
Unregistered(k) == registered \ {k}

\* The session forgets the token only after the server of the last one is stopped.
Deregister(c) ==
  /\ Due(c, "queued") /\ asks[c].op = "deregister" /\ ~Locked
  /\ IF asks[c].arg \in registered
     THEN /\ registered' = Unregistered(asks[c].arg)
          /\ IF registered = {asks[c].arg}
             THEN Goes(c, "stopLast") /\ UNCHANGED tokens
             ELSE /\ Goes(c, "ok")
                  /\ tokens' = [tokens EXCEPT ![Owner[c]] = @ \ {asks[c].arg}]
     ELSE Goes(c, "failed") /\ UNCHANGED <<registered, tokens>>
  /\ UNCHANGED <<client, up, down, session, cancelled, todo, daemon>>

LastStopped(c) ==
  /\ Due(c, "stopLast")
  /\ Goes(c, "ok")
  /\ tokens' = [tokens EXCEPT ![Owner[c]] = @ \ {asks[c].arg}]
  /\ UNCHANGED <<client, up, down, session, cancelled, todo, registered, daemon>>

\* _handle_request writes the response; a connection that is lost takes nothing.
Reply(c) ==
  LET f == Owner[c] IN
  /\ task[c] \in {"ok", "failed"} /\ c \notin cancelled
  /\ Goes(c, "done")
  /\ down' = IF link[f] = "open"
             THEN [down EXCEPT ![f] = Append(@, [call |-> c, outcome |-> task[c]])]
             ELSE down
  /\ UNCHANGED <<client, up, session, cancelled, tokens, todo, registered, daemon>>

\* The cancellation ends the task at its await, except that stop(), which expects
\* the cancellation of its own reader task there, may take it for that one.
Unwind(c) ==
  /\ c \in cancelled
  /\ cancelled' = cancelled \ {c}
  /\ \/ Goes(c, "done")
     \/ task[c] \in {"stopOld", "stopLast"} /\ UNCHANGED task
  /\ UNCHANGED <<client, up, down, session, tokens, todo, registered, daemon>>

-----------------------------------------------------------------------------
(* The end of a session, and of the daemon *)

\* Mutant: tasks that are done stay in _pending_tasks.
CancelledAll(fs) == cancelled \cup {c \in Calls : Owner[c] \in fs}

\* The tasks in _pending_tasks are cancelled.
Cancelled(fs) == cancelled \cup {c \in Calls : Owner[c] \in fs /\ Running(c)}

\* The frontend is gone: handle() cancels the tasks, what it has not read is lost.
Disconnect(f) ==
  /\ session[f] = "open" /\ link[f] = "gone"
  /\ session' = [session EXCEPT ![f] = "gathers"]
  /\ cancelled' = Cancelled({f})
  /\ UNCHANGED <<client, up, down, task, tokens, todo, registered, daemon>>

\* Mutant: the cancelled tasks are not awaited.
NotAwaited(f) == TRUE

\* gather returns.
AllDone(f) == \A c \in Of(f) : ~Running(c)

Gathered(f) ==
  /\ session[f] = "gathers" /\ AllDone(f)
  /\ session' = [session EXCEPT ![f] = "cleans"]
  /\ todo' = [todo EXCEPT ![f] = tokens[f]]
  /\ UNCHANGED <<client, up, down, task, cancelled, tokens, registered, daemon>>

\* Mutant: a token that is no longer known ends the loop.
GivesUp(f, k) == IF k \in registered THEN todo[f] \ {k} ELSE {}

\* The loop of _cleanup goes on after an error.
Remaining(f, k) == todo[f] \ {k}

Clean(f) ==
  /\ session[f] = "cleans"
  /\ IF todo[f] = {}
     THEN /\ session' = [session EXCEPT ![f] = "closed"]
          /\ tokens' = [tokens EXCEPT ![f] = {}]
          /\ UNCHANGED <<todo, registered>>
     ELSE /\ ~Locked
          /\ \E k \in todo[f] :
               /\ registered' = Unregistered(k)
               /\ todo' = [todo EXCEPT ![f] = Remaining(f, k)]
          /\ UNCHANGED <<session, tokens>>
  /\ UNCHANGED <<client, up, down, task, cancelled, daemon>>

Ends(f) == session[f] \in {"open", "gathers", "cleans"}

\* run() cancels the sessions that are left, which then skip the rest of their
\* cleanup.
Shutdown ==
  /\ "signal" \in faults /\ daemon = "up"
  /\ daemon' = "closing"
  /\ session' = [f \in Frontends |-> IF Ends(f) THEN "cut" ELSE session[f]]
  /\ cancelled' = Cancelled({f \in Frontends : Ends(f)})
  /\ UNCHANGED <<client, up, down, task, tokens, todo, registered>>

\* The process ends, and its connections and its registry with it.
Gone ==
  /\ daemon' = "gone"
  /\ registered' = {}
  /\ link' = [f \in Frontends |-> IF link[f] = "open" THEN "lost" ELSE link[f]]
  /\ up' = [f \in Frontends |-> <<>>]
  /\ tokens' = [f \in Frontends |-> {}] /\ todo' = [f \in Frontends |-> {}]
  /\ UNCHANGED <<reader, call, asks, pending, down>>

\* Once the sessions are awaited, shutdown_all.
ShutDown ==
  /\ daemon = "closing" /\ \A c \in Calls : ~Running(c)
  /\ Gone
  /\ UNCHANGED <<session, task, cancelled>>

Crash ==
  /\ "crash" \in faults /\ daemon # "gone"
  /\ Gone
  /\ session' = [f \in Frontends |-> IF Ends(f) THEN "cut" ELSE session[f]]
  /\ task' = [c \in Calls |-> IF Running(c) THEN "done" ELSE task[c]]
  /\ cancelled' = {}

-----------------------------------------------------------------------------
Request(c) == \/ Connect(c) \/ Connected(c) \/ ConnectFails(c)
              \/ Send(c) \/ SendRaises(c) \/ CancelCall(c) \/ TimesOut(c)
Handle(c) == \/ Register(c) \/ RegisterForce(c) \/ OldStopped(c) \/ Started(c)
             \/ Deregister(c) \/ LastStopped(c) \/ Reply(c) \/ Unwind(c)
Serve(f) == Take(f) \/ Disconnect(f) \/ Gathered(f) \/ Clean(f)

Client(f) == Receive(f) \/ EndOfFile(f) \/ Leave(f)

Step(A) == A /\ UNCHANGED faults
Next == \/ \E c \in Calls : Step(Request(c) \/ Handle(c))
        \/ \E f \in Frontends : Step(Client(f) \/ Serve(f))
        \/ Step(Shutdown \/ ShutDown \/ Crash)

Spec == Init /\ [][Next]_vars

\* The daemon's event loop runs what is ready; server starts and stops are bounded
\* by their timeouts, and those that wait for its lock get it: every call holds it once.
Fairness ==
  /\ \A c \in Calls : WF_vars(Step(Handle(c)))
  /\ \A f \in Frontends : WF_vars(Step(Serve(f)))
  /\ WF_vars(Step(ShutDown))
FairSpec == Spec /\ Fairness

-----------------------------------------------------------------------------
(* Properties *)

Outcome == {"ok", "failed"}

TypeOK ==
  /\ link \in [Frontends -> {"none", "connecting", "unconnected", "open", "lost", "gone"}]
  /\ reader \in [Frontends -> {"none", "reads", "ended"}]
  /\ call \in [Calls -> Outcome \cup {"idle", "connects", "waits", "timedOut",
                                      "cancelled", "gone"}]
  /\ pending \in [Frontends -> SUBSET Calls]
  /\ up \in [Frontends -> Seq(Calls)]
  /\ down \in [Frontends -> Seq([call : Calls, outcome : Outcome])]
  /\ session \in [Frontends -> {"none", "open", "gathers", "cleans", "closed", "cut"}]
  /\ task \in [Calls -> Outcome \cup {"none", "queued", "stopOld", "starting",
                                      "stopLast", "done"}]
  /\ cancelled \subseteq {c \in Calls : Running(c)}
  /\ tokens \in [Frontends -> SUBSET Calls] /\ todo \in [Frontends -> SUBSET Calls]
  /\ registered \subseteq Calls
  /\ daemon \in {"up", "closing", "gone"}
  /\ faults \in Scenarios /\ asks \in Workloads

\* Every registration belongs to a session that has still to return it, or to a
\* daemon on its way to shutdown_all, even when the register that made it went on
\* after its cancellation.
SessionsHoldRegistrations ==
  \A k \in registered :
    \/ session[Owner[k]] \in {"open", "gathers"}
    \/ session[Owner[k]] = "cleans" /\ k \in todo[Owner[k]]
    \/ daemon = "closing"

\* A registration is taken away by its own frontend, which returns it or is gone, by
\* somebody's force, or with the daemon; never by the end of another session.
RegistrationsAreRespected ==
  [][\A k \in registered \ registered' :
       \/ session[Owner[k]] = "cleans" \/ daemon' = "gone"
       \/ \E c \in Calls : asks[c].op = "force" /\ task'[c] # task[c]
       \/ \E c \in Of(Owner[k]) : asks[c].arg = k /\ task'[c] # task[c]]_vars

\* When a frontend is gone its registrations are returned, also those it never
\* heard of because its call was cancelled or timed out first.
GoneFrontendsLetGo ==
  \A f \in Frontends : link[f] = "gone" ~> registered \cap Of(f) = {}
=============================================================================
