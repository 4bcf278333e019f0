------------------------ MODULE FrontendSessionProofs ------------------------
(***************************************************************************)
(* Proofs about FrontendSession, for any frontends, calls, workloads and   *)
(* faults: every registration belongs to a session that has still to       *)
(* return it.                                                              *)
(***************************************************************************)
EXTENDS FrontendSession, TLAPS

\* The variables that the argument is about.
Typed ==
  /\ session \in [Frontends -> {"none", "open", "gathers", "cleans", "closed", "cut"}]
  /\ task \in [Calls -> Outcome \cup {"none", "queued", "stopOld", "starting",
                                      "stopLast", "done"}]
  /\ tokens \in [Frontends -> SUBSET Calls] /\ todo \in [Frontends -> SUBSET Calls]
  /\ registered \subseteq Calls /\ asks \in Workloads
  /\ up \in [Frontends -> Seq(Calls)] /\ daemon \in {"up", "closing", "gone"}
  /\ \A f \in Frontends : up[f] \in Seq(Of(f))

Holds(c) == task[c] \in {"stopOld", "starting", "stopLast"}

\* The registry's lock has one holder.
OneHolder == \A c, d \in Calls : Holds(c) /\ Holds(d) => c = d

\* The token whose last server is being stopped is no longer known.
LastIsForgotten ==
  \A c \in Calls : task[c] = "stopLast" => asks[c].arg \notin registered

\* The session that made a registration knows it.
KnownToSession == \A k \in registered : k \in tokens[Owner[k]]

\* Tasks run only in sessions that await them.
RunningIsAwaited ==
  \A c \in Calls : Running(c) =>
    session[Owner[c]] \in {"open", "gathers"} \/ daemon = "closing"

\* A daemon that shuts down has cut its sessions, one that is gone knows no token.
ClosingIsCut ==
  \A f \in Frontends : Ends(f) => daemon = "up"

IInv == /\ Typed /\ OneHolder /\ LastIsForgotten /\ KnownToSession /\ RunningIsAwaited
        /\ ClosingIsCut /\ SessionsHoldRegistrations

LEMMA InitIInv == Init => IInv
<1> SUFFICES ASSUME Init PROVE IInv
  OBVIOUS
<1>1. Typed
  BY DEF Init, Typed, Outcome
<1>2. QED
  BY <1>1 DEF Init, IInv, OneHolder, Holds, LastIsForgotten, KnownToSession,
     RunningIsAwaited, Running, ClosingIsCut, Ends, SessionsHoldRegistrations

\* The client's actions touch the daemon only by what they send and by connecting.
LEMMA RequestIInv == ASSUME IInv, NEW c \in Calls, Step(Request(c)) PROVE IInv'
<1> USE OwnerAssumption DEF IInv, Typed, OneHolder, Holds, LastIsForgotten, KnownToSession,
        RunningIsAwaited, Running, ClosingIsCut, Ends, SessionsHoldRegistrations, server
<1>1. CASE Connected(c)
  BY <1>1 DEF Connected
<1>2. CASE Send(c)
  <2>1. up'[Owner[c]] \in Seq(Of(Owner[c])) /\ up'[Owner[c]] \in Seq(Calls)
    BY <1>2 DEF Send, Of
  <2>2. up' \in [Frontends -> Seq(Calls)] /\ \A f \in Frontends : up'[f] \in Seq(Of(f))
    BY <1>2, <2>1 DEF Send
  <2>3. QED
    BY <1>2, <2>2 DEF Send
<1>3. CASE ~Connected(c) /\ ~Send(c)
  <2>1. UNCHANGED <<server, asks, up>>
    BY <1>3 DEF Step, Request, Connect, ConnectFails, SendRaises, CancelCall, TimesOut
  <2>2. QED
    BY <2>1
<1>4. QED
  BY <1>1, <1>2, <1>3

LEMMA ClientIInv == ASSUME IInv, NEW f \in Frontends, Step(Client(f)) PROVE IInv'
<1>1. UNCHANGED <<server, asks, up>>
  BY DEF Step, Client, Receive, EndOfFile, Leave
<1>2. QED
  BY <1>1 DEF IInv, Typed, OneHolder, Holds, LastIsForgotten, KnownToSession,
     RunningIsAwaited, Running, ClosingIsCut, Ends, SessionsHoldRegistrations, server

\* A new registration is one of a session that awaits its task.
LEMMA RegisteredIInv ==
  ASSUME IInv, NEW c \in Calls, task[c] \in {"queued", "starting"},
         Registered(c), \A d \in Calls : Holds(d) => d = c,
         UNCHANGED <<client, up, session, todo, daemon>>
  PROVE  IInv'
BY OwnerAssumption DEF IInv, Typed, OneHolder, Holds, LastIsForgotten, KnownToSession,
   RunningIsAwaited, Running, ClosingIsCut, Ends, SessionsHoldRegistrations, Registered,
   Goes, client, Outcome

\* A step of a task that registers nothing and keeps what the session knows.
LEMMA GoesIInv ==
  ASSUME IInv, NEW c \in Calls, Running(c),
         NEW s \in Outcome \cup {"stopOld", "starting", "stopLast", "done"}, Goes(c, s),
         s \in {"stopOld", "starting", "stopLast"} => \A d \in Calls : Holds(d) => d = c,
         s = "stopLast" => asks[c].arg \notin registered',
         registered' \subseteq registered,
         tokens' \in [Frontends -> SUBSET Calls],
         \A k \in registered' : k \in tokens'[Owner[k]],
         UNCHANGED <<client, up, session, todo, daemon>>
  PROVE  IInv'
BY OwnerAssumption DEF IInv, Typed, OneHolder, Holds, LastIsForgotten, KnownToSession,
   RunningIsAwaited, Running, ClosingIsCut, Ends, SessionsHoldRegistrations,
   Goes, client, Outcome

LEMMA HandleIInv == ASSUME IInv, NEW c \in Calls, Step(Handle(c)) PROVE IInv'
<1>0. ~Locked => \A d \in Calls : Holds(d) => d = c
  BY DEF Locked, Holds
<1>a. Holds(c) => \A d \in Calls : Holds(d) => d = c
  BY DEF IInv, OneHolder
<1>b. /\ \A k \in registered : k \in tokens[Owner[k]]
      /\ tokens \in [Frontends -> SUBSET Calls]
  BY DEF IInv, KnownToSession, Typed
<1>1. CASE Register(c)
  <2>1. CASE Registered(c)
    BY <1>1, <2>1, <1>0, RegisteredIInv DEF Register, Due
  <2>2. CASE Goes(c, "starting") /\ UNCHANGED <<registered, tokens>>
    <3>1. Running(c)
      BY <1>1 DEF Register, Due, Running
    <3>2. QED
      BY <1>1, <2>2, <3>1, <1>0, <1>b, GoesIInv DEF Register
  <2>3. QED
    BY <1>1, <2>1, <2>2 DEF Register
<1>2. CASE RegisterForce(c)
  <2>1. Running(c)
    BY <1>2 DEF RegisterForce, Due, Running
  <2>2. PICK s \in {"stopOld", "starting"} : Goes(c, s)
    BY <1>2 DEF RegisterForce
  <2>3. QED
    BY <1>2, <2>1, <2>2, <1>0, <1>b, GoesIInv DEF RegisterForce
<1>3. CASE OldStopped(c)
  <2>1. Running(c) /\ Holds(c)
    BY <1>3 DEF OldStopped, Due, Running, Holds
  <2>2. QED
    BY <1>3, <2>1, <1>a, <1>b, GoesIInv DEF OldStopped
<1>4. CASE Started(c)
  <2>1. Running(c) /\ Holds(c) /\ task[c] = "starting"
    BY <1>4 DEF Started, Due, Running, Holds
  <2>2. CASE Registered(c)
    BY <1>4, <2>1, <2>2, <1>a, RegisteredIInv DEF Started
  <2>3. CASE Goes(c, "failed") /\ UNCHANGED <<registered, tokens>>
    BY <1>4, <2>1, <2>3, <1>b, GoesIInv DEF Started, Outcome
  <2>4. QED
    BY <1>4, <2>2, <2>3 DEF Started
<1>5. CASE Deregister(c)
  <2>1. Running(c)
    BY <1>5 DEF Deregister, Due, Running
  <2>2. CASE asks[c].arg \in registered /\ registered = {asks[c].arg}
    BY <1>5, <2>1, <2>2, <1>0, <1>b, GoesIInv DEF Deregister, Unregistered
  <2>3. CASE asks[c].arg \in registered /\ registered # {asks[c].arg}
    <3>1. tokens' \in [Frontends -> SUBSET Calls]
      BY <1>5, <2>3, <1>b DEF Deregister
    <3>2. /\ registered' = registered \ {asks[c].arg}
          /\ tokens' = [tokens EXCEPT ![Owner[c]] = @ \ {asks[c].arg}]
      BY <1>5, <2>3 DEF Deregister, Unregistered
    <3>3. \A k \in registered' : k \in tokens'[Owner[k]]
      BY <3>2, <1>b
    <3>4. QED
      BY <1>5, <2>1, <2>3, <3>1, <3>2, <3>3, GoesIInv DEF Deregister, Outcome
  <2>4. CASE asks[c].arg \notin registered
    BY <1>5, <2>1, <2>4, <1>b, GoesIInv DEF Deregister, Outcome
  <2>5. QED
    BY <2>2, <2>3, <2>4
<1>6. CASE LastStopped(c)
  <2>1. Running(c) /\ asks[c].arg \notin registered
    BY <1>6 DEF LastStopped, Due, Running, IInv, LastIsForgotten
  <2>2. tokens' \in [Frontends -> SUBSET Calls]
    BY <1>6, <1>b DEF LastStopped
  <2>3. \A k \in registered' : k \in tokens'[Owner[k]]
    BY <1>6, <2>1, <1>b DEF LastStopped
  <2>4. QED
    BY <1>6, <2>1, <2>2, <2>3, GoesIInv DEF LastStopped, Outcome
<1>7. CASE Reply(c)
  <2>1. Running(c)
    BY <1>7 DEF Reply, Running
  <2>2. QED
    BY <1>7, <2>1, <1>b, GoesIInv DEF Reply
<1>8. CASE Unwind(c)
  <2>1. CASE UNCHANGED task
    BY <1>8, <2>1 DEF Unwind, IInv, Typed, OneHolder, Holds, LastIsForgotten,
       KnownToSession, RunningIsAwaited, Running, ClosingIsCut, Ends,
       SessionsHoldRegistrations, client
  <2>2. CASE Goes(c, "done") /\ Running(c)
    BY <1>8, <2>2, <1>b, GoesIInv DEF Unwind
  <2>3. CASE Goes(c, "done") /\ ~Running(c)
    BY <1>8, <2>3 DEF Unwind, IInv, Typed, OneHolder, Holds, LastIsForgotten,
       KnownToSession, RunningIsAwaited, Running, ClosingIsCut, Ends,
       SessionsHoldRegistrations, client, Goes
  <2>4. QED
    BY <1>8, <2>1, <2>2, <2>3 DEF Unwind
<1>9. QED
  BY <1>1, <1>2, <1>3, <1>4, <1>5, <1>6, <1>7, <1>8 DEF Step, Handle

LEMMA ServeIInv == ASSUME IInv, NEW f \in Frontends, Step(Serve(f)) PROVE IInv'
<1> USE OwnerAssumption DEF IInv, Typed, OneHolder, Holds, LastIsForgotten, KnownToSession,
        RunningIsAwaited, Running, ClosingIsCut, Ends, SessionsHoldRegistrations, client
<1>1. CASE Take(f)
  <2>1. Head(up[f]) \in Of(f) /\ Tail(up[f]) \in Seq(Of(f)) /\ Tail(up[f]) \in Seq(Calls)
    BY <1>1 DEF Take
  <2>2. Head(up[f]) \in Calls /\ Owner[Head(up[f])] = f
    BY <2>1 DEF Of
  <2>3. Typed'
    BY <1>1, <2>1, <2>2 DEF Take, Goes
  <2>4. QED
    BY <1>1, <2>2, <2>3 DEF Take, Goes
<1>2. CASE Disconnect(f)
  BY <1>2 DEF Disconnect
<1>3. CASE Gathered(f)
  BY <1>3 DEF Gathered, AllDone, Of
<1>4. CASE Clean(f) /\ todo[f] = {}
  <2>1. /\ session[f] = "cleans" /\ session' = [session EXCEPT ![f] = "closed"]
        /\ tokens' = [tokens EXCEPT ![f] = {}]
        /\ UNCHANGED <<todo, registered, up, task, daemon, asks>>
    BY <1>4 DEF Clean
  <2>2. \A k \in registered : Owner[k] # f
    BY <1>4, <2>1
  <2>3. Typed' /\ KnownToSession'
    BY <2>1, <2>2
  <2>4. QED
    BY <2>1, <2>2, <2>3
<1>5. CASE Clean(f) /\ todo[f] # {}
  <2>1. PICK k \in todo[f] : /\ registered' = registered \ {k}
                             /\ todo' = [todo EXCEPT ![f] = @ \ {k}]
    BY <1>5 DEF Clean, Unregistered, Remaining
  <2>2. UNCHANGED <<session, tokens, up, task, daemon, asks>>
    BY <1>5 DEF Clean
  <2>3. QED
    BY <1>5, <2>1, <2>2
<1>6. QED
  BY <1>1, <1>2, <1>3, <1>4, <1>5 DEF Step, Serve

LEMMA EmptySeq == \A S : <<>> \in Seq(S)
OBVIOUS

LEMMA EndIInv == ASSUME IInv, Step(Shutdown \/ ShutDown \/ Crash) PROVE IInv'
<1> USE OwnerAssumption DEF IInv, Typed, OneHolder, Holds, LastIsForgotten, KnownToSession,
        RunningIsAwaited, Running, ClosingIsCut, Ends, SessionsHoldRegistrations, client
<1>0. \A f \in Frontends : <<>> \in Seq(Of(f)) /\ <<>> \in Seq(Calls)
  BY EmptySeq
<1>1. CASE Shutdown
  BY <1>1 DEF Shutdown
<1>2. CASE ShutDown
  BY <1>0, <1>2 DEF ShutDown, Gone
<1>3. CASE Crash
  BY <1>0, <1>3 DEF Crash, Gone
<1>4. QED
  BY <1>1, <1>2, <1>3 DEF Step

LEMMA NextIInv == IInv /\ [Next]_vars => IInv'
<1> SUFFICES ASSUME IInv, [Next]_vars PROVE IInv'
  OBVIOUS
<1>1. CASE UNCHANGED vars
  BY <1>1 DEF vars, IInv, Typed, OneHolder, Holds, LastIsForgotten, KnownToSession,
     RunningIsAwaited, Running, ClosingIsCut, Ends, SessionsHoldRegistrations
<1>2. ASSUME NEW c \in Calls, Step(Request(c) \/ Handle(c)) PROVE IInv'
  BY <1>2, RequestIInv, HandleIInv DEF Step
<1>3. ASSUME NEW f \in Frontends, Step(Client(f) \/ Serve(f)) PROVE IInv'
  BY <1>3, ClientIInv, ServeIInv DEF Step
<1>4. QED
  BY <1>1, <1>2, <1>3, EndIInv DEF Next

\* For any frontends, workloads and faults: whatever is cancelled, timed out or shut
\* down, every registration is still to be returned by the session that made it, or
\* by the shutdown under way (_FrontendSession.handle, lines 108-117).
THEOREM SessionsAccountForRegistrations == Spec => []SessionsHoldRegistrations
<1>1. IInv => SessionsHoldRegistrations
  BY DEF IInv
<1>2. QED
  BY <1>1, InitIInv, NextIInv, PTL DEF Spec

-----------------------------------------------------------------------------
(* Types of what the argument above leaves out: the clients, the answers on *)
(* their way and the cancellations to be delivered.                         *)

LEMMA RequestTyped == ASSUME IInv, TypeOK, NEW c \in Calls, Step(Request(c)) PROVE TypeOK'
<1> USE OwnerAssumption DEF TypeOK, server, Becomes, Links, Outcome, Running
<1>1. CASE Connect(c)
  BY <1>1 DEF Connect, Step
<1>2. CASE Connected(c)
  <2>1. UNCHANGED <<asks, pending, up, down, task, cancelled, tokens, todo, registered, faults>>
    BY <1>2 DEF Connected, Step
  <2>2. /\ call' = [call EXCEPT ![c] = "idle"] /\ daemon' = "up"
        /\ link' = [link EXCEPT ![Owner[c]] = "open"]
        /\ reader' = [reader EXCEPT ![Owner[c]] = "reads"]
        /\ session' = [session EXCEPT ![Owner[c]] = "open"]
    BY <1>2 DEF Connected
  <2>3. QED
    BY <2>1, <2>2
<1>3. CASE ConnectFails(c)
  <2>1. UNCHANGED <<reader, asks, pending, up, down, server, faults>>
    BY <1>3 DEF ConnectFails, Step
  <2>2. link' = [link EXCEPT ![Owner[c]] = "unconnected"]
    BY <1>3 DEF ConnectFails
  <2>3. \E s \in {"failed", "cancelled"} : call' = [call EXCEPT ![c] = s]
    BY <1>3 DEF ConnectFails
  <2>4. QED
    BY <2>1, <2>2, <2>3
<1>4. CASE Send(c)
  <2>1. Append(up[Owner[c]], c) \in Seq(Calls)
    BY <1>4
  <2>2. QED
    BY <1>4, <2>1 DEF Send, Step
<1>5. CASE SendRaises(c)
  BY <1>5 DEF SendRaises, Step
<1>6. CASE CancelCall(c)
  BY <1>6 DEF CancelCall, Step
<1>7. CASE TimesOut(c)
  BY <1>7 DEF TimesOut, Step
<1>8. QED
  BY <1>1, <1>2, <1>3, <1>4, <1>5, <1>6, <1>7 DEF Step, Request

LEMMA SeqTypes ==
  ASSUME NEW S, NEW s \in Seq(S)
  PROVE  /\ s # <<>> => Head(s) \in S /\ Tail(s) \in Seq(S)
         /\ \A x \in S : Append(s, x) \in Seq(S)
OBVIOUS

LEMMA ClientTyped == ASSUME IInv, TypeOK, NEW f \in Frontends, Step(Client(f)) PROVE TypeOK'
<1> USE OwnerAssumption DEF TypeOK, server, Links, Outcome, Running
<1>1. CASE Receive(f)
  <2> DEFINE answer == Head(down[f])
  <2>1. /\ answer \in [call : Calls, outcome : {"ok", "failed"}]
        /\ Tail(down[f]) \in Seq([call : Calls, outcome : {"ok", "failed"}])
    BY <1>1, SeqTypes DEF Receive
  <2>2. answer.call \in Calls /\ answer.outcome \in {"ok", "failed"}
    BY <2>1
  <2>3. /\ reader' \in [Frontends -> {"none", "reads", "ended"}]
        /\ call' \in [Calls -> Outcome \cup {"idle", "connects", "waits", "timedOut",
                                             "cancelled", "gone"}]
        /\ pending' \in [Frontends -> SUBSET Calls]
    <3>1. CASE UNCHANGED <<reader, call, pending>>
      BY <3>1
    <3>2. CASE ReaderEnds(f, pending[f] \ {answer.call})
      BY <3>2 DEF ReaderEnds
    <3>3. CASE /\ call' = [call EXCEPT ![answer.call] = answer.outcome]
               /\ pending' = [pending EXCEPT ![f] = @ \ {answer.call}]
               /\ UNCHANGED reader
      BY <2>2, <3>3
    <3>4. QED
      BY <1>1, <3>1, <3>2, <3>3 DEF Receive, Becomes
  <2>4. QED
    BY <1>1, <2>1, <2>3 DEF Receive, Step
<1>2. CASE EndOfFile(f)
  BY <1>2 DEF EndOfFile, ReaderEnds, Step
<1>3. CASE Leave(f)
  <2>1. <<>> \in Seq([call : Calls, outcome : Outcome])
    BY EmptySeq
  <2>2. QED
    BY <1>3, <2>1 DEF Leave, Step
<1>4. QED
  BY <1>1, <1>2, <1>3 DEF Step, Client

\* Typed has the rest of what the daemon's steps change.
LEMMA HandleTyped == ASSUME IInv, TypeOK, NEW c \in Calls, Step(Handle(c)) PROVE TypeOK'
<1>1. Typed'
  BY HandleIInv DEF IInv
<1>2. UNCHANGED <<link, reader, call, pending, faults>>
  BY DEF Step, Handle, Register, RegisterForce, OldStopped, Started, Deregister,
     LastStopped, Reply, Unwind, client
<1>3. down' \in [Frontends -> Seq([call : Calls, outcome : Outcome])]
  <2>1. CASE Reply(c)
    <3>1. [call |-> c, outcome |-> task[c]] \in [call : Calls, outcome : Outcome]
      BY <2>1 DEF Reply, Outcome
    <3>2. down[Owner[c]] \in Seq([call : Calls, outcome : Outcome])
      BY OwnerAssumption DEF TypeOK
    <3>3. Append(down[Owner[c]], [call |-> c, outcome |-> task[c]])
            \in Seq([call : Calls, outcome : Outcome])
      BY <3>1, <3>2, SeqTypes
    <3>4. QED
      BY <2>1, <3>3 DEF Reply, TypeOK
  <2>2. CASE ~Reply(c)
    BY <2>2 DEF Step, Handle, Register, RegisterForce, OldStopped, Started, Deregister,
       LastStopped, Unwind, TypeOK
  <2>3. QED
    BY <2>1, <2>2
<1>4. cancelled' \subseteq {d \in Calls : Running(d)'}
  <2>1. CASE Unwind(c)
    BY <2>1 DEF Unwind, Goes, Running, TypeOK
  <2>2. CASE ~Unwind(c)
    <3>1. UNCHANGED cancelled /\ c \notin cancelled
      BY <2>2 DEF Step, Handle, Register, RegisterForce, OldStopped, Started, Deregister,
         LastStopped, Reply, Due
    <3>2. \A d \in Calls \ {c} : task'[d] = task[d]
      BY <2>2 DEF Step, Handle, Register, RegisterForce, OldStopped, Started, Deregister,
         LastStopped, Reply, Goes, Registered, TypeOK
    <3>3. QED
      BY <3>1, <3>2 DEF TypeOK, Running
  <2>3. QED
    BY <2>1, <2>2
<1>5. QED
  BY <1>1, <1>2, <1>3, <1>4 DEF TypeOK, Typed

LEMMA ServeTyped == ASSUME IInv, TypeOK, NEW f \in Frontends, Step(Serve(f)) PROVE TypeOK'
<1>1. Typed'
  BY ServeIInv DEF IInv
<1>2. UNCHANGED <<link, reader, call, pending, down, faults>>
  BY DEF Step, Serve, Take, Disconnect, Gathered, Clean, client
<1>3. cancelled' \subseteq {d \in Calls : Running(d)'}
  <2>1. CASE Take(f)
    BY <2>1 DEF Take, Goes, TypeOK, Running
  <2>2. CASE Disconnect(f)
    BY <2>2 DEF Disconnect, Cancelled, TypeOK, Running
  <2>3. CASE Gathered(f) \/ Clean(f)
    BY <2>3 DEF Gathered, Clean, TypeOK, Running
  <2>4. QED
    BY <2>1, <2>2, <2>3 DEF Step, Serve
<1>4. QED
  BY <1>1, <1>2, <1>3 DEF TypeOK, Typed

LEMMA EndTyped == ASSUME IInv, TypeOK, Step(Shutdown \/ ShutDown \/ Crash) PROVE TypeOK'
<1>1. Typed'
  BY EndIInv DEF IInv
<1>2. UNCHANGED <<reader, call, pending, down, faults>>
  BY DEF Step, Shutdown, ShutDown, Crash, Gone, client
<1>3. link' \in [Frontends -> {"none", "connecting", "unconnected", "open", "lost", "gone"}]
  BY DEF Step, Shutdown, ShutDown, Crash, Gone, client, TypeOK
<1>4. cancelled' \subseteq {d \in Calls : Running(d)'}
  BY DEF Step, Shutdown, ShutDown, Crash, Cancelled, TypeOK, Running
<1>5. QED
  BY <1>1, <1>2, <1>3, <1>4 DEF TypeOK, Typed

\* Connections, calls, answers under way, tasks and registrations keep their types, and
\* only tasks that run have a cancellation to come (_pending_tasks, lines 108-117).
THEOREM SessionsTyped == Spec => []TypeOK
<1>1. Init => TypeOK
  <2>1. <<>> \in Seq(Calls) /\ <<>> \in Seq([call : Calls, outcome : Outcome])
    BY EmptySeq
  <2>2. QED
    BY <2>1 DEF Init, TypeOK, Outcome
<1>2. IInv /\ TypeOK /\ [Next]_vars => TypeOK'
  <2> SUFFICES ASSUME IInv, TypeOK, [Next]_vars PROVE TypeOK'
    OBVIOUS
  <2>1. CASE UNCHANGED vars
    BY <2>1 DEF vars, TypeOK, Running
  <2>2. ASSUME NEW c \in Calls, Step(Request(c) \/ Handle(c)) PROVE TypeOK'
    BY <2>2, RequestTyped, HandleTyped DEF Step
  <2>3. ASSUME NEW f \in Frontends, Step(Client(f) \/ Serve(f)) PROVE TypeOK'
    BY <2>3, ClientTyped, ServeTyped DEF Step
  <2>4. QED
    BY <2>1, <2>2, <2>3, EndTyped DEF Next
<1>3. QED
  BY <1>1, <1>2, InitIInv, NextIInv, PTL DEF Spec

-----------------------------------------------------------------------------
(* Who may take a registration away *)

\* A session knows, and returns at its end, registrations of its own frontend only.
TokensAreOwn == \A f \in Frontends : tokens[f] \subseteq Of(f) /\ todo[f] \subseteq Of(f)

LEMMA NextTokensAreOwn == IInv /\ TokensAreOwn /\ [Next]_vars => TokensAreOwn'
<1> SUFFICES ASSUME IInv, TokensAreOwn, [Next]_vars PROVE TokensAreOwn'
  OBVIOUS
<1>1. tokens \in [Frontends -> SUBSET Calls] /\ todo \in [Frontends -> SUBSET Calls]
  BY DEF IInv, Typed
<1>2. CASE UNCHANGED <<tokens, todo>>
  BY <1>2 DEF TokensAreOwn
<1>3. ASSUME NEW c \in Calls, Step(Request(c)) PROVE UNCHANGED <<tokens, todo>>
  BY <1>3 DEF Step, Request, Connect, Connected, ConnectFails, Send, SendRaises, CancelCall,
     TimesOut, server
<1>4. ASSUME NEW c \in Calls, Step(Handle(c)) PROVE TokensAreOwn'
  <2>1. todo' = todo
    BY <1>4 DEF Step, Handle, Register, RegisterForce, OldStopped, Started, Deregister,
       LastStopped, Reply, Unwind
  <2>2. \/ tokens' = tokens
        \/ tokens' = [tokens EXCEPT ![Owner[c]] = @ \cup {c}]
        \/ tokens' = [tokens EXCEPT ![Owner[c]] = @ \ {asks[c].arg}]
    BY <1>4 DEF Step, Handle, Register, RegisterForce, OldStopped, Started, Deregister,
       LastStopped, Reply, Unwind, Registered
  <2> QED
    BY <1>1, <2>1, <2>2 DEF TokensAreOwn, Of
<1>5. ASSUME NEW f \in Frontends, Step(Client(f)) PROVE UNCHANGED <<tokens, todo>>
  BY <1>5 DEF Step, Client, Receive, EndOfFile, Leave, server
<1>6. ASSUME NEW f \in Frontends, Step(Serve(f)) PROVE TokensAreOwn'
  <2>1. CASE Take(f) \/ Disconnect(f)
    BY <1>2, <2>1 DEF Take, Disconnect
  <2>2. CASE Gathered(f)
    BY <1>1, <2>2 DEF Gathered, TokensAreOwn
  <2>3. CASE Clean(f)
    <3>1. /\ tokens' \in {tokens, [tokens EXCEPT ![f] = {}]}
          /\ todo' = todo \/ \E k \in todo[f] : todo' = [todo EXCEPT ![f] = @ \ {k}]
      BY <2>3 DEF Clean, Remaining
    <3> QED
      BY <1>1, <3>1 DEF TokensAreOwn
  <2> QED
    BY <1>6, <2>1, <2>2, <2>3 DEF Step, Serve
<1>7. CASE Step(Shutdown \/ ShutDown \/ Crash)
  BY <1>1, <1>7 DEF Step, Shutdown, ShutDown, Crash, Gone, TokensAreOwn
<1>8. CASE UNCHANGED vars
  BY <1>2, <1>8 DEF vars
<1> QED
  BY <1>2, <1>3, <1>4, <1>5, <1>6, <1>7, <1>8 DEF Next, Step

LEMMA InitTokensAreOwn == Init => TokensAreOwn
BY DEF Init, TokensAreOwn

\* What may take the registration k away in a step.
TakenAway(k) ==
  \/ session[Owner[k]] = "cleans" \/ daemon' = "gone"
  \/ \E c \in Calls : asks[c].op = "force" /\ task'[c] # task[c]
  \/ \E c \in Of(Owner[k]) : asks[c].arg = k /\ task'[c] # task[c]

LEMMA StepRespects ==
  ASSUME IInv, TokensAreOwn, [Next]_vars, NEW k \in registered \ registered'
  PROVE  TakenAway(k)
<1>1. k \in Calls /\ task \in [Calls -> Outcome \cup {"none", "queued", "stopOld", "starting",
                                      "stopLast", "done"}]
  BY DEF IInv, Typed
<1>2. registered' # registered
  OBVIOUS
<1>3. ASSUME NEW c \in Calls, Step(Request(c)) PROVE FALSE
  BY <1>2, <1>3 DEF Step, Request, Connect, Connected, ConnectFails, Send, SendRaises,
     CancelCall, TimesOut, server
<1>4. ASSUME NEW c \in Calls, Step(Handle(c)) PROVE TakenAway(k)
  <2>1. CASE RegisterForce(c)
    <3>1. asks[c].op = "force" /\ task'[c] # task[c]
      BY <1>1, <2>1 DEF RegisterForce, Due, Goes
    <3> QED
      BY <3>1 DEF TakenAway
  <2>2. CASE Deregister(c)
    <3>1. asks[c].op = "deregister" /\ k = asks[c].arg
      BY <1>2, <2>2 DEF Deregister, Unregistered
    <3>2. task'[c] # task[c]
      BY <1>1, <2>2 DEF Deregister, Due, Goes
    <3>3. Owner[k] = Owner[c]
      BY <3>1, WorkloadsAssumption DEF IInv, Typed
    <3> QED
      BY <3>1, <3>2, <3>3 DEF TakenAway, Of
  <2>3. CASE Register(c) \/ OldStopped(c) \/ Started(c) \/ LastStopped(c) \/ Reply(c)
             \/ Unwind(c)
    BY <2>3 DEF Register, OldStopped, Started, LastStopped, Reply, Unwind, Registered
  <2> QED
    BY <1>4, <2>1, <2>2, <2>3 DEF Step, Handle
<1>5. ASSUME NEW f \in Frontends, Step(Client(f)) PROVE FALSE
  BY <1>2, <1>5 DEF Step, Client, Receive, EndOfFile, Leave, server
<1>6. ASSUME NEW f \in Frontends, Step(Serve(f)) PROVE TakenAway(k)
  <2>1. Clean(f)
    BY <1>2, <1>6 DEF Step, Serve, Take, Disconnect, Gathered
  <2>2. session[f] = "cleans" /\ k \in todo[f]
    BY <1>2, <2>1 DEF Clean, Unregistered
  <2>3. Owner[k] = f
    BY <2>2 DEF TokensAreOwn, Of
  <2> QED
    BY <2>2, <2>3 DEF TakenAway
<1>7. CASE Step(Shutdown \/ ShutDown \/ Crash)
  BY <1>2, <1>7 DEF Step, Shutdown, ShutDown, Crash, Gone, TakenAway
<1>8. CASE UNCHANGED vars
  BY <1>2, <1>8 DEF vars
<1> QED
  BY <1>3, <1>4, <1>5, <1>6, <1>7, <1>8 DEF Next, Step

\* A registration ends by its own frontend, which returns it or is gone, by somebody's
\* force, or with the daemon (_handle_request, _cleanup): the end of a session takes no
\* other's away, whatever is cancelled, times out or crashes meanwhile.
THEOREM SessionsRespectRegistrations == Spec => RegistrationsAreRespected
<1>1. IInv /\ TokensAreOwn /\ [Next]_vars =>
        [\A k \in registered \ registered' :
           \/ session[Owner[k]] = "cleans" \/ daemon' = "gone"
           \/ \E c \in Calls : asks[c].op = "force" /\ task'[c] # task[c]
           \/ \E c \in Of(Owner[k]) : asks[c].arg = k /\ task'[c] # task[c]]_vars
  BY StepRespects DEF TakenAway
<1> QED
  BY <1>1, InitIInv, NextIInv, InitTokensAreOwn, NextTokensAreOwn, PTL
     DEF Spec, RegistrationsAreRespected
=============================================================================
