--------------------------- MODULE ProjectRegistry ---------------------------
(***************************************************************************)
(* The refcounted registry of the daemon (project_registry.py).  Sessions  *)
(* run register and deregister as asyncio tasks: a task runs atomically    *)
(* between two awaits, so one action here is the code between two awaits.  *)
(* The registry's asyncio.Lock is held across the awaits of LspClient's    *)
(* start() and stop(), and a task can be cancelled at any await, because   *)
(* a session cancels its requests when its frontend disconnects.           *)
(***************************************************************************)
EXTENDS Integers, FiniteSets

CONSTANTS
  Projects,   \* project ids
  Tasks,      \* asyncio tasks that call the registry
  Tokens,     \* registration ids; uuid4 never repeats, so they bound the registers
  Clients,    \* LspClient objects, each with the server process it spawned
  None,       \* Python's None
  Faults      \* which of the faults below may happen in this instance

(***************************************************************************)
(* "cancel": the frontend of a request disconnects while it runs.          *)
(* "configure": adapter.configure raises ValueError, or there is no        *)
(* adapter and no command (lines 106-129).                                 *)
(* "startError": the process is spawned but the handshake raises.          *)
(***************************************************************************)
ASSUME FaultsAssumption == Faults \subseteq {"cancel", "configure", "startError"}
ASSUME NoneAssumption == None \notin Projects \cup Tasks \cup Tokens \cup Clients
ASSUME TokensAssumption == IsFiniteSet(Tokens)

VARIABLES
  projects,       \* _projects: project -> entry, or Absent when it has none
  registrations,  \* _registrations: token -> project, or None
  issued,         \* tokens handed out so far
  running,        \* clients whose server process was spawned and not stopped
  lock,           \* the task that holds _lock across an await, or None
  pc,             \* where each task is suspended
  target,         \* the project of a task's call
  force,          \* the force flag of a task's register
  token,          \* the registration id a task creates, or returns
  client,         \* the client a task is starting or stopping
  closed          \* shutdown_all has run

vars == <<projects, registrations, issued, running, lock, pc, target, force,
          token, client, closed>>

Entry == [client : Clients \cup {None}, refcount : Int,
          registration_ids : SUBSET Tokens,
          status : {"absent", "starting", "started", "stopped"}]
Absent == [client |-> None, refcount |-> 0, registration_ids |-> {},
           status |-> "absent"]

\* Every suspension inside the lock: the server of the entry that a force
\* register replaces, start(), the stop() of a start that timed out, and the
\* stop() of the last deregister.
Suspended == {"stopOld", "starting", "stopNew", "stopLast"}
Pc == {"idle", "register", "deregister"} \cup Suspended

Live(p) == {k \in Tokens : registrations[k] = p}
Owned == {projects[p].client : p \in Projects} \cup {client[t] : t \in Tasks}
Fresh == Clients \ (running \cup Owned)

Init ==
  /\ projects = [p \in Projects |-> Absent]
  /\ registrations = [k \in Tokens |-> None]
  /\ issued = {}
  /\ running = {}
  /\ lock = None
  /\ pc = [t \in Tasks |-> "idle"]
  /\ target = [t \in Tasks |-> None]
  /\ force = [t \in Tasks |-> FALSE]
  /\ token = [t \in Tasks |-> None]
  /\ client = [t \in Tasks |-> None]
  /\ closed = FALSE

-----------------------------------------------------------------------------
(* Calls: a session dispatches a request (daemon.py, _handle_method). *)

CallRegister(t, p, f, k) ==
  /\ pc[t] = "idle" /\ ~closed
  /\ k \notin issued
  /\ issued' = issued \cup {k}
  /\ pc' = [pc EXCEPT ![t] = "register"]
  /\ target' = [target EXCEPT ![t] = p]
  /\ force' = [force EXCEPT ![t] = f]
  /\ token' = [token EXCEPT ![t] = k]
  /\ UNCHANGED <<projects, registrations, running, lock, client, closed>>

CallDeregister(t, k) ==
  /\ pc[t] = "idle" /\ ~closed
  /\ k \in issued
  /\ pc' = [pc EXCEPT ![t] = "deregister"]
  /\ token' = [token EXCEPT ![t] = k]
  /\ UNCHANGED <<projects, registrations, issued, running, lock, target, force,
                 client, closed>>

\* Mutant: the lock is not released.
ReturnHoldingLock(t) ==
  /\ pc' = [pc EXCEPT ![t] = "idle"]
  /\ client' = [client EXCEPT ![t] = None]
  /\ lock' = lock

\* A call returns, or raises; what it held of the lock is released.
Return(t) ==
  /\ pc' = [pc EXCEPT ![t] = "idle"]
  /\ client' = [client EXCEPT ![t] = None]
  /\ lock' = None

\* A call suspends inside the lock, on the client c.
Suspend(t, where, c) ==
  /\ pc' = [pc EXCEPT ![t] = where]
  /\ client' = [client EXCEPT ![t] = c]
  /\ lock' = t

\* Mutant: the process is left behind.
LeftRunning(t) == running

\* The processes still running after client.stop() has returned.
AfterStop(t) == running \ {client[t]}

-----------------------------------------------------------------------------
(* register *)

\* From the adapter's configuration to the first await of client.start().
\* table is _projects as the lines before left it.
ConfigureFails(t, table) ==
  /\ "configure" \in Faults
  /\ projects' = table
  /\ Return(t)
  /\ UNCHANGED issued

Launch(t, table) ==
  \E c \in Fresh :
    /\ projects' = [table EXCEPT ![target[t]] = [Absent EXCEPT !.status = "starting"]]
    /\ Suspend(t, "starting", c)
    /\ UNCHANGED issued

\* Mutant: the status of a failed start.
StoppedAsError(entry) == [entry EXCEPT !.client = None, !.status = "error"]

\* _stop_entry, once the client has stopped.
Stopped(entry) == [entry EXCEPT !.client = None, !.status = "stopped"]

\* The rest of register once no entry is in the way; left are the processes then
\* running.
Begin(t, table, left) ==
  \/ ConfigureFails(t, table) /\ running' = left
  \/ Launch(t, table) /\ running' = left \cup {client'[t]}

\* The entry after one more registration.
Joined(entry, k) ==
  [entry EXCEPT !.registration_ids = @ \cup {k},
                !.refcount = @ + 1]

RegisterHit(t) ==
  LET p == target[t] IN
  /\ pc[t] = "register" /\ lock = None
  /\ projects[p] # Absent /\ ~force[t]
  /\ projects' = [projects EXCEPT ![p] = Joined(@, token[t])]
  /\ registrations' = [registrations EXCEPT ![token[t]] = p]
  /\ Return(t)
  /\ UNCHANGED <<issued, running, target, force, token, closed>>

RegisterNew(t) ==
  /\ pc[t] = "register" /\ lock = None
  /\ projects[target[t]] = Absent
  /\ Begin(t, projects, running)
  /\ UNCHANGED <<registrations, target, force, token, closed>>

\* Mutant: the old tokens stay good.
InvalidatedNone(p) == registrations

\* The old registrations are invalidated before the old server is stopped.
Invalidated(p) ==
  [k \in Tokens |-> IF k \in projects[p].registration_ids THEN None
                    ELSE registrations[k]]

RegisterForce(t) ==
  LET p == target[t] IN
  /\ pc[t] = "register" /\ lock = None
  /\ projects[p] # Absent /\ force[t]
  /\ projects[p].client # None
  /\ registrations' = Invalidated(p)
  /\ Suspend(t, "stopOld", projects[p].client)
  /\ UNCHANGED <<projects, issued, running, target, force, token, closed>>

\* The old entry has no client: _stop_entry does not await.
RegisterForceIdle(t) ==
  LET p == target[t] IN
  /\ pc[t] = "register" /\ lock = None
  /\ projects[p] # Absent /\ force[t]
  /\ projects[p].client = None
  /\ registrations' = Invalidated(p)
  /\ Begin(t, [projects EXCEPT ![p] = Stopped(@)], running)
  /\ UNCHANGED <<target, force, token, closed>>

OldStopped(t) ==
  /\ pc[t] = "stopOld"
  /\ Begin(t, [projects EXCEPT ![target[t]] = Stopped(@)], AfterStop(t))
  /\ UNCHANGED <<registrations, target, force, token, closed>>

StartSucceeds(t) ==
  LET p == target[t] IN
  /\ pc[t] = "starting"
  /\ projects' = [projects EXCEPT ![p] =
       [client |-> client[t], refcount |-> 1, registration_ids |-> {token[t]},
        status |-> "started"]]
  /\ registrations' = [registrations EXCEPT ![token[t]] = p]
  /\ Return(t)
  /\ UNCHANGED <<issued, running, target, force, token, closed>>

\* The entry is deleted and the error reported.  Nothing stops the client:
\* a process that was spawned goes on running.
StartRaises(t) ==
  /\ pc[t] = "starting"
  /\ running' \in {AfterStop(t)} \cup
                  (IF "startError" \in Faults THEN {running} ELSE {})
  /\ projects' = [projects EXCEPT ![target[t]] = Absent]
  /\ Return(t)
  /\ UNCHANGED <<registrations, issued, target, force, token, closed>>

StartTimesOut(t) ==
  /\ pc[t] = "starting"
  /\ pc' = [pc EXCEPT ![t] = "stopNew"]
  /\ UNCHANGED <<projects, registrations, issued, running, lock, target, force,
                 token, client, closed>>

NewStopped(t) ==
  /\ pc[t] = "stopNew"
  /\ running' = AfterStop(t)
  /\ projects' = [projects EXCEPT ![target[t]] = Absent]
  /\ Return(t)
  /\ UNCHANGED <<registrations, issued, target, force, token, closed>>

-----------------------------------------------------------------------------
(* deregister *)

DeregisterUnknown(t) ==
  /\ pc[t] = "deregister" /\ lock = None
  /\ registrations[token[t]] = None
  /\ Return(t)
  /\ UNCHANGED <<projects, registrations, issued, running, target, force, token,
                 closed>>

\* The entry after one registration is returned.
Released(entry, k) ==
  [entry EXCEPT !.registration_ids = @ \ {k},
                !.refcount = @ - 1]

\* Mutant: the server is stopped one registration early.
LastTooEarly(entry) == entry.refcount - 1 <= 1

\* The registration being returned is the last of the entry.
IsLast(entry) == entry.refcount - 1 <= 0

\* Lines 187-190 return early when the project is gone.
DeregisterShared(t) ==
  LET k == token[t]
      p == registrations[k] IN
  /\ pc[t] = "deregister" /\ lock = None
  /\ p # None
  /\ projects[p] # Absent => ~IsLast(projects[p])
  /\ registrations' = [registrations EXCEPT ![k] = None]
  /\ projects' = IF projects[p] = Absent THEN projects
                 ELSE [projects EXCEPT ![p] = Released(@, k)]
  /\ Return(t)
  /\ UNCHANGED <<issued, running, target, force, token, closed>>

DeregisterLast(t) ==
  LET k == token[t]
      p == registrations[k]
      held == projects[p].client IN
  /\ pc[t] = "deregister" /\ lock = None
  /\ p # None /\ projects[p] # Absent /\ IsLast(projects[p])
  /\ registrations' = [registrations EXCEPT ![k] = None]
  /\ target' = [target EXCEPT ![t] = p]
  /\ \/ /\ held # None
        /\ projects' = [projects EXCEPT ![p] = Released(@, k)]
        /\ Suspend(t, "stopLast", held)
     \/ /\ held = None   \* _stop_entry does not await
        /\ projects' = [projects EXCEPT ![p] = Absent]
        /\ Return(t)
  /\ UNCHANGED <<issued, running, force, token, closed>>

LastStopped(t) ==
  /\ pc[t] = "stopLast"
  /\ running' = AfterStop(t)
  /\ projects' = [projects EXCEPT ![target[t]] = Absent]
  /\ Return(t)
  /\ UNCHANGED <<registrations, issued, target, force, token, closed>>

-----------------------------------------------------------------------------
(* Cancellation: asyncio raises CancelledError at the await.  No handler   *)
(* of the registry catches it, since it is not an Exception.               *)

CancelWaiting(t) ==
  /\ "cancel" \in Faults
  /\ pc[t] \in {"register", "deregister"}
  /\ pc' = [pc EXCEPT ![t] = "idle"]
  /\ UNCHANGED <<projects, registrations, issued, running, lock, target, force,
                 token, client, closed>>

\* start() or stop() is cut short: the entry stays as the last assignment left
\* it, and the process may already have ended, or not.
CancelSuspended(t) ==
  /\ "cancel" \in Faults
  /\ pc[t] \in Suspended
  /\ running' \in {running, AfterStop(t)}
  /\ Return(t)
  /\ UNCHANGED <<projects, registrations, issued, target, force, token, closed>>

\* The daemon has cancelled and awaited its sessions (daemon.py, run) before
\* it calls shutdown_all, which takes no lock.
ShutdownAll ==
  /\ ~closed /\ \A t \in Tasks : pc[t] = "idle"
  /\ closed' = TRUE
  /\ running' = running \ {projects[p].client : p \in Projects}
  /\ projects' = [p \in Projects |-> Absent]
  /\ registrations' = [k \in Tokens |-> None]
  /\ UNCHANGED <<issued, lock, pc, target, force, token, client>>

-----------------------------------------------------------------------------
Call(t) == \/ \E p \in Projects, f \in BOOLEAN, k \in Tokens : CallRegister(t, p, f, k)
           \/ \E k \in Tokens : CallDeregister(t, k)
Enter(t) == \/ RegisterHit(t) \/ RegisterNew(t) \/ RegisterForce(t)
            \/ RegisterForceIdle(t)
            \/ DeregisterUnknown(t) \/ DeregisterShared(t) \/ DeregisterLast(t)
Resume(t) == \/ OldStopped(t) \/ StartSucceeds(t) \/ StartRaises(t)
             \/ StartTimesOut(t) \/ NewStopped(t) \/ LastStopped(t)
Cancel(t) == CancelWaiting(t) \/ CancelSuspended(t)

Next == ShutdownAll \/ \E t \in Tasks : Call(t) \/ Enter(t) \/ Resume(t) \/ Cancel(t)

Spec == Init /\ [][Next]_vars

\* start() is bounded by wait_for, every await of stop() by a timeout or by a
\* kill, and asyncio.Lock serves its waiters first in, first out.
Fairness == \A t \in Tasks : SF_vars(Enter(t)) /\ WF_vars(Resume(t))
FairSpec == Spec /\ Fairness

-----------------------------------------------------------------------------
(* What the registry promises, with every fault. *)

TypeOK ==
  /\ projects \in [Projects -> Entry]
  /\ registrations \in [Tokens -> Projects \cup {None}]
  /\ issued \subseteq Tokens
  /\ running \subseteq Clients
  /\ lock \in Tasks \cup {None}
  /\ pc \in [Tasks -> Pc]
  /\ target \in [Tasks -> Projects \cup {None}]
  /\ force \in [Tasks -> BOOLEAN]
  /\ token \in [Tasks -> Tokens \cup {None}]
  /\ client \in [Tasks -> Clients \cup {None}]
  /\ closed \in BOOLEAN

\* A token the registry knows names an entry that lists it, so deregister never
\* takes the early return of lines 188-190 and the discard of line 192 always
\* removes something.
TokenNamesEntry ==
  \A k \in Tokens : LET p == registrations[k] IN
    p # None => /\ projects[p] # Absent
                /\ k \in projects[p].registration_ids

\* The counter and the token set of an entry agree at every await, whatever
\* start, stop or cancellation does (lines 88-89, 163-164, 192-193).
RefcountIsTokenCount ==
  \A p \in Projects :
    projects[p].refcount = Cardinality(projects[p].registration_ids)

\* While a task starts or stops the server of a project, no registration names
\* that project: a force register has invalidated them all (lines 101-103), a
\* deregister stops only after the last one (lines 198-199).
NobodyServedByThePending ==
  \A t \in Tasks : pc[t] \in Suspended => Live(target[t]) = {}

\* A registration is served by the client it was made with for as long as it is
\* known: neither the calls of other sessions nor faults replace the server
\* under a token that is still good (README.md, lsp_register_project).
SameServerWhileRegistered ==
  [][\A k \in Tokens : LET p == registrations[k] IN
       p # None /\ registrations'[k] = p => projects'[p].client = projects[p].client]_vars

-----------------------------------------------------------------------------
(* What it promises when no call is cut short. *)

\* register returns a token only with a server, and the server runs until the
\* token is returned or invalidated.
RegisteredIsServed ==
  \A p \in Projects : Live(p) # {} => projects[p].client \in running

\* Every server process belongs to an entry or to the task starting it, so that
\* deregister or shutdown_all will find it.
EveryServerIsOwned == running \subseteq Owned

\* Every call of the registry returns, however many wait for the lock.
CallsReturn == \A t \in Tasks : pc[t] # "idle" ~> pc[t] = "idle"

\* Seen from the sessions, the registry is a lease service: a server is opened
\* by the first lease, shared by the next, closed after the last one and never
\* before, and it is always closed in the end.
Lease == INSTANCE ServerLease WITH
  holds <- registrations, serves <- [p \in Projects |-> projects[p].client]
ImplementsLease == Lease!Spec
=============================================================================
