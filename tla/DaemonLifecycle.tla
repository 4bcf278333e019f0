--------------------------- MODULE DaemonLifecycle ---------------------------
(***************************************************************************)
(* One daemon per user (daemon.py, Daemon.run) and the frontends that      *)
(* start it and connect to it (daemon_client.py, DaemonClient.connect),    *)
(* as the processes they are: they share only the lock file and the path   *)
(* of the socket, and interleave at every system call on either.  Daemons  *)
(* are spawned by frontends, lose the race for the lock, are signalled,    *)
(* crash, and shut down when their last frontend leaves.                   *)
(***************************************************************************)
EXTENDS FiniteSets

CONSTANTS
  Frontends,   \* frontend processes; each makes one connection in its life
  Daemons,     \* daemon processes; a frontend spawns at most one
  None,
  Faults,      \* "signal": SIGTERM or SIGINT; "crash": a daemon dies at any point
  WaitsForConnections  \* Server.wait_closed awaits the open connections, as it
                       \* does from Python 3.12 on, or returns at once (3.11)

ASSUME NoneAssumption == None \notin Frontends \cup Daemons
ASSUME FaultsAssumption == Faults \subseteq {"signal", "crash"}
ASSUME WaitsAssumption == WaitsForConnections \in BOOLEAN

VARIABLES
  dpc,       \* where each daemon is in run()
  lock,      \* the daemon that holds daemon.lock
  sock,      \* the daemon whose socket daemon.sock is, if it exists
  sessions,  \* _frontends of each daemon
  had,       \* _had_client
  shutdown,  \* _shutdown_event: "no", or who set it
  fpc,       \* where each frontend is in connect()
  conn       \* the daemon a frontend is connected to

vars == <<dpc, lock, sock, sessions, had, shutdown, fpc, conn>>
paths == <<lock, sock>>
frontends == <<fpc, conn>>
served == <<sessions, had, shutdown>>

\* run() from the lock to its release.
Holding == {"locked", "bound", "serving", "closing", "stopping", "unlinked"}
Ended == {"none", "exited", "crashed"}

Listening(d) == dpc[d] = "serving"

\* Mutant: a failed attempt is taken for a connection.
Assumed == TRUE

\* What connect() needs: the socket file, and a daemon that listens on it.
Connectable == sock # None /\ Listening(sock)

Init ==
  /\ dpc = [d \in Daemons |-> "none"]
  /\ lock = None /\ sock = None
  /\ sessions = [d \in Daemons |-> {}]
  /\ had = [d \in Daemons |-> FALSE]
  /\ shutdown = [d \in Daemons |-> "no"]
  /\ fpc = [f \in Frontends |-> "idle"]
  /\ conn = [f \in Frontends |-> None]

-----------------------------------------------------------------------------
(* Frontends *)

\* _try_connect: the kernel accepts the connection, the daemon will see it later.
Connect(f) ==
  /\ Connectable
  /\ conn' = [conn EXCEPT ![f] = sock]
  /\ fpc' = [fpc EXCEPT ![f] = "up"]

\* The first attempt: no socket, or one that nobody listens on, is cleared away next.
Probe(f) ==
  /\ fpc[f] = "idle"
  /\ \/ Connect(f)
     \/ ~Connectable /\ fpc' = [fpc EXCEPT ![f] = "stale"] /\ UNCHANGED conn
  /\ UNCHANGED <<dpc, paths, served>>

\* Whatever socket is there by now is removed, and a daemon is spawned.
Spawn(f) ==
  /\ fpc[f] = "stale"
  /\ sock' = None
  /\ \E d \in Daemons :
       /\ dpc[d] = "none"
       /\ dpc' = [dpc EXCEPT ![d] = "starting"]
  /\ fpc' = [fpc EXCEPT ![f] = "polling"]
  /\ UNCHANGED <<lock, served, conn>>

\* One of the 50 polls finds a daemon, not always the one this frontend spawned.
Poll(f) ==
  /\ fpc[f] = "polling"
  /\ Connect(f)
  /\ UNCHANGED <<dpc, paths, served>>

\* None of them does, in 5s.
GiveUp(f) ==
  /\ fpc[f] = "polling" /\ ~Connectable
  /\ fpc' = [fpc EXCEPT ![f] = "failed"]
  /\ UNCHANGED <<dpc, paths, served, conn>>

\* The frontend's process ends.
Leave(f) ==
  /\ fpc[f] # "gone"
  /\ fpc' = [fpc EXCEPT ![f] = "gone"]
  /\ conn' = [conn EXCEPT ![f] = None]
  /\ UNCHANGED <<dpc, paths, served>>

\* The connections of some frontends are closed under them.
Drop(fs) ==
  /\ conn' = [f \in Frontends |-> IF f \in fs THEN None ELSE conn[f]]
  /\ fpc' = [f \in Frontends |-> IF f \in fs THEN "lost" ELSE fpc[f]]
Peers(d) == {f \in Frontends : conn[f] = d}

-----------------------------------------------------------------------------
(* A daemon starts. *)

Goto(d, pc) == dpc' = [dpc EXCEPT ![d] = pc]

\* Mutant: the lock is not exclusive.
Unlocked == TRUE

\* Nobody holds the lock.
LockFree == lock = None

\* FileLock.acquire(timeout=0)
Lock(d) ==
  /\ dpc[d] = "starting"
  /\ \/ LockFree /\ lock' = d /\ Goto(d, "locked")
     \/ ~LockFree /\ UNCHANGED lock /\ Goto(d, "exited")
  /\ UNCHANGED <<sock, served, frontends>>

\* The old socket is removed and a new one bound, which refuses until it listens.
Bind(d) ==
  /\ dpc[d] = "locked"
  /\ sock' = d
  /\ Goto(d, "bound")
  /\ UNCHANGED <<lock, served, frontends>>

Listen(d) ==
  /\ dpc[d] = "bound"
  /\ Goto(d, "serving")
  /\ UNCHANGED <<paths, served, frontends>>

-----------------------------------------------------------------------------
(* A daemon serves. *)

\* _handle_connection
Accept(d, f) ==
  /\ dpc[d] = "serving"
  /\ conn[f] = d /\ f \notin sessions[d]
  /\ sessions' = [sessions EXCEPT ![d] = @ \cup {f}]
  /\ had' = [had EXCEPT ![d] = TRUE]
  /\ UNCHANGED <<dpc, paths, shutdown, frontends>>

Set(d, why) ==
  shutdown' = [shutdown EXCEPT ![d] = IF @ = "no" THEN why ELSE @]

\* Mutants: the daemon goes when any frontend leaves, or never.
AnyLeft(left) == TRUE
NeverLast(left) == FALSE

\* No frontend remains.
LastLeft(left) == left = {}

\* A frontend has disconnected: its session cleans up and is removed
\* (remove_frontend).
SessionEnds(d, f) ==
  /\ dpc[d] \in {"serving", "closing"}
  /\ f \in sessions[d] /\ conn[f] # d
  /\ sessions' = [sessions EXCEPT ![d] = @ \ {f}]
  /\ IF LastLeft(sessions[d] \ {f}) THEN Set(d, "left") ELSE UNCHANGED shutdown
  /\ UNCHANGED <<dpc, paths, had, frontends>>

\* _idle_monitor: no frontend ever came.
IdleTimeout(d) ==
  /\ dpc[d] = "serving" /\ ~had[d] /\ shutdown[d] = "no"
  /\ Set(d, "idle")
  /\ UNCHANGED <<dpc, paths, sessions, had, frontends>>

Signal(d) ==
  /\ "signal" \in Faults
  /\ dpc[d] = "serving" /\ shutdown[d] = "no"
  /\ Set(d, "signal")
  /\ UNCHANGED <<dpc, paths, sessions, had, frontends>>

-----------------------------------------------------------------------------
(* A daemon shuts down. *)

\* Server.close: the socket no longer listens, and connections not yet accepted are
\* reset.  From Python 3.13 on it also removes the socket, if it is its own.
Close(d) ==
  /\ dpc[d] = "serving" /\ shutdown[d] # "no"
  /\ Goto(d, "closing")
  /\ Drop(Peers(d) \ sessions[d])
  /\ sock' \in {sock, IF sock = d THEN None ELSE sock}
  /\ UNCHANGED <<lock, served>>

\* Mutant: the daemon does not wait.
AtOnce(d) == TRUE

\* What Server.wait_closed waits for.
NoneOpen(d) == WaitsForConnections => sessions[d] = {}

\* Then the remaining sessions are cancelled, and shutdown_all stops the servers.
Closed(d) ==
  /\ dpc[d] = "closing" /\ NoneOpen(d)
  /\ Goto(d, "stopping")
  /\ Drop(Peers(d))
  /\ sessions' = [sessions EXCEPT ![d] = {}]
  /\ UNCHANGED <<paths, had, shutdown>>

\* Whatever socket is there.
RemoveSocket(d) == sock' = None

Unlink(d) ==
  /\ dpc[d] = "stopping"
  /\ RemoveSocket(d)
  /\ Goto(d, "unlinked")
  /\ UNCHANGED <<lock, served, frontends>>

Release(d) ==
  /\ dpc[d] = "unlinked"
  /\ lock' = None
  /\ Goto(d, "exited")
  /\ UNCHANGED <<sock, served, frontends>>

\* The kernel releases the lock and closes the connections; the path stays.
Crash(d) ==
  /\ "crash" \in Faults
  /\ dpc[d] \notin Ended
  /\ Goto(d, "crashed")
  /\ lock' = IF lock = d THEN None ELSE lock
  /\ sessions' = [sessions EXCEPT ![d] = {}]
  /\ Drop(Peers(d))
  /\ UNCHANGED <<sock, had, shutdown>>

-----------------------------------------------------------------------------
Frontend(f) == Probe(f) \/ Spawn(f) \/ Poll(f) \/ GiveUp(f)
Run(d) == \/ Lock(d) \/ Bind(d) \/ Listen(d) \/ IdleTimeout(d)
          \/ \E f \in Frontends : Accept(d, f) \/ SessionEnds(d, f)
          \/ Close(d) \/ Closed(d) \/ Unlink(d) \/ Release(d)

Next == \/ \E f \in Frontends : Frontend(f) \/ Leave(f)
        \/ \E d \in Daemons : Run(d) \/ Signal(d) \/ Crash(d)

Spec == Init /\ [][Next]_vars

\* Processes go on, and a daemon's event loop takes up what is ready.  No frontend
\* has to start or to leave, and no fault has to happen.
Fairness ==
  /\ \A f \in Frontends : WF_vars(Frontend(f) /\ fpc[f] # "idle")
  /\ \A d \in Daemons : WF_vars(Run(d))
FairSpec == Spec /\ Fairness

-----------------------------------------------------------------------------
(* Properties *)

TypeOK ==
  /\ dpc \in [Daemons -> Holding \cup Ended \cup {"starting"}]
  /\ lock \in Daemons \cup {None} /\ sock \in Daemons \cup {None}
  /\ sessions \in [Daemons -> SUBSET Frontends]
  /\ had \in [Daemons -> BOOLEAN]
  /\ shutdown \in [Daemons -> {"no", "left", "idle", "signal"}]
  /\ fpc \in [Frontends -> {"idle", "stale", "polling", "up", "lost", "failed", "gone"}]
  /\ conn \in [Frontends -> Daemons \cup {None}]
  /\ \A f \in Frontends : fpc[f] = "up" => conn[f] \in Daemons

\* At most one daemon of the user is at work, from before it touches the socket
\* until after it has stopped every LSP server.
OneDaemon == \A d \in Daemons : dpc[d] \in Holding => lock = d

\* No daemon, at any point of its life, takes the socket of another one that lives.
DaemonsSpareEachOther ==
  [][\A d, e \in Daemons :
       dpc'[d] # dpc[d] /\ sock = e /\ sock' # e /\ dpc[d] \notin Ended
         => e = d \/ dpc[e] \in Ended]_vars

\* A daemon that was not killed leaves no socket behind for a frontend to fail on.
NoSocketLeftBehind ==
  \A d \in Daemons : sock = d => dpc[d] \notin {"none", "starting", "locked", "exited"}

\* A session, once accepted, is ended by its frontend or by a crash, not by the daemon
\* that is shutting down around it, whether its last frontend left just before this one
\* came, or it was signalled.
SessionsAreKept ==
  [][\A d \in Daemons, f \in Frontends :
       f \in sessions[d] /\ conn[f] = d /\ dpc'[d] # "crashed" /\ fpc'[f] # "gone"
         => conn'[f] = d]_vars

\* When every frontend is gone no daemon remains, not even one that nobody reached.
DaemonsEnd ==
  (\A f \in Frontends : fpc[f] = "gone")
    ~> \A d \in Daemons : dpc[d] \in Ended
=============================================================================
