------------------------ MODULE DaemonLifecycleProofs ------------------------
(***************************************************************************)
(* Proofs about DaemonLifecycle, for any number of frontends and daemons   *)
(* and with every fault: the lock keeps the daemons apart, and with it     *)
(* their sockets.                                                          *)
(***************************************************************************)
EXTENDS DaemonLifecycle, TLAPS

\* A daemon that has removed its socket does not get it back.
UnlinkedIsUnlinked == \A d \in Daemons : dpc[d] = "unlinked" => sock # d

\* Only a frontend that is up has a connection.
ConnectedIsUp == \A f \in Frontends : conn[f] # None => fpc[f] = "up"

IInv == TypeOK /\ OneDaemon /\ NoSocketLeftBehind /\ UnlinkedIsUnlinked /\ ConnectedIsUp

\* Initially no daemon has been spawned.
LEMMA InitIInv == Init => IInv
BY NoneAssumption DEF Init, IInv, TypeOK, OneDaemon, NoSocketLeftBehind,
   UnlinkedIsUnlinked, ConnectedIsUp, Holding, Ended

\* Closing connections leaves everything else of the frontends alone.
LEMMA DropTyped ==
  ASSUME IInv, NEW fs \in SUBSET Frontends, Drop(fs)
  PROVE  /\ conn' \in [Frontends -> Daemons \cup {None}]
         /\ fpc' \in [Frontends -> {"idle", "stale", "polling", "up", "lost", "failed",
                                    "gone"}]
         /\ \A f \in Frontends : fpc'[f] = "up" => conn'[f] \in Daemons
         /\ ConnectedIsUp'
BY DEF IInv, TypeOK, ConnectedIsUp, Drop

\* A frontend's step: the daemons do not notice, apart from the one it spawns.
LEMMA FrontendIInv ==
  ASSUME IInv, NEW f \in Frontends, Frontend(f) \/ Leave(f)
  PROVE  IInv'
<1> USE NoneAssumption DEF IInv, TypeOK, OneDaemon, NoSocketLeftBehind,
        UnlinkedIsUnlinked, ConnectedIsUp, Holding, Ended, paths, served
<1>1. CASE Probe(f)
  BY <1>1 DEF Probe, Connect, Connectable, Listening
<1>2. CASE Spawn(f)
  BY <1>2 DEF Spawn
<1>3. CASE Poll(f)
  BY <1>3 DEF Poll, Connect, Connectable, Listening
<1>4. CASE GiveUp(f)
  BY <1>4 DEF GiveUp
<1>5. CASE Leave(f)
  BY <1>5 DEF Leave
<1>6. QED
  BY <1>1, <1>2, <1>3, <1>4, <1>5 DEF Frontend

\* A daemon that starts takes the lock before it touches the socket.
LEMMA StartIInv ==
  ASSUME IInv, NEW d \in Daemons, Lock(d) \/ Bind(d) \/ Listen(d)
  PROVE  IInv'
<1> USE NoneAssumption DEF IInv, TypeOK, OneDaemon, NoSocketLeftBehind,
        UnlinkedIsUnlinked, ConnectedIsUp, Holding, Ended, served, frontends, Goto
<1>1. CASE Lock(d)
  BY <1>1 DEF Lock, LockFree
<1>2. CASE Bind(d)
  BY <1>2 DEF Bind
<1>3. CASE Listen(d)
  BY <1>3 DEF Listen, paths
<1>4. QED
  BY <1>1, <1>2, <1>3

\* Serving changes neither the lock nor the socket.
LEMMA ServeIInv ==
  ASSUME IInv, NEW d \in Daemons,
         \/ IdleTimeout(d) \/ Signal(d)
         \/ \E f \in Frontends : Accept(d, f) \/ SessionEnds(d, f)
  PROVE  IInv'
<1> USE DEF IInv, TypeOK, OneDaemon, NoSocketLeftBehind, UnlinkedIsUnlinked,
        ConnectedIsUp, paths, frontends, Set
<1>1. CASE IdleTimeout(d)
  BY <1>1 DEF IdleTimeout
<1>2. CASE Signal(d)
  BY <1>2 DEF Signal
<1>3. ASSUME NEW f \in Frontends, Accept(d, f) PROVE IInv'
  BY <1>3 DEF Accept
<1>4. ASSUME NEW f \in Frontends, SessionEnds(d, f) PROVE IInv'
  BY <1>4 DEF SessionEnds
<1>5. QED
  BY <1>1, <1>2, <1>3, <1>4

\* A daemon that ends gives up its sessions, its socket and then its lock.
LEMMA EndIInv ==
  ASSUME IInv, NEW d \in Daemons,
         Close(d) \/ Closed(d) \/ Unlink(d) \/ Release(d) \/ Crash(d)
  PROVE  IInv'
<1>1. Peers(d) \in SUBSET Frontends /\ Peers(d) \ sessions[d] \in SUBSET Frontends
  BY DEF Peers
<1>2. CASE Close(d)
  <2>1. Drop(Peers(d) \ sessions[d])
    BY <1>2 DEF Close
  <2>2. QED
    BY <1>1, <1>2, <2>1, DropTyped, NoneAssumption
    DEF Close, Goto, served, IInv, TypeOK, OneDaemon, NoSocketLeftBehind,
        UnlinkedIsUnlinked, Holding, Ended
<1>3. CASE Closed(d)
  <2>1. Drop(Peers(d))
    BY <1>3 DEF Closed
  <2>2. QED
    BY <1>1, <1>3, <2>1, DropTyped
    DEF Closed, Goto, paths, IInv, TypeOK, OneDaemon, NoSocketLeftBehind,
        UnlinkedIsUnlinked, Holding, Ended
<1>4. CASE Unlink(d)
  BY <1>4, NoneAssumption
  DEF Unlink, RemoveSocket, Goto, served, frontends, IInv, TypeOK, OneDaemon,
      NoSocketLeftBehind, UnlinkedIsUnlinked, ConnectedIsUp, Holding, Ended
<1>5. CASE Release(d)
  BY <1>5, NoneAssumption
  DEF Release, Goto, served, frontends, IInv, TypeOK, OneDaemon,
      NoSocketLeftBehind, UnlinkedIsUnlinked, ConnectedIsUp, Holding, Ended
<1>6. CASE Crash(d)
  <2>1. Drop(Peers(d))
    BY <1>6 DEF Crash
  <2>2. QED
    BY <1>1, <1>6, <2>1, DropTyped, NoneAssumption
    DEF Crash, Goto, IInv, TypeOK, OneDaemon, NoSocketLeftBehind,
        UnlinkedIsUnlinked, Holding, Ended
<1>7. QED
  BY <1>2, <1>3, <1>4, <1>5, <1>6

\* Every step preserves the invariant.
LEMMA NextIInv == IInv /\ [Next]_vars => IInv'
<1> SUFFICES ASSUME IInv, [Next]_vars PROVE IInv'
  OBVIOUS
<1>1. CASE Next
  BY <1>1, FrontendIInv, StartIInv, ServeIInv, EndIInv DEF Next, Run
<1>2. CASE UNCHANGED vars
  BY <1>2 DEF vars, IInv, TypeOK, OneDaemon, NoSocketLeftBehind, UnlinkedIsUnlinked,
     ConnectedIsUp
<1>3. QED
  BY <1>1, <1>2

\* Type correctness, mutual exclusion of the daemons, and: a daemon that was not killed
\* leaves no socket behind.
THEOREM DaemonsSafe == Spec => [](TypeOK /\ OneDaemon /\ NoSocketLeftBehind)
<1>1. IInv => TypeOK /\ OneDaemon /\ NoSocketLeftBehind
  BY DEF IInv
<1>2. QED
  BY <1>1, InitIInv, NextIInv, PTL DEF Spec

-----------------------------------------------------------------------------
\* A step of a daemon that takes the socket of another: only the holder of the lock
\* can, so that the other one does not live.
LEMMA Spare ==
  ASSUME IInv, Next, NEW d \in Daemons, NEW e \in Daemons,
         dpc'[d] # dpc[d], sock = e, sock' # e, dpc[d] \notin Ended, e # d
  PROVE  dpc[e] \in Ended
<1> USE DEF IInv, TypeOK, OneDaemon, NoSocketLeftBehind
<1>1. \A f \in Frontends : ~Frontend(f) /\ ~Leave(f)
  <2>1. SUFFICES ASSUME NEW f \in Frontends, Frontend(f) \/ Leave(f) PROVE FALSE
    OBVIOUS
  <2>2. CASE Spawn(f)
    BY <2>2 DEF Spawn, Ended
  <2>3. CASE Probe(f) \/ Poll(f) \/ GiveUp(f) \/ Leave(f)
    BY <2>3 DEF Probe, Poll, GiveUp, Leave
  <2>4. QED
    BY <2>1, <2>2, <2>3 DEF Frontend
<1>2. PICK c \in Daemons : Run(c) \/ Signal(c) \/ Crash(c)
  BY <1>1 DEF Next
<1>3. ASSUME lock = d PROVE dpc[e] \in Ended
  <2>1. dpc[e] \notin Holding
    BY <1>3
  <2>2. QED
    BY <2>1 DEF Holding, Ended
<1>4. CASE Bind(c) \/ Unlink(c)
  <2>1. c = d
    BY <1>4 DEF Bind, Unlink, Goto
  <2>2. lock = d
    BY <1>4, <2>1 DEF Bind, Unlink, Holding
  <2>3. QED
    BY <1>3, <2>2
<1>5. CASE Close(c)
  <2>1. c = d
    BY <1>5 DEF Close, Goto
  <2>2. QED
    BY <1>5, <2>1 DEF Close
<1>6. CASE Lock(c) \/ Listen(c) \/ Closed(c) \/ Release(c) \/ Crash(c)
  BY <1>6 DEF Lock, Listen, Closed, Release, Crash, paths
<1>7. CASE \/ IdleTimeout(c) \/ Signal(c)
           \/ \E f \in Frontends : Accept(c, f) \/ SessionEnds(c, f)
  BY <1>7 DEF IdleTimeout, Signal, Accept, SessionEnds, paths
<1>8. QED
  BY <1>2, <1>4, <1>5, <1>6, <1>7 DEF Run

\* No daemon takes the socket of another one that lives.
THEOREM DaemonsKeepApart == Spec => DaemonsSpareEachOther
<1>1. IInv /\ [Next]_vars
        => [\A d, e \in Daemons :
              dpc'[d] # dpc[d] /\ sock = e /\ sock' # e /\ dpc[d] \notin Ended
                => e = d \/ dpc[e] \in Ended]_vars
  BY Spare
<1>2. QED
  BY <1>1, InitIInv, NextIInv, PTL DEF Spec, DaemonsSpareEachOther

-----------------------------------------------------------------------------
\* A step that closes the connection of an accepted session is a crash, or the
\* frontend's own.
LEMMA Keep ==
  ASSUME WaitsForConnections, IInv, Next, NEW d \in Daemons, NEW f \in Frontends,
         f \in sessions[d], conn[f] = d, dpc'[d] # "crashed", fpc'[f] # "gone"
  PROVE  conn'[f] = d
<1> USE DEF IInv, TypeOK
<1>1. conn[f] # None /\ fpc[f] = "up"
  BY NoneAssumption DEF ConnectedIsUp
<1>2. ASSUME NEW fs \in SUBSET Frontends, Drop(fs), f \notin fs
      PROVE  conn'[f] = d
  BY <1>2 DEF Drop
<1>3. ASSUME NEW g \in Frontends, Frontend(g) \/ Leave(g)
      PROVE  conn'[f] = d
  <2>1. CASE Probe(g) \/ Poll(g)
    <3>1. g # f
      BY <1>1, <2>1 DEF Probe, Poll
    <3>2. QED
      BY <2>1, <3>1 DEF Probe, Poll, Connect
  <2>2. CASE Spawn(g) \/ GiveUp(g)
    BY <2>2 DEF Spawn, GiveUp
  <2>3. CASE Leave(g)
    BY <2>3 DEF Leave
  <2>4. QED
    BY <1>3, <2>1, <2>2, <2>3 DEF Frontend
<1>4. ASSUME NEW c \in Daemons, Run(c) \/ Signal(c) \/ Crash(c)
      PROVE  conn'[f] = d
  <2>1. Peers(c) \in SUBSET Frontends /\ Peers(c) \ sessions[c] \in SUBSET Frontends
    BY DEF Peers
  <2>2. CASE Close(c)
    <3>1. f \notin Peers(c) \ sessions[c]
      BY DEF Peers
    <3>2. QED
      BY <1>2, <2>1, <2>2, <3>1 DEF Close
  <2>3. CASE Closed(c)
    <3>1. c # d
      BY <2>3 DEF Closed, NoneOpen
    <3>2. f \notin Peers(c)
      BY <3>1 DEF Peers
    <3>3. QED
      BY <1>2, <2>1, <2>3, <3>2 DEF Closed
  <2>4. CASE Crash(c)
    <3>1. c # d
      BY <2>4 DEF Crash, Goto
    <3>2. f \notin Peers(c)
      BY <3>1 DEF Peers
    <3>3. QED
      BY <1>2, <2>1, <2>4, <3>2 DEF Crash
  <2>5. CASE \/ Lock(c) \/ Bind(c) \/ Listen(c) \/ Unlink(c) \/ Release(c)
             \/ IdleTimeout(c) \/ Signal(c)
             \/ \E g \in Frontends : Accept(c, g) \/ SessionEnds(c, g)
    BY <2>5 DEF Lock, Bind, Listen, Unlink, Release, IdleTimeout, Signal, Accept,
       SessionEnds, frontends
  <2>6. QED
    BY <1>4, <2>2, <2>3, <2>4, <2>5 DEF Run
<1>5. QED
  BY <1>3, <1>4 DEF Next

\* Where wait_closed awaits the open connections, an accepted session is ended by its
\* frontend or by a crash only.
THEOREM SessionsKept ==
  ASSUME WaitsForConnections PROVE Spec => SessionsAreKept
<1>1. IInv /\ [Next]_vars
        => [\A d \in Daemons, f \in Frontends :
              f \in sessions[d] /\ conn[f] = d /\ dpc'[d] # "crashed" /\ fpc'[f] # "gone"
                => conn'[f] = d]_vars
  BY Keep
<1>2. QED
  BY <1>1, InitIInv, NextIInv, PTL DEF Spec, SessionsAreKept

\* The socket, the lock and the stages of frontends and daemons keep their types
\* (Daemon.run, DaemonClient.connect), for any number of either.
THEOREM DaemonsTyped == Spec => []TypeOK
BY DaemonsSafe, PTL
=============================================================================
