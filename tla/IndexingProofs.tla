--------------------------- MODULE IndexingProofs ---------------------------
(***************************************************************************)
(* Proofs about what answers depend on: for every set of tokens and        *)
(* queries, that the bookkeeping of readiness is consistent and its        *)
(* transitions are the legal ones; for any places, sources and times, that *)
(* the compilation database which register serves is current, whatever was *)
(* edited before or meanwhile.                                             *)
(***************************************************************************)
EXTENDS Readiness, CompileCommands, FiniteSetTheorems, WellFoundedInduction, TLAPS

-----------------------------------------------------------------------------
(* Readiness *)

\* What the grace period relies on: where no progress was seen, none is active.
SeenIfActive == kind \in {"progress", "clangd"} /\ active # {} => sawProgress

IInv == TypeOK /\ EventTellsOutcome /\ IndexingIsWatched /\ SeenIfActive

\* Initially nothing has happened.
LEMMA InitIInv == Init => IInv
<1> SUFFICES ASSUME Init PROVE IInv
  OBVIOUS
<1> USE KindsAssumption, MaxRetriesAssumption DEF Init
<1>1. kind \in {"base", "progress", "clangd", "jdtls"}
  OBVIOUS
<1>2. query \in [Queries -> [pc : QueryPc, left : 0..MaxRetries, indexing : BOOLEAN]]
  BY DEF Idle, QueryPc
<1>3. QED
  BY <1>1, <1>2 DEF IInv, TypeOK, EventTellsOutcome, IndexingIsWatched, SeenIfActive

\* _mark_ready keeps state and event in step, and touches only an indexing server.
LEMMA MarkReadyStep ==
  ASSUME IInv, MarkReady
  PROVE  /\ state' \in {"starting", "indexing", "ready", "stopped"}
         /\ readyEvent' \in BOOLEAN
         /\ readyEvent' <=> state' \in {"ready", "stopped"}
         /\ state = "indexing" => state' = "ready"
         /\ state # "indexing" => state' = state
BY DEF MarkReady, IInv, TypeOK, EventTellsOutcome

\* A query moves within its record.
LEMMA QueryTyped ==
  ASSUME IInv, Query
  PROVE  query' \in [Queries -> [pc : QueryPc, left : 0..MaxRetries, indexing : BOOLEAN]]
<1>1. PICK q \in Queries : Asks(q) \/ Resumes(q) \/ Attempt(q)
  BY DEF Query
<1>2. query \in [Queries -> [pc : QueryPc, left : 0..MaxRetries, indexing : BOOLEAN]]
  BY DEF IInv, TypeOK
<1>3. Attempts \in 0..MaxRetries
  BY MaxRetriesAssumption DEF Attempts
<1>4. ASSUME Admit(q)
      PROVE  query' \in [Queries -> [pc : QueryPc, left : 0..MaxRetries,
                                     indexing : BOOLEAN]]
  BY <1>2, <1>3, <1>4 DEF Admit, QueryPc
<1>5. ASSUME NEW pc \in QueryPc, Goto(q, pc)
      PROVE  query' \in [Queries -> [pc : QueryPc, left : 0..MaxRetries,
                                     indexing : BOOLEAN]]
  BY <1>2, <1>5 DEF Goto
<1>6. CASE Asks(q)
  BY <1>4, <1>5, <1>6 DEF Asks, AskAtOnce, Wait, QueryPc
<1>7. CASE Resumes(q)
  BY <1>4, <1>5, <1>7 DEF Resumes, AdmitWaiting, Refuse, QueryPc
<1>8. CASE Attempt(q)
  <2>1. CASE Answer(q)
    BY <1>5, <2>1 DEF Answer, QueryPc
  <2>2. CASE Retry(q)
    BY <1>2, <2>2, MaxRetriesAssumption DEF Retry, OneLess, QueryPc
  <2>3. QED
    BY <1>8, <2>1, <2>2 DEF Attempt
<1>9. QED
  BY <1>1, <1>6, <1>7, <1>8

\* Every step preserves the invariant.
LEMMA NextIInv == IInv /\ [Next]_vars => IInv'
<1> SUFFICES ASSUME IInv, [Next]_vars PROVE IInv'
  OBVIOUS
<1> USE DEF IInv, TypeOK, EventTellsOutcome, IndexingIsWatched, SeenIfActive, events, flags
<1>1. CASE OnStarted
  BY <1>1 DEF OnStarted
<1>2. CASE Notification
  <2>1. ASSUME NEW t \in Tokens, Begin(t) PROVE IInv'
    BY <2>1 DEF Begin
  <2>3. ASSUME NEW t \in Tokens, End(t) PROVE IInv'
    <3>1. CASE Completes(active \ {t})
      <4>1. MarkReady
        BY <2>3, <3>1 DEF End
      <4>2. QED
        BY <2>3, <4>1, MarkReadyStep DEF End
    <3>2. CASE ~Completes(active \ {t})
      BY <2>3, <3>2 DEF End
    <3>3. QED
      BY <3>1, <3>2
  <2>4. ASSUME ServiceReady PROVE IInv'
    BY <2>4 DEF ServiceReady
  <2>5. QED
    BY <1>2, <2>1, <2>3, <2>4 DEF Notification
<1>3. CASE GraceEnds
  <2>1. CASE NoProgress
    BY <1>3, <2>1, MarkReadyStep DEF GraceEnds, WatchOn
  <2>2. CASE ~NoProgress
    BY <1>3, <2>2 DEF GraceEnds, WatchOn
  <2>3. QED
    BY <2>1, <2>2
<1>4. CASE WarmupElapses
  <2>2. CASE state = "indexing" /\ Forces
    BY <1>4, <2>2, MarkReadyStep DEF WarmupElapses, WatchOn
  <2>3. CASE ~(state = "indexing" /\ Forces)
    BY <1>4, <2>3 DEF WarmupElapses, WatchOn
  <2>4. QED
    BY <2>2, <2>3
<1>5. CASE OnStopped
  BY <1>5 DEF OnStopped, ReleaseAll
<1>6. CASE Query
  <2>1. UNCHANGED server
    BY <1>6 DEF Query, Asks, Resumes, Attempt
  <2>2. QED
    BY <1>6, <2>1, QueryTyped DEF server
<1>7. CASE UNCHANGED vars
  BY <1>7 DEF vars
<1>8. QED
  BY <1>1, <1>2, <1>3, <1>4, <1>5, <1>6, <1>7 DEF Next

\* A step changes the state only along the life of a server, and cuts progress short
\* only by the warm-up timeout.
LEMMA Transitions ==
  ASSUME IInv, Next
  PROVE  /\ state = "stopped" => state' = "stopped"
         /\ state = "indexing" /\ state' = "ready" /\ active' # {}
              => timer = "warmup" /\ kind # "clangd"
<1> USE DEF events, flags
<1>1. CASE OnStarted
  BY <1>1 DEF OnStarted
<1>2. CASE Notification
  <2>1. ASSUME NEW t \in Tokens, End(t), Completes(active \ {t})
        PROVE  active' = {} /\ MarkReady
    BY <2>1 DEF End, Completes
  <2>2. ASSUME NEW t \in Tokens, End(t), ~Completes(active \ {t})
        PROVE  state' = state
    BY <2>2 DEF End
  <2>3. ASSUME NEW t \in Tokens, Begin(t)
        PROVE  state' = state
    BY <2>3 DEF Begin
  <2>4. ServiceReady => state' = state
    BY DEF ServiceReady
  <2>5. QED
    BY <1>2, <2>1, <2>2, <2>3, <2>4, MarkReadyStep DEF Notification
<1>3. CASE GraceEnds
  <2>1. CASE NoProgress
    <3>1. MarkReady /\ active' = active
      BY <1>3, <2>1 DEF GraceEnds
    <3>2. QED
      BY <2>1, <3>1, MarkReadyStep DEF NoProgress, IInv, SeenIfActive
  <2>2. CASE ~NoProgress
    BY <1>3, <2>2 DEF GraceEnds
  <2>3. QED
    BY <2>1, <2>2
<1>4. CASE WarmupElapses
  <2>1. CASE state = "indexing" /\ Forces
    BY <1>4, <2>1, MarkReadyStep DEF WarmupElapses, Forces
  <2>2. CASE ~(state = "indexing" /\ Forces)
    BY <1>4, <2>2 DEF WarmupElapses
  <2>3. QED
    BY <2>1, <2>2
<1>5. CASE OnStopped
  BY <1>5 DEF OnStopped
<1>6. CASE Query
  BY <1>6 DEF Query, Asks, Resumes, Attempt, server
<1>7. QED
  BY <1>1, <1>2, <1>3, <1>4, <1>5, <1>6 DEF Next

\* The asking query read the state before it asked.
LEMMA Asking ==
  ASSUME IInv, Next, NEW q \in Queries \ SingleFile,
         query[q].pc \in {"idle", "waiting"}, query'[q].pc = "asked"
  PROVE  state = "ready"
<1>1. Query
  BY DEF Next, OnStarted, Notification, Begin, End, ServiceReady, GraceEnds,
         WarmupElapses, OnStopped
<1>2. PICK p \in Queries : Asks(p) \/ Resumes(p) \/ Attempt(p)
  BY <1>1 DEF Query
<1>3. query \in [Queries -> [pc : QueryPc, left : 0..MaxRetries, indexing : BOOLEAN]]
  BY DEF IInv, TypeOK
<1>4. ASSUME NEW r, query' = [query EXCEPT ![p] = r], p # q
      PROVE  FALSE
  BY <1>3, <1>4
<1>5. ASSUME NEW pc, Goto(p, pc), pc # "asked"
      PROVE  FALSE
  <2>1. query'[q].pc \in {query[q].pc, pc}
    BY <1>3, <1>5 DEF Goto
  <2>2. QED
    BY <1>5, <2>1
<1>6. CASE Asks(p)
  <2>1. CASE AskAtOnce(p)
    <3>1. p = q
      BY <1>4, <2>1 DEF AskAtOnce, Admit
    <3>2. QED
      BY <2>1, <3>1 DEF AskAtOnce, MustWait
  <2>2. CASE Wait(p)
    BY <1>5, <2>2 DEF Wait
  <2>3. QED
    BY <1>6, <2>1, <2>2 DEF Asks
<1>7. CASE Resumes(p)
  <2>1. CASE AdmitWaiting(p)
    <3>1. p = q
      BY <1>4, <2>1 DEF AdmitWaiting, Admit
    <3>2. QED
      BY <2>1, <3>1 DEF AdmitWaiting, Admissible
  <2>2. CASE Refuse(p)
    BY <1>5, <2>2 DEF Refuse
  <2>3. QED
    BY <1>7, <2>1, <2>2 DEF Resumes
<1>8. CASE Attempt(p)
  <2>1. CASE Answer(p)
    BY <1>5, <2>1 DEF Answer
  <2>2. CASE Retry(p)
    <3>1. p # q
      BY <2>2 DEF Retry
    <3>2. QED
      BY <1>3, <2>2, <3>1 DEF Retry
  <2>3. QED
    BY <1>8, <2>1, <2>2 DEF Attempt
<1>9. QED
  BY <1>2, <1>6, <1>7, <1>8

\* Type correctness, and: the ready event is set exactly when the server is ready or
\* stopped, and an indexing server always has a timer that will end its warm-up.
THEOREM ReadinessSafe == Spec => [](TypeOK /\ EventTellsOutcome /\ IndexingIsWatched)
<1>1. IInv => TypeOK /\ EventTellsOutcome /\ IndexingIsWatched
  BY DEF IInv
<1>2. QED
  BY <1>1, InitIInv, NextIInv, PTL DEF Spec

\* A stopped server stays stopped, whatever notification or timer comes late.
THEOREM StoppedStays == Spec => StoppedIsFinal
<1>1. IInv /\ [Next]_vars => [state = "stopped" => state' = "stopped"]_state
  BY Transitions DEF vars
<1>2. QED
  BY <1>1, InitIInv, NextIInv, PTL DEF Spec, StoppedIsFinal

\* Active progress is cut short only by the warm-up timeout, and never clangd's.
THEOREM ProgressIsWaitedFor == Spec => ReadyIsIdle
<1>1. IInv /\ [Next]_vars
        => [state = "indexing" /\ state' = "ready" /\ active' # {}
              => timer = "warmup" /\ kind # "clangd"]_vars
  BY Transitions
<1>2. QED
  BY <1>1, InitIInv, NextIInv, PTL DEF Spec, ReadyIsIdle

\* A query across files is put only to a ready server.
THEOREM ReadyWhenAsked == Spec => AskedWhenReady
<1>1. IInv /\ [Next]_vars
        => [\A q \in Queries \ SingleFile :
              query[q].pc \in {"idle", "waiting"} /\ query'[q].pc = "asked"
                => state = "ready"]_vars
  BY Asking
<1>2. QED
  BY <1>1, InitIInv, NextIInv, PTL DEF Spec, AskedWhenReady

\* The normalizer, the warm-up task and the queries keep their types: no query ever
\* has more attempts than max_retries grants.
THEOREM ReadinessTyped == Spec => []TypeOK
BY ReadinessSafe, PTL

-----------------------------------------------------------------------------
(* Compilation databases *)

\* What a database lists differs from the configuration only by a later edit.
DatabasesAreDated ==
  \A p \in Places : dbs[p] # None =>
    /\ dbs[p].since <= now
    /\ dbs[p].lists # sources => config >= dbs[p].since

\* So will what a run is about to write.
RunIsDated ==
  run # None => /\ run.since <= now
                /\ run.sources # sources => config >= run.since
                /\ served = "no"

\* Only these two are run.
RunIsRegenerable == run # None => system \in {"cmake", "meson"}

DatabasesInv == /\ DatabasesTypeOK /\ DatabasesAreDated /\ RunIsDated /\ RunIsRegenerable
        /\ RegisterServesCurrent

-----------------------------------------------------------------------------
(* Operators *)

\* The first of some directories is one of them.
LEMMA FirstOfThem == ASSUME NEW S PROVE First(S) \in (S \cap InTree) \cup {None}
<1> DEFINE I == {i \in DOMAIN Dirs : Dirs[i] \in S}
<1>1. CASE I = {}
  BY <1>1 DEF First
<1>2. CASE I # {}
  <2>1. I \in (SUBSET Nat) \ {{}}
    BY <1>2, DirsAssumption
  <2>2. PICK n \in I : \A m \in I : <<m, n>> \notin OpToRel(<, Nat)
    BY <2>1, WFMin, NatLessThanWellFounded, Zenon
  <2>3. \A m \in I : ~(m < n)
    BY <2>1, <2>2, Zenon DEF OpToRel
  <2>4. (CHOOSE i \in I : \A j \in I : i <= j) \in I
    BY <2>1, <2>3
  <2>5. First(S) = Dirs[CHOOSE i \in I : \A j \in I : i <= j]
    BY <1>2 DEF First
  <2>6. QED
    BY <2>4, <2>5 DEF InTree
<1>3. QED
  BY <1>1, <1>2

\* Detection finds a directory of the tree, or none.
LEMMA DetectedType == Detected \in InTree \cup {None}
BY FirstOfThem DEF Detected

\* A fresh database describes the project, once it is known to be dated.
LEMMA FreshIsCurrent ==
  ASSUME NEW db \in Database, ~Stale(db), files \subseteq Sources,
         config \in Nat, db.lists # sources => config >= db.since
  PROVE  Current(db)
<1>1. /\ IsFiniteSet(db.lists) /\ IsFiniteSet(db.lists \ files)
  BY SourcesAssumption, FS_Subset DEF Database
<1>2. Cardinality(db.lists) \in Nat /\ Cardinality(db.lists \ files) \in Nat
  BY <1>1, FS_CardinalityType
<1>3. db # None /\ db.mtime \in Nat
  BY NoneAssumption, TimeAssumption DEF Database
<1>4. QED
  BY <1>2, <1>3 DEF Stale, Current

\* What register copies for a CMake project is a fresh database in the tree.
LEMMA BestIsFresh ==
  ASSUME NEW given \in InTree \cup {None}, NEW regenerable \in BOOLEAN,
         NEW best, best # None,
         best = IF Copies(given, regenerable) THEN given
                ELSE IF system = "cmake" THEN FreshBuild ELSE None
  PROVE  /\ best \in InTree /\ dbs[best] # None
         /\ regenerable => ~Stale(dbs[best])
<1>1. CASE Copies(given, regenerable)
  BY <1>1 DEF Copies
<1>2. CASE ~Copies(given, regenerable)
  <2>1. best = FreshBuild
    BY <1>2
  <2>2. FreshBuild \in {d \in Present \cap caches : ~Stale(dbs[d])} \cup {None}
    BY FirstOfThem DEF FreshBuild
  <2>3. QED
    BY <2>1, <2>2 DEF Present
<1>3. QED
  BY <1>1, <1>2

-----------------------------------------------------------------------------
(* The invariant is inductive. *)

\* Initially there is no database.
LEMMA InitDatabasesInv == InitDatabases => DatabasesInv
BY NoneAssumption, TimeAssumption
DEF InitDatabases, DatabasesInv, DatabasesTypeOK, DatabasesAreDated, RunIsDated, RunIsRegenerable,
     RegisterServesCurrent

\* The user's edits are dated, and end what was served.
LEMMA UserIInv == ASSUME DatabasesInv, User PROVE DatabasesInv'
<1> USE TimeAssumption, DirsAssumption, NoneAssumption DEF DatabasesInv
<1>1. CASE Tick
  <2> USE <1>1 DEF Tick
  <2>1. DatabasesTypeOK'
    BY DEF DatabasesTypeOK
  <2>2. DatabasesAreDated'
    BY DEF DatabasesTypeOK, DatabasesAreDated, Database
  <2>3. RunIsDated'
    BY DEF DatabasesTypeOK, RunIsDated, Run
  <2>4. RegisterServesCurrent'
    BY DEF RegisterServesCurrent, Current
  <2>5. QED
    BY <2>1, <2>2, <2>3, <2>4 DEF RunIsRegenerable
<1>2. CASE EditConfig
  <2>1. DatabasesTypeOK'
    BY <1>2 DEF EditConfig, DatabasesTypeOK
  <2>2. QED
    BY <1>2, <2>1 DEF EditConfig, DatabasesTypeOK, DatabasesAreDated, RunIsDated,
       RunIsRegenerable, RegisterServesCurrent
<1>3. ASSUME NEW s \in Sources, RemoveFile(s) PROVE DatabasesInv'
  BY <1>3 DEF RemoveFile, DatabasesTypeOK, DatabasesAreDated, RunIsDated, RunIsRegenerable,
     RegisterServesCurrent
<1>4. ASSUME NEW d \in InTree, Build(d) PROVE DatabasesInv'
  BY <1>4 DEF Build, DatabasesTypeOK, DatabasesAreDated, RunIsDated, RunIsRegenerable,
     RegisterServesCurrent, Database, Places
<1>5. QED
  BY <1>1, <1>2, <1>3, <1>4 DEF User

\* What a copy into the managed directory leaves is typed and dated.
LEMMA CopyStep ==
  ASSUME DatabasesInv, NEW kept, kept \in {dbs, Cleaned},
         NEW best \in InTree, dbs[best] # None, dbs' = CopyFrom(best, kept),
         UNCHANGED <<now, config, sources>>
  PROVE  /\ dbs' \in [Places -> Database \cup {None}]
         /\ DatabasesAreDated'
         /\ dbs'[Managed] = dbs[best]
<1> USE DEF DatabasesInv, DatabasesTypeOK
<1>1. kept \in [Places -> Database \cup {None}]
  BY DEF Cleaned, Places
<1>2. kept[best] = dbs[best]
  BY DirsAssumption DEF Cleaned, Places
<1>3. dbs' = [kept EXCEPT ![Managed] = dbs[best]]
  BY <1>2 DEF CopyFrom
<1>4. \A p \in Places : kept[p] \in {dbs[p], None}
  BY DEF Cleaned
<1>5. \A p \in Places : dbs'[p] = None \/ \E q \in Places : dbs'[p] = dbs[q]
  BY <1>1, <1>3, <1>4 DEF Places
<1>6. DatabasesAreDated'
  BY <1>5 DEF DatabasesAreDated
<1>7. QED
  BY <1>1, <1>3, <1>6 DEF Places

\* So is what is left when managed data is removed.
LEMMA CleanedStep ==
  ASSUME DatabasesInv, dbs' \in {dbs, Cleaned}, UNCHANGED <<now, config, sources>>
  PROVE  dbs' \in [Places -> Database \cup {None}] /\ DatabasesAreDated'
<1>1. dbs' \in [Places -> Database \cup {None}]
  BY DEF DatabasesInv, DatabasesTypeOK, Cleaned, Places
<1>2. \A p \in Places : dbs'[p] \in {dbs[p], None}
  BY DEF DatabasesInv, DatabasesTypeOK, Cleaned, Places
<1>3. QED
  BY <1>1, <1>2 DEF DatabasesInv, DatabasesAreDated

\* register, from the detection to what is served or run.
LEMMA RegisterIInv ==
  ASSUME DatabasesInv, NEW explicit \in InTree \cup {None}, NEW regenerate \in BOOLEAN,
         Register(explicit, regenerate)
  PROVE  DatabasesInv'
<1> DEFINE given == IF explicit = None THEN Detected ELSE explicit
           kept == IF regenerate THEN Cleaned ELSE dbs
           regenerable == system \in {"cmake", "meson"}
           best == IF Copies(given, regenerable) THEN given
                   ELSE IF system = "cmake" THEN FreshBuild ELSE None
<1>1. given \in InTree \cup {None} /\ kept \in {dbs, Cleaned} /\ regenerable \in BOOLEAN
  BY DetectedType
<1>2. UNCHANGED project
  BY DEF Register
<1>3. /\ kept \in [Places -> Database \cup {None}]
      /\ \A p \in Places : kept[p] \in {dbs[p], None}
  BY <1>1 DEF DatabasesInv, DatabasesTypeOK, Cleaned, Places
<1>4. CASE best # None
  <2>1. /\ run = None /\ dbs' = CopyFrom(best, kept) /\ Configured(given, None, Managed)
        /\ served' = "registered" /\ run' = run
    BY <1>4 DEF Register
  <2>2. best \in InTree /\ dbs[best] # None /\ (regenerable => ~Stale(dbs[best]))
    BY <1>1, <1>4, BestIsFresh
  <2>3. /\ dbs' \in [Places -> Database \cup {None}] /\ DatabasesAreDated'
        /\ dbs'[Managed] = dbs[best]
    BY <1>1, <1>2, <2>1, <2>2, CopyStep DEF project
  <2>4. DatabasesTypeOK'
    BY <1>1, <1>2, <2>1, <2>3 DEF DatabasesInv, DatabasesTypeOK, Configured, project, Entry, Places
  <2>5. entry'.dir = Managed
    BY <2>1 DEF Configured
  <2>6. regenerable => Current(dbs[best])
    <3>1. dbs[best] \in Database
      BY <2>2 DEF DatabasesInv, DatabasesTypeOK, Places
    <3>2. dbs[best].lists # sources => config >= dbs[best].since
      BY <2>2 DEF DatabasesInv, DatabasesAreDated, Places
    <3>3. files \subseteq Sources /\ config \in Nat
      BY TimeAssumption DEF DatabasesInv, DatabasesTypeOK
    <3>4. QED
      BY <2>2, <3>1, <3>2, <3>3, FreshIsCurrent
  <2>7. RegisterServesCurrent'
    <3>1. CASE regenerable
      BY <1>2, <2>1, <2>3, <2>5, <2>6, <3>1 DEF RegisterServesCurrent, Current, project
    <3>2. CASE ~regenerable
      <4>1. system' = "other"
        BY <1>2, <3>2 DEF project, DatabasesInv, DatabasesTypeOK
      <4>2. QED
        BY <2>1, <2>2, <2>3, <2>5, <4>1 DEF RegisterServesCurrent
    <3>3. QED
      BY <3>1, <3>2
  <2>8. QED
    BY <2>1, <2>3, <2>4, <2>7 DEF DatabasesInv, RunIsDated, RunIsRegenerable
<1>5. CASE /\ best = None /\ regenerable
           /\ kept[Generated] # None /\ ~Stale(kept[Generated])
           /\ Configured(given, None, Generated)
           /\ served' = "registered" /\ dbs' = kept /\ UNCHANGED run
  <2>1. dbs' \in [Places -> Database \cup {None}] /\ DatabasesAreDated'
    BY <1>1, <1>2, <1>5, CleanedStep DEF project
  <2>2. run = None
    BY DEF Register
  <2>3. DatabasesTypeOK'
    BY <1>1, <1>2, <1>5, <2>1 DEF DatabasesInv, DatabasesTypeOK, Configured, project, Entry, Places
  <2>4. entry'.dir = Generated /\ Generated \in Places
    BY <1>5 DEF Configured, Places
  <2>5. kept[Generated] \in Database /\ kept[Generated] = dbs[Generated]
    BY <1>3, <1>5, <2>4
  <2>6. kept[Generated].lists # sources => config >= kept[Generated].since
    BY <1>5, <2>4, <2>5 DEF DatabasesInv, DatabasesAreDated
  <2>7. Current(kept[Generated])
    BY <1>5, <2>5, <2>6, FreshIsCurrent, TimeAssumption DEF DatabasesInv, DatabasesTypeOK
  <2>8. RegisterServesCurrent'
    BY <1>2, <1>5, <2>4, <2>7 DEF RegisterServesCurrent, Current, project
  <2>9. QED
    BY <1>5, <2>1, <2>2, <2>3, <2>8 DEF DatabasesInv, RunIsDated, RunIsRegenerable
<1>6. CASE /\ run' = [given |-> given, since |-> now, sources |-> sources,
                      files |-> files]
           /\ served' = "no" /\ dbs' = kept /\ UNCHANGED entry
  <2>1. dbs' \in [Places -> Database \cup {None}] /\ DatabasesAreDated'
    BY <1>1, <1>2, <1>6, CleanedStep DEF project
  <2>2. now \in 0..MaxTime /\ now <= now
    BY TimeAssumption DEF DatabasesInv, DatabasesTypeOK
  <2>3. DatabasesTypeOK'
    BY <1>1, <1>2, <1>6, <2>1, <2>2 DEF DatabasesInv, DatabasesTypeOK, project, Run
  <2>4. RunIsDated'
    BY <1>2, <1>6, <2>2 DEF RunIsDated, project
  <2>5. QED
    BY <1>1, <1>2, <1>6, <2>1, <2>3, <2>4
    DEF DatabasesInv, RegisterServesCurrent, RunIsRegenerable, project, Register
<1>7. CASE Configured(given, None, None) /\ served' = "bare" /\ dbs' = kept /\ UNCHANGED run
  <2>1. dbs' \in [Places -> Database \cup {None}] /\ DatabasesAreDated'
    BY <1>1, <1>2, <1>7, CleanedStep DEF project
  <2>2. run = None
    BY DEF Register
  <2>3. DatabasesTypeOK'
    BY <1>1, <1>2, <1>7, <2>1 DEF DatabasesInv, DatabasesTypeOK, Configured, project, Entry
  <2>4. QED
    BY <1>7, <2>1, <2>2, <2>3 DEF DatabasesInv, RunIsDated, RunIsRegenerable, RegisterServesCurrent
<1>8. QED
  BY <1>4, <1>5, <1>6, <1>7 DEF Register

\* The end of a run: what it wrote is current unless a file has gone meanwhile.
LEMMA RunEndsIInv == ASSUME DatabasesInv, RunSucceeds \/ RunFails PROVE DatabasesInv'
<1> DEFINE new == [mtime |-> now, since |-> run.since, lists |-> run.sources]
<1>1. /\ run \in Run /\ run.sources \subseteq Sources /\ run.since \in 0..MaxTime
      /\ run.given \in InTree \cup {None} /\ now \in 0..MaxTime
      /\ run.since <= now /\ (run.sources # sources => config >= run.since)
  BY DEF RunSucceeds, RunFails, DatabasesInv, DatabasesTypeOK, Run, RunIsDated
<1>2. UNCHANGED project /\ run' = None
  BY DEF RunSucceeds, RunFails
<1>3. new \in Database /\ new # None
  BY <1>1, NoneAssumption DEF Database
<1>4. CASE RunSucceeds
  <2>1. dbs' = (IF Writes THEN [dbs EXCEPT ![Generated] = new] ELSE dbs)
    BY <1>4 DEF RunSucceeds
  <2>2. Configured(run.given, None, Generated)
    BY <1>4 DEF RunSucceeds
  <2>3. dbs' \in [Places -> Database \cup {None}] /\ dbs'[Generated] # None
    BY <1>3, <2>1 DEF DatabasesInv, DatabasesTypeOK, Places, Writes
  <2>4. \A p \in Places : dbs'[p] \in {dbs[p], new}
    BY <2>1 DEF DatabasesInv, DatabasesTypeOK
  <2>5. DatabasesAreDated'
    BY <1>1, <1>2, <2>4 DEF DatabasesInv, DatabasesAreDated, project
  <2>6. DatabasesTypeOK'
    BY <1>1, <1>2, <1>4, <2>2, <2>3
    DEF DatabasesInv, DatabasesTypeOK, project, Configured, Entry, Places, RunSucceeds
  <2>7. entry'.dir = Generated
    BY <2>2 DEF Configured
  <2>8. CASE served' = "registered"
    <3>1. run.sources \ files = {}
      BY <1>4, <2>8 DEF RunSucceeds
    <3>2. run.sources # {} =>
            20 * Cardinality(run.sources \ files) < Cardinality(run.sources)
      <4>1. IsFiniteSet(run.sources)
        BY <1>1, SourcesAssumption, FS_Subset
      <4>2. /\ Cardinality(run.sources) \in Nat
            /\ run.sources # {} => Cardinality(run.sources) # 0
        BY <4>1, FS_CardinalityType, FS_EmptySet
      <4>3. Cardinality(run.sources \ files) = 0
        BY <3>1, FS_EmptySet
      <4>4. QED
        BY <4>2, <4>3
    <3>3. Current(new)
      BY <1>1, <1>3, <3>2 DEF Current, DatabasesInv, DatabasesTypeOK
    <3>4. dbs'[Generated] = new
      BY <1>4, <2>1, <2>8 DEF RunSucceeds, DatabasesInv, DatabasesTypeOK, Places
    <3>5. system \in {"cmake", "meson"}
      BY <1>4 DEF RunSucceeds, DatabasesInv, RunIsRegenerable
    <3>6. RegisterServesCurrent'
      BY <1>2, <2>3, <2>7, <2>8, <3>3, <3>4, <3>5 DEF RegisterServesCurrent, Current, project
    <3>7. QED
      BY <1>2, <2>5, <2>6, <3>6 DEF DatabasesInv, RunIsDated, RunIsRegenerable
  <2>9. CASE served' # "registered"
    <3>1. served' = "left" => system' = "meson" /\ entry'.dir = Generated
      BY <1>2, <1>4, <2>7 DEF RunSucceeds, Writes, project
    <3>2. QED
      BY <1>2, <2>5, <2>6, <2>9, <3>1
      DEF DatabasesInv, RunIsDated, RegisterServesCurrent, RunIsRegenerable
  <2>10. QED
    BY <2>8, <2>9
<1>5. CASE RunFails
  <2>1. DatabasesTypeOK'
    BY <1>1, <1>2, <1>5 DEF DatabasesInv, DatabasesTypeOK, project, Configured, Entry, RunFails
  <2>2. QED
    BY <1>2, <1>5, <2>1
    DEF DatabasesInv, DatabasesAreDated, RunIsDated, RunIsRegenerable,
     RegisterServesCurrent, RunFails, project,
        RunIsRegenerable
<1>6. QED
  BY <1>4, <1>5

\* The calls that generate nothing.
LEMMA CallIInv ==
  ASSUME DatabasesInv, \/ \E d \in InTree \cup {None} : Join(d)
               \/ Deregister \/ Regenerate
  PROVE  DatabasesInv'
<1>1. ASSUME NEW d \in InTree \cup {None}, Join(d) PROVE DatabasesInv'
  <2>1. (IF d = None THEN Detected ELSE d) \in InTree \cup {None}
    BY DetectedType
  <2>2. entry \in Entry /\ entry' \in Entry /\ entry'.dir = entry.dir
    BY <1>1, <2>1 DEF Join, DatabasesInv, DatabasesTypeOK, Entry
  <2>3. QED
    BY <1>1, <2>2 DEF Join, DatabasesInv, DatabasesTypeOK, DatabasesAreDated, RunIsDated,
       RegisterServesCurrent, Current, project, RunIsRegenerable
<1>2. CASE Deregister
  BY <1>2 DEF Deregister, DatabasesInv, DatabasesTypeOK, DatabasesAreDated, RunIsDated,
     RegisterServesCurrent, project, RunIsRegenerable
<1>3. CASE Regenerate
  <2>1. CASE Copies(entry.given, FALSE)
    <3>1. /\ entry \in Entry /\ entry.given \in InTree /\ dbs[entry.given] # None
          /\ dbs' = CopyFrom(entry.given, Cleaned)
          /\ Configured(entry.given, entry.dir, Managed)
      BY <1>3, <2>1 DEF Regenerate, Copies, DatabasesInv, DatabasesTypeOK, Entry
    <3>2. dbs' \in [Places -> Database \cup {None}] /\ DatabasesAreDated'
      BY <1>3, <3>1, CopyStep DEF Regenerate, project
    <3>3. entry' \in Entry
      BY <3>1 DEF Configured, Entry, Places
    <3>4. QED
      BY <1>3, <3>2, <3>3 DEF Regenerate, DatabasesInv, DatabasesTypeOK, RunIsDated,
         RegisterServesCurrent, project, RunIsRegenerable
  <2>2. CASE ~Copies(entry.given, FALSE)
    <3>1. entry \in Entry /\ dbs' = Cleaned /\ Configured(entry.given, entry.dir, None)
      BY <1>3, <2>2 DEF Regenerate, DatabasesInv, DatabasesTypeOK
    <3>2. dbs' \in [Places -> Database \cup {None}] /\ DatabasesAreDated'
      BY <1>3, <3>1, CleanedStep DEF Regenerate, project
    <3>3. entry' \in Entry
      BY <3>1 DEF Configured, Entry
    <3>4. QED
      BY <1>3, <3>2, <3>3 DEF Regenerate, DatabasesInv, DatabasesTypeOK, RunIsDated,
         RegisterServesCurrent, project, RunIsRegenerable
  <2>3. QED
    BY <2>1, <2>2
<1>4. QED
  BY <1>1, <1>2, <1>3

-----------------------------------------------------------------------------
\* Every step preserves the invariant.
LEMMA NextDatabasesInv == DatabasesInv /\ [NextDatabases]_databases => DatabasesInv'
<1>1. ASSUME DatabasesInv, User PROVE DatabasesInv'
  BY <1>1, UserIInv
<1>2. ASSUME DatabasesInv, Daemon PROVE DatabasesInv'
  BY <1>2, RegisterIInv, RunEndsIInv, CallIInv DEF Daemon
<1>3. ASSUME DatabasesInv, UNCHANGED databases PROVE DatabasesInv'
  BY <1>3 DEF databases, DatabasesInv, DatabasesTypeOK, DatabasesAreDated, RunIsDated, RunIsRegenerable,
     RegisterServesCurrent, Current
<1>4. QED
  BY <1>1, <1>2, <1>3 DEF NextDatabases

\* A register that gives clangd a database of a CMake or Meson project gives it one that
\* describes the project (ClangdAdapter.configure), unless it is what "meson setup" found
\* and left, for any places, sources and times, and however the user and the generation
\* interleave.
THEOREM RegisteredIsCurrent == DatabasesSpec => []RegisterServesCurrent
<1>1. DatabasesInv => RegisterServesCurrent
  BY DEF DatabasesInv
<1>2. QED
  BY InitDatabasesInv, NextDatabasesInv, <1>1, PTL DEF DatabasesSpec

\* The databases, their copies and what clangd is given keep their types, for any
\* places, sources and times.
THEOREM DatabasesTyped == DatabasesSpec => []DatabasesTypeOK
<1>1. DatabasesInv => DatabasesTypeOK
  BY DEF DatabasesInv
<1>2. QED
  BY InitDatabasesInv, NextDatabasesInv, <1>1, PTL DEF DatabasesSpec
=============================================================================
