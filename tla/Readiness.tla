------------------------------ MODULE Readiness ------------------------------
(***************************************************************************)
(* When is an LSP server ready?  The normalizer of one LspClient           *)
(* (lsp_normalizer.py) follows the server's progress notifications, the    *)
(* background task _indexing_timeout (lsp_client.py) runs out of patience, *)
(* and the queries of the sessions (daemon.py) wait for the outcome, then  *)
(* ask and retry.  Notifications can arrive before the handshake is over   *)
(* and after on_stopped, for as long as the reader task runs.              *)
(***************************************************************************)
EXTENDS Naturals, FiniteSets

CONSTANTS
  Tokens,       \* progress tokens of the server
  Queries,      \* queries of the sessions
  SingleFile,   \* those that need only an initialized server
  Kinds,        \* the normalizers considered
  MaxRetries    \* bound: attempts of a query while the server indexes

ASSUME SingleFileAssumption == SingleFile \subseteq Queries
ASSUME KindsAssumption == Kinds \subseteq {"base", "progress", "clangd", "jdtls"}
ASSUME MaxRetriesAssumption == MaxRetries \in Nat \ {0}

VARIABLES
  kind,         \* the class of the normalizer
  state,        \* _state
  initEvent,    \* _initialized_event
  readyEvent,   \* _ready_event
  active,       \* _active_progress_tokens
  sawProgress,  \* _saw_any_progress
  sawSearching, serviceReady,  \* the flags of jdtls
  timer,        \* _indexing_timeout: "none", "grace", "warmup", "done"
  query         \* where each query is

vars == <<kind, state, initEvent, readyEvent, active, sawProgress, sawSearching,
          serviceReady, timer, query>>
events == <<initEvent, readyEvent>>
flags == <<sawProgress, sawSearching, serviceReady>>

\* left: attempts left; indexing: the flag of the answer.
Idle == [pc |-> "idle", left |-> 0, indexing |-> FALSE]

Init ==
  /\ kind \in Kinds
  /\ state = "starting"
  /\ initEvent = FALSE /\ readyEvent = FALSE
  /\ active = {}
  /\ sawProgress = FALSE /\ sawSearching = FALSE /\ serviceReady = FALSE
  /\ timer = "none"
  /\ query = [q \in Queries |-> Idle]

-----------------------------------------------------------------------------
(* The normalizer *)

\* _mark_ready: only an indexing server becomes ready.
MarkReady ==
  IF state = "indexing"
  THEN state' = "ready" /\ readyEvent' = TRUE
  ELSE UNCHANGED <<state, readyEvent>>

\* on_started, the last step of start().
OnStarted ==
  /\ state = "starting"
  /\ initEvent' = TRUE
  /\ timer' = "grace"
  /\ IF kind = "base"
     THEN state' = "ready" /\ readyEvent' = TRUE
     ELSE state' = "indexing" /\ UNCHANGED readyEvent
  /\ UNCHANGED <<kind, active, flags, query>>

\* $/progress begin; a title of jdtls may be a search.
Begin(t) ==
  /\ kind # "base" /\ t \notin active
  /\ active' = active \cup {t}
  /\ IF kind = "jdtls"
     THEN \E searching \in BOOLEAN :
            /\ sawSearching' = (sawSearching \/ searching)
            /\ UNCHANGED sawProgress
     ELSE sawProgress' = TRUE /\ UNCHANGED sawSearching
  /\ UNCHANGED <<kind, state, events, serviceReady, timer, query>>

\* Mutant: the end of any task is the end of the indexing.
AnyEnded(remaining) == TRUE

\* Is the end of a task, with these still active, the end of the indexing?
Completes(remaining) ==
  /\ remaining = {}
  /\ IF kind = "jdtls" THEN serviceReady /\ sawSearching ELSE sawProgress

\* $/progress end, of a task that was begun or not
End(t) ==
  /\ kind # "base"
  /\ active' = active \ {t}
  /\ IF Completes(active \ {t}) THEN MarkReady ELSE UNCHANGED <<state, readyEvent>>
  /\ UNCHANGED <<kind, initEvent, flags, timer, query>>

\* language/status ServiceReady: remembered, and looked at by the next end.
ServiceReady ==
  /\ kind = "jdtls" /\ ~serviceReady
  /\ serviceReady' = TRUE
  /\ UNCHANGED <<kind, state, events, active, sawProgress, sawSearching, timer,
                 query>>

-----------------------------------------------------------------------------
(* _indexing_timeout *)

\* on_no_progress_timeout
NoProgress == kind \in {"progress", "clangd"} /\ ~sawProgress

\* Mutant: the task ends with its first timeout.
GivesUp == "done"

\* The loop goes on while the server indexes.
WatchOn == IF state' = "indexing" THEN "warmup" ELSE "done"

\* After 5s.
GraceEnds ==
  /\ timer = "grace"
  /\ IF NoProgress THEN MarkReady ELSE UNCHANGED <<state, readyEvent>>
  /\ timer' = WatchOn
  /\ UNCHANGED <<kind, initEvent, active, flags, query>>

\* Mutant: clangd, too, is forced.
AlwaysForced == TRUE

\* on_warmup_timeout: clangd waits for as long as progress is active.
Forces == kind = "clangd" => active = {}

\* After the warm-up timeout, and then every 30s.
WarmupElapses ==
  /\ timer = "warmup"
  /\ IF state = "indexing" /\ Forces THEN MarkReady ELSE UNCHANGED <<state, readyEvent>>
  /\ timer' = WatchOn
  /\ UNCHANGED <<kind, initEvent, active, flags, query>>

-----------------------------------------------------------------------------
(* LspClient.stop *)

\* Mutant: those who wait for readiness are left to their timeout.
NotReleased == initEvent' = TRUE /\ UNCHANGED readyEvent

\* Both events are set, so that nobody waits for a stopped server.
ReleaseAll == initEvent' = TRUE /\ readyEvent' = TRUE

OnStopped ==
  /\ state # "stopped"
  /\ state' = "stopped"
  /\ ReleaseAll
  /\ timer' = "done"
  /\ UNCHANGED <<kind, active, flags, query>>

-----------------------------------------------------------------------------
(* A query: _await_readiness, then _request_with_retry *)

\* Mutant: one attempt too many.
OneMoreAttempt == IF kind # "base" /\ state = "indexing" THEN MaxRetries + 1 ELSE 1

\* max_retries, read once, before the first attempt
Attempts == IF kind # "base" /\ state = "indexing" THEN MaxRetries ELSE 1

Admit(q) ==
  query' = [query EXCEPT ![q] = [pc |-> "asked", left |-> Attempts,
                                 indexing |-> state = "indexing"]]
Goto(q, pc) == query' = [query EXCEPT ![q].pc = pc]

MustWait(q) == IF q \in SingleFile THEN state = "starting" ELSE state # "ready"

\* What wait_initialized and wait_ready return: the state when the query resumes,
\* whether the event was set or the wait timed out.
Admissible(q) ==
  IF q \in SingleFile THEN state \notin {"starting", "stopped"} ELSE state = "ready"

AskAtOnce(q) == query[q].pc = "idle" /\ ~MustWait(q) /\ Admit(q)
Wait(q) == query[q].pc = "idle" /\ MustWait(q) /\ Goto(q, "waiting")
AdmitWaiting(q) == query[q].pc = "waiting" /\ Admissible(q) /\ Admit(q)
Refuse(q) == query[q].pc = "waiting" /\ ~Admissible(q) /\ Goto(q, "refused")

\* is_transient_error
Transient == kind \in {"clangd", "jdtls"}

Answer(q) ==
  /\ query[q].pc = "asked"
  /\ \/ Goto(q, "answered")
     \/ Goto(q, "failed")
     \/ Transient /\ query[q].left > 1 /\ Goto(q, "sleeping")

\* Mutant: the retries never run out.
Unchanged(left) == left

OneLess(left) == left - 1

Retry(q) ==
  /\ query[q].pc = "sleeping"
  /\ query' = [query EXCEPT ![q].pc = "asked", ![q].left = OneLess(@)]

server == <<kind, state, events, active, flags, timer>>

Asks(q) == (AskAtOnce(q) \/ Wait(q)) /\ UNCHANGED server
Resumes(q) == (AdmitWaiting(q) \/ Refuse(q)) /\ UNCHANGED server
Attempt(q) == (Answer(q) \/ Retry(q)) /\ UNCHANGED server

-----------------------------------------------------------------------------
Notification ==
  \/ \E t \in Tokens : Begin(t) \/ End(t)
  \/ ServiceReady

Query == \E q \in Queries : Asks(q) \/ Resumes(q) \/ Attempt(q)

Next == OnStarted \/ Notification \/ GraceEnds \/ WarmupElapses \/ OnStopped \/ Query

Spec == Init /\ [][Next]_vars

\* The timers of the event loop fire and woken tasks run; a request is answered or
\* times out.  No notification is forced.
Fairness ==
  /\ WF_vars(GraceEnds) /\ WF_vars(WarmupElapses)
  /\ \A q \in Queries : WF_vars(Resumes(q)) /\ WF_vars(Attempt(q))
FairSpec == Spec /\ Fairness

-----------------------------------------------------------------------------
(* Properties *)

QueryPc == {"idle", "waiting", "asked", "sleeping", "answered", "failed", "refused"}

TypeOK ==
  /\ kind \in {"base", "progress", "clangd", "jdtls"}
  /\ state \in {"starting", "indexing", "ready", "stopped"}
  /\ initEvent \in BOOLEAN /\ readyEvent \in BOOLEAN
  /\ active \subseteq Tokens
  /\ sawProgress \in BOOLEAN /\ sawSearching \in BOOLEAN /\ serviceReady \in BOOLEAN
  /\ timer \in {"none", "grace", "warmup", "done"}
  /\ query \in [Queries -> [pc : QueryPc, left : 0..MaxRetries, indexing : BOOLEAN]]

\* The ready event wakes the waiting queries exactly when they have a reason to wake:
\* the server is ready or stopped.  One that sleeps past either would hang.
EventTellsOutcome == readyEvent <=> state \in {"ready", "stopped"}

\* An indexing server is always watched: a timer is running that will end its warm-up
\* should the notifications never do it.
IndexingIsWatched == state = "indexing" => timer \in {"grace", "warmup"}

\* No notification, timer or late handshake brings a stopped server back.
StoppedIsFinal == [][state = "stopped" => state' = "stopped"]_state

\* Progress that is still active is cut short only by the warm-up timeout, and never
\* by that of clangd.
ReadyIsIdle ==
  [][state = "indexing" /\ state' = "ready" /\ active' # {}
       => timer = "warmup" /\ kind # "clangd"]_vars

\* A query across files is put only to a ready server, however it was woken.
AskedWhenReady ==
  [][\A q \in Queries \ SingleFile :
       query[q].pc \in {"idle", "waiting"} /\ query'[q].pc = "asked"
         => state = "ready"]_vars

\* Indexing ends, with no help from the server, unless clangd has progress to report.
IndexingEnds ==
  state = "indexing" /\ (kind = "clangd" => active = {})
    ~> state # "indexing" \/ (kind = "clangd" /\ active # {})

\* Every query is answered, fails or is refused: the waits and the retries end.
QueriesReturn ==
  \A q \in Queries :
    query[q].pc = "waiting" \/ query[q].pc = "asked"
      ~> query[q].pc \in {"answered", "failed", "refused"}
=============================================================================
