# Verification of karellen-lsp-mcp

TLA+ models, TLC runs and TLAPS proofs for the daemon that shares LSP servers
between Claude Code sessions. Paths below are relative to
`src/main/python/karellen_lsp_mcp/` unless they say otherwise.

## 1. Inventory

The program is one Python package that runs as three kinds of process: a
*frontend* per session (`server.py`, the MCP server, or `lsp_server.py`, the LSP
proxy), one *daemon* per user (`daemon.py`), and one *LSP server* process per
registered project (clangd, jdtls, pyright, rust-analyzer; external). Frontends
reach the daemon over a Unix socket with length-prefixed JSON; the daemon talks
to the LSP servers over stdio with JSON-RPC. Everything inside a process is
asyncio: a task runs atomically between two awaits, and may be cancelled at one.

| Component | State | Operations | Talks to |
|---|---|---|---|
| Project registry (`project_registry.py`) | `_projects`, `_registrations`, `_lock`, per entry `client`, `refcount`, `registration_ids`, `status` | register (join, start, force), deregister, shutdown_all, lookups | LspClient; called by sessions |
| LSP client (`lsp_client.py`) | `_pending` futures, `_write_queue`, reader, writer and warm-up tasks, `_open_files`, `_diagnostics`, the process | start, stop, requests, notifications, retry, read, write, ensure_file_open, diagnostics | LSP server process, normalizer |
| Normalizers (`lsp_normalizer.py`) | server state STARTING/INDEXING/READY/STOPPED, progress tokens, jdtls service flags | on_started, on_notification, warm-up timeouts, on_stopped | LSP client's ready event |
| Daemon process (`daemon.py`, `Daemon`) | lock file, socket file, frontends, shutdown event, idle timer | start, accept, last frontend leaves, shutdown | file system, sessions, registry |
| Frontend session (`daemon.py`, `_FrontendSession`) | tokens it registered, in-flight request tasks, write lock | dispatch, cancel on disconnect, cleanup | registry, LSP clients |
| Query engine (`daemon.py` 892-1155) | visited set, node budget, per query | fallback over positions, readiness wait, bounded tree walk | LSP client |
| Daemon client (`daemon_client.py`) | pending futures, reader, connection | connect, spawn, send, close | daemon |
| MCP frontend (`server.py`) | cached daemon client | 25 tools | daemon client |
| LSP proxy (`lsp_server.py`) | initialized, shutdown, projects registered | initialize, forward, shutdown, parent watch | daemon client |
| Adapters (`lsp_adapter.py`) | managed directories, compilation databases | configure, staleness, generation | file system |
| Detector (`detector.py`) | none (pure over the file system) | detect_project, scan_languages | file system |
| Types (`types.py`) | none | dataclasses | all |

### What is hard, and what makes each component correct

**Project registry.** Every call runs under one `asyncio.Lock`, which is held across the
start of a server (60 s) and its stop, and every call can be cancelled at any of these
awaits because a session cancels its requests when its frontend disconnects. Correct means:
the three tables agree (tokens, entries, refcounts) whatever is cut short; a server is not
replaced or stopped under a token that is still good; a token comes with a server; a project
without tokens has no server; every call returns.

**LSP client.** Callers, a writer task, a reader task, a timer per request and `stop()`
share the table `_pending`, the queue and the process, and the server can exit, stall or
answer late. Correct means: whoever waits can still be told; nobody waits for a client that
has been stopped; nothing stays in the table; `stop()` ends the process.

**Readiness.** Progress notifications, two timers, the handshake and `stop()` drive one
state in any order; queries sleep on events and look at the state only after they resume.
Correct means: event and state agree; stopped is final; work in progress is not declared
finished early; a query across files is put only to a ready server; indexing ends and
queries return.

**Daemon process.** Frontends that find no daemon clear the socket and spawn one, several
at once; daemons race for a file lock, replace the socket, shut down when the last frontend
leaves, are signalled, or are killed and leave the socket behind. Correct means: one daemon
at work; nobody takes the socket of another; a session that was accepted is kept; no daemon
stays for ever.

**Frontend session and daemon client.** Requests are tasks that outlive their callers'
interest: the caller is cancelled, times out or is gone while the daemon still starts its
server. Correct means: each registration is owned by a session that will return it, is not
taken away by the end of another session, and is returned once its frontend is gone.

**Tree walk.** One task per node shares a visited set, a budget and a semaphore with the
others, with awaits between test and use. Correct means: one question per symbol; what is
left out is marked; the walk ends.

**Compilation databases.** File times, four places and a build system that may take two
minutes decide what clangd reads. Correct means: what register serves describes the
project; regeneration regenerates.

**Documents.** Queries, fallbacks and proxied editors open the same files, at any time, while
the user edits and `stop()` empties the table. Correct means: the server was sent one `didOpen`
for each file that counts as open; what it says is about the text that is there (it is not).

**Position fallback.** Up to five awaits in a row, with files opened in the middle and errors
passed over. Correct means: the answer is that of the first of the original position, its
declarations and its definitions that has one; each is asked about with its file open; the
query ends.

**Detector and adapters.** Four detectors with ordered markers, IDE files that disagree, roots
that are looked for above the directory, a dictionary from which a register picks by a
language name that may not be there, and callers with options of their own. Correct means: a
server whose caller leaves all to detection is started with what the tree says for its language.

**Routing.** Which server a file goes to depends on all that is registered at the moment.
Correct means: while somebody's registration of a project is good, its files of its language go
to its server.

**LSP proxy.** Each message is a task, so `shutdown` may overtake `initialize`; a request may
take the daemon too long, and is then given up on while the daemon completes it; the process may
vanish at any point. Correct means: what a proxy knows that it registered is returned by the end
of `shutdown`.

## 2. Plan

The order is that of importance: who owns a server process comes first.

| | Module | Checked by | Proved in | State |
|---|---|---|---|---|
| A | `ProjectRegistry`, abstract `ServerLease` | `MCProjectRegistry` | `ProjectRegistryProofs` | done |
| B | `LspClient` | `MCLspClient` | `LspClientProofs` | done |
| C | `Readiness` | `MCReadiness` | `IndexingProofs` | done |
| D | `DaemonLifecycle` | `MCDaemonLifecycle` | `DaemonLifecycleProofs` | done |
| E | `FrontendSession` | `MCFrontendSession` | `FrontendSessionProofs` | done |
| F | `TreeWalk` | `MCTreeWalk` | `TreeWalkProofs` | done |
| G | `CompileCommands` | `MCCompileCommands` | `IndexingProofs`, with C | done |
| H | `Documents` | with I | with I | done |
| I | `PositionFallback`, which extends `Documents` | `MCPositionFallback` | `PositionFallbackProofs` | done |
| J | `Detection`, `Adapters`, `Workspaces`, each extending the one before | with K | with K | done |
| K | `LspProxy`, which extends `Workspaces` | `MCLspProxy` | `WorkspacesProofs` | done |

Composition. `PositionFallback` runs a query on the documents of a client that other sessions
use. `LspProxy` puts proxies and tools on one registry, with detection, configuration and
routing below. `FrontendSession` holds the registry reduced to its lock and its tokens,
`Workspaces` to its tables and the start of a server; `ProjectRegistry` has all of its awaits,
and implements `ServerLease`. `Readiness` and `LspClient` meet in `start()` and `stop()`.

Open: the reductions of the registry in `FrontendSession` and `Workspaces` are read off the
code and not shown by a refinement; the fan-out of `workspace/symbol` and a bounded socket
buffer are not modelled. What `regenerate_index` and Meson leave undone (section 4) is in the
models, and the properties say so where they except it.

## 3. The modules

An action is the code between two awaits of a task, or between two system calls where
processes meet; the comment of each names what it stands for. `Mutant:` marks operators that
no specification uses: plausible errors in the operator defined after them, which the
properties are tested against.

**`ProjectRegistry`** — `projects`, `registrations` and `lock` are `_projects`,
`_registrations` and `_lock`; `running` are the server processes. `RegisterHit`,
`RegisterNew`, `RegisterForce` and `DeregisterLast` run from the lock to the first await of
`start()` or `stop()` (`pc` "starting", "stopOld", "stopLast", "stopNew" for the stop of a
start that took too long), `StartSucceeds`, `OldStopped`, `LastStopped` from there to the
release. `CancelWaiting` and `CancelSuspended` deliver a cancellation at the lock and at
each await; `asyncio.wait_for` cancels what it waits for. Tokens are never repeated (uuid4),
so their set bounds the registers; a client is one `LspClient` object. `ServerLease` is the
promise: a project is served while it is leased, by one server (`Safety`), and is closed
afterwards (`Spec`, which adds fairness).

**`LspClient`** — `fut` and `pending` are the futures and `_pending`; a call that timed
out is `expiring` between the timer that cancels its future and the code that pops it.
`queue`, `writer`, `reader` are the queue and the two tasks, `stdout` and `inbox` the pipes,
`stopping` the point `stop()` has reached. `ReadCancelled` is the reader's end when it
answers a future whose caller was cancelled (line 752). The drain of 5 s that kills the
process, the process that exits by itself and a `stop()` cut off by its own caller are there.

**`Readiness`** — `state`, `active` and the flags are those of the four normalizer classes,
`kind` says which; `timer` is the task `_indexing_timeout`; a query is "waiting" for an
event, has "asked", is "sleeping" between retries. The clock is a choice: any timeout may come
at any time its timer runs.

**`DaemonLifecycle`** — `lock` and `sock` are the two files, `dpc` the daemon in `run()`,
`fpc` the frontend in `connect()`. The kernel accepts a connection before the daemon sees
it. `WaitsForConnections` says whether `Server.wait_closed` waits for open connections
(Python 3.12 and later, which the properties on sessions need) or not (3.11, which the
package supports).

**`FrontendSession`** — the client side is `link`, `reader`, `call`, `pending`; the session
is `session`, `task`, `cancelled` (a cancellation is delivered at the task's next step),
`tokens`, `todo` (the loop of `_cleanup`); the registry is `Locked` and `registered`. The
shutdown of the daemon may come at any time, also where Python 3.12 would make it wait.

**`TreeWalk`** — a node is its path; `state` is how far its task is. Any queued task may
run next, where asyncio starts them in order: a superset of the real interleavings. `Expand`
is the loop over the server's answer, which contains no await: all children, their count, and
the test of the visited set that decides which get a task.

**`CompileCommands`** — `dbs` are the databases in the tree, in the managed directory and in
the generated build below it, each with its mtime and what it lists; `since` is history, the
time its generation began. `Register` is detection, adapter and entry in one step, as they run
without an await; `RunSucceeds` and `RunFails` end the CMake or Meson process, while which
the user goes on editing. `Regenerate` is the daemon's `regenerate_index`. That CMake writes
what the configuration says and that `meson setup` leaves a configured directory alone and exits
with 0 (`Writes`) is knowledge about these programs; `served` tells a database that was made,
copied or found fresh ("registered") from one that Meson left as it was ("left"). Its definitions are named for the databases (`InitDatabases`,
`NextDatabases`, `databases`), as its proofs share a module with those about `Readiness`.

**`Documents`** — `openFiles` is `_open_files`, `sent` what was put on the write queue,
`diagnosed` is `_diagnostics` by the text it is about, `disk` the text of each file as a version.
Sending a notification does not suspend, so `ensure_file_open` (`EnsureOpen`) and
`proxy_did_open` (`ProxyDidOpen`) are one step each, and the branches for a second opener
(`lsp_client.py` 371-378, 484-493) are never taken. `told` records what `lsp_diagnostics` last answered.

**`PositionFallback`** — a query is `kind`, `from`, the question it waits for (`pc`) and the list
of `_resolve_positions` (`positions`, `next`). `Call` opens the file and asks; each other action
takes an answer and asks the next question: `Declared` and `Defined` are the two lookups,
`AltPrepared`, `AltAnswered` and `AltSkipped` the loop over the alternates. What a server knows
is a constant (`Servers`), so the properties can say what the query should have answered.

**`Detection`** — operators, one per detector (`Java`, `Cpp`, `Python`, `Rust`), on a tree that
is the set of names that matter in each directory. `FirstOf` is the order of markers, `Before`
the stable sort of IDE files by tier, `From` the first of them that has a field, `NearestWith` the walk up to the root of a build,
`Recommended` what `scan_languages` says to register.

`Sources` are the source files in a directory and below it.

**`Adapters`** — `Request` is what `register_project` makes of a detection, a language and a
`build_info` of the caller's, `Over` the order in which adapters look at the two; `Configure` is
what each adapter's `configure()` starts. `Databases` says whether clangd gets a database: with
CMake and Meson either may be, as the tool may be missing, fail or take too long; otherwise a
database that is still there is copied.

**`Workspaces`** — `projects` is `_projects` in the order of its keys, `held` the tokens of each
session, `call` the register it has in flight. Detection (`Asks`) comes before the lock, so the
tree may change between it and `Start`, and the lock is held until `Started`, `StartFails` or the
cancellation in `Leave`. `Route` is `find_project_for_file`. `command` is what the server was
started with, `given` the entry's `build_info`, to which a register that joins adds its own;
`RegenerateAsks` is `regenerate_index`, a forced register of these two without details. Which tree
the command came from, which was there at the start, and whether all was left to detection
(`detected`: no options, and no language or one by a name that detection has), are history.

**`LspProxy`** — `todo` is the loop of initialize over the detected languages, of which it takes
those whose server is installed (`Available`), `ids`
`_registered_ids`, `returning` the loop of shutdown over a copy of them. A request of the proxy
may time out at any moment, and the daemon is not told: `RegisterTimesOut` goes on to the next
language while the daemon completes the register (`abandoned`), `ShutdownGivesUp` forgets a
registration whose return the daemon comes to later (`late`, `LateReturn`). `unanswered` is
history: the registrations of which the proxy never learnt that they were made, or returned.
`Exit` stands for "exit", the end of the input, the end of the parent process and a crash: all
close the connection, and the session at the daemon returns what is left.

## 4. What the runs show

| Run | Instance | What it shows |
|---|---|---|
| `registry_faults` | 2 projects, 2 tasks, 3 tokens, 3 clients; cancellation, failing configuration, failing start | The three tables agree (`TokenNamesEntry`); no server changes under a good token (`SameServerWhileRegistered`). |
| `registry_no_faults` | 1 project, 2 tasks, 3 tokens, 2 clients; starts still time out | Tokens have servers, servers have owners, calls return, and the lease is implemented with its liveness. |
| `client_faults` | a request, initialize, shutdown and a request of the server; no fault, then all but cancellation, then all | Nobody waits for a stopped client; `RequestsAreAnswered` speaks of the behaviours without faults, `NoAbandonedFuture` of those without cancellation; `stop()` ends the process. |
| `readiness` | 2 tokens, a query across files and one on a file, all four normalizers | Ready means idle, unless the warm-up ran out; indexing ends; queries return. |
| `daemon_lifecycle` | 3 frontends, 2 daemons, signals and crashes | One daemon, no socket or session of another cut, no daemon that stays. |
| `frontend_session` | 2 frontends, 3 calls; cancellations with timeouts, a signal, a crash | Registrations are held by sessions that return them, are not taken by others, and end with their frontends. |
| `tree_walk` | every hierarchy of 4 symbols with up to 2 callees each, depth 2, 4 nodes, 2 slots | One question per symbol, nothing hidden without a mark, an end. |
| `compile_commands` | 2 sources, 2 places in the tree, 2 instants | What register serves is current, or what Meson left as it was. |
| `regenerate` | the same | Violation: regeneration leaves clangd without a database. |
| `queries` | 3 positions in 2 files, 8 servers, each file edited once; tools and proxies, stop in the middle | Files are sent once, positions are asked about where they are open, the answer is that of the reference, queries end. |
| `stale_diagnostics` | the same | Violation: diagnostics after an edit are about the text before it. |
| `workspaces` | 3 nested directories in 5 trees, one of which changes into another; a proxy, a tool with and without options, 2 tokens, roots looked for 2 levels up; timeouts, `regenerate_index` | Files go to the server of their language, servers left to detection are started with what the tree says, a proxy that was shut down keeps nothing but what it was not told of in time. |

Why the bounds are enough. Two tasks meet in every pair of calls, one of them suspended; a third
token lets a session hold one, return one and ask for one; a second project shows that the
entries do not mix, and liveness needs one. One request next to initialize and shutdown makes
three in the table, which is more than any action of the client relates. Three frontends let
one clear the socket while another connects and a third has its daemon spawned; the second
daemon is the one that loses, or replaces, the first. A third daemon cannot be spawned in
the instance: the frontend that would do so stays where it is, or leaves. In
`frontend_session` the first frontend has a call in flight when it leaves, and the second has one that meets it at the lock. Four
symbols make cycles, diamonds and two paths of different length, and a budget of four cuts a
tree in the middle of its second level. File times are only compared, two at a time, so two
instants give every order; of two sources, one missing is stale and none missing is fresh.
The limit of one in twenty is in the model but cannot be told from "any" with two sources.
Three positions are an original, one reached by declaration and one by definition, and two of them
share a file; the eight servers have each answer at each place, a lookup that leads back to the
original, one that leads to two positions, and a server that needs no fallback. One edit is
enough to tell a text from the one before. In `workspaces` the trees are chosen so that each
rule of detection decides something: modules of a Gradle build with IDE files of different
tiers, two languages in one directory, Rust and Python in one inside a Cargo workspace inside
another, a detector that raises, a project only an IDE knows. Two levels up reach the root from the
innermost directory. Two tokens let a proxy register two languages, or one while a tool joins,
forces, regenerates or releases it, 776,160 states in all; the proofs have any number. One
set of options beside none has a database and an environment that detection does not find in most
of the trees.
Symmetry is used only in runs without liveness properties.

Fairness. Tasks that can run do run: asyncio's loop takes every ready task and every
expired timer, hence weak fairness of the steps of tasks and timers. `ProjectRegistry`
needs strong fairness to enter, because the lock is free only at times; `asyncio.Lock`
serves its waiters in order, so each of them gets it. That a start or stop ends is justified by
`wait_for` (60 s) and by the timeouts and the `kill()` of `stop()`. In `FrontendSession` weak
fairness suffices, as every call takes the lock once and there are finitely many. The other
processes are assumed only to proceed inside `connect()` and `run()`; nobody is assumed to
call, disconnect, answer or report progress, except that a server that is alive and neither
slow nor gone answers (`RequestsAreAnswered`, where there are no faults). Timeouts are fair only
where the code waits with one; in `PositionFallback` every question is answered or ended by its
request timeout or by `stop()`, and then the query goes on.

### Where code and documents part

* `regenerate` and `stale_diagnostics` are runs whose violation TLC shows; PROJECT.json quotes the
  sentence each contradicts.
* `README.md` 278-282 says that a stale database is regenerated automatically for CMake and Meson
  projects. For Meson the adapter runs `meson setup` on the directory of the stale database
  (`lsp_adapter.py` 446), which Meson has set up before: it leaves the directory alone and exits
  with 0, and the stale database is served. `RegisterServesCurrent` therefore asks of Meson what it
  asks of CMake, but for a database that was left so.
* `regenerate_index` loses more than the database: without details (`daemon.py` 248) a restarted
  server has neither the Java home, nor the root of the Cargo workspace, nor the virtual environment
  and included directories that detection finds, where the comment at 245 says that it "re-runs
  detection and adapter configuration from scratch". `ConfiguredAsDetected` excepts servers that
  were restarted so.
* A `build_info` of the caller's replaces that of detection, and with it the project root of
  a Gradle module (`daemon.py` 195), while details still count; so `ConfiguredAsDetected` is about
  registers that leave all to detection.
* The proxy gives up on a request after a timeout of which the daemon hears nothing. A register
  (`lsp_server.py` 264-280) is then skipped and completed by the daemon: the session holds a good
  token that `shutdown` does not return. A deregister (308-314) is logged and forgotten, and
  happens when the daemon comes to it. Both registrations end with the connection at the latest;
  `ShutdownLetsGo` is about all others.
* A start that is cancelled (`project_registry.py` 169, `except Exception` does not see a
  `CancelledError`) leaves an entry without a client. The next register joins it and gets a
  token without a server; a proxied query of it raises `AttributeError` (`daemon.py` 541).
  `RegisteredIsServed` is therefore checked without cancellation.
* A forced register stops the old server before it asks the adapter (`project_registry.py` 98-121);
  when that raises, the old entry stays, its registrations ended and its client stopped, and the
  next register joins it.
* A start that raises after its process was spawned is not stopped (`project_registry.py` 169; only
  a timeout is, at 156): the process goes on and nobody knows it.
* The flag `indexing` that `README.md` 554 promises is computed right after a wait that lets a
  query across files pass only in state READY (`daemon.py` 378), so it is never set on one.
* The MCP frontend keeps its daemon client for ever (`server.py` 70), also when its connection is
  lost or never came up: calls fail until the frontend is restarted, where `README.md` 588 says
  that the next call starts a daemon.
* A deregister that is cancelled in `stop()` (`project_registry.py` 199) has popped its
  token; its entry stays, without tokens, its server running, until somebody registers the
  project again.
* The answer to a cancelled request ends the reader task (`lsp_client.py` 752, and the same
  in `daemon_client.py` 174); every later request then runs into its timeout.
* From Python 3.12 on, a signalled daemon with connected frontends stops listening and then
  waits for them before it cancels them (`daemon.py` 1347). It keeps the lock, so no other
  daemon can start.
* clangd's warm-up is extended while any progress token is active, whether its percentage
  advances or not (`lsp_normalizer.py` 518), although the docstring asks for advance; so
  `IndexingEnds` excepts a clangd with work in progress.
* The budget of a tree is read before the semaphore is awaited (`daemon.py` 1041): tasks
  that passed it all expand, so a tree exceeds 250 nodes by what they return. A symbol cut
  by the depth on a long path is a bare node, with no mark, on a shorter one met later.
* Step 5 of the adapter's resolution (stale candidates) is unreachable with a candidate that
  exists: without a build system to regenerate, step "candidate" has copied it already, with no
  warning. With CMake that fails, a stale candidate is not used at all.
* A register for a language by a name that detection does not report gets the configuration of
  the first detected language: the scan recommends "c" where detection says "cpp", and
  "kotlin", which it never says (`daemon.py` 170-172, "use it as a filter").
  `ConfiguredAsDetected` excepts these.
* Modules of one Gradle build that are registered apart are given the same jdtls `-data`
  directory, that of the root (`lsp_adapter.py` 481, "per-project"), which the cleaning of a
  module's managed directory does not reach.
* A project that is alone under its path answers for files of every language
  (`project_registry.py` 290); a project inside another one takes all files under it.
* The virtual environment the daemon was started in comes before a project's own. An SDK with a
  path is hidden by a more credible one that has only a name.
* The proxy asks for a detection and then registers, which detects again: the tree may have
  changed between. A `shutdown` during `initialize` returns the registrations of that moment;
  the later ones stay until the connection ends. `ShutdownLetsGo` is about the others.
* A hierarchy with an empty item falls back for a proxied `prepareCallHierarchy`, not for the
  tools. Diagnostics right after a file was opened are empty. A stop in the middle of
  a fallback ends it as an empty answer, not as an error.
* The early return of `deregister` (lines 188-190) is unreachable: `TokenNamesEntry`.

## 5. What is proved

TLAPS checks these theorems for every value of the constants, under the assumptions each
module names on them. Except where the table says otherwise they hold with every fault of the
module:

| Theorem | Says | Inductive invariant, beyond the property and types |
|---|---|---|
| `RegistryTyped`, `ClientTyped`, `ReadinessTyped`, `DaemonsTyped`, `DatabasesTyped`, `QueriesTyped`, `SessionsTyped`, `WalkTyped` | the type invariants; a session's cancellations are for tasks that run, and a tree's count is that of its nodes | those of the theorems below, and `CountIsExact` |
| `RegistrySafe`, `RegistryKeepsServers` | the three tables agree; nobody is served by the pending; a server is not replaced under a token | who is suspended holds the lock (`LockOK`); a task still has the project it was called for (`TaskOK`); the token of a register under way is in no entry (`TokensApart`), without which a refcount could count one twice |
| `RegisteredAreServed`, if no call is cancelled and no adapter refuses | a good token has a server that runs | no two entries have one client, and a client that is being started is in none (`ClientsApart`); a token in an entry is of its project or of none any more (`IdsAreOfEntry`); an entry that no task works on has good tokens, and a server (`Kept`) |
| `ServersAreOwned`, if no call is cancelled and no start raises | no server process is leaked | `ClientsApart` and `IdsAreOfEntry` |
| `RegistryIsLeaseService`, under the assumption of `RegisteredAreServed` | each step of the registry is one of `ServerLease`, or none | the same three say which lease each step is |
| `ClientSafe` | who waits is in the table; nobody waits for a stopped client | a stopped client has no process, so nobody sends; what expires was cancelled; initialize and shutdown are sent once |
| `NothingIsAbandoned`, if no caller is cancelled | what is left in the table is waited for, or just being withdrawn | that of `ClientSafe` |
| `ReadinessSafe`, `StoppedStays`, `ProgressIsWaitedFor`, `ReadyWhenAsked` | event and state agree; indexing is watched; the transitions are the legal ones | where no progress was seen, none is active (`SeenIfActive`), which the grace period relies on |
| `DaemonsSafe`, `DaemonsKeepApart`, `SessionsKept` | one daemon; no socket left or taken; sessions kept where `wait_closed` waits | a daemon that removed its socket does not get it back; only a frontend that is up has a connection |
| `SessionsAccountForRegistrations` | each registration is held by a session that will return it | one holder of the lock; the token being stopped is unknown; the session knows what it registered; tasks run only in sessions that await them; a closing daemon has cut its sessions |
| `SessionsRespectRegistrations` | no session's end takes away a registration of another | a session knows, and returns at its end, registrations of its own frontend only (`TokensAreOwn`) |
| `WalkAsksOnce`, `WalkHidesNothing` | one question per symbol; nothing is hidden without a mark | visited symbols are exactly those asked for; a leaf is bare; an expanded node shows its children; only expanded nodes have any (`Parented`) |
| `RegisteredIsCurrent` | what register serves a CMake or Meson project describes it, or Meson left it as it was | a database, and a run's result to come, differ from the configuration only if that was edited after they were begun (`DatabasesAreDated`, `RunIsDated`); only CMake and Meson are run |
| `FilesAreOpenedOnce`, `PositionsAreAskedWhereOpen` | one `didOpen` per file; positions are asked about where they are open | none but each other |
| `QueriesFollowReference` | an answer is that of the first position that has one | `Searching`: the list is a prefix of the reference as far as lookups have answered (`PositionsResolved`), its files are open (`FilesOpened`), all before the present one have no answer or cannot be read (`PassedOnes`), and questions come in the order of the kind (`AskedInTurn`) |
| `WorkspacesTyped`, `FilesAreRouted` | one project of a directory and language, a token in one of them; files go to the server of their language | whoever starts holds the lock alone and has the one entry that is starting, without tokens (`Starts`); entries differ, and their tokens were issued (`Registry`) |
| `ServersAreConfigured` | servers whose register left all to detection are started with what the tree says | such a register, and then its entry, has the finding of its language in the tree that it saw (`CallsAsFound`, `ProjectsAsFound`), and a command that is made of a finding, with a database that there may be, is right (`MadeAsFound`, `ConfiguredInv`) |
| `ProxiesLetGo` | after shutdown a proxy holds no good registration, but those the daemon did not tell it of in time | what is good and held is known or unanswered (`HeldIsKnown`) and then still to be returned or unanswered (`HeldIsReturned`); a register is in flight only in initialize, or was given up on; a shutdown that is not early finds initialize over (`ShutdownIsLate`) |

`RegistrySafe`, `ReadinessSafe`, `StoppedStays`, `ReadyWhenAsked`, `DaemonsSafe` and `ClientSafe`
also state properties that follow closely from the code and are therefore proved and
not run: `RefcountIsTokenCount`, `NobodyServedByThePending`, `EventTellsOutcome`,
`IndexingIsWatched`, `StoppedIsFinal`, `AskedWhenReady`, `NoSocketLeftBehind`,
`WaitingIsPending`.

Each proof is the usual three facts: the initial states satisfy the invariant, each action
preserves it (a lemma per action or group of actions), and it implies the property. Action
properties follow from it step by step.

The assumptions on faults cannot be spared: with a cancelled start, or an adapter that refuses
after a forced register has stopped the old server, TLC finds an entry that the next register
joins without a server; with a cancelled call, or a start that raises, it finds a process that
nobody owns. Section 4 says where these are in the code.

`ServersAreConfigured` rests on lemmas about the operators of `Detection` and `Adapters` for any
tree: the walk up reaches the nearest marker (`NearestIsNearest`) because levels above a
directory are numbered as those above its parent (`UpShifts`); the first file by credibility
exists (`FromIsFirst`), as `Before` orders the IDE files; a name is answered with its own finding
(`ChosenIsFound`). `FilesAreRouted` needs of directories only that none is inside another that is
inside it (`ParentAssumption`), as in any file system that is a tree.

Only model-checked: the liveness properties (`CallsReturn`, `RequestsAreAnswered`,
`StopEndsProcess`, `IndexingEnds`, `QueriesReturn`, `DaemonsEnd`, `GoneFrontendsLetGo`, `WalkEnds`,
`QueriesEnd`) and the fairness of `ServerLease` in `ImplementsLease`, which rest on fairness and
ENABLED and are out of the prover's reach.

## 6. What is not modelled

Wording, formatting and logging; the framing of messages; result types and their parsers; the
error text, feature gating and the estimate of the remaining time of queries; the rewriting
of jdtls archive URIs, whose hierarchy items are never routed. Of the detector: the lists of
modules, source roots and Cargo members, compiler and toolchain names, and the scan for Kotlin
files, none of which decides what is started. The fan-out of `workspace/symbol` over projects,
and the 30 s for which a response may wait for a frontend that does not read. The time a
blocked event loop costs is not modelled: while CMake runs (up to 120 s) no session is served.
Packaging, skills, hooks and tests hold no logic of the running system.

Smaller abstractions. Several items of one answer with the same key are one child in `TreeWalk`,
where the code counts each against the budget. The scan for C and C++ stops after 50 files and
passes over build directories, that of `scan_languages` after 50,000; `Sources` has no limit. An
entry shares its `build_info` with the register that regenerates it, so one that joins while that
waits for the lock may add to what is about to be used; `RegenerateAsks` takes a copy. A session has
one register in flight in `Workspaces`; after a timeout the daemon may have the next one
queued behind it. A caller's own command for a language without an adapter, or with a `-data`
of its own, is left out, as is the language server that a command names instead of the
installed one. `QueriesEnd` and `OpenedOnce` say little of interleavings: a query is a
finite list of questions, and opening a file is one step; they guard the loop and the table.
