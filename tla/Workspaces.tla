------------------------------ MODULE Workspaces ------------------------------
(***************************************************************************)
(* The projects of the registry with what their servers were started with,  *)
(* and which of them answers for a file (project_registry.py).  Sessions    *)
(* register what they detect or what the scan recommends, while others      *)
(* register, release, force, regenerate and leave, and the user changes the *)
(* tree.                                                                    *)
(* ProjectRegistry has the awaits inside these operations; here only the    *)
(* start of a server is more than one step, as files are routed during it.  *)
(***************************************************************************)
EXTENDS Adapters

CONSTANTS
  Trees,     \* trees, by number
  Becomes,   \* what each may be changed into
  Options,   \* what callers may give
  Sessions,  \* frontends' sessions
  Tokens     \* registration ids, which are never issued twice

ASSUME TreesAssumption == \A n \in DOMAIN Trees : Trees[n] \in Tree /\ Becomes[n] \subseteq DOMAIN Trees

\* A build_info or none, and an lsp_command that may name a database.
Bare == [build_info |-> None, database |-> FALSE]
ASSUME OptionsAssumption ==
  Bare \in Options /\ Options \subseteq [build_info : BuildInfo \cup {None}, database : BOOLEAN]

\* A register in flight, once detection has been asked: given is its build_info, info that
\* and the details, command its lsp_command.  starting: it has the lock and starts a
\* server.  tree and detected as below.
Call == [dir : Dirs, language : Languages, given : Info, info : Info, command : Command,
         force : BOOLEAN, starting : BOOLEAN, tree : DOMAIN Trees, detected : BOOLEAN]
ASSUME NoneAssumption == None \notin Call

VARIABLES
  tree,      \* the number of the present tree
  projects,  \* _projects, in the order of its keys
  issued,    \* the tokens that have been issued
  session,   \* of each session: "on", "leaving" (in _cleanup), "gone"
  held,      \* registered_tokens of each session
  call       \* the register that each has in flight, or None

workspaces == <<tree, projects, issued, session, held, call>>

\* given: build_info.  tree, start and detected are history: the tree that was detected,
\* that at the start of the server, and whether all was left to detection: no options,
\* and no language or one by a name that detection reports.
Project == [dir : Dirs, language : {"c", "java", "python", "rust"},
            client : {"starting", "up", "cut"}, tokens : SUBSET Tokens, given : Info,
            command : Command, tree : DOMAIN Trees, start : DOMAIN Trees, detected : BOOLEAN]

InitWorkspaces ==
  /\ tree \in DOMAIN Trees
  /\ projects = <<>> /\ issued = {}
  /\ session = [s \in Sessions |-> "on"]
  /\ held = [s \in Sessions |-> {}]
  /\ call = [s \in Sessions |-> None]

\* What detection finds in the trees, and what the scan recommends.
Found == [n \in DOMAIN Trees |-> [d \in Dirs |-> Detect(Trees[n], d)]]
Scanned == [n \in DOMAIN Trees |-> [d \in Dirs |-> Recommended(Trees[n], d)]]

-----------------------------------------------------------------------------
(* Routing *)

\* The projects that a directory is in, and of those the ones with the longest path.
Around(d) == {i \in DOMAIN projects : Covers(projects[i].dir, d)}
Innermost(d) ==
  LET around == Around(d)
  IN {i \in around : \A j \in around : Covers(projects[j].dir, projects[i].dir)}

FileLanguage(ext) == CASE ext = ".c" -> "c" [] ext = ".cpp" -> "cpp" [] ext = ".java" -> "java"
                       [] ext = ".kt" -> "kotlin" [] ext = ".py" -> "python" [] ext = ".rs" -> "rust"
                       [] ext = ".go" -> "go"

\* The language of the adapter for files of each extension.
HandledBy == [ext \in Extensions |-> Canonical(FileLanguage(ext))]

\* Mutant: the extension is not looked at.
FirstInnermost(d, ext) == Innermost(d)

\* Those of several that handle the language of a file; all, if there are none.
Handling(d, ext) ==
  LET innermost == Innermost(d)
      same == {i \in innermost : projects[i].language = HandledBy[ext]}
  IN IF same = {} THEN innermost ELSE same

\* find_project_for_file, 0 if there is none.  A project that is alone under its path
\* answers for files of any language.
Route(d, ext) ==
  LET handling == Handling(d, ext)
  IN IF handling = {} THEN 0 ELSE Min(handling)

-----------------------------------------------------------------------------
(* register_project, regenerate_index *)

Locked == \E s \in Sessions : call[s] # None /\ call[s].starting

Find(d, language) ==
  {i \in DOMAIN projects : projects[i].dir = d /\ projects[i].language = language}

Existing(c) == Find(c.dir, c.language)

\* Detection runs before the registry's lock is asked for; without a language the
\* request has failed.
Asks(s, d, asked, option, force) ==
  LET request == Request(Found[tree][d], asked, option.build_info)
  IN /\ session[s] = "on" /\ call[s] = None
     /\ request.language # None
     /\ call' = [call EXCEPT ![s] =
                   [dir |-> d, language |-> request.language,
                    given |-> request.given, info |-> request.info,
                    command |-> [Plain(d) EXCEPT !.database = option.database],
                    force |-> force, starting |-> FALSE, tree |-> tree,
                    detected |-> option = Bare /\ asked \in Names(Found[tree][d]) \cup {None}]]
     /\ UNCHANGED <<tree, projects, issued, session, held>>

\* regenerate_index of a project with a server: a forced register of what its entry has,
\* the build_info and the command, without detection and so without details.
RegenerateAsks(s) ==
  /\ session[s] = "on" /\ call[s] = None
  /\ \E i \in DOMAIN projects :
       LET p == projects[i]
       IN /\ p.client = "up"
          /\ call' = [call EXCEPT ![s] =
                        [dir |-> p.dir, language |-> p.language,
                         given |-> p.given, info |-> p.given, command |-> p.command,
                         force |-> TRUE, starting |-> FALSE, tree |-> tree, detected |-> FALSE]]
  /\ UNCHANGED <<tree, projects, issued, session, held>>

Ends(s) == call' = [call EXCEPT ![s] = None]
Issue(s, k) ==
  /\ k \notin issued
  /\ issued' = issued \cup {k}
  /\ held' = [held EXCEPT ![s] = @ \cup {k}]

\* A project that is there is joined as it is, whatever was detected now; only its
\* build_info is brought up to date.
Join(s, k) ==
  /\ call[s] # None /\ ~Locked /\ ~call[s].force
  /\ \E i \in Existing(call[s]) :
       projects' = [projects EXCEPT ![i].tokens = @ \cup {k},
                                    ![i].given = Updated(@, call[s].given)]
  /\ Issue(s, k) /\ Ends(s)
  /\ UNCHANGED <<tree, session>>

NotInstalled(s) ==
  /\ call[s] # None /\ ~Locked
  /\ call[s].language \notin Installed
  /\ Ends(s)
  /\ UNCHANGED <<tree, projects, issued, session, held>>

\* A forced register stops the server, and with it ends all its registrations.
Start(s) ==
  LET c == call[s]
      Entry(database) ==
        [dir |-> c.dir, language |-> c.language, client |-> "starting", tokens |-> {},
         given |-> c.given,
         command |-> Configure(c.dir, c.language, c.command, c.info, database),
         tree |-> c.tree, start |-> tree, detected |-> c.detected]
  IN /\ c # None /\ ~Locked /\ c.language \in Installed
     /\ \E database \in Databases(c.info, c.detected, Trees[tree], c.dir) :
          \/ Existing(c) = {} /\ projects' = Append(projects, Entry(database))
          \/ \E i \in Existing(c) :
               c.force /\ projects' = [projects EXCEPT ![i] = Entry(database)]
     /\ call' = [call EXCEPT ![s].starting = TRUE]
     /\ UNCHANGED <<tree, issued, session, held>>

Starting(s) == call[s] # None /\ call[s].starting

Started(s, k) ==
  /\ Starting(s)
  /\ \E i \in Existing(call[s]) :
       projects' = [projects EXCEPT ![i].client = "up", ![i].tokens = {k}]
  /\ Issue(s, k) /\ Ends(s)
  /\ UNCHANGED <<tree, session>>

\* Mutant: the first project is removed, whichever was meant.
WithoutFirst(i) == Tail(projects)

Without(i) == [j \in 1..(Len(projects) - 1) |-> IF j < i THEN projects[j] ELSE projects[j + 1]]

StartFails(s) ==
  /\ Starting(s)
  /\ \E i \in Existing(call[s]) : projects' = Without(i)
  /\ Ends(s)
  /\ UNCHANGED <<tree, issued, session, held>>

-----------------------------------------------------------------------------
(* deregister, _cleanup *)

\* The token is returned; with the last one the project goes.  Returning a token that
\* a forced register has ended raises.
Release(k) ==
  \/ \E i \in DOMAIN projects :
       /\ k \in projects[i].tokens
       /\ projects' = IF projects[i].tokens = {k} THEN Without(i)
                      ELSE [projects EXCEPT ![i].tokens = @ \ {k}]
  \/ /\ \A i \in DOMAIN projects : k \notin projects[i].tokens
     /\ UNCHANGED projects

Valid(k) == \E i \in DOMAIN projects : k \in projects[i].tokens

\* A session keeps a token whose return raised.
Deregister(s, k) ==
  /\ session[s] = "on" /\ k \in held[s] /\ ~Locked
  /\ Release(k)
  /\ held' = IF Valid(k) THEN [held EXCEPT ![s] = @ \ {k}] ELSE held
  /\ UNCHANGED <<tree, issued, session, call>>

\* The frontend disconnects and its request is cancelled: one that starts a server
\* leaves an entry without a client, which the next register joins.
Leave(s) ==
  /\ session[s] = "on"
  /\ session' = [session EXCEPT ![s] = "leaving"]
  /\ \/ ~Starting(s) /\ UNCHANGED projects
     \/ /\ Starting(s)
        /\ \E i \in Existing(call[s]) : projects' = [projects EXCEPT ![i].client = "cut"]
  /\ Ends(s)
  /\ UNCHANGED <<tree, issued, held>>

CleanUp(s) ==
  /\ session[s] = "leaving" /\ ~Locked
  /\ \/ /\ held[s] = {}
        /\ session' = [session EXCEPT ![s] = "gone"]
        /\ UNCHANGED <<projects, held>>
     \/ \E k \in held[s] :
          /\ Release(k)
          /\ held' = [held EXCEPT ![s] = @ \ {k}]
          /\ UNCHANGED session
  /\ UNCHANGED <<tree, issued, call>>

\* The user changes the tree.
Edit ==
  /\ tree' \in Becomes[tree]
  /\ UNCHANGED <<projects, issued, session, held, call>>

-----------------------------------------------------------------------------
WorkspacesTypeOK ==
  /\ tree \in DOMAIN Trees
  /\ projects \in Seq(Project)
  /\ issued \subseteq Tokens
  /\ session \in [Sessions -> {"on", "leaving", "gone"}]
  /\ held \in [Sessions -> SUBSET issued]
  /\ call \in [Sessions -> Call \cup {None}]
  /\ \A i, j \in DOMAIN projects : i # j =>
       /\ Find(projects[i].dir, projects[i].language) = {i}
       /\ projects[i].tokens \cap projects[j].tokens = {}
  /\ \A i \in DOMAIN projects : projects[i].client = "starting" =>
       \E s \in Sessions : Starting(s) /\ i \in Existing(call[s])

\* As long as somebody's registration of a project is good, its server is asked about
\* the project's files of its language, whichever sessions register and release other
\* languages and directories meanwhile, except in directories inside it that are
\* projects too.  (A start cut off by its session leaves a project without a server.)
RoutedToItsLanguage ==
  \A i \in DOMAIN projects, d \in Dirs :
    LET p == projects[i] IN
    p.tokens # {} /\ Covers(p.dir, d) /\ (\A j \in Around(d) : Covers(projects[j].dir, p.dir)) =>
      /\ p.client \in {"up", "cut"}
      /\ \A ext \in Extensions :
           HandledBy[ext] = p.language => Route(d, ext) = i

\* The root of the server of a project is the nearest directory above it, as far as is
\* looked, that holds a marker of its build, and else the project.
RootedAt(p, marker) ==
  LET t == Trees[p.tree]
      above == {a \in Dirs : \E n \in (1..MaxLevels) \cap DOMAIN Up[p.dir] :
                               Up[p.dir][n] = a /\ marker \in t.names[a]}
  IN \/ above = {} /\ p.command.root = p.dir
     \/ p.command.root \in above /\ \A a \in above : Covers(a, p.command.root)

\* The Java home is that of an SDK than which no IDE file names a more credible one.
HomeIsCredible(p) ==
  LET ide == Trees[p.tree].ide[p.dir]
      best == {f \in IdeFiles : /\ "sdk" \in ide[f]
                                /\ \A g \in IdeFiles : "sdk" \in ide[g] => Tier(f) <= Tier(g)}
  IN IF p.command.home = None THEN best = {} \/ \E f \in best : "home" \notin ide[f]
     ELSE p.command.home \in best /\ "home" \in ide[p.command.home]

\* The command of a project, by its language, is what its tree says.  The database of a
\* build system is not there where its tool is missing or fails.
AsTreeSays(p) ==
  LET names == Trees[p.tree].names[p.dir]
  IN CASE p.language = "java" ->
            /\ HomeIsCredible(p)
            /\ IF {"settings.gradle", "build.gradle"} \cap names # {}
               THEN RootedAt(p, "settings.gradle") ELSE p.command.root = p.dir
       [] p.language = "rust" -> RootedAt(p, "[workspace]")
       [] p.language = "c" ->
            /\ p.command.database =>
                 {"compile_commands.json", "CMakeLists.txt", "meson.build"} \cap names # {}
            /\ {"CMakeLists.txt", "meson.build"} \cap names = {} =>
                 ("compile_commands.json" \in names \cap Trees[p.start].names[p.dir]
                    => p.command.database)
       [] p.language = "python" ->
            /\ ".venv" \in names => p.command.venv # None
            /\ "src/package" \in names => p.command.include # None

\* A server whose register left all to detection was started with what the tree says for
\* that very language: the root of the build, the SDK, the database (where no tool has to
\* make it), the environment; whatever other languages, detectors, changes of the tree,
\* callers with options and regenerate_index of others there are.  A server that
\* regenerate_index has restarted is not one of these: it loses most of it.
ConfiguredAsDetected ==
  \A i \in DOMAIN projects : projects[i].detected => AsTreeSays(projects[i])
=============================================================================
