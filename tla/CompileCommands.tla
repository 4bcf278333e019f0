--------------------------- MODULE CompileCommands ---------------------------
(***************************************************************************)
(* The compilation database of a C or C++ project over its lifetime: what  *)
(* the detector finds (detector.py, CppDetector), what ClangdAdapter       *)
(* resolves, copies or has generated (lsp_adapter.py), and how register    *)
(* and regenerate_index of the daemon use both, while the user edits the   *)
(* build configuration, removes sources and builds.                        *)
(***************************************************************************)
EXTENDS Naturals, Sequences, FiniteSets

CONSTANTS
  Dirs,     \* the project's root and its build directories, in the order searched
  Sources,  \* source files
  MaxTime,  \* bound: the clock of mtimes; events of one instant have the same
  None

Managed == "clangd"      \* the managed directory of the project
Generated == "build"     \* the build directory under it
InTree == {Dirs[i] : i \in DOMAIN Dirs}
Places == InTree \cup {Managed, Generated}

ASSUME DirsAssumption ==
  Dirs \in Seq(InTree) /\ {Managed, Generated} \cap InTree = {}
ASSUME SourcesAssumption == IsFiniteSet(Sources) /\ Sources # {}
ASSUME TimeAssumption == MaxTime \in Nat

VARIABLES
  system,   \* the build system the detector finds
  now,      \* the time of file modifications
  config,   \* the mtime of the newest build configuration file
  sources,  \* the files that the configuration names
  files,    \* the files that exist
  dbs,      \* the compile_commands.json in each place, or None
  caches,   \* directories with a CMakeCache.txt
  entry,    \* the registered project, or None
  run,      \* the cmake or meson run that register waits for, or None
  served    \* what the last call came to, until something is edited

databases == <<system, now, config, sources, files, dbs, caches, entry, run, served>>
project == <<system, now, config, sources, files, caches>>

\* lists: the files it has entries for; since: when its generation began.
Database == [mtime : 0..MaxTime, since : 0..MaxTime, lists : SUBSET Sources]
ASSUME NoneAssumption == None \notin Places \cup Database

\* given: compile_commands_dir of the entry's build_info; dir: the argument
\* --compile-commands-dir of its command.
Entry == [given : InTree \cup {None}, dir : Places \cup {None}]

InitDatabases ==
  /\ system \in {"cmake", "meson", "other"}
  /\ now = 0 /\ config = 0
  /\ files = Sources /\ sources = Sources
  /\ dbs = [p \in Places |-> None] /\ caches = {}
  /\ entry = None /\ run = None /\ served = "no"

-----------------------------------------------------------------------------
(* The user *)

Tick ==
  /\ now < MaxTime
  /\ now' = now + 1
  /\ UNCHANGED <<system, config, sources, files, dbs, caches, entry, run, served>>

EditConfig ==
  /\ config' = now
  /\ \E S \in SUBSET files : S # {} /\ sources' = S
  /\ served' = "no"
  /\ UNCHANGED <<system, now, files, dbs, caches, entry, run>>

RemoveFile(s) ==
  /\ s \in files
  /\ files' = files \ {s}
  /\ served' = "no"
  /\ UNCHANGED <<system, now, config, sources, dbs, caches, entry, run>>

\* A build in the tree, with or without CMake.
Build(d) ==
  /\ sources \subseteq files
  /\ dbs' = [dbs EXCEPT ![d] = [mtime |-> now, since |-> now, lists |-> sources]]
  /\ caches' = IF system = "cmake" THEN caches \cup {d} ELSE caches
  /\ served' = "no"
  /\ UNCHANGED <<system, now, config, sources, files, entry, run>>

-----------------------------------------------------------------------------
(* What the adapter tells apart *)

\* Mutant: only the configuration is compared.
OlderThanConfig(db) == config > db.mtime

\* _is_compile_commands_stale: 5% of the sources or more are missing.
Stale(db) ==
  \/ config > db.mtime
  \/ 20 * Cardinality(db.lists \ files) >= Cardinality(db.lists) /\ db.lists # {}

\* The first of some directories, in the order searched.
First(S) ==
  LET I == {i \in DOMAIN Dirs : Dirs[i] \in S} IN
  IF I = {} THEN None ELSE Dirs[CHOOSE i \in I : \A j \in I : i <= j]

Present == {d \in InTree : dbs[d] # None}

\* _find_compile_commands
Detected == First(Present)

\* The first of cmake_build_dirs with a fresh database.
FreshBuild == First({d \in Present \cap caches : ~Stale(dbs[d])})

\* A candidate is copied unless the build system could do better.
Copies(d, regenerable) == d # None /\ dbs[d] # None /\ ~(regenerable /\ Stale(dbs[d]))

\* Mutant: the resolved directory is written into the build_info.
ConfiguredShared(given, dir, resolved) ==
  entry' = [given |-> resolved, dir |-> IF dir = None THEN resolved ELSE dir]

\* The command: a directory it names already stays.
Configured(given, dir, resolved) ==
  entry' = [given |-> given, dir |-> IF dir = None THEN resolved ELSE dir]

\* _copy_to_managed keeps the mtime (copy2).
CopyFrom(d, place) == [place EXCEPT ![Managed] = place[d]]

\* clean_managed_data
Cleaned == [dbs EXCEPT ![Managed] = None, ![Generated] = None]

-----------------------------------------------------------------------------
(* register_project, of a project that is new or by force: the build_info is the *)
(* caller's, or else the detector's.  It may ask for managed data to be removed. *)

Register(explicit, regenerate) ==
  LET given == IF explicit = None THEN Detected ELSE explicit
      kept == IF regenerate THEN Cleaned ELSE dbs
      regenerable == system \in {"cmake", "meson"}
      best == IF Copies(given, regenerable) THEN given
              ELSE IF system = "cmake" THEN FreshBuild ELSE None
  IN
  /\ run = None
  /\ \/ /\ best # None
        /\ dbs' = CopyFrom(best, kept)
        /\ Configured(given, None, Managed)
        /\ served' = "registered" /\ UNCHANGED run
     \/ /\ best = None /\ regenerable
        /\ kept[Generated] # None /\ ~Stale(kept[Generated])
        /\ Configured(given, None, Generated)
        /\ served' = "registered" /\ dbs' = kept /\ UNCHANGED run
     \/ /\ best = None /\ regenerable
        /\ kept[Generated] # None => Stale(kept[Generated])
        /\ run' = [given |-> given, since |-> now, sources |-> sources, files |-> files]
        /\ served' = "no" /\ dbs' = kept /\ UNCHANGED entry
     \/ /\ best = None /\ ~regenerable   \* a stale candidate was a candidate above
        /\ Configured(given, None, None)
        /\ served' = "bare" /\ dbs' = kept /\ UNCHANGED run
  /\ UNCHANGED project

\* "meson setup" leaves a build directory alone that it has set up before, and exits with
\* 0: the stale database stays, and is served.
Writes == ~(system = "meson" /\ dbs[Generated] # None)

\* subprocess.run returns: the database is what the configuration said when the run
\* began.  The configuration may have been edited meanwhile.
RunSucceeds ==
  /\ run # None /\ run.sources \subseteq run.files
  /\ dbs' = IF Writes
            THEN [dbs EXCEPT ![Generated] =
                    [mtime |-> now, since |-> run.since, lists |-> run.sources]]
            ELSE dbs
  /\ Configured(run.given, None, Generated)
  /\ served' = IF files # run.files THEN "no" ELSE IF Writes THEN "registered" ELSE "left"
  /\ run' = None
  /\ UNCHANGED project

\* It fails, is not installed or takes longer than 120s.
RunFails ==
  /\ run # None
  /\ Configured(run.given, None, None)
  /\ served' = "bare"
  /\ run' = None
  /\ UNCHANGED <<project, dbs>>

\* A register that joins the entry adds its build_info, and changes nothing else.
Join(explicit) ==
  LET given == IF explicit = None THEN Detected ELSE explicit IN
  /\ run = None /\ entry # None
  /\ entry' = [entry EXCEPT !.given = IF given = None THEN @ ELSE given]
  /\ UNCHANGED <<project, dbs, run, served>>

\* The last deregister; what is managed stays.
Deregister ==
  /\ run = None /\ entry # None
  /\ entry' = None /\ served' = "no"
  /\ UNCHANGED <<project, dbs, run>>

\* regenerate_index: the managed data is removed, and the project configured from its
\* entry, without detection: the adapter does not learn of any build system.
Regenerate ==
  /\ run = None /\ entry # None
  /\ IF Copies(entry.given, FALSE)
     THEN dbs' = CopyFrom(entry.given, Cleaned) /\ Configured(entry.given, entry.dir, Managed)
     ELSE dbs' = Cleaned /\ Configured(entry.given, entry.dir, None)
  /\ served' = "regenerated"
  /\ UNCHANGED <<project, run>>

-----------------------------------------------------------------------------
User == \/ Tick \/ EditConfig
        \/ \E s \in Sources : RemoveFile(s)
        \/ \E d \in InTree : Build(d)
Daemon == \/ \E d \in InTree \cup {None} :
               Join(d) \/ \E regenerate \in BOOLEAN : Register(d, regenerate)
          \/ RunSucceeds \/ RunFails \/ Deregister \/ Regenerate
NextDatabases == User \/ Daemon

DatabasesSpec == InitDatabases /\ [][NextDatabases]_databases

-----------------------------------------------------------------------------
(* Properties *)

Run == [given : InTree \cup {None}, since : 0..MaxTime,
        sources : SUBSET Sources, files : SUBSET Sources]

DatabasesTypeOK ==
  /\ system \in {"cmake", "meson", "other"}
  /\ now \in 0..MaxTime /\ config \in 0..now
  /\ sources \subseteq Sources /\ files \subseteq Sources
  /\ dbs \in [Places -> Database \cup {None}]
  /\ caches \subseteq InTree
  /\ entry \in Entry \cup {None}
  /\ run \in Run \cup {None}
  /\ served \in {"no", "registered", "left", "bare", "regenerated"}

\* The database describes the project as it is, but for fewer than one in twenty of its
\* files, which may be gone.  An edit of the configuration goes
\* unnoticed only when it was made between the beginning and the end of the run that
\* wrote the database, or at the same instant.
Current(db) ==
  /\ db # None
  /\ db.lists # {} => 20 * Cardinality(db.lists \ files) < Cardinality(db.lists)
  /\ config <= db.mtime
  /\ db.lists # sources => config >= db.since

\* README.md, "Stale compile_commands.json", says that register has a stale database
\* regenerated for CMake and Meson.  So clangd gets one that is up to date, from wherever
\* it comes, or none could be made, but for the case in which the code does not do what
\* the README says: a Meson build directory that was set up before and left as it was.
\* With another build system it gets the one there is.
RegisterServesCurrent ==
  LET dir == entry.dir IN
  /\ served = "registered" =>
       IF system = "other" THEN dir = Managed /\ dbs[dir] # None ELSE Current(dbs[dir])
  /\ served = "left" => system = "meson" /\ dir = Generated

\* What README.md says of lsp_regenerate_index: it forces regeneration, here of a
\* CMake project whose sources, and the database its caller named, are all there.
RegenerateServesCurrent ==
  /\ served = "regenerated" /\ system = "cmake" /\ sources \subseteq files
  /\ entry.given # None => dbs[entry.given] # None
  => entry.dir # None /\ Current(dbs[entry.dir])
=============================================================================
