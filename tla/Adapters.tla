------------------------------ MODULE Adapters ------------------------------
(***************************************************************************)
(* What a register makes of the detection of its directory and of what its  *)
(* caller gives (daemon.py), and what the adapter of its language then      *)
(* starts (lsp_adapter.py).                                                 *)
(***************************************************************************)
EXTENDS Detection

CONSTANT Installed  \* the languages that have an adapter, and their server installed

ASSUME InstalledAssumption == Installed \subseteq {"c", "java", "python", "rust"}

\* The languages with an adapter have one name each; others are left as they are.
Canonical(language) == CASE language \in {"c", "cpp"} -> "c"
                         [] language \in {"java", "kotlin"} -> "java"
                         [] OTHER -> language

-----------------------------------------------------------------------------
(* register_project *)

\* Mutant: the language asked for is not compared.
FirstFound(found, asked) == found[1]

\* The detected language whose configuration is used: the one asked for, by the name
\* that detection gives it, or else the first.
Chosen(found, asked) ==
  LET same == {i \in DOMAIN found : found[i].language = asked}
  IN found[IF same = {} THEN 1 ELSE Min(same)]

\* A build_info has no more than these of what there is to know.
BuildInfo == {info \in Info : info.workspace = None /\ info.home = None /\ info.build = None}

\* The build_info of a detected language; the rest is in its details.
DetectedBuildInfo(info) ==
  [Nothing EXCEPT !.project = info.project, !.database = info.database]

Or(value, default) == IF value = None THEN default ELSE value

\* dict.update
Updated(old, new) ==
  [old EXCEPT !.project = Or(new.project, @), !.database = @ \/ new.database,
              !.venv = Or(new.venv, @), !.include = Or(new.include, @)]

\* What a build_info says comes before what the details say; only it has the project_root.
Over(given, details) == [Updated(details, given) EXCEPT !.project = given.project]

\* What a register for a language or None, with a build_info or None, asks of the
\* registry after detection; a language of None says that it fails.
Request(found, asked, build_info) ==
  LET chosen == Chosen(found, asked)
      detected == IF found = <<>> THEN Nothing ELSE chosen.info
      given == IF build_info = None THEN DetectedBuildInfo(detected) ELSE build_info
      language == IF asked = None /\ found # <<>> THEN chosen.language ELSE asked
  IN [language |-> IF language = None THEN None ELSE Canonical(language),
      given |-> given, info |-> Over(given, detected)]

-----------------------------------------------------------------------------
(* configure *)

\* root: the root_uri.  data: the directory of jdtls's -data, named after the root.
Command == [root : Dirs, data : Dirs \cup {None}, home : IdeFiles \cup {None},
            database : BOOLEAN, venv : Environments \cup {None},
            include : SourceRoots \cup {None}]

Plain(d) == [root |-> d, data |-> None, home |-> None, database |-> FALSE,
             venv |-> None, include |-> None]

\* Whether there is a database for clangd in the end.  A build system has one, unless its
\* tool is missing, fails or takes too long; else what detection found is copied if it is
\* still there, and what a caller names need not be there (CompileCommands has the rest).
Databases(info, detected, t, d) ==
  IF info.build \in {"cmake", "meson"} THEN BOOLEAN
  ELSE IF ~info.database THEN {FALSE}
  ELSE IF detected THEN {"compile_commands.json" \in t.names[d]} ELSE BOOLEAN

\* Of the command that is given, the arguments that matter are kept.
Clangd(d, command, database) ==
  [Plain(d) EXCEPT !.database = command.database \/ database]

Jdtls(d, command, info) ==
  LET root == Or(info.project, d)
  IN [Plain(d) EXCEPT !.root = root, !.data = Or(command.data, root), !.home = info.home]

Pyright(d, info) == [Plain(d) EXCEPT !.venv = info.venv, !.include = info.include]

RustAnalyzer(d, info) == [Plain(d) EXCEPT !.root = Or(info.workspace, d)]

Configure(d, language, command, info, database) ==
  CASE language = "c" -> Clangd(d, command, database)
    [] language = "java" -> Jdtls(d, command, info)
    [] language = "python" -> Pyright(d, info)
    [] language = "rust" -> RustAnalyzer(d, info)
=============================================================================
