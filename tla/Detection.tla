------------------------------ MODULE Detection ------------------------------
(***************************************************************************)
(* What a directory is detected to be (detector.py): its languages, in the  *)
(* order of the detectors, each with its build system and with what the     *)
(* adapters use of its build_info and details.                              *)
(***************************************************************************)
EXTENDS Naturals, Sequences, FiniteSets, FiniteSetsExt

CONSTANTS
  Dirs,       \* directories
  Parent,     \* the parent of each, None where that is the file system's root
  MaxLevels,  \* how far the root of a build is looked for (5)
  None

\* Where IDEs keep metadata, by the order in which it is read, and its tiers.
ReadOrder == [misc |-> 1, compiler |-> 2, gradle |-> 3, kotlinc |-> 4,
              iml |-> 5, classpath |-> 6, prefs |-> 7, vscode |-> 8]
IdeFiles == DOMAIN ReadOrder
Tier(file) == CASE file \in {"compiler", "gradle", "iml"} -> 2
                [] file \in {"misc", "kotlinc"} -> 3
                [] OTHER -> 4

\* The names of languages: detection reports the first five, the scan others.  The names
\* of build systems, and where a Python environment and sources may be.
Reported == {"java", "c", "cpp", "python", "rust"}
Languages == Reported \cup {"kotlin", "go"}
Builds == {"gradle", "maven", "ant", "eclipse", "unknown", "cmake", "meson", "autotools", "bazel",
           "make", "pybuilder", "pyproject", "backend", "setuptools", "pipenv", "pip", "cargo"}
Environments == {"active", "own"}
SourceRoots == {"src/main/python", "src"}

\* None is neither a directory nor anything that is found in one.
ASSUME DirsAssumption ==
  /\ IsFiniteSet(Dirs) /\ MaxLevels \in Nat
  /\ Parent \in [Dirs -> Dirs \cup {None}]
  /\ None \notin Dirs \cup IdeFiles \cup Languages \cup Builds \cup Environments \cup SourceRoots

\* What one of them may say; "home" when its SDK is a directory that exists.
Fields == {"sdk", "home", "level", "bytecode", "other"}

(***************************************************************************)
(* A tree: the names in each directory ("build.py": one that imports        *)
(* PyBuilder; "backend": pyproject.toml names a build backend;              *)
(* "[workspace]": Cargo.toml has that section; "src/package": src has       *)
(* Python packages; "compile_commands.json": also one in a directory for    *)
(* builds; ".cpp": there are source files with that extension); what IDE    *)
(* files say; the detectors that raise; and whether the daemon was started  *)
(* with a virtual environment active.                                       *)
(***************************************************************************)
Tree == [names : [Dirs -> SUBSET STRING],
         ide : [Dirs -> [IdeFiles -> SUBSET Fields]],
         raises : SUBSET {"java", "cpp", "python", "rust"}, active : BOOLEAN]

-----------------------------------------------------------------------------
(* Markers *)

\* What the first kind of marker that is there stands for.
FirstOf(kinds, present) ==
  LET hits == {i \in DOMAIN kinds : kinds[i].markers \cap present # {}}
  IN IF hits = {} THEN None ELSE kinds[Min(hits)].means

Means(markers, build) == [markers |-> markers, means |-> build]

JavaBuild(t, d) ==
  FirstOf(<<Means({"settings.gradle", "build.gradle"}, "gradle"), Means({"pom.xml"}, "maven"),
            Means({"build.xml"}, "ant"), Means({".classpath"}, "eclipse")>>, t.names[d])

\* A Makefile that CMake wrote does not count.
CppBuild(t, d) ==
  FirstOf(<<Means({"CMakeLists.txt"}, "cmake"), Means({"meson.build"}, "meson"),
            Means({"configure.ac"}, "autotools"), Means({"MODULE.bazel"}, "bazel"),
            Means(IF "CMakeCache.txt" \in t.names[d] THEN {} ELSE {"Makefile"}, "make")>>,
          t.names[d])

\* pyproject.toml stands for the backend that it names.
PythonBuild(t, d) ==
  LET pyproject == IF "backend" \in t.names[d] THEN "backend" ELSE "pyproject"
  IN FirstOf(<<Means({"build.py"}, "pybuilder"), Means({"pyproject.toml"}, pyproject),
               Means({"setup.py", "setup.cfg"}, "setuptools"),
               Means({"Pipfile"}, "pipenv"), Means({"requirements.txt"}, "pip")>>, t.names[d])

\* Each directory and what is above it, None from there on.
Up == [d \in Dirs |->
        LET up[i \in 0..Cardinality(Dirs)] ==
              IF i = 0 THEN d ELSE IF up[i - 1] = None THEN None ELSE Parent[up[i - 1]]
        IN up]

Above == [d \in Dirs |-> {dir \in Dirs : \E i \in DOMAIN Up[d] : Up[d][i] = dir}]

\* d is a directory or inside it.
Covers(dir, d) == dir \in Above[d]

\* No directory is inside another that is inside it.
ASSUME ParentAssumption == \A d, e \in Dirs : Covers(d, e) /\ Covers(e, d) => d = e

\* Where the root of a build may be: the marker, so many levels above d.
RootLevels(t, marker, d) ==
  {i \in (1..MaxLevels) \cap DOMAIN Up[d] : Up[d][i] # None /\ marker \in t.names[Up[d][i]]}

\* Walks up from the parent to a directory with the marker; without one, the
\* directory itself.  What the directory itself holds is not looked at.
NearestWith(t, marker, d) ==
  IF RootLevels(t, marker, d) = {} THEN d ELSE Up[d][Min(RootLevels(t, marker, d))]

-----------------------------------------------------------------------------
(* Source files *)

Extensions == {".c", ".cpp", ".java", ".kt", ".py", ".rs", ".go"}

\* The extensions of the source files in a directory and below it.
Sources(t, d) == {e \in Extensions : \E x \in Dirs : Covers(d, x) /\ e \in t.names[x]}

-----------------------------------------------------------------------------
(* IDE metadata *)

\* By credibility; the sort is stable.
Before(f, g) == Tier(f) < Tier(g) \/ (Tier(f) = Tier(g) /\ ReadOrder[f] < ReadOrder[g])

\* The file that a field of the details comes from: the first that has it.
From(t, d, field) ==
  LET having == {f \in IdeFiles : field \in t.ide[d][f]}
  IN IF having = {} THEN None ELSE CHOOSE f \in having : \A g \in having \ {f} : Before(f, g)

\* java.home: the SDK's path, if the most credible SDK has one.
JavaHome(t, d) ==
  LET file == From(t, d, "sdk")
  IN IF file # None /\ "home" \in t.ide[d][file] THEN file ELSE None

-----------------------------------------------------------------------------
(* The detectors *)

\* What the adapters use of a build_info or of details: the project_root, the workspace
\* root, the Java home, the build system and database of clangd, the virtual environment
\* and the included directories of pyright.
Info == [project : Dirs \cup {None}, workspace : Dirs \cup {None}, home : IdeFiles \cup {None},
         build : Builds \cup {None}, database : BOOLEAN, venv : Environments \cup {None},
         include : SourceRoots \cup {None}]
Nothing == [project |-> None, workspace |-> None, home |-> None, build |-> None,
            database |-> FALSE, venv |-> None, include |-> None]

Detected(language, build, info) == [language |-> language, build |-> build, info |-> info]

\* Without a build system, metadata that only a Java project has makes one.
Java(t, d) ==
  LET build == JavaBuild(t, d)
      root == IF build = "gradle" THEN NearestWith(t, "settings.gradle", d) ELSE d
      known == \E field \in {"sdk", "level", "bytecode"} : From(t, d, field) # None
  IN IF build = None /\ ~known THEN <<>>
     ELSE <<Detected("java", IF build = None THEN "unknown" ELSE build,
                     [Nothing EXCEPT !.project = IF root = d THEN None ELSE root,
                                     !.home = JavaHome(t, d)])>>

Cpp(t, d) ==
  LET build == CppBuild(t, d)
      database == "compile_commands.json" \in t.names[d]
      sources == Sources(t, d)
      language == IF ".cpp" \notin sources /\ ".c" \in sources THEN "c" ELSE "cpp"
  IN IF build = None /\ ~database THEN <<>>
     ELSE <<Detected(language, build, [Nothing EXCEPT !.build = build, !.database = database])>>

\* The environment that the daemon was started in comes before the project's own.
Venv(t, d) == IF t.active THEN "active" ELSE IF ".venv" \in t.names[d] THEN "own" ELSE None

\* Where the sources are: a directory of PyBuilder, or src if packages are in it.
Include(t, d) ==
  IF PythonBuild(t, d) = "pybuilder" /\ "src/main/python" \in t.names[d] THEN "src/main/python"
  ELSE IF "src/package" \in t.names[d] THEN "src" ELSE None

Python(t, d) ==
  IF PythonBuild(t, d) = None THEN <<>>
  ELSE <<Detected("python", PythonBuild(t, d),
                  [Nothing EXCEPT !.venv = Venv(t, d), !.include = Include(t, d)])>>

Rust(t, d) ==
  LET root == NearestWith(t, "[workspace]", d)
  IN IF "Cargo.toml" \notin t.names[d] THEN <<>>
     ELSE <<Detected("rust", "cargo",
                     [Nothing EXCEPT !.workspace = IF root = d THEN None ELSE root,
                                     !.build = "cargo"])>>

\* detect_project.  A detector that raises is passed over.
Detect(t, d) ==
  LET Unless(name, found) == IF name \in t.raises THEN <<>> ELSE found
  IN Unless("java", Java(t, d)) \o Unless("cpp", Cpp(t, d))
     \o Unless("python", Python(t, d)) \o Unless("rust", Rust(t, d))

Names(found) == {found[i].language : i \in DOMAIN found}

-----------------------------------------------------------------------------
(* The scan of scan_languages *)

\* The languages that scan_languages recommends to register: C for all of C++, and
\* Kotlin, which detection never reports.
Recommended(t, d) ==
  LET Name(e) == CASE e \in {".c", ".cpp"} -> "c" [] e = ".java" -> "java"
                   [] e = ".kt" -> "kotlin" [] e = ".py" -> "python" [] e = ".rs" -> "rust"
                   [] e = ".go" -> "go"
  IN {Name(e) : e \in Sources(t, d)}
=============================================================================
