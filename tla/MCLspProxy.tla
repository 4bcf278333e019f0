----------------------------- MODULE MCLspProxy -----------------------------
EXTENDS LspProxy, TLC

CONSTANTS outer, sub, inner, l1, m1

\* inner is in sub, sub in outer.
MCParent == (outer :> None) @@ (sub :> outer) @@ (inner :> sub)
MCRoot == l1 :> outer

Empty == [d \in Dirs |-> [f \in IdeFiles |-> {}]]
At(top, middle, bottom) == (outer :> top) @@ (sub :> middle) @@ (inner :> bottom)
Marked(names) == [names |-> names, ide |-> Empty, raises |-> {}, active |-> FALSE]

\* A Gradle build with a module two levels below, and IDEs whose files disagree.
Gradle ==
  [Marked(At({"settings.gradle", ".java"}, {}, {"build.gradle", ".kt"}))
   EXCEPT !.ide[outer]["misc"] = {"sdk", "home", "level"}, !.ide[outer]["vscode"] = {"sdk", "home"},
          !.ide[inner]["classpath"] = {"sdk"}, !.ide[inner]["vscode"] = {"sdk", "home"}]

\* C++ and Python in one directory.
Polyglot ==
  Marked(At({"CMakeLists.txt", "compile_commands.json", ".cpp", "setup.py", "src/package"}, {}, {}))

\* Rust and Python inside one Cargo workspace inside another.
Cargo ==
  Marked(At({"[workspace]"}, {"[workspace]"},
            {"Cargo.toml", "build.py", "src/main/python", ".venv", ".go"}))

\* C with make and a database; a detector that raises; a Java project that only an IDE knows.
Scattered ==
  [Marked(At({"Makefile", "compile_commands.json", ".c", "setup.py"},
             {}, {"CMakeCache.txt", "Makefile"}))
   EXCEPT !.ide[sub]["prefs"] = {"level"}, !.raises = {"python"}, !.active = TRUE]

\* The same, when it has moved to CMake and the IDE has learnt of an SDK.
Moved ==
  [Scattered EXCEPT !.names[outer] = {"CMakeLists.txt", ".c", "setup.py"},
                    !.ide[sub]["misc"] = {"sdk", "home"}]

MCTrees == <<Gradle, Polyglot, Cargo, Scattered, Moved>>
MCBecomes == <<{}, {}, {}, {5}, {}>>

\* A caller that knows of a database and an environment, and its clangd too.
MCOptions ==
  {Bare, [build_info |-> [Nothing EXCEPT !.database = TRUE, !.venv = "own"], database |-> TRUE]}

TokenSymmetry == Permutations(Tokens)
=============================================================================
