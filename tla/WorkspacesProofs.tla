-------------------------- MODULE WorkspacesProofs --------------------------
(***************************************************************************)
(* Proofs about Workspaces, with the LSP proxies and MCP frontends of      *)
(* LspProxy, for any trees, sessions, proxies and tokens: the registry is  *)
(* consistent, files go to the server of their language, a proxy lets go   *)
(* of what it registered, and servers are started with what detection      *)
(* found.                                                                  *)
(***************************************************************************)
EXTENDS LspProxy, FiniteSetTheorems, WellFoundedInduction, TLAPS

-----------------------------------------------------------------------------
(* Numbers and sequences *)

\* A set of numbers that is not empty has a least one, and Min is it.
LEMMA LeastIsLeast ==
  ASSUME NEW S \in SUBSET Nat, S # {}
  PROVE  Min(S) \in S /\ \A n \in S : Min(S) <= n
<1>1. PICK n \in S : \A m \in S : <<m, n>> \notin OpToRel(<, Nat)
  BY WFMin, NatLessThanWellFounded, Zenon
<1>2. \A m \in S : ~(m < n)
  BY <1>1, Zenon DEF OpToRel
<1>3. \A m \in S : n <= m
  BY <1>2
<1>4. QED
  BY <1>3 DEF Min

\* A sequence with one element replaced.
LEMMA ReplaceType ==
  ASSUME NEW S, NEW q \in Seq(S), NEW i \in DOMAIN q, NEW e \in S
  PROVE  /\ [q EXCEPT ![i] = e] \in Seq(S)
         /\ DOMAIN [q EXCEPT ![i] = e] = DOMAIN q
OBVIOUS

\* Replacing the entry under an index, or one or two components of it.
LEMMA RemoveType ==
  ASSUME NEW i \in DOMAIN projects, projects \in Seq(Project)
  PROVE  /\ Without(i) \in Seq(Project)
         /\ DOMAIN Without(i) = 1..(Len(projects) - 1)
         /\ \A j \in DOMAIN Without(i) :
              Without(i)[j] = projects[IF j < i THEN j ELSE j + 1]
<1>1. Len(projects) - 1 \in Nat /\ DOMAIN projects = 1..Len(projects)
  OBVIOUS
<1>2. \A j \in 1..(Len(projects) - 1) :
        /\ j \in 1..Len(projects) /\ j + 1 \in 1..Len(projects)
        /\ projects[j] \in Project /\ projects[j + 1] \in Project
  BY <1>1
<1>3. DOMAIN Without(i) = 1..(Len(projects) - 1)
  BY DEF Without
<1>4. \A j \in 1..(Len(projects) - 1) : Without(i)[j] = projects[IF j < i THEN j ELSE j + 1]
  BY DEF Without
<1>5. Without(i) \in [1..(Len(projects) - 1) -> Project]
  BY <1>2 DEF Without
<1>6. QED
  BY <1>1, <1>3, <1>4, <1>5

-----------------------------------------------------------------------------
(* The registry, its starts, and the sessions *)

\* There is one project of a directory and language, and one for a token.
EntriesApart ==
  \A i, j \in DOMAIN projects : i # j =>
    /\ ~(projects[i].dir = projects[j].dir /\ projects[i].language = projects[j].language)
    /\ projects[i].tokens \cap projects[j].tokens = {}

TokensAreIssued == \A i \in DOMAIN projects : projects[i].tokens \subseteq issued

\* A start holds the lock, and its entry is in the registry, without tokens.
OneStarts == \A r, s \in Sessions : Starting(r) /\ Starting(s) => r = s
StarterHasEntry ==
  \A s \in Sessions : Starting(s) =>
    \E i \in Existing(call[s]) : projects[i].client = "starting"
StartingIsStarted ==
  \A i \in DOMAIN projects : projects[i].client = "starting" =>
    /\ projects[i].tokens = {}
    /\ \E s \in Sessions : Starting(s) /\ i \in Existing(call[s])

Registry == projects \in Seq(Project) /\ EntriesApart /\ TokensAreIssued
Starts == OneStarts /\ StarterHasEntry /\ StartingIsStarted
SessionsTyped ==
  /\ tree \in DOMAIN Trees
  /\ issued \subseteq Tokens
  /\ session \in [Sessions -> {"on", "leaving", "gone"}]
  /\ held \in [Sessions -> SUBSET issued]
  /\ call \in [Sessions -> Call \cup {None}]

WInv == Registry /\ Starts /\ SessionsTyped

\* This is more than the type invariant asks for.
LEMMA WInvIsTyped == ASSUME WInv PROVE WorkspacesTypeOK
<1>1. ASSUME NEW i \in DOMAIN projects, NEW j \in DOMAIN projects, i # j
      PROVE  Find(projects[i].dir, projects[i].language) = {i}
  BY <1>1 DEF WInv, Registry, EntriesApart, Find
<1>2. QED
  BY <1>1 DEF WInv, Registry, EntriesApart, Starts, StartingIsStarted, SessionsTyped,
     WorkspacesTypeOK

\* A project that is found is the only one.
LEMMA FoundIsOnly ==
  ASSUME Registry, NEW d, NEW language, NEW i \in Find(d, language)
  PROVE  /\ i \in DOMAIN projects
         /\ \A j \in Find(d, language) : j = i
BY DEF Registry, EntriesApart, Find

\* An entry that keeps its key, and gets no token but a fresh one, keeps the registry.
LEMMA ReplaceKeepsRegistry ==
  ASSUME Registry, NEW i \in DOMAIN projects, NEW e \in Project,
         e.dir = projects[i].dir, e.language = projects[i].language,
         projects' = [projects EXCEPT ![i] = e],
         issued \subseteq issued', e.tokens \subseteq issued',
         e.tokens \cap issued \subseteq projects[i].tokens
  PROVE  /\ Registry'
         /\ DOMAIN projects' = DOMAIN projects
         /\ projects'[i] = e
         /\ \A j \in DOMAIN projects : j # i => projects'[j] = projects[j]
         /\ \A d, language : Find(d, language)' = Find(d, language)
<1>1. /\ projects' \in Seq(Project) /\ DOMAIN projects' = DOMAIN projects
      /\ projects'[i] = e /\ \A j \in DOMAIN projects : j # i => projects'[j] = projects[j]
  BY ReplaceType DEF Registry
<1>2. EntriesApart'
  BY <1>1 DEF Registry, EntriesApart, TokensAreIssued
<1>3. TokensAreIssued'
  BY <1>1 DEF Registry, TokensAreIssued
<1>4. \A d, language : Find(d, language)' = Find(d, language)
  BY <1>1 DEF Find
<1>5. QED
  BY <1>1, <1>2, <1>3, <1>4 DEF Registry

\* So does the removal of an entry.
LEMMA RemoveKeepsRegistry ==
  ASSUME Registry, NEW i \in DOMAIN projects, projects' = Without(i), UNCHANGED issued
  PROVE  /\ Registry'
         /\ \A j \in DOMAIN projects' :
              \E o \in DOMAIN projects : o # i /\ projects'[j] = projects[o]
         /\ \A o \in DOMAIN projects : o # i =>
              \E j \in DOMAIN projects' : projects'[j] = projects[o]
<1> DEFINE Old(j) == IF j < i THEN j ELSE j + 1
<1>1. /\ projects \in Seq(Project) /\ DOMAIN projects = 1..Len(projects) /\ i \in Nat
      /\ Len(projects) \in Nat
  BY DEF Registry
<1>2. /\ projects' \in Seq(Project) /\ DOMAIN projects' = 1..(Len(projects) - 1)
      /\ \A j \in DOMAIN projects' : projects'[j] = projects[Old(j)]
  BY <1>1, RemoveType
<1>3. /\ \A j \in DOMAIN projects' : Old(j) \in DOMAIN projects /\ Old(j) # i
      /\ \A j, l \in DOMAIN projects' : j # l => Old(j) # Old(l)
  BY <1>1, <1>2
<1>4. ASSUME NEW o \in DOMAIN projects, o # i
      PROVE  \E j \in DOMAIN projects' : Old(j) = o
  <2>1. CASE o < i
    BY <1>1, <1>2, <2>1
  <2>2. CASE ~(o < i)
    <3>1. o - 1 \in DOMAIN projects' /\ Old(o - 1) = o
      BY <1>1, <1>2, <1>4, <2>2
    <3>2. QED
      BY <3>1
  <2>3. QED
    BY <2>1, <2>2
<1> HIDE DEF Old
<1>5. EntriesApart' /\ TokensAreIssued'
  BY <1>2, <1>3 DEF Registry, EntriesApart, TokensAreIssued
<1>6. QED
  BY <1>2, <1>3, <1>4, <1>5 DEF Registry

\* So does a new entry at the end, of a key that is not there.
LEMMA AppendKeepsRegistry ==
  ASSUME Registry, NEW e \in Project, e.tokens = {}, Find(e.dir, e.language) = {},
         projects' = Append(projects, e), UNCHANGED issued
  PROVE  /\ Registry'
         /\ Len(projects') = Len(projects) + 1
         /\ DOMAIN projects' = DOMAIN projects \cup {Len(projects')}
         /\ projects'[Len(projects')] = e
         /\ \A j \in DOMAIN projects : projects'[j] = projects[j]
<1>1. /\ projects' \in Seq(Project) /\ Len(projects') = Len(projects) + 1
      /\ DOMAIN projects' = DOMAIN projects \cup {Len(projects')}
      /\ projects'[Len(projects')] = e
      /\ \A j \in DOMAIN projects : projects'[j] = projects[j]
  BY DEF Registry
<1>2. EntriesApart' /\ TokensAreIssued'
  BY <1>1 DEF Registry, EntriesApart, TokensAreIssued, Find
<1>3. QED
  BY <1>1, <1>2 DEF Registry

-----------------------------------------------------------------------------
(* Directories *)

\* What is above a directory, up to a level.
Climbs(f, d, n) ==
  f = [i \in 0..n |-> IF i = 0 THEN d ELSE IF f[i - 1] = None THEN None ELSE Parent[f[i - 1]]]

\* A set of numbers with 0 and every successor is all of them.
LEMMA AllNumbers ==
  ASSUME NEW S \in SUBSET Nat, 0 \in S, \A n \in S : n + 1 \in S PROVE S = Nat
<1>1. SUFFICES ASSUME Nat \ S # {} PROVE FALSE
  OBVIOUS
<1> DEFINE n == Min(Nat \ S)
<1>2. n \in Nat \ S /\ \A m \in Nat \ S : n <= m
  BY <1>1, LeastIsLeast
<1> HIDE DEF n
<1>3. n # 0 /\ n - 1 \in Nat /\ n - 1 \notin Nat \ S
  BY <1>2
<1>4. n - 1 \in S
  BY <1>3
<1>5. (n - 1) + 1 \in S /\ (n - 1) + 1 = n
  BY <1>2, <1>4
<1>6. QED
  BY <1>2, <1>5

\* The climb of a given height from a directory is a function.
LEMMA ClimbExists == ASSUME NEW d, NEW n \in Nat PROVE \E f : Climbs(f, d, n)
<1> DEFINE S == {m \in Nat : \E f : Climbs(f, d, m)}
<1>1. 0 \in S
  <2>1. Climbs([i \in 0..0 |-> d], d, 0)
    BY DEF Climbs
  <2>2. QED
    BY <2>1
<1>2. ASSUME NEW m \in S PROVE m + 1 \in S
  <2>1. PICK f : Climbs(f, d, m)
    OBVIOUS
  <2> DEFINE up == IF f[m] = None THEN None ELSE Parent[f[m]]
             g == [i \in 0..(m + 1) |-> IF i = m + 1 THEN up ELSE f[i]]
  <2>2. m \in Nat
    OBVIOUS
  <2>3. ASSUME NEW i \in 0..(m + 1)
        PROVE  g[i] = IF i = 0 THEN d ELSE IF g[i - 1] = None THEN None ELSE Parent[g[i - 1]]
    <3>1. CASE i = m + 1
      BY <2>2, <3>1
    <3>2. CASE i # m + 1
      <4>1. i \in 0..m /\ (i # 0 => i - 1 \in 0..m)
        BY <2>2, <3>2
      <4>2. f[i] = IF i = 0 THEN d ELSE IF f[i - 1] = None THEN None ELSE Parent[f[i - 1]]
        BY <2>1, <4>1 DEF Climbs
      <4>3. g[i] = f[i] /\ (i # 0 => g[i - 1] = f[i - 1])
        BY <2>2, <3>2, <4>1
      <4>4. QED
        BY <4>2, <4>3
    <3>3. QED
      BY <3>1, <3>2
  <2>4. Climbs(g, d, m + 1)
    <3> HIDE DEF up
    <3>1. g = [i \in 0..(m + 1) |-> g[i]]
      OBVIOUS
    <3> HIDE DEF g
    <3>2. QED
      BY <2>3, <3>1, Zenon DEF Climbs
  <2>5. QED
    BY <2>2, <2>4
<1>3. S = Nat
  <2> HIDE DEF S
  <2>1. S \in SUBSET Nat
    BY DEF S
  <2>2. QED
    BY <1>1, <1>2, <2>1, AllNumbers
<1>4. QED
  BY <1>3

\* Up is the climb that goes on for as long as there are directories.
LEMMA UpClimbs == ASSUME NEW d \in Dirs PROVE Climbs(Up[d], d, Cardinality(Dirs))
<1>1. Cardinality(Dirs) \in Nat
  BY DirsAssumption, FS_CardinalityType
<1>2. PICK f : Climbs(f, d, Cardinality(Dirs))
  BY <1>1, ClimbExists
<1>3. Up[d] = CHOOSE g : Climbs(g, d, Cardinality(Dirs))
  BY DEF Up, Climbs
<1>4. QED
  BY <1>2, <1>3, Zenon

\* Whatever is above a directory is one, or nothing is.
LEMMA UpType ==
  ASSUME NEW d \in Dirs
  PROVE  /\ DOMAIN Up[d] = 0..Cardinality(Dirs) /\ Cardinality(Dirs) \in Nat
         /\ Up[d][0] = d
         /\ \A i \in 0..Cardinality(Dirs) : Up[d][i] \in Dirs \cup {None}
<1> DEFINE N == Cardinality(Dirs)
           f == Up[d]
           S == {i \in Nat : i \in 0..N => f[i] \in Dirs \cup {None}}
<1>0. N \in Nat
  BY DirsAssumption, FS_CardinalityType
<1>1. f = [i \in 0..N |-> IF i = 0 THEN d ELSE IF f[i - 1] = None THEN None ELSE Parent[f[i - 1]]]
  BY UpClimbs DEF Climbs
<1> HIDE DEF f, N
<1>2. DOMAIN f = 0..N /\ f[0] = d
  BY <1>0, <1>1
<1>3. ASSUME NEW i \in S PROVE i + 1 \in S
  <2>1. CASE i + 1 \in 0..N
    <3>1. f[i] \in Dirs \cup {None}
      BY <1>0, <2>1
    <3>2. f[i + 1] = IF f[i] = None THEN None ELSE Parent[f[i]]
      BY <1>0, <1>1, <2>1
    <3>3. QED
      BY <3>1, <3>2, DirsAssumption
  <2>2. QED
    BY <2>1
<1>4. S = Nat
  <2>1. 0 \in S /\ S \in SUBSET Nat
    BY <1>2
  <2> HIDE DEF S
  <2>2. QED
    BY <1>3, <2>1, AllNumbers
<1>5. QED
  BY <1>0, <1>2, <1>4 DEF f, N

\* The root of a build is a directory.
LEMMA NearestWithType ==
  ASSUME NEW t, NEW marker, NEW d \in Dirs PROVE NearestWith(t, marker, d) \in Dirs
<1> DEFINE S == RootLevels(t, marker, d)
<1>1. S \in SUBSET Nat /\ \A i \in S : i \in 0..Cardinality(Dirs) /\ Up[d][i] # None
  BY UpType DEF RootLevels
<1> HIDE DEF S
<1>2. CASE S # {}
  BY <1>1, <1>2, LeastIsLeast, UpType DEF NearestWith, S
<1>3. CASE S = {}
  BY <1>3 DEF NearestWith, S
<1>4. QED
  BY <1>2, <1>3

-----------------------------------------------------------------------------
(* What detection finds *)

Rank(file) == 10 * Tier(file) + ReadOrder[file]

\* IDE files are ordered by how credible they are, then by when they are read.
LEMMA RankIsOrder ==
  /\ \A f \in IdeFiles : Rank(f) \in Nat
  /\ \A f, g \in IdeFiles : f # g => (Rank(f) <= Rank(g) <=> Before(f, g))
<1>1. IdeFiles = {"misc", "compiler", "gradle", "kotlinc", "iml", "classpath", "prefs", "vscode"}
  BY DEF IdeFiles, ReadOrder
<1>2. /\ Tier("misc") = 3 /\ Tier("compiler") = 2 /\ Tier("gradle") = 2 /\ Tier("kotlinc") = 3
      /\ Tier("iml") = 2 /\ Tier("classpath") = 4 /\ Tier("prefs") = 4 /\ Tier("vscode") = 4
  BY DEF Tier
<1>3. /\ ReadOrder["misc"] = 1 /\ ReadOrder["compiler"] = 2 /\ ReadOrder["gradle"] = 3
      /\ ReadOrder["kotlinc"] = 4 /\ ReadOrder["iml"] = 5 /\ ReadOrder["classpath"] = 6
      /\ ReadOrder["prefs"] = 7 /\ ReadOrder["vscode"] = 8
  BY DEF ReadOrder
<1>4. \A f \in IdeFiles : Tier(f) \in 2..4 /\ ReadOrder[f] \in 1..8
  BY <1>1, <1>2, <1>3
<1>5. \A f, g \in IdeFiles : f # g => ReadOrder[f] # ReadOrder[g]
  BY <1>1, <1>3
<1>6. QED
  BY <1>4, <1>5 DEF Rank, Before

\* The file that a field comes from has it, and is before all others that do.
LEMMA FromIsFirst ==
  ASSUME NEW t, NEW d, NEW field
  PROVE  \/ From(t, d, field) = None /\ \A f \in IdeFiles : field \notin t.ide[d][f]
         \/ /\ From(t, d, field) \in IdeFiles
            /\ field \in t.ide[d][From(t, d, field)]
            /\ \A g \in IdeFiles : field \in t.ide[d][g] =>
                 g = From(t, d, field) \/ Before(From(t, d, field), g)
<1> DEFINE having == {f \in IdeFiles : field \in t.ide[d][f]}
           ranks == {Rank(f) : f \in having}
<1>1. CASE having = {}
  BY <1>1 DEF From
<1>2. CASE having # {}
  <2>1. ranks \in SUBSET Nat /\ ranks # {}
    BY <1>2, RankIsOrder
  <2>2. PICK f \in having : \A g \in having : Rank(f) <= Rank(g)
    <3> HIDE DEF ranks
    <3>1. Min(ranks) \in ranks /\ \A n \in ranks : Min(ranks) <= n
      BY <2>1, LeastIsLeast
    <3>2. QED
      BY <3>1 DEF ranks
  <2>3. \A g \in having \ {f} : Before(f, g)
    BY <2>2, RankIsOrder
  <2>4. From(t, d, field) = CHOOSE e \in having : \A g \in having \ {e} : Before(e, g)
    BY <1>2 DEF From
  <2>5. /\ From(t, d, field) \in having
        /\ \A g \in having \ {From(t, d, field)} : Before(From(t, d, field), g)
    <3> HIDE DEF having
    <3>1. QED
      BY <2>3, <2>4
  <2>6. QED
    BY <2>5
<1>3. QED
  BY <1>1, <1>2

\* What a list of markers stands for.
LEMMA FirstOfType ==
  ASSUME NEW S, NEW kinds, DOMAIN kinds \in SUBSET Nat,
         \A i \in DOMAIN kinds : kinds[i].means \in S, NEW present
  PROVE  FirstOf(kinds, present) \in S \cup {None}
<1> DEFINE hits == {i \in DOMAIN kinds : kinds[i].markers \cap present # {}}
<1>1. CASE hits = {}
  BY <1>1 DEF FirstOf
<1>2. CASE hits # {}
  <2>1. Min(hits) \in hits
    BY <1>2, LeastIsLeast
  <2>2. QED
    BY <1>2, <2>1 DEF FirstOf
<1>3. QED
  BY <1>1, <1>2

\* The builds of the languages are builds that detectors report.
LEMMA JavaBuildType == ASSUME NEW t, NEW d PROVE JavaBuild(t, d) \in Builds \cup {None}
<1> DEFINE kinds == <<Means({"settings.gradle", "build.gradle"}, "gradle"), Means({"pom.xml"}, "maven"),
            Means({"build.xml"}, "ant"), Means({".classpath"}, "eclipse")>>
<1>1. DOMAIN kinds \in SUBSET Nat /\ \A i \in DOMAIN kinds : kinds[i].means \in Builds
  BY DEF Means, Builds
<1>2. JavaBuild(t, d) = FirstOf(kinds, t.names[d])
  BY DEF JavaBuild
<1> HIDE DEF kinds
<1>3. QED
  BY <1>1, <1>2, FirstOfType

\* So are those of C and C++.
LEMMA CppBuildType == ASSUME NEW t, NEW d PROVE CppBuild(t, d) \in Builds \cup {None}
<1> DEFINE makefile == IF "CMakeCache.txt" \in t.names[d] THEN {} ELSE {"Makefile"}
           kinds == <<Means({"CMakeLists.txt"}, "cmake"), Means({"meson.build"}, "meson"),
            Means({"configure.ac"}, "autotools"), Means({"MODULE.bazel"}, "bazel"),
            Means(makefile, "make")>>
<1>1. CppBuild(t, d) = FirstOf(kinds, t.names[d])
  BY DEF CppBuild
<1> HIDE DEF makefile
<1>2. DOMAIN kinds \in SUBSET Nat /\ \A i \in DOMAIN kinds : kinds[i].means \in Builds
  BY DEF Means, Builds
<1> HIDE DEF kinds
<1>3. QED
  BY <1>1, <1>2, FirstOfType

\* And those of Python.
LEMMA PythonBuildType == ASSUME NEW t, NEW d PROVE PythonBuild(t, d) \in Builds \cup {None}
<1> DEFINE pyproject == IF "backend" \in t.names[d] THEN "backend" ELSE "pyproject"
           kinds == <<Means({"build.py"}, "pybuilder"), Means({"pyproject.toml"}, pyproject),
               Means({"setup.py", "setup.cfg"}, "setuptools"),
               Means({"Pipfile"}, "pipenv"), Means({"requirements.txt"}, "pip")>>
<1>1. PythonBuild(t, d) = FirstOf(kinds, t.names[d])
  BY DEF PythonBuild
<1>2. pyproject \in Builds
  BY DEF Builds
<1> HIDE DEF pyproject
<1>3. DOMAIN kinds \in SUBSET Nat /\ \A i \in DOMAIN kinds : kinds[i].means \in Builds
  BY <1>2 DEF Means, Builds
<1> HIDE DEF kinds
<1>4. QED
  BY <1>1, <1>3, FirstOfType

\* What a detector reports.
Finding == [language : Reported, build : Builds \cup {None}, info : Info]

\* A detector finds its own language, or nothing.
LEMMA OneFinding ==
  ASSUME NEW language \in Reported, NEW build \in Builds \cup {None}, NEW info \in Info
  PROVE  <<Detected(language, build, info)>> \in Seq(Finding)
<1>1. Detected(language, build, info) \in Finding
  BY DEF Detected, Finding
<1>2. QED
  BY <1>1

\* A finding without details.
LEMMA NothingType == Nothing \in Info
BY DEF Nothing, Info

\* Each detector reports findings: that of Java,
LEMMA JavaType == ASSUME NEW t \in Tree, NEW d \in Dirs PROVE Java(t, d) \in Seq(Finding)
<1> DEFINE build == JavaBuild(t, d)
           root == IF build = "gradle" THEN NearestWith(t, "settings.gradle", d) ELSE d
           known == \E field \in {"sdk", "level", "bytecode"} : From(t, d, field) # None
           named == IF build = None THEN "unknown" ELSE build
           info == [Nothing EXCEPT !.project = IF root = d THEN None ELSE root,
                                   !.home = JavaHome(t, d)]
<1>1. Java(t, d) = IF build = None /\ ~known THEN <<>> ELSE <<Detected("java", named, info)>>
  BY DEF Java
<1>2. root \in Dirs
  BY NearestWithType
<1>3. named \in Builds
  BY JavaBuildType DEF Builds
<1>4. JavaHome(t, d) \in IdeFiles \cup {None}
  BY FromIsFirst DEF JavaHome
<1> HIDE DEF root
<1>5. info \in Info
  BY <1>2, <1>4, NothingType DEF Info
<1>6. "java" \in Reported
  BY DEF Reported
<1> HIDE DEF named, info, known
<1>7. QED
  BY <1>1, <1>3, <1>5, <1>6, OneFinding

\* that of C and C++,
LEMMA CppType == ASSUME NEW t \in Tree, NEW d \in Dirs PROVE Cpp(t, d) \in Seq(Finding)
<1> DEFINE build == CppBuild(t, d)
           database == "compile_commands.json" \in t.names[d]
           sources == Sources(t, d)
           language == IF ".cpp" \notin sources /\ ".c" \in sources THEN "c" ELSE "cpp"
           info == [Nothing EXCEPT !.build = build, !.database = database]
<1>1. Cpp(t, d) = IF build = None /\ ~database THEN <<>> ELSE <<Detected(language, build, info)>>
  BY DEF Cpp
<1>2. build \in Builds \cup {None} /\ database \in BOOLEAN
  BY CppBuildType
<1>3. language \in Reported
  BY DEF Reported
<1> HIDE DEF build, database, language
<1>4. info \in Info
  BY <1>2, NothingType DEF Info
<1> HIDE DEF info
<1>5. QED
  BY <1>1, <1>2, <1>3, <1>4, OneFinding

\* that of Python,
LEMMA PythonType == ASSUME NEW t \in Tree, NEW d \in Dirs PROVE Python(t, d) \in Seq(Finding)
<1> DEFINE info == [Nothing EXCEPT !.venv = Venv(t, d), !.include = Include(t, d)]
<1>1. Python(t, d) = IF PythonBuild(t, d) = None THEN <<>>
                     ELSE <<Detected("python", PythonBuild(t, d), info)>>
  BY DEF Python
<1>2. Venv(t, d) \in Environments \cup {None} /\ Include(t, d) \in SourceRoots \cup {None}
  BY DEF Venv, Include, Environments, SourceRoots
<1>3. info \in Info
  BY <1>2, NothingType DEF Info
<1>4. "python" \in Reported
  BY DEF Reported
<1> HIDE DEF info
<1>5. QED
  BY <1>1, <1>3, <1>4, PythonBuildType, OneFinding

\* and that of Rust.
LEMMA RustType == ASSUME NEW t \in Tree, NEW d \in Dirs PROVE Rust(t, d) \in Seq(Finding)
<1> DEFINE root == NearestWith(t, "[workspace]", d)
           info == [Nothing EXCEPT !.workspace = IF root = d THEN None ELSE root, !.build = "cargo"]
<1>1. Rust(t, d) = IF "Cargo.toml" \notin t.names[d] THEN <<>>
                   ELSE <<Detected("rust", "cargo", info)>>
  BY DEF Rust
<1>2. root \in Dirs /\ "cargo" \in Builds /\ "rust" \in Reported
  BY NearestWithType DEF Builds, Reported
<1> HIDE DEF root
<1>3. info \in Info
  BY <1>2, NothingType DEF Info
<1> HIDE DEF info
<1>4. QED
  BY <1>1, <1>2, <1>3, OneFinding

\* So does detection as a whole, in the order of the detectors.
LEMMA DetectType == ASSUME NEW t \in Tree, NEW d \in Dirs PROVE Detect(t, d) \in Seq(Finding)
<1> DEFINE Unless(name, found) == IF name \in t.raises THEN <<>> ELSE found
<1>1. /\ Unless("java", Java(t, d)) \in Seq(Finding) /\ Unless("cpp", Cpp(t, d)) \in Seq(Finding)
      /\ Unless("python", Python(t, d)) \in Seq(Finding)
      /\ Unless("rust", Rust(t, d)) \in Seq(Finding)
  BY JavaType, CppType, PythonType, RustType
<1>2. Detect(t, d) = Unless("java", Java(t, d)) \o Unless("cpp", Cpp(t, d))
                       \o Unless("python", Python(t, d)) \o Unless("rust", Rust(t, d))
  BY DEF Detect
<1> HIDE DEF Unless
<1>3. \A a, b, c, e \in Seq(Finding) : a \o b \o c \o e \in Seq(Finding)
  OBVIOUS
<1>4. QED
  BY <1>1, <1>2, <1>3

\* What is found in each tree are findings.
LEMMA FoundType ==
  ASSUME NEW n \in DOMAIN Trees, NEW d \in Dirs
  PROVE  Found[n][d] = Detect(Trees[n], d) /\ Found[n][d] \in Seq(Finding)
BY DetectType, TreesAssumption DEF Found

\* The languages of a directory, detected or recommended, are such that somebody handles.
LEMMA NamesType ==
  ASSUME NEW n \in DOMAIN Trees, NEW d \in Dirs
  PROVE  /\ [i \in DOMAIN Found[n][d] |-> Found[n][d][i].language] \in Seq(Reported)
         /\ Names(Found[n][d]) \subseteq Reported
         /\ Scanned[n][d] \subseteq Languages
<1>1. \A i \in DOMAIN Found[n][d] : Found[n][d][i] \in Finding
  BY FoundType
<1>2. \A i \in DOMAIN Found[n][d] : Found[n][d][i].language \in Reported
  BY <1>1 DEF Finding
<1>3. Scanned[n][d] \subseteq Languages
  <2>1. Scanned[n][d] = Recommended(Trees[n], d)
    BY DEF Scanned
  <2>2. Sources(Trees[n], d) \subseteq Extensions
    BY DEF Sources
  <2>3. Recommended(Trees[n], d) \subseteq Languages
    BY <2>2 DEF Recommended, Extensions, Languages, Reported
  <2>4. QED
    BY <2>1, <2>3
<1>4. DOMAIN Found[n][d] = 1..Len(Found[n][d]) /\ Len(Found[n][d]) \in Nat
  BY FoundType
<1>5. QED
  BY <1>2, <1>3, <1>4 DEF Names

-----------------------------------------------------------------------------
(* What a register asks for, and what is then started *)

\* The finding whose configuration is used is one of them.
LEMMA ChosenIsFound ==
  ASSUME NEW found \in Seq(Finding), found # <<>>, NEW asked
  PROVE  /\ \E i \in DOMAIN found : Chosen(found, asked) = found[i]
         /\ asked \in Names(found) => Chosen(found, asked).language = asked
<1> DEFINE same == {i \in DOMAIN found : found[i].language = asked}
<1>1. DOMAIN found \subseteq Nat /\ 1 \in DOMAIN found
  OBVIOUS
<1>2. CASE same = {}
  <2>1. Chosen(found, asked) = found[1] /\ asked \notin Names(found)
    BY <1>2 DEF Chosen, Names
  <2>2. QED
    BY <1>1, <2>1
<1>3. CASE same # {}
  <2>1. Min(same) \in same
    BY <1>1, <1>3, LeastIsLeast
  <2>2. Chosen(found, asked) = found[Min(same)]
    BY <1>3 DEF Chosen
  <2>3. QED
    BY <2>1, <2>2
<1>4. QED
  BY <1>2, <1>3

\* C++ is C to the registry.
LEMMA CanonicalType == ASSUME NEW language \in Languages PROVE Canonical(language) \in Languages
BY DEF Canonical, Languages, Reported

\* What callers may give.
LEMMA OptionsType ==
  ASSUME NEW option \in Options
  PROVE  /\ option.build_info \in BuildInfo \cup {None}
         /\ option.database \in BOOLEAN
BY OptionsAssumption

\* A build_info brought up to date is one, and so is what is made of two.
LEMMA UpdatedType ==
  ASSUME NEW old \in Info, NEW new \in Info
  PROVE  Updated(old, new) \in Info /\ Over(new, old) \in Info
<1>1. /\ Or(new.project, old.project) \in Dirs \cup {None}
      /\ Or(new.venv, old.venv) \in Environments \cup {None}
      /\ Or(new.include, old.include) \in SourceRoots \cup {None}
      /\ (old.database \/ new.database) \in BOOLEAN
  BY DEF Or, Info
<1>2. Updated(old, new) \in Info
  <2>1. Updated(old, new) =
          [old EXCEPT !.project = Or(new.project, old.project),
                      !.database = old.database \/ new.database,
                      !.venv = Or(new.venv, old.venv), !.include = Or(new.include, old.include)]
    BY DEF Updated
  <2> DEFINE project == Or(new.project, old.project)
             database == old.database \/ new.database
             venv == Or(new.venv, old.venv)
             include == Or(new.include, old.include)
  <2> HIDE DEF project, database, venv, include
  <2>2. /\ project \in Dirs \cup {None} /\ venv \in Environments \cup {None}
        /\ include \in SourceRoots \cup {None} /\ database \in BOOLEAN
    BY <1>1 DEF project, database, venv, include
  <2>3. [old EXCEPT !.project = project, !.database = database, !.venv = venv, !.include = include]
          \in Info
    BY <2>2 DEF Info
  <2>4. QED
    BY <2>1, <2>3 DEF project, database, venv, include
<1>3. QED
  BY <1>2 DEF Over, Info

\* What detection reports is split into a build_info and details, and is found again when
\* they are put together.
LEMMA DetectedIsFound ==
  ASSUME NEW info \in Info
  PROVE  DetectedBuildInfo(info) \in Info /\ Over(DetectedBuildInfo(info), info) = info
<1> DEFINE given == DetectedBuildInfo(info)
<1>1. /\ given = [Nothing EXCEPT !.project = info.project, !.database = info.database]
      /\ given \in Info
  BY NothingType DEF DetectedBuildInfo, Info
<1>2. /\ given.project = info.project /\ given.database = info.database
      /\ given.venv = None /\ given.include = None
  BY <1>1 DEF Nothing
<1> HIDE DEF given
<1>3. Or(given.venv, info.venv) = info.venv /\ Or(given.include, info.include) = info.include
  BY <1>2 DEF Or
<1>4. Updated(info, given) =
        [info EXCEPT !.project = Or(given.project, info.project),
                     !.database = info.database, !.venv = info.venv, !.include = info.include]
  BY <1>2, <1>3 DEF Updated, Info
<1>5. Over(given, info) =
        [info EXCEPT !.project = info.project, !.database = info.database,
                     !.venv = info.venv, !.include = info.include]
  BY <1>2, <1>4 DEF Over, Info
<1>6. QED
  BY <1>1, <1>5 DEF Info, given

\* What a register asks for, when it has not failed, is a language with its details.
LEMMA RequestType ==
  ASSUME NEW n \in DOMAIN Trees, NEW d \in Dirs, NEW asked \in Languages \cup {None},
         NEW build_info \in BuildInfo \cup {None}
  PROVE  /\ Request(Found[n][d], asked, build_info).language \in Languages \cup {None}
         /\ Request(Found[n][d], asked, build_info).given \in Info
         /\ Request(Found[n][d], asked, build_info).info \in Info
<1> DEFINE found == Found[n][d]
           detected == IF found = <<>> THEN Nothing ELSE Chosen(found, asked).info
           given == IF build_info = None THEN DetectedBuildInfo(detected) ELSE build_info
           request == Request(found, asked, build_info)
<1>1. found \in Seq(Finding)
  BY FoundType
<1> HIDE DEF found
<1>2. asked # None => Canonical(asked) \in Languages
  BY CanonicalType
<1>3. ASSUME found # <<>>
      PROVE  /\ Chosen(found, asked).info \in Info
             /\ Canonical(Chosen(found, asked).language) \in Languages
  <2>1. Chosen(found, asked) \in Finding
    BY <1>1, <1>3, ChosenIsFound
  <2>2. Chosen(found, asked).language \in Reported
    BY <2>1 DEF Finding
  <2>3. Chosen(found, asked).language \in Languages
    BY <2>2 DEF Languages
  <2>4. QED
    BY <2>1, <2>3, CanonicalType DEF Finding
<1>4. detected \in Info
  BY <1>3, NothingType
<1>5. given \in Info
  BY <1>4, DetectedIsFound DEF BuildInfo
<1>6. Over(given, detected) \in Info
  BY <1>4, <1>5, UpdatedType
<1>7. request.given = given /\ request.info = Over(given, detected)
  BY DEF Request
<1>8. request.language \in Languages \cup {None}
  <2>1. CASE asked = None /\ found # <<>>
    <3>1. \/ request.language = None
          \/ request.language = Canonical(Chosen(found, asked).language)
      BY <2>1 DEF Request
    <3>2. QED
      BY <1>3, <2>1, <3>1
  <2>2. CASE ~(asked = None /\ found # <<>>)
    <3>1. request.language = IF asked = None THEN None ELSE Canonical(asked)
      BY <2>2 DEF Request
    <3>2. QED
      BY <1>2, <3>1
  <2>3. QED
    BY <2>1, <2>2
<1>9. QED
  BY <1>5, <1>6, <1>7, <1>8 DEF found

\* A command as it is given, which may name a database.
LEMMA PlainType ==
  ASSUME NEW d \in Dirs, NEW database \in BOOLEAN
  PROVE  [Plain(d) EXCEPT !.database = database] \in Command /\ Plain(d) \in Command
BY DEF Plain, Command

\* Whether there is a database for clangd.
LEMMA DatabasesType ==
  ASSUME NEW info \in Info, NEW detected, NEW t, NEW d
  PROVE  Databases(info, detected, t, d) \subseteq BOOLEAN
<1> DEFINE there == "compile_commands.json" \in t.names[d]
<1>1. there \in BOOLEAN
  OBVIOUS
<1>2. Databases(info, detected, t, d) \in {BOOLEAN, {FALSE}, {there}}
  BY DEF Databases
<1> HIDE DEF there
<1>3. QED
  BY <1>1, <1>2

\* Each adapter makes a command of what it is given.
LEMMA ConfigureType ==
  ASSUME NEW d \in Dirs, NEW language \in Installed, NEW command \in Command,
         NEW info \in Info, NEW database \in BOOLEAN
  PROVE  Configure(d, language, command, info, database) \in Command
<1>1. Plain(d) \in Command
  BY DEF Plain, Command
<1>2. /\ Or(info.project, d) \in Dirs /\ Or(info.workspace, d) \in Dirs
      /\ info.home \in IdeFiles \cup {None} /\ info.venv \in Environments \cup {None}
      /\ info.include \in SourceRoots \cup {None}
      /\ (command.database \/ database) \in BOOLEAN
      /\ Or(command.data, Or(info.project, d)) \in Dirs
  BY DEF Info, Or, Command
<1>3. Clangd(d, command, database) \in Command
  BY <1>1, <1>2 DEF Clangd, Command
<1>4. Jdtls(d, command, info) \in Command
  BY <1>1, <1>2 DEF Jdtls, Command
<1>5. Pyright(d, info) \in Command
  BY <1>1, <1>2 DEF Pyright, Command
<1>6. RustAnalyzer(d, info) \in Command
  BY <1>1, <1>2 DEF RustAnalyzer, Command
<1>7. QED
  BY <1>3, <1>4, <1>5, <1>6, InstalledAssumption DEF Configure

-----------------------------------------------------------------------------
(* Each operation *)

\* The lock is held by whoever starts, so without it no entry is starting.
LEMMA UnlockedNothingStarts ==
  ASSUME WInv, ~Locked
  PROVE  /\ \A s \in Sessions : ~Starting(s)
         /\ \A i \in DOMAIN projects : projects[i].client # "starting"
BY DEF WInv, Starts, StartingIsStarted, Locked, Starting

\* Detection is asked before the lock is, so a new call starts nothing.
LEMMA NewCallWInv ==
  ASSUME WInv, NEW s \in Sessions, NEW c \in Call, c.starting = FALSE, call[s] = None,
         call' = [call EXCEPT ![s] = c], UNCHANGED <<tree, projects, issued, session, held>>
  PROVE  WInv'
<1>1. SessionsTyped'
  BY DEF WInv, SessionsTyped
<1>2. ~Starting(s) /\ ~Starting(s)'
  BY DEF Starting, WInv, SessionsTyped
<1>3. \A r \in Sessions : r # s => call'[r] = call[r]
  BY DEF WInv, SessionsTyped
<1>4. \A r \in Sessions : Starting(r)' <=> Starting(r)
  BY <1>2, <1>3 DEF Starting
<1>5. \A r \in Sessions : Starting(r) => Existing(call[r])' = Existing(call[r])
  BY <1>2, <1>3 DEF Existing, Find
<1>6. Starts'
  BY <1>4, <1>5 DEF WInv, Starts, OneStarts, StarterHasEntry, StartingIsStarted
<1>7. QED
  BY <1>1, <1>6 DEF WInv, Registry, EntriesApart, TokensAreIssued

\* That of a register,
LEMMA AsksWInv ==
  ASSUME WInv, NEW s \in Sessions, NEW d \in Dirs, NEW asked \in Languages \cup {None},
         NEW option \in Options, NEW force \in BOOLEAN, Asks(s, d, asked, option, force)
  PROVE  WInv'
<1> DEFINE request == Request(Found[tree][d], asked, option.build_info)
           left == option = Bare /\ asked \in Names(Found[tree][d]) \cup {None}
           command == [Plain(d) EXCEPT !.database = option.database]
           c == [dir |-> d, language |-> request.language, given |-> request.given,
                 info |-> request.info, command |-> command,
                 force |-> force, starting |-> FALSE, tree |-> tree, detected |-> left]
<1>1. /\ call' = [call EXCEPT ![s] = c] /\ request.language # None /\ call[s] = None
      /\ UNCHANGED <<tree, projects, issued, session, held>>
  BY DEF Asks
<1>2. option.build_info \in BuildInfo \cup {None} /\ option.database \in BOOLEAN
  BY OptionsType
<1>3. request.language \in Languages /\ request.given \in Info /\ request.info \in Info
  BY <1>1, <1>2, RequestType DEF WInv, SessionsTyped
<1>4. command \in Command
  BY <1>2, PlainType
<1>5. left \in BOOLEAN /\ tree \in DOMAIN Trees
  BY DEF WInv, SessionsTyped
<1> HIDE DEF request, command, left
<1>6. c \in Call /\ c.starting = FALSE
  BY <1>3, <1>4, <1>5 DEF Call
<1> HIDE DEF c
<1>7. QED
  BY <1>1, <1>6, NewCallWInv

\* and that of regenerate_index.
LEMMA RegenerateAsksWInv ==
  ASSUME WInv, NEW s \in Sessions, RegenerateAsks(s) PROVE WInv'
<1> DEFINE Again(i) ==
             [dir |-> projects[i].dir, language |-> projects[i].language,
              given |-> projects[i].given, info |-> projects[i].given,
              command |-> projects[i].command,
              force |-> TRUE, starting |-> FALSE, tree |-> tree, detected |-> FALSE]
<1>1. /\ call[s] = None /\ UNCHANGED <<tree, projects, issued, session, held>>
      /\ \E i \in DOMAIN projects : call' = [call EXCEPT ![s] = Again(i)]
  BY DEF RegenerateAsks
<1>2. PICK i \in DOMAIN projects : call' = [call EXCEPT ![s] = Again(i)]
  BY <1>1
<1>3. projects[i] \in Project /\ tree \in DOMAIN Trees
  BY DEF WInv, Registry, SessionsTyped
<1>4. /\ projects[i].dir \in Dirs /\ projects[i].given \in Info /\ projects[i].command \in Command
      /\ projects[i].language \in Languages
  BY <1>3 DEF Project, Languages, Reported
<1>5. Again(i) \in Call /\ Again(i).starting = FALSE
  BY <1>3, <1>4 DEF Call
<1> HIDE DEF Again
<1>6. QED
  BY <1>1, <1>2, <1>5, NewCallWInv

\* With the lock free before and after, nothing starts and nothing is starting.
LEMMA QuietStarts ==
  ASSUME \A s \in Sessions : ~Starting(s)',
         \A i \in DOMAIN projects' : projects'[i].client # "starting"
  PROVE  Starts'
BY DEF Starts, OneStarts, StarterHasEntry, StartingIsStarted

\* A call that ends starts nothing any more.
LEMMA EndsStarts ==
  ASSUME WInv, NEW s \in Sessions, Ends(s)
  PROVE  /\ call' \in [Sessions -> Call \cup {None}] /\ ~Starting(s)'
         /\ \A r \in Sessions : r # s => (Starting(r)' <=> Starting(r)) /\ call'[r] = call[r]
BY DEF Ends, Starting, WInv, SessionsTyped

\* A token that is issued is good, and somebody's.
LEMMA IssueTypes ==
  ASSUME WInv, NEW s \in Sessions, NEW k \in Tokens, Issue(s, k)
  PROVE  /\ issued' \subseteq Tokens /\ held' \in [Sessions -> SUBSET issued']
         /\ issued' = issued \cup {k} /\ k \notin issued
BY DEF Issue, WInv, SessionsTyped

\* Another registration of a project that is there.
LEMMA JoinWInv ==
  ASSUME WInv, NEW s \in Sessions, NEW k \in Tokens, Join(s, k) PROVE WInv'
<1>1. PICK i \in Existing(call[s]) :
        projects' = [projects EXCEPT ![i].tokens = @ \cup {k},
                                     ![i].given = Updated(@, call[s].given)]
  BY DEF Join
<1> DEFINE given == Updated(projects[i].given, call[s].given)
           e == [projects[i] EXCEPT !.tokens = @ \cup {k}, !.given = given]
<1>2. i \in DOMAIN projects /\ projects[i] \in Project
  BY DEF Existing, Find, WInv, Registry
<1>a. given \in Info
  <2>1. call[s] \in Call
    BY DEF Join, WInv, SessionsTyped
  <2>2. QED
    BY <1>2, <2>1, UpdatedType DEF Project, Call
<1>3. /\ issued' = issued \cup {k} /\ k \notin issued /\ issued' \subseteq Tokens
      /\ held' \in [Sessions -> SUBSET issued']
  BY IssueTypes DEF Join
<1>6. projects' = [projects EXCEPT ![i] = e]
  BY <1>1, <1>2
<1> HIDE DEF given
<1>4. /\ e \in Project /\ e.dir = projects[i].dir /\ e.language = projects[i].language
      /\ e.tokens = projects[i].tokens \cup {k} /\ e.client = projects[i].client
  BY <1>2, <1>3, <1>a DEF Project
<1>5. projects[i].tokens \subseteq issued
  BY <1>2 DEF WInv, Registry, TokensAreIssued
<1> HIDE DEF e
<1>7. /\ Registry' /\ DOMAIN projects' = DOMAIN projects /\ projects'[i] = e
      /\ \A j \in DOMAIN projects : j # i => projects'[j] = projects[j]
  BY <1>2, <1>3, <1>4, <1>5, <1>6, ReplaceKeepsRegistry DEF WInv
<1>8. Ends(s) /\ ~Locked /\ UNCHANGED <<tree, session>>
  BY DEF Join
<1>9. Starts'
  BY <1>2, <1>4, <1>7, <1>8, UnlockedNothingStarts, EndsStarts, QuietStarts
<1>10. SessionsTyped'
  BY <1>3, <1>8, EndsStarts DEF WInv, SessionsTyped
<1>11. QED
  BY <1>7, <1>9, <1>10 DEF WInv

\* A register that fails for want of a server.
LEMMA NotInstalledWInv ==
  ASSUME WInv, NEW s \in Sessions, NotInstalled(s) PROVE WInv'
<1>1. Ends(s) /\ ~Locked /\ UNCHANGED <<tree, projects, issued, session, held>>
  BY DEF NotInstalled
<1>2. Starts'
  BY <1>1, UnlockedNothingStarts, EndsStarts, QuietStarts
<1>3. QED
  BY <1>1, <1>2, EndsStarts DEF WInv, SessionsTyped, Registry, EntriesApart, TokensAreIssued

\* A start takes the place of the entry, or is a new one of its own.
LEMMA StartWInv ==
  ASSUME WInv, NEW s \in Sessions, Start(s) PROVE WInv'
<1> DEFINE c == call[s]
           Entry(database) ==
             [dir |-> c.dir, language |-> c.language, client |-> "starting", tokens |-> {},
              given |-> c.given,
              command |-> Configure(c.dir, c.language, c.command, c.info, database),
              tree |-> c.tree, start |-> tree, detected |-> c.detected]
<1>0. PICK database \in Databases(c.info, c.detected, Trees[tree], c.dir) :
        \/ Existing(c) = {} /\ projects' = Append(projects, Entry(database))
        \/ \E i \in Existing(c) : projects' = [projects EXCEPT ![i] = Entry(database)]
  BY DEF Start
<1> DEFINE project == Entry(database)
<1>1. /\ c # None /\ ~Locked /\ c.language \in Installed
      /\ call' = [call EXCEPT ![s].starting = TRUE]
      /\ UNCHANGED <<tree, issued, session, held>>
      /\ \/ Existing(c) = {} /\ projects' = Append(projects, project)
         \/ \E i \in Existing(c) : projects' = [projects EXCEPT ![i] = project]
  BY <1>0 DEF Start
<1>2. c \in Call /\ tree \in DOMAIN Trees
  BY <1>1 DEF WInv, SessionsTyped
<1>3. Configure(c.dir, c.language, c.command, c.info, database) \in Command
  <2>1. /\ c.dir \in Dirs /\ c.command \in Command /\ c.info \in Info
        /\ Databases(c.info, c.detected, Trees[tree], c.dir) \subseteq BOOLEAN
    BY <1>2, DatabasesType DEF Call
  <2> HIDE DEF c
  <2>2. QED
    BY <1>1, <2>1, ConfigureType
<1>4. project \in Project
  BY <1>1, <1>2, <1>3, InstalledAssumption DEF Project, Call
<1>5. /\ project.dir = c.dir /\ project.language = c.language /\ project.tokens = {}
      /\ project.client = "starting"
  OBVIOUS
<1> HIDE DEF project, Entry
<1>6. /\ call' \in [Sessions -> Call \cup {None}] /\ call'[s] \in Call
      /\ call'[s].starting /\ call'[s].dir = c.dir /\ call'[s].language = c.language
      /\ \A r \in Sessions : r # s => call'[r] = call[r]
  BY <1>1, <1>2 DEF WInv, SessionsTyped, Call
<1>7. Starting(s)' /\ \A r \in Sessions : r # s => ~Starting(r)'
  BY <1>1, <1>6, UnlockedNothingStarts, NoneAssumption DEF Starting
<1>8. \A i \in DOMAIN projects : projects[i].client # "starting"
  BY <1>1, UnlockedNothingStarts
<1>9. ASSUME NEW i \in DOMAIN projects', projects'[i] = project, Registry',
             \A j \in DOMAIN projects' : j # i => projects'[j].client # "starting"
      PROVE  Starts'
  <2>1. i \in Existing(call[s])'
    BY <1>5, <1>6, <1>9 DEF Existing, Find
  <2>2. QED
    BY <1>5, <1>7, <1>9, <2>1 DEF Starts, OneStarts, StarterHasEntry, StartingIsStarted
<1>10. Registry' /\ Starts'
  <2>1. CASE Existing(c) = {} /\ projects' = Append(projects, project)
    <3>1. /\ Registry' /\ DOMAIN projects' = DOMAIN projects \cup {Len(projects')}
          /\ projects'[Len(projects')] = project
          /\ \A j \in DOMAIN projects : projects'[j] = projects[j]
      BY <1>1, <1>4, <1>5, <2>1, AppendKeepsRegistry DEF WInv, Existing
    <3>2. QED
      BY <1>8, <1>9, <3>1
  <2>2. ASSUME NEW i \in Existing(c), projects' = [projects EXCEPT ![i] = project]
        PROVE  Registry' /\ Starts'
    <3>1. i \in DOMAIN projects /\ c.dir = projects[i].dir /\ c.language = projects[i].language
      BY <2>2 DEF Existing, Find
    <3>2. /\ Registry' /\ DOMAIN projects' = DOMAIN projects /\ projects'[i] = project
          /\ \A j \in DOMAIN projects : j # i => projects'[j] = projects[j]
      BY <1>1, <1>4, <1>5, <2>2, <3>1, ReplaceKeepsRegistry DEF WInv
    <3>3. QED
      BY <1>8, <1>9, <3>1, <3>2
  <2>3. QED
    BY <1>1, <2>1, <2>2
<1>11. QED
  BY <1>1, <1>6, <1>10 DEF WInv, SessionsTyped

\* Whoever starts is alone, and so is its entry.
LEMMA StarterIsAlone ==
  ASSUME WInv, NEW s \in Sessions, Starting(s), NEW i \in Existing(call[s])
  PROVE  /\ i \in DOMAIN projects /\ projects[i] \in Project
         /\ projects[i].client = "starting" /\ projects[i].tokens = {}
         /\ \A r \in Sessions : r # s => ~Starting(r)
         /\ \A j \in DOMAIN projects : j # i => projects[j].client # "starting"
<1>1. \A j \in Existing(call[s]) : j = i
  BY FoundIsOnly DEF WInv, Existing
<1>2. i \in DOMAIN projects /\ projects[i].client = "starting"
  BY <1>1, FoundIsOnly DEF WInv, Starts, StarterHasEntry, Existing
<1>3. \A r \in Sessions : r # s => ~Starting(r)
  BY DEF WInv, Starts, OneStarts
<1>4. \A j \in DOMAIN projects : j # i => projects[j].client # "starting"
  BY <1>1, <1>3 DEF WInv, Starts, StartingIsStarted
<1>5. QED
  BY <1>2, <1>3, <1>4 DEF WInv, Registry, Starts, StartingIsStarted

\* The entry that was started gets the token of its starter only.
LEMMA StartedWInv ==
  ASSUME WInv, NEW s \in Sessions, NEW k \in Tokens, Started(s, k) PROVE WInv'
<1>1. PICK i \in Existing(call[s]) :
        projects' = [projects EXCEPT ![i].client = "up", ![i].tokens = {k}]
  BY DEF Started
<1> DEFINE e == [projects[i] EXCEPT !.client = "up", !.tokens = {k}]
<1>2. /\ i \in DOMAIN projects /\ projects[i] \in Project
      /\ \A r \in Sessions : r # s => ~Starting(r)
      /\ \A j \in DOMAIN projects : j # i => projects[j].client # "starting"
  BY StarterIsAlone DEF Started
<1>3. /\ issued' = issued \cup {k} /\ k \notin issued /\ issued' \subseteq Tokens
      /\ held' \in [Sessions -> SUBSET issued']
  BY IssueTypes DEF Started
<1>4. /\ e \in Project /\ e.dir = projects[i].dir /\ e.language = projects[i].language
      /\ e.tokens = {k} /\ e.client = "up"
  BY <1>2 DEF Project
<1>5. projects' = [projects EXCEPT ![i] = e]
  BY <1>1, <1>2 DEF WInv, Registry
<1> HIDE DEF e
<1>6. /\ Registry' /\ DOMAIN projects' = DOMAIN projects /\ projects'[i] = e
      /\ \A j \in DOMAIN projects : j # i => projects'[j] = projects[j]
  BY <1>2, <1>3, <1>4, <1>5, ReplaceKeepsRegistry DEF WInv
<1>7. Ends(s) /\ UNCHANGED <<tree, session>>
  BY DEF Started
<1>8. Starts'
  BY <1>2, <1>4, <1>6, <1>7, EndsStarts, QuietStarts
<1>9. SessionsTyped'
  BY <1>3, <1>7, EndsStarts DEF WInv, SessionsTyped
<1>10. QED
  BY <1>6, <1>8, <1>9 DEF WInv

\* It is the starter's own entry that goes.
LEMMA StartFailsWInv ==
  ASSUME WInv, NEW s \in Sessions, StartFails(s) PROVE WInv'
<1>1. PICK i \in Existing(call[s]) : projects' = Without(i)
  BY DEF StartFails
<1>2. /\ i \in DOMAIN projects
      /\ \A r \in Sessions : r # s => ~Starting(r)
      /\ \A j \in DOMAIN projects : j # i => projects[j].client # "starting"
  BY StarterIsAlone DEF StartFails
<1>3. Ends(s) /\ UNCHANGED <<tree, issued, session, held>>
  BY DEF StartFails
<1>4. /\ Registry'
      /\ \A j \in DOMAIN projects' :
           \E o \in DOMAIN projects : o # i /\ projects'[j] = projects[o]
  BY <1>1, <1>2, <1>3, RemoveKeepsRegistry DEF WInv
<1>5. Starts'
  BY <1>2, <1>3, <1>4, EndsStarts, QuietStarts
<1>6. QED
  BY <1>3, <1>4, <1>5, EndsStarts DEF WInv, SessionsTyped

\* A token that is returned is in no entry any more, and the others stay where they are.
LEMMA ReleaseStep ==
  ASSUME WInv, NEW k, Release(k), UNCHANGED issued, ~Locked
  PROVE  /\ Registry'
         /\ \A i \in DOMAIN projects' : projects'[i].client # "starting"
         /\ \A l : Valid(l)' => Valid(l) /\ l # k
<1>1. \A i \in DOMAIN projects : projects[i].client # "starting"
  BY UnlockedNothingStarts
<1>2. CASE \E i \in DOMAIN projects :
             /\ k \in projects[i].tokens
             /\ projects' = IF projects[i].tokens = {k} THEN Without(i)
                            ELSE [projects EXCEPT ![i].tokens = @ \ {k}]
  <2>1. PICK i \in DOMAIN projects :
             /\ k \in projects[i].tokens
             /\ projects' = IF projects[i].tokens = {k} THEN Without(i)
                            ELSE [projects EXCEPT ![i].tokens = @ \ {k}]
    BY <1>2
  <2>2. \A j \in DOMAIN projects : j # i => k \notin projects[j].tokens
    BY <2>1 DEF WInv, Registry, EntriesApart
  <2>3. CASE projects[i].tokens = {k}
    <3>1. /\ Registry'
          /\ \A j \in DOMAIN projects' :
               \E o \in DOMAIN projects : o # i /\ projects'[j] = projects[o]
      BY <2>1, <2>3, RemoveKeepsRegistry DEF WInv
    <3>2. QED
      BY <1>1, <2>2, <3>1 DEF Valid
  <2>4. CASE projects[i].tokens # {k}
    <3> DEFINE e == [projects[i] EXCEPT !.tokens = @ \ {k}]
    <3>1. projects[i] \in Project /\ projects[i].tokens \subseteq issued
      BY DEF WInv, Registry, TokensAreIssued
    <3>2. /\ e \in Project /\ e.dir = projects[i].dir /\ e.language = projects[i].language
          /\ e.tokens = projects[i].tokens \ {k} /\ e.client = projects[i].client
      BY <3>1 DEF Project
    <3>3. projects' = [projects EXCEPT ![i] = e]
      BY <2>1, <2>4
    <3> HIDE DEF e
    <3>4. /\ Registry' /\ DOMAIN projects' = DOMAIN projects /\ projects'[i] = e
          /\ \A j \in DOMAIN projects : j # i => projects'[j] = projects[j]
      BY <3>1, <3>2, <3>3, ReplaceKeepsRegistry DEF WInv
    <3>5. QED
      BY <1>1, <2>2, <3>2, <3>4 DEF Valid
  <2>5. QED
    BY <2>3, <2>4
<1>3. CASE (\A i \in DOMAIN projects : k \notin projects[i].tokens) /\ UNCHANGED projects
  BY <1>1, <1>3 DEF Valid, WInv, Registry, EntriesApart, TokensAreIssued
<1>4. QED
  BY <1>2, <1>3 DEF Release

\* Nobody starts, before or after.
LEMMA UnlockedStarts ==
  ASSUME WInv, ~Locked, UNCHANGED call,
         \A i \in DOMAIN projects' : projects'[i].client # "starting"
  PROVE  Starts'
<1>1. \A s \in Sessions : ~Starting(s)'
  BY UnlockedNothingStarts DEF Starting
<1>2. QED
  BY <1>1, QuietStarts

\* A registration that is returned.
LEMMA DeregisterWInv ==
  ASSUME WInv, NEW s \in Sessions, NEW k, Deregister(s, k) PROVE WInv'
<1>1. Release(k) /\ ~Locked /\ UNCHANGED <<tree, issued, session, call>>
  BY DEF Deregister
<1>2. held' \in [Sessions -> SUBSET issued]
  BY DEF Deregister, WInv, SessionsTyped
<1>3. QED
  BY <1>1, <1>2, ReleaseStep, UnlockedStarts DEF WInv, SessionsTyped

\* The same for all those of a session that has left.
LEMMA CleanUpWInv ==
  ASSUME WInv, NEW s \in Sessions, CleanUp(s) PROVE WInv'
<1>1. ~Locked /\ UNCHANGED <<tree, issued, call>>
  BY DEF CleanUp
<1>2. CASE UNCHANGED <<projects, held>> /\ session' = [session EXCEPT ![s] = "gone"]
  <2>1. Starts'
    BY <1>1, <1>2, UnlockedNothingStarts, UnlockedStarts
  <2>2. QED
    BY <1>1, <1>2, <2>1 DEF WInv, SessionsTyped, Registry, EntriesApart, TokensAreIssued
<1>3. ASSUME NEW k \in held[s], Release(k), held' = [held EXCEPT ![s] = @ \ {k}],
             UNCHANGED session
      PROVE  WInv'
  <2>1. held' \in [Sessions -> SUBSET issued]
    BY <1>3 DEF WInv, SessionsTyped
  <2>2. QED
    BY <1>1, <1>3, <2>1, ReleaseStep, UnlockedStarts DEF WInv, SessionsTyped
<1>4. QED
  BY <1>2, <1>3 DEF CleanUp

\* Whoever leaves while starting leaves its entry without a client.
LEMMA LeaveWInv ==
  ASSUME WInv, NEW s \in Sessions, Leave(s) PROVE WInv'
<1>1. /\ Ends(s) /\ session' = [session EXCEPT ![s] = "leaving"]
      /\ UNCHANGED <<tree, issued, held>>
  BY DEF Leave
<1>2. SessionsTyped'
  BY <1>1, EndsStarts DEF WInv, SessionsTyped
<1>3. CASE ~Starting(s) /\ UNCHANGED projects
  <2>1. \A r \in Sessions : /\ Starting(r)' <=> Starting(r)
                            /\ Starting(r) => call'[r] = call[r]
    BY <1>1, <1>3, EndsStarts
  <2>2. \A r \in Sessions : Starting(r) => Existing(call[r])' = Existing(call[r])
    BY <1>3, <2>1 DEF Existing, Find
  <2>3. Starts'
    BY <1>3, <2>1, <2>2 DEF WInv, Starts, OneStarts, StarterHasEntry, StartingIsStarted
  <2>4. QED
    BY <1>1, <1>2, <1>3, <2>3 DEF WInv, Registry, EntriesApart, TokensAreIssued
<1>4. ASSUME NEW i \in Existing(call[s]), Starting(s),
             projects' = [projects EXCEPT ![i].client = "cut"]
      PROVE  WInv'
  <2> DEFINE e == [projects[i] EXCEPT !.client = "cut"]
  <2>1. /\ i \in DOMAIN projects /\ projects[i] \in Project /\ projects[i].tokens = {}
        /\ \A r \in Sessions : r # s => ~Starting(r)
        /\ \A j \in DOMAIN projects : j # i => projects[j].client # "starting"
    BY <1>4, StarterIsAlone
  <2>2. /\ e \in Project /\ e.dir = projects[i].dir /\ e.language = projects[i].language
        /\ e.tokens = {} /\ e.client = "cut"
    BY <2>1 DEF Project
  <2>3. projects' = [projects EXCEPT ![i] = e]
    BY <1>4
  <2> HIDE DEF e
  <2>4. /\ Registry' /\ DOMAIN projects' = DOMAIN projects /\ projects'[i] = e
        /\ \A j \in DOMAIN projects : j # i => projects'[j] = projects[j]
    BY <1>1, <2>1, <2>2, <2>3, ReplaceKeepsRegistry DEF WInv
  <2>5. Starts'
    BY <1>1, <2>1, <2>2, <2>4, EndsStarts, QuietStarts
  <2>6. QED
    BY <1>2, <2>4, <2>5 DEF WInv
<1>5. QED
  BY <1>3, <1>4 DEF Leave

\* The tree is none of the registry's business.
LEMMA EditWInv == ASSUME WInv, Edit PROVE WInv'
<1>1. tree' \in DOMAIN Trees /\ UNCHANGED <<projects, issued, session, held, call>>
  BY TreesAssumption DEF Edit, WInv, SessionsTyped
<1>2. \A r \in Sessions : /\ Starting(r)' <=> Starting(r)
                          /\ Existing(call[r])' = Existing(call[r])
  BY <1>1 DEF Starting, Existing, Find
<1>3. Starts'
  BY <1>1, <1>2 DEF WInv, Starts, OneStarts, StarterHasEntry, StartingIsStarted
<1>4. QED
  BY <1>1, <1>3 DEF WInv, SessionsTyped, Registry, EntriesApart, TokensAreIssued

\* Nor are steps that leave it alone.
LEMMA StutterWInv == ASSUME WInv, UNCHANGED workspaces PROVE WInv'
<1>1. UNCHANGED <<tree, projects, issued, session, held, call>>
  BY DEF workspaces
<1>2. \A r \in Sessions : /\ Starting(r)' <=> Starting(r)
                          /\ Existing(call[r])' = Existing(call[r])
  BY <1>1 DEF Starting, Existing, Find
<1>3. Starts'
  BY <1>1, <1>2 DEF WInv, Starts, OneStarts, StarterHasEntry, StartingIsStarted
<1>4. QED
  BY <1>1, <1>3 DEF WInv, SessionsTyped, Registry, EntriesApart, TokensAreIssued

-----------------------------------------------------------------------------
(* Routing *)

\* The innermost projects around a directory are those of one directory.
LEMMA InnermostShareDirectory ==
  ASSUME Registry, NEW d, NEW i \in Innermost(d), NEW j \in Innermost(d)
  PROVE  projects[i].dir = projects[j].dir
<1>1. /\ i \in DOMAIN projects /\ j \in DOMAIN projects
      /\ Covers(projects[i].dir, projects[j].dir) /\ Covers(projects[j].dir, projects[i].dir)
  BY DEF Innermost, Around
<1>2. projects[i] \in Project /\ projects[j] \in Project
  BY <1>1 DEF Registry
<1>3. QED
  BY <1>1, <1>2, ParentAssumption DEF Project

\* The innermost project of the language of a file gets it.
LEMMA RouteOfLanguage ==
  ASSUME Registry, NEW d, NEW ext, NEW i \in Innermost(d),
         projects[i].language = HandledBy[ext]
  PROVE  Route(d, ext) = i
<1>1. Innermost(d) \subseteq DOMAIN projects /\ DOMAIN projects \subseteq Nat
  BY DEF Innermost, Around, Registry
<1>2. \A j \in Innermost(d) : projects[j].language = HandledBy[ext] => j = i
  BY <1>1, InnermostShareDirectory DEF Registry, EntriesApart
<1>3. Handling(d, ext) = {i}
  BY <1>2 DEF Handling
<1>4. Min({i}) = i
  BY <1>1, LeastIsLeast
<1>5. QED
  BY <1>3, <1>4 DEF Route

\* So files are routed to the project of their language.
LEMMA WInvRoutes == ASSUME WInv PROVE RoutedToItsLanguage
<1> SUFFICES ASSUME NEW i \in DOMAIN projects, NEW d \in Dirs, projects[i].tokens # {},
                    Covers(projects[i].dir, d),
                    \A j \in Around(d) : Covers(projects[j].dir, projects[i].dir)
             PROVE  /\ projects[i].client \in {"up", "cut"}
                    /\ \A ext \in Extensions :
                         HandledBy[ext] = projects[i].language => Route(d, ext) = i
  BY DEF RoutedToItsLanguage
<1>1. projects[i].client \in {"up", "cut"}
  <2>1. projects[i] \in Project /\ projects[i].client # "starting"
    BY DEF WInv, Registry, Starts, StartingIsStarted
  <2>2. QED
    BY <2>1 DEF Project
<1>2. i \in Innermost(d)
  BY DEF Innermost, Around
<1>3. QED
  BY <1>1, <1>2, RouteOfLanguage DEF WInv

-----------------------------------------------------------------------------
(* What a proxy holds *)

\* Proxies only register what they are to register.
ProxiesTyped ==
  /\ todo \in [Proxies -> Seq(Reported)]
  /\ stage \in [Proxies -> {"new", "registering", "initialized"}]
  /\ ids \in [Proxies -> SUBSET Tokens]
  /\ shutdown \in [Proxies -> {"no", "releasing", "done"}]
  /\ returning \in [Proxies -> SUBSET Tokens]
  /\ early \in [Proxies -> BOOLEAN] /\ abandoned \in [Proxies -> BOOLEAN]
  /\ late \in [Proxies -> SUBSET Tokens] /\ unanswered \in [Proxies -> SUBSET Tokens]
  /\ \A p \in Proxies : /\ returning[p] \subseteq ids[p] /\ ids[p] \subseteq issued
                        /\ late[p] \subseteq unanswered[p] /\ unanswered[p] \subseteq issued

\* A proxy only registers in initialize, but for a register that it has given up on.
RegistersInInitialize ==
  \A p \in Proxies : stage[p] # "registering" => call[p] = None \/ abandoned[p]

\* Only a proxy that is connected is shutting down, and unless shutdown came early its
\* initialize is over.
ShutdownIsLate ==
  \A p \in Proxies : shutdown[p] # "no" =>
    session[p] = "on" /\ (~early[p] => stage[p] = "initialized")

\* Every registration that is good is known, and shutdown has still to return it, but for
\* those that were not answered in time.
HeldIsKnown ==
  \A p \in Proxies : session[p] = "on" /\ shutdown[p] = "no" =>
    \A k \in held[p] : Valid(k) => k \in ids[p] \cup unanswered[p]
HeldIsReturned ==
  \A p \in Proxies : shutdown[p] = "releasing" /\ ~early[p] =>
    \A k \in held[p] : Valid(k) => k \in returning[p] \cup unanswered[p]

HeldInv ==
  /\ RegistersInInitialize /\ ShutdownIsLate
  /\ HeldIsKnown /\ HeldIsReturned /\ ShutdownLetsGo

IInv == WInv /\ ProxiesTyped /\ HeldInv

\* The type invariant is the part of it that is about types.
LEMMA IInvIsTyped == IInv => TypeOK
BY WInvIsTyped DEF IInv, ProxiesTyped, TypeOK

\* No step makes a token good again that was issued before.
LEMMA JoinValid ==
  ASSUME WInv, NEW s \in Sessions, NEW k \in Tokens, Join(s, k) \/ Started(s, k)
  PROVE  \A l \in issued : Valid(l)' => Valid(l)
<1>1. k \notin issued
  BY DEF Join, Started, Issue
<1>2. ASSUME NEW i \in Existing(call[s]),
             \/ projects' = [projects EXCEPT ![i].tokens = @ \cup {k},
                                             ![i].given = Updated(@, call[s].given)]
             \/ projects' = [projects EXCEPT ![i].client = "up", ![i].tokens = {k}]
      PROVE  /\ DOMAIN projects' = DOMAIN projects
             /\ \A j \in DOMAIN projects : projects'[j].tokens \subseteq projects[j].tokens \cup {k}
  <2>1. i \in DOMAIN projects /\ projects[i] \in Project
    BY DEF Existing, Find, WInv, Registry
  <2>2. DOMAIN projects' = DOMAIN projects
    BY <1>2
  <2>3. \A j \in DOMAIN projects : j # i => projects'[j] = projects[j]
    BY <1>2, <2>1
  <2>4. projects'[i].tokens \subseteq projects[i].tokens \cup {k}
    BY <1>2, <2>1 DEF Project
  <2>5. QED
    BY <2>2, <2>3, <2>4
<1>3. QED
  BY <1>1, <1>2 DEF Join, Started, Valid

\* The daemon makes none good.
LEMMA DaemonValid ==
  ASSUME WInv, NEW s \in Sessions, Start(s) \/ StartFails(s) \/ NotInstalled(s) \/ CleanUp(s)
  PROVE  \A l : Valid(l)' => Valid(l)
<1>1. CASE Start(s)
  <2> DEFINE c == call[s]
             Entry(database) ==
               [dir |-> c.dir, language |-> c.language, client |-> "starting", tokens |-> {},
                given |-> c.given,
                command |-> Configure(c.dir, c.language, c.command, c.info, database),
                tree |-> c.tree, start |-> tree, detected |-> c.detected]
  <2>0. PICK database \in Databases(c.info, c.detected, Trees[tree], c.dir) :
          \/ projects' = Append(projects, Entry(database))
          \/ \E i \in Existing(call[s]) : projects' = [projects EXCEPT ![i] = Entry(database)]
    BY <1>1 DEF Start
  <2> DEFINE project == Entry(database)
  <2>1. \/ projects' = Append(projects, project)
        \/ \E i \in Existing(call[s]) : projects' = [projects EXCEPT ![i] = project]
    BY <2>0
  <2>2. projects \in Seq(Project) /\ project.tokens = {}
    BY DEF WInv, Registry
  <2> HIDE DEF project, Entry
  <2>3. CASE projects' = Append(projects, project)
    <3>1. /\ DOMAIN projects' = DOMAIN projects \cup {Len(projects) + 1}
          /\ projects'[Len(projects) + 1] = project
          /\ \A j \in DOMAIN projects : projects'[j] = projects[j]
      BY <2>2, <2>3
    <3>2. QED
      BY <2>2, <3>1 DEF Valid
  <2>4. ASSUME NEW i \in Existing(call[s]), projects' = [projects EXCEPT ![i] = project]
        PROVE  \A l : Valid(l)' => Valid(l)
    <3>1. /\ DOMAIN projects' = DOMAIN projects
          /\ \A j \in DOMAIN projects : projects'[j] = IF j = i THEN project ELSE projects[j]
      BY <2>2, <2>4
    <3>2. QED
      BY <2>2, <3>1 DEF Valid
  <2>5. QED
    BY <2>1, <2>3, <2>4
<1>2. CASE StartFails(s)
  <2>1. PICK i \in Existing(call[s]) : projects' = Without(i) /\ UNCHANGED issued
    BY <1>2 DEF StartFails
  <2>2. i \in DOMAIN projects
    BY DEF Existing, Find
  <2>3. QED
    BY <2>1, <2>2, RemoveKeepsRegistry DEF WInv, Valid
<1>3. CASE NotInstalled(s)
  BY <1>3 DEF NotInstalled, Valid
<1>4. CASE CleanUp(s)
  <2>1. ~Locked /\ UNCHANGED issued
    BY <1>4 DEF CleanUp
  <2>2. QED
    BY <1>4, <2>1, ReleaseStep DEF CleanUp, Valid
<1>5. QED
  BY <1>1, <1>2, <1>3, <1>4

\* Leaving makes none good either.
LEMMA LeaveValid ==
  ASSUME WInv, NEW s \in Sessions, Leave(s) PROVE \A l : Valid(l)' => Valid(l)
<1>1. CASE UNCHANGED projects
  BY <1>1 DEF Valid
<1>2. ASSUME NEW i \in Existing(call[s]), projects' = [projects EXCEPT ![i].client = "cut"]
      PROVE  \A l : Valid(l)' => Valid(l)
  <2>1. i \in DOMAIN projects /\ projects[i] \in Project
    BY DEF Existing, Find, WInv, Registry
  <2>2. /\ DOMAIN projects' = DOMAIN projects
        /\ \A j \in DOMAIN projects : projects'[j].tokens = projects[j].tokens
    BY <1>2, <2>1 DEF Project
  <2>3. QED
    BY <2>2 DEF Valid
<1>3. QED
  BY <1>1, <1>2 DEF Leave

-----------------------------------------------------------------------------
(* Steps of others *)

\* What others do, and the daemon, gives a proxy no registration and makes none good
\* again.
LEMMA OthersKeepHeld ==
  ASSUME IInv, UNCHANGED proxy,
         \A p \in Proxies : /\ held'[p] \subseteq held[p]
                            /\ (call'[p] = call[p] \/ call'[p] = None)
                            /\ (session'[p] = session[p] \/ (session[p] # "on" /\ session'[p] # "on")),
         \A p \in Proxies : \A k \in held'[p] : Valid(k)' => Valid(k)
  PROVE  HeldInv'
<1>1. UNCHANGED <<todo, stage, ids, shutdown, returning, early, abandoned, unanswered>>
  BY DEF proxy
<1>2. RegistersInInitialize' /\ ShutdownIsLate'
  BY <1>1 DEF IInv, HeldInv, RegistersInInitialize, ShutdownIsLate
<1>3. HeldIsKnown' /\ HeldIsReturned'
  BY <1>1 DEF IInv, HeldInv, HeldIsKnown, HeldIsReturned
<1>4. ShutdownLetsGo'
  BY <1>1 DEF IInv, HeldInv, ShutdownLetsGo
<1>5. QED
  BY <1>2, <1>3, <1>4 DEF HeldInv

\* Tokens that are issued to others leave the proxies' alone.
LEMMA OthersKeepTyped ==
  ASSUME IInv, UNCHANGED proxy, issued \subseteq issued' PROVE ProxiesTyped'
BY DEF IInv, ProxiesTyped, proxy

\* A session's own steps leave the others' as they are.
LEMMA OwnStep ==
  ASSUME WInv, NEW s \in Sessions,
         \/ \E k \in Tokens : Join(s, k) \/ Started(s, k) \/ Deregister(s, k)
         \/ Leave(s)
         \/ \E d \in Dirs, option \in Options, force \in BOOLEAN, asked \in Languages \cup {None} :
              Asks(s, d, asked, option, force)
         \/ RegenerateAsks(s)
         \/ Start(s) \/ StartFails(s) \/ NotInstalled(s) \/ CleanUp(s)
  PROVE  /\ \A r \in Sessions : r # s =>
              held'[r] = held[r] /\ call'[r] = call[r] /\ session'[r] = session[r]
         /\ issued \subseteq issued'
<1> USE DEF WInv, SessionsTyped
<1>1. CASE \E k \in Tokens : Join(s, k) \/ Started(s, k)
  BY <1>1 DEF Join, Started, Issue, Ends
<1>2. CASE \E k \in Tokens : Deregister(s, k)
  BY <1>2 DEF Deregister
<1>3. CASE Leave(s)
  BY <1>3 DEF Leave, Ends
<1>4. CASE \E d \in Dirs, option \in Options, force \in BOOLEAN, asked \in Languages \cup {None} :
             Asks(s, d, asked, option, force)
  BY <1>4 DEF Asks
<1>a. CASE RegenerateAsks(s)
  BY <1>a DEF RegenerateAsks
<1>5. CASE Start(s)
  BY <1>5 DEF Start
<1>6. CASE StartFails(s) \/ NotInstalled(s)
  BY <1>6 DEF StartFails, NotInstalled, Ends
<1>7. CASE CleanUp(s)
  BY <1>7 DEF CleanUp
<1>8. QED
  BY <1>1, <1>2, <1>3, <1>4, <1>a, <1>5, <1>6, <1>7

\* A session holds what was issued.
LEMMA HeldIsIssued == ASSUME WInv PROVE \A s \in Sessions : held[s] \subseteq issued
BY DEF WInv, SessionsTyped

\* Names that anybody may ask for.
LEMMA AskedType ==
  ASSUME WInv, NEW d \in Dirs, NEW asked \in Scanned[tree][d] \cup Names(Found[tree][d]) \cup {None}
  PROVE  asked \in Languages \cup {None}
<1>1. tree \in DOMAIN Trees
  BY DEF WInv, SessionsTyped
<1>2. Scanned[tree][d] \subseteq Languages
  BY <1>1, NamesType
<1>3. Names(Found[tree][d]) \subseteq Reported
  BY <1>1, NamesType
<1>4. Reported \subseteq Languages
  BY DEF Languages
<1>5. QED
  BY <1>2, <1>3, <1>4, Zenon

\* The steps of an MCP frontend.
LEMMA ToolIInv == ASSUME IInv, NEW s \in Sessions \ Proxies, ToolStep(s) PROVE IInv'
<1>0. WInv /\ UNCHANGED proxy
  BY DEF IInv, ToolStep
<1>1. CASE ToolRegisters(s)
  <2>0. PICK d \in Dirs, option \in Options, force \in BOOLEAN :
          \E asked \in Scanned[tree][d] \cup Names(Found[tree][d]) \cup {None} :
            Asks(s, d, asked, option, force)
    BY <1>1 DEF ToolRegisters
  <2>1. PICK asked \in Scanned[tree][d] \cup Names(Found[tree][d]) \cup {None} :
          Asks(s, d, asked, option, force)
    BY <2>0
  <2>2. asked \in Languages \cup {None}
    BY <1>0, AskedType
  <2>3. WInv'
    BY <1>0, <2>1, <2>2, AsksWInv
  <2>4. \A l : Valid(l)' => Valid(l)
    BY <2>1 DEF Asks, Valid
  <2>5. QED
    BY <1>0, <2>1, <2>2, <2>3, <2>4, OwnStep, OthersKeepHeld, OthersKeepTyped, ProxiesAssumption DEF IInv
<1>a. CASE RegenerateAsks(s)
  <2>1. WInv' /\ \A l : Valid(l)' => Valid(l)
    BY <1>0, <1>a, RegenerateAsksWInv DEF RegenerateAsks, Valid
  <2>2. QED
    BY <1>0, <1>a, <2>1, OwnStep, OthersKeepHeld, OthersKeepTyped, ProxiesAssumption DEF IInv
<1>2. CASE Leave(s)
  BY <1>0, <1>2, LeaveWInv, LeaveValid, OwnStep, OthersKeepHeld, OthersKeepTyped, ProxiesAssumption DEF IInv
<1>3. ASSUME NEW k \in Tokens, Join(s, k) \/ Started(s, k) PROVE IInv'
  <2>1. WInv'
    BY <1>0, <1>3, JoinWInv, StartedWInv
  <2>2. \A l \in issued : Valid(l)' => Valid(l)
    BY <1>0, <1>3, JoinValid
  <2>3. QED
    BY <1>0, <1>3, <2>1, <2>2, HeldIsIssued, OwnStep, OthersKeepHeld, OthersKeepTyped, ProxiesAssumption DEF IInv
<1>4. ASSUME NEW k \in Tokens, Deregister(s, k) PROVE IInv'
  <2>1. WInv' /\ \A l : Valid(l)' => Valid(l)
    BY <1>0, <1>4, DeregisterWInv, ReleaseStep DEF Deregister
  <2>2. QED
    BY <1>0, <1>4, <2>1, OwnStep, OthersKeepHeld, OthersKeepTyped, ProxiesAssumption DEF IInv
<1>5. QED
  BY <1>1, <1>a, <1>2, <1>3, <1>4 DEF ToolStep

\* The steps of the daemon; the start it makes for a proxy is one that initialize asked for.
LEMMA DaemonIInv == ASSUME IInv, NEW s \in Sessions, DaemonStep(s) PROVE IInv'
<1>0. WInv /\ UNCHANGED proxy /\ (Start(s) \/ StartFails(s) \/ NotInstalled(s) \/ CleanUp(s))
  BY DEF IInv, DaemonStep
<1>1. WInv'
  BY <1>0, StartWInv, StartFailsWInv, NotInstalledWInv, CleanUpWInv
<1>2. \A l : Valid(l)' => Valid(l)
  BY <1>0, DaemonValid
<1>3. HeldInv'
  <2>1. CASE Start(s)
    <3>1. stage[s] = "registering" \/ abandoned[s] \/ s \notin Proxies
      BY <2>1 DEF Start, IInv, HeldInv, RegistersInInitialize
    <3>2. UNCHANGED <<todo, stage, ids, shutdown, returning, early, abandoned, unanswered,
                      session, held>>
      BY <1>0, <2>1 DEF Start, proxy
    <3>3. RegistersInInitialize'
      BY <1>0, <2>1, <3>1, <3>2, OwnStep, ProxiesAssumption DEF IInv, HeldInv, RegistersInInitialize
    <3>4. QED
      BY <1>2, <3>2, <3>3 DEF IInv, HeldInv, ShutdownIsLate, HeldIsKnown, HeldIsReturned, ShutdownLetsGo
  <2>2. CASE StartFails(s) \/ NotInstalled(s) \/ CleanUp(s)
    <3>1. /\ held'[s] \subseteq held[s] /\ (call'[s] = call[s] \/ call'[s] = None)
          /\ (session'[s] = session[s] \/ (session[s] # "on" /\ session'[s] # "on"))
      BY <1>0, <2>2 DEF StartFails, NotInstalled, CleanUp, Ends, WInv, SessionsTyped
    <3>2. QED
      BY <1>0, <1>2, <3>1, OwnStep, OthersKeepHeld, ProxiesAssumption
  <2>3. QED
    BY <1>0, <2>1, <2>2
<1>4. QED
  BY <1>0, <1>1, <1>3, OwnStep, OthersKeepTyped DEF IInv

\* The user's steps.
LEMMA EditIInv == ASSUME IInv, Edit, UNCHANGED proxy PROVE IInv'
<1>1. UNCHANGED <<projects, issued, session, held, call>>
  BY DEF Edit
<1>2. \A l : Valid(l)' => Valid(l)
  BY <1>1 DEF Valid
<1>3. QED
  BY <1>1, <1>2, EditWInv, OthersKeepHeld, OthersKeepTyped DEF IInv

\* And none.
LEMMA StutterIInv == ASSUME IInv, UNCHANGED vars PROVE IInv'
<1>1. UNCHANGED workspaces /\ UNCHANGED proxy
  BY DEF vars
<1>2. UNCHANGED <<projects, issued, session, held, call>>
  BY <1>1 DEF workspaces
<1>3. \A l : Valid(l)' => Valid(l)
  BY <1>2 DEF Valid
<1>4. QED
  BY <1>1, <1>2, <1>3, StutterWInv, OthersKeepHeld, OthersKeepTyped DEF IInv

-----------------------------------------------------------------------------
(* Steps of a proxy *)

\* What remains of a list of languages is one.
LEMMA RestType ==
  ASSUME NEW S, NEW q \in Seq(S), NEW i \in DOMAIN q
  PROVE  SubSeq(q, i + 1, Len(q)) \in Seq(S)
OBVIOUS

\* What the proxy goes on to ask for is one of the languages it was told.
LEMMA AvailableNext ==
  ASSUME ProxiesTyped, NEW p \in Proxies, Available(p) # {}
  PROVE  /\ Min(Available(p)) \in DOMAIN todo[p]
         /\ todo[p][Min(Available(p))] \in Languages
         /\ SubSeq(todo[p], Min(Available(p)) + 1, Len(todo[p]))
              \in Seq(Reported)
<1>1. todo[p] \in Seq(Reported)
  BY DEF ProxiesTyped
<1>2. Available(p) \subseteq DOMAIN todo[p] /\ DOMAIN todo[p] \subseteq Nat
  BY <1>1 DEF Available
<1>3. Min(Available(p)) \in Available(p)
  <2>1. Available(p) \in SUBSET Nat
    BY <1>2
  <2>2. QED
    BY <2>1, LeastIsLeast
<1>4. QED
  <2>1. Min(Available(p)) \in DOMAIN todo[p]
    BY <1>2, <1>3
  <2>2. todo[p][Min(Available(p))] \in Languages
    BY <1>1, <2>1 DEF Languages
  <2>3. QED
    BY <1>1, <2>1, <2>2, RestType

\* The other proxies are as they were, and so is what they hold.
LEMMA OtherProxies ==
  ASSUME IInv, NEW p \in Proxies,
         \A q \in Proxies \ {p} :
           /\ held'[q] = held[q] /\ call'[q] = call[q] /\ session'[q] = session[q]
           /\ todo'[q] = todo[q] /\ stage'[q] = stage[q] /\ ids'[q] = ids[q]
           /\ shutdown'[q] = shutdown[q] /\ returning'[q] = returning[q]
           /\ early'[q] = early[q] /\ abandoned'[q] = abandoned[q]
           /\ unanswered'[q] = unanswered[q],
         \A l \in issued : Valid(l)' => Valid(l),
         stage'[p] # "registering" => call'[p] = None \/ abandoned'[p],
         shutdown'[p] # "no" => session'[p] = "on" /\ (~early'[p] => stage'[p] = "initialized"),
         session'[p] = "on" /\ shutdown'[p] = "no" =>
           \A k \in held'[p] : Valid(k)' => k \in ids'[p] \cup unanswered'[p],
         shutdown'[p] = "releasing" /\ ~early'[p] =>
           \A k \in held'[p] : Valid(k)' => k \in returning'[p] \cup unanswered'[p],
         shutdown'[p] = "done" /\ ~early'[p] =>
           \A k \in held'[p] : Valid(k)' => k \in unanswered'[p]
  PROVE  HeldInv'
<1>1. \A q \in Proxies : held[q] \subseteq issued
  BY HeldIsIssued, ProxiesAssumption DEF IInv
<1>2. RegistersInInitialize' /\ ShutdownIsLate'
  BY DEF IInv, HeldInv, RegistersInInitialize, ShutdownIsLate
<1>3. HeldIsKnown'
  BY <1>1 DEF IInv, HeldInv, HeldIsKnown
<1>4. HeldIsReturned'
  BY <1>1 DEF IInv, HeldInv, HeldIsReturned
<1>5. ShutdownLetsGo'
  BY <1>1 DEF IInv, HeldInv, ShutdownLetsGo
<1>6. QED
  BY <1>2, <1>3, <1>4, <1>5 DEF HeldInv

\* A proxy that is told its languages holds nothing yet.
LEMMA InitializeIInv == ASSUME IInv, NEW p \in Proxies, Initialize(p) PROVE IInv'
<1>1. /\ stage' = [stage EXCEPT ![p] = "registering"]
      /\ UNCHANGED workspaces
      /\ UNCHANGED <<ids, shutdown, returning, early, abandoned, late, unanswered>>
  BY DEF Initialize
<1> DEFINE found == [i \in DOMAIN Found[tree][Root[p]] |-> Found[tree][Root[p]][i].language]
<1>a. found \in Seq(Reported)
  BY NamesType, ProxiesAssumption DEF IInv, WInv, SessionsTyped
<1>b. todo' = [todo EXCEPT ![p] = found] \/ todo' = [todo EXCEPT ![p] = <<>>]
  BY DEF Initialize
<1> HIDE DEF found
<1>2. \E languages \in Seq(Reported) : todo' = [todo EXCEPT ![p] = languages]
  <2>1. <<>> \in Seq(Reported)
    OBVIOUS
  <2>2. QED
    BY <1>a, <1>b, <2>1
<1>4. ProxiesTyped'
  BY <1>1, <1>2 DEF IInv, ProxiesTyped, workspaces
<1>5. WInv' /\ UNCHANGED <<projects, issued, session, held, call>>
  BY <1>1, StutterWInv DEF IInv, workspaces
<1>6. \A l : Valid(l)' => Valid(l)
  BY <1>5 DEF Valid
<1>7. stage[p] = "new"
  BY DEF Initialize
<1>8. /\ \A q \in Proxies \ {p} : todo'[q] = todo[q] /\ stage'[q] = stage[q]
      /\ stage'[p] = "registering"
  BY <1>1, <1>2 DEF IInv, ProxiesTyped
<1>9. HeldInv'
  BY <1>1, <1>5, <1>6, <1>7, <1>8, OtherProxies
     DEF IInv, HeldInv, ShutdownIsLate, HeldIsKnown, HeldIsReturned, ShutdownLetsGo
<1>10. QED
  BY <1>4, <1>5, <1>9 DEF IInv

\* It asks for the next only while it initializes.
LEMMA RegisterNextIInv == ASSUME IInv, NEW p \in Proxies, RegisterNext(p) PROVE IInv'
<1> DEFINE i == Min(Available(p))
<1>1. /\ stage[p] = "registering" /\ Asks(p, Root[p], todo[p][i], Bare, FALSE)
      /\ todo' = [todo EXCEPT ![p] = SubSeq(todo[p], i + 1, Len(todo[p]))]
      /\ abandoned' = [abandoned EXCEPT ![p] = FALSE]
      /\ UNCHANGED <<stage, ids, shutdown, returning, early, late, unanswered>>
      /\ Available(p) # {}
  BY DEF RegisterNext
<1>2. /\ todo[p][i] \in Languages
      /\ SubSeq(todo[p], i + 1, Len(todo[p])) \in Seq(Reported)
  BY <1>1, AvailableNext DEF IInv
<1> HIDE DEF i
<1>3. p \in Sessions /\ Root[p] \in Dirs
  BY ProxiesAssumption
<1>4. WInv'
  BY <1>1, <1>2, <1>3, AsksWInv, OptionsAssumption DEF IInv
<1>5. UNCHANGED <<projects, issued, session, held>>
  BY <1>1 DEF Asks
<1>6. ProxiesTyped'
  BY <1>1, <1>2, <1>5 DEF IInv, ProxiesTyped
<1>7. \A l : Valid(l)' => Valid(l)
  BY <1>5 DEF Valid
<1>8. \A q \in Proxies \ {p} :
        call'[q] = call[q] /\ todo'[q] = todo[q] /\ abandoned'[q] = abandoned[q]
  BY <1>1, ProxiesAssumption DEF Asks, IInv, ProxiesTyped, WInv, SessionsTyped
<1>9. HeldInv'
  BY <1>1, <1>5, <1>7, <1>8, OtherProxies
     DEF IInv, HeldInv, ShutdownIsLate, HeldIsKnown, HeldIsReturned, ShutdownLetsGo
<1>10. QED
  BY <1>4, <1>6, <1>9 DEF IInv

\* A register that is given up on is in flight still.
LEMMA RegisterTimesOutIInv == ASSUME IInv, NEW p \in Proxies, RegisterTimesOut(p) PROVE IInv'
<1>1. /\ stage[p] = "registering" /\ abandoned' = [abandoned EXCEPT ![p] = TRUE]
      /\ UNCHANGED workspaces
      /\ UNCHANGED <<todo, stage, ids, shutdown, returning, early, late, unanswered>>
  BY DEF RegisterTimesOut
<1>2. WInv' /\ UNCHANGED <<projects, issued, session, held, call>>
  BY <1>1, StutterWInv DEF IInv, workspaces
<1>3. ProxiesTyped'
  BY <1>1, <1>2 DEF IInv, ProxiesTyped
<1>4. \A l : Valid(l)' => Valid(l)
  BY <1>2 DEF Valid
<1>5. \A q \in Proxies \ {p} : abandoned'[q] = abandoned[q]
  BY <1>1 DEF IInv, ProxiesTyped
<1>6. HeldInv'
  BY <1>1, <1>2, <1>4, <1>5, OtherProxies
     DEF IInv, HeldInv, ShutdownIsLate, HeldIsKnown, HeldIsReturned, ShutdownLetsGo
<1>7. QED
  BY <1>2, <1>3, <1>6 DEF IInv

\* What it is given it knows, unless it has given up on it; after the snapshot of shutdown
\* it is given something only when that was early.
LEMMA RegisteredIInv ==
  ASSUME IInv, NEW p \in Proxies, NEW k \in Tokens, Registered(p, k) PROVE IInv'
<1>1. /\ Join(p, k) \/ Started(p, k)
      /\ \/ /\ ~abandoned[p]
            /\ ids' = [ids EXCEPT ![p] = @ \cup {k}] /\ UNCHANGED unanswered
         \/ /\ abandoned[p]
            /\ unanswered' = [unanswered EXCEPT ![p] = @ \cup {k}] /\ UNCHANGED ids
      /\ abandoned' = [abandoned EXCEPT ![p] = FALSE]
      /\ UNCHANGED <<todo, stage, shutdown, returning, early, late>>
  BY DEF Registered
<1>2. p \in Sessions
  BY ProxiesAssumption
<1>3. WInv' /\ issued' = issued \cup {k} /\ k \notin issued
  BY <1>1, <1>2, JoinWInv, StartedWInv DEF IInv, Join, Started, Issue
<1>4. /\ UNCHANGED session /\ held' = [held EXCEPT ![p] = @ \cup {k}] /\ Ends(p)
      /\ call[p] # None
  BY <1>1 DEF Join, Started, Issue, Starting
<1>5. /\ held'[p] = held[p] \cup {k} /\ call'[p] = None
      /\ ids'[p] = (IF abandoned[p] THEN ids[p] ELSE ids[p] \cup {k})
      /\ unanswered'[p] = (IF abandoned[p] THEN unanswered[p] \cup {k} ELSE unanswered[p])
  BY <1>1, <1>2, <1>4 DEF Ends, IInv, WInv, SessionsTyped, ProxiesTyped
<1>6. ProxiesTyped'
  <2>1. issued' = issued \cup {k} /\ k \in issued'
    BY <1>3
  <2>2. CASE ~abandoned[p]
    <3>1. ids' = [ids EXCEPT ![p] = @ \cup {k}] /\ UNCHANGED unanswered
      BY <1>1, <2>2
    <3>2. QED
      BY <1>1, <2>1, <3>1 DEF IInv, ProxiesTyped
  <2>3. CASE abandoned[p]
    <3>1. unanswered' = [unanswered EXCEPT ![p] = @ \cup {k}] /\ UNCHANGED ids
      BY <1>1, <2>3
    <3>2. QED
      BY <1>1, <2>1, <3>1 DEF IInv, ProxiesTyped
  <2>4. QED
    BY <2>2, <2>3
<1>7. \A l \in issued : Valid(l)' => Valid(l)
  BY <1>1, <1>2, JoinValid DEF IInv
<1>8. \A q \in Proxies \ {p} : /\ held'[q] = held[q] /\ call'[q] = call[q]
                               /\ ids'[q] = ids[q] /\ unanswered'[q] = unanswered[q]
                               /\ abandoned'[q] = abandoned[q]
  BY <1>1, <1>2, <1>4 DEF Ends, IInv, WInv, SessionsTyped, ProxiesTyped
<1>9. abandoned[p] \/ (stage[p] = "registering" /\ (shutdown[p] # "no" => early[p]))
  BY <1>4 DEF IInv, HeldInv, RegistersInInitialize, ShutdownIsLate, ProxiesTyped
<1>10. held[p] \subseteq issued
  BY <1>2, HeldIsIssued DEF IInv
<1>11. /\ session[p] = "on" /\ shutdown[p] = "no" =>
            \A l \in held[p] : Valid(l) => l \in ids[p] \cup unanswered[p]
       /\ shutdown[p] = "releasing" /\ ~early[p] =>
            \A l \in held[p] : Valid(l) => l \in returning[p] \cup unanswered[p]
       /\ shutdown[p] = "done" /\ ~early[p] =>
            \A l \in held[p] : Valid(l) => l \in unanswered[p]
  BY DEF IInv, HeldInv, HeldIsKnown, HeldIsReturned, ShutdownLetsGo
<1>12. shutdown[p] # "no" => session[p] = "on" /\ (~early[p] => stage[p] = "initialized")
  BY DEF IInv, HeldInv, ShutdownIsLate
<1>13. HeldInv'
  <2>1. CASE abandoned[p]
    BY <1>1, <1>4, <1>5, <1>7, <1>8, <1>10, <1>11, <1>12, <2>1, OtherProxies
  <2>2. CASE ~abandoned[p]
    BY <1>1, <1>4, <1>5, <1>7, <1>8, <1>9, <1>10, <1>11, <1>12, <2>2, OtherProxies
  <2>3. QED
    BY <2>1, <2>2
<1>14. QED
  BY <1>3, <1>6, <1>13 DEF IInv

\* Once it has initialized it waits for no register.
LEMMA InitializedIInv == ASSUME IInv, NEW p \in Proxies, Initialized(p) PROVE IInv'
<1>1. /\ stage' = [stage EXCEPT ![p] = "initialized"] /\ stage[p] = "registering"
      /\ UNCHANGED workspaces
      /\ UNCHANGED <<todo, ids, shutdown, returning, early, abandoned, late, unanswered>>
      /\ call[p] = None \/ abandoned[p]
  BY DEF Initialized
<1>2. WInv' /\ UNCHANGED <<projects, issued, session, held, call>>
  BY <1>1, StutterWInv DEF IInv, workspaces
<1>3. ProxiesTyped'
  BY <1>1, <1>2 DEF IInv, ProxiesTyped
<1>4. \A l : Valid(l)' => Valid(l)
  BY <1>2 DEF Valid
<1>5. /\ \A q \in Proxies \ {p} : stage'[q] = stage[q]
      /\ stage'[p] = "initialized"
  BY <1>1 DEF IInv, ProxiesTyped
<1>6. HeldInv'
  BY <1>1, <1>2, <1>4, <1>5, OtherProxies
     DEF IInv, HeldInv, ShutdownIsLate, HeldIsKnown, HeldIsReturned, ShutdownLetsGo
<1>7. QED
  BY <1>2, <1>3, <1>6 DEF IInv

\* The snapshot has all that is good.
LEMMA ShutdownBeginsIInv == ASSUME IInv, NEW p \in Proxies, ShutdownBegins(p) PROVE IInv'
<1>1. /\ shutdown' = [shutdown EXCEPT ![p] = "releasing"] /\ shutdown[p] = "no"
      /\ early' = [early EXCEPT ![p] = stage[p] # "initialized"]
      /\ returning' = [returning EXCEPT ![p] = ids[p]]
      /\ UNCHANGED workspaces /\ session[p] = "on"
      /\ UNCHANGED <<ids, todo, stage, abandoned, late, unanswered>>
  BY DEF ShutdownBegins, Snapshot
<1>2. WInv' /\ UNCHANGED <<projects, issued, session, held, call>>
  BY <1>1, StutterWInv DEF IInv, workspaces
<1>3. ProxiesTyped'
  BY <1>1, <1>2 DEF IInv, ProxiesTyped
<1>4. \A l : Valid(l)' => Valid(l)
  BY <1>2 DEF Valid
<1>5. /\ \A q \in Proxies \ {p} : /\ shutdown'[q] = shutdown[q] /\ early'[q] = early[q]
                                 /\ returning'[q] = returning[q]
      /\ shutdown'[p] = "releasing" /\ early'[p] = (stage[p] # "initialized")
      /\ returning'[p] = ids[p]
  BY <1>1 DEF IInv, ProxiesTyped
<1>6. \A l \in held[p] : Valid(l) => l \in ids[p] \cup unanswered[p]
  BY <1>1 DEF IInv, HeldInv, HeldIsKnown
<1>7. HeldInv'
  BY <1>1, <1>2, <1>4, <1>5, <1>6, OtherProxies DEF IInv, HeldInv, RegistersInInitialize
<1>8. QED
  BY <1>2, <1>3, <1>7 DEF IInv

\* What is returned is not good any more, and the rest remains to be returned.
LEMMA ShutdownReturnsIInv ==
  ASSUME IInv, NEW p \in Proxies, NEW k \in Tokens, ShutdownReturns(p, k) PROVE IInv'
<1>1. /\ shutdown[p] = "releasing" /\ Deregister(p, k)
      /\ returning' = [returning EXCEPT ![p] = @ \ {k}]
      /\ UNCHANGED <<todo, stage, ids, shutdown, early, abandoned, late, unanswered>>
  BY DEF ShutdownReturns
<1>2. p \in Sessions
  BY ProxiesAssumption
<1>3. WInv' /\ UNCHANGED <<issued, session, call>>
  BY <1>1, <1>2, DeregisterWInv DEF IInv, Deregister
<1>4. \A l : Valid(l)' => Valid(l) /\ l # k
  BY <1>1, ReleaseStep DEF Deregister, IInv
<1>5. ProxiesTyped'
  BY <1>1, <1>3 DEF IInv, ProxiesTyped
<1>6. /\ \A q \in Proxies \ {p} : returning'[q] = returning[q] /\ held'[q] = held[q]
      /\ returning'[p] = returning[p] \ {k} /\ held'[p] \subseteq held[p]
  BY <1>1, <1>2 DEF Deregister, IInv, ProxiesTyped, WInv, SessionsTyped
<1>7. ~early[p] => \A l \in held[p] : Valid(l) => l \in returning[p] \cup unanswered[p]
  BY <1>1 DEF IInv, HeldInv, HeldIsReturned
<1>8. HeldInv'
  BY <1>1, <1>3, <1>4, <1>6, <1>7, OtherProxies
     DEF IInv, HeldInv, RegistersInInitialize, ShutdownIsLate
<1>9. QED
  BY <1>3, <1>5, <1>8 DEF IInv

\* A return that is given up on is one that is not known to have been made.
LEMMA ShutdownGivesUpIInv ==
  ASSUME IInv, NEW p \in Proxies, NEW k \in Tokens, ShutdownGivesUp(p, k) PROVE IInv'
<1>1. /\ shutdown[p] = "releasing" /\ k \in returning[p]
      /\ returning' = [returning EXCEPT ![p] = @ \ {k}]
      /\ late' = [late EXCEPT ![p] = @ \cup {k}]
      /\ unanswered' = [unanswered EXCEPT ![p] = @ \cup {k}]
      /\ UNCHANGED workspaces /\ UNCHANGED <<todo, stage, ids, shutdown, early, abandoned>>
  BY DEF ShutdownGivesUp
<1>2. WInv' /\ UNCHANGED <<projects, issued, session, held, call>>
  BY <1>1, StutterWInv DEF IInv, workspaces
<1>3. ProxiesTyped'
  <2>1. k \in issued
    BY <1>1 DEF IInv, ProxiesTyped
  <2>2. QED
    BY <1>1, <1>2, <2>1 DEF IInv, ProxiesTyped
<1>4. \A l : Valid(l)' => Valid(l)
  BY <1>2 DEF Valid
<1>5. /\ \A q \in Proxies \ {p} :
           returning'[q] = returning[q] /\ unanswered'[q] = unanswered[q]
      /\ returning'[p] = returning[p] \ {k} /\ unanswered'[p] = unanswered[p] \cup {k}
  BY <1>1 DEF IInv, ProxiesTyped
<1>6. ~early[p] => \A l \in held[p] : Valid(l) => l \in returning[p] \cup unanswered[p]
  BY <1>1 DEF IInv, HeldInv, HeldIsReturned
<1>7. HeldInv'
  BY <1>1, <1>2, <1>4, <1>5, <1>6, OtherProxies
     DEF IInv, HeldInv, RegistersInInitialize, ShutdownIsLate
<1>8. QED
  BY <1>2, <1>3, <1>7 DEF IInv

\* When the daemon comes to it, there is only less that is good.
LEMMA LateReturnIInv ==
  ASSUME IInv, NEW p \in Proxies, NEW k \in Tokens, LateReturn(p, k) PROVE IInv'
<1>1. /\ Deregister(p, k)
      /\ late' = [late EXCEPT ![p] = @ \ {k}]
      /\ UNCHANGED <<todo, stage, ids, shutdown, returning, early, abandoned, unanswered>>
  BY DEF LateReturn
<1>2. p \in Sessions
  BY ProxiesAssumption
<1>3. WInv' /\ UNCHANGED <<issued, session, call>>
  BY <1>1, <1>2, DeregisterWInv DEF IInv, Deregister
<1>4. \A l : Valid(l)' => Valid(l) /\ l # k
  BY <1>1, ReleaseStep DEF Deregister, IInv
<1>5. ProxiesTyped'
  BY <1>1, <1>3 DEF IInv, ProxiesTyped
<1>6. /\ \A q \in Proxies \ {p} : held'[q] = held[q]
      /\ held'[p] \subseteq held[p]
  BY <1>1, <1>2 DEF Deregister, IInv, WInv, SessionsTyped
<1>7. HeldInv'
  BY <1>1, <1>3, <1>4, <1>6, OtherProxies
     DEF IInv, HeldInv, RegistersInInitialize, ShutdownIsLate, HeldIsKnown, HeldIsReturned,
         ShutdownLetsGo
<1>8. QED
  BY <1>3, <1>5, <1>7 DEF IInv

\* When nothing remains, nothing good is held but what was not answered in time.
LEMMA ShutdownEndsIInv == ASSUME IInv, NEW p \in Proxies, ShutdownEnds(p) PROVE IInv'
<1>1. /\ shutdown[p] = "releasing" /\ returning[p] = {} /\ session[p] = "on"
      /\ shutdown' = [shutdown EXCEPT ![p] = "done"]
      /\ ids' = [ids EXCEPT ![p] = {}]
      /\ UNCHANGED workspaces
      /\ UNCHANGED <<todo, stage, returning, early, abandoned, late, unanswered>>
  BY DEF ShutdownEnds
<1>2. WInv' /\ UNCHANGED <<projects, issued, session, held, call>>
  BY <1>1, StutterWInv DEF IInv, workspaces
<1>3. ProxiesTyped'
  BY <1>1, <1>2 DEF IInv, ProxiesTyped
<1>4. \A l : Valid(l)' <=> Valid(l)
  BY <1>2 DEF Valid
<1>5. /\ \A q \in Proxies \ {p} : shutdown'[q] = shutdown[q] /\ ids'[q] = ids[q]
      /\ shutdown'[p] = "done"
  BY <1>1 DEF IInv, ProxiesTyped
<1>6. ~early[p] => \A l \in held[p] : Valid(l) => l \in unanswered[p]
  BY <1>1 DEF IInv, HeldInv, HeldIsReturned
<1>7. HeldInv'
  BY <1>1, <1>2, <1>4, <1>5, <1>6, OtherProxies
     DEF IInv, HeldInv, RegistersInInitialize, ShutdownIsLate
<1>8. QED
  BY <1>2, <1>3, <1>7 DEF IInv

\* A proxy that exits is a new one; its session is leaving.
LEMMA ExitIInv == ASSUME IInv, NEW p \in Proxies, Exit(p) PROVE IInv'
<1>1. /\ Leave(p)
      /\ todo' = [todo EXCEPT ![p] = <<>>]
      /\ stage' = [stage EXCEPT ![p] = "new"]
      /\ ids' = [ids EXCEPT ![p] = {}] /\ returning' = [returning EXCEPT ![p] = {}]
      /\ shutdown' = [shutdown EXCEPT ![p] = "no"] /\ early' = [early EXCEPT ![p] = FALSE]
      /\ abandoned' = [abandoned EXCEPT ![p] = FALSE]
      /\ late' = [late EXCEPT ![p] = {}] /\ unanswered' = [unanswered EXCEPT ![p] = {}]
  BY DEF Exit
<1>2. p \in Sessions
  BY ProxiesAssumption
<1>3. WInv' /\ UNCHANGED <<issued, held>> /\ \A l : Valid(l)' => Valid(l)
  BY <1>1, <1>2, LeaveWInv, LeaveValid DEF IInv, Leave
<1>4. ProxiesTyped'
  <2>1. <<>> \in Seq(Reported)
    OBVIOUS
  <2>2. todo' \in [Proxies -> Seq(Reported)]
    BY <1>1, <2>1 DEF IInv, ProxiesTyped
  <2>3. QED
    BY <1>1, <1>3, <2>2 DEF IInv, ProxiesTyped
<1>5. /\ \A q \in Proxies \ {p} :
           /\ todo'[q] = todo[q] /\ stage'[q] = stage[q] /\ ids'[q] = ids[q]
           /\ returning'[q] = returning[q] /\ shutdown'[q] = shutdown[q]
           /\ early'[q] = early[q] /\ abandoned'[q] = abandoned[q]
           /\ unanswered'[q] = unanswered[q]
      /\ stage'[p] = "new" /\ shutdown'[p] = "no"
  BY <1>1 DEF IInv, ProxiesTyped
<1>6. /\ \A q \in Proxies \ {p} : call'[q] = call[q] /\ session'[q] = session[q]
      /\ call'[p] = None /\ session'[p] = "leaving"
  BY <1>1, <1>2, ProxiesAssumption DEF Leave, Ends, IInv, WInv, SessionsTyped
<1>7. HeldInv'
  BY <1>3, <1>5, <1>6, OtherProxies
<1>8. QED
  BY <1>3, <1>4, <1>7 DEF IInv

-----------------------------------------------------------------------------
(* Every behaviour *)

\* Initially nothing is registered.
LEMMA InitIInv == Init => IInv
<1> SUFFICES ASSUME Init PROVE IInv
  OBVIOUS
<1>1. /\ tree \in DOMAIN Trees /\ projects = <<>> /\ issued = {}
      /\ session = [s \in Sessions |-> "on"] /\ held = [s \in Sessions |-> {}]
      /\ call = [s \in Sessions |-> None]
  BY DEF Init, InitWorkspaces
<1>2. <<>> \in Seq(Project) /\ DOMAIN projects = {} /\ <<>> \in Seq(Reported)
  BY <1>1
<1>3. Registry
  BY <1>1, <1>2 DEF Registry, EntriesApart, TokensAreIssued
<1>4. Starts
  BY <1>1, <1>2 DEF Starts, OneStarts, StarterHasEntry, StartingIsStarted, Starting
<1>5. SessionsTyped
  BY <1>1 DEF SessionsTyped
<1>6. ProxiesTyped
  <2>1. todo \in [Proxies -> Seq(Reported)]
    BY <1>2 DEF Init
  <2>2. QED
    BY <2>1 DEF Init, ProxiesTyped
<1>7. HeldInv
  BY <1>1, ProxiesAssumption DEF Init, HeldInv, RegistersInInitialize, ShutdownIsLate,
     HeldIsKnown, HeldIsReturned, ShutdownLetsGo
<1>8. QED
  BY <1>3, <1>4, <1>5, <1>6, <1>7 DEF IInv, WInv

\* The invariant is inductive.
LEMMA NextIInv == IInv /\ [Next]_vars => IInv'
<1>1. ASSUME IInv, NEW p \in Proxies, ProxyStep(p) PROVE IInv'
  BY <1>1, InitializeIInv, RegisterNextIInv, InitializedIInv, ShutdownBeginsIInv,
     ShutdownEndsIInv, ExitIInv, RegisteredIInv, RegisterTimesOutIInv, ShutdownReturnsIInv,
     ShutdownGivesUpIInv, LateReturnIInv DEF ProxyStep
<1>2. QED
  BY <1>1, ToolIInv, DaemonIInv, EditIInv, StutterIInv DEF Next

-----------------------------------------------------------------------------
(* What is found where *)

\* The levels above a directory go on above each of them.
LEMMA UpShifts ==
  ASSUME NEW d \in Dirs, NEW m \in 0..Cardinality(Dirs), Up[d][m] \in Dirs,
         NEW j \in Nat, m + j <= Cardinality(Dirs)
  PROVE  Up[Up[d][m]][j] = Up[d][m + j]
<1> DEFINE N == Cardinality(Dirs)
           e == Up[d][m]
           S == {i \in Nat : m + i <= N => Up[e][i] = Up[d][m + i]}
<1>1. N \in Nat /\ e \in Dirs /\ m \in 0..N
  BY UpType
<1>2. \A f \in Dirs : \A i \in 1..N :
        Up[f][i] = IF Up[f][i - 1] = None THEN None ELSE Parent[Up[f][i - 1]]
  <2> SUFFICES ASSUME NEW f \in Dirs, NEW i \in 1..N
               PROVE Up[f][i] = IF Up[f][i - 1] = None THEN None ELSE Parent[Up[f][i - 1]]
    OBVIOUS
  <2> DEFINE g == Up[f]
  <2>1. g = [l \in 0..N |-> IF l = 0 THEN f ELSE IF g[l - 1] = None THEN None ELSE Parent[g[l - 1]]]
    BY UpClimbs DEF Climbs
  <2> HIDE DEF g, N
  <2>2. i \in 0..N /\ i # 0
    BY <1>1
  <2>3. QED
    BY <2>1, <2>2 DEF g
<1>3. Up[e][0] = e
  BY <1>1, UpType
<1> HIDE DEF N, e
<1>4. 0 \in S
  BY <1>1, <1>3 DEF e
<1>5. ASSUME NEW i \in S PROVE i + 1 \in S
  <2>1. CASE m + (i + 1) <= N
    <3>1. Up[e][i] = Up[d][m + i] /\ i + 1 \in 1..N /\ (m + i) + 1 \in 1..N
      BY <1>1, <2>1
    <3>2. (i + 1) - 1 = i /\ ((m + i) + 1) - 1 = m + i /\ (m + i) + 1 = m + (i + 1)
      BY <1>1
    <3>3. /\ Up[e][i + 1] = IF Up[e][i] = None THEN None ELSE Parent[Up[e][i]]
          /\ Up[d][m + (i + 1)] = IF Up[d][m + i] = None THEN None ELSE Parent[Up[d][m + i]]
      BY <1>1, <1>2, <3>1, <3>2
    <3>4. QED
      BY <3>1, <3>3
  <2>2. QED
    BY <2>1
<1>6. S = Nat
  <2>1. S \in SUBSET Nat
    OBVIOUS
  <2> HIDE DEF S
  <2>2. QED
    BY <1>4, <1>5, <2>1, AllNumbers
<1>7. QED
  BY <1>6 DEF N, e

\* Those that hold a marker, of the directories in reach above one.
Marked(t, marker, d) ==
  {a \in Dirs : \E n \in (1..MaxLevels) \cap DOMAIN Up[d] : Up[d][n] = a /\ marker \in t.names[a]}

\* The root of a build is the nearest of them.
LEMMA NearestIsNearest ==
  ASSUME NEW t, NEW marker, NEW d \in Dirs
  PROVE  \/ Marked(t, marker, d) = {} /\ NearestWith(t, marker, d) = d
         \/ /\ NearestWith(t, marker, d) \in Marked(t, marker, d)
            /\ \A a \in Marked(t, marker, d) : Covers(a, NearestWith(t, marker, d))
<1> DEFINE S == RootLevels(t, marker, d)
           N == Cardinality(Dirs)
<1>1. /\ DOMAIN Up[d] = 0..N /\ N \in Nat
      /\ \A i \in 0..N : Up[d][i] \in Dirs \cup {None}
  BY UpType
<1> HIDE DEF N
<1>2. /\ S \in SUBSET Nat /\ S \subseteq 0..N
      /\ \A i \in S : Up[d][i] \in Dirs /\ i \in 1..MaxLevels /\ marker \in t.names[Up[d][i]]
  BY <1>1, DirsAssumption DEF RootLevels
<1>3. \A a \in Marked(t, marker, d) : \E n \in S : Up[d][n] = a
  BY <1>1, DirsAssumption DEF Marked, RootLevels
<1>4. \A n \in S : Up[d][n] \in Marked(t, marker, d)
  BY <1>1, <1>2 DEF Marked
<1>5. CASE S = {}
  BY <1>3, <1>5 DEF NearestWith
<1>6. CASE S # {}
  <2> DEFINE m == Min(S)
             root == Up[d][m]
  <2>1. NearestWith(t, marker, d) = root
    BY <1>6 DEF NearestWith
  <2>2. m \in S /\ \A n \in S : m <= n
    BY <1>2, <1>6, LeastIsLeast
  <2> HIDE DEF S, m
  <2>3. root \in Marked(t, marker, d) /\ root \in Dirs /\ m \in 0..N
    BY <1>2, <1>4, <2>2
  <2>4. ASSUME NEW n \in S PROVE Covers(Up[d][n], root)
    <3>1. n - m \in Nat /\ m + (n - m) = n /\ n <= N /\ n - m \in 0..N /\ Up[d][n] \in Dirs
      BY <1>1, <1>2, <2>2
    <3>2. Up[root][n - m] = Up[d][n]
      BY <2>3, <3>1, UpShifts DEF N
    <3>3. DOMAIN Up[root] = 0..N
      BY <2>3, UpType DEF N
    <3>4. QED
      BY <2>3, <3>1, <3>2, <3>3 DEF Covers, Above
  <2>5. QED
    BY <1>3, <2>1, <2>3, <2>4
<1>7. QED
  BY <1>5, <1>6

\* The first kind of marker wins.
LEMMA FirstKind ==
  ASSUME NEW kinds, DOMAIN kinds \in SUBSET Nat, 1 \in DOMAIN kinds, 0 \notin DOMAIN kinds, NEW present,
         kinds[1].markers \cap present # {}
  PROVE  FirstOf(kinds, present) = kinds[1].means
<1> DEFINE hits == {i \in DOMAIN kinds : kinds[i].markers \cap present # {}}
<1>1. hits \in SUBSET Nat /\ 1 \in hits /\ 0 \notin hits
  OBVIOUS
<1> HIDE DEF hits
<1>2. Min(hits) = 1
  <2>1. Min(hits) \in hits /\ Min(hits) <= 1
    BY <1>1, LeastIsLeast
  <2>2. Min(hits) \in Nat /\ Min(hits) # 0
    BY <1>1, <2>1
  <2>3. QED
    BY <2>1, <2>2
<1>3. QED
  BY <1>1, <1>2 DEF FirstOf, hits

\* A build is Gradle's if a file of it is there, and only then.
LEMMA GradleBuild ==
  ASSUME NEW t, NEW d
  PROVE  JavaBuild(t, d) = "gradle" <=> {"settings.gradle", "build.gradle"} \cap t.names[d] # {}
<1> DEFINE kinds == <<Means({"settings.gradle", "build.gradle"}, "gradle"), Means({"pom.xml"}, "maven"),
            Means({"build.xml"}, "ant"), Means({".classpath"}, "eclipse")>>
           hits == {i \in DOMAIN kinds : kinds[i].markers \cap t.names[d] # {}}
<1>1. /\ DOMAIN kinds = 1..4
      /\ kinds[1].markers = {"settings.gradle", "build.gradle"} /\ kinds[1].means = "gradle"
      /\ \A i \in 2..4 : kinds[i].means # "gradle"
  BY DEF Means
<1>2. JavaBuild(t, d) = FirstOf(kinds, t.names[d])
  BY DEF JavaBuild
<1> HIDE DEF kinds
<1>3. CASE {"settings.gradle", "build.gradle"} \cap t.names[d] # {}
  BY <1>1, <1>2, <1>3, FirstKind
<1>4. CASE {"settings.gradle", "build.gradle"} \cap t.names[d] = {}
  <2>1. hits \in SUBSET Nat /\ hits \subseteq 2..4
    BY <1>1, <1>4
  <2>2. JavaBuild(t, d) = IF hits = {} THEN None ELSE kinds[Min(hits)].means
    BY <1>2 DEF FirstOf
  <2> HIDE DEF hits
  <2>3. hits # {} => Min(hits) \in 2..4
    BY <2>1, LeastIsLeast
  <2>4. None # "gradle"
    BY DirsAssumption DEF Builds
  <2>5. QED
    BY <1>1, <1>4, <2>2, <2>3, <2>4
<1>5. QED
  BY <1>3, <1>4

\* A build is CMake's or Meson's only if their file is there.
LEMMA CMakeOrMeson ==
  ASSUME NEW t, NEW d, CppBuild(t, d) \in {"cmake", "meson"}
  PROVE  {"CMakeLists.txt", "meson.build"} \cap t.names[d] # {}
<1> DEFINE makefile == IF "CMakeCache.txt" \in t.names[d] THEN {} ELSE {"Makefile"}
           kinds == <<Means({"CMakeLists.txt"}, "cmake"), Means({"meson.build"}, "meson"),
            Means({"configure.ac"}, "autotools"), Means({"MODULE.bazel"}, "bazel"),
            Means(makefile, "make")>>
           hits == {i \in DOMAIN kinds : kinds[i].markers \cap t.names[d] # {}}
<1>1. CppBuild(t, d) = FirstOf(kinds, t.names[d])
  BY DEF CppBuild
<1> HIDE DEF makefile
<1>2. /\ DOMAIN kinds = 1..5 /\ kinds[1].markers = {"CMakeLists.txt"} /\ kinds[2].markers = {"meson.build"}
      /\ \A i \in 3..5 : kinds[i].means \notin {"cmake", "meson"}
  BY DEF Means
<1> HIDE DEF kinds
<1>3. hits \in SUBSET Nat /\ hits \subseteq 1..5
  BY <1>2
<1>4. CppBuild(t, d) = IF hits = {} THEN None ELSE kinds[Min(hits)].means
  BY <1>1 DEF FirstOf
<1>5. None \notin {"cmake", "meson"}
  BY DirsAssumption DEF Builds
<1>6. \A i \in hits : kinds[i].markers \cap t.names[d] # {}
  OBVIOUS
<1> HIDE DEF hits
<1>7. hits # {} /\ Min(hits) \in hits
  BY <1>3, <1>4, <1>5, LeastIsLeast
<1>8. Min(hits) \in {1, 2}
  <2>1. Min(hits) \in 1..5
    BY <1>3, <1>7
  <2>2. kinds[Min(hits)].means \in {"cmake", "meson"}
    BY <1>4, <1>7
  <2>3. Min(hits) \notin 3..5
    BY <1>2, <2>2
  <2>4. QED
    BY <2>1, <2>3
<1>9. QED
  BY <1>2, <1>6, <1>7, <1>8

\* What is found of a directory, by language.
LEMMA FoundByLanguage ==
  ASSUME NEW t \in Tree, NEW d \in Dirs, NEW x \in Finding,
         \E i \in DOMAIN Detect(t, d) : Detect(t, d)[i] = x
  PROVE  \/ x.language = "java" /\ Java(t, d) = <<x>>
         \/ x.language \in {"c", "cpp"} /\ Cpp(t, d) = <<x>>
         \/ x.language = "python" /\ Python(t, d) = <<x>>
         \/ x.language = "rust" /\ Rust(t, d) = <<x>>
<1> DEFINE Unless(name, found) == IF name \in t.raises THEN <<>> ELSE found
           a == Unless("java", Java(t, d))
           b == Unless("cpp", Cpp(t, d))
           c == Unless("python", Python(t, d))
           e == Unless("rust", Rust(t, d))
<1>1. Detect(t, d) = a \o b \o c \o e
  BY DEF Detect
<1>2. /\ Java(t, d) = <<>> \/ \E y : Java(t, d) = <<y>> /\ y.language = "java"
      /\ Cpp(t, d) = <<>> \/ \E y : Cpp(t, d) = <<y>> /\ y.language \in {"c", "cpp"}
      /\ Python(t, d) = <<>> \/ \E y : Python(t, d) = <<y>> /\ y.language = "python"
      /\ Rust(t, d) = <<>> \/ \E y : Rust(t, d) = <<y>> /\ y.language = "rust"
  <2>1. Java(t, d) = <<>> \/ \E y : Java(t, d) = <<y>> /\ y.language = "java"
    BY DEF Java, Detected
  <2>2. Cpp(t, d) = <<>> \/ \E y : Cpp(t, d) = <<y>> /\ y.language \in {"c", "cpp"}
    BY DEF Cpp, Detected
  <2>3. Python(t, d) = <<>> \/ \E y : Python(t, d) = <<y>> /\ y.language = "python"
    BY DEF Python, Detected
  <2>4. Rust(t, d) = <<>> \/ \E y : Rust(t, d) = <<y>> /\ y.language = "rust"
    BY DEF Rust, Detected
  <2>5. QED
    BY <2>1, <2>2, <2>3, <2>4
<1>3. a \in Seq(Finding) /\ b \in Seq(Finding) /\ c \in Seq(Finding) /\ e \in Seq(Finding)
  BY JavaType, CppType, PythonType, RustType
<1>4. /\ a = <<>> \/ a = Java(t, d)
      /\ b = <<>> \/ b = Cpp(t, d)
      /\ c = <<>> \/ c = Python(t, d)
      /\ e = <<>> \/ e = Rust(t, d)
  OBVIOUS
<1> HIDE DEF a, b, c, e
<1>5. \E s \in {a, b, c, e} : \E i \in DOMAIN s : s[i] = x
  <2>1. ASSUME NEW p \in Seq(Finding), NEW q \in Seq(Finding), NEW i \in DOMAIN (p \o q)
        PROVE  (\E j \in DOMAIN p : p[j] = (p \o q)[i]) \/ (\E j \in DOMAIN q : q[j] = (p \o q)[i])
    <3>1. CASE i <= Len(p)
      BY <2>1, <3>1
    <3>2. CASE ~(i <= Len(p))
      <4>1. i - Len(p) \in DOMAIN q /\ (p \o q)[i] = q[i - Len(p)]
        BY <2>1, <3>2
      <4>2. QED
        BY <4>1
    <3>3. QED
      BY <3>1, <3>2
  <2>2. a \o b \in Seq(Finding) /\ a \o b \o c \in Seq(Finding)
    BY <1>3
  <2>3. PICK i \in DOMAIN (a \o b \o c \o e) : (a \o b \o c \o e)[i] = x
    BY <1>1
  <2>4. (\E j \in DOMAIN (a \o b \o c) : (a \o b \o c)[j] = x) \/ (\E j \in DOMAIN e : e[j] = x)
    BY <1>3, <2>1, <2>2, <2>3
  <2>5. (\E j \in DOMAIN (a \o b \o c) : (a \o b \o c)[j] = x) =>
          (\E j \in DOMAIN (a \o b) : (a \o b)[j] = x) \/ (\E j \in DOMAIN c : c[j] = x)
    BY <1>3, <2>1, <2>2
  <2>6. (\E j \in DOMAIN (a \o b) : (a \o b)[j] = x) =>
          (\E j \in DOMAIN a : a[j] = x) \/ (\E j \in DOMAIN b : b[j] = x)
    BY <1>3, <2>1
  <2>7. QED
    BY <2>4, <2>5, <2>6
<1>6. \A s, y : s = <<y>> => \A i \in DOMAIN s : s[i] = y
  OBVIOUS
<1>7. \A i \in DOMAIN <<>> : FALSE
  OBVIOUS
<1>8. CASE \E i \in DOMAIN a : a[i] = x
  BY <1>2, <1>4, <1>6, <1>7, <1>8
<1>9. CASE \E i \in DOMAIN b : b[i] = x
  BY <1>2, <1>4, <1>6, <1>7, <1>9
<1>10. CASE \E i \in DOMAIN c : c[i] = x
  BY <1>2, <1>4, <1>6, <1>7, <1>10
<1>11. CASE \E i \in DOMAIN e : e[i] = x
  BY <1>2, <1>4, <1>6, <1>7, <1>11
<1>12. QED
  BY <1>5, <1>8, <1>9, <1>10, <1>11

\* What is found alone is what is found.
LEMMA OneIsIt ==
  ASSUME NEW x, NEW y, NEW P \in BOOLEAN, <<x>> = IF P THEN <<>> ELSE <<y>> PROVE x = y
<1>1. <<x>> = <<y>>
  OBVIOUS
<1>2. <<x>>[1] = <<y>>[1]
  BY <1>1
<1>3. QED
  BY <1>2

-----------------------------------------------------------------------------
(* What a server is started with *)

\* Java: the SDK is the first of the most credible ones, and the root that of the build.
LEMMA JavaConfigured ==
  ASSUME NEW p, p.dir \in Dirs, p.language = "java", NEW x \in Finding,
         Java(Trees[p.tree], p.dir) = <<x>>, NEW database,
         p.command = Configure(p.dir, p.language, Plain(p.dir), x.info, database)
  PROVE  /\ HomeIsCredible(p)
         /\ IF {"settings.gradle", "build.gradle"} \cap Trees[p.tree].names[p.dir] # {}
            THEN RootedAt(p, "settings.gradle") ELSE p.command.root = p.dir
<1> DEFINE t == Trees[p.tree]
           d == p.dir
           build == JavaBuild(t, d)
           root == IF build = "gradle" THEN NearestWith(t, "settings.gradle", d) ELSE d
<1>1. /\ x.info.project = IF root = d THEN None ELSE root
      /\ x.info.home = JavaHome(t, d)
  <2> DEFINE known == \E field \in {"sdk", "level", "bytecode"} : From(t, d, field) # None
             info == [Nothing EXCEPT !.project = IF root = d THEN None ELSE root,
                                     !.home = JavaHome(t, d)]
             y == Detected("java", IF build = None THEN "unknown" ELSE build, info)
  <2>1. Java(t, d) = IF build = None /\ ~known THEN <<>> ELSE <<y>>
    BY DEF Java
  <2>2. /\ y.info.project = IF root = d THEN None ELSE root
        /\ y.info.home = JavaHome(t, d)
    BY DEF Detected, Nothing
  <2> HIDE DEF y, known, root
  <2>3. x = y
    BY <2>1, OneIsIt
  <2>4. QED
    BY <2>2, <2>3
<1>2. root \in Dirs
  BY NearestWithType
<1> HIDE DEF root
<1>3. /\ p.command = Jdtls(d, Plain(d), x.info) /\ p.command.home = JavaHome(t, d)
      /\ p.command.root = Or(x.info.project, d)
  BY <1>1 DEF Configure, Jdtls, Plain
<1>4. p.command.root = root
  BY <1>1, <1>2, <1>3, DirsAssumption DEF Or
<1>5. HomeIsCredible(p)
  <2> DEFINE ide == t.ide[d]
             best == {f \in IdeFiles : /\ "sdk" \in ide[f]
                                       /\ \A g \in IdeFiles : "sdk" \in ide[g] => Tier(f) <= Tier(g)}
             file == From(t, d, "sdk")
  <2>1. HomeIsCredible(p) <=>
          IF p.command.home = None THEN best = {} \/ \E f \in best : "home" \notin ide[f]
          ELSE p.command.home \in best /\ "home" \in ide[p.command.home]
    BY DEF HomeIsCredible
  <2>2. p.command.home = IF file # None /\ "home" \in ide[file] THEN file ELSE None
    BY <1>3 DEF JavaHome
  <2>3. \A f, g \in IdeFiles : f = g \/ Before(f, g) => Tier(f) <= Tier(g)
    <3>1. \A f \in IdeFiles : Tier(f) \in Nat
      BY DEF Tier
    <3>2. QED
      BY <3>1 DEF Before
  <2>4. \/ file = None /\ best = {}
        \/ file \in best
    <3>1. \/ file = None /\ \A f \in IdeFiles : "sdk" \notin ide[f]
          \/ /\ file \in IdeFiles /\ "sdk" \in ide[file]
             /\ \A g \in IdeFiles : "sdk" \in ide[g] => g = file \/ Before(file, g)
      BY FromIsFirst
    <3> HIDE DEF file, ide
    <3>2. QED
      BY <2>3, <3>1
  <2>5. None \notin best
    BY DirsAssumption
  <2> HIDE DEF file, best, ide
  <2>6. QED
    BY <2>1, <2>2, <2>4, <2>5
<1>6. CASE {"settings.gradle", "build.gradle"} \cap t.names[d] # {}
  <2>1. root = NearestWith(t, "settings.gradle", d)
    BY <1>6, GradleBuild DEF root
  <2>2. RootedAt(p, "settings.gradle")
    BY <1>4, <2>1, NearestIsNearest DEF RootedAt, Marked
  <2>3. QED
    BY <1>5, <1>6, <2>2
<1>7. CASE {"settings.gradle", "build.gradle"} \cap t.names[d] = {}
  <2>1. root = d
    BY <1>7, GradleBuild DEF root
  <2>2. QED
    BY <1>4, <1>5, <1>7, <2>1
<1>8. QED
  BY <1>6, <1>7

\* The root of a Rust server is that of its workspace.
LEMMA RustConfigured ==
  ASSUME NEW p, p.dir \in Dirs, p.language = "rust", NEW x \in Finding,
         Rust(Trees[p.tree], p.dir) = <<x>>, NEW database,
         p.command = Configure(p.dir, p.language, Plain(p.dir), x.info, database)
  PROVE  RootedAt(p, "[workspace]")
<1> DEFINE t == Trees[p.tree]
           d == p.dir
           root == NearestWith(t, "[workspace]", d)
<1>1. x.info.workspace = IF root = d THEN None ELSE root
  <2> DEFINE y == Detected("rust", "cargo",
                           [Nothing EXCEPT !.workspace = IF root = d THEN None ELSE root,
                                           !.build = "cargo"])
  <2>1. Rust(t, d) = IF "Cargo.toml" \notin t.names[d] THEN <<>> ELSE <<y>>
    BY DEF Rust
  <2>2. y.info.workspace = IF root = d THEN None ELSE root
    BY DEF Detected, Nothing
  <2> HIDE DEF y, root
  <2>3. x = y
    BY <2>1, OneIsIt
  <2>4. QED
    BY <2>2, <2>3
<1>2. root \in Dirs
  BY NearestWithType
<1> HIDE DEF root
<1>3. p.command.root = Or(x.info.workspace, d)
  BY DEF Configure, RustAnalyzer, Plain
<1>4. p.command.root = root
  BY <1>1, <1>2, <1>3, DirsAssumption DEF Or
<1>5. QED
  BY <1>4, NearestIsNearest DEF RootedAt, Marked, root

\* A C or C++ server has a database if there is one that no tool has to make, and only
\* if there is that or something that makes it.
LEMMA CppConfigured ==
  ASSUME NEW p, p.dir \in Dirs, p.language = "c", NEW x \in Finding,
         Cpp(Trees[p.tree], p.dir) = <<x>>,
         NEW database \in Databases(x.info, TRUE, Trees[p.start], p.dir),
         p.command = Configure(p.dir, p.language, Plain(p.dir), x.info, database)
  PROVE  LET names == Trees[p.tree].names[p.dir] IN
         /\ p.command.database =>
              {"compile_commands.json", "CMakeLists.txt", "meson.build"} \cap names # {}
         /\ {"CMakeLists.txt", "meson.build"} \cap names = {} =>
              ("compile_commands.json" \in names \cap Trees[p.start].names[p.dir]
                 => p.command.database)
<1> DEFINE t == Trees[p.tree]
           d == p.dir
           there == "compile_commands.json" \in Trees[p.start].names[d]
<1>1. /\ x.info.database = ("compile_commands.json" \in t.names[d])
      /\ x.info.build = CppBuild(t, d)
  <2> DEFINE base == "compile_commands.json" \in t.names[d]
             build == CppBuild(t, d)
             sources == Sources(t, d)
             language == IF ".cpp" \notin sources /\ ".c" \in sources THEN "c" ELSE "cpp"
             y == Detected(language, build, [Nothing EXCEPT !.build = build, !.database = base])
  <2>1. Cpp(t, d) = IF build = None /\ ~base THEN <<>> ELSE <<y>>
    BY DEF Cpp
  <2>2. y.info.database = base /\ y.info.build = build
    BY DEF Detected, Nothing
  <2> HIDE DEF y
  <2>3. x = y
    BY <2>1, OneIsIt
  <2>4. QED
    BY <2>2, <2>3
<1>2. database \in BOOLEAN
  BY DatabasesType DEF Finding
<1>3. p.command.database = database
  <2>1. p.command = [Plain(d) EXCEPT !.database = Plain(d).database \/ database]
    BY DEF Configure, Clangd
  <2>2. p.command.database = (Plain(d).database \/ database)
    BY <2>1 DEF Plain
  <2>3. Plain(d).database = FALSE
    BY DEF Plain
  <2>4. QED
    BY <1>2, <2>2, <2>3
<1>4. ASSUME database, ~({"CMakeLists.txt", "meson.build"} \cap t.names[d] # {})
      PROVE  "compile_commands.json" \in t.names[d]
  <2>1. x.info.build \notin {"cmake", "meson"}
    BY <1>1, <1>4, CMakeOrMeson
  <2>2. ~x.info.database => database \in {FALSE}
    BY <2>1 DEF Databases
  <2>3. QED
    BY <1>1, <1>4, <2>2
<1>5. ASSUME {"CMakeLists.txt", "meson.build"} \cap t.names[d] = {},
             "compile_commands.json" \in t.names[d], there
      PROVE  database
  <2>1. x.info.build \notin {"cmake", "meson"}
    BY <1>1, <1>5, CMakeOrMeson
  <2>2. database \in {there}
    BY <1>1, <1>5, <2>1 DEF Databases
  <2>3. QED
    BY <1>5, <2>2
<1>6. QED
  BY <1>3, <1>4, <1>5

\* A Python server gets the environment and the root of the sources.
LEMMA PythonConfigured ==
  ASSUME NEW p, p.dir \in Dirs, p.language = "python", NEW x \in Finding,
         Python(Trees[p.tree], p.dir) = <<x>>, NEW database,
         p.command = Configure(p.dir, p.language, Plain(p.dir), x.info, database)
  PROVE  /\ ".venv" \in Trees[p.tree].names[p.dir] => p.command.venv # None
         /\ "src/package" \in Trees[p.tree].names[p.dir] => p.command.include # None
<1> DEFINE t == Trees[p.tree]
           d == p.dir
<1>1. x.info.venv = Venv(t, d) /\ x.info.include = Include(t, d)
  <2> DEFINE y == Detected("python", PythonBuild(t, d),
                           [Nothing EXCEPT !.venv = Venv(t, d), !.include = Include(t, d)])
  <2>1. Python(t, d) = IF PythonBuild(t, d) = None THEN <<>> ELSE <<y>>
    BY DEF Python
  <2>2. y.info.venv = Venv(t, d) /\ y.info.include = Include(t, d)
    BY DEF Detected, Nothing
  <2> HIDE DEF y
  <2>3. x = y
    BY <2>1, OneIsIt
  <2>4. QED
    BY <2>2, <2>3
<1>2. p.command.venv = x.info.venv /\ p.command.include = x.info.include
  BY DEF Configure, Pyright, Plain
<1>3. None \notin Environments \cup SourceRoots
  BY DirsAssumption
<1>4. ".venv" \in t.names[d] => Venv(t, d) \in Environments
  BY DEF Venv, Environments
<1>5. "src/package" \in t.names[d] => Include(t, d) \in SourceRoots
  BY DEF Include, SourceRoots
<1>6. QED
  BY <1>1, <1>2, <1>3, <1>4, <1>5

\* The finding of a directory that a configuration is of.
FoundAs(n, d, language, info) ==
  \E x \in Finding : /\ \E i \in DOMAIN Found[n][d] : Found[n][d][i] = x
                     /\ language = Canonical(x.language) /\ info = x.info

\* The command of a project that was made from a finding is right for it.
LEMMA ProjectConfigured ==
  ASSUME NEW p \in Project, NEW info \in Info, FoundAs(p.tree, p.dir, p.language, info),
         NEW database \in Databases(info, TRUE, Trees[p.start], p.dir),
         p.command = Configure(p.dir, p.language, Plain(p.dir), info, database)
  PROVE  AsTreeSays(p)
<1> DEFINE t == Trees[p.tree]
           d == p.dir
<1>1. /\ p.tree \in DOMAIN Trees /\ d \in Dirs /\ t \in Tree
      /\ p.language \in {"c", "java", "python", "rust"}
  BY TreesAssumption DEF Project
<1>2. PICK x \in Finding : /\ \E i \in DOMAIN Found[p.tree][d] : Found[p.tree][d][i] = x
                           /\ p.language = Canonical(x.language) /\ info = x.info
  BY DEF FoundAs
<1>3. \E i \in DOMAIN Detect(t, d) : Detect(t, d)[i] = x
  BY <1>1, <1>2, FoundType
<1>4. \/ x.language = "java" /\ Java(t, d) = <<x>>
      \/ x.language \in {"c", "cpp"} /\ Cpp(t, d) = <<x>>
      \/ x.language = "python" /\ Python(t, d) = <<x>>
      \/ x.language = "rust" /\ Rust(t, d) = <<x>>
  BY <1>1, <1>3, FoundByLanguage
<1>5. \/ p.language = "java" /\ Java(t, d) = <<x>>
      \/ p.language = "c" /\ Cpp(t, d) = <<x>>
      \/ p.language = "python" /\ Python(t, d) = <<x>>
      \/ p.language = "rust" /\ Rust(t, d) = <<x>>
  BY <1>2, <1>4 DEF Canonical
<1>6. /\ p.command = Configure(p.dir, p.language, Plain(p.dir), x.info, database)
      /\ database \in Databases(x.info, TRUE, Trees[p.start], p.dir)
  BY <1>2
<1>7. CASE p.language = "java" /\ Java(t, d) = <<x>>
  BY <1>1, <1>6, <1>7, JavaConfigured DEF AsTreeSays
<1>8. CASE p.language = "c" /\ Cpp(t, d) = <<x>>
  BY <1>1, <1>6, <1>8, CppConfigured DEF AsTreeSays
<1>9. CASE p.language = "python" /\ Python(t, d) = <<x>>
  BY <1>1, <1>6, <1>9, PythonConfigured DEF AsTreeSays
<1>10. CASE p.language = "rust" /\ Rust(t, d) = <<x>>
  BY <1>1, <1>6, <1>10, RustConfigured DEF AsTreeSays
<1>11. QED
  BY <1>5, <1>7, <1>8, <1>9, <1>10

-----------------------------------------------------------------------------
(* It stays what it was started with *)

\* A register that leaves all to detection has the finding, and so has what it starts.
CallsAsFound ==
  \A s \in Sessions : call[s] # None /\ call[s].detected =>
    /\ FoundAs(call[s].tree, call[s].dir, call[s].language, call[s].info)
    /\ call[s].command = Plain(call[s].dir)
MadeAsFound(p) ==
  \E info \in Info :
    /\ FoundAs(p.tree, p.dir, p.language, info)
    /\ \E database \in Databases(info, TRUE, Trees[p.start], p.dir) :
         p.command = Configure(p.dir, p.language, Plain(p.dir), info, database)
ProjectsAsFound == \A i \in DOMAIN projects : projects[i].detected => MadeAsFound(projects[i])

\* That every such entry was made from a finding is what is to be kept.
LEMMA ConfiguredInv == ASSUME WInv, ProjectsAsFound PROVE ConfiguredAsDetected
<1>1. SUFFICES ASSUME NEW i \in DOMAIN projects, projects[i].detected
               PROVE  AsTreeSays(projects[i])
  BY <1>1 DEF ConfiguredAsDetected
<1> DEFINE p == projects[i]
<1>2. p \in Project /\ MadeAsFound(p)
  BY <1>1 DEF WInv, Registry, ProjectsAsFound
<1> HIDE DEF p
<1>3. PICK info \in Info :
        /\ FoundAs(p.tree, p.dir, p.language, info)
        /\ \E database \in Databases(info, TRUE, Trees[p.start], p.dir) :
             p.command = Configure(p.dir, p.language, Plain(p.dir), info, database)
  BY <1>2 DEF MadeAsFound
<1>4. AsTreeSays(p)
  BY <1>2, <1>3, ProjectConfigured
<1>5. QED
  BY <1>4 DEF p

\* What is asked for by a name that detection has, or by none, is what is found.
LEMMA RequestIsFound ==
  ASSUME NEW n \in DOMAIN Trees, NEW d \in Dirs, NEW asked \in Names(Found[n][d]) \cup {None},
         Request(Found[n][d], asked, None).language # None
  PROVE  FoundAs(n, d, Request(Found[n][d], asked, None).language,
                 Request(Found[n][d], asked, None).info)
<1> DEFINE found == Found[n][d]
           x == Chosen(found, asked)
<1>1. found \in Seq(Finding)
  BY FoundType
<1>2. found # <<>>
  <2>1. CASE asked = None
    BY <2>1 DEF Request
  <2>2. CASE asked \in Names(found)
    BY <2>2 DEF Names
  <2>3. QED
    BY <2>1, <2>2
<1>3. /\ \E i \in DOMAIN found : found[i] = x
      /\ asked \in Names(found) => x.language = asked
  BY <1>1, <1>2, ChosenIsFound
<1>4. x \in Finding
  BY <1>1, <1>3
<1>5. Request(found, asked, None).info = x.info
  <2>1. Request(found, asked, None).info = Over(DetectedBuildInfo(x.info), x.info)
    BY <1>2 DEF Request
  <2>2. QED
    BY <1>4, <2>1, DetectedIsFound DEF Finding
<1>6. Request(found, asked, None).language = Canonical(x.language)
  <2>1. CASE asked = None
    BY <1>2, <2>1 DEF Request
  <2>2. CASE asked # None
    BY <1>2, <1>3, <2>2 DEF Request
  <2>3. QED
    BY <2>1, <2>2
<1>7. QED
  BY <1>3, <1>4, <1>5, <1>6 DEF FoundAs

\* What an entry keeps while it is there.
Alike(e, o) == /\ e.dir = o.dir /\ e.language = o.language /\ e.tree = o.tree
               /\ e.start = o.start /\ e.detected = o.detected /\ e.command = o.command
OnlyKnown == \A j \in DOMAIN projects' : \E o \in DOMAIN projects : Alike(projects'[j], projects[o])

\* Entries that stay alike stay as found.
LEMMA OnlyKnownAsFound == ASSUME ProjectsAsFound, OnlyKnown PROVE ProjectsAsFound'
<1>1. ASSUME NEW e, NEW o, Alike(e, o), MadeAsFound(o) PROVE MadeAsFound(e)
  BY <1>1 DEF Alike, MadeAsFound
<1>2. ASSUME NEW j \in DOMAIN projects', projects'[j].detected PROVE MadeAsFound(projects'[j])
  <2>1. PICK o \in DOMAIN projects : Alike(projects'[j], projects[o])
    BY DEF OnlyKnown
  <2>2. projects[o].detected
    BY <1>2, <2>1 DEF Alike
  <2>3. MadeAsFound(projects[o])
    BY <2>2 DEF ProjectsAsFound
  <2>4. QED
    BY <1>1, <2>1, <2>3
<1>3. QED
  BY <1>2 DEF ProjectsAsFound, MadeAsFound, FoundAs

\* So do entries that do not change.
LEMMA SameProjectsAsFound == ASSUME ProjectsAsFound, UNCHANGED projects PROVE ProjectsAsFound'
BY DEF ProjectsAsFound, MadeAsFound, FoundAs

\* Calls that end or go on.
LEMMA SameCallsAsFound ==
  ASSUME CallsAsFound,
         \A s \in Sessions : call'[s] = None \/ call'[s] = call[s]
  PROVE  CallsAsFound'
BY DEF CallsAsFound, FoundAs

\* A change of an entry's client, tokens and build_info.
LEMMA ReplaceOnlyKnown ==
  ASSUME Registry, NEW i \in DOMAIN projects, NEW client, NEW tokens, NEW given,
         \/ projects' = [projects EXCEPT ![i].tokens = tokens, ![i].given = given]
         \/ projects' = [projects EXCEPT ![i].client = client, ![i].tokens = tokens]
         \/ projects' = [projects EXCEPT ![i].client = client]
         \/ projects' = [projects EXCEPT ![i].tokens = tokens]
  PROVE  OnlyKnown
<1>1. projects[i] \in Project /\ DOMAIN projects' = DOMAIN projects
  BY DEF Registry
<1>2. \A j \in DOMAIN projects : j # i => projects'[j] = projects[j]
  OBVIOUS
<1>3. Alike(projects'[i], projects[i])
  BY <1>1 DEF Alike, Project
<1>4. QED
  BY <1>1, <1>2, <1>3 DEF OnlyKnown, Alike

\* The removal of an entry, which renumbers those after it.
LEMMA RemoveOnlyKnown ==
  ASSUME Registry, NEW i \in DOMAIN projects, projects' = Without(i) PROVE OnlyKnown
<1>1. /\ projects \in Seq(Project) /\ DOMAIN projects = 1..Len(projects) /\ i \in Nat
      /\ Len(projects) \in Nat
  BY DEF Registry
<1>2. \A j \in DOMAIN projects' : /\ (IF j < i THEN j ELSE j + 1) \in DOMAIN projects
                                  /\ projects'[j] = projects[IF j < i THEN j ELSE j + 1]
  BY <1>1, RemoveType
<1>3. QED
  BY <1>2 DEF OnlyKnown, Alike

\* The return of a token.
LEMMA ReleaseOnlyKnown ==
  ASSUME Registry, NEW k, Release(k) PROVE OnlyKnown \/ UNCHANGED projects
<1>1. ASSUME NEW i \in DOMAIN projects,
             projects' = IF projects[i].tokens = {k} THEN Without(i)
                         ELSE [projects EXCEPT ![i].tokens = @ \ {k}]
      PROVE  OnlyKnown
  BY <1>1, RemoveOnlyKnown, ReplaceOnlyKnown
<1>2. QED
  BY <1>1 DEF Release

\* The inductive part of it.
AsFound == CallsAsFound /\ ProjectsAsFound

\* Asking records what detection has found.
LEMMA AsksAsFound ==
  ASSUME WInv, AsFound, NEW s \in Sessions, NEW d \in Dirs, NEW asked \in Languages \cup {None},
         NEW option \in Options, NEW force \in BOOLEAN, Asks(s, d, asked, option, force)
  PROVE  AsFound'
<1> DEFINE request == Request(Found[tree][d], asked, option.build_info)
           left == option = Bare /\ asked \in Names(Found[tree][d]) \cup {None}
           command == [Plain(d) EXCEPT !.database = option.database]
           c == [dir |-> d, language |-> request.language, given |-> request.given,
                 info |-> request.info, command |-> command,
                 force |-> force, starting |-> FALSE, tree |-> tree, detected |-> left]
<1>1. /\ call' = [call EXCEPT ![s] = c] /\ request.language # None /\ UNCHANGED projects
  BY DEF Asks
<1>2. tree \in DOMAIN Trees
  BY DEF WInv, SessionsTyped
<1>3. left => FoundAs(tree, d, request.language, request.info) /\ command = Plain(d)
  <2>1. Bare.build_info = None /\ Bare.database = FALSE
    BY DEF Bare
  <2>2. left => request = Request(Found[tree][d], asked, None)
    BY <2>1
  <2>3. left => command = Plain(d)
    <3>1. left => command = [Plain(d) EXCEPT !.database = FALSE]
      BY <2>1
    <3>2. [Plain(d) EXCEPT !.database = FALSE] = Plain(d)
      <4>1. /\ Plain(d) \in Command /\ Plain(d).database = FALSE
            /\ [Plain(d) EXCEPT !.database = FALSE] \in Command
        BY PlainType DEF Plain
      <4>2. \A cmd \in Command : cmd.database = FALSE => [cmd EXCEPT !.database = FALSE] = cmd
        BY DEF Command
      <4>3. QED
        BY <4>1, <4>2
    <3>3. QED
      BY <3>1, <3>2
  <2>4. QED
    BY <1>1, <1>2, <2>2, <2>3, RequestIsFound
<1> HIDE DEF request, left, command
<1>4. c.detected => FoundAs(c.tree, c.dir, c.language, c.info) /\ c.command = Plain(c.dir)
  BY <1>3
<1> HIDE DEF c
<1>5. /\ call'[s] = c
      /\ \A r \in Sessions : r # s => call'[r] = call[r]
  BY <1>1 DEF WInv, SessionsTyped
<1>6. CallsAsFound'
  BY <1>4, <1>5 DEF AsFound, CallsAsFound, FoundAs
<1>7. QED
  BY <1>1, <1>6, SameProjectsAsFound DEF AsFound

\* regenerate_index does not say that it has.
LEMMA RegenerateAsFound ==
  ASSUME WInv, AsFound, NEW s \in Sessions, RegenerateAsks(s) PROVE AsFound'
<1> DEFINE Again(i) ==
             [dir |-> projects[i].dir, language |-> projects[i].language,
              given |-> projects[i].given, info |-> projects[i].given,
              command |-> projects[i].command,
              force |-> TRUE, starting |-> FALSE, tree |-> tree, detected |-> FALSE]
<1>1. /\ UNCHANGED projects
      /\ \E i \in DOMAIN projects : call' = [call EXCEPT ![s] = Again(i)]
  BY DEF RegenerateAsks
<1>2. PICK i \in DOMAIN projects : call' = [call EXCEPT ![s] = Again(i)]
  BY <1>1
<1> DEFINE c == Again(i)
<1>3. c.detected = FALSE
  OBVIOUS
<1> HIDE DEF Again, c
<1>4. /\ call'[s].detected = FALSE
      /\ \A r \in Sessions : r # s => call'[r] = call[r]
  BY <1>2, <1>3 DEF WInv, SessionsTyped, c
<1>5. CallsAsFound'
  BY <1>4 DEF AsFound, CallsAsFound, FoundAs
<1>6. QED
  BY <1>1, <1>5, SameProjectsAsFound DEF AsFound

\* A server is started with what its register has recorded.
LEMMA StartAsFound ==
  ASSUME WInv, AsFound, NEW s \in Sessions, Start(s) PROVE AsFound'
<1> DEFINE c == call[s]
           Entry(database) ==
             [dir |-> c.dir, language |-> c.language, client |-> "starting", tokens |-> {},
              given |-> c.given,
              command |-> Configure(c.dir, c.language, c.command, c.info, database),
              tree |-> c.tree, start |-> tree, detected |-> c.detected]
<1>0. PICK database \in Databases(c.info, c.detected, Trees[tree], c.dir) :
        \/ projects' = Append(projects, Entry(database))
        \/ \E i \in Existing(c) : projects' = [projects EXCEPT ![i] = Entry(database)]
  BY DEF Start
<1> DEFINE project == Entry(database)
<1>1. /\ c # None /\ call' = [call EXCEPT ![s].starting = TRUE]
      /\ \/ projects' = Append(projects, project)
         \/ \E i \in Existing(c) : projects' = [projects EXCEPT ![i] = project]
  BY <1>0 DEF Start
<1>2. c \in Call
  BY <1>1 DEF WInv, SessionsTyped
<1>3. /\ c.info \in Info /\ c.detected \in BOOLEAN
      /\ c.detected => /\ FoundAs(c.tree, c.dir, c.language, c.info)
                       /\ c.command = Plain(c.dir)
  BY <1>1, <1>2 DEF Call, AsFound, CallsAsFound
<1>4. project.detected => MadeAsFound(project)
  <2>1. /\ project.tree = c.tree /\ project.dir = c.dir /\ project.language = c.language
        /\ project.start = tree /\ project.detected = c.detected
        /\ project.command = Configure(c.dir, c.language, c.command, c.info, database)
    OBVIOUS
  <2> HIDE DEF project, Entry, c
  <2>2. c.detected => database \in Databases(c.info, TRUE, Trees[tree], c.dir)
    BY <1>3
  <2>3. QED
    BY <1>3, <2>1, <2>2 DEF MadeAsFound
<1> HIDE DEF project, Entry
<1>5. projects \in Seq(Project)
  BY DEF WInv, Registry
<1>6. \A j \in DOMAIN projects' :
        projects'[j] = project \/ (j \in DOMAIN projects /\ projects'[j] = projects[j])
  <2>1. CASE projects' = Append(projects, project)
    BY <1>5, <2>1
  <2>2. ASSUME NEW i \in Existing(c), projects' = [projects EXCEPT ![i] = project]
        PROVE  \A j \in DOMAIN projects' :
                 projects'[j] = project \/ (j \in DOMAIN projects /\ projects'[j] = projects[j])
    BY <1>5, <2>2
  <2>3. QED
    BY <1>1, <2>1, <2>2
<1>7. ProjectsAsFound'
  <2>1. ASSUME NEW j \in DOMAIN projects', projects'[j].detected
        PROVE  MadeAsFound(projects'[j])
    BY <1>4, <1>6, <2>1 DEF AsFound, ProjectsAsFound
  <2>2. QED
    BY <2>1 DEF ProjectsAsFound, MadeAsFound, FoundAs
<1>8. /\ \A r \in Sessions : r # s => call'[r] = call[r]
      /\ call'[s].detected = c.detected /\ call'[s].command = c.command
      /\ call'[s].tree = c.tree /\ call'[s].dir = c.dir
      /\ call'[s].language = c.language /\ call'[s].info = c.info
  BY <1>1, <1>2 DEF WInv, SessionsTyped, Call
<1>9. CallsAsFound'
  <2>1. ASSUME NEW r \in Sessions, call'[r] # None, call'[r].detected
        PROVE  /\ FoundAs(call'[r].tree, call'[r].dir, call'[r].language, call'[r].info)
               /\ call'[r].command = Plain(call'[r].dir)
    <3>1. CASE r = s
      BY <1>3, <1>8, <2>1, <3>1
    <3>2. CASE r # s
      BY <1>8, <2>1, <3>2 DEF AsFound, CallsAsFound
    <3>3. QED
      BY <3>1, <3>2
  <2>2. QED
    BY <2>1 DEF CallsAsFound, FoundAs
<1>10. QED
  BY <1>7, <1>9 DEF AsFound

\* All else only ends calls and changes the clients and tokens of entries.
LEMMA RestAsFound ==
  ASSUME WInv, AsFound, NEW s \in Sessions,
         \/ \E k \in Tokens : Join(s, k) \/ Started(s, k) \/ Deregister(s, k)
         \/ Leave(s) \/ StartFails(s) \/ NotInstalled(s) \/ CleanUp(s)
  PROVE  AsFound'
<1>1. Registry /\ call \in [Sessions -> Call \cup {None}]
  BY DEF WInv, SessionsTyped
<1>2. \A r \in Sessions : call'[r] = None \/ call'[r] = call[r]
  BY <1>1 DEF Join, Started, Deregister, Leave, StartFails, NotInstalled, CleanUp, Ends
<1>3. Existing(call[s]) \subseteq DOMAIN projects
  BY DEF Existing, Find
<1>4. OnlyKnown \/ UNCHANGED projects
  <2>1. ASSUME NEW k \in Tokens, Join(s, k) PROVE OnlyKnown
    <3>1. PICK i \in Existing(call[s]) :
            projects' = [projects EXCEPT ![i].tokens = @ \cup {k},
                                         ![i].given = Updated(@, call[s].given)]
      BY <2>1 DEF Join
    <3>2. projects' = [projects EXCEPT ![i].tokens = projects[i].tokens \cup {k},
                                       ![i].given = Updated(projects[i].given, call[s].given)]
      BY <1>3, <3>1
    <3>3. QED
      BY <1>1, <1>3, <3>2, ReplaceOnlyKnown
  <2>2. ASSUME NEW k \in Tokens, Started(s, k) PROVE OnlyKnown
    <3>1. PICK i \in Existing(call[s]) :
            projects' = [projects EXCEPT ![i].client = "up", ![i].tokens = {k}]
      BY <2>2 DEF Started
    <3>2. QED
      BY <1>1, <1>3, <3>1, ReplaceOnlyKnown
  <2>3. ASSUME NEW k \in Tokens, Deregister(s, k) PROVE OnlyKnown \/ UNCHANGED projects
    BY <1>1, <2>3, ReleaseOnlyKnown DEF Deregister
  <2>4. CASE Leave(s)
    BY <1>1, <1>3, <2>4, ReplaceOnlyKnown DEF Leave
  <2>5. CASE StartFails(s)
    BY <1>1, <1>3, <2>5, RemoveOnlyKnown DEF StartFails
  <2>6. CASE NotInstalled(s)
    BY <2>6 DEF NotInstalled
  <2>7. CASE CleanUp(s)
    BY <1>1, <2>7, ReleaseOnlyKnown DEF CleanUp
  <2>8. QED
    BY <2>1, <2>2, <2>3, <2>4, <2>5, <2>6, <2>7
<1>5. QED
  BY <1>2, <1>4, OnlyKnownAsFound, SameProjectsAsFound, SameCallsAsFound DEF AsFound

\* A change of the tree is not a change of what was found in the one before.
LEMMA SameAsFound ==
  ASSUME AsFound, UNCHANGED <<projects, call>> PROVE AsFound'
BY SameProjectsAsFound, SameCallsAsFound DEF AsFound

\* The steps of a proxy.
LEMMA ProxyAsFound ==
  ASSUME IInv, AsFound, NEW p \in Proxies, ProxyStep(p) PROVE AsFound'
<1>1. p \in Sessions /\ Root[p] \in Dirs /\ WInv
  BY ProxiesAssumption DEF IInv
<1>2. CASE RegisterNext(p)
  <2>1. PICK i : i = Min(Available(p))
    OBVIOUS
  <2>2. Asks(p, Root[p], todo[p][i], Bare, FALSE) /\ todo[p][i] \in Languages
    BY <1>2, <2>1, AvailableNext DEF RegisterNext, IInv
  <2>3. QED
    BY <1>1, <2>2, AsksAsFound, OptionsAssumption
<1>3. CASE \/ Initialize(p) \/ Initialized(p) \/ ShutdownBegins(p) \/ ShutdownEnds(p)
           \/ RegisterTimesOut(p) \/ \E k \in Tokens : ShutdownGivesUp(p, k)
  <2>1. UNCHANGED workspaces
    BY <1>3 DEF Initialize, Initialized, ShutdownBegins, ShutdownEnds, RegisterTimesOut,
       ShutdownGivesUp
  <2>2. QED
    BY <2>1, SameAsFound DEF workspaces
<1>4. CASE Exit(p)
  BY <1>1, <1>4, RestAsFound DEF Exit
<1>5. CASE \E k \in Tokens : Registered(p, k) \/ ShutdownReturns(p, k) \/ LateReturn(p, k)
  BY <1>1, <1>5, RestAsFound DEF Registered, ShutdownReturns, LateReturn
<1>6. QED
  BY <1>2, <1>3, <1>4, <1>5 DEF ProxyStep

\* The steps of an MCP frontend.
LEMMA ToolAsFound ==
  ASSUME IInv, AsFound, NEW s \in Sessions, ToolStep(s) PROVE AsFound'
<1>1. WInv
  BY DEF IInv
<1>2. CASE ToolRegisters(s)
  <2>1. PICK d \in Dirs, option \in Options, force \in BOOLEAN :
          \E asked \in Scanned[tree][d] \cup Names(Found[tree][d]) \cup {None} :
            Asks(s, d, asked, option, force)
    BY <1>2 DEF ToolRegisters
  <2>2. PICK asked \in Scanned[tree][d] \cup Names(Found[tree][d]) \cup {None} :
          Asks(s, d, asked, option, force)
    BY <2>1
  <2>3. asked \in Languages \cup {None}
    BY <1>1, AskedType
  <2>4. QED
    BY <1>1, <2>2, <2>3, AsksAsFound
<1>3. QED
  BY <1>1, <1>2, RestAsFound, RegenerateAsFound DEF ToolStep

\* What is to be kept is kept.
LEMMA NextAsFound == IInv /\ AsFound /\ [Next]_vars => AsFound'
<1> SUFFICES ASSUME IInv, AsFound, [Next]_vars PROVE AsFound'
  OBVIOUS
<1>1. ASSUME NEW p \in Proxies, ProxyStep(p) PROVE AsFound'
  BY <1>1, ProxyAsFound
<1>2. ASSUME NEW s \in Sessions \ Proxies, ToolStep(s) PROVE AsFound'
  BY <1>2, ToolAsFound
<1>3. ASSUME NEW s \in Sessions, DaemonStep(s) PROVE AsFound'
  BY <1>3, StartAsFound, RestAsFound DEF DaemonStep, IInv
<1>4. CASE Edit
  BY <1>4, SameAsFound DEF Edit
<1>5. CASE UNCHANGED vars
  BY <1>5, SameAsFound DEF vars, workspaces
<1>6. QED
  BY <1>1, <1>2, <1>3, <1>4, <1>5 DEF Next

\* Initially there is nothing to be found.
LEMMA InitAsFound == Init => AsFound
<1> SUFFICES ASSUME Init PROVE AsFound
  OBVIOUS
<1>1. projects = <<>> /\ call = [s \in Sessions |-> None]
  BY DEF Init, InitWorkspaces
<1>2. QED
  BY <1>1 DEF AsFound, CallsAsFound, ProjectsAsFound

-----------------------------------------------------------------------------
(* Theorems *)

\* The registry of a daemon, the sessions and the proxies keep their types: there is one
\* project of a directory and language, a token is in one project at most, and a
\* project that is starting has the session that starts it (ProjectRegistry.register
\* and deregister, _FrontendSession, LspProxyServer).
THEOREM WorkspacesTyped == Spec => []TypeOK
BY InitIInv, NextIInv, IInvIsTyped, PTL DEF Spec

\* While a registration is good, files of its language below its directory go to its
\* server, except in projects inside it (ProjectRegistry.find_project_for_file).
THEOREM FilesAreRouted == Spec => []RoutedToItsLanguage
<1>1. IInv => RoutedToItsLanguage
  BY WInvRoutes DEF IInv
<1>2. QED
  BY <1>1, InitIInv, NextIInv, PTL DEF Spec

\* A proxy whose shutdown came after its initialize holds no good registration any more,
\* but those of which the daemon did not tell it in time that they were made, or were
\* returned (LspProxyServer._handle_initialize and _handle_shutdown, DaemonClient._request).
THEOREM ProxiesLetGo == Spec => []ShutdownLetsGo
<1>1. IInv => ShutdownLetsGo
  BY DEF IInv, HeldInv
<1>2. QED
  BY <1>1, InitIInv, NextIInv, PTL DEF Spec

\* A server whose register left all to detection, without options and without a language or
\* by a name that detection has, was started with what the tree says for that very
\* language, whatever else is registered, joined or regenerated; what regenerate_index has
\* restarted is not among them (ProjectRegistry.register, detect_project, the adapters'
\* configure).
THEOREM ServersAreConfigured == Spec => []ConfiguredAsDetected
<1>1. IInv /\ AsFound => ConfiguredAsDetected
  BY ConfiguredInv DEF IInv, AsFound
<1>2. QED
  BY <1>1, InitIInv, NextIInv, InitAsFound, NextAsFound, PTL DEF Spec
=============================================================================
