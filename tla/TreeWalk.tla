------------------------------ MODULE TreeWalk ------------------------------
(***************************************************************************)
(* A recursive call or type tree (daemon.py, _handle_tree_query and        *)
(* _walk_tree).  Every node is expanded by a task of its own; the tasks of *)
(* one query share the set of visited symbols, the count of nodes and a    *)
(* semaphore, and interleave at its acquisition and at the query they put  *)
(* to the LSP server, which answers in any order.                          *)
(***************************************************************************)
EXTENDS Integers, Sequences, FiniteSets

CONSTANTS
  Symbols,      \* what _node_key tells apart: file, line and name
  Root,         \* the symbol of the prepared item
  Hierarchies,  \* what the server may know: the callees of each symbol
  MaxDepth,     \* max_depth
  MaxNodes,     \* _TREE_MAX_NODES
  Concurrency   \* _TREE_WALK_CONCURRENCY

ASSUME RootAssumption == Root \in Symbols
ASSUME SymbolsAssumption == IsFiniteSet(Symbols)   \* a server answers with a list
ASSUME HierarchiesAssumption == Hierarchies \subseteq [Symbols -> SUBSET Symbols]
ASSUME DepthAssumption == MaxDepth \in Int
ASSUME BudgetAssumption == MaxNodes \in Nat \ {0} /\ Concurrency \in Nat \ {0}

VARIABLES
  calls,    \* the hierarchy this query meets
  nodes,    \* the nodes of the tree; a node is its path from the root
  state,    \* what became of each node, a function on nodes
  visited,  \* symbols whose expansion has begun
  count     \* node_count[0]

vars == <<calls, nodes, state, visited, count>>

Symbol(n) == n[Len(n)]
Depth(n) == MaxDepth - (Len(n) - 1)   \* the depth argument: levels left below n

\* A task is queued, waits for the semaphore, asks; then its own part is over.
Tasks == {n \in nodes : state[n] \in {"queued", "waiting", "asking"}}
Done == Tasks = {}

\* Mutant: the children are awaited inside the semaphore.
HeldThroughout ==
  {n \in nodes : \/ state[n] = "asking"
                \/ /\ state[n] = "expanded"
                   /\ \E m \in Tasks : m # n /\ SubSeq(m, 1, Len(n)) = n}

\* The tasks that hold the semaphore.
Asking == {n \in nodes : state[n] = "asking"}

Init ==
  /\ calls \in Hierarchies
  /\ nodes = {<<Root>>}
  /\ state = [n \in {<<Root>>} |-> "queued"]
  /\ visited = {} /\ count = 0

-----------------------------------------------------------------------------
Becomes(n, s) == state' = [state EXCEPT ![n] = s]

\* Out of budget: the node is marked has_more.
Cut(n) ==
  /\ state[n] = "queued" /\ count >= MaxNodes
  /\ Becomes(n, "cut")
  /\ UNCHANGED <<calls, nodes, visited, count>>

\* Mutant: the symbol is marked when its answer comes.
MarkedLate(s) == visited

\* The symbol is marked before the first await.
Marked(s) == visited \cup {s}

\* Another task expands the symbol, or has.
Seen(n) ==
  /\ state[n] = "queued" /\ count < MaxNodes /\ Symbol(n) \in visited
  /\ Becomes(n, "seen")
  /\ UNCHANGED <<calls, nodes, visited, count>>

Visit(n) ==
  /\ state[n] = "queued" /\ count < MaxNodes /\ Symbol(n) \notin visited
  /\ visited' = Marked(Symbol(n))
  /\ Becomes(n, "waiting")
  /\ UNCHANGED <<calls, nodes, count>>

Acquire(n) ==
  /\ state[n] = "waiting" /\ Cardinality(Asking) < Concurrency
  /\ Becomes(n, "asking")
  /\ UNCHANGED <<calls, nodes, visited, count>>

\* The query raises or times out: the node keeps no children and no mark.
Fail(n) ==
  /\ state[n] = "asking"
  /\ Becomes(n, "failed")
  /\ UNCHANGED <<calls, nodes, visited, count>>

Leaf(n) ==
  /\ state[n] = "asking" /\ calls[Symbol(n)] = {}
  /\ Becomes(n, "leaf")
  /\ UNCHANGED <<calls, nodes, visited, count>>

\* Mutant: the boundary is not marked.
Unmarked == "leaf"

\* has_more
Boundary == "boundary"

\* The last level is asked for its children but does not show them.
Peek(n) ==
  /\ state[n] = "asking" /\ calls[Symbol(n)] # {} /\ Depth(n) <= 0
  /\ Becomes(n, Boundary)
  /\ UNCHANGED <<calls, nodes, visited, count>>

Children(n) == {Append(n, s) : s \in calls[Symbol(n)]}

\* Mutant: the children that will be expanded are also counted twice.
CountedTwice(n) == Cardinality(Children(n)) + Cardinality(calls[Symbol(n)] \ visited)

Counted(n) == Cardinality(Children(n))

\* The children become nodes; those not yet visited get tasks.
Expand(n) ==
  /\ state[n] = "asking" /\ calls[Symbol(n)] # {} /\ Depth(n) > 0
  /\ nodes' = nodes \cup Children(n)
  /\ state' = [m \in nodes \cup Children(n) |->
                 IF m \in Children(n)
                 THEN IF Symbol(m) \in visited THEN "seen" ELSE "queued"
                 ELSE IF m = n THEN "expanded" ELSE state[m]]
  /\ count' = count + Counted(n)
  /\ UNCHANGED <<calls, visited>>

-----------------------------------------------------------------------------
Begin(n) == Cut(n) \/ Seen(n) \/ Visit(n)
Answer(n) == Fail(n) \/ Leaf(n) \/ Peek(n) \/ Expand(n)
Next == \E n \in nodes : Begin(n) \/ Acquire(n) \/ Answer(n)

Spec == Init /\ [][Next]_vars

\* Tasks run, and every query is answered or times out.
FairSpec == Spec /\ WF_vars(Next)

-----------------------------------------------------------------------------
(* Properties *)

States == {"queued", "waiting", "asking", "cut", "seen", "failed", "leaf", "boundary",
           "expanded"}

\* The count is that of the nodes below the root.
TypeOK ==
  /\ calls \in Hierarchies
  /\ nodes \subseteq Seq(Symbols)
  /\ state \in [nodes -> States]
  /\ visited \subseteq Symbols
  /\ count = Cardinality(nodes) - 1

\* Nodes whose symbol was asked for, or will be as soon as the semaphore allows.
Asked == {n \in nodes :
            state[n] \in {"waiting", "asking", "failed", "leaf", "boundary", "expanded"}}

\* The server is asked once about each symbol, however many paths lead to it and in
\* whatever order their answers come: cycles end, and nothing is fetched twice.
AskedOnce == \A m, n \in Asked : Symbol(m) = Symbol(n) => m = n

\* The walk hides nothing silently: whatever the server would answer for a node of
\* the finished tree is shown somewhere in it, or a node of the same symbol says
\* has_more, or its query failed.
NothingIsHidden ==
  Done => \A n \in nodes :
    \/ calls[Symbol(n)] \subseteq {Symbol(m) : m \in nodes}
    \/ \E m \in nodes : /\ Symbol(m) = Symbol(n)
                        /\ state[m] \in {"boundary", "cut", "failed"}

\* The walk ends, also when more tasks want the semaphore than it admits.
WalkEnds == <>Done
=============================================================================
