--------------------------- MODULE TreeWalkProofs ---------------------------
(***************************************************************************)
(* Proofs about TreeWalk, for every hierarchy, depth and budget and any    *)
(* number of concurrent queries: the walk asks once about each symbol and  *)
(* hides nothing silently.                                                 *)
(***************************************************************************)
EXTENDS TreeWalk, FiniteSetTheorems, TLAPS

\* The part of TypeOK without the count.
Typed ==
  /\ calls \in [Symbols -> SUBSET Symbols]
  /\ nodes \subseteq Seq(Symbols) \ {<<>>}
  /\ state \in [nodes -> States]
  /\ visited \subseteq Symbols

\* A symbol is marked exactly when a node of it was asked for.
VisitedIsAsked ==
  /\ \A n \in Asked : Symbol(n) \in visited
  /\ \A s \in visited : \E n \in Asked : Symbol(n) = s

\* What the terminal states of a node say.
SeenIsVisited == \A n \in nodes : state[n] = "seen" => Symbol(n) \in visited
LeafIsBare == \A n \in nodes : state[n] = "leaf" => calls[Symbol(n)] = {}
ExpandedIsShown ==
  \A n \in nodes : state[n] = "expanded" => Children(n) \subseteq nodes

\* Only an expanded node has nodes below it.
Parented ==
  \A n \in Seq(Symbols) \ {<<>>}, s \in Symbols :
    Append(n, s) \in nodes => n \in nodes /\ state[n] = "expanded"

IInv == /\ Parented /\ Typed /\ AskedOnce /\ VisitedIsAsked
        /\ SeenIsVisited /\ LeafIsBare /\ ExpandedIsShown

LEMMA SymbolType == ASSUME Typed, NEW n \in nodes PROVE Symbol(n) \in Symbols
BY DEF Typed, Symbol

\* The root is queued and nothing visited.
LEMMA InitIInv == Init => IInv
<1> SUFFICES ASSUME Init PROVE IInv
  OBVIOUS
<1>1. <<Root>> \in Seq(Symbols) \ {<<>>}
  BY RootAssumption
<1>2. Typed
  BY <1>1, HierarchiesAssumption DEF Init, Typed, States
<1>3. Asked = {}
  BY DEF Init, Asked
<1>4. Parented
  <2> SUFFICES ASSUME NEW n \in Seq(Symbols) \ {<<>>}, NEW s \in Symbols,
                      Append(n, s) \in nodes
               PROVE  FALSE
    BY DEF Parented
  <2>1. Len(Append(n, s)) = Len(n) + 1 /\ Len(n) \in Nat \ {0} /\ Len(<<Root>>) = 1
    OBVIOUS
  <2>2. QED
    BY <2>1 DEF Init
<1>5. QED
  BY <1>2, <1>3, <1>4 DEF Init, IInv, AskedOnce, VisitedIsAsked, SeenIsVisited, LeafIsBare,
     ExpandedIsShown

\* A step that changes the state of one node and nothing else, from one that was
\* asked for to another, or from one that was not to another.
LEMMA OneNodeStep ==
  ASSUME IInv, NEW n \in nodes, NEW s \in States, Becomes(n, s),
         UNCHANGED <<calls, nodes, visited>>,
         n \in Asked <=> s \in {"waiting", "asking", "failed", "leaf", "boundary",
                                "expanded"},
         s = "seen" => Symbol(n) \in visited,
         s = "leaf" => calls[Symbol(n)] = {},
         state[n] # "expanded", s # "expanded"
  PROVE  IInv'
<1> USE DEF IInv
<1>1. Typed'
  BY DEF Becomes, Typed
<1>2. Asked' = Asked /\ \A m \in nodes \ {n} : state'[m] = state[m]
  BY DEF Becomes, Typed, Asked
<1>3. \A m : Symbol(m)' = Symbol(m) /\ Children(m)' = Children(m)
  BY DEF Symbol, Children
<1>4. AskedOnce' /\ VisitedIsAsked'
  BY <1>2, <1>3 DEF AskedOnce, VisitedIsAsked
<1>5. state'[n] = s
  BY DEF Becomes, Typed
<1>6. SeenIsVisited' /\ LeafIsBare' /\ ExpandedIsShown'
  BY <1>2, <1>3, <1>5 DEF SeenIsVisited, LeafIsBare, ExpandedIsShown
<1>7. Parented'
  BY <1>2 DEF Parented
<1>8. QED
  BY <1>1, <1>4, <1>6, <1>7

\* The one step that begins to ask: the symbol was not visited.
LEMMA VisitStep == ASSUME IInv, NEW n \in nodes, Visit(n) PROVE IInv'
<1> USE DEF IInv
<1>1. /\ Typed' /\ state'[n] = "waiting" /\ UNCHANGED <<calls, nodes>>
      /\ \A m \in nodes \ {n} : state'[m] = state[m]
      /\ visited' = visited \cup {Symbol(n)}
  BY SymbolType DEF Visit, Marked, Becomes, Typed, States
<1>2. \A m : Symbol(m)' = Symbol(m) /\ Children(m)' = Children(m)
  BY <1>1 DEF Symbol, Children
<1>3. Asked' = Asked \cup {n} /\ n \notin Asked
  BY <1>1 DEF Asked, Visit
<1>4. \A m \in Asked : Symbol(m) # Symbol(n)
  BY DEF VisitedIsAsked, Visit
<1>5. AskedOnce' /\ VisitedIsAsked'
  BY <1>1, <1>2, <1>3, <1>4 DEF AskedOnce, VisitedIsAsked
<1>6. SeenIsVisited' /\ LeafIsBare' /\ ExpandedIsShown'
  BY <1>1, <1>2 DEF SeenIsVisited, LeafIsBare, ExpandedIsShown
<1>7. Parented'
  BY <1>1 DEF Parented, Visit
<1>8. QED
  BY <1>1, <1>5, <1>6, <1>7

\* A child is longer than its parent, and ends in the callee.
LEMMA ChildType ==
  ASSUME Typed, NEW n \in nodes, NEW s \in calls[Symbol(n)]
  PROVE  /\ Append(n, s) \in Seq(Symbols) \ {<<>>}
         /\ Symbol(Append(n, s)) = s
<1>1. n \in Seq(Symbols) /\ s \in Symbols
  BY SymbolType DEF Typed
<1>2. QED
  BY <1>1 DEF Symbol

\* Paths end in one way.
LEMMA AppendOnce ==
  ASSUME NEW m \in Seq(Symbols), NEW n \in Seq(Symbols), NEW s \in Symbols,
         NEW t \in Symbols, Append(m, t) = Append(n, s)
  PROVE  m = n /\ t = s
<1>1. Len(m) + 1 = Len(n) + 1 /\ Len(m) \in Nat /\ Len(n) \in Nat
  BY Len(Append(m, t)) = Len(m) + 1, Len(Append(n, s)) = Len(n) + 1
<1>2. Len(m) = Len(n)
  BY <1>1
<1>3. \A i \in 1..Len(m) : m[i] = n[i]
  <2> TAKE i \in 1..Len(m)
  <2>1. Append(m, t)[i] = m[i] /\ Append(n, s)[i] = n[i]
    BY <1>2
  <2>2. QED
    BY <2>1
<1>4. t = s
  BY <1>2, Append(m, t)[Len(m) + 1] = t, Append(n, s)[Len(n) + 1] = s
<1>5. QED
  BY <1>2, <1>3, <1>4

\* The children of a node being expanded are new to the tree.
LEMMA ChildIsNew ==
  ASSUME IInv, NEW n \in nodes, state[n] # "expanded"
  PROVE  Children(n) \cap nodes = {}
<1> SUFFICES ASSUME NEW s \in calls[Symbol(n)], Append(n, s) \in nodes PROVE FALSE
  BY DEF Children
<1>1. s \in Symbols /\ n \in Seq(Symbols) \ {<<>>}
  BY SymbolType DEF IInv, Typed
<1>2. QED
  BY <1>1 DEF IInv, Parented

LEMMA ExpandStep == ASSUME IInv, NEW n \in nodes, Expand(n) PROVE IInv'
<1> USE DEF IInv
<1>1. Children(n) \cap nodes = {} /\ state[n] = "asking"
  BY ChildIsNew DEF Expand
<1>2. \A m \in Children(n) : /\ m \in Seq(Symbols) \ {<<>>}
                             /\ Symbol(m) \in calls[Symbol(n)]
                             /\ \E s \in Symbols : m = Append(n, s)
  BY ChildType, SymbolType DEF Children, Typed
<1>3. /\ nodes' = nodes \cup Children(n) /\ UNCHANGED <<calls, visited>>
      /\ state'[n] = "expanded"
      /\ \A m \in nodes \ {n} : state'[m] = state[m]
      /\ \A m \in Children(n) : \/ state'[m] = "queued"
                                \/ state'[m] = "seen" /\ Symbol(m) \in visited
  BY <1>1 DEF Expand
<1>4. Typed'
  <2>1. nodes' \subseteq Seq(Symbols) \ {<<>>}
    BY <1>2, <1>3 DEF Typed
  <2>2. state' \in [nodes' -> States]
    BY <1>3 DEF Expand, Typed, States
  <2>3. QED
    BY <1>3, <2>1, <2>2 DEF Typed
<1>5. \A m : Symbol(m)' = Symbol(m) /\ Children(m)' = Children(m)
  BY <1>3 DEF Symbol, Children
<1>6. Asked' = Asked
  BY <1>1, <1>3 DEF Asked
<1>7. AskedOnce' /\ VisitedIsAsked'
  BY <1>3, <1>5, <1>6 DEF AskedOnce, VisitedIsAsked
<1>8. SeenIsVisited'
  BY <1>3, <1>5 DEF SeenIsVisited
<1>9. LeafIsBare'
  BY <1>3, <1>5 DEF LeafIsBare
<1>10. ExpandedIsShown'
  BY <1>3, <1>5 DEF ExpandedIsShown
<1>11. Parented'
  <2> SUFFICES ASSUME NEW m \in Seq(Symbols) \ {<<>>}, NEW t \in Symbols,
                      Append(m, t) \in nodes'
               PROVE  m \in nodes' /\ state'[m] = "expanded"
    BY DEF Parented
  <2>1. CASE Append(m, t) \in nodes
    <3>1. m \in nodes /\ state[m] = "expanded"
      BY <2>1 DEF Parented
    <3>2. QED
      BY <1>1, <1>3, <3>1
  <2>2. CASE Append(m, t) \in Children(n)
    <3>1. PICK s \in Symbols : Append(m, t) = Append(n, s)
      BY <1>2, <2>2
    <3>2. m = n
      BY <3>1, AppendOnce DEF Typed
    <3>3. QED
      BY <1>3, <3>2
  <2>3. QED
    BY <1>3, <2>1, <2>2
<1>12. QED
  BY <1>4, <1>7, <1>8, <1>9, <1>10, <1>11

LEMMA NextIInv == IInv /\ [Next]_vars => IInv'
<1> SUFFICES ASSUME IInv, [Next]_vars PROVE IInv'
  OBVIOUS
<1>1. ASSUME NEW n \in nodes, Cut(n) PROVE IInv'
  BY <1>1, OneNodeStep DEF Cut, Asked, States
<1>2. ASSUME NEW n \in nodes, Seen(n) PROVE IInv'
  BY <1>2, OneNodeStep DEF Seen, Asked, States
<1>3. ASSUME NEW n \in nodes, Acquire(n) PROVE IInv'
  BY <1>3, OneNodeStep DEF Acquire, Asked, States
<1>4. ASSUME NEW n \in nodes, Fail(n) PROVE IInv'
  BY <1>4, OneNodeStep DEF Fail, Asked, States
<1>5. ASSUME NEW n \in nodes, Leaf(n) PROVE IInv'
  BY <1>5, OneNodeStep DEF Leaf, Asked, States
<1>6. ASSUME NEW n \in nodes, Peek(n) PROVE IInv'
  BY <1>6, OneNodeStep DEF Peek, Boundary, Asked, States
<1>7. CASE UNCHANGED vars
  BY <1>7 DEF vars, IInv, Typed, AskedOnce, VisitedIsAsked, SeenIsVisited, LeafIsBare,
     ExpandedIsShown, Parented, Asked, Symbol, Children
<1>8. QED
  BY <1>1, <1>2, <1>3, <1>4, <1>5, <1>6, <1>7, VisitStep, ExpandStep
     DEF Next, Begin, Answer

\* The server is asked once about each symbol of the hierarchy, whatever the order of
\* the answers (visited.add before the first await of _walk_tree).
THEOREM WalkAsksOnce == Spec => []AskedOnce
<1>1. IInv => AskedOnce
  BY DEF IInv
<1>2. QED
  BY InitIInv, NextIInv, <1>1, PTL DEF Spec

LEMMA HidesNothing == IInv => NothingIsHidden
<1> SUFFICES ASSUME IInv, Done, NEW n \in nodes
             PROVE  \/ calls[Symbol(n)] \subseteq {Symbol(m) : m \in nodes}
                    \/ \E m \in nodes : /\ Symbol(m) = Symbol(n)
                                        /\ state[m] \in {"boundary", "cut", "failed"}
  BY DEF NothingIsHidden
<1> USE DEF IInv
<1>1. \A m \in nodes : state[m] \in {"cut", "seen", "failed", "leaf", "boundary",
                                     "expanded"}
  BY DEF Done, Tasks, Typed, States
<1>2. ASSUME NEW m \in nodes, state[m] = "expanded"
      PROVE  calls[Symbol(m)] \subseteq {Symbol(k) : k \in nodes}
  <2> SUFFICES ASSUME NEW s \in calls[Symbol(m)] PROVE \E k \in nodes : Symbol(k) = s
    OBVIOUS
  <2>1. Append(m, s) \in nodes /\ Symbol(Append(m, s)) = s
    BY <1>2, ChildType DEF ExpandedIsShown, Children
  <2>2. QED
    BY <2>1
<1>3. ASSUME NEW m \in nodes, state[m] = "leaf" PROVE calls[Symbol(m)] = {}
  BY <1>3 DEF LeafIsBare
<1>4. CASE state[n] = "seen"
  <2>1. PICK m \in Asked : Symbol(m) = Symbol(n)
    BY <1>4 DEF SeenIsVisited, VisitedIsAsked
  <2>2. m \in nodes /\ state[m] \in {"failed", "leaf", "boundary", "expanded"}
    BY <1>1 DEF Asked
  <2>3. QED
    BY <1>2, <1>3, <2>1, <2>2
<1>5. CASE state[n] # "seen"
  BY <1>1, <1>2, <1>3, <1>5
<1>6. QED
  BY <1>4, <1>5

\* What a finished tree does not show, a node of it accounts for.
THEOREM WalkHidesNothing == Spec => []NothingIsHidden
BY InitIInv, NextIInv, HidesNothing, PTL DEF Spec

-----------------------------------------------------------------------------
(* The count *)

\* node_count is what the tree has below its root, however its tasks interleave.
CountIsExact ==
  /\ calls \in Hierarchies
  /\ IsFiniteSet(nodes) /\ count = Cardinality(nodes) - 1

\* The children of a node are finitely many.
LEMMA ChildrenFinite ==
  ASSUME IInv, NEW n \in nodes PROVE IsFiniteSet(Children(n))
<1>1. calls[Symbol(n)] \subseteq Symbols
  BY SymbolType DEF IInv, Typed
<1>2. IsFiniteSet(calls[Symbol(n)])
  BY <1>1, SymbolsAssumption, FS_Subset
<1> DEFINE child == [s \in calls[Symbol(n)] |-> Append(n, s)]
<1>3. child \in Surjection(calls[Symbol(n)], Children(n))
  BY DEF Surjection, Children
<1>4. QED
  BY <1>2, <1>3, FS_Surjection

LEMMA ExpandCounts ==
  ASSUME IInv, CountIsExact, NEW n \in nodes, Expand(n) PROVE CountIsExact'
<1>1. IsFiniteSet(Children(n)) /\ Children(n) \cap nodes = {}
  BY ChildrenFinite, ChildIsNew DEF Expand
<1>2. Cardinality(nodes) \in Nat /\ Cardinality(Children(n)) \in Nat
  BY <1>1, FS_CardinalityType DEF CountIsExact
<1>3. /\ IsFiniteSet(nodes \cup Children(n))
      /\ Cardinality(nodes \cup Children(n)) = Cardinality(nodes) + Cardinality(Children(n))
  BY <1>1, <1>2, FS_Union, FS_EmptySet DEF CountIsExact
<1>4. QED
  BY <1>2, <1>3 DEF CountIsExact, Expand, Counted

\* The tree, its hierarchy and its count keep their types: the count that the budget
\* is tested against is the number of nodes shown (node_count in _walk_tree).
THEOREM WalkTyped == Spec => []TypeOK
<1>1. Init => CountIsExact
  <2>1. IsFiniteSet({<<Root>>}) /\ Cardinality({<<Root>>}) = 1
    BY FS_Singleton
  <2>2. QED
    BY <2>1 DEF Init, CountIsExact
<1>2. IInv /\ CountIsExact /\ [Next]_vars => CountIsExact'
  <2> SUFFICES ASSUME IInv, CountIsExact, [Next]_vars PROVE CountIsExact'
    OBVIOUS
  <2>1. CASE UNCHANGED <<calls, nodes, count>>
    BY <2>1 DEF CountIsExact
  <2>2. CASE \E n \in nodes : Expand(n)
    BY <2>2, ExpandCounts
  <2>3. QED
    BY <2>1, <2>2 DEF Next, vars, Begin, Answer, Cut, Seen, Visit, Acquire, Fail, Leaf, Peek
<1>3. IInv /\ CountIsExact => TypeOK
  BY DEF IInv, CountIsExact, Typed, TypeOK
<1>4. QED
  BY <1>1, <1>2, <1>3, InitIInv, NextIInv, PTL DEF Spec
=============================================================================
