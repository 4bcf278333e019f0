--------------------------- MODULE PositionFallback ---------------------------
(***************************************************************************)
(* A positional query of a session (daemon.py): the file is opened, the     *)
(* server is asked about the position, and where clangd has nothing to say, *)
(* about the declarations and definitions of what is there.  Other sessions *)
(* open and edit files meanwhile, and the server may be stopped.            *)
(*                                                                         *)
(* An action is the code between two awaits: it takes the answer to the     *)
(* last question and asks the next one.                                     *)
(***************************************************************************)
EXTENDS Documents

CONSTANTS
  Positions,  \* positions in files
  In,         \* the file of each
  Servers     \* servers, which differ in what they know (Knowledge)

(***************************************************************************)
(* "single": definition, declaration, type definition, hover, symbols of a  *)
(* document, and a prepareTypeHierarchy of a proxy.                         *)
(* "query": implementations and references (_query_with_fallback).          *)
(* "hierarchy": calls and types of the MCP tools (_prepare_with_fallback).  *)
(* "prepare": prepareCallHierarchy of a proxy (_proxy_dispatch).            *)
(***************************************************************************)
Kinds == {"single", "query", "hierarchy", "prepare"}
Answers == {"hit", "empty", "error"}

\* needs: needs_position_fallback of the normalizer (clangd's).  declaration,
\* definition: where a lookup leads; one that fails leads nowhere.  item: what
\* preparing a hierarchy answers; found: what the query itself answers.
Knowledge == [needs : BOOLEAN,
              declaration : [Positions -> Seq(Positions)],
              definition : [Positions -> Seq(Positions)],
              item : [Positions -> Answers], found : [Positions -> Answers]]

ASSUME ServersAssumption == \A s \in DOMAIN Servers : Servers[s] \in Knowledge
ASSUME PositionsAssumption ==
  /\ In \in [Positions -> Files]
  /\ None \notin Positions \cup Kinds

VARIABLES
  server,     \* the server of the project
  kind, from, \* the query: its kind and position
  pc,         \* what it has asked, "idle" or "done"
  positions,  \* _resolve_positions so far, those met twice included
  next,       \* which of them the question is about
  opened,     \* its file was open when the question was sent
  result      \* the answer to the session

query == <<kind, from, pc, positions, next, opened, result>>
vars == <<documents, server, query>>

Knows == Servers[server]

Result == [tag : Answers \cup {"none"}, at : Positions \cup {None}]
Nothing == [tag |-> "none", at |-> None]
Failure == [tag |-> "error", at |-> None]
Empty == [tag |-> "empty", at |-> None]
Hit(p) == [tag |-> "hit", at |-> p]

Asking == {"item", "found", "declaration", "definition", "altItem", "altFound"}

Init ==
  /\ InitDocuments
  /\ server \in DOMAIN Servers
  /\ kind = None /\ from = None
  /\ pc = "idle" /\ positions = <<>> /\ next = 1 /\ opened = FALSE
  /\ result = Nothing

-----------------------------------------------------------------------------
(* Questions and answers *)

\* The request returns.
Finish(r) ==
  /\ pc' = "done" /\ result' = r
  /\ positions' = <<>> /\ next' = 1 /\ opened' = FALSE

\* Sends a question about one of some positions, behind the didOpen of the same
\* step, if any.
Ask(what, some, i) ==
  /\ pc' = what /\ result' = Nothing
  /\ positions' = some /\ next' = i
  /\ opened' = (In[some[i]] \in openFiles')

\* The server answers for files it was sent.  While it is being stopped it may
\* fail any question; once it is gone all fail.
Fails == client # "up" \/ ~opened
Succeeds == client # "stopped" /\ opened

Answer(known, a) ==
  \/ Fails /\ a = "error"
  \/ Succeeds /\ a = known[positions[next]]

\* Where a lookup leads: nowhere, if it raises.
Leads(lookup, found) ==
  \/ Fails /\ found = <<>>
  \/ Succeeds /\ found = lookup[positions[next]]

\* What the server knows that the question is about.
Table == IF pc \in {"item", "altItem"} THEN Knows.item ELSE Knows.found

Opens(S) == EnsureOpen(S) /\ Quiet /\ UNCHANGED <<disk, client, diagnosed, server>>
OpensNothing == Quiet /\ UNCHANGED <<disk, client, openFiles, sent, diagnosed, server>>
SameQuery == UNCHANGED <<kind, from>>

\* What a query of some kind asks about a position first.
First(k) == IF k \in {"hierarchy", "prepare"} THEN "item" ELSE "found"

-----------------------------------------------------------------------------
(* The original position *)

\* A file that cannot be opened fails the request.
Call(k, p) ==
  /\ pc \in {"idle", "done"}
  /\ Opens({In[p]})
  /\ kind' = k /\ from' = p
  /\ \/ In[p] \in openFiles' /\ Ask(First(k), <<p>>, 1)
     \/ In[p] \notin openFiles' /\ Finish(Failure)

Fail ==
  /\ pc \in {"item", "found"}
  /\ OpensNothing /\ SameQuery
  /\ Answer(Table, "error")
  /\ Finish(Failure)

\* Preparing an item is all that a proxy asks for; a tool goes on to the query.
ItemPrepared ==
  /\ pc = "item" /\ Answer(Knows.item, "hit")
  /\ OpensNothing /\ SameQuery
  /\ IF kind = "prepare" THEN Finish(Hit(from)) ELSE Ask("found", positions, 1)

QueryAnswered ==
  /\ pc = "found" /\ Answer(Knows.found, "hit")
  /\ OpensNothing /\ SameQuery
  /\ Finish(Hit(from))

\* An empty answer to what leads to other positions: with clangd, except where
\* a tool cannot prepare an item.
FallsBack(k, what) ==
  /\ Knows.needs /\ k # "single"
  /\ k = "hierarchy" => what = "found"

OriginalEmpty ==
  /\ pc \in {"item", "found"} /\ Answer(Table, "empty")
  /\ OpensNothing /\ SameQuery
  /\ IF FallsBack(kind, pc) THEN Ask("declaration", positions, 1) ELSE Finish(Empty)

-----------------------------------------------------------------------------
(* The other positions *)

\* Mutants: the search stops at a position met before, or does not advance.
OnlyNext(some, i) ==
  {j \in {i + 1} \cap DOMAIN some : some[j] \notin {some[l] : l \in 1..i}}
NotAdvanced(some, i) ==
  {j \in DOMAIN some : j >= i /\ some[j] \notin {some[l] : l \in 1..(i - 1)}}

\* The positions that are left after the i-th: _resolve_positions drops one that it
\* has met before.
Left(some, i) ==
  {j \in DOMAIN some : j > i /\ some[j] \notin {some[l] : l \in 1..i}}

\* Asks about the next position, or returns the empty answer of the original.
Proceed(some, i) ==
  \/ /\ Left(some, i) = {}
     /\ Finish(Empty)
  \/ \E j \in Left(some, i) :
       /\ \A l \in Left(some, i) : j <= l
       /\ Ask(IF kind = "query" THEN "altFound" ELSE "altItem", some, j)

Declared ==
  /\ pc = "declaration"
  /\ OpensNothing /\ SameQuery
  /\ \E found \in {<<>>, Knows.declaration[from]} :
       Leads(Knows.declaration, found) /\ Ask("definition", positions \o found, 1)

\* Mutant: no file is opened for the other positions.
FilesOfNone(some) == {}

FilesOf(some) == {In[some[i]] : i \in 2..Len(some)}

\* The files are opened, those that cannot be are asked about all the same.
Defined ==
  /\ pc = "definition"
  /\ \E found \in {<<>>, Knows.definition[from]} :
       LET some == positions \o found IN
       /\ Leads(Knows.definition, found)
       /\ Opens(FilesOf(some))
       /\ Proceed(some, 1)
  /\ SameQuery

AltPrepared ==
  /\ pc = "altItem" /\ Answer(Knows.item, "hit")
  /\ OpensNothing /\ SameQuery
  /\ IF kind = "prepare" THEN Finish(Hit(positions[next]))
     ELSE Ask("altFound", positions, next)

AltAnswered ==
  /\ pc = "altFound" /\ Answer(Knows.found, "hit")
  /\ OpensNothing /\ SameQuery
  /\ Finish(Hit(positions[next]))

\* The answers that a position is passed over for.
PassedOver == {"empty", "error"}

\* An exception is skipped like an empty answer, also one that says the server is
\* gone.
AltSkipped ==
  /\ pc \in {"altItem", "altFound"}
  /\ OpensNothing /\ SameQuery
  /\ \E a \in PassedOver : Answer(Table, a)
  /\ Proceed(positions, next)

-----------------------------------------------------------------------------
Resume == \/ Fail \/ ItemPrepared \/ QueryAnswered \/ OriginalEmpty
          \/ Declared \/ Defined \/ AltPrepared \/ AltAnswered \/ AltSkipped
Others == DocumentStep /\ UNCHANGED <<server, query>>

Next == Resume \/ Others \/ \E k \in Kinds, p \in Positions : Call(k, p)

Spec == Init /\ [][Next]_vars

\* Every question is answered, or ended by the request timeout or by stop().
FairSpec == Spec /\ WF_vars(Resume)

-----------------------------------------------------------------------------
(* Properties *)

TypeOK ==
  /\ DocumentsTypeOK
  /\ server \in DOMAIN Servers
  /\ kind \in Kinds \cup {None} /\ from \in Positions \cup {None}
  /\ pc # "idle" => kind # None /\ from # None
  /\ pc \in Asking \cup {"idle", "done"}
  /\ positions \in Seq(Positions) /\ next \in Nat \ {0}
  /\ pc \in Asking => next \in DOMAIN positions
  /\ opened \in BOOLEAN
  /\ result \in Result

\* Every position is asked about with its file open at the server, wherever the
\* position came from, except where the file cannot be read.
AskedWhereOpen ==
  pc \in Asking /\ client = "up" =>
    opened \/ disk[In[positions[next]]] = None

\* What the query would answer for a position alone.
Has(p) == /\ kind \in {"hierarchy", "prepare"} => Knows.item[p] = "hit"
          /\ kind # "prepare" => Knows.found[p] = "hit"

\* The answer of the server to the questions about the original position.
Original ==
  IF kind \in {"hierarchy", "prepare"} /\ Knows.item[from] # "hit" THEN Knows.item[from]
  ELSE IF kind = "prepare" THEN "hit" ELSE Knows.found[from]

\* The positions that the docstrings of the fallback name, in their order.
Reference ==
  IF /\ Knows.needs /\ kind # "single"
     /\ kind = "hierarchy" => Knows.item[from] = "hit"
  THEN <<from>> \o Knows.declaration[from] \o Knows.definition[from] ELSE <<from>>

Ignored(p) == ~Has(p) \/ disk[In[p]] = None

\* A query is answered from the first position that has an answer, of the
\* original, its declarations and its definitions; a position is passed over only
\* when it has none or its file cannot be read; and the original's failure is
\* reported as one.
AnsweredFromFirst ==
  pc = "done" /\ client = "up" =>
    \/ /\ result = Failure
       /\ disk[In[from]] = None \/ Original = "error"
    \/ /\ Original # "error"
       /\ \/ /\ result = Empty
             /\ \A i \in DOMAIN Reference : Ignored(Reference[i])
          \/ \E i \in DOMAIN Reference :
               /\ result = Hit(Reference[i]) /\ Has(Reference[i])
               /\ \A j \in 1..(i - 1) : Ignored(Reference[j])

\* A query ends, whatever the server answers and whenever it is stopped.
QueriesEnd == pc \in Asking ~> pc = "done"
=============================================================================
