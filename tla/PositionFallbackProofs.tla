------------------------ MODULE PositionFallbackProofs ------------------------
(***************************************************************************)
(* Proofs about PositionFallback, for any files, positions and servers:    *)
(* what is opened, what is asked, and what a query is answered from.       *)
(***************************************************************************)
EXTENDS PositionFallback, TLAPS

Alternates == {"altItem", "altFound"}

\* What a query of the kind may be asking, and what led it there.
AskedInTurn ==
  /\ pc = "item" => kind \in {"hierarchy", "prepare"}
  /\ pc = "found" => /\ kind \in {"single", "query", "hierarchy"}
                     /\ kind = "hierarchy" => Knows.item[from] = "hit"
  /\ pc \in {"declaration", "definition"} \cup Alternates =>
       /\ Knows.needs /\ kind # "single" /\ Original = "empty"
       /\ kind = "hierarchy" => Knows.item[from] = "hit"
  /\ pc = "altItem" => kind # "query"
  /\ pc = "altFound" => /\ kind # "prepare"
                        /\ kind = "hierarchy" => Knows.item[positions[next]] = "hit"

\* How far the positions have been resolved.
PositionsResolved ==
  /\ pc \in {"item", "found", "declaration"} => positions = <<from>> /\ next = 1
  /\ pc = "definition" => /\ positions = <<from>> \o Knows.declaration[from]
                          /\ next = 1
  /\ pc \in Alternates => positions = Reference

\* The files of the positions were opened, where they could be.
FilesOpened ==
  /\ pc \in Asking => In[from] \in openFiles
  /\ pc \in Asking \ Alternates => opened
  /\ pc \in Alternates =>
       \A i \in DOMAIN positions :
         In[positions[i]] \in openFiles \/ disk[In[positions[i]]] = None

\* The positions before the one asked about had no answer.
PassedOnes ==
  pc \in Alternates => \A j \in 1..(next - 1) : Ignored(positions[j])

\* The search for an answer, while the server is up.
Searching ==
  client = "up" =>
    AskedInTurn /\ PositionsResolved /\ FilesOpened /\ PassedOnes

IInv == TypeOK /\ OpenedOnce /\ AskedWhereOpen /\ AnsweredFromFirst /\ Searching
-----------------------------------------------------------------------------
(* Documents *)

\* ensure_file_open keeps the books of what is open.
LEMMA EnsureOpenKeeps ==
  ASSUME NEW S \in SUBSET Files, DocumentsTypeOK, OpenedOnce, EnsureOpen(S),
         UNCHANGED <<disk, client, diagnosed>>, told' \in Told \cup {None}
  PROVE  DocumentsTypeOK' /\ OpenedOnce' /\ openFiles \subseteq openFiles'
<1> DEFINE T == Openable(S)
<1>1. /\ T \subseteq Files \ openFiles
      /\ \A f \in T : disk[f] \in Texts /\ client # "stopped"
  BY DEF Openable, DocumentsTypeOK, Texts
<1>2. /\ openFiles' = openFiles \cup T
      /\ sent' = [f \in Files |-> IF f \in T THEN Append(sent[f], disk[f]) ELSE sent[f]]
  BY DEF EnsureOpen, Open
<1>3. \A f \in T : sent[f] = <<>>
  BY <1>1 DEF OpenedOnce
<1>4. \A f \in T : sent'[f] \in Seq(Texts) /\ Len(sent'[f]) = 1 /\ sent'[f] # <<>>
  BY <1>1, <1>2, <1>3 DEF DocumentsTypeOK
<1>5. \A f \in Files \ T : sent'[f] = sent[f]
  BY <1>2
<1> HIDE DEF T
<1>6. DocumentsTypeOK'
  BY <1>1, <1>2, <1>4, <1>5 DEF DocumentsTypeOK
<1>7. OpenedOnce'
  BY <1>1, <1>2, <1>4, <1>5 DEF OpenedOnce, DocumentsTypeOK
<1>8. QED
  BY <1>2, <1>6, <1>7

\* So do the steps of others.
LEMMA DocumentStepKeeps ==
  ASSUME DocumentsTypeOK, OpenedOnce, DocumentStep
  PROVE  /\ DocumentsTypeOK' /\ OpenedOnce'
         /\ client' = "up" => client = "up" /\ openFiles \subseteq openFiles'
         /\ \A f \in Files : disk'[f] = None <=> disk[f] = None
<1>1. ASSUME NEW f \in Files, ProxyDidOpen(f)
      PROVE  /\ DocumentsTypeOK' /\ OpenedOnce'
             /\ client' = client /\ disk' = disk /\ openFiles \subseteq openFiles'
  <2>1. sent[f] = <<>> /\ Buffer \in Texts
    BY <1>1 DEF ProxyDidOpen, OpenedOnce, Texts
  <2>2. /\ sent'[f] \in Seq(Texts) /\ Len(sent'[f]) = 1 /\ sent'[f] # <<>>
        /\ \A g \in Files \ {f} : sent'[g] = sent[g]
        /\ sent' \in [Files -> Seq(Texts)]
    BY <1>1, <2>1 DEF ProxyDidOpen, DocumentsTypeOK
  <2>3. DocumentsTypeOK'
    BY <1>1, <2>2 DEF ProxyDidOpen, DocumentsTypeOK, Quiet
  <2>4. OpenedOnce'
    BY <1>1, <2>2 DEF ProxyDidOpen, OpenedOnce, DocumentsTypeOK
  <2>5. QED
    BY <1>1, <2>3, <2>4 DEF ProxyDidOpen
<1>2. ASSUME NEW f \in Files, OtherOpens(f)
      PROVE  /\ DocumentsTypeOK' /\ OpenedOnce'
             /\ client' = client /\ disk' = disk /\ openFiles \subseteq openFiles'
  BY <1>2, EnsureOpenKeeps, {f} \in SUBSET Files DEF OtherOpens, Quiet
<1>3. ASSUME NEW f \in Files, Publish(f)
      PROVE  /\ DocumentsTypeOK' /\ OpenedOnce'
             /\ client' = client /\ disk' = disk /\ openFiles \subseteq openFiles'
  <2>1. sent[f][Len(sent[f])] \in Texts
    BY <1>3 DEF Publish, DocumentsTypeOK
  <2>2. DocumentsTypeOK'
    BY <1>3, <2>1 DEF Publish, DocumentsTypeOK, Quiet
  <2>3. QED
    BY <1>3, <2>2 DEF Publish, OpenedOnce
<1>4. ASSUME NEW f \in Files, ReadDiagnostics(f)
      PROVE  /\ DocumentsTypeOK' /\ OpenedOnce'
             /\ client' = client /\ disk' = disk /\ openFiles \subseteq openFiles'
  <2>1. told' \in Told
    BY <1>4 DEF ReadDiagnostics, DocumentsTypeOK, Told
  <2>2. QED
    BY <1>4, <2>1, EnsureOpenKeeps, {f} \in SUBSET Files DEF ReadDiagnostics
<1>5. ASSUME NEW f \in Files, Edit(f)
      PROVE  /\ DocumentsTypeOK' /\ OpenedOnce'
             /\ client' = client /\ openFiles' = openFiles
             /\ \A g \in Files : disk'[g] = None <=> disk[g] = None
  <2>1. disk[f] + 1 \in Versions
    BY <1>5, VersionAssumption DEF Edit, DocumentsTypeOK, Versions
  <2>2. disk[f] + 1 # None
    BY <2>1, NoneAssumption DEF Texts
  <2>3. DocumentsTypeOK'
    BY <1>5, <2>1 DEF Edit, DocumentsTypeOK, Quiet
  <2>4. QED
    BY <1>5, <2>2, <2>3 DEF Edit, OpenedOnce, DocumentsTypeOK
<1>6. CASE StopBegins
  BY <1>6 DEF StopBegins, DocumentsTypeOK, OpenedOnce, Quiet
<1>7. CASE StopEnds
  BY <1>7 DEF StopEnds, DocumentsTypeOK, OpenedOnce, Quiet
<1>8. QED
  BY <1>1, <1>2, <1>3, <1>4, <1>5, <1>6, <1>7 DEF DocumentStep
-----------------------------------------------------------------------------
(* Others *)

\* Nothing that others do to the documents takes an answer back.
LEMMA OthersKeep == ASSUME IInv, Others PROVE IInv'
<1>1. /\ DocumentsTypeOK' /\ OpenedOnce'
      /\ client' = "up" => client = "up" /\ openFiles \subseteq openFiles'
      /\ \A f \in Files : disk'[f] = None <=> disk[f] = None
  BY DocumentStepKeeps DEF IInv, TypeOK, Others
<1>2. /\ server' = server /\ kind' = kind /\ from' = from /\ pc' = pc
      /\ positions' = positions /\ next' = next /\ opened' = opened /\ result' = result
  BY DEF Others, query
<1>3. TypeOK'
  BY <1>1, <1>2 DEF IInv, TypeOK
<1>4. /\ Knows' = Knows /\ Reference' = Reference /\ Original' = Original
      /\ \A p \in Positions : Has(p)' <=> Has(p)
  BY <1>2 DEF Knows, Reference, Original, Has
<1>5. \A p \in Positions : Ignored(p)' <=> Ignored(p)
  BY <1>1, <1>4, PositionsAssumption DEF Ignored
<1>6. /\ pc # "idle" => Reference \in Seq(Positions) /\ from \in Positions
      /\ positions \in Seq(Positions)
  <2>1. Knows \in Knowledge
    BY ServersAssumption DEF Knows, IInv, TypeOK
  <2>2. QED
    BY <2>1 DEF IInv, TypeOK, Reference, Knowledge
<1>7. AskedWhereOpen'
  BY <1>1, <1>2, PositionsAssumption DEF IInv, TypeOK, AskedWhereOpen
<1>8. AnsweredFromFirst'
  <2> SUFFICES ASSUME pc = "done", client' = "up"
               PROVE  AnsweredFromFirst'
    BY <1>2 DEF AnsweredFromFirst
  <2>1. /\ Reference \in Seq(Positions) /\ from \in Positions
    BY <1>6 DEF IInv, TypeOK
  <2>2. disk'[In[from]] = None <=> disk[In[from]] = None
    BY <2>1, <1>1, PositionsAssumption
  <2>3. QED
    BY <1>1, <1>2, <1>4, <1>5, <2>1, <2>2 DEF IInv, AnsweredFromFirst
<1>9. Searching'
  <2> SUFFICES ASSUME client' = "up", Searching
               PROVE  Searching'
    BY DEF IInv, Searching
  <2>1. AskedInTurn' /\ PositionsResolved'
    BY <1>1, <1>2, <1>4 DEF Searching, AskedInTurn, PositionsResolved
  <2>2. FilesOpened'
    BY <1>1, <1>2, PositionsAssumption DEF Searching, FilesOpened, IInv, TypeOK
  <2>3. PassedOnes'
    BY <1>1, <1>2, <1>5 DEF Searching, PassedOnes, IInv, TypeOK, Asking, Alternates
  <2>4. QED
    BY <2>1, <2>2, <2>3 DEF Searching
<1>10. QED
  BY <1>1, <1>3, <1>7, <1>8, <1>9 DEF IInv

-----------------------------------------------------------------------------
(* The original position *)

LEMMA KnowsTyped == ASSUME TypeOK PROVE Knows \in Knowledge
BY ServersAssumption DEF Knows, TypeOK

\* What a question finds, while the server is up.
LEMMA AnswerOfUp ==
  ASSUME NEW known, NEW a, Answer(known, a), client = "up", opened
  PROVE  a = known[positions[next]]
BY DEF Answer, Fails, Succeeds

LEMMA NoPositions == <<>> \in Seq(Positions)
OBVIOUS

\* A step that returns a result to the session.
LEMMA FinishTyped ==
  ASSUME TypeOK, DocumentsTypeOK', server' = server, NEW r \in Result, Finish(r),
         kind' \in Kinds, from' \in Positions
  PROVE  TypeOK'
<1>1. /\ pc' = "done" /\ positions' = <<>> /\ next' = 1 /\ opened' = FALSE
      /\ result' = r
  BY DEF Finish
<1>2. kind' # None /\ from' # None
  BY PositionsAssumption
<1>3. /\ positions' \in Seq(Positions) /\ next' \in Nat \ {0}
      /\ pc' \in Asking \cup {"idle", "done"} /\ pc' \notin Asking
  BY <1>1, NoPositions DEF Asking
<1>4. QED
  BY <1>1, <1>2, <1>3 DEF TypeOK

\* A step that asks.
LEMMA AskTyped ==
  ASSUME TypeOK, DocumentsTypeOK', server' = server, NEW what \in Asking,
         NEW some \in Seq(Positions), NEW i \in DOMAIN some, Ask(what, some, i),
         kind' \in Kinds, from' \in Positions
  PROVE  TypeOK'
<1>1. /\ pc' = what /\ positions' = some /\ next' = i /\ opened' \in BOOLEAN
      /\ result' = Nothing
  BY DEF Ask
<1>2. kind' # None /\ from' # None
  BY PositionsAssumption
<1>3. Nothing \in Result
  BY DEF Nothing, Result
<1>4. QED
  BY <1>1, <1>2, <1>3 DEF TypeOK, Asking

LEMMA CallKeeps ==
  ASSUME IInv, NEW k \in Kinds, NEW p \in Positions, Call(k, p)
  PROVE  IInv'
<1>1. /\ DocumentsTypeOK' /\ OpenedOnce' /\ disk' = disk /\ client' = client
      /\ server' = server
  <2>1. {In[p]} \in SUBSET Files
    BY PositionsAssumption
  <2>2. QED
    BY <2>1, EnsureOpenKeeps DEF IInv, TypeOK, Call, Opens, Quiet
<1>2. kind' = k /\ from' = p
  BY DEF Call
<1>3. CASE In[p] \in openFiles' /\ Ask(First(k), <<p>>, 1)
  <2>1. /\ pc' = First(k) /\ positions' = <<p>> /\ next' = 1 /\ opened' = TRUE
        /\ result' = Nothing
    BY <1>3 DEF Ask
  <2>2. /\ pc' \in {"item", "found"}
        /\ pc' = "item" <=> k \in {"hierarchy", "prepare"}
    BY <2>1 DEF First
  <2>3. TypeOK'
    BY <1>1, <1>2, <2>1, <2>2, PositionsAssumption
    DEF IInv, TypeOK, Asking, Result, Nothing
  <2>4. AskedWhereOpen' /\ AnsweredFromFirst'
    BY <2>1, <2>2 DEF AskedWhereOpen, AnsweredFromFirst
  <2>5. Searching'
    BY <1>2, <1>3, <2>1, <2>2
    DEF Searching, AskedInTurn, PositionsResolved, FilesOpened, PassedOnes,
        Alternates, Asking, Kinds
  <2>6. QED
    BY <1>1, <2>3, <2>4, <2>5 DEF IInv
<1>4. CASE In[p] \notin openFiles' /\ Finish(Failure)
  <2>1. /\ pc' = "done" /\ positions' = <<>> /\ next' = 1 /\ opened' = FALSE
        /\ result' = Failure
    BY <1>4 DEF Finish
  <2>2. TypeOK'
    BY <1>1, <1>2, <1>4, FinishTyped DEF IInv, Result, Failure, Answers
  <2>3. client = "up" => disk[In[p]] = None
    BY <1>4, PositionsAssumption DEF Call, Opens, EnsureOpen, Open, Openable
  <2>4. AskedWhereOpen' /\ AnsweredFromFirst' /\ Searching'
    BY <1>1, <1>2, <2>1, <2>3
    DEF AskedWhereOpen, AnsweredFromFirst, Searching, AskedInTurn, PositionsResolved,
        FilesOpened, PassedOnes, Alternates, Asking
  <2>5. QED
    BY <1>1, <2>2, <2>4 DEF IInv
<1>5. QED
  BY <1>3, <1>4 DEF Call

\* What the steps of a query after its call have in common.
SameElsewhere ==
  /\ disk' = disk /\ client' = client /\ server' = server
  /\ kind' = kind /\ from' = from
  /\ openFiles \subseteq openFiles'
  /\ DocumentsTypeOK' /\ OpenedOnce'

LEMMA OpensNothingKeeps ==
  ASSUME IInv, OpensNothing, SameQuery
  PROVE  SameElsewhere
<1>1. /\ disk' = disk /\ client' = client /\ server' = server
      /\ openFiles' = openFiles /\ sent' = sent /\ diagnosed' = diagnosed
      /\ told' = None /\ kind' = kind /\ from' = from
  BY DEF OpensNothing, SameQuery, Quiet
<1>2. DocumentsTypeOK' /\ OpenedOnce'
  BY <1>1 DEF IInv, TypeOK, DocumentsTypeOK, OpenedOnce
<1>3. QED
  BY <1>1, <1>2 DEF SameElsewhere

LEMMA SameElsewhereKeeps ==
  ASSUME IInv, SameElsewhere, pc \in Asking
  PROVE  /\ kind \in Kinds /\ from \in Positions
         /\ Knows' = Knows /\ Reference' = Reference /\ Original' = Original
         /\ \A p \in Positions : Has(p)' = Has(p) /\ Ignored(p)' = Ignored(p)
<1>1. kind \in Kinds /\ from \in Positions
  BY DEF IInv, TypeOK, Asking
<1>2. /\ Knows' = Knows /\ Reference' = Reference /\ Original' = Original
      /\ \A p \in Positions : Has(p)' = Has(p) /\ Ignored(p)' = Ignored(p)
  BY DEF SameElsewhere, Knows, Reference, Original, Has, Ignored
<1>3. QED
  BY <1>1, <1>2

\* A result that the reference allows may be returned.
LEMMA FinishKeeps ==
  ASSUME IInv, SameElsewhere, pc \in Asking, NEW r \in Result, Finish(r),
         client = "up" =>
           \/ /\ r = Failure
              /\ disk[In[from]] = None \/ Original = "error"
           \/ /\ Original # "error"
              /\ \/ /\ r = Empty
                    /\ \A i \in DOMAIN Reference : Ignored(Reference[i])
                 \/ \E i \in DOMAIN Reference :
                      /\ r = Hit(Reference[i]) /\ Has(Reference[i])
                      /\ \A j \in 1..(i - 1) : Ignored(Reference[j])
  PROVE  IInv'
<1>1. /\ pc' = "done" /\ result' = r
  BY DEF Finish
<1>2. TypeOK' /\ OpenedOnce'
  BY SameElsewhereKeeps, FinishTyped DEF IInv, SameElsewhere
<1>3. AskedWhereOpen' /\ Searching'
  BY <1>1 DEF AskedWhereOpen, Searching, AskedInTurn, PositionsResolved, FilesOpened,
              PassedOnes, Alternates, Asking
<1>4. AnsweredFromFirst'
  <2>1. Knows \in Knowledge /\ from \in Positions
    BY KnowsTyped DEF IInv, TypeOK, Asking
  <2>2. Reference \in Seq(Positions)
    BY <2>1 DEF Reference, Knowledge
  <2>3. \A i \in DOMAIN Reference : /\ Reference[i] \in Positions
                                   /\ \A j \in 1..(i - 1) : j \in DOMAIN Reference
    BY <2>2
  <2>4. /\ disk' = disk /\ client' = client /\ from' = from
        /\ Reference' = Reference /\ Original' = Original
        /\ \A p \in Positions : Has(p)' = Has(p) /\ Ignored(p)' = Ignored(p)
    BY SameElsewhereKeeps DEF SameElsewhere
  <2>5. QED
    BY <1>1, <2>3, <2>4 DEF AnsweredFromFirst
<1>5. QED
  BY <1>2, <1>3, <1>4 DEF IInv

\* A sequence that begins with an element.
LEMMA Beginning ==
  \A S : \A a \in S : \A s, t \in Seq(S) :
    /\ <<a>> \o s \in Seq(S) /\ <<a>> \o s \o t \in Seq(S)
    /\ Len(<<a>> \o s) = Len(s) + 1
    /\ 1 \in DOMAIN (<<a>> \o s) /\ 1 \in DOMAIN (<<a>> \o s \o t)
    /\ (<<a>> \o s)[1] = a /\ (<<a>> \o s \o t)[1] = a
<1> TAKE S
<1> TAKE a \in S
<1> TAKE s, t \in Seq(S)
<1>1. /\ <<a>> \in Seq(S) /\ Len(<<a>>) = 1 /\ <<a>>[1] = a
      /\ Len(s) \in Nat /\ Len(t) \in Nat
  OBVIOUS
<1>2. /\ <<a>> \o s \in Seq(S) /\ Len(<<a>> \o s) = Len(s) + 1
      /\ (<<a>> \o s)[1] = a
  BY <1>1
<1> DEFINE u == <<a>> \o s
<1>3. u \in Seq(S) /\ Len(u) >= 1 /\ u[1] = a /\ 1 \in DOMAIN u
  BY <1>1, <1>2
<1> HIDE DEF u
<1>4. u \o t \in Seq(S) /\ 1 \in DOMAIN (u \o t) /\ (u \o t)[1] = a
  BY <1>1, <1>3
<1>5. QED
  BY <1>2, <1>3, <1>4 DEF u

LEMMA ReferenceFrom ==
  ASSUME TypeOK, from \in Positions
  PROVE  /\ Reference \in Seq(Positions) /\ 1 \in DOMAIN Reference
         /\ Reference[1] = from
<1>1. /\ Knows.declaration[from] \in Seq(Positions)
      /\ Knows.definition[from] \in Seq(Positions)
  BY KnowsTyped DEF Knowledge
<1>2. /\ <<from>> \in Seq(Positions) /\ 1 \in DOMAIN <<from>> /\ <<from>>[1] = from
  OBVIOUS
<1>3. \A s, t \in Seq(Positions) :
        /\ <<from>> \o s \o t \in Seq(Positions)
        /\ 1 \in DOMAIN (<<from>> \o s \o t) /\ (<<from>> \o s \o t)[1] = from
  BY Beginning
<1>4. \/ Reference = <<from>>
      \/ Reference = <<from>> \o Knows.declaration[from] \o Knows.definition[from]
  BY Zenon DEF Reference
<1>5. QED
  BY <1>1, <1>2, <1>3, <1>4

\* The question about the original position, while the server is up.
LEMMA AskingOriginal ==
  ASSUME IInv, pc \in {"item", "found"}, client = "up"
  PROVE  /\ opened /\ positions = <<from>> /\ next = 1 /\ positions[next] = from
         /\ \A a : Answer(Table, a) => a = Table[from]
         /\ Original = Table[from] \/ (pc = "item" /\ Table[from] = "hit")
<1>1. /\ opened /\ positions = <<from>> /\ next = 1 /\ positions[next] = from
  BY DEF IInv, Searching, FilesOpened, PositionsResolved, Alternates, Asking
<1>2. \A a : Answer(Table, a) => a = Table[from]
  BY <1>1, AnswerOfUp
<1>3. pc = "item" => Original = Table[from] \/ Table[from] = "hit"
  BY DEF IInv, Searching, AskedInTurn, Original, Table
<1>4. pc = "found" => Original = Table[from]
  BY DEF IInv, Searching, AskedInTurn, Original, Table
<1>5. QED
  BY <1>1, <1>2, <1>3, <1>4

LEMMA FailKeeps == ASSUME IInv, Fail PROVE IInv'
<1>1. Failure \in Result
  BY DEF Failure, Result, Answers
<1>2. client = "up" => Original = "error"
  BY AskingOriginal DEF Fail
<1>3. QED
  BY <1>1, <1>2, FinishKeeps, OpensNothingKeeps DEF Fail, Asking

LEMMA ItemPreparedKeeps == ASSUME IInv, ItemPrepared PROVE IInv'
<1>1. SameElsewhere /\ pc = "item" /\ pc \in Asking /\ Answer(Table, "hit")
  BY OpensNothingKeeps DEF ItemPrepared, Table, Asking
<1>2. from \in Positions /\ kind \in Kinds /\ positions \in Seq(Positions)
  BY <1>1 DEF IInv, TypeOK, Asking
<1>3. client = "up" => Knows.item[from] = "hit" /\ positions = <<from>> /\ next = 1
  BY <1>1, AskingOriginal DEF Table
<1>4. CASE kind = "prepare" /\ Finish(Hit(from))
  <2>1. Hit(from) \in Result
    BY <1>2 DEF Hit, Result, Answers
  <2>2. client = "up" => Has(from) /\ Original # "error"
    BY <1>3, <1>4 DEF Has, Original
  <2>3. QED
    BY <1>1, <1>2, <1>4, <2>1, <2>2, ReferenceFrom, FinishKeeps DEF IInv
<1>5. CASE kind # "prepare" /\ Ask("found", positions, 1)
  <2>1. /\ pc' = "found" /\ positions' = positions /\ next' = 1
        /\ opened' = (In[positions[1]] \in openFiles')
    BY <1>5 DEF Ask
  <2>2. 1 \in DOMAIN positions
    BY <1>1, <1>2 DEF IInv, TypeOK
  <2>3. TypeOK' /\ OpenedOnce'
    BY <1>1, <1>2, <1>5, <2>2, AskTyped DEF IInv, Asking, SameElsewhere
  <2>4. Searching'
    <3> SUFFICES ASSUME client' = "up"
                 PROVE  AskedInTurn' /\ PositionsResolved' /\ FilesOpened' /\ PassedOnes'
      BY DEF Searching
    <3>1. /\ client = "up" /\ kind' = kind /\ from' = from /\ Knows' = Knows
          /\ openFiles \subseteq openFiles'
      BY <1>1, SameElsewhereKeeps DEF SameElsewhere
    <3>2. AskedInTurn'
      BY <1>1, <1>2, <1>3, <1>5, <2>1, <3>1
      DEF IInv, Searching, AskedInTurn, Alternates, Kinds
    <3>3. PositionsResolved'
      BY <1>3, <2>1, <3>1 DEF PositionsResolved, Alternates
    <3>4. FilesOpened' /\ PassedOnes'
      BY <1>1, <1>3, <2>1, <3>1, AskingOriginal
      DEF IInv, Searching, FilesOpened, PassedOnes, Alternates, Asking
    <3>5. QED
      BY <3>2, <3>3, <3>4
  <2>5. AskedWhereOpen' /\ AnsweredFromFirst'
    BY <2>1, <2>4
    DEF AskedWhereOpen, AnsweredFromFirst, Searching, FilesOpened, Alternates, Asking
  <2>6. QED
    BY <2>3, <2>4, <2>5 DEF IInv
<1>6. QED
  BY <1>4, <1>5 DEF ItemPrepared

LEMMA QueryAnsweredKeeps == ASSUME IInv, QueryAnswered PROVE IInv'
<1>1. SameElsewhere /\ pc = "found" /\ pc \in Asking /\ Answer(Table, "hit")
  BY OpensNothingKeeps DEF QueryAnswered, Table, Asking
<1>2. from \in Positions /\ Hit(from) \in Result
  BY <1>1 DEF IInv, TypeOK, Asking, Hit, Result, Answers
<1>3. client = "up" => Has(from) /\ Original # "error"
  <2> SUFFICES ASSUME client = "up" PROVE Has(from) /\ Original # "error"
    OBVIOUS
  <2>1. Knows.found[from] = "hit" /\ Original = "hit"
    BY <1>1, AskingOriginal DEF Table
  <2>2. QED
    BY <1>1, <2>1 DEF Has, IInv, Searching, AskedInTurn
<1>4. QED
  BY <1>1, <1>2, <1>3, ReferenceFrom, FinishKeeps DEF QueryAnswered, IInv

LEMMA OriginalEmptyKeeps == ASSUME IInv, OriginalEmpty PROVE IInv'
<1>1. SameElsewhere /\ pc \in {"item", "found"} /\ pc \in Asking
      /\ Answer(Table, "empty")
  BY OpensNothingKeeps DEF OriginalEmpty, Asking
<1>2. from \in Positions /\ kind \in Kinds /\ positions \in Seq(Positions)
  BY <1>1 DEF IInv, TypeOK, Asking
<1>3. client = "up" => /\ Table[from] = "empty" /\ Original = "empty"
                       /\ positions = <<from>> /\ next = 1
  BY <1>1, AskingOriginal
<1>4. client = "up" =>
        /\ pc = "item" => kind \in {"hierarchy", "prepare"} /\ Knows.item[from] = "empty"
        /\ pc = "found" => /\ kind # "prepare" /\ Knows.found[from] = "empty"
                           /\ kind = "hierarchy" => Knows.item[from] = "hit"
  BY <1>1, <1>3 DEF IInv, Searching, AskedInTurn, Table
<1>5. CASE FallsBack(kind, pc) /\ Ask("declaration", positions, 1)
  <2>1. /\ pc' = "declaration" /\ positions' = positions /\ next' = 1
        /\ opened' = (In[positions[1]] \in openFiles')
    BY <1>5 DEF Ask
  <2>2. 1 \in DOMAIN positions
    BY <1>1, <1>2 DEF IInv, TypeOK
  <2>3. TypeOK' /\ OpenedOnce'
    BY <1>1, <1>2, <1>5, <2>2, AskTyped DEF IInv, Asking, SameElsewhere
  <2>4. Searching'
    <3> SUFFICES ASSUME client' = "up"
                 PROVE  AskedInTurn' /\ PositionsResolved' /\ FilesOpened' /\ PassedOnes'
      BY DEF Searching
    <3>1. /\ client = "up" /\ kind' = kind /\ from' = from /\ Knows' = Knows
          /\ Original' = Original /\ openFiles \subseteq openFiles'
      BY <1>1, SameElsewhereKeeps DEF SameElsewhere
    <3>2. AskedInTurn'
      BY <1>1, <1>3, <1>4, <1>5, <2>1, <3>1 DEF AskedInTurn, Alternates, FallsBack
    <3>3. PositionsResolved'
      BY <1>3, <2>1, <3>1 DEF PositionsResolved, Alternates
    <3>4. FilesOpened' /\ PassedOnes'
      BY <1>1, <1>3, <2>1, <3>1, AskingOriginal
      DEF IInv, Searching, FilesOpened, PassedOnes, Alternates, Asking
    <3>5. QED
      BY <3>2, <3>3, <3>4
  <2>5. AskedWhereOpen' /\ AnsweredFromFirst'
    BY <2>1, <2>4
    DEF AskedWhereOpen, AnsweredFromFirst, Searching, FilesOpened, Alternates, Asking
  <2>6. QED
    BY <2>3, <2>4, <2>5 DEF IInv
<1>6. CASE ~FallsBack(kind, pc) /\ Finish(Empty)
  <2>1. Empty \in Result
    BY DEF Empty, Result, Answers
  <2>2. client = "up" => Reference = <<from>> /\ ~Has(from)
    BY <1>1, <1>2, <1>4, <1>6 DEF Reference, FallsBack, Has, Kinds
  <2>3. client = "up" => \A i \in DOMAIN Reference : Ignored(Reference[i])
    BY <2>2 DEF Ignored
  <2>4. QED
    BY <1>1, <1>3, <1>6, <2>1, <2>3, FinishKeeps
<1>7. QED
  BY <1>5, <1>6 DEF OriginalEmpty

-----------------------------------------------------------------------------
(* The other positions *)

LEMMA Longer ==
  \A S : \A s, t \in Seq(S) :
    1 \in DOMAIN s =>
      s \o t \in Seq(S) /\ 1 \in DOMAIN (s \o t) /\ (s \o t)[1] = s[1]
OBVIOUS

\* What led a query to other positions.
ReadyToFallBack ==
  /\ Knows.needs /\ kind # "single" /\ Original = "empty"
  /\ kind = "hierarchy" => Knows.item[from] = "hit"

LEMMA DeclaredKeeps == ASSUME IInv, Declared PROVE IInv'
<1>1. SameElsewhere /\ pc = "declaration" /\ pc \in Asking
  BY OpensNothingKeeps DEF Declared, Asking
<1>2. /\ from \in Positions /\ kind \in Kinds
      /\ positions \in Seq(Positions) /\ next \in DOMAIN positions
  BY <1>1 DEF IInv, TypeOK, Asking
<1>3. Knows.declaration[from] \in Seq(Positions)
  BY <1>2, KnowsTyped DEF IInv, Knowledge
<1>4. PICK found \in {<<>>, Knows.declaration[from]} :
        Leads(Knows.declaration, found) /\ Ask("definition", positions \o found, 1)
  BY DEF Declared
<1> DEFINE some == positions \o found
<1>5. found \in Seq(Positions)
  BY <1>3, <1>4, NoPositions
<1>6. 1 \in DOMAIN positions
  BY <1>2
<1>7. some \in Seq(Positions) /\ 1 \in DOMAIN some /\ some[1] = positions[1]
  BY <1>2, <1>5, <1>6, Longer
<1>8. client = "up" => /\ opened /\ positions = <<from>> /\ next = 1 /\ positions[1] = from
                       /\ In[from] \in openFiles /\ found = Knows.declaration[from]
  <2> SUFFICES ASSUME client = "up"
               PROVE  /\ opened /\ positions = <<from>> /\ next = 1 /\ positions[1] = from
                      /\ In[from] \in openFiles /\ found = Knows.declaration[from]
    OBVIOUS
  <2>1. /\ opened /\ positions = <<from>> /\ next = 1 /\ In[from] \in openFiles
    BY <1>1 DEF IInv, Searching, FilesOpened, PositionsResolved, Alternates
  <2>2. positions[1] = from
    BY <2>1
  <2>3. QED
    BY <1>4, <2>1, <2>2 DEF Leads, Fails
<1>9. /\ pc' = "definition" /\ positions' = some /\ next' = 1
      /\ opened' = (In[some[1]] \in openFiles')
  BY <1>4 DEF Ask
<1>10. TypeOK' /\ OpenedOnce'
  BY <1>1, <1>2, <1>4, <1>7, AskTyped DEF IInv, Asking, SameElsewhere
<1>11. Searching'
  <2> SUFFICES ASSUME client' = "up"
               PROVE  AskedInTurn' /\ PositionsResolved' /\ FilesOpened' /\ PassedOnes'
    BY DEF Searching
  <2>1. /\ client = "up" /\ kind' = kind /\ from' = from /\ Knows' = Knows
        /\ Original' = Original /\ openFiles \subseteq openFiles'
    BY <1>1, SameElsewhereKeeps DEF SameElsewhere
  <2>2. AskedInTurn'
    BY <1>1, <1>9, <2>1 DEF IInv, Searching, AskedInTurn, Alternates
  <2>3. PositionsResolved'
    BY <1>8, <1>9, <2>1 DEF PositionsResolved, Alternates
  <2>4. FilesOpened' /\ PassedOnes'
    BY <1>7, <1>8, <1>9, <2>1 DEF FilesOpened, PassedOnes, Alternates
  <2>5. QED
    BY <2>2, <2>3, <2>4
<1>12. AskedWhereOpen' /\ AnsweredFromFirst'
  BY <1>9, <1>11
  DEF AskedWhereOpen, AnsweredFromFirst, Searching, FilesOpened, Alternates, Asking
<1>13. QED
  BY <1>10, <1>11, <1>12 DEF IInv

\* Passing over a position is right once all up to it are known to have no answer.
LEMMA ProceedKeeps ==
  ASSUME IInv, SameElsewhere, pc \in Asking,
         NEW some \in Seq(Positions), NEW i \in DOMAIN some, Proceed(some, i),
         client = "up" =>
           /\ some = Reference /\ ReadyToFallBack /\ In[from] \in openFiles
           /\ \A j \in 1..i : Ignored(some[j])
           /\ \A j \in DOMAIN some :
                In[some[j]] \in openFiles' \/ disk[In[some[j]]] = None
  PROVE  IInv'
<1>1. kind \in Kinds /\ from \in Positions
  BY SameElsewhereKeeps
<1>2. client = "up" => \A k \in DOMAIN some \ Left(some, i) : Ignored(some[k])
  BY DEF Left
<1>3. CASE Left(some, i) = {} /\ Finish(Empty)
  <2>1. Empty \in Result
    BY DEF Empty, Result, Answers
  <2>2. client = "up" => /\ Original # "error"
                         /\ \A k \in DOMAIN Reference : Ignored(Reference[k])
    BY <1>2, <1>3 DEF ReadyToFallBack
  <2>3. QED
    BY <1>3, <2>1, <2>2, FinishKeeps
<1>4. ASSUME NEW j \in Left(some, i), \A l \in Left(some, i) : j <= l,
             Ask(IF kind = "query" THEN "altFound" ELSE "altItem", some, j)
      PROVE  IInv'
  <2> DEFINE what == IF kind = "query" THEN "altFound" ELSE "altItem"
  <2>1. /\ pc' = what /\ what \in Alternates /\ positions' = some /\ next' = j
        /\ opened' = (In[some[j]] \in openFiles')
    BY <1>4 DEF Ask, Alternates
  <2>2. j \in DOMAIN some /\ j \in Nat /\ i \in Nat
    BY <1>4 DEF Left
  <2>3. TypeOK' /\ OpenedOnce'
    BY <1>1, <1>4, <2>1, <2>2, AskTyped DEF IInv, Asking, Alternates, SameElsewhere
  <2>4. Searching'
    <3> SUFFICES ASSUME client' = "up"
                 PROVE  AskedInTurn' /\ PositionsResolved' /\ FilesOpened' /\ PassedOnes'
      BY DEF Searching
    <3>1. /\ client = "up" /\ kind' = kind /\ from' = from /\ disk' = disk
          /\ Knows' = Knows /\ Original' = Original /\ Reference' = Reference
          /\ openFiles \subseteq openFiles'
          /\ \A p \in Positions : Ignored(p)' = Ignored(p)
      BY SameElsewhereKeeps DEF SameElsewhere
    <3>2. AskedInTurn'
      BY <2>1, <3>1 DEF AskedInTurn, Alternates, ReadyToFallBack
    <3>3. PositionsResolved'
      BY <2>1, <3>1 DEF PositionsResolved, Alternates
    <3>4. FilesOpened'
      BY <2>1, <3>1 DEF FilesOpened, Alternates
    <3>5. \A k \in 1..(j - 1) : k \in DOMAIN some \ Left(some, i)
      BY <1>4, <2>2 DEF Left
    <3>6. \A k \in 1..(j - 1) : Ignored(some[k]) /\ some[k] \in Positions
      BY <1>2, <3>1, <3>5
    <3>7. PassedOnes'
      BY <2>1, <3>1, <3>6 DEF PassedOnes
    <3>8. QED
      BY <3>2, <3>3, <3>4, <3>7
  <2>5. AskedWhereOpen' /\ AnsweredFromFirst'
    BY <2>1, <2>2 DEF AskedWhereOpen, AnsweredFromFirst, SameElsewhere, Alternates
  <2>6. QED
    BY <2>3, <2>4, <2>5 DEF IInv
<1>5. QED
  BY <1>3, <1>4 DEF Proceed

LEMMA DefinedKeeps == ASSUME IInv, Defined PROVE IInv'
<1>1. pc = "definition" /\ pc \in Asking /\ SameQuery
  BY DEF Defined, Asking
<1>2. /\ from \in Positions /\ kind \in Kinds
      /\ positions \in Seq(Positions) /\ next \in DOMAIN positions
  BY <1>1 DEF IInv, TypeOK, Asking
<1>3. Knows.definition[from] \in Seq(Positions)
  BY <1>2, KnowsTyped DEF IInv, Knowledge
<1>4. PICK found \in {<<>>, Knows.definition[from]} :
        /\ Leads(Knows.definition, found)
        /\ Opens(FilesOf(positions \o found))
        /\ Proceed(positions \o found, 1)
  BY DEF Defined
<1> DEFINE some == positions \o found
<1>5. found \in Seq(Positions)
  BY <1>3, <1>4, NoPositions
<1>6. 1 \in DOMAIN positions
  BY <1>2
<1>7. some \in Seq(Positions) /\ 1 \in DOMAIN some /\ some[1] = positions[1]
  BY <1>2, <1>5, <1>6, Longer
<1>8. client = "up" => /\ opened /\ next = 1 /\ positions[1] = from
                       /\ positions = <<from>> \o Knows.declaration[from]
                       /\ In[from] \in openFiles /\ found = Knows.definition[from]
                       /\ ReadyToFallBack
  <2> SUFFICES ASSUME client = "up"
               PROVE  /\ opened /\ next = 1 /\ positions[1] = from
                      /\ positions = <<from>> \o Knows.declaration[from]
                      /\ In[from] \in openFiles /\ found = Knows.definition[from]
                      /\ ReadyToFallBack
    OBVIOUS
  <2>1. /\ opened /\ next = 1 /\ In[from] \in openFiles
        /\ positions = <<from>> \o Knows.declaration[from]
    BY <1>1 DEF IInv, Searching, FilesOpened, PositionsResolved, Alternates
  <2>2. Knows.declaration[from] \in Seq(Positions)
    BY <1>2, KnowsTyped DEF IInv, Knowledge
  <2>3. positions[1] = from
    BY <1>2, <2>1, <2>2, Beginning
  <2>4. ReadyToFallBack
    BY <1>1 DEF IInv, Searching, AskedInTurn, ReadyToFallBack
  <2>5. QED
    BY <1>4, <2>1, <2>3, <2>4 DEF Leads, Fails
<1> HIDE DEF some
<1>9. /\ FilesOf(some) \in SUBSET Files /\ In[some[1]] \in Files
      /\ \A j \in DOMAIN some : j = 1 \/ In[some[j]] \in FilesOf(some)
  BY <1>7, PositionsAssumption DEF FilesOf
<1>10. /\ Opens(FilesOf(some)) /\ Proceed(some, 1)
  BY <1>4 DEF some
<1>11. SameElsewhere
  BY <1>1, <1>9, <1>10, EnsureOpenKeeps DEF IInv, TypeOK, Opens, Quiet, SameQuery, SameElsewhere
<1>12. client = "up" =>
         \A j \in DOMAIN some :
           In[some[j]] \in openFiles' \/ disk[In[some[j]]] = None
  <2> SUFFICES ASSUME client = "up", NEW j \in DOMAIN some
               PROVE  In[some[j]] \in openFiles' \/ disk[In[some[j]]] = None
    OBVIOUS
  <2>1. CASE j = 1
    BY <2>1, <1>7, <1>8, <1>11 DEF SameElsewhere
  <2>2. CASE In[some[j]] \in FilesOf(some)
    BY <2>2, <1>10 DEF Opens, EnsureOpen, Open, Openable
  <2>3. QED
    BY <1>9, <2>1, <2>2
<1>13. client = "up" => some = Reference
  BY <1>8 DEF some, Reference, ReadyToFallBack
<1>14. client = "up" => \A j \in 1..1 : Ignored(some[j])
  <2>1. client = "up" => ~Has(from)
    BY <1>8, <1>2 DEF ReadyToFallBack, Original, Has, Kinds
  <2>2. QED
    BY <1>7, <1>8, <2>1 DEF Ignored
<1>15. QED
  BY <1>1, <1>7, <1>8, <1>10, <1>11, <1>12, <1>13, <1>14, ProceedKeeps DEF some

\* The question about another position, while the server is up.
LEMMA AskingAlternate ==
  ASSUME IInv, pc \in Alternates, client = "up", NEW a, Answer(Table, a)
  PROVE  /\ positions = Reference /\ ReadyToFallBack /\ In[from] \in openFiles
         /\ \A j \in DOMAIN positions :
              In[positions[j]] \in openFiles \/ disk[In[positions[j]]] = None
         /\ \A j \in 1..(next - 1) : Ignored(positions[j])
         /\ a # "error" => a = Table[positions[next]]
         /\ a # "hit" => ~Has(positions[next]) \/ disk[In[positions[next]]] = None
<1>1. /\ positions = Reference /\ In[from] \in openFiles
      /\ \A j \in DOMAIN positions :
           In[positions[j]] \in openFiles \/ disk[In[positions[j]]] = None
      /\ \A j \in 1..(next - 1) : Ignored(positions[j])
  BY DEF IInv, Searching, PositionsResolved, FilesOpened, PassedOnes, Alternates, Asking
<1>2. ReadyToFallBack
  BY DEF IInv, Searching, AskedInTurn, ReadyToFallBack
<1>3. opened \/ disk[In[positions[next]]] = None
  BY DEF IInv, AskedWhereOpen, Alternates, Asking
<1>4. opened => a = Table[positions[next]]
  BY AnswerOfUp
<1>5. ~opened => a = "error"
  BY DEF Answer, Succeeds
<1>6. opened /\ a # "hit" => ~Has(positions[next])
  <2> SUFFICES ASSUME opened, a # "hit" PROVE ~Has(positions[next])
    OBVIOUS
  <2>1. Table[positions[next]] # "hit"
    BY <1>4
  <2>2. pc = "altItem" => kind \in {"hierarchy", "prepare"} \/ kind = "single" \/ kind = None
    BY DEF IInv, Searching, AskedInTurn, TypeOK, Kinds, Alternates
  <2>3. /\ kind # "single" /\ kind # None
        /\ pc = "altFound" => kind # "prepare"
    BY <1>2 DEF ReadyToFallBack, IInv, Searching, AskedInTurn, TypeOK, Alternates
  <2>4. QED
    BY <2>1, <2>2, <2>3 DEF Has, Table, Alternates
<1>7. QED
  BY <1>1, <1>2, <1>3, <1>4, <1>5, <1>6

LEMMA AltSkippedKeeps == ASSUME IInv, AltSkipped PROVE IInv'
<1>1. SameElsewhere /\ pc \in Alternates /\ pc \in Asking
  BY OpensNothingKeeps DEF AltSkipped, Alternates, Asking
<1>2. PICK a \in PassedOver : Answer(Table, a)
  BY DEF AltSkipped
<1>3. positions \in Seq(Positions) /\ next \in DOMAIN positions /\ next \in Nat
  BY <1>1 DEF IInv, TypeOK, Asking
<1>4. client = "up" =>
        /\ positions = Reference /\ ReadyToFallBack /\ In[from] \in openFiles
        /\ \A j \in 1..next : Ignored(positions[j])
        /\ \A j \in DOMAIN positions :
             In[positions[j]] \in openFiles' \/ disk[In[positions[j]]] = None
  <2> SUFFICES ASSUME client = "up"
               PROVE  /\ positions = Reference /\ ReadyToFallBack /\ In[from] \in openFiles
                      /\ \A j \in 1..next : Ignored(positions[j])
                      /\ \A j \in DOMAIN positions :
                           In[positions[j]] \in openFiles' \/ disk[In[positions[j]]] = None
    OBVIOUS
  <2>1. /\ positions = Reference /\ ReadyToFallBack /\ In[from] \in openFiles
        /\ \A j \in DOMAIN positions :
             In[positions[j]] \in openFiles \/ disk[In[positions[j]]] = None
        /\ \A j \in 1..(next - 1) : Ignored(positions[j])
        /\ Ignored(positions[next])
    BY <1>1, <1>2, AskingAlternate DEF PassedOver, Ignored
  <2>2. \A j \in 1..next : j \in 1..(next - 1) \/ j = next
    BY <1>3
  <2>3. QED
    BY <1>1, <2>1, <2>2 DEF SameElsewhere
<1>5. Proceed(positions, next)
  BY DEF AltSkipped
<1>6. QED
  BY <1>1, <1>3, <1>4, <1>5, ProceedKeeps

\* A hit at the position asked about is the answer.
LEMMA HitKeeps ==
  ASSUME IInv, SameElsewhere, pc \in Alternates, Answer(Table, "hit"),
         Finish(Hit(positions[next])),
         client = "up" => Has(positions[next])
  PROVE  IInv'
<1>1. /\ positions \in Seq(Positions) /\ next \in DOMAIN positions
      /\ pc \in Asking
  BY DEF IInv, TypeOK, Asking, Alternates
<1>2. Hit(positions[next]) \in Result
  BY <1>1 DEF Hit, Result, Answers
<1>3. client = "up" =>
        /\ positions = Reference /\ Original = "empty"
        /\ \A j \in 1..(next - 1) : Ignored(positions[j])
  BY AskingAlternate DEF ReadyToFallBack
<1>4. QED
  BY <1>1, <1>2, <1>3, FinishKeeps

LEMMA AltAnsweredKeeps == ASSUME IInv, AltAnswered PROVE IInv'
<1>1. SameElsewhere /\ pc = "altFound" /\ pc \in Alternates /\ Answer(Table, "hit")
  BY OpensNothingKeeps DEF AltAnswered, Table, Alternates
<1>2. client = "up" => Has(positions[next])
  <2> SUFFICES ASSUME client = "up" PROVE Has(positions[next])
    OBVIOUS
  <2>1. Knows.found[positions[next]] = "hit"
    BY <1>1, AskingAlternate DEF Table
  <2>2. kind # "prepare" /\ (kind = "hierarchy" => Knows.item[positions[next]] = "hit")
    BY <1>1 DEF IInv, Searching, AskedInTurn
  <2>3. QED
    BY <2>1, <2>2 DEF Has
<1>3. QED
  BY <1>1, <1>2, HitKeeps DEF AltAnswered

LEMMA AltPreparedKeeps == ASSUME IInv, AltPrepared PROVE IInv'
<1>1. /\ SameElsewhere /\ pc = "altItem" /\ pc \in Alternates /\ pc \in Asking
      /\ Answer(Table, "hit")
  BY OpensNothingKeeps DEF AltPrepared, Table, Alternates, Asking
<1>2. /\ positions \in Seq(Positions) /\ next \in DOMAIN positions
      /\ kind \in Kinds /\ from \in Positions
  BY <1>1 DEF IInv, TypeOK, Asking
<1>3. client = "up" => Knows.item[positions[next]] = "hit"
  BY <1>1, AskingAlternate DEF Table
<1>4. CASE kind = "prepare" /\ Finish(Hit(positions[next]))
  BY <1>1, <1>3, <1>4, HitKeeps DEF Has
<1>5. CASE kind # "prepare" /\ Ask("altFound", positions, next)
  <2>1. /\ pc' = "altFound" /\ positions' = positions /\ next' = next
        /\ opened' = (In[positions[next]] \in openFiles')
    BY <1>5 DEF Ask
  <2>2. TypeOK' /\ OpenedOnce'
    BY <1>1, <1>2, <1>5, AskTyped DEF IInv, Asking, SameElsewhere
  <2>3. Searching'
    <3> SUFFICES ASSUME client' = "up"
                 PROVE  AskedInTurn' /\ PositionsResolved' /\ FilesOpened' /\ PassedOnes'
      BY DEF Searching
    <3>1. /\ client = "up" /\ kind' = kind /\ from' = from /\ disk' = disk
          /\ Knows' = Knows /\ Original' = Original /\ Reference' = Reference
          /\ openFiles \subseteq openFiles'
          /\ \A p \in Positions : Ignored(p)' = Ignored(p)
      BY <1>1, SameElsewhereKeeps DEF SameElsewhere
    <3>2. AskedInTurn' /\ PositionsResolved'
      BY <1>1, <1>3, <1>5, <2>1, <3>1
      DEF IInv, Searching, AskedInTurn, PositionsResolved, Alternates
    <3>3. FilesOpened'
      BY <1>1, <2>1, <3>1 DEF IInv, Searching, FilesOpened, Alternates, Asking
    <3>4. \A j \in 1..(next - 1) : j \in DOMAIN positions
      BY <1>2
    <3>5. PassedOnes'
      BY <1>1, <1>2, <2>1, <3>1, <3>4 DEF IInv, Searching, PassedOnes
    <3>6. QED
      BY <3>2, <3>3, <3>5
  <2>4. AskedWhereOpen' /\ AnsweredFromFirst'
    BY <1>2, <2>1, <2>3
    DEF AskedWhereOpen, AnsweredFromFirst, Searching, FilesOpened, Alternates, Asking
  <2>5. QED
    BY <2>2, <2>3, <2>4 DEF IInv
<1>6. QED
  BY <1>4, <1>5 DEF AltPrepared

-----------------------------------------------------------------------------
(* The theorems *)

LEMMA InitSafe == Init => IInv
<1> SUFFICES ASSUME Init PROVE IInv
  OBVIOUS
<1>1. /\ 0 \in Versions /\ <<>> \in Seq(Texts) /\ Len(<<>>) = 0
  BY VersionAssumption DEF Versions
<1>2. DocumentsTypeOK
  BY <1>1 DEF Init, InitDocuments, DocumentsTypeOK
<1>3. OpenedOnce
  BY <1>1 DEF Init, InitDocuments, OpenedOnce
<1>4. Nothing \in Result
  BY DEF Nothing, Result
<1>5. TypeOK
  <2>1. /\ pc = "idle" /\ kind = None /\ from = None /\ next = 1 /\ opened = FALSE
        /\ positions = <<>> /\ result = Nothing /\ server \in DOMAIN Servers
    BY DEF Init
  <2>2. positions \in Seq(Positions)
    BY <2>1, NoPositions
  <2>3. next \in Nat \ {0} /\ pc \notin Asking
    BY <2>1 DEF Asking
  <2>4. result \in Result
    BY <2>1, <1>4
  <2>5. QED
    BY <1>2, <2>1, <2>2, <2>3, <2>4 DEF TypeOK
<1>6. AskedWhereOpen /\ AnsweredFromFirst /\ Searching
  BY DEF Init, AskedWhereOpen, AnsweredFromFirst, Searching, AskedInTurn,
         PositionsResolved, FilesOpened, PassedOnes, Alternates, Asking
<1>7. QED
  BY <1>3, <1>5, <1>6 DEF IInv

LEMMA StepSafe == IInv /\ [Next]_vars => IInv'
<1> SUFFICES ASSUME IInv, [Next]_vars PROVE IInv'
  OBVIOUS
<1>1. CASE Resume
  BY <1>1, FailKeeps, ItemPreparedKeeps, QueryAnsweredKeeps, OriginalEmptyKeeps,
     DeclaredKeeps, DefinedKeeps, AltPreparedKeeps, AltAnsweredKeeps, AltSkippedKeeps
  DEF Resume
<1>2. CASE Others
  BY <1>2, OthersKeep
<1>3. ASSUME NEW k \in Kinds, NEW p \in Positions, Call(k, p) PROVE IInv'
  BY <1>3, CallKeeps
<1>4. CASE UNCHANGED vars
  <2>1. /\ UNCHANGED documents /\ UNCHANGED query /\ server' = server
    BY <1>4 DEF vars
  <2>2. /\ disk' = disk /\ client' = client /\ openFiles' = openFiles /\ sent' = sent
        /\ diagnosed' = diagnosed /\ told' = told
        /\ kind' = kind /\ from' = from /\ pc' = pc /\ positions' = positions
        /\ next' = next /\ opened' = opened /\ result' = result
    BY <2>1 DEF documents, query
  <2>3. TypeOK' /\ OpenedOnce' /\ AskedWhereOpen'
    BY <2>1, <2>2 DEF IInv, TypeOK, DocumentsTypeOK, OpenedOnce, AskedWhereOpen
  <2>4. /\ Knows' = Knows /\ Reference' = Reference /\ Original' = Original
        /\ \A p : Has(p)' = Has(p) /\ Ignored(p)' = Ignored(p)
    BY <2>1, <2>2 DEF Knows, Reference, Original, Has, Ignored
  <2>5. AnsweredFromFirst'
    BY <2>2, <2>4 DEF IInv, AnsweredFromFirst
  <2>6. Searching'
    BY <2>2, <2>4 DEF IInv, Searching, AskedInTurn, PositionsResolved, FilesOpened, PassedOnes
  <2>7. QED
    BY <2>3, <2>5, <2>6 DEF IInv
<1>5. QED
  BY <1>1, <1>2, <1>3, <1>4 DEF Next

\* For any files, positions and servers, the server is sent each file once, whatever
\* sessions, editors, fallbacks and a stop do to the client's table of open files
\* (ensure_file_open, proxy_did_open).
THEOREM FilesAreOpenedOnce == Spec => []OpenedOnce
<1>1. IInv => OpenedOnce
  BY DEF IInv
<1>2. QED
  BY <1>1, InitSafe, StepSafe, PTL DEF Spec

\* For any files, positions and servers, the server is asked only about positions in
\* files it was sent, also at the alternates of a fallback (_query_with_fallback,
\* _prepare_with_fallback).
THEOREM PositionsAreAskedWhereOpen == Spec => []AskedWhereOpen
<1>1. IInv => AskedWhereOpen
  BY DEF IInv
<1>2. QED
  BY <1>1, InitSafe, StepSafe, PTL DEF Spec

\* For any files, positions and servers, a query is answered from the first of the
\* positions of its fallback that has an answer, and its failure is reported.
THEOREM QueriesFollowReference == Spec => []AnsweredFromFirst
<1>1. IInv => AnsweredFromFirst
  BY DEF IInv
<1>2. QED
  BY <1>1, InitSafe, StepSafe, PTL DEF Spec

\* The client's table of open files, the server's copies and the query keep their
\* types, for any files, positions and servers.
THEOREM QueriesTyped == Spec => []TypeOK
<1>1. IInv => TypeOK
  BY DEF IInv
<1>2. QED
  BY <1>1, InitSafe, StepSafe, PTL DEF Spec
=============================================================================
