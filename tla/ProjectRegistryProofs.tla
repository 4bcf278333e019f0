------------------------ MODULE ProjectRegistryProofs ------------------------
(***************************************************************************)
(* Proofs about ProjectRegistry for every value of its constants, faults   *)
(* included.                                                               *)
(***************************************************************************)
EXTENDS ProjectRegistry, FiniteSetTheorems, TLAPS

Registering == {"register", "stopOld", "starting", "stopNew"}

\* A task is suspended inside the lock exactly when it holds it.
LockOK == \A t \in Tasks : pc[t] \in Suspended <=> lock = t

\* What a task carries across an await is what its call gave it.
TaskOK ==
  \A t \in Tasks :
    /\ pc[t] \in Registering \cup Suspended => target[t] \in Projects
    /\ pc[t] \in Registering \cup {"deregister"} => token[t] \in issued

\* The token of a register still under way is in no entry and in no other task.
TokensApart ==
  /\ \A p \in Projects : projects[p].registration_ids \subseteq issued
  /\ \A t \in Tasks : pc[t] \in Registering =>
       /\ \A p \in Projects : token[t] \notin projects[p].registration_ids
       /\ \A u \in Tasks \ {t} : pc[u] \in Registering => token[u] # token[t]

IInv == /\ TypeOK /\ LockOK /\ TaskOK /\ TokensApart
        /\ TokenNamesEntry /\ RefcountIsTokenCount /\ NobodyServedByThePending

\* The initial states satisfy the inductive invariant.
LEMMA InitIInv == Init => IInv
<1> SUFFICES ASSUME Init PROVE IInv
  OBVIOUS
<1> USE DEF Init
<1>1. TypeOK
  <2>1. Absent \in Entry
    BY DEF Absent, Entry
  <2>2. "idle" \in Pc
    BY DEF Pc
  <2> QED
    BY <2>1, <2>2 DEF TypeOK
<1>2. LockOK /\ TaskOK /\ TokensApart
  BY NoneAssumption DEF LockOK, TaskOK, TokensApart, Suspended, Registering, Absent
<1>3. TokenNamesEntry /\ NobodyServedByThePending
  BY DEF TokenNamesEntry, NobodyServedByThePending, Suspended
<1>4. RefcountIsTokenCount
  BY FS_EmptySet DEF RefcountIsTokenCount, Absent
<1> QED
  BY <1>1, <1>2, <1>3, <1>4 DEF IInv

\* Which fields of an entry a registration and a return change.
LEMMA EntryUpdates ==
  ASSUME NEW e \in Entry, NEW k \in Tokens
  PROVE  /\ Joined(e, k) \in Entry /\ Released(e, k) \in Entry
         /\ Joined(e, k).refcount = e.refcount + 1
         /\ Joined(e, k).registration_ids = e.registration_ids \cup {k}
         /\ Joined(e, k).client = e.client
         /\ Released(e, k).refcount = e.refcount - 1
         /\ Released(e, k).registration_ids = e.registration_ids \ {k}
         /\ Released(e, k).client = e.client
         /\ Stopped(e) \in Entry
         /\ Stopped(e).refcount = e.refcount
         /\ Stopped(e).registration_ids = e.registration_ids
<1> DEFINE more == e.registration_ids \cup {k}
           less == e.registration_ids \ {k}
           up   == e.refcount + 1
           down == e.refcount - 1
<1>1. more \in SUBSET Tokens /\ less \in SUBSET Tokens /\ up \in Int /\ down \in Int
  BY DEF Entry
<1>2. /\ Joined(e, k) = [e EXCEPT !.registration_ids = more, !.refcount = up]
      /\ Released(e, k) = [e EXCEPT !.registration_ids = less, !.refcount = down]
  BY DEF Joined, Released, Entry
<1> HIDE DEF more, less, up, down
<1>3. Joined(e, k) \in Entry /\ Released(e, k) \in Entry
  BY <1>1, <1>2 DEF Entry
<1>4. /\ Joined(e, k).refcount = up
      /\ Joined(e, k).registration_ids = more
      /\ Joined(e, k).client = e.client
  BY <1>2 DEF Entry
<1>5. /\ Released(e, k).refcount = down
      /\ Released(e, k).registration_ids = less
      /\ Released(e, k).client = e.client
  BY <1>2 DEF Entry
<1>6. /\ Stopped(e) \in Entry
      /\ Stopped(e).refcount = e.refcount
      /\ Stopped(e).registration_ids = e.registration_ids
  BY DEF Stopped, Entry
<1> QED
  BY <1>3, <1>4, <1>5, <1>6 DEF more, less, up, down

\* Steps that leave the variables of the registry alone preserve the invariant.
LEMMA CallPreserves ==
  ASSUME IInv, NEW t \in Tasks, Call(t)
  PROVE  IInv'
<1> USE DEF IInv
<1>1. CASE \E p \in Projects, f \in BOOLEAN, k \in Tokens : CallRegister(t, p, f, k)
  <2> PICK p \in Projects, f \in BOOLEAN, k \in Tokens : CallRegister(t, p, f, k)
    BY <1>1
  <2> USE DEF CallRegister
  <2>1. TypeOK'
    BY DEF TypeOK, Pc
  <2>2. LockOK'
    BY DEF LockOK, TypeOK, Suspended
  <2>3. TaskOK'
    BY DEF TaskOK, TypeOK, Suspended, Registering
  <2>4. TokensApart'
    BY DEF TokensApart, TaskOK, TypeOK, Registering
  <2>5. TokenNamesEntry' /\ RefcountIsTokenCount'
    BY DEF TokenNamesEntry, RefcountIsTokenCount
  <2>6. NobodyServedByThePending'
    BY DEF NobodyServedByThePending, Live, TypeOK, Suspended
  <2> QED
    BY <2>1, <2>2, <2>3, <2>4, <2>5, <2>6
<1>2. CASE \E k \in Tokens : CallDeregister(t, k)
  <2> PICK k \in Tokens : CallDeregister(t, k)
    BY <1>2
  <2> USE DEF CallDeregister
  <2>1. TypeOK'
    BY DEF TypeOK, Pc
  <2>2. LockOK' /\ TaskOK'
    BY DEF LockOK, TaskOK, TypeOK, Suspended, Registering
  <2>3. TokensApart'
    BY DEF TokensApart, TypeOK, Registering
  <2>4. TokenNamesEntry' /\ RefcountIsTokenCount'
    BY DEF TokenNamesEntry, RefcountIsTokenCount
  <2>5. NobodyServedByThePending'
    BY DEF NobodyServedByThePending, Live, TypeOK, Suspended
  <2> QED
    BY <2>1, <2>2, <2>3, <2>4, <2>5
<1> QED
  BY <1>1, <1>2 DEF Call

-----------------------------------------------------------------------------
(* register *)

\* The rest of register preserves the invariant when no registration of the
\* project is left and table differs from _projects in its client and status.
LEMMA BeginPreserves ==
  ASSUME IInv, NEW t \in Tasks, pc[t] \in {"register", "stopOld"},
         lock \in {None, t},
         NEW table \in [Projects -> Entry], NEW left \in SUBSET Clients,
         \A p \in Projects : /\ table[p].registration_ids = projects[p].registration_ids
                             /\ table[p].refcount = projects[p].refcount,
         \A p \in Projects \ {target[t]} : table[p] = projects[p],
         registrations' \in [Tokens -> Projects \cup {None}],
         \A k \in Tokens : /\ registrations'[k] \in {registrations[k], None}
                           /\ registrations'[k] # target[t],
         Begin(t, table, left), UNCHANGED <<target, force, token, closed>>
  PROVE  IInv'
<1> USE DEF IInv
<1>1. /\ target[t] \in Projects /\ token[t] \in issued /\ issued \subseteq Tokens
      /\ \A u \in Tasks \ {t} : pc[u] \notin Suspended
  BY NoneAssumption DEF TaskOK, LockOK, TypeOK, Registering, Suspended
<1>2. CASE ConfigureFails(t, table) /\ running' = left
  <2> USE <1>2 DEF ConfigureFails, Return
  <2>1. TypeOK'
    BY DEF TypeOK, Pc
  <2>2. LockOK'
    BY <1>1, NoneAssumption DEF LockOK, TypeOK, Suspended
  <2>3. TaskOK' /\ TokensApart'
    BY DEF TaskOK, TokensApart, TypeOK, Registering, Suspended
  <2>4. TokenNamesEntry' /\ RefcountIsTokenCount'
    BY <1>1 DEF TokenNamesEntry, RefcountIsTokenCount, TypeOK
  <2>5. NobodyServedByThePending'
    BY <1>1 DEF NobodyServedByThePending, TypeOK, Suspended
  <2> QED
    BY <2>1, <2>2, <2>3, <2>4, <2>5
<1>3. CASE Launch(t, table) /\ running' = left \cup {client'[t]}
  <2> PICK c \in Fresh :
        /\ projects' = [table EXCEPT ![target[t]] = [Absent EXCEPT !.status = "starting"]]
        /\ Suspend(t, "starting", c)
        /\ UNCHANGED issued
    BY <1>3 DEF Launch
  <2> USE <1>3 DEF Suspend
  <2> DEFINE new == [Absent EXCEPT !.status = "starting"]
  <2>1. /\ new \in Entry /\ new # Absent /\ new.registration_ids = {}
        /\ new.refcount = 0 /\ c \in Clients
    BY DEF Absent, Entry, Fresh
  <2>2. /\ projects'[target[t]] = new
        /\ \A p \in Projects \ {target[t]} : projects'[p] = projects[p]
    BY <1>1
  <2>3. TypeOK'
    <3>1. projects' \in [Projects -> Entry]
      BY <2>1
    <3>2. client' \in [Tasks -> Clients \cup {None}] /\ running' \subseteq Clients
      BY <2>1 DEF TypeOK
    <3> QED
      BY <3>1, <3>2 DEF TypeOK, Pc, Suspended
  <2> HIDE DEF new
  <2>4. LockOK'
    BY <1>1, NoneAssumption DEF LockOK, TypeOK, Suspended
  <2>5. TaskOK'
    BY <1>1 DEF TaskOK, TypeOK, Registering, Suspended
  <2>6. TokensApart'
    <3>1. \A q \in Projects : \/ projects'[q].registration_ids = {}
                             \/ projects'[q].registration_ids = projects[q].registration_ids
      BY <2>1, <2>2
    <3>2. \A u \in Tasks : pc'[u] \in Registering => pc[u] \in Registering
      BY DEF TypeOK, Registering
    <3> QED
      BY <3>1, <3>2 DEF TokensApart
  <2>7. TokenNamesEntry'
    BY <2>1, <2>2 DEF TokenNamesEntry
  <2>8. RefcountIsTokenCount'
    BY <2>1, <2>2, FS_EmptySet DEF RefcountIsTokenCount
  <2>9. NobodyServedByThePending'
    BY <1>1 DEF NobodyServedByThePending, Live, TypeOK, Suspended
  <2> QED
    BY <2>3, <2>4, <2>5, <2>6, <2>7, <2>8, <2>9
<1> QED
  BY <1>2, <1>3 DEF Begin

LEMMA RegisterHitPreserves ==
  ASSUME IInv, NEW t \in Tasks, RegisterHit(t)
  PROVE  IInv'
<1> USE DEF IInv, RegisterHit, Return
<1> DEFINE p == target[t]
           ids == projects[p].registration_ids
<1>1. /\ p \in Projects /\ token[t] \in issued /\ issued \subseteq Tokens
      /\ token[t] \notin ids
      /\ \A u \in Tasks : pc[u] \notin Suspended
  BY NoneAssumption DEF TaskOK, TokensApart, LockOK, TypeOK, Registering, Suspended
<1>2. /\ projects'[p] = Joined(projects[p], token[t])
      /\ \A q \in Projects \ {p} : projects'[q] = projects[q]
      /\ projects[p] \in Entry
  BY <1>1 DEF TypeOK
<1>3. /\ projects'[p].refcount = projects[p].refcount + 1
      /\ projects'[p].registration_ids = ids \cup {token[t]}
  <2>1. token[t] \in Tokens
    BY <1>1
  <2>2. projects[p] \in Entry
    BY <1>2
  <2> HIDE DEF RegisterHit, p, IInv
  <2>3. /\ Joined(projects[p], token[t]).refcount = projects[p].refcount + 1
        /\ Joined(projects[p], token[t]).registration_ids = ids \cup {token[t]}
    BY <2>1, <2>2, EntryUpdates
  <2> QED
    BY <1>2, <2>3
<1>4. TypeOK'
  <2>1. projects' \in [Projects -> Entry]
    <3>1. Joined(projects[p], token[t]) \in Entry
      BY <1>1, <1>2, EntryUpdates
    <3> QED
      BY <3>1 DEF TypeOK
  <2>2. registrations' \in [Tokens -> Projects \cup {None}]
    BY <1>1 DEF TypeOK
  <2> QED
    BY <2>1, <2>2 DEF TypeOK, Pc
<1>5. LockOK' /\ TaskOK'
  BY <1>1, NoneAssumption DEF LockOK, TaskOK, TypeOK, Suspended, Registering
<1>6. TokensApart'
  <2>1. \A q \in Projects : projects'[q].registration_ids \subseteq issued
    BY <1>1, <1>2, <1>3 DEF TokensApart
  <2>2. ASSUME NEW u \in Tasks, pc'[u] \in Registering
        PROVE  /\ \A q \in Projects : token[u] \notin projects'[q].registration_ids
               /\ \A v \in Tasks \ {u} : pc'[v] \in Registering => token[v] # token[u]
    <3>1. u # t /\ pc'[u] = pc[u]
      BY <2>2 DEF TypeOK, Registering
    <3>2. token[u] # token[t]
      BY <2>2, <3>1 DEF TokensApart, Registering
    <3> QED
      BY <2>2, <3>1, <3>2, <1>2, <1>3 DEF TokensApart, TypeOK, Registering
  <2> QED
    BY <2>1, <2>2 DEF TokensApart
<1>7. TokenNamesEntry'
  <2>1. projects'[p] # Absent
    <3>1. projects'[p].refcount # 0
      <4>1. IsFiniteSet(ids)
        BY <1>1, FS_Subset, TokensAssumption DEF TypeOK, Entry
      <4>2. Cardinality(ids) \in Nat
        BY <4>1, FS_CardinalityType
      <4> QED
        BY <1>1, <1>3, <4>2 DEF RefcountIsTokenCount
    <3> HIDE DEF RegisterHit, p
    <3> QED
      BY <3>1 DEF Absent
  <2> QED
    BY <2>1, <1>1, <1>2, <1>3 DEF TokenNamesEntry, TypeOK
<1>8. RefcountIsTokenCount'
  <2>1. IsFiniteSet(ids)
    BY <1>1, FS_Subset, TokensAssumption DEF TypeOK, Entry
  <2>2. Cardinality(ids \cup {token[t]}) = Cardinality(ids) + 1
    BY <2>1, <1>1, FS_AddElement
  <2>3. \A q \in Projects \ {p} : projects'[q] = projects[q]
    BY <1>2
  <2> HIDE DEF RegisterHit
  <2> QED
    BY <2>2, <2>3, <1>1, <1>3 DEF RefcountIsTokenCount
<1>9. NobodyServedByThePending'
  BY <1>1 DEF NobodyServedByThePending, TypeOK, Suspended
<1> QED
  BY <1>4, <1>5, <1>6, <1>7, <1>8, <1>9

LEMMA RegisterNewPreserves ==
  ASSUME IInv, NEW t \in Tasks, RegisterNew(t)
  PROVE  IInv'
<1> USE DEF IInv, RegisterNew
<1>1. \A k \in Tokens : registrations[k] # target[t]
  BY NoneAssumption DEF TokenNamesEntry, TaskOK, Registering
<1>2. /\ projects \in [Projects -> Entry] /\ running \in SUBSET Clients
      /\ registrations' \in [Tokens -> Projects \cup {None}]
  BY DEF TypeOK
<1>3. Begin(t, projects, running) /\ UNCHANGED <<registrations, target, force, token, closed>>
  OBVIOUS
<1> QED
  BY <1>1, <1>2, <1>3, BeginPreserves

\* Invalidated leaves no registration of the project.
LEMMA InvalidatedFacts ==
  ASSUME IInv, NEW p \in Projects
  PROVE  /\ Invalidated(p) \in [Tokens -> Projects \cup {None}]
         /\ \A k \in Tokens : /\ Invalidated(p)[k] \in {registrations[k], None}
                             /\ Invalidated(p)[k] # p
BY NoneAssumption DEF IInv, TypeOK, TokenNamesEntry, Invalidated

LEMMA RegisterForcePreserves ==
  ASSUME IInv, NEW t \in Tasks, RegisterForce(t)
  PROVE  IInv'
<1> USE DEF IInv, RegisterForce, Suspend
<1>1. /\ target[t] \in Projects /\ token[t] \in issued
      /\ \A u \in Tasks : pc[u] \notin Suspended
  BY NoneAssumption DEF TaskOK, LockOK, TypeOK, Registering, Suspended
<1>2. /\ registrations' \in [Tokens -> Projects \cup {None}]
      /\ \A k \in Tokens : /\ registrations'[k] \in {registrations[k], None}
                          /\ registrations'[k] # target[t]
  BY <1>1, InvalidatedFacts
<1>3. TypeOK'
  <2>1. projects[target[t]].client \in Clients \cup {None}
    BY <1>1 DEF TypeOK, Entry
  <2>2. client' \in [Tasks -> Clients \cup {None}]
    BY <2>1 DEF TypeOK
  <2> QED
    BY <1>2, <2>2 DEF TypeOK, Pc, Suspended
<1>4. LockOK' /\ TaskOK'
  BY <1>1, NoneAssumption DEF LockOK, TaskOK, TypeOK, Registering, Suspended
<1>5. TokensApart'
  <2>1. \A u \in Tasks : pc'[u] \in Registering => pc[u] \in Registering
    BY DEF TypeOK, Registering
  <2> QED
    BY <2>1 DEF TokensApart
<1>6. TokenNamesEntry' /\ RefcountIsTokenCount'
  BY <1>2 DEF TokenNamesEntry, RefcountIsTokenCount
<1>7. NobodyServedByThePending'
  BY <1>1, <1>2 DEF NobodyServedByThePending, Live, TypeOK, Suspended
<1> QED
  BY <1>3, <1>4, <1>5, <1>6, <1>7

LEMMA RegisterForceIdlePreserves ==
  ASSUME IInv, NEW t \in Tasks, RegisterForceIdle(t)
  PROVE  IInv'
<1> DEFINE table == [projects EXCEPT ![target[t]] = Stopped(@)]
<1>1. target[t] \in Projects
  BY DEF RegisterForceIdle, IInv, TaskOK, Registering
<1>2. /\ table \in [Projects -> Entry]
      /\ \A p \in Projects : /\ table[p].registration_ids = projects[p].registration_ids
                            /\ table[p].refcount = projects[p].refcount
      /\ \A p \in Projects \ {target[t]} : table[p] = projects[p]
  BY <1>1 DEF IInv, TypeOK, Stopped, Entry
<1>3. /\ registrations' \in [Tokens -> Projects \cup {None}]
      /\ \A k \in Tokens : /\ registrations'[k] \in {registrations[k], None}
                          /\ registrations'[k] # target[t]
  BY <1>1, InvalidatedFacts DEF RegisterForceIdle
<1>4. running \in SUBSET Clients /\ Begin(t, table, running)
  BY DEF RegisterForceIdle, IInv, TypeOK
<1> QED
  BY <1>2, <1>3, <1>4, BeginPreserves DEF RegisterForceIdle

LEMMA OldStoppedPreserves ==
  ASSUME IInv, NEW t \in Tasks, OldStopped(t)
  PROVE  IInv'
<1> USE DEF OldStopped
<1> DEFINE table == [projects EXCEPT ![target[t]] = Stopped(@)]
<1>1. target[t] \in Projects /\ lock = t
  BY DEF IInv, TaskOK, LockOK, Registering, Suspended
<1>2. /\ table \in [Projects -> Entry]
      /\ \A p \in Projects : /\ table[p].registration_ids = projects[p].registration_ids
                            /\ table[p].refcount = projects[p].refcount
      /\ \A p \in Projects \ {target[t]} : table[p] = projects[p]
  BY <1>1 DEF IInv, TypeOK, Stopped, Entry
<1>3. /\ registrations' \in [Tokens -> Projects \cup {None}]
      /\ \A k \in Tokens : /\ registrations'[k] \in {registrations[k], None}
                          /\ registrations'[k] # target[t]
  BY DEF IInv, TypeOK, NobodyServedByThePending, Live, Suspended
<1>4. AfterStop(t) \in SUBSET Clients /\ Begin(t, table, AfterStop(t))
  BY DEF IInv, TypeOK, AfterStop
<1> QED
  BY <1>1, <1>2, <1>3, <1>4, BeginPreserves

LEMMA StartSucceedsPreserves ==
  ASSUME IInv, NEW t \in Tasks, StartSucceeds(t)
  PROVE  IInv'
<1> USE DEF IInv, StartSucceeds, Return
<1> DEFINE p == target[t]
           new == [client |-> client[t], refcount |-> 1,
                   registration_ids |-> {token[t]}, status |-> "started"]
<1>1. /\ p \in Projects /\ token[t] \in issued /\ issued \subseteq Tokens
      /\ \A u \in Tasks \ {t} : pc[u] \notin Suspended
  BY NoneAssumption DEF TaskOK, LockOK, TypeOK, Registering, Suspended
<1>2. /\ projects'[p] = new
      /\ \A q \in Projects \ {p} : projects'[q] = projects[q]
      /\ new \in Entry /\ new # Absent
      /\ new.registration_ids = {token[t]} /\ new.refcount = 1
  BY <1>1 DEF TypeOK, Entry, Absent
<1>3. TypeOK'
  <2>1. projects' \in [Projects -> Entry]
    BY <1>2 DEF TypeOK
  <2>2. registrations' \in [Tokens -> Projects \cup {None}]
    BY <1>1 DEF TypeOK
  <2> QED
    BY <2>1, <2>2 DEF TypeOK, Pc
<1> HIDE DEF new
<1>4. LockOK' /\ TaskOK'
  BY <1>1, NoneAssumption DEF LockOK, TaskOK, TypeOK, Registering, Suspended
<1>5. TokensApart'
  <2>1. \A q \in Projects : projects'[q].registration_ids \subseteq issued
    BY <1>1, <1>2 DEF TokensApart
  <2>2. ASSUME NEW u \in Tasks, pc'[u] \in Registering
        PROVE  /\ \A q \in Projects : token[u] \notin projects'[q].registration_ids
               /\ \A v \in Tasks \ {u} : pc'[v] \in Registering => token[v] # token[u]
    <3>1. u # t /\ pc'[u] = pc[u]
      BY <2>2 DEF TypeOK, Registering
    <3>2. token[u] # token[t]
      BY <2>2, <3>1 DEF TokensApart, Registering
    <3> QED
      BY <2>2, <3>1, <3>2, <1>2 DEF TokensApart, TypeOK, Registering
  <2> QED
    BY <2>1, <2>2 DEF TokensApart
<1>6. TokenNamesEntry'
  <2>1. \A k \in Tokens : registrations[k] # p
    BY DEF NobodyServedByThePending, Live, Suspended
  <2> QED
    BY <2>1, <1>1, <1>2 DEF TokenNamesEntry, TypeOK
<1>7. RefcountIsTokenCount'
  <2>1. \A q \in Projects \ {p} : projects'[q].refcount = Cardinality(projects'[q].registration_ids)
    BY <1>2 DEF RefcountIsTokenCount
  <2>2. projects'[p].refcount = Cardinality(projects'[p].registration_ids)
    BY <1>2, FS_Singleton
  <2> QED
    BY <2>1, <2>2 DEF RefcountIsTokenCount
<1>8. NobodyServedByThePending'
  BY <1>1 DEF NobodyServedByThePending, TypeOK, Suspended
<1> QED
  BY <1>3, <1>4, <1>5, <1>6, <1>7, <1>8

\* A suspended task deletes its entry and returns: StartRaises, NewStopped and
\* LastStopped.
LEMMA DeletePreserves ==
  ASSUME IInv, NEW t \in Tasks, pc[t] \in Suspended,
         projects' = [projects EXCEPT ![target[t]] = Absent],
         running' \in SUBSET Clients, Return(t),
         UNCHANGED <<registrations, issued, target, force, token, closed>>
  PROVE  IInv'
<1> USE DEF IInv, Return
<1>1. /\ target[t] \in Projects
      /\ \A u \in Tasks \ {t} : pc[u] \notin Suspended
  BY NoneAssumption DEF TaskOK, LockOK, TypeOK, Suspended
<1>2. /\ Absent \in Entry /\ Absent.registration_ids = {} /\ Absent.refcount = 0
      /\ projects'[target[t]] = Absent
      /\ \A q \in Projects \ {target[t]} : projects'[q] = projects[q]
  BY <1>1 DEF Absent, Entry, TypeOK
<1>3. TypeOK'
  BY <1>2 DEF TypeOK, Pc
<1>4. LockOK' /\ TaskOK'
  BY <1>1, NoneAssumption DEF LockOK, TaskOK, TypeOK, Registering, Suspended
<1>5. TokensApart'
  <2>1. \A q \in Projects : \/ projects'[q].registration_ids = {}
                           \/ projects'[q].registration_ids = projects[q].registration_ids
    BY <1>2
  <2>2. \A u \in Tasks : pc'[u] \in Registering => pc[u] \in Registering
    BY DEF TypeOK, Registering
  <2> QED
    BY <2>1, <2>2 DEF TokensApart
<1>6. TokenNamesEntry'
  <2>1. \A k \in Tokens : registrations[k] # target[t]
    BY DEF NobodyServedByThePending, Live
  <2> QED
    BY <2>1, <1>1, <1>2 DEF TokenNamesEntry, TypeOK
<1>7. RefcountIsTokenCount'
  BY <1>2, FS_EmptySet DEF RefcountIsTokenCount
<1>8. NobodyServedByThePending'
  BY <1>1 DEF NobodyServedByThePending, Live, TypeOK, Suspended
<1> QED
  BY <1>3, <1>4, <1>5, <1>6, <1>7, <1>8

LEMMA StartTimesOutPreserves ==
  ASSUME IInv, NEW t \in Tasks, StartTimesOut(t)
  PROVE  IInv'
<1> USE DEF IInv, StartTimesOut
<1>1. TypeOK'
  BY DEF TypeOK, Pc, Suspended
<1>2. LockOK' /\ TaskOK'
  BY DEF LockOK, TaskOK, TypeOK, Registering, Suspended
<1>3. TokensApart'
  <2>1. \A u \in Tasks : pc'[u] \in Registering => pc[u] \in Registering
    BY DEF TypeOK, Registering
  <2> QED
    BY <2>1 DEF TokensApart
<1>4. TokenNamesEntry' /\ RefcountIsTokenCount'
  BY DEF TokenNamesEntry, RefcountIsTokenCount
<1>5. NobodyServedByThePending'
  BY DEF NobodyServedByThePending, Live, TypeOK, Suspended
<1> QED
  BY <1>1, <1>2, <1>3, <1>4, <1>5

-----------------------------------------------------------------------------
(* deregister, cancellation and shutdown *)

\* A task returns, and the registrations and the entries stay as they were.
LEMMA ReturnPreserves ==
  ASSUME IInv, NEW t \in Tasks, pc' = [pc EXCEPT ![t] = "idle"],
         client' \in [Tasks -> Clients \cup {None}],
         \/ pc[t] \in Suspended /\ lock' = None
         \/ pc[t] \notin Suspended /\ lock' = lock,
         running' \in SUBSET Clients,
         UNCHANGED <<projects, registrations, issued, target, force, token, closed>>
  PROVE  IInv'
<1> USE DEF IInv
<1>1. TypeOK'
  BY DEF TypeOK, Pc
<1>2. LockOK' /\ TaskOK'
  BY NoneAssumption DEF LockOK, TaskOK, TypeOK, Registering, Suspended
<1>3. TokensApart'
  <2>1. \A u \in Tasks : pc'[u] \in Registering => pc[u] \in Registering
    BY DEF TypeOK, Registering
  <2> QED
    BY <2>1 DEF TokensApart
<1>4. TokenNamesEntry' /\ RefcountIsTokenCount'
  BY DEF TokenNamesEntry, RefcountIsTokenCount
<1>5. NobodyServedByThePending'
  BY DEF NobodyServedByThePending, Live, TypeOK, Suspended
<1> QED
  BY <1>1, <1>2, <1>3, <1>4, <1>5

\* What a task that returns the token k of the project p finds.
LEMMA ReturnedFacts ==
  ASSUME IInv, NEW k \in Tokens, NEW p \in Projects, registrations[k] = p
  PROVE  /\ projects[p] \in Entry /\ projects[p] # Absent
         /\ k \in projects[p].registration_ids
         /\ IsFiniteSet(projects[p].registration_ids)
         /\ Cardinality(projects[p].registration_ids \ {k}) = projects[p].refcount - 1
<1> USE DEF IInv
<1>1. projects[p] \in Entry
  BY DEF TypeOK
<1>2. projects[p] # Absent /\ k \in projects[p].registration_ids
  BY NoneAssumption DEF TokenNamesEntry
<1>3. IsFiniteSet(projects[p].registration_ids)
  BY <1>1, FS_Subset, TokensAssumption DEF Entry
<1>4. Cardinality(projects[p].registration_ids \ {k}) = projects[p].refcount - 1
  BY <1>2, <1>3, FS_RemoveElement DEF RefcountIsTokenCount
<1> QED
  BY <1>1, <1>2, <1>3, <1>4

\* One registration of an entry is returned, whether the task then returns or
\* suspends on the last stop.
LEMMA ReleasePreserves ==
  ASSUME IInv, NEW t \in Tasks, NEW k \in Tokens, NEW p \in Projects, NEW e \in Entry,
         pc[t] = "deregister", lock = None, token[t] = k, registrations[k] = p,
         registrations' = [registrations EXCEPT ![k] = None],
         projects' = [projects EXCEPT ![p] = e],
         e.registration_ids \in {{}, projects[p].registration_ids \ {k}},
         e.refcount = Cardinality(e.registration_ids),
         e = Absent \/ e.registration_ids = {} => projects[p].registration_ids = {k},
         e # Absent \/ projects[p].registration_ids = {k},
         \/ /\ pc' = [pc EXCEPT ![t] = "idle"] /\ lock' = None
            /\ target' = target \/ target' = [target EXCEPT ![t] = p]
         \/ /\ pc' = [pc EXCEPT ![t] = "stopLast"] /\ lock' = t
            /\ target' = [target EXCEPT ![t] = p]
            /\ projects[p].registration_ids = {k},
         client' \in [Tasks -> Clients \cup {None}],
         UNCHANGED <<issued, running, force, token, closed>>
  PROVE  IInv'
<1> USE DEF IInv
<1>1. /\ token[t] \in issued /\ issued \subseteq Tokens
      /\ \A u \in Tasks : pc[u] \notin Suspended
  BY NoneAssumption DEF TaskOK, LockOK, TypeOK, Registering, Suspended
<1>2. /\ projects'[p] = e
      /\ \A q \in Projects \ {p} : projects'[q] = projects[q]
  BY DEF TypeOK
<1>3. TypeOK'
  <2>1. projects' \in [Projects -> Entry]
    BY DEF TypeOK
  <2>2. registrations' \in [Tokens -> Projects \cup {None}]
    BY DEF TypeOK
  <2> QED
    BY <2>1, <2>2 DEF TypeOK, Pc, Suspended
<1>4. LockOK'
  BY <1>1, NoneAssumption DEF LockOK, TypeOK, Suspended
<1>5. TaskOK'
  BY <1>1 DEF TaskOK, TypeOK, Registering, Suspended
<1>6. TokensApart'
  <2>1. \A q \in Projects : projects'[q].registration_ids \subseteq projects[q].registration_ids
    BY <1>2
  <2>2. \A u \in Tasks : pc'[u] \in Registering => pc[u] \in Registering
    BY DEF TypeOK, Registering
  <2> QED
    BY <2>1, <2>2 DEF TokensApart
<1>7. TokenNamesEntry'
  <2>1. ASSUME NEW j \in Tokens, registrations'[j] # None
        PROVE  /\ projects'[registrations'[j]] # Absent
               /\ j \in projects'[registrations'[j]].registration_ids
    <3>1. j # k /\ registrations'[j] = registrations[j]
      BY <2>1 DEF TypeOK
    <3>2. registrations[j] \in Projects
      BY <2>1, <3>1 DEF TypeOK
    <3>3. /\ projects[registrations[j]] # Absent
          /\ j \in projects[registrations[j]].registration_ids
      BY <2>1, <3>1 DEF TokenNamesEntry
    <3> QED
      BY <3>1, <3>2, <3>3, <1>2
  <2> QED
    BY <2>1 DEF TokenNamesEntry
<1>8. RefcountIsTokenCount'
  BY <1>2 DEF RefcountIsTokenCount
<1>9. NobodyServedByThePending'
  <2>1. ASSUME NEW u \in Tasks, pc'[u] \in Suspended PROVE Live(target[u])' = {}
    <3>1. u = t /\ target'[u] = p /\ projects[p].registration_ids = {k}
      BY <2>1, <1>1 DEF TypeOK, Suspended
    <3>2. \A j \in Tokens : registrations'[j] # p
      BY <3>1, NoneAssumption DEF TokenNamesEntry, TypeOK
    <3> QED
      BY <3>1, <3>2 DEF Live
  <2> QED
    BY <2>1 DEF NobodyServedByThePending
<1> QED
  BY <1>3, <1>4, <1>5, <1>6, <1>7, <1>8, <1>9

LEMMA DeregisterSharedPreserves ==
  ASSUME IInv, NEW t \in Tasks, DeregisterShared(t)
  PROVE  IInv'
<1> DEFINE k == token[t]
           p == registrations[k]
           e == Released(projects[p], k)
<1>1. k \in Tokens /\ p \in Projects
  BY DEF DeregisterShared, IInv, TaskOK, TypeOK
<1>2. /\ projects[p] \in Entry /\ projects[p] # Absent
      /\ k \in projects[p].registration_ids
      /\ Cardinality(projects[p].registration_ids \ {k}) = projects[p].refcount - 1
  BY <1>1, ReturnedFacts
<1>3. /\ e \in Entry
      /\ e.registration_ids = projects[p].registration_ids \ {k}
      /\ e.refcount = projects[p].refcount - 1
  <2> HIDE DEF k, p
  <2>1. projects[p] \in Entry
    BY <1>2
  <2> QED
    BY <1>1, <2>1, EntryUpdates
<1>4. projects[p].refcount - 1 # 0 /\ projects[p].refcount \in Int
  BY <1>1, <1>2 DEF DeregisterShared, IsLast, Entry
<1>5. e.registration_ids # {} /\ e # Absent
  <2>1. Absent.refcount = 0
    BY DEF Absent
  <2>2. Cardinality({}) = 0
    BY FS_EmptySet
  <2> HIDE DEF k, p, e
  <2> QED
    BY <1>2, <1>3, <1>4, <2>1, <2>2
<1>6. client' \in [Tasks -> Clients \cup {None}]
  BY DEF DeregisterShared, Return, IInv, TypeOK
<1>7. /\ pc[t] = "deregister" /\ lock = None
      /\ registrations' = [registrations EXCEPT ![k] = None]
      /\ projects' = [projects EXCEPT ![p] = e]
      /\ pc' = [pc EXCEPT ![t] = "idle"] /\ lock' = None
      /\ UNCHANGED <<issued, running, target, force, token, closed>>
  BY <1>2 DEF DeregisterShared, Return
<1> HIDE DEF k, p, e
<1>8. k = token[t] /\ registrations[k] = p
  BY DEF k, p
<1> QED
  BY <1>1, <1>2, <1>3, <1>5, <1>6, <1>7, <1>8, ReleasePreserves

LEMMA DeregisterLastPreserves ==
  ASSUME IInv, NEW t \in Tasks, DeregisterLast(t)
  PROVE  IInv'
<1> DEFINE k == token[t]
           p == registrations[k]
           e == IF projects[p].client = None THEN Absent ELSE Released(projects[p], k)
<1>1. k \in Tokens /\ p \in Projects
  BY DEF DeregisterLast, IInv, TaskOK, TypeOK
<1>2. /\ projects[p] \in Entry /\ projects[p] # Absent
      /\ k \in projects[p].registration_ids
      /\ IsFiniteSet(projects[p].registration_ids)
      /\ Cardinality(projects[p].registration_ids \ {k}) = projects[p].refcount - 1
  BY <1>1, ReturnedFacts
<1>3. projects[p].registration_ids = {k}
  <2>1. projects[p].refcount - 1 <= 0
    BY DEF DeregisterLast, IsLast
  <2> HIDE DEF k, p
  <2>2. IsFiniteSet(projects[p].registration_ids \ {k})
    BY <1>2, FS_Difference
  <2>3. Cardinality(projects[p].registration_ids \ {k}) = 0
    BY <1>2, <2>1, <2>2, FS_CardinalityType DEF Entry
  <2>4. projects[p].registration_ids \ {k} = {}
    BY <2>2, <2>3, FS_EmptySet
  <2> QED
    BY <1>2, <2>4
<1>4. /\ e \in Entry /\ e.registration_ids = {}
      /\ e.refcount = Cardinality(e.registration_ids)
  <2> HIDE DEF k, p
  <2>1. Cardinality({}) = 0
    BY FS_EmptySet
  <2>2. CASE projects[p].client = None
    <3>1. Absent \in Entry /\ Absent.registration_ids = {} /\ Absent.refcount = 0
      BY DEF Absent, Entry
    <3> QED
      BY <2>1, <2>2, <3>1
  <2>3. CASE projects[p].client # None
    <3>1. projects[p] \in Entry
      BY <1>2
    <3>2. /\ Released(projects[p], k) \in Entry
          /\ Released(projects[p], k).registration_ids = projects[p].registration_ids \ {k}
          /\ Released(projects[p], k).refcount = projects[p].refcount - 1
      BY <1>1, <3>1, EntryUpdates
    <3>3. projects[p].registration_ids \ {k} = {}
      BY <1>3
    <3> QED
      BY <1>2, <2>1, <2>3, <3>2, <3>3
  <2> QED
    BY <2>2, <2>3
<1>5. client' \in [Tasks -> Clients \cup {None}]
  <2>1. projects[p].client \in Clients \cup {None}
    BY <1>2 DEF Entry
  <2> QED
    BY <2>1 DEF DeregisterLast, Return, Suspend, IInv, TypeOK
<1>6. /\ pc[t] = "deregister" /\ lock = None
      /\ registrations' = [registrations EXCEPT ![k] = None]
      /\ target' = [target EXCEPT ![t] = p]
      /\ UNCHANGED <<issued, running, force, token, closed>>
  BY DEF DeregisterLast
<1>7. projects' = [projects EXCEPT ![p] = e]
  BY DEF DeregisterLast
<1>8. \/ pc' = [pc EXCEPT ![t] = "idle"] /\ lock' = None
      \/ pc' = [pc EXCEPT ![t] = "stopLast"] /\ lock' = t
  BY DEF DeregisterLast, Return, Suspend
<1> HIDE DEF k, p, e
<1>9. k = token[t] /\ registrations[k] = p
  BY DEF k, p
<1> QED
  BY <1>1, <1>3, <1>4, <1>5, <1>6, <1>7, <1>8, <1>9, ReleasePreserves

LEMMA ShutdownAllPreserves ==
  ASSUME IInv, ShutdownAll
  PROVE  IInv'
<1> USE DEF IInv, ShutdownAll
<1>1. Absent \in Entry /\ Absent.registration_ids = {} /\ Absent.refcount = 0
  BY DEF Absent, Entry
<1>2. \A p \in Projects : projects'[p] = Absent
  OBVIOUS
<1>3. TypeOK'
  BY <1>1 DEF TypeOK
<1>4. LockOK' /\ TaskOK'
  BY DEF LockOK, TaskOK, Registering, Suspended
<1>5. TokensApart'
  BY <1>1, <1>2 DEF TokensApart, Registering
<1>6. TokenNamesEntry' /\ NobodyServedByThePending'
  BY DEF TokenNamesEntry, NobodyServedByThePending, Suspended
<1>7. RefcountIsTokenCount'
  BY <1>1, <1>2, FS_EmptySet DEF RefcountIsTokenCount
<1> QED
  BY <1>3, <1>4, <1>5, <1>6, <1>7

-----------------------------------------------------------------------------
(* The theorems *)

\* Every step preserves the inductive invariant.
LEMMA NextPreserves == IInv /\ [Next]_vars => IInv'
<1> SUFFICES ASSUME IInv, [Next]_vars PROVE IInv'
  OBVIOUS
<1>1. CASE UNCHANGED vars
  BY <1>1 DEF vars, IInv, TypeOK, LockOK, TaskOK, TokensApart, TokenNamesEntry,
     RefcountIsTokenCount, NobodyServedByThePending, Live
<1>2. CASE ShutdownAll
  BY <1>2, ShutdownAllPreserves
<1>3. ASSUME NEW t \in Tasks, Call(t) PROVE IInv'
  BY <1>3, CallPreserves
<1>4. ASSUME NEW t \in Tasks, Enter(t) PROVE IInv'
  <2>1. CASE DeregisterUnknown(t)
    BY <2>1, ReturnPreserves DEF DeregisterUnknown, Return, IInv, TypeOK, Suspended
  <2> QED
    BY <1>4, <2>1, RegisterHitPreserves, RegisterNewPreserves, RegisterForcePreserves,
       RegisterForceIdlePreserves, DeregisterSharedPreserves, DeregisterLastPreserves
       DEF Enter
<1>5. ASSUME NEW t \in Tasks, Resume(t) PROVE IInv'
  <2>1. CASE StartRaises(t) \/ NewStopped(t) \/ LastStopped(t)
    <3>1. running' \in SUBSET Clients
      BY <2>1 DEF StartRaises, NewStopped, LastStopped, AfterStop, IInv, TypeOK
    <3> QED
      BY <2>1, <3>1, DeletePreserves DEF StartRaises, NewStopped, LastStopped, Suspended
  <2> QED
    BY <1>5, <2>1, OldStoppedPreserves, StartSucceedsPreserves, StartTimesOutPreserves
       DEF Resume
<1>6. ASSUME NEW t \in Tasks, Cancel(t) PROVE IInv'
  <2>1. CASE CancelWaiting(t)
    BY <2>1, ReturnPreserves DEF CancelWaiting, IInv, TypeOK, Suspended
  <2>2. CASE CancelSuspended(t)
    <3>1. running' \in SUBSET Clients /\ client' \in [Tasks -> Clients \cup {None}]
      BY <2>2 DEF CancelSuspended, Return, AfterStop, IInv, TypeOK
    <3> QED
      BY <2>2, <3>1, ReturnPreserves DEF CancelSuspended, Return
  <2> QED
    BY <1>6, <2>1, <2>2 DEF Cancel
<1> QED
  BY <1>1, <1>2, <1>3, <1>4, <1>5, <1>6 DEF Next

\* The registry's state is well typed, a token it knows names an entry that lists
\* it, the refcount of an entry is the number of its tokens, and no registration
\* names a project whose server is being started or stopped, with every fault.
THEOREM RegistrySafe ==
  Spec => [](TypeOK /\ TokenNamesEntry /\ RefcountIsTokenCount /\ NobodyServedByThePending)
<1>1. IInv => TypeOK /\ TokenNamesEntry /\ RefcountIsTokenCount /\ NobodyServedByThePending
  BY DEF IInv
<1> QED
  BY <1>1, InitIInv, NextPreserves, PTL DEF Spec

\* No step replaces the client under a registration that outlives it.
LEMMA StepKeepsServer ==
  ASSUME IInv, [Next]_vars, NEW k \in Tokens, NEW p \in Projects,
         registrations[k] = p, registrations'[k] = p
  PROVE  projects'[p].client = projects[p].client
<1> USE DEF IInv
<1>1. projects \in [Projects -> Entry] /\ projects[p] \in Entry
  BY DEF TypeOK
<1>2. \A t \in Tasks : pc[t] \in Suspended => target[t] # p
  BY DEF NobodyServedByThePending, Live
<1>3. projects[p] # Absent /\ k \in projects[p].registration_ids
  BY NoneAssumption DEF TokenNamesEntry
<1>4. CASE UNCHANGED vars
  BY <1>4 DEF vars
<1>5. CASE ShutdownAll
  BY <1>5, NoneAssumption DEF ShutdownAll
<1>6. ASSUME NEW t \in Tasks, Call(t) PROVE projects' = projects
  BY <1>6 DEF Call, CallRegister, CallDeregister
<1>7. ASSUME NEW t \in Tasks, NEW table, DOMAIN table = Projects, NEW left,
             Begin(t, table, left), target[t] # p
      PROVE  projects'[p] = table[p]
  BY <1>7 DEF Begin, ConfigureFails, Launch
<1>8. ASSUME NEW t \in Tasks, Enter(t) PROVE projects'[p].client = projects[p].client
  <2>1. CASE RegisterHit(t)
    <3>1. token[t] \in Tokens
      BY <2>1 DEF RegisterHit, TaskOK, TypeOK, Registering
    <3>2. Joined(projects[p], token[t]).client = projects[p].client
      BY <1>1, <3>1, EntryUpdates
    <3> QED
      BY <1>1, <2>1, <3>2 DEF RegisterHit
  <2>2. CASE RegisterNew(t)
    <3>1. target[t] # p
      BY <1>3, <2>2 DEF RegisterNew
    <3>2. Begin(t, projects, running)
      BY <2>2 DEF RegisterNew
    <3> QED
      BY <1>1, <1>7, <3>1, <3>2
  <2>3. CASE RegisterForce(t)
    BY <2>3 DEF RegisterForce
  <2>4. CASE RegisterForceIdle(t)
    <3>1. target[t] # p
      BY <1>3, <2>4, NoneAssumption DEF RegisterForceIdle, Invalidated
    <3> DEFINE table == [projects EXCEPT ![target[t]] = Stopped(@)]
    <3>2. table[p] = projects[p] /\ DOMAIN table = Projects
      BY <1>1, <3>1
    <3>3. Begin(t, table, running)
      BY <2>4 DEF RegisterForceIdle
    <3> HIDE DEF table
    <3> QED
      BY <1>7, <3>1, <3>2, <3>3
  <2>5. CASE DeregisterUnknown(t)
    BY <2>5 DEF DeregisterUnknown
  <2>6. CASE DeregisterShared(t)
    <3>1. token[t] \in Tokens
      BY <2>6 DEF DeregisterShared, TaskOK, TypeOK, Registering
    <3>2. Released(projects[p], token[t]).client = projects[p].client
      BY <1>1, <3>1, EntryUpdates
    <3> QED
      BY <1>1, <2>6, <3>2 DEF DeregisterShared
  <2>7. CASE DeregisterLast(t)
    <3>1. token[t] \in Tokens /\ registrations[token[t]] \in Projects
      BY <2>7 DEF DeregisterLast, TaskOK, TypeOK, Registering
    <3>2. registrations[token[t]] # p
      <4>1. SUFFICES ASSUME registrations[token[t]] = p PROVE FALSE
        OBVIOUS
      <4>2. token[t] # k
        BY <2>7, NoneAssumption DEF DeregisterLast, TypeOK
      <4>3. /\ IsFiniteSet(projects[p].registration_ids \ {token[t]})
            /\ Cardinality(projects[p].registration_ids \ {token[t]}) = projects[p].refcount - 1
        BY <3>1, <4>1, ReturnedFacts, FS_Difference
      <4>4. projects[p].refcount - 1 <= 0 /\ projects[p].refcount \in Int
        BY <1>1, <2>7, <4>1 DEF DeregisterLast, IsLast, Entry
      <4>5. projects[p].registration_ids \ {token[t]} = {}
        BY <4>3, <4>4, FS_EmptySet, FS_CardinalityType
      <4> QED
        BY <1>3, <4>2, <4>5
    <3> QED
      BY <1>1, <2>7, <3>2 DEF DeregisterLast
  <2> QED
    BY <1>8, <2>1, <2>2, <2>3, <2>4, <2>5, <2>6, <2>7 DEF Enter
<1>9. ASSUME NEW t \in Tasks, Resume(t) PROVE projects'[p].client = projects[p].client
  <2>1. target[t] # p
    BY <1>2, <1>9 DEF Resume, OldStopped, StartSucceeds, StartRaises, StartTimesOut,
       NewStopped, LastStopped, Suspended
  <2>2. CASE OldStopped(t)
    <3> DEFINE table == [projects EXCEPT ![target[t]] = Stopped(@)]
    <3>1. table[p] = projects[p] /\ DOMAIN table = Projects
      BY <1>1, <2>1
    <3>2. Begin(t, table, AfterStop(t))
      BY <2>2 DEF OldStopped
    <3> HIDE DEF table
    <3> QED
      BY <1>7, <2>1, <3>1, <3>2
  <2>3. CASE ~OldStopped(t)
    BY <1>1, <1>9, <2>1, <2>3 DEF Resume, StartSucceeds, StartRaises, StartTimesOut,
       NewStopped, LastStopped
  <2> QED
    BY <2>2, <2>3
<1>10. ASSUME NEW t \in Tasks, Cancel(t) PROVE projects' = projects
  BY <1>10 DEF Cancel, CancelWaiting, CancelSuspended
<1> QED
  BY <1>4, <1>5, <1>6, <1>8, <1>9, <1>10 DEF Next

\* A registration is served by the client it was made with for as long as it is
\* known, whatever other sessions and faults do.
THEOREM RegistryKeepsServers == Spec => SameServerWhileRegistered
<1>1. IInv /\ [Next]_vars =>
        [\A k \in Tokens : LET p == registrations[k] IN
           p # None /\ registrations'[k] = p => projects'[p].client = projects[p].client]_vars
  BY StepKeepsServer DEF IInv, TypeOK
<1>2. Spec => []IInv
  BY InitIInv, NextPreserves, PTL DEF Spec
<1> QED
  BY <1>1, <1>2, PTL DEF Spec, SameServerWhileRegistered

\* The registry's tables, the calls under way and the processes keep their types
\* (ProjectRegistry.__init__), for any projects, tasks, tokens and faults.
THEOREM RegistryTyped == Spec => []TypeOK
BY RegistrySafe, PTL

-----------------------------------------------------------------------------
(* Clients *)

Stopping == {"stopOld", "stopLast"}
Starting == {"starting", "stopNew"}

\* A server belongs to one entry or to one task: a task that stops one has it from
\* its entry, a task that starts one has it alone.
ClientsApart ==
  /\ \A p, q \in Projects :
       projects[p].client # None /\ projects[p].client = projects[q].client => p = q
  /\ \A t \in Tasks :
       /\ pc[t] \notin Suspended => client[t] = None
       /\ pc[t] \in Stopping =>
            client[t] # None /\ client[t] = projects[target[t]].client
       /\ pc[t] \in Starting =>
            /\ client[t] # None /\ projects[target[t]].client = None
            /\ \A p \in Projects : projects[p].client # client[t]

\* A token that an entry lists is a registration of its project, or of none any more.
IdsAreOfEntry ==
  \A p \in Projects : \A k \in projects[p].registration_ids : registrations[k] \in {p, None}

Tidy == ClientsApart /\ IdsAreOfEntry

\* While a task is inside the lock, or when nobody is, no other task is.
LEMMA OthersOutside ==
  ASSUME IInv, NEW t \in Tasks, lock \in {None, t}
  PROVE  \A u \in Tasks \ {t} : pc[u] \notin Suspended
BY NoneAssumption DEF IInv, LockOK

\* A step of a task that has the lock, and gives no entry a client.
LEMMA ApartStep ==
  ASSUME ClientsApart, NEW t \in Tasks,
         \A u \in Tasks \ {t} : /\ pc[u] \notin Suspended
                                /\ pc'[u] = pc[u] /\ client'[u] = client[u],
         \A p \in Projects : projects'[p].client \in {projects[p].client, None},
         pc'[t] \notin Suspended => client'[t] = None,
         pc'[t] \in Stopping =>
           client'[t] # None /\ client'[t] = projects'[target'[t]].client,
         pc'[t] \in Starting =>
           /\ client'[t] # None /\ projects'[target'[t]].client = None
           /\ \A p \in Projects : projects'[p].client # client'[t]
  PROVE  ClientsApart'
<1>1. \A p, q \in Projects :
        projects'[p].client # None /\ projects'[p].client = projects'[q].client => p = q
  BY DEF ClientsApart
<1>2. ASSUME NEW u \in Tasks \ {t}
      PROVE  pc'[u] \notin Suspended /\ client'[u] = None
  BY DEF ClientsApart
<1>3. Stopping \subseteq Suspended /\ Starting \subseteq Suspended
  BY DEF Stopping, Starting, Suspended
<1> QED
  BY <1>1, <1>2, <1>3 DEF ClientsApart

\* A step that takes registrations away adds none to an entry.
LEMMA IdsStep ==
  ASSUME IInv, IdsAreOfEntry,
         \A p \in Projects : projects'[p].registration_ids \subseteq projects[p].registration_ids,
         \A k \in Tokens : registrations'[k] \in {registrations[k], None}
  PROVE  IdsAreOfEntry'
<1>1. \A p \in Projects : projects[p].registration_ids \subseteq Tokens
  BY DEF IInv, TypeOK, Entry
<1> QED
  BY <1>1 DEF IdsAreOfEntry

\* The client, the tokens and the count of an entry that is being started.
LEMMA BeginStep ==
  ASSUME NEW t \in Tasks, target[t] \in Projects, NEW table \in [Projects -> Entry],
         NEW left, client \in [Tasks -> Clients \cup {None}], pc \in [Tasks -> Pc],
         Begin(t, table, left)
  PROVE  \/ /\ "configure" \in Faults
            /\ projects' = table /\ running' = left /\ lock' = None
            /\ pc' = [pc EXCEPT ![t] = "idle"] /\ client' = [client EXCEPT ![t] = None]
         \/ \E c \in Fresh, new \in Entry :
              /\ projects' = [table EXCEPT ![target[t]] = new]
              /\ new # Absent /\ new.client = None /\ new.registration_ids = {}
              /\ running' = left \cup {c} /\ lock' = t
              /\ pc' = [pc EXCEPT ![t] = "starting"] /\ client' = [client EXCEPT ![t] = c]
<1>1. CASE ConfigureFails(t, table) /\ running' = left
  BY <1>1 DEF ConfigureFails, Return
<1>2. CASE Launch(t, table) /\ running' = left \cup {client'[t]}
  <2> DEFINE new == [Absent EXCEPT !.status = "starting"]
  <2>1. new \in Entry /\ new # Absent /\ new.client = None /\ new.registration_ids = {}
    BY DEF Absent, Entry
  <2>2. PICK c \in Fresh : /\ projects' = [table EXCEPT ![target[t]] = new]
                           /\ Suspend(t, "starting", c)
    BY <1>2 DEF Launch
  <2>3. /\ lock' = t /\ pc' = [pc EXCEPT ![t] = "starting"]
        /\ client' = [client EXCEPT ![t] = c]
    BY <2>2 DEF Suspend
  <2>4. running' = left \cup {c}
    BY <1>2, <2>3
  <2> HIDE DEF new
  <2> QED
    BY <2>1, <2>2, <2>3, <2>4
<1> QED
  BY <1>1, <1>2 DEF Begin

\* The last part of register gives no entry a client and adds no token.
LEMMA BeginTidy ==
  ASSUME IInv, Tidy, NEW t \in Tasks, pc[t] \in {"register", "stopOld"}, lock \in {None, t},
         NEW table \in [Projects -> Entry], NEW left,
         table[target[t]].client = None,
         table[target[t]].registration_ids = projects[target[t]].registration_ids,
         \A p \in Projects \ {target[t]} : table[p] = projects[p],
         \A k \in Tokens : registrations'[k] \in {registrations[k], None},
         Begin(t, table, left), target' = target
  PROVE  Tidy'
<1>1. /\ target[t] \in Projects /\ client \in [Tasks -> Clients \cup {None}]
      /\ pc \in [Tasks -> Pc] /\ projects \in [Projects -> Entry]
  BY DEF IInv, TaskOK, TypeOK, Registering
<1>2. \A u \in Tasks \ {t} : pc[u] \notin Suspended
  BY OthersOutside
<1>3. CASE /\ projects' = table
           /\ pc' = [pc EXCEPT ![t] = "idle"] /\ client' = [client EXCEPT ![t] = None]
  <2>1. ClientsApart'
    <3>1. \A p \in Projects : projects'[p].client \in {projects[p].client, None}
      BY <1>1, <1>3
    <3>2. pc'[t] = "idle" /\ client'[t] = None
      BY <1>1, <1>3
    <3>3. \A u \in Tasks \ {t} : pc'[u] = pc[u] /\ client'[u] = client[u]
      BY <1>1, <1>3
    <3> QED
      BY <3>1, <3>2, <3>3, <1>2, ApartStep DEF Tidy, Suspended, Stopping, Starting
  <2>2. IdsAreOfEntry'
    <3>1. \A p \in Projects :
            projects'[p].registration_ids \subseteq projects[p].registration_ids
      BY <1>1, <1>3
    <3> QED
      BY <3>1, IdsStep DEF Tidy
  <2> QED
    BY <2>1, <2>2 DEF Tidy
<1>4. ASSUME NEW c \in Fresh, NEW new \in Entry,
             projects' = [table EXCEPT ![target[t]] = new],
             new.client = None, new.registration_ids = {},
             pc' = [pc EXCEPT ![t] = "starting"], client' = [client EXCEPT ![t] = c]
      PROVE  Tidy'
  <2>1. ClientsApart'
    <3>1. /\ \A p \in Projects : projects'[p].client \in {projects[p].client, None}
          /\ projects'[target[t]].client = None
      BY <1>1, <1>4
    <3>2. pc'[t] = "starting" /\ client'[t] = c
      BY <1>1, <1>4
    <3>3. \A u \in Tasks \ {t} : pc'[u] = pc[u] /\ client'[u] = client[u]
      BY <1>1, <1>4
    <3>4. c # None /\ \A p \in Projects : projects[p].client # c
      BY NoneAssumption DEF Fresh, Owned
    <3> QED
      BY <3>1, <3>2, <3>3, <3>4, <1>2, ApartStep DEF Tidy, Suspended, Stopping, Starting
  <2>2. IdsAreOfEntry'
    <3>1. \A p \in Projects :
            projects'[p].registration_ids \subseteq projects[p].registration_ids
      BY <1>1, <1>4
    <3> QED
      BY <3>1, IdsStep DEF Tidy
  <2> QED
    BY <2>1, <2>2 DEF Tidy
<1>5. \/ /\ projects' = table
         /\ pc' = [pc EXCEPT ![t] = "idle"] /\ client' = [client EXCEPT ![t] = None]
      \/ \E c \in Fresh, new \in Entry :
           /\ projects' = [table EXCEPT ![target[t]] = new]
           /\ new.client = None /\ new.registration_ids = {}
           /\ pc' = [pc EXCEPT ![t] = "starting"] /\ client' = [client EXCEPT ![t] = c]
  <2>1. \/ /\ "configure" \in Faults
            /\ projects' = table /\ running' = left /\ lock' = None
            /\ pc' = [pc EXCEPT ![t] = "idle"] /\ client' = [client EXCEPT ![t] = None]
         \/ \E c \in Fresh, new \in Entry :
              /\ projects' = [table EXCEPT ![target[t]] = new]
              /\ new # Absent /\ new.client = None /\ new.registration_ids = {}
              /\ running' = left \cup {c} /\ lock' = t
              /\ pc' = [pc EXCEPT ![t] = "starting"] /\ client' = [client EXCEPT ![t] = c]
    BY <1>1, BeginStep
  <2> QED
    BY <2>1
<1> QED
  BY <1>3, <1>4, <1>5

LEMMA CallTidy ==
  ASSUME IInv, Tidy, NEW t \in Tasks, Call(t) \/ CancelWaiting(t)
  PROVE  Tidy'
<1>1. /\ UNCHANGED <<projects, registrations, client>>
      /\ pc[t] \notin Suspended /\ pc'[t] \notin Suspended
      /\ \A u \in Tasks \ {t} : pc'[u] = pc[u] /\ target'[u] = target[u]
  BY DEF Call, CallRegister, CallDeregister, CancelWaiting, Suspended, IInv, TypeOK
<1>2. Stopping \subseteq Suspended /\ Starting \subseteq Suspended
  BY DEF Stopping, Starting, Suspended
<1>3. ClientsApart'
  BY <1>1, <1>2 DEF Tidy, ClientsApart
<1>4. IdsAreOfEntry'
  BY <1>1 DEF Tidy, IdsAreOfEntry
<1> QED
  BY <1>3, <1>4 DEF Tidy

LEMMA EnterTidy ==
  ASSUME IInv, Tidy, NEW t \in Tasks, Enter(t)
  PROVE  Tidy'
<1>1. /\ client \in [Tasks -> Clients \cup {None}] /\ pc \in [Tasks -> Pc]
      /\ projects \in [Projects -> Entry] /\ lock = None
      /\ registrations \in [Tokens -> Projects \cup {None}]
      /\ \A u \in Tasks \ {t} : pc[u] \notin Suspended
  BY OthersOutside DEF IInv, TypeOK, Enter, RegisterHit, RegisterNew, RegisterForce,
     RegisterForceIdle, DeregisterUnknown, DeregisterShared, DeregisterLast
<1>2. pc[t] = "register" => target[t] \in Projects /\ token[t] \in Tokens
  BY DEF IInv, TaskOK, TypeOK, Registering
<1>3. pc[t] = "deregister" => token[t] \in Tokens
  BY DEF IInv, TaskOK, TypeOK, Registering
<1>4. ASSUME Return(t)
      PROVE  /\ pc'[t] \notin Suspended /\ client'[t] = None
             /\ \A u \in Tasks \ {t} : pc'[u] = pc[u] /\ client'[u] = client[u]
  BY <1>1, <1>4 DEF Return, Suspended
<1>5. ASSUME Return(t), \A p \in Projects : projects'[p].client \in {projects[p].client, None}
      PROVE  ClientsApart'
  <2>1. Stopping \subseteq Suspended /\ Starting \subseteq Suspended
    BY DEF Stopping, Starting, Suspended
  <2> QED
    BY <1>1, <1>4, <1>5, <2>1, ApartStep DEF Tidy
<1>6. CASE RegisterHit(t)
  <2> DEFINE p == target[t]
             k == token[t]
  <2>1. p \in Projects /\ k \in Tokens /\ projects[p] \in Entry
    BY <1>1, <1>2, <1>6 DEF RegisterHit
  <2>2. /\ projects' = [projects EXCEPT ![p] = Joined(projects[p], k)]
        /\ registrations' = [registrations EXCEPT ![k] = p] /\ Return(t)
    BY <1>6 DEF RegisterHit
  <2>3. /\ Joined(projects[p], k).client = projects[p].client
        /\ Joined(projects[p], k).registration_ids = projects[p].registration_ids \cup {k}
    BY <2>1, EntryUpdates
  <2>4. \A q \in Projects : k \notin projects[q].registration_ids
    BY <1>6 DEF RegisterHit, IInv, TokensApart, Registering
  <2> HIDE DEF p, k
  <2>5. \A q \in Projects : projects'[q].client = projects[q].client
    BY <1>1, <2>1, <2>2, <2>3
  <2>6. IdsAreOfEntry'
    <3>1. \A q \in Projects \ {p} : projects'[q] = projects[q]
      BY <1>1, <2>2
    <3>2. projects'[p].registration_ids = projects[p].registration_ids \cup {k}
      BY <1>1, <2>1, <2>2, <2>3
    <3>3. registrations'[k] = p /\ \A j \in Tokens \ {k} : registrations'[j] = registrations[j]
      BY <1>1, <2>1, <2>2
    <3>4. \A q \in Projects : projects[q].registration_ids \subseteq Tokens
      BY <1>1 DEF Entry
    <3> QED
      BY <3>1, <3>2, <3>3, <3>4, <2>1, <2>4 DEF Tidy, IdsAreOfEntry
  <2> QED
    BY <1>5, <2>2, <2>5, <2>6 DEF Tidy
<1>7. CASE RegisterNew(t)
  <2>1. /\ pc[t] = "register" /\ Begin(t, projects, running) /\ target' = target
        /\ projects[target[t]] = Absent /\ registrations' = registrations
    BY <1>7 DEF RegisterNew
  <2>2. projects[target[t]].client = None
    BY <2>1 DEF Absent
  <2> QED
    BY <1>1, <2>1, <2>2, BeginTidy
<1>8. CASE RegisterForce(t)
  <2>1. /\ pc[t] = "register" /\ projects' = projects /\ target' = target
        /\ projects[target[t]].client # None
        /\ pc' = [pc EXCEPT ![t] = "stopOld"]
        /\ client' = [client EXCEPT ![t] = projects[target[t]].client]
        /\ registrations' = Invalidated(target[t])
    BY <1>8 DEF RegisterForce, Suspend
  <2>2. ClientsApart'
    <3>1. pc'[t] = "stopOld" /\ client'[t] = projects'[target'[t]].client /\ client'[t] # None
      BY <1>1, <2>1
    <3>2. \A u \in Tasks \ {t} : pc'[u] = pc[u] /\ client'[u] = client[u]
      BY <1>1, <2>1
    <3> QED
      BY <1>1, <2>1, <3>1, <3>2, ApartStep DEF Tidy, Suspended, Stopping, Starting
  <2>3. IdsAreOfEntry'
    BY <1>2, <2>1, InvalidatedFacts, IdsStep DEF Tidy
  <2> QED
    BY <2>2, <2>3 DEF Tidy
<1>9. CASE RegisterForceIdle(t)
  <2> DEFINE table == [projects EXCEPT ![target[t]] = Stopped(@)]
  <2>1. /\ pc[t] = "register" /\ Begin(t, table, running) /\ target' = target
        /\ registrations' = Invalidated(target[t])
    BY <1>9 DEF RegisterForceIdle
  <2>2. /\ table \in [Projects -> Entry] /\ table[target[t]].client = None
        /\ table[target[t]].registration_ids = projects[target[t]].registration_ids
        /\ \A p \in Projects \ {target[t]} : table[p] = projects[p]
    BY <1>1, <1>2, <2>1 DEF Stopped, Entry
  <2> HIDE DEF table
  <2> QED
    BY <1>1, <1>2, <2>1, <2>2, InvalidatedFacts, BeginTidy
<1>10. CASE DeregisterUnknown(t)
  <2>1. Return(t) /\ UNCHANGED <<projects, registrations>>
    BY <1>10 DEF DeregisterUnknown
  <2> QED
    BY <1>5, <2>1 DEF Tidy, IdsAreOfEntry
<1>11. CASE DeregisterShared(t) \/ DeregisterLast(t)
  <2> DEFINE k == token[t]
             p == registrations[k]
  <2>1. /\ k \in Tokens /\ p \in Projects /\ projects[p] \in Entry
        /\ registrations' = [registrations EXCEPT ![k] = None]
    BY <1>1, <1>3, <1>11 DEF DeregisterShared, DeregisterLast
  <2>2. /\ Released(projects[p], k).client = projects[p].client
        /\ Released(projects[p], k).registration_ids = projects[p].registration_ids \ {k}
        /\ Absent.client = None /\ Absent.registration_ids = {}
    BY <2>1, EntryUpdates DEF Absent
  <2>3. \/ /\ Return(t)
           /\ projects' \in {projects, [projects EXCEPT ![p] = Released(@, k)],
                             [projects EXCEPT ![p] = Absent]}
        \/ /\ pc' = [pc EXCEPT ![t] = "stopLast"] /\ target' = [target EXCEPT ![t] = p]
           /\ projects' = [projects EXCEPT ![p] = Released(@, k)]
           /\ projects[p].client # None
           /\ client' = [client EXCEPT ![t] = projects[p].client]
    BY <1>11 DEF DeregisterShared, DeregisterLast, Suspend
  <2> HIDE DEF k, p
  <2>4. \A q \in Projects :
          /\ projects'[q].client \in {projects[q].client, None}
          /\ projects'[q].registration_ids \subseteq projects[q].registration_ids
    BY <1>1, <2>1, <2>2, <2>3
  <2>5. ClientsApart'
    <3>1. CASE Return(t)
      BY <1>5, <2>4, <3>1
    <3>2. CASE ~Return(t)
      <4>1. pc'[t] = "stopLast" /\ client'[t] = projects[p].client /\ client'[t] # None
        BY <1>1, <2>3, <3>2
      <4>2. \A u \in Tasks \ {t} : pc'[u] = pc[u] /\ client'[u] = client[u]
        BY <1>1, <2>3, <3>2
      <4>3. target'[t] = p
        BY <2>3, <3>2 DEF IInv, TypeOK
      <4>4. projects'[p].client = projects[p].client
        BY <1>1, <2>1, <2>2, <2>3, <3>2
      <4> QED
        BY <1>1, <2>4, <4>1, <4>2, <4>3, <4>4, ApartStep DEF Tidy, Suspended, Stopping, Starting
    <3> QED
      BY <3>1, <3>2
  <2>6. IdsAreOfEntry'
    <3>1. \A j \in Tokens : registrations'[j] \in {registrations[j], None}
      BY <1>1, <2>1
    <3> QED
      BY <2>4, <3>1, IdsStep DEF Tidy
  <2> QED
    BY <2>5, <2>6 DEF Tidy
<1> QED
  BY <1>6, <1>7, <1>8, <1>9, <1>10, <1>11 DEF Enter

LEMMA ResumeTidy ==
  ASSUME IInv, Tidy, NEW t \in Tasks, Resume(t) \/ CancelSuspended(t)
  PROVE  Tidy'
<1>1. /\ client \in [Tasks -> Clients \cup {None}] /\ pc \in [Tasks -> Pc]
      /\ projects \in [Projects -> Entry]
      /\ registrations \in [Tokens -> Projects \cup {None}]
      /\ pc[t] \in Suspended /\ lock = t
      /\ target[t] \in Projects
  BY DEF IInv, TypeOK, TaskOK, LockOK, Suspended, Resume, OldStopped, StartSucceeds,
     StartRaises, StartTimesOut, NewStopped, LastStopped, CancelSuspended
<1>2. \A u \in Tasks \ {t} : pc[u] \notin Suspended
  BY <1>1, OthersOutside
<1>3. ASSUME Return(t), \A p \in Projects : projects'[p].client \in {projects[p].client, None}
      PROVE  ClientsApart'
  <2>1. Stopping \subseteq Suspended /\ Starting \subseteq Suspended
    BY DEF Stopping, Starting, Suspended
  <2>2. /\ pc'[t] \notin Suspended /\ client'[t] = None
        /\ \A u \in Tasks \ {t} : pc'[u] = pc[u] /\ client'[u] = client[u]
    BY <1>1, <1>3 DEF Return, Suspended
  <2> QED
    BY <1>2, <1>3, <2>1, <2>2, ApartStep DEF Tidy
<1>4. CASE OldStopped(t)
  <2> DEFINE table == [projects EXCEPT ![target[t]] = Stopped(@)]
  <2>1. /\ pc[t] = "stopOld" /\ Begin(t, table, AfterStop(t)) /\ target' = target
        /\ registrations' = registrations
    BY <1>4 DEF OldStopped
  <2>2. /\ table \in [Projects -> Entry] /\ table[target[t]].client = None
        /\ table[target[t]].registration_ids = projects[target[t]].registration_ids
        /\ \A p \in Projects \ {target[t]} : table[p] = projects[p]
    BY <1>1 DEF Stopped, Entry
  <2> HIDE DEF table
  <2> QED
    BY <1>1, <2>1, <2>2, BeginTidy
<1>5. CASE StartSucceeds(t)
  <2> DEFINE new == [client |-> client[t], refcount |-> 1, registration_ids |-> {token[t]},
                     status |-> "started"]
  <2>1. /\ pc[t] = "starting" /\ Return(t)
        /\ projects' = [projects EXCEPT ![target[t]] = new]
        /\ registrations' = [registrations EXCEPT ![token[t]] = target[t]]
    BY <1>5 DEF StartSucceeds
  <2>2. new.client = client[t] /\ new.registration_ids = {token[t]}
    OBVIOUS
  <2> HIDE DEF new
  <2>3. /\ projects'[target[t]] = new
        /\ \A p \in Projects \ {target[t]} : projects'[p] = projects[p]
    BY <1>1, <2>1
  <2>4. \A p \in Projects : projects[p].client # client[t]
    BY <2>1 DEF Tidy, ClientsApart, Starting
  <2>5. ClientsApart'
    <3>1. \A p, q \in Projects :
            projects'[p].client # None /\ projects'[p].client = projects'[q].client => p = q
      BY <2>2, <2>3, <2>4 DEF Tidy, ClientsApart
    <3>2. \A u \in Tasks : pc'[u] \notin Suspended /\ client'[u] = None
      <4>1. pc'[t] \notin Suspended /\ client'[t] = None
        BY <1>1, <2>1 DEF Return, Suspended
      <4>2. \A u \in Tasks \ {t} : pc'[u] = pc[u] /\ client'[u] = client[u]
        BY <1>1, <2>1 DEF Return
      <4> QED
        BY <1>2, <4>1, <4>2 DEF Tidy, ClientsApart
    <3> QED
      BY <3>1, <3>2 DEF ClientsApart, Suspended, Stopping, Starting
  <2>6. IdsAreOfEntry'
    <3>1. token[t] \in Tokens
      BY <2>1 DEF IInv, TaskOK, TypeOK, Registering
    <3>2. \A p \in Projects : token[t] \notin projects[p].registration_ids
      BY <2>1 DEF IInv, TokensApart, Registering
    <3>3. /\ registrations'[token[t]] = target[t]
          /\ \A j \in Tokens \ {token[t]} : registrations'[j] = registrations[j]
      BY <1>1, <2>1, <3>1
    <3>4. \A q \in Projects : projects[q].registration_ids \subseteq Tokens
      BY <1>1 DEF Entry
    <3> QED
      BY <2>2, <2>3, <3>2, <3>3, <3>4 DEF Tidy, IdsAreOfEntry
  <2> QED
    BY <2>5, <2>6 DEF Tidy
<1>6. CASE StartTimesOut(t)
  <2>1. /\ pc[t] = "starting" /\ pc' = [pc EXCEPT ![t] = "stopNew"]
        /\ UNCHANGED <<projects, registrations, client, target>>
    BY <1>6 DEF StartTimesOut
  <2>2. /\ pc'[t] = "stopNew" /\ "stopNew" \in Starting /\ "starting" \in Starting
        /\ \A u \in Tasks \ {t} : pc'[u] = pc[u]
    BY <1>1, <2>1 DEF Starting
  <2> QED
    BY <2>1, <2>2 DEF Tidy, ClientsApart, IdsAreOfEntry, Suspended, Stopping, Starting
<1>7. CASE StartRaises(t) \/ NewStopped(t) \/ LastStopped(t) \/ CancelSuspended(t)
  <2>1. /\ Return(t) /\ registrations' = registrations
        /\ projects' \in {projects, [projects EXCEPT ![target[t]] = Absent]}
    BY <1>7 DEF StartRaises, NewStopped, LastStopped, CancelSuspended
  <2>2. \A p \in Projects :
          /\ projects'[p].client \in {projects[p].client, None}
          /\ projects'[p].registration_ids \subseteq projects[p].registration_ids
    <3>1. Absent.client = None /\ Absent.registration_ids = {}
      BY DEF Absent
    <3> QED
      BY <1>1, <2>1, <3>1
  <2> QED
    BY <1>3, <2>1, <2>2, IdsStep DEF Tidy
<1> QED
  BY <1>4, <1>5, <1>6, <1>7 DEF Resume

LEMMA NextTidy == IInv /\ Tidy /\ [Next]_vars => Tidy'
<1> SUFFICES ASSUME IInv, Tidy, [Next]_vars PROVE Tidy'
  OBVIOUS
<1>1. CASE UNCHANGED vars
  BY <1>1 DEF vars, Tidy, ClientsApart, IdsAreOfEntry
<1>2. CASE ShutdownAll
  <2>1. \A p \in Projects : projects'[p].client = None /\ projects'[p].registration_ids = {}
    BY <1>2 DEF ShutdownAll, Absent
  <2>2. \A t \in Tasks : pc'[t] = "idle" /\ client'[t] = client[t] /\ pc[t] = "idle"
    BY <1>2 DEF ShutdownAll
  <2> QED
    BY <2>1, <2>2 DEF Tidy, ClientsApart, IdsAreOfEntry, Suspended, Stopping, Starting
<1> QED
  BY <1>1, <1>2, CallTidy, EnterTidy, ResumeTidy DEF Next, Cancel

LEMMA InitTidy == Init => Tidy
BY DEF Init, Tidy, ClientsApart, IdsAreOfEntry, Absent, Suspended, Stopping, Starting

-----------------------------------------------------------------------------
(* What an instance keeps in which no call is cut off and no adapter refuses *)

\* A task is inside the lock for the project.
Engaged(p) == \E t \in Tasks : pc[t] \in Suspended /\ target[t] = p

\* Unless a task is working on it, an entry has a running server, at least one token,
\* and only tokens that are good.  The server being started runs, for all the task knows.
Kept ==
  /\ \A p \in Projects : ~Engaged(p) =>
       /\ \A k \in projects[p].registration_ids : registrations[k] = p
       /\ projects[p] # Absent => projects[p].refcount > 0 /\ projects[p].client \in running
  /\ \A t \in Tasks : pc[t] \in Starting => client[t] \in running

\* A step of a task that has the lock and works on the project p.
LEMMA KeptStep ==
  ASSUME IInv, Kept, NEW t \in Tasks, NEW p \in Projects,
         \A u \in Tasks \ {t} : pc[u] \notin Suspended /\ pc'[u] = pc[u],
         pc[t] \in Suspended => target[t] = p,
         \A q \in Projects \ {p} :
           /\ projects'[q] = projects[q]
           /\ projects[q].client \in running => projects[q].client \in running'
           /\ \A k \in Tokens : registrations[k] = q => registrations'[k] = q,
         pc'[t] \in Suspended => target'[t] = p,
         pc'[t] \in Starting => client'[t] \in running',
         pc'[t] \notin Suspended =>
           /\ \A k \in projects'[p].registration_ids : registrations'[k] = p
           /\ projects'[p] # Absent =>
                projects'[p].refcount > 0 /\ projects'[p].client \in running'
  PROVE  Kept'
<1>1. Starting \subseteq Suspended
  BY DEF Starting, Suspended
<1>2. \A u \in Tasks : pc'[u] \in Starting => client'[u] \in running'
  BY <1>1
<1>3. ASSUME NEW q \in Projects, ~Engaged(q)'
      PROVE  /\ \A k \in projects'[q].registration_ids : registrations'[k] = q
             /\ projects'[q] # Absent =>
                  projects'[q].refcount > 0 /\ projects'[q].client \in running'
  <2>1. CASE q = p
    BY <1>3, <2>1 DEF Engaged
  <2>2. CASE q # p
    <3>1. ~Engaged(q)
      BY <2>2 DEF Engaged
    <3>2. projects[q].registration_ids \subseteq Tokens
      BY DEF IInv, TypeOK, Entry
    <3>3. /\ \A k \in projects[q].registration_ids : registrations[k] = q
          /\ projects[q] # Absent => projects[q].refcount > 0 /\ projects[q].client \in running
      BY <3>1 DEF Kept
    <3>4. /\ projects'[q] = projects[q]
          /\ projects[q].client \in running => projects[q].client \in running'
          /\ \A k \in Tokens : registrations[k] = q => registrations'[k] = q
      BY <2>2
    <3> QED
      BY <3>2, <3>3, <3>4
  <2> QED
    BY <2>1, <2>2
<1> QED
  BY <1>2, <1>3 DEF Kept

LEMMA CallKept ==
  ASSUME IInv, Kept, NEW t \in Tasks, Call(t)
  PROVE  Kept'
<1>1. /\ UNCHANGED <<projects, registrations, client, running>>
      /\ pc[t] \notin Suspended /\ pc'[t] \notin Suspended
      /\ \A u \in Tasks \ {t} : pc'[u] = pc[u] /\ target'[u] = target[u]
  BY DEF Call, CallRegister, CallDeregister, Suspended, IInv, TypeOK
<1>2. Starting \subseteq Suspended
  BY DEF Starting, Suspended
<1>3. \A p \in Projects : Engaged(p)' <=> Engaged(p)
  BY <1>1 DEF Engaged
<1>4. \A u \in Tasks : pc'[u] \in Starting => pc[u] \in Starting
  BY <1>1, <1>2
<1> QED
  BY <1>1, <1>3, <1>4 DEF Kept

\* Without a fault of the configuration, the rest of register starts a server.
LEMMA BeginKept ==
  ASSUME IInv, Tidy, Kept, "configure" \notin Faults,
         NEW t \in Tasks, pc[t] \in {"register", "stopOld"}, lock \in {None, t},
         NEW table \in [Projects -> Entry], NEW left,
         \A p \in Projects \ {target[t]} :
           /\ table[p] = projects[p]
           /\ projects[p].client \in running => projects[p].client \in left,
         registrations' = registrations,
         Begin(t, table, left), target' = target
  PROVE  Kept'
<1>1. /\ target[t] \in Projects /\ client \in [Tasks -> Clients \cup {None}]
      /\ pc \in [Tasks -> Pc]
  BY DEF IInv, TaskOK, TypeOK, Registering
<1>2. \A u \in Tasks \ {t} : pc[u] \notin Suspended
  BY OthersOutside
<1>3. PICK c \in Fresh, new \in Entry :
              /\ projects' = [table EXCEPT ![target[t]] = new]
              /\ new # Absent /\ new.client = None /\ new.registration_ids = {}
              /\ running' = left \cup {c} /\ lock' = t
              /\ pc' = [pc EXCEPT ![t] = "starting"] /\ client' = [client EXCEPT ![t] = c]
  BY <1>1, BeginStep
<1>4. pc'[t] = "starting" /\ client'[t] \in running' /\ target'[t] = target[t]
  BY <1>1, <1>3
<1>5. \A u \in Tasks \ {t} : pc'[u] = pc[u]
  BY <1>1, <1>3
<1>6. \A q \in Projects \ {target[t]} :
        /\ projects'[q] = projects[q]
        /\ projects[q].client \in running => projects[q].client \in running'
  BY <1>1, <1>3
<1>7. pc'[t] \in Suspended
  BY <1>4 DEF Suspended
<1> QED
  BY <1>1, <1>2, <1>4, <1>5, <1>6, <1>7, KeptStep

LEMMA EnterKept ==
  ASSUME IInv, Tidy, Kept, "configure" \notin Faults, NEW t \in Tasks, Enter(t)
  PROVE  Kept'
<1>1. /\ client \in [Tasks -> Clients \cup {None}] /\ pc \in [Tasks -> Pc]
      /\ projects \in [Projects -> Entry] /\ lock = None
      /\ registrations \in [Tokens -> Projects \cup {None}]
      /\ target \in [Tasks -> Projects \cup {None}]
      /\ running \subseteq Clients
      /\ \A u \in Tasks \ {t} : pc[u] \notin Suspended
      /\ pc[t] \notin Suspended
  BY OthersOutside DEF IInv, TypeOK, Enter, RegisterHit, RegisterNew, RegisterForce,
     RegisterForceIdle, DeregisterUnknown, DeregisterShared, DeregisterLast, Suspended
<1>2. pc[t] = "register" => target[t] \in Projects /\ token[t] \in Tokens
  BY DEF IInv, TaskOK, TypeOK, Registering
<1>3. pc[t] = "deregister" => token[t] \in Tokens
  BY DEF IInv, TaskOK, TypeOK, Registering
<1>4. \A p \in Projects :
        /\ \A k \in projects[p].registration_ids : registrations[k] = p
        /\ projects[p] # Absent => projects[p].refcount > 0 /\ projects[p].client \in running
  BY <1>1 DEF Kept, Engaged
<1>5. ASSUME Return(t)
      PROVE  /\ pc'[t] \notin Suspended
             /\ \A u \in Tasks \ {t} : pc'[u] = pc[u]
             /\ pc'[t] \notin Starting
  BY <1>1, <1>5 DEF Return, Suspended, Starting
<1>6. CASE RegisterHit(t)
  <2> DEFINE p == target[t]
             k == token[t]
  <2>1. p \in Projects /\ k \in Tokens /\ projects[p] \in Entry /\ projects[p] # Absent
    BY <1>1, <1>2, <1>6 DEF RegisterHit
  <2>2. /\ projects' = [projects EXCEPT ![p] = Joined(projects[p], k)]
        /\ registrations' = [registrations EXCEPT ![k] = p] /\ Return(t)
        /\ running' = running
    BY <1>6 DEF RegisterHit
  <2>3. /\ Joined(projects[p], k).client = projects[p].client
        /\ Joined(projects[p], k).registration_ids = projects[p].registration_ids \cup {k}
        /\ Joined(projects[p], k).refcount = projects[p].refcount + 1
    BY <2>1, EntryUpdates
  <2>4. \A q \in Projects : k \notin projects[q].registration_ids
    BY <1>6 DEF RegisterHit, IInv, TokensApart, Registering
  <2> HIDE DEF p, k
  <2>5. projects[p].refcount \in Int /\ projects[p].registration_ids \subseteq Tokens
    BY <2>1 DEF Entry
  <2>6. /\ \A q \in Projects \ {p} : projects'[q] = projects[q]
        /\ projects'[p] = Joined(projects[p], k)
        /\ registrations'[k] = p /\ \A j \in Tokens \ {k} : registrations'[j] = registrations[j]
    BY <1>1, <2>1, <2>2
  <2>7. registrations[k] = None
    BY <1>1, <2>1, <2>4 DEF IInv, TokenNamesEntry
  <2>8. /\ \A j \in projects'[p].registration_ids : registrations'[j] = p
        /\ projects'[p].refcount > 0 /\ projects'[p].client \in running'
    BY <1>4, <2>1, <2>2, <2>3, <2>5, <2>6
  <2>9. \A q \in Projects \ {p} : \A j \in Tokens : registrations[j] = q => registrations'[j] = q
    BY <2>6, <2>7, NoneAssumption
  <2> QED
    BY <1>1, <1>5, <2>1, <2>2, <2>6, <2>8, <2>9, KeptStep
<1>7. CASE RegisterNew(t)
  <2>1. /\ pc[t] = "register" /\ Begin(t, projects, running) /\ target' = target
        /\ registrations' = registrations
    BY <1>7 DEF RegisterNew
  <2> QED
    BY <1>1, <2>1, BeginKept
<1>8. CASE RegisterForce(t)
  <2>1. /\ pc[t] = "register" /\ projects' = projects /\ target' = target
        /\ pc' = [pc EXCEPT ![t] = "stopOld"] /\ running' = running
        /\ registrations' = Invalidated(target[t])
    BY <1>8 DEF RegisterForce, Suspend
  <2>2. pc'[t] = "stopOld" /\ \A u \in Tasks \ {t} : pc'[u] = pc[u]
    BY <1>1, <2>1
  <2>3. \A q \in Projects \ {target[t]} :
          \A k \in Tokens : registrations[k] = q => registrations'[k] = q
    BY <1>2, <1>4, <2>1 DEF Invalidated
  <2>4. pc'[t] \in Suspended /\ pc'[t] \notin Starting
    BY <2>2 DEF Suspended, Starting
  <2> QED
    BY <1>1, <1>2, <2>1, <2>2, <2>3, <2>4, KeptStep
<1>9. CASE RegisterForceIdle(t)   \* there is no such entry
  BY <1>1, <1>2, <1>4, <1>9, NoneAssumption DEF RegisterForceIdle
<1>10. CASE DeregisterUnknown(t)
  <2>1. Return(t) /\ UNCHANGED <<projects, registrations, running>>
    BY <1>10 DEF DeregisterUnknown
  <2>2. \A u \in Tasks : pc'[u] \notin Starting
    BY <1>1, <1>5, <2>1 DEF Starting, Suspended
  <2> QED
    BY <1>4, <2>1, <2>2 DEF Kept
<1>11. CASE DeregisterShared(t) \/ DeregisterLast(t)
  <2> DEFINE k == token[t]
             p == registrations[k]
  <2>1. /\ k \in Tokens /\ p \in Projects /\ projects[p] \in Entry
        /\ registrations' = [registrations EXCEPT ![k] = None] /\ running' = running
    BY <1>1, <1>3, <1>11 DEF DeregisterShared, DeregisterLast
  <2>2. /\ projects[p] # Absent /\ k \in projects[p].registration_ids
    BY <2>1, NoneAssumption DEF IInv, TokenNamesEntry
  <2>3. /\ Released(projects[p], k).client = projects[p].client
        /\ Released(projects[p], k).registration_ids = projects[p].registration_ids \ {k}
        /\ Released(projects[p], k).refcount = projects[p].refcount - 1
        /\ Absent.registration_ids = {}
    BY <2>1, EntryUpdates DEF Absent
  <2>4. \/ /\ Return(t)
           /\ projects' = [projects EXCEPT ![p] = Released(@, k)]
           /\ ~(projects[p].refcount - 1 <= 0)
        \/ /\ Return(t)
           /\ projects' = [projects EXCEPT ![p] = Absent]
        \/ /\ pc' = [pc EXCEPT ![t] = "stopLast"] /\ target' = [target EXCEPT ![t] = p]
           /\ projects' = [projects EXCEPT ![p] = Released(@, k)]
    BY <1>11, <2>2 DEF DeregisterShared, DeregisterLast, Suspend, IsLast
  <2> HIDE DEF k, p
  <2>5. projects[p].refcount \in Int /\ projects[p].registration_ids \subseteq Tokens
    BY <2>1 DEF Entry
  <2>6. /\ \A q \in Projects \ {p} : projects'[q] = projects[q]
        /\ projects'[p] \in {Absent, Released(projects[p], k)}
        /\ registrations'[k] = None
        /\ \A j \in Tokens \ {k} : registrations'[j] = registrations[j]
    BY <1>1, <2>1, <2>4
  <2>7. \A q \in Projects \ {p} : \A j \in Tokens : registrations[j] = q => registrations'[j] = q
    <3>1. registrations[k] = p
      BY DEF p, k
    <3> QED
      BY <2>6, <3>1
  <2>8. /\ pc'[t] \in Suspended => target'[t] = p /\ pc'[t] \notin Starting
        /\ pc'[t] \notin Suspended => pc'[t] \notin Starting
        /\ \A u \in Tasks \ {t} : pc'[u] = pc[u]
    <3>1. CASE Return(t)
      BY <1>5, <3>1
    <3>2. CASE ~Return(t)
      BY <1>1, <2>1, <2>4, <3>2 DEF Suspended, Starting
    <3> QED
      BY <3>1, <3>2
  <2>9. pc'[t] \notin Suspended =>
          /\ \A j \in projects'[p].registration_ids : registrations'[j] = p
          /\ projects'[p] # Absent => projects'[p].refcount > 0 /\ projects'[p].client \in running'
    <3>1. \A j \in projects'[p].registration_ids : registrations'[j] = p
      BY <1>4, <2>1, <2>3, <2>5, <2>6
    <3>2. CASE projects'[p] = Absent
      BY <3>1, <3>2
    <3>3. CASE projects'[p] # Absent /\ pc'[t] \notin Suspended
      <4>1. projects' = [projects EXCEPT ![p] = Released(@, k)] /\ ~(projects[p].refcount - 1 <= 0)
        <5>1. ~(pc' = [pc EXCEPT ![t] = "stopLast"])
          BY <1>1, <3>3 DEF Suspended
        <5>2. projects' # [projects EXCEPT ![p] = Absent]
          BY <1>1, <2>1, <3>3
        <5> QED
          BY <2>4, <5>1, <5>2
      <4>2. projects'[p] = Released(projects[p], k)
        BY <1>1, <2>1, <4>1
      <4> QED
        BY <1>4, <2>1, <2>2, <2>3, <2>5, <3>1, <4>1, <4>2
    <3> QED
      BY <3>1, <3>2, <3>3
  <2> QED
    BY <1>1, <2>1, <2>6, <2>7, <2>8, <2>9, KeptStep
<1> QED
  BY <1>6, <1>7, <1>8, <1>9, <1>10, <1>11 DEF Enter

LEMMA ResumeKept ==
  ASSUME IInv, Tidy, Kept, "configure" \notin Faults, NEW t \in Tasks, Resume(t)
  PROVE  Kept'
<1>1. /\ client \in [Tasks -> Clients \cup {None}] /\ pc \in [Tasks -> Pc]
      /\ projects \in [Projects -> Entry] /\ running \subseteq Clients
      /\ registrations \in [Tokens -> Projects \cup {None}]
      /\ pc[t] \in Suspended /\ lock = t
      /\ target[t] \in Projects
  BY DEF IInv, TypeOK, TaskOK, LockOK, Suspended, Resume, OldStopped, StartSucceeds,
     StartRaises, StartTimesOut, NewStopped, LastStopped
<1>2. \A u \in Tasks \ {t} : pc[u] \notin Suspended
  BY <1>1, OthersOutside
<1>3. ASSUME Return(t)
      PROVE  pc'[t] \notin Suspended /\ pc'[t] \notin Starting
             /\ \A u \in Tasks \ {t} : pc'[u] = pc[u]
  BY <1>1, <1>3 DEF Return, Suspended, Starting
<1>4. \A q \in Projects \ {target[t]} :
        projects[q].client \in running => projects[q].client \in AfterStop(t)
  <2>1. ASSUME NEW q \in Projects \ {target[t]}, projects[q].client \in running
        PROVE  projects[q].client # client[t]
    <3>1. projects[q].client # None
      BY <1>1, <2>1, NoneAssumption
    <3>2. CASE pc[t] \in Starting
      BY <3>2 DEF Tidy, ClientsApart
    <3>3. CASE pc[t] \in Stopping
      BY <1>1, <3>1, <3>3 DEF Tidy, ClientsApart
    <3> QED
      BY <1>1, <3>2, <3>3 DEF Suspended, Starting, Stopping
  <2> QED
    BY <2>1 DEF AfterStop
<1>5. CASE OldStopped(t)
  <2> DEFINE table == [projects EXCEPT ![target[t]] = Stopped(@)]
  <2>1. /\ pc[t] = "stopOld" /\ Begin(t, table, AfterStop(t)) /\ target' = target
        /\ registrations' = registrations
    BY <1>5 DEF OldStopped
  <2>2. /\ table \in [Projects -> Entry]
        /\ \A p \in Projects \ {target[t]} : table[p] = projects[p]
    BY <1>1 DEF Stopped, Entry
  <2> HIDE DEF table
  <2> QED
    BY <1>1, <1>4, <2>1, <2>2, BeginKept
<1>6. CASE StartSucceeds(t)
  <2> DEFINE new == [client |-> client[t], refcount |-> 1, registration_ids |-> {token[t]},
                     status |-> "started"]
  <2>1. /\ pc[t] = "starting" /\ Return(t) /\ running' = running
        /\ projects' = [projects EXCEPT ![target[t]] = new]
        /\ registrations' = [registrations EXCEPT ![token[t]] = target[t]]
    BY <1>6 DEF StartSucceeds
  <2>2. new.client = client[t] /\ new.registration_ids = {token[t]} /\ new.refcount = 1
    OBVIOUS
  <2> HIDE DEF new
  <2>3. /\ projects'[target[t]] = new
        /\ \A p \in Projects \ {target[t]} : projects'[p] = projects[p]
    BY <1>1, <2>1
  <2>4. /\ token[t] \in Tokens
        /\ \A p \in Projects : token[t] \notin projects[p].registration_ids
    BY <2>1 DEF IInv, TaskOK, TokensApart, TypeOK, Registering
  <2>5. registrations[token[t]] = None
    BY <1>1, <2>4 DEF IInv, TokenNamesEntry
  <2>6. /\ registrations'[token[t]] = target[t]
        /\ \A q \in Projects \ {target[t]} :
             \A k \in Tokens : registrations[k] = q => registrations'[k] = q
    BY <1>1, <2>1, <2>4, <2>5, NoneAssumption
  <2>7. client[t] \in running
    BY <2>1 DEF Kept, Starting
  <2> QED
    BY <1>1, <1>2, <1>3, <2>1, <2>2, <2>3, <2>6, <2>7, KeptStep
<1>7. CASE StartTimesOut(t)
  <2>1. /\ pc[t] = "starting" /\ pc' = [pc EXCEPT ![t] = "stopNew"]
        /\ UNCHANGED <<projects, registrations, client, target, running>>
    BY <1>7 DEF StartTimesOut
  <2>2. /\ pc'[t] = "stopNew"
        /\ \A u \in Tasks \ {t} : pc'[u] = pc[u]
    BY <1>1, <2>1
  <2>3. pc'[t] \in Suspended /\ client'[t] \in running'
    BY <2>1, <2>2 DEF Kept, Starting, Suspended
  <2> QED
    BY <1>1, <1>2, <2>1, <2>2, <2>3, KeptStep
<1>8. CASE StartRaises(t) \/ NewStopped(t) \/ LastStopped(t)
  <2>1. /\ Return(t) /\ registrations' = registrations
        /\ projects' = [projects EXCEPT ![target[t]] = Absent]
        /\ running' \in {running, AfterStop(t)}
    BY <1>8 DEF StartRaises, NewStopped, LastStopped
  <2>2. /\ projects'[target[t]] = Absent
        /\ \A p \in Projects \ {target[t]} : projects'[p] = projects[p]
    BY <1>1, <2>1
  <2>3. Absent.registration_ids = {}
    BY DEF Absent
  <2>4. \A q \in Projects \ {target[t]} :
          projects[q].client \in running => projects[q].client \in running'
    BY <1>4, <2>1
  <2> QED
    BY <1>1, <1>2, <1>3, <2>1, <2>2, <2>3, <2>4, KeptStep
<1> QED
  BY <1>5, <1>6, <1>7, <1>8 DEF Resume

LEMMA NextKept ==
  ASSUME Faults \cap {"cancel", "configure"} = {}
  PROVE  IInv /\ Tidy /\ Kept /\ [Next]_vars => Kept'
<1> SUFFICES ASSUME IInv, Tidy, Kept, [Next]_vars PROVE Kept'
  OBVIOUS
<1>1. CASE UNCHANGED vars
  BY <1>1 DEF vars, Kept, Engaged
<1>2. CASE ShutdownAll
  <2>1. \A p \in Projects : projects'[p] = Absent /\ projects'[p].registration_ids = {}
    BY <1>2 DEF ShutdownAll, Absent
  <2>2. \A t \in Tasks : pc'[t] = "idle"
    BY <1>2 DEF ShutdownAll
  <2> QED
    BY <2>1, <2>2 DEF Kept, Starting
<1>3. ASSUME NEW t \in Tasks, Cancel(t) PROVE Kept'
  BY <1>3 DEF Cancel, CancelWaiting, CancelSuspended
<1> QED
  BY <1>1, <1>2, <1>3, CallKept, EnterKept, ResumeKept DEF Next

LEMMA InitKept == Init => Kept
BY DEF Init, Kept, Engaged, Absent, Starting

\* register returns a token only with a server, and the server runs until the token is
\* returned or invalidated (register, deregister), whatever other sessions do and
\* whether starts fail or not, as long as no call is cut off and no adapter refuses.
THEOREM RegisteredAreServed ==
  ASSUME Faults \cap {"cancel", "configure"} = {}
  PROVE  Spec => []RegisteredIsServed
<1>1. IInv /\ Kept => RegisteredIsServed
  <2> SUFFICES ASSUME IInv, Kept, NEW p \in Projects, Live(p) # {}
               PROVE  projects[p].client \in running
    BY DEF RegisteredIsServed
  <2>1. ~Engaged(p)
    BY DEF IInv, NobodyServedByThePending, Engaged
  <2>2. projects[p] # Absent
    BY NoneAssumption DEF IInv, TokenNamesEntry, Live
  <2> QED
    BY <2>1, <2>2 DEF Kept
<1> QED
  BY <1>1, InitIInv, NextPreserves, InitTidy, NextTidy, InitKept, NextKept, PTL DEF Spec

-----------------------------------------------------------------------------
(* What an instance owns in which no call is cut off and no handshake raises *)

\* A step of the task t that works on the project p: what runs afterwards ran before, or
\* is the task's, and the servers of t and of p are still theirs or run no more.
LEMMA OwnedStep ==
  ASSUME EveryServerIsOwned, NEW t \in Tasks, NEW p \in Projects,
         \A u \in Tasks \ {t} : client'[u] = client[u],
         \A q \in Projects \ {p} : projects'[q] = projects[q],
         \A c \in running' :
           /\ c \in running \/ c = client'[t]
           /\ c \in {client[t], projects[p].client} => c \in {client'[t], projects'[p].client}
  PROVE  EveryServerIsOwned'
BY DEF EveryServerIsOwned, Owned

LEMMA BeginOwned ==
  ASSUME IInv, Tidy, EveryServerIsOwned,
         NEW t \in Tasks, pc[t] \in {"register", "stopOld"}, lock \in {None, t},
         NEW table \in [Projects -> Entry], NEW left \in SUBSET running,
         \A p \in Projects \ {target[t]} : table[p] = projects[p],
         client[t] \notin left, projects[target[t]].client \notin left,
         Begin(t, table, left)
  PROVE  EveryServerIsOwned'
<1>1. /\ target[t] \in Projects /\ client \in [Tasks -> Clients \cup {None}]
      /\ pc \in [Tasks -> Pc]
  BY DEF IInv, TaskOK, TypeOK, Registering
<1>2. \/ /\ "configure" \in Faults
         /\ projects' = table /\ running' = left /\ lock' = None
         /\ pc' = [pc EXCEPT ![t] = "idle"] /\ client' = [client EXCEPT ![t] = None]
      \/ \E c \in Fresh, new \in Entry :
           /\ projects' = [table EXCEPT ![target[t]] = new]
           /\ new # Absent /\ new.client = None /\ new.registration_ids = {}
           /\ running' = left \cup {c} /\ lock' = t
           /\ pc' = [pc EXCEPT ![t] = "starting"] /\ client' = [client EXCEPT ![t] = c]
  BY <1>1, BeginStep
<1>3. /\ \A u \in Tasks \ {t} : client'[u] = client[u]
      /\ \A q \in Projects \ {target[t]} : projects'[q] = projects[q]
      /\ \A c \in running' : c \in left \/ c = client'[t]
  BY <1>1, <1>2
<1> QED
  BY <1>1, <1>3, OwnedStep

LEMMA EnterOwned ==
  ASSUME IInv, Tidy, EveryServerIsOwned, NEW t \in Tasks, Enter(t)
  PROVE  EveryServerIsOwned'
<1>1. /\ client \in [Tasks -> Clients \cup {None}] /\ pc \in [Tasks -> Pc]
      /\ projects \in [Projects -> Entry] /\ lock = None
      /\ registrations \in [Tokens -> Projects \cup {None}]
      /\ running \subseteq Clients /\ None \notin running
      /\ pc[t] \notin Suspended
  BY NoneAssumption DEF IInv, TypeOK, Enter, RegisterHit, RegisterNew, RegisterForce,
     RegisterForceIdle, DeregisterUnknown, DeregisterShared, DeregisterLast, Suspended
<1>2. client[t] = None
  BY <1>1 DEF Tidy, ClientsApart
<1>3. pc[t] = "register" => target[t] \in Projects /\ token[t] \in Tokens
  BY DEF IInv, TaskOK, TypeOK, Registering
<1>4. pc[t] = "deregister" => token[t] \in Tokens
  BY DEF IInv, TaskOK, TypeOK, Registering
<1>5. CASE RegisterHit(t)
  <2> DEFINE p == target[t]
             k == token[t]
  <2>1. p \in Projects /\ k \in Tokens /\ projects[p] \in Entry
    BY <1>1, <1>3, <1>5 DEF RegisterHit
  <2>2. /\ projects' = [projects EXCEPT ![p] = Joined(projects[p], k)] /\ running' = running
        /\ client' = [client EXCEPT ![t] = None]
    BY <1>5 DEF RegisterHit, Return
  <2>3. Joined(projects[p], k).client = projects[p].client
    BY <2>1, EntryUpdates
  <2> HIDE DEF p, k
  <2>4. /\ projects'[p].client = projects[p].client
        /\ \A q \in Projects \ {p} : projects'[q] = projects[q]
        /\ \A u \in Tasks \ {t} : client'[u] = client[u]
    BY <1>1, <2>1, <2>2, <2>3
  <2> QED
    BY <1>1, <1>2, <2>1, <2>2, <2>4, OwnedStep
<1>6. CASE RegisterNew(t)
  <2>1. /\ pc[t] = "register" /\ Begin(t, projects, running)
        /\ projects[target[t]].client = None
    BY <1>6 DEF RegisterNew, Absent
  <2> QED
    BY <1>1, <1>2, <2>1, BeginOwned
<1>7. CASE RegisterForce(t)
  <2>1. /\ projects' = projects /\ running' = running
        /\ client' = [client EXCEPT ![t] = projects[target[t]].client]
        /\ target[t] \in Projects
    BY <1>3, <1>7 DEF RegisterForce, Suspend
  <2> QED
    BY <1>1, <1>2, <2>1, OwnedStep
<1>8. CASE RegisterForceIdle(t)
  <2> DEFINE table == [projects EXCEPT ![target[t]] = Stopped(@)]
  <2>1. /\ pc[t] = "register" /\ Begin(t, table, running) /\ projects[target[t]].client = None
    BY <1>8 DEF RegisterForceIdle
  <2>2. /\ table \in [Projects -> Entry]
        /\ \A p \in Projects \ {target[t]} : table[p] = projects[p]
    <3>1. target[t] \in Projects /\ projects[target[t]] \in Entry
      BY <1>1, <1>3, <2>1
    <3>2. Stopped(projects[target[t]]) \in Entry
      BY <3>1 DEF Stopped, Entry
    <3> QED
      BY <1>1, <3>1, <3>2
  <2> HIDE DEF table
  <2> QED
    BY <1>1, <1>2, <2>1, <2>2, BeginOwned
<1>9. CASE DeregisterUnknown(t)
  <2>1. UNCHANGED <<projects, running>> /\ client' = [client EXCEPT ![t] = None]
    BY <1>9 DEF DeregisterUnknown, Return
  <2>2. client' = client
    BY <1>1, <1>2, <2>1
  <2> QED
    BY <2>1, <2>2 DEF EveryServerIsOwned, Owned
<1>10. CASE DeregisterShared(t) \/ DeregisterLast(t)
  <2> DEFINE k == token[t]
             p == registrations[k]
  <2>1. /\ k \in Tokens /\ p \in Projects /\ projects[p] \in Entry /\ running' = running
    BY <1>1, <1>4, <1>10 DEF DeregisterShared, DeregisterLast
  <2>2. Released(projects[p], k).client = projects[p].client
    BY <2>1, EntryUpdates
  <2>3. /\ \/ projects' \in {projects, [projects EXCEPT ![p] = Released(@, k)]}
           \/ projects[p].client = None /\ projects' = [projects EXCEPT ![p] = Absent]
        /\ client' \in {[client EXCEPT ![t] = None],
                        [client EXCEPT ![t] = projects[p].client]}
    BY <1>10 DEF DeregisterShared, DeregisterLast, Suspend, Return
  <2> HIDE DEF k, p
  <2>4. /\ projects[p].client \in {None, projects'[p].client}
        /\ \A q \in Projects \ {p} : projects'[q] = projects[q]
        /\ \A u \in Tasks \ {t} : client'[u] = client[u]
    BY <1>1, <2>1, <2>2, <2>3
  <2> QED
    BY <1>1, <1>2, <2>1, <2>4, OwnedStep
<1> QED
  BY <1>5, <1>6, <1>7, <1>8, <1>9, <1>10 DEF Enter

LEMMA ResumeOwned ==
  ASSUME IInv, Tidy, EveryServerIsOwned, "startError" \notin Faults, NEW t \in Tasks, Resume(t)
  PROVE  EveryServerIsOwned'
<1>1. /\ client \in [Tasks -> Clients \cup {None}] /\ pc \in [Tasks -> Pc]
      /\ projects \in [Projects -> Entry]
      /\ running \subseteq Clients /\ None \notin running
      /\ pc[t] \in Suspended /\ lock = t
      /\ target[t] \in Projects
  BY NoneAssumption DEF IInv, TypeOK, TaskOK, LockOK, Suspended, Resume, OldStopped,
     StartSucceeds, StartRaises, StartTimesOut, NewStopped, LastStopped
<1>2. /\ pc[t] \in Starting => projects[target[t]].client = None
      /\ pc[t] \in Stopping => projects[target[t]].client = client[t]
  BY DEF Tidy, ClientsApart
<1>3. CASE OldStopped(t)
  <2> DEFINE table == [projects EXCEPT ![target[t]] = Stopped(@)]
  <2>1. /\ pc[t] = "stopOld" /\ Begin(t, table, AfterStop(t))
    BY <1>3 DEF OldStopped
  <2>2. /\ table \in [Projects -> Entry]
        /\ \A p \in Projects \ {target[t]} : table[p] = projects[p]
    BY <1>1 DEF Stopped, Entry
  <2>3. /\ AfterStop(t) \in SUBSET running /\ client[t] \notin AfterStop(t)
        /\ projects[target[t]].client \notin AfterStop(t)
    BY <1>2, <2>1 DEF AfterStop, Stopping
  <2> HIDE DEF table
  <2> QED
    BY <1>1, <2>1, <2>2, <2>3, BeginOwned
<1>4. CASE StartSucceeds(t)
  <2>1. /\ pc[t] = "starting" /\ running' = running
        /\ projects'[target[t]].client = client[t]
        /\ \A q \in Projects \ {target[t]} : projects'[q] = projects[q]
        /\ \A u \in Tasks \ {t} : client'[u] = client[u]
    BY <1>1, <1>4 DEF StartSucceeds, Return
  <2>2. projects[target[t]].client = None
    BY <1>2, <2>1 DEF Starting
  <2> QED
    BY <1>1, <2>1, <2>2, OwnedStep
<1>5. CASE StartTimesOut(t)
  BY <1>5 DEF StartTimesOut, EveryServerIsOwned, Owned
<1>6. CASE StartRaises(t) \/ NewStopped(t) \/ LastStopped(t)
  <2>1. /\ running' = AfterStop(t)
        /\ \A q \in Projects \ {target[t]} : projects'[q] = projects[q]
        /\ \A u \in Tasks \ {t} : client'[u] = client[u]
    BY <1>1, <1>6 DEF StartRaises, NewStopped, LastStopped, Return
  <2>2. /\ AfterStop(t) \in SUBSET running /\ client[t] \notin AfterStop(t)
        /\ projects[target[t]].client \notin AfterStop(t)
    BY <1>1, <1>2 DEF AfterStop, Stopping, Starting, Suspended
  <2> QED
    BY <1>1, <2>1, <2>2, OwnedStep
<1> QED
  BY <1>3, <1>4, <1>5, <1>6 DEF Resume

LEMMA NextOwned ==
  ASSUME Faults \cap {"cancel", "startError"} = {}
  PROVE  IInv /\ Tidy /\ EveryServerIsOwned /\ [Next]_vars => EveryServerIsOwned'
<1> SUFFICES ASSUME IInv, Tidy, EveryServerIsOwned, [Next]_vars PROVE EveryServerIsOwned'
  OBVIOUS
<1>1. CASE UNCHANGED vars
  BY <1>1 DEF vars, EveryServerIsOwned, Owned
<1>2. CASE ShutdownAll
  <2>1. \A t \in Tasks : client[t] = None
    BY <1>2 DEF ShutdownAll, Tidy, ClientsApart, Suspended
  <2>2. running' = {}
    BY <1>2, <2>1, NoneAssumption DEF ShutdownAll, EveryServerIsOwned, Owned, IInv, TypeOK
  <2> QED
    BY <2>2 DEF EveryServerIsOwned
<1>3. ASSUME NEW t \in Tasks, Call(t) \/ Cancel(t) PROVE UNCHANGED <<projects, running, client>>
  BY <1>3 DEF Call, CallRegister, CallDeregister, Cancel, CancelWaiting, CancelSuspended
<1>4. ASSUME NEW t \in Tasks, Call(t) \/ Cancel(t) PROVE EveryServerIsOwned'
  BY <1>3, <1>4 DEF EveryServerIsOwned, Owned
<1> QED
  BY <1>1, <1>2, <1>4, EnterOwned, ResumeOwned DEF Next

\* Every server process belongs to an entry or to the task that starts or stops it, so
\* that deregister or shutdown_all will find it, whether adapters refuse or starts time
\* out, as long as no call is cut off and no handshake raises.
THEOREM ServersAreOwned ==
  ASSUME Faults \cap {"cancel", "startError"} = {}
  PROVE  Spec => []EveryServerIsOwned
<1>1. Init => EveryServerIsOwned
  BY DEF Init, EveryServerIsOwned
<1> QED
  BY <1>1, InitIInv, NextPreserves, InitTidy, NextTidy, NextOwned, PTL DEF Spec

-----------------------------------------------------------------------------
(* The lease service *)

\* A step that leaves the clients of all entries but p as they were, for the lease service.
LEMMA ServesStep ==
  ASSUME NEW p \in Projects, \A q \in Projects \ {p} : projects'[q].client = projects[q].client
  PROVE  /\ projects'[p].client = projects[p].client =>
              [q \in Projects |-> projects'[q].client] = [q \in Projects |-> projects[q].client]
         /\ [q \in Projects |-> projects'[q].client] =
              [[q \in Projects |-> projects[q].client] EXCEPT ![p] = projects'[p].client]
OBVIOUS

\* A step that leaves the registrations and the clients of the entries alone is none of
\* the lease service.
LEMMA LeaseStutter ==
  ASSUME UNCHANGED registrations, \A p \in Projects : projects'[p].client = projects[p].client
  PROVE  UNCHANGED Lease!vars
BY DEF Lease!vars

\* The rest of register, once no registration of the project is left.
LEMMA BeginLease ==
  ASSUME IInv, NEW t \in Tasks, pc[t] \in {"register", "stopOld"},
         NEW table \in [Projects -> Entry], NEW left,
         table[target[t]].client = None,
         \A p \in Projects \ {target[t]} : table[p] = projects[p],
         UNCHANGED registrations, Live(target[t]) = {},
         Begin(t, table, left)
  PROVE  [Lease!Next]_(Lease!vars)
<1>1. /\ target[t] \in Projects /\ client \in [Tasks -> Clients \cup {None}]
      /\ pc \in [Tasks -> Pc]
  BY DEF IInv, TaskOK, TypeOK, Registering
<1>2. \/ /\ "configure" \in Faults
         /\ projects' = table /\ running' = left /\ lock' = None
         /\ pc' = [pc EXCEPT ![t] = "idle"] /\ client' = [client EXCEPT ![t] = None]
      \/ \E c \in Fresh, new \in Entry :
           /\ projects' = [table EXCEPT ![target[t]] = new]
           /\ new # Absent /\ new.client = None /\ new.registration_ids = {}
           /\ running' = left \cup {c} /\ lock' = t
           /\ pc' = [pc EXCEPT ![t] = "starting"] /\ client' = [client EXCEPT ![t] = c]
  BY <1>1, BeginStep
<1> PICK p \in Projects : p = target[t]
  BY <1>1
<1>3. /\ projects'[p].client = None
      /\ \A q \in Projects \ {p} : projects'[q].client = projects[q].client
  BY <1>1, <1>2
<1>4. CASE projects[p].client = None
  BY <1>1, <1>3, <1>4, LeaseStutter
<1>5. CASE projects[p].client # None
  <2>1. [q \in Projects |-> projects'[q].client] =
              [[q \in Projects |-> projects[q].client] EXCEPT ![p] = None]
    BY <1>1, <1>3, ServesStep
  <2>2. Lease!Holders(p) = {}
    BY DEF Lease!Holders, Live
  <2>3. Lease!Close(p)
    BY <1>1, <1>5, <2>1, <2>2 DEF Lease!Close
  <2> QED
    BY <1>1, <2>3 DEF Lease!Next
<1> QED
  BY <1>4, <1>5

LEMMA EnterLease ==
  ASSUME IInv, Tidy, Kept, NEW t \in Tasks, Enter(t)
  PROVE  [Lease!Next]_(Lease!vars)
<1>1. /\ client \in [Tasks -> Clients \cup {None}] /\ pc \in [Tasks -> Pc]
      /\ projects \in [Projects -> Entry] /\ lock = None
      /\ registrations \in [Tokens -> Projects \cup {None}]
      /\ running \subseteq Clients /\ None \notin running
      /\ \A u \in Tasks \ {t} : pc[u] \notin Suspended
      /\ pc[t] \notin Suspended
  BY OthersOutside, NoneAssumption DEF IInv, TypeOK, Enter, RegisterHit, RegisterNew,
     RegisterForce, RegisterForceIdle, DeregisterUnknown, DeregisterShared, DeregisterLast,
     Suspended
<1>2. pc[t] = "register" => target[t] \in Projects /\ token[t] \in Tokens
  BY DEF IInv, TaskOK, TypeOK, Registering
<1>3. pc[t] = "deregister" => token[t] \in Tokens
  BY DEF IInv, TaskOK, TypeOK, Registering
<1>4. \A p \in Projects :
        /\ \A k \in projects[p].registration_ids : registrations[k] = p
        /\ projects[p] # Absent => projects[p].refcount > 0 /\ projects[p].client \in running
  BY <1>1 DEF Kept, Engaged
<1>5. CASE RegisterHit(t)   \* Join
  <2> DEFINE p == target[t]
             k == token[t]
  <2>1. p \in Projects /\ k \in Tokens /\ projects[p] \in Entry /\ projects[p] # Absent
    BY <1>1, <1>2, <1>5 DEF RegisterHit
  <2>2. /\ projects' = [projects EXCEPT ![p] = Joined(projects[p], k)]
        /\ registrations' = [registrations EXCEPT ![k] = p]
    BY <1>5 DEF RegisterHit
  <2>3. \A q \in Projects : k \notin projects[q].registration_ids
    BY <1>5 DEF RegisterHit, IInv, TokensApart, Registering
  <2>4. Joined(projects[p], k).client = projects[p].client
    BY <2>1, EntryUpdates
  <2> HIDE DEF p, k
  <2>5. \A q \in Projects : projects'[q].client = projects[q].client
    BY <1>1, <2>1, <2>2, <2>4
  <2>6. registrations[k] = None
    BY <1>1, <2>1, <2>3 DEF IInv, TokenNamesEntry
  <2>7. Lease!Holders(p) # {}
    <3>1. projects[p].registration_ids # {}
      <4>1. projects[p].refcount > 0 /\ projects[p].refcount = Cardinality(projects[p].registration_ids)
        BY <1>4, <2>1 DEF IInv, RefcountIsTokenCount
      <4> QED
        BY <4>1, FS_EmptySet
    <3>2. projects[p].registration_ids \subseteq Tokens
      BY <2>1 DEF Entry
    <3> QED
      BY <1>4, <2>1, <3>1, <3>2 DEF Lease!Holders
  <2>8. projects[p].client # None
    BY <1>1, <1>4, <2>1
  <2>9. Lease!Join(k, p)
    BY <2>1, <2>2, <2>5, <2>6, <2>7, <2>8 DEF Lease!Join
  <2> QED
    BY <2>1, <2>9 DEF Lease!Next
<1>6. CASE RegisterNew(t)
  <2>1. /\ pc[t] = "register" /\ Begin(t, projects, running) /\ registrations' = registrations
        /\ projects[target[t]] = Absent /\ projects[target[t]].client = None
    BY <1>6 DEF RegisterNew, Absent
  <2>2. Live(target[t]) = {}
    BY <1>2, <2>1, NoneAssumption DEF IInv, TokenNamesEntry, Live
  <2> QED
    BY <1>1, <2>1, <2>2, BeginLease
<1>7. CASE RegisterForce(t)   \* Revoke
  <2> DEFINE p == target[t]
  <2>1. /\ p \in Projects /\ projects' = projects /\ registrations' = Invalidated(p)
    BY <1>2, <1>7 DEF RegisterForce
  <2> HIDE DEF p
  <2>2. \A k \in Tokens : k \in projects[p].registration_ids <=> registrations[k] = p
    BY <1>4, <2>1, NoneAssumption DEF IInv, TokenNamesEntry
  <2>3. Invalidated(p) = [k \in Tokens |-> IF registrations[k] = p THEN None ELSE registrations[k]]
    BY <2>2 DEF Invalidated
  <2>4. Lease!Revoke(p)
    BY <2>1, <2>3 DEF Lease!Revoke
  <2> QED
    BY <2>1, <2>4 DEF Lease!Next
<1>8. CASE RegisterForceIdle(t)   \* there is no such entry
  BY <1>1, <1>2, <1>4, <1>8 DEF RegisterForceIdle
<1>9. CASE DeregisterUnknown(t)
  BY <1>9, LeaseStutter DEF DeregisterUnknown
<1>10. CASE DeregisterShared(t) \/ DeregisterLast(t)   \* Return
  <2> DEFINE k == token[t]
             p == registrations[k]
  <2>1. /\ k \in Tokens /\ p \in Projects /\ projects[p] \in Entry
        /\ registrations' = [registrations EXCEPT ![k] = None]
    BY <1>1, <1>3, <1>10 DEF DeregisterShared, DeregisterLast
  <2>2. projects[p] # Absent
    BY <2>1, NoneAssumption DEF IInv, TokenNamesEntry
  <2>3. projects[p].client # None
    BY <1>1, <1>4, <2>1, <2>2
  <2>4. Released(projects[p], k).client = projects[p].client
    BY <2>1, EntryUpdates
  <2>5. projects' = [projects EXCEPT ![p] = Released(@, k)]
    BY <1>10, <2>2, <2>3 DEF DeregisterShared, DeregisterLast
  <2>6. registrations[k] # None
    BY <2>1, NoneAssumption
  <2> HIDE DEF k, p
  <2>7. \A q \in Projects : projects'[q].client = projects[q].client
    BY <1>1, <2>1, <2>4, <2>5
  <2>8. Lease!Return(k)
    BY <2>1, <2>6, <2>7 DEF Lease!Return
  <2> QED
    BY <2>1, <2>8 DEF Lease!Next
<1> QED
  BY <1>5, <1>6, <1>7, <1>8, <1>9, <1>10 DEF Enter

LEMMA ResumeLease ==
  ASSUME IInv, Tidy, NEW t \in Tasks, Resume(t)
  PROVE  [Lease!Next]_(Lease!vars)
<1>1. /\ client \in [Tasks -> Clients \cup {None}]
      /\ projects \in [Projects -> Entry]
      /\ registrations \in [Tokens -> Projects \cup {None}]
      /\ pc[t] \in Suspended /\ target[t] \in Projects
  BY DEF IInv, TypeOK, TaskOK, Suspended, Resume, OldStopped, StartSucceeds,
     StartRaises, StartTimesOut, NewStopped, LastStopped
<1> PICK p \in Projects : p = target[t]
  BY <1>1
<1>2. Live(p) = {}
  BY <1>1 DEF IInv, NobodyServedByThePending
<1>3. CASE OldStopped(t)
  <2> DEFINE table == [projects EXCEPT ![target[t]] = Stopped(@)]
  <2>1. /\ pc[t] = "stopOld" /\ Begin(t, table, AfterStop(t)) /\ registrations' = registrations
    BY <1>3 DEF OldStopped
  <2>2. /\ table \in [Projects -> Entry] /\ table[target[t]].client = None
        /\ \A q \in Projects \ {target[t]} : table[q] = projects[q]
    BY <1>1 DEF Stopped, Entry
  <2> HIDE DEF table
  <2> QED
    BY <1>2, <2>1, <2>2, BeginLease
<1>4. CASE StartSucceeds(t)   \* Open
  <2>0. token[t] \in Tokens /\ client[t] \in Clients
    BY <1>1, <1>4, NoneAssumption
       DEF StartSucceeds, IInv, TaskOK, TypeOK, Registering, Tidy, ClientsApart, Starting
  <2> PICK k \in Tokens, c \in Clients : k = token[t] /\ c = client[t]
    BY <2>0
  <2>1. /\ pc[t] = "starting" /\ registrations' = [registrations EXCEPT ![k] = p]
        /\ projects'[p].client = c
        /\ \A q \in Projects \ {p} : projects'[q].client = projects[q].client
    BY <1>1, <1>4 DEF StartSucceeds
  <2>2. \A q \in Projects : k \notin projects[q].registration_ids
    BY <2>1 DEF IInv, TokensApart, Registering
  <2>3. registrations[k] = None
    BY <1>1, <2>2 DEF IInv, TokenNamesEntry
  <2>4. /\ c # None /\ projects[p].client = None
        /\ \A q \in Projects : projects[q].client # c
    BY <2>1 DEF Tidy, ClientsApart, Starting
  <2>6. [q \in Projects |-> projects'[q].client] =
              [[q \in Projects |-> projects[q].client] EXCEPT ![p] = c]
    BY <1>1, <2>1, ServesStep
  <2>7. Lease!Open(k, p, c)
    BY <1>1, <2>1, <2>3, <2>4, <2>6 DEF Lease!Open
  <2> QED
    BY <2>7 DEF Lease!Next
<1>5. CASE StartTimesOut(t)
  BY <1>5, LeaseStutter DEF StartTimesOut
<1>6. CASE StartRaises(t) \/ NewStopped(t) \/ LastStopped(t)   \* Close, or nothing
  <2>1. /\ registrations' = registrations
        /\ projects' = [projects EXCEPT ![p] = Absent]
    BY <1>6 DEF StartRaises, NewStopped, LastStopped
  <2>2. /\ projects'[p].client = None
        /\ \A q \in Projects \ {p} : projects'[q].client = projects[q].client
    BY <1>1, <2>1 DEF Absent
  <2>3. CASE projects[p].client = None
    BY <2>1, <2>2, <2>3, LeaseStutter
  <2>4. CASE projects[p].client # None
    <3>1. [q \in Projects |-> projects'[q].client] =
                [[q \in Projects |-> projects[q].client] EXCEPT ![p] = None]
      BY <1>1, <2>2, ServesStep
    <3>2. Lease!Close(p)
      BY <1>1, <1>2, <2>1, <2>4, <3>1 DEF Lease!Close, Lease!Holders, Live
    <3> QED
      BY <1>1, <3>2 DEF Lease!Next
  <2> QED
    BY <2>3, <2>4
<1> QED
  BY <1>3, <1>4, <1>5, <1>6 DEF Resume

LEMMA NextLease ==
  ASSUME Faults \cap {"cancel", "configure"} = {}
  PROVE  IInv /\ Tidy /\ Kept /\ [Next]_vars => [Lease!Next]_(Lease!vars)
<1> SUFFICES ASSUME IInv, Tidy, Kept, [Next]_vars PROVE [Lease!Next]_(Lease!vars)
  OBVIOUS
<1>1. CASE UNCHANGED vars
  BY <1>1, LeaseStutter DEF vars
<1>2. CASE ShutdownAll   \* CloseAll
  <2>1. /\ registrations' = [k \in Tokens |-> None]
        /\ \A p \in Projects : projects'[p].client = None
    BY <1>2 DEF ShutdownAll, Absent
  <2>2. Lease!CloseAll
    BY <2>1 DEF Lease!CloseAll
  <2> QED
    BY <2>2 DEF Lease!Next
<1>3. ASSUME NEW t \in Tasks, Call(t) PROVE [Lease!Next]_(Lease!vars)
  BY <1>3, LeaseStutter DEF Call, CallRegister, CallDeregister
<1>4. ASSUME NEW t \in Tasks, Cancel(t) PROVE FALSE
  BY <1>4 DEF Cancel, CancelWaiting, CancelSuspended
<1> QED
  BY <1>1, <1>2, <1>3, <1>4, EnterLease, ResumeLease DEF Next

\* Seen from the sessions, the registry is a lease service (register, deregister,
\* shutdown_all): every step opens the server of a project for its first lease, shares
\* it, closes one that nobody leases, takes leases away, or changes nothing.
THEOREM RegistryIsLeaseService ==
  ASSUME Faults \cap {"cancel", "configure"} = {}
  PROVE  Spec => Lease!Safety
<1>1. Init => Lease!Init
  BY DEF Init, Lease!Init, Absent
<1> QED
  BY <1>1, InitIInv, NextPreserves, InitTidy, NextTidy, InitKept, NextKept, NextLease, PTL
     DEF Spec, Lease!Safety
=============================================================================
