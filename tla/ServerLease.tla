----------------------------- MODULE ServerLease -----------------------------
(***************************************************************************)
(* What the project registry promises its sessions, without its lock, its  *)
(* counters and its awaits: a token is a lease on the one server of a      *)
(* project, and a server lives exactly as long as somebody leases it.      *)
(***************************************************************************)
CONSTANTS Projects, Tokens, Clients, None

VARIABLES
  holds,   \* the project each token leases, or None
  serves   \* the client that serves each project, or None

vars == <<holds, serves>>

Holders(p) == {k \in Tokens : holds[k] = p}

Init == /\ holds = [k \in Tokens |-> None]
        /\ serves = [p \in Projects |-> None]

\* A lease on the server that is already there.
Join(k, p) ==
  /\ holds[k] = None /\ serves[p] # None
  /\ Holders(p) # {}
  /\ holds' = [holds EXCEPT ![k] = p]
  /\ UNCHANGED serves

\* The first lease opens the server.
Open(k, p, c) ==
  /\ holds[k] = None /\ serves[p] = None
  /\ \A q \in Projects : serves[q] # c
  /\ holds' = [holds EXCEPT ![k] = p]
  /\ serves' = [serves EXCEPT ![p] = c]

Return(k) ==
  /\ holds[k] # None
  /\ holds' = [holds EXCEPT ![k] = None]
  /\ UNCHANGED serves

\* Every lease on a project is taken away at once.
Revoke(p) ==
  /\ holds' = [k \in Tokens |-> IF holds[k] = p THEN None ELSE holds[k]]
  /\ UNCHANGED serves

\* A server nobody leases is closed.
Close(p) ==
  /\ serves[p] # None /\ Holders(p) = {}
  /\ serves' = [serves EXCEPT ![p] = None]
  /\ UNCHANGED holds

\* The daemon ends.
CloseAll ==
  /\ holds' = [k \in Tokens |-> None]
  /\ serves' = [p \in Projects |-> None]

Next ==
  \/ \E k \in Tokens, p \in Projects :
       Join(k, p) \/ \E c \in Clients : Open(k, p, c)
  \/ \E k \in Tokens : Return(k)
  \/ \E p \in Projects : Revoke(p) \/ Close(p)
  \/ CloseAll

\* What may happen to a lease and its server, and what must.
Safety == Init /\ [][Next]_vars
Spec == Safety /\ \A p \in Projects : WF_vars(Close(p))
=============================================================================
