------------------------------- MODULE LspProxy -------------------------------
(***************************************************************************)
(* LSP proxies (lsp_server.py) beside MCP frontends.  A proxy registers     *)
(* each language of its root while it handles "initialize", and returns     *)
(* the registrations at "shutdown".  Every message is handled by a task of  *)
(* its own, so shutdown may be handled while initialize still is.  A        *)
(* request that takes the daemon too long is given up on (daemon_client.py) *)
(* while the daemon still works on it.                                      *)
(***************************************************************************)
EXTENDS Workspaces

CONSTANTS
  Proxies,  \* those of Sessions that are LSP proxies
  Root      \* the rootUri of each

ASSUME ProxiesAssumption == Proxies \subseteq Sessions /\ Root \in [Proxies -> Dirs]

VARIABLES
  todo,      \* the languages that initialize has still to register
  stage,     \* "new", "registering" (in initialize), "initialized"
  ids,       \* _registered_ids
  shutdown,  \* "no", "releasing", "done"
  returning, \* the registrations that shutdown has still to return
  early,     \* history: shutdown was received before initialize had ended
  abandoned, \* initialize has given up on the register in flight
  late,      \* the registrations whose return shutdown has given up on, but not the daemon
  unanswered \* history: those of which the proxy has not learnt that they were made, or
             \* that they were returned

proxy == <<todo, stage, ids, shutdown, returning, early, abandoned, late, unanswered>>
vars == <<workspaces, proxy>>

Init ==
  /\ InitWorkspaces
  /\ todo = [p \in Proxies |-> <<>>]
  /\ stage = [p \in Proxies |-> "new"]
  /\ ids = [p \in Proxies |-> {}]
  /\ shutdown = [p \in Proxies |-> "no"]
  /\ returning = [p \in Proxies |-> {}]
  /\ early = [p \in Proxies |-> FALSE]
  /\ abandoned = [p \in Proxies |-> FALSE]
  /\ late = [p \in Proxies |-> {}]
  /\ unanswered = [p \in Proxies |-> {}]

-----------------------------------------------------------------------------
(* initialize *)

\* The daemon detects; there are no languages if that fails or takes too long.
Initialize(p) ==
  /\ stage[p] = "new" /\ session[p] = "on"
  /\ LET found == Found[tree][Root[p]]
     IN \/ todo' = [todo EXCEPT ![p] = [i \in DOMAIN found |-> found[i].language]]
        \/ todo' = [todo EXCEPT ![p] = <<>>]
  /\ stage' = [stage EXCEPT ![p] = "registering"]
  /\ UNCHANGED <<workspaces, ids, shutdown, returning, early, abandoned, late, unanswered>>

\* Languages whose server is not installed are skipped.
Available(p) == {i \in DOMAIN todo[p] : Canonical(todo[p][i]) \in Installed}

\* One after the other; the daemon detects again.  (Bound: a register that was given up on
\* has ended before the next is asked for, as it would before that has the lock.)
RegisterNext(p) ==
  /\ stage[p] = "registering" /\ Available(p) # {}
  /\ LET i == Min(Available(p))
     IN /\ Asks(p, Root[p], todo[p][i], Bare, FALSE)
        /\ todo' = [todo EXCEPT ![p] = SubSeq(@, i + 1, Len(@))]
  /\ abandoned' = [abandoned EXCEPT ![p] = FALSE]
  /\ UNCHANGED <<stage, ids, shutdown, returning, early, late, unanswered>>

\* The timeout of a request; the daemon is not told.
RegisterTimesOut(p) ==
  /\ stage[p] = "registering" /\ call[p] # None /\ ~abandoned[p]
  /\ abandoned' = [abandoned EXCEPT ![p] = TRUE]
  /\ UNCHANGED <<workspaces, todo, stage, ids, shutdown, returning, early, late, unanswered>>

\* A language that fails to register is left out; so is one that was given up on, which
\* the daemon registers none the less.
Registered(p, k) ==
  /\ Join(p, k) \/ Started(p, k)
  /\ \/ /\ ~abandoned[p]
        /\ ids' = [ids EXCEPT ![p] = @ \cup {k}] /\ UNCHANGED unanswered
     \/ /\ abandoned[p]
        /\ unanswered' = [unanswered EXCEPT ![p] = @ \cup {k}] /\ UNCHANGED ids
  /\ abandoned' = [abandoned EXCEPT ![p] = FALSE]
  /\ UNCHANGED <<todo, stage, shutdown, returning, early, late>>

Initialized(p) ==
  /\ stage[p] = "registering" /\ Available(p) = {} /\ session[p] = "on"
  /\ call[p] = None \/ abandoned[p]
  /\ stage' = [stage EXCEPT ![p] = "initialized"]
  /\ UNCHANGED <<workspaces, todo, ids, shutdown, returning, early, abandoned, late, unanswered>>

-----------------------------------------------------------------------------
(* shutdown, exit *)

\* Mutant: the registrations are forgotten before they are returned.
ForgetsFirst(p) ==
  /\ returning' = [returning EXCEPT ![p] = {}]
  /\ ids' = [ids EXCEPT ![p] = {}]

\* The registrations of this moment.
Snapshot(p) ==
  /\ returning' = [returning EXCEPT ![p] = ids[p]]
  /\ UNCHANGED ids

ShutdownBegins(p) ==
  /\ stage[p] # "new" /\ shutdown[p] = "no" /\ session[p] = "on"
  /\ shutdown' = [shutdown EXCEPT ![p] = "releasing"]
  /\ early' = [early EXCEPT ![p] = stage[p] # "initialized"]
  /\ Snapshot(p)
  /\ UNCHANGED <<workspaces, todo, stage, abandoned, late, unanswered>>

\* An error is logged.
ShutdownReturns(p, k) ==
  /\ shutdown[p] = "releasing" /\ k \in returning[p]
  /\ Deregister(p, k)
  /\ returning' = [returning EXCEPT ![p] = @ \ {k}]
  /\ UNCHANGED <<todo, stage, ids, shutdown, early, abandoned, late, unanswered>>

\* So is a timeout, and the registration is forgotten,
ShutdownGivesUp(p, k) ==
  /\ shutdown[p] = "releasing" /\ k \in returning[p] /\ session[p] = "on"
  /\ returning' = [returning EXCEPT ![p] = @ \ {k}]
  /\ late' = [late EXCEPT ![p] = @ \cup {k}]
  /\ unanswered' = [unanswered EXCEPT ![p] = @ \cup {k}]
  /\ UNCHANGED <<workspaces, todo, stage, ids, shutdown, early, abandoned>>

\* though the daemon comes to it when it has the lock.
LateReturn(p, k) ==
  /\ k \in late[p]
  /\ Deregister(p, k)
  /\ late' = [late EXCEPT ![p] = @ \ {k}]
  /\ UNCHANGED <<todo, stage, ids, shutdown, returning, early, abandoned, unanswered>>

ShutdownEnds(p) ==
  /\ shutdown[p] = "releasing" /\ returning[p] = {} /\ session[p] = "on"
  /\ shutdown' = [shutdown EXCEPT ![p] = "done"]
  /\ ids' = [ids EXCEPT ![p] = {}]
  /\ UNCHANGED <<workspaces, todo, stage, returning, early, abandoned, late, unanswered>>

\* "exit", the end of its input, the end of its parent or a crash: the session at the
\* daemon returns what the proxy has not.
Exit(p) ==
  /\ Leave(p)
  /\ todo' = [todo EXCEPT ![p] = <<>>]
  /\ stage' = [stage EXCEPT ![p] = "new"]
  /\ ids' = [ids EXCEPT ![p] = {}] /\ returning' = [returning EXCEPT ![p] = {}]
  /\ shutdown' = [shutdown EXCEPT ![p] = "no"] /\ early' = [early EXCEPT ![p] = FALSE]
  /\ abandoned' = [abandoned EXCEPT ![p] = FALSE]
  /\ late' = [late EXCEPT ![p] = {}] /\ unanswered' = [unanswered EXCEPT ![p] = {}]

ProxyStep(p) ==
  \/ Initialize(p) \/ RegisterNext(p) \/ RegisterTimesOut(p) \/ Initialized(p)
  \/ ShutdownBegins(p) \/ ShutdownEnds(p) \/ Exit(p)
  \/ \E k \in Tokens : \/ Registered(p, k) \/ ShutdownReturns(p, k)
                        \/ ShutdownGivesUp(p, k) \/ LateReturn(p, k)

-----------------------------------------------------------------------------
\* An MCP frontend registers what it pleases of what it is told about a directory.
ToolRegisters(s) ==
  \E d \in Dirs, option \in Options, force \in BOOLEAN :
    \E asked \in Scanned[tree][d] \cup Names(Found[tree][d]) \cup {None} :
      Asks(s, d, asked, option, force)

ToolStep(s) ==
  /\ \/ ToolRegisters(s) \/ RegenerateAsks(s) \/ Leave(s)
     \/ \E k \in Tokens : Join(s, k) \/ Started(s, k) \/ Deregister(s, k)
  /\ UNCHANGED proxy

DaemonStep(s) ==
  /\ Start(s) \/ StartFails(s) \/ NotInstalled(s) \/ CleanUp(s)
  /\ UNCHANGED proxy

Next ==
  \/ \E p \in Proxies : ProxyStep(p)
  \/ \E s \in Sessions \ Proxies : ToolStep(s)
  \/ \E s \in Sessions : DaemonStep(s)
  \/ Edit /\ UNCHANGED proxy

Spec == Init /\ [][Next]_vars

-----------------------------------------------------------------------------
TypeOK ==
  /\ WorkspacesTypeOK
  /\ todo \in [Proxies -> Seq(Reported)]
  /\ stage \in [Proxies -> {"new", "registering", "initialized"}]
  /\ ids \in [Proxies -> SUBSET Tokens]
  /\ shutdown \in [Proxies -> {"no", "releasing", "done"}]
  /\ returning \in [Proxies -> SUBSET Tokens]
  /\ early \in [Proxies -> BOOLEAN] /\ abandoned \in [Proxies -> BOOLEAN]
  /\ late \in [Proxies -> SUBSET Tokens] /\ unanswered \in [Proxies -> SUBSET Tokens]
  /\ \A p \in Proxies : /\ returning[p] \subseteq ids[p] /\ ids[p] \subseteq issued
                        /\ late[p] \subseteq unanswered[p] /\ unanswered[p] \subseteq issued

\* A proxy that was shut down after its initialize had ended has no registration left,
\* while its connection is still up: nothing keeps a server for it, but registrations of
\* which the daemon did not tell it in time that they were made, or were returned.
ShutdownLetsGo ==
  \A p \in Proxies : shutdown[p] = "done" /\ ~early[p] =>
    \A k \in held[p] : Valid(k) => k \in unanswered[p]
=============================================================================
