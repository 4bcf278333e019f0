------------------------------ MODULE Documents ------------------------------
(***************************************************************************)
(* The documents of one LspClient (lsp_client.py): a file is sent to the    *)
(* server once, with the text it has on disk (ensure_file_open) or in the   *)
(* editor of an LSP client (proxy_did_open), and the diagnostics that the   *)
(* server publishes are cached.  Sending a notification only puts it on the *)
(* write queue, so both handlers run without an await, and the branch in    *)
(* which a task waits for another one that is opening the same file is      *)
(* never taken.                                                            *)
(***************************************************************************)
EXTENDS Naturals, Sequences, FiniteSets

CONSTANTS
  Files,       \* URIs of files
  MaxVersion,  \* bound: how often a file is edited
  None

Versions == 0..MaxVersion
Buffer == MaxVersion + 1   \* the text of an editor, which need not be that on disk
Texts == Versions \cup {Buffer}

ASSUME VersionAssumption == MaxVersion \in Nat
ASSUME NoneAssumption == None \notin Texts

VARIABLES
  disk,       \* the version of each file, or None: it cannot be read
  client,     \* the client: "up", "stopping" (in stop()), "stopped"
  openFiles,  \* _open_files
  sent,       \* the texts that were put on the write queue with didOpen
  diagnosed,  \* _diagnostics: the text that the cached diagnostics are about
  told        \* what the last step answered to lsp_diagnostics, if it did: the
              \* file, the text that it is about, and the version on disk

documents == <<disk, client, openFiles, sent, diagnosed, told>>

Told == [file : Files, about : Texts \cup {None}, version : Versions \cup {None}]

InitDocuments ==
  /\ disk \in [Files -> {0, None}]
  /\ client = "up"
  /\ openFiles = {}
  /\ sent = [f \in Files |-> <<>>]
  /\ diagnosed = [f \in Files |-> None]
  /\ told = None

Quiet == told' = None   \* the step answers no lsp_diagnostics

-----------------------------------------------------------------------------
(* Opening *)

\* Mutant: the files are not remembered.
OpenForgetting(S) ==
  /\ UNCHANGED openFiles
  /\ sent' = [f \in Files |-> IF f \in S THEN Append(sent[f], disk[f]) ELSE sent[f]]

\* didOpen of some files with the text on disk.
Open(S) ==
  /\ openFiles' = openFiles \cup S
  /\ sent' = [f \in Files |-> IF f \in S THEN Append(sent[f], disk[f]) ELSE sent[f]]

\* Mutant: a file that cannot be read is opened all the same.
OpenableUnread(S) == {f \in S \ openFiles : client # "stopped"}

\* What ensure_file_open sends: a file that is not open and can be read, while
\* there is a process to send it to.
Openable(S) ==
  {f \in S \ openFiles : disk[f] # None /\ client # "stopped"}

\* ensure_file_open of each of some files.  After it, those that are not in
\* openFiles are those it raised for.
EnsureOpen(S) == Open(Openable(S))

\* proxy_did_open, the client's didOpen through the LSP proxy.  An open file is
\* left alone, whatever its text.
ProxyDidOpen(f) ==
  /\ client # "stopped" /\ f \notin openFiles
  /\ openFiles' = openFiles \cup {f}
  /\ sent' = [sent EXCEPT ![f] = Append(@, Buffer)]
  /\ Quiet /\ UNCHANGED <<disk, client, diagnosed>>

\* A request of another session about the file.
OtherOpens(f) ==
  /\ Openable({f}) # {}
  /\ EnsureOpen({f})
  /\ Quiet /\ UNCHANGED <<disk, client, diagnosed>>

-----------------------------------------------------------------------------
(* Diagnostics *)

\* publishDiagnostics: the server has read the file.
Publish(f) ==
  /\ client = "up" /\ sent[f] # <<>>
  /\ diagnosed' = [diagnosed EXCEPT ![f] = sent[f][Len(sent[f])]]
  /\ Quiet /\ UNCHANGED <<disk, client, openFiles, sent>>

\* lsp_diagnostics of a file that is open or can be opened: what is cached, which
\* is nothing right after the file was opened.
ReadDiagnostics(f) ==
  /\ f \in openFiles \cup Openable({f})
  /\ EnsureOpen({f})
  /\ told' = [file |-> f, about |-> diagnosed[f], version |-> disk[f]]
  /\ UNCHANGED <<disk, client, diagnosed>>

-----------------------------------------------------------------------------
(* The user and the registry *)

\* Neither the daemon nor the proxy forwards changes.
Edit(f) ==
  /\ disk[f] # None /\ disk[f] < MaxVersion
  /\ disk' = [disk EXCEPT ![f] = @ + 1]
  /\ Quiet /\ UNCHANGED <<client, openFiles, sent, diagnosed>>

StopBegins ==
  /\ client = "up"
  /\ client' = "stopping"
  /\ Quiet /\ UNCHANGED <<disk, openFiles, sent, diagnosed>>

StopEnds ==
  /\ client = "stopping"
  /\ client' = "stopped"
  /\ openFiles' = {}
  /\ diagnosed' = [f \in Files |-> None]
  /\ Quiet /\ UNCHANGED <<disk, sent>>

DocumentStep ==
  \/ \E f \in Files : \/ ProxyDidOpen(f) \/ OtherOpens(f) \/ Publish(f)
                      \/ ReadDiagnostics(f) \/ Edit(f)
  \/ StopBegins \/ StopEnds

-----------------------------------------------------------------------------
DocumentsTypeOK ==
  /\ disk \in [Files -> Versions \cup {None}]
  /\ client \in {"up", "stopping", "stopped"}
  /\ openFiles \subseteq Files
  /\ sent \in [Files -> Seq(Texts)]
  /\ diagnosed \in [Files -> Texts \cup {None}]
  /\ told \in Told \cup {None}

\* The server was sent a didOpen for exactly the files that the client counts as
\* open, and one each (the protocol forbids a second), whichever of the requests
\* of sessions, fallbacks and proxied editors came first.
OpenedOnce ==
  /\ \A f \in Files : Len(sent[f]) <= 1
  /\ client # "stopped" => openFiles = {f \in Files : sent[f] # <<>>}

\* Diagnostics of a text that was read from disk are about the text that is there
\* when they are reported.
DiagnosticsFollowChanges ==
  told # None /\ told.about \in Versions => told.about = told.version
=============================================================================
