--------------------------- MODULE DailyWorkspace ---------------------------
(***************************************************************************)
(* One account's daily workspace: the tabs that edit a copy of it, the     *)
(* browser storage they share, and the row and tables the server keeps.    *)
(*                                                                         *)
(* A tab is a React component (app/RoleAtlasApp.tsx): an edit changes its  *)
(* copy at once and starts a 350 ms timer; the timer queues a snapshot;    *)
(* queued saves are sent one after the other, each naming the revision the *)
(* tab knows WHEN IT IS SENT.  The server (user_workspace.rs) locks the    *)
(* workspace row, compares revisions, replaces the tables the workspace    *)
(* owns and raises the revision.  An agent's tool writes one of those      *)
(* tables too, and does not touch the revision.                            *)
(*                                                                         *)
(* Abstractions.  A workspace is the set of edits it contains.  An edit is *)
(* one change of the collections this endpoint owns: strategies and their  *)
(* revisions, feedback, recent views.  Edits add; which edit depends on    *)
(* which is left out.                                                      *)
(*                                                                         *)
(* Faulty variants, used by nothing: SaveUnlocked, ExpectsAnything,        *)
(* PersistsTheScreen, FiresWhenIdle.                                       *)
(***************************************************************************)
EXTENDS Naturals, FiniteSets, Sequences

CONSTANTS
  Tab,                \* browser tabs
  MaxEdits,           \* bound: edits users make, numbered as they are made
  AgentEdit,          \* edits an agent's strategy tools make
  MaxRevision,        \* bound: saves that commit
  MaxQueue,           \* bound: saves queued in a tab
  MaxOpens,           \* bound: times a tab is opened
  MaxLost,            \* bound: requests or answers that are lost
  Nothing             \* no lock holder

Edit == 1 .. MaxEdits

ASSUME WorkspaceAssumption ==
  /\ {MaxEdits, MaxOpens, MaxLost} \subseteq Nat /\ {MaxRevision, MaxQueue} \subseteq Nat \ {0}
  /\ Edit \cap AgentEdit = {} /\ Nothing \notin Tab

Content == SUBSET (Edit \cup AgentEdit)

VARIABLES
  page,               \* per tab: "closed", "loading", "hydrating", "open"
  doc,                \* workspace, the component's state
  persisted,          \* lastPersistedWorkspaceRef
  knownRevision,      \* workspaceRevisionRef
  timer,              \* the 350 ms timer runs; its snapshot is the copy itself
  queue,              \* workspaceSaveQueueRef, the snapshots not yet answered
  put,                \* where the save at its head is
  expected,           \* the expected_revision it was sent with
  replaced,           \* the rows its transaction deleted
  fetched,            \* the revision the last GET or PUT answered
  told,               \* the user was told the edit was not saved
  silent, outdated,   \* history: a save came to nothing and the user was not
                      \* told; saves queued before the newest copy was taken
  stored,             \* localStorage, shared by the account's tabs
  revision,           \* daily_workspaces.revision, 0: no row
  known, raced,       \* history: the revision its last writer expected; two
                      \* saves each found no row
  tables,             \* the rows of the owned tables
  rowLock,            \* who holds the row FOR UPDATE
  made,               \* edits made so far
  opens, lost         \* bound counters

tabVars    == <<page, doc, persisted, knownRevision, timer, queue, put, expected,
                replaced, fetched, told, silent, outdated, stored, opens>>
serverVars == <<revision, known, raced, tables, rowLock>>
workspaceVars == <<tabVars, serverVars, made, lost>>

\* Phases of a save: "sent", "locked" (its transaction is open), "saved" and
\* "conflict" (answered), "refetch" (the revision of the latest copy is read).
Phase == {"none", "sent", "locked", "saved", "conflict", "refetch"}

\* A workspace never saved, or one saved while it was empty; no tab is open.
WorkspaceInit ==
  /\ page = [t \in Tab |-> "closed"] /\ doc = [t \in Tab |-> {}]
  /\ persisted = [t \in Tab |-> {}] /\ knownRevision = [t \in Tab |-> 0]
  /\ timer = [t \in Tab |-> FALSE] /\ queue = [t \in Tab |-> <<>>]
  /\ put = [t \in Tab |-> "none"] /\ expected = [t \in Tab |-> 0]
  /\ replaced = [t \in Tab |-> {}] /\ fetched = [t \in Tab |-> 0]
  /\ told = [t \in Tab |-> FALSE] /\ silent = told /\ outdated = told /\ stored = {}
  /\ revision \in {0, 1} /\ known = 0 /\ raced = FALSE /\ tables = {} /\ rowLock = Nothing
  /\ made = 0 /\ opens = 0 /\ lost = 0
-----------------------------------------------------------------------------
\* Mounting: the copy in browser storage is read, then the server is asked.
Open(t) ==
  /\ page[t] = "closed" /\ opens < MaxOpens
  /\ page' = [page EXCEPT ![t] = "loading"]
  /\ doc' = [doc EXCEPT ![t] = stored]
  /\ opens' = opens + 1
  /\ UNCHANGED <<persisted, knownRevision, timer, queue, put, expected, replaced,
                 fetched, told, silent, outdated, stored, serverVars, made, lost>>

\* load: the row is read first and the tables afterwards, in no transaction.
LoadRow(t) ==
  /\ page[t] = "loading"
  /\ page' = [page EXCEPT ![t] = "hydrating"]
  /\ fetched' = [fetched EXCEPT ![t] = revision]
  /\ UNCHANGED <<doc, persisted, knownRevision, timer, queue, put, expected,
                 replaced, told, silent, outdated, stored, opens, serverVars,
                 made, lost>>

\* The tab adopts a copy: nothing of it is unsaved, so no timer runs.
Adopts(t, copy) ==
  /\ doc' = [doc EXCEPT ![t] = copy] /\ persisted' = [persisted EXCEPT ![t] = copy]
  /\ timer' = [timer EXCEPT ![t] = FALSE] /\ stored' = copy

\* The server's copy wins when there is one; the revision is its own.  Without
\* a workspace row there is one when any of the account's tables has rows,
\* also a save or an application, which are not in this module.
LoadTables(t) ==
  /\ page[t] = "hydrating"
  /\ page' = [page EXCEPT ![t] = "open"]
  /\ knownRevision' = [knownRevision EXCEPT ![t] = fetched[t]]
  /\ \/ Adopts(t, tables)
     \/ fetched[t] = 0 /\ tables = {} /\ Adopts(t, doc[t])
  /\ UNCHANGED <<queue, put, expected, replaced, fetched, told, silent, outdated,
                 opens, serverVars, made, lost>>

\* The server does not answer: the local copy is used, with revision 0.
LoadFails(t) ==
  /\ page[t] \in {"loading", "hydrating"} /\ lost < MaxLost
  /\ page' = [page EXCEPT ![t] = "open"]
  /\ Adopts(t, doc[t])
  /\ lost' = lost + 1
  /\ UNCHANGED <<knownRevision, queue, put, expected, replaced, fetched, told,
                 silent, outdated, opens, serverVars, made>>

\* Closing forgets the copy, the timer and the queue, not the browser storage.
\* A request the server is working on goes on without its tab.
Close(t) ==
  /\ page[t] # "closed" /\ put[t] # "locked"
  /\ page' = [page EXCEPT ![t] = "closed"]
  /\ doc' = [doc EXCEPT ![t] = {}] /\ persisted' = [persisted EXCEPT ![t] = {}]
  /\ knownRevision' = [knownRevision EXCEPT ![t] = 0]
  /\ timer' = [timer EXCEPT ![t] = FALSE] /\ queue' = [queue EXCEPT ![t] = <<>>]
  /\ put' = [put EXCEPT ![t] = "none"] /\ told' = [told EXCEPT ![t] = FALSE]
  /\ silent' = [silent EXCEPT ![t] = FALSE] /\ outdated' = [outdated EXCEPT ![t] = FALSE]
  /\ UNCHANGED <<expected, replaced, fetched, stored, opens, serverVars, made,
                 lost>>

\* Any setWorkspace of the user's: the effect stores the copy and (re)starts
\* the timer on it.
MakeEdit(t) ==
  /\ page[t] = "open" /\ made < MaxEdits
  /\ made' = made + 1
  /\ doc' = [doc EXCEPT ![t] = @ \cup {made'}]
  /\ stored' = doc'[t]
  /\ timer' = [timer EXCEPT ![t] = TRUE]
  /\ told' = [told EXCEPT ![t] = FALSE] /\ silent' = [silent EXCEPT ![t] = FALSE]
  /\ UNCHANGED <<page, persisted, knownRevision, queue, put, expected, replaced,
                 fetched, opens, serverVars, lost, outdated>>

\* The timer queues its snapshot behind the saves not yet answered.
FiresWhenIdle(t) ==
  /\ timer[t]
  /\ timer' = [timer EXCEPT ![t] = FALSE]
  /\ queue' = IF queue[t] = <<>> THEN [queue EXCEPT ![t] = <<doc[t]>>] ELSE queue
  /\ UNCHANGED <<page, doc, persisted, knownRevision, put, expected, replaced,
                 fetched, told, silent, outdated, stored, opens, serverVars, made,
                 lost>>
TimerFires(t) ==
  /\ timer[t]
  /\ Len(queue[t]) < MaxQueue
  /\ queue' = [queue EXCEPT ![t] = Append(@, doc[t])]
  /\ timer' = [timer EXCEPT ![t] = FALSE]
  /\ UNCHANGED <<page, doc, persisted, knownRevision, put, expected, replaced,
                 fetched, told, silent, outdated, stored, opens, serverVars, made,
                 lost>>

\* The save at the head of the queue is sent with the revision known now.
Send(t) ==
  /\ queue[t] # <<>> /\ put[t] = "none"
  /\ put' = [put EXCEPT ![t] = "sent"]
  /\ expected' = [expected EXCEPT ![t] = knownRevision[t]]
  /\ UNCHANGED <<page, doc, persisted, knownRevision, timer, queue, replaced,
                 fetched, told, silent, outdated, stored, opens, serverVars, made,
                 lost>>
-----------------------------------------------------------------------------
\* save(), the first half: lock the row if there is one, compare, delete.
ExpectsAnything(t) == FALSE
Stale(t) == expected[t] # revision
SaveUnlocked(t) ==
  /\ put[t] = "sent" /\ revision < MaxRevision
  /\ put' = [put EXCEPT ![t] = IF Stale(t) THEN "conflict" ELSE "locked"]
  /\ replaced' = [replaced EXCEPT ![t] = tables]
  /\ UNCHANGED <<rowLock, page, doc, persisted, knownRevision, timer, queue,
                 expected, fetched, told, silent, outdated, stored, opens,
                 revision, known, raced, tables, made, lost>>
BeginSave(t) ==
  /\ put[t] = "sent" /\ revision < MaxRevision
  /\ revision > 0 => rowLock = Nothing
  /\ IF Stale(t)
     THEN put' = [put EXCEPT ![t] = "conflict"] /\ UNCHANGED <<replaced, rowLock>>
     ELSE /\ put' = [put EXCEPT ![t] = "locked"]
          /\ replaced' = [replaced EXCEPT ![t] = tables]
          /\ rowLock' = IF revision > 0 THEN t ELSE rowLock
  /\ UNCHANGED <<page, doc, persisted, knownRevision, timer, queue, expected,
                 fetched, told, silent, outdated, stored, opens, revision, known,
                 raced, tables, made, lost>>

Unlocked(t) == IF rowLock = t THEN Nothing ELSE rowLock

\* The second half: insert the snapshot's rows, upsert the row, commit.  Rows
\* that others committed since the deletion stay; one with the same key makes
\* the insertion, and with it the save, fail.
Twice(t) == (tables \ replaced[t]) \cap Head(queue[t])
CommitSave(t) ==
  /\ put[t] = "locked" /\ Twice(t) = {} /\ revision < MaxRevision
  /\ rowLock \in {Nothing, t}
  /\ tables' = (tables \ replaced[t]) \cup Head(queue[t])
  /\ revision' = revision + 1 /\ known' = expected[t]
  /\ raced' = (raced \/ (expected[t] = 0 /\ revision > 0))
  /\ rowLock' = Unlocked(t)
  /\ put' = [put EXCEPT ![t] = "saved"]
  /\ fetched' = [fetched EXCEPT ![t] = revision']
  /\ UNCHANGED <<page, doc, persisted, knownRevision, timer, queue, expected,
                 replaced, told, silent, outdated, stored, opens, made, lost>>

\* An agent's tool creates or revises a strategy: its own transaction.
AgentWrites(e) ==
  /\ e \notin tables
  /\ tables' = tables \cup {e}
  /\ UNCHANGED <<tabVars, revision, known, raced, rowLock, made, lost>>
-----------------------------------------------------------------------------
Answered(t) == /\ put' = [put EXCEPT ![t] = "none"]
               /\ queue' = [queue EXCEPT ![t] = Tail(@)]

\* The answer of a save arrives: its snapshot is what is now persisted.
PersistsTheScreen(t) ==
  /\ put[t] = "saved" /\ Answered(t)
  /\ knownRevision' = [knownRevision EXCEPT ![t] = fetched[t]]
  /\ persisted' = [persisted EXCEPT ![t] = doc[t]]
  /\ UNCHANGED <<page, doc, timer, expected, replaced, fetched, told, silent,
                 outdated, stored, opens, serverVars, made, lost>>
Saved(t) ==
  /\ put[t] = "saved" /\ Answered(t)
  /\ knownRevision' = [knownRevision EXCEPT ![t] = fetched[t]]
  /\ persisted' = [persisted EXCEPT ![t] = Head(queue[t])]
  /\ UNCHANGED <<page, doc, timer, expected, replaced, fetched, told, silent,
                 outdated, stored, opens, serverVars, made, lost>>

\* 409: the latest copy is fetched, row first, and replaces the tab's.  Saves
\* queued meanwhile stay queued, and are sent with the revision of that copy.
Refetch(t) ==
  /\ put[t] = "conflict"
  /\ put' = [put EXCEPT ![t] = "refetch"] /\ fetched' = [fetched EXCEPT ![t] = revision]
  /\ UNCHANGED <<page, doc, persisted, knownRevision, timer, queue, expected,
                 replaced, told, silent, outdated, stored, opens, serverVars,
                 made, lost>>
Restore(t) ==
  /\ put[t] = "refetch" /\ Answered(t)
  /\ knownRevision' = [knownRevision EXCEPT ![t] = fetched[t]]
  /\ Adopts(t, tables)
  /\ told' = [told EXCEPT ![t] = TRUE]
  /\ outdated' = [outdated EXCEPT ![t] = Tail(queue[t]) # <<>>]
  /\ UNCHANGED <<page, expected, replaced, fetched, opens, serverVars, made, lost,
                 silent>>

\* The latest copy is refused: the save returns and the user is not told.
LatestRefused(t) ==
  /\ put[t] \in {"conflict", "refetch"} /\ Answered(t)
  /\ lost < MaxLost /\ lost' = lost + 1
  /\ silent' = [silent EXCEPT ![t] = Tail(queue[t]) = <<>> /\ ~timer[t]]
  /\ UNCHANGED <<page, doc, persisted, knownRevision, timer, expected, replaced,
                 fetched, told, outdated, stored, opens, serverVars, made>>

\* A request or its answer is lost, or a key is taken: the user is told, and
\* nothing is sent again until the next edit.
Refused(t) == put[t] = "locked" /\ Twice(t) # {} /\ UNCHANGED lost
Lost(t)    == put[t] # "none" /\ lost < MaxLost /\ lost' = lost + 1
SaveFails(t) ==
  /\ Refused(t) \/ Lost(t)
  /\ Answered(t)
  /\ told' = [told EXCEPT ![t] = TRUE]
  /\ rowLock' = Unlocked(t)
  /\ UNCHANGED <<page, doc, persisted, knownRevision, timer, expected, replaced,
                 fetched, stored, opens, revision, known, raced, tables, made,
                 silent, outdated>>
-----------------------------------------------------------------------------
\* What goes on without the user: timers, requests and answers.
Progress(t) ==
  \/ LoadRow(t) \/ LoadTables(t) \/ TimerFires(t) \/ Send(t) \/ BeginSave(t)
  \/ CommitSave(t) \/ Saved(t) \/ Refetch(t) \/ Restore(t)
  \/ LatestRefused(t) \/ SaveFails(t)

WorkspaceNext ==
  \/ \E t \in Tab : Open(t) \/ Close(t) \/ LoadFails(t) \/ MakeEdit(t) \/ Progress(t)
  \/ \E e \in AgentEdit : AgentWrites(e)

WorkspaceSpec == WorkspaceInit /\ [][WorkspaceNext]_workspaceVars
WorkspaceFairness == \A t \in Tab : WF_workspaceVars(Progress(t))
-----------------------------------------------------------------------------
\* Every reference, row and request stays within its domain.
WorkspaceTypeOK ==
  /\ page \in [Tab -> {"closed", "loading", "hydrating", "open"}]
  /\ doc \in [Tab -> Content] /\ persisted \in [Tab -> Content] /\ stored \in Content
  /\ timer \in [Tab -> BOOLEAN] /\ queue \in [Tab -> Seq(Content)]
  /\ put \in [Tab -> Phase] /\ \A t \in Tab : put[t] # "none" => queue[t] # <<>>
  /\ replaced \in [Tab -> Content] /\ tables \in Content
  /\ knownRevision \in [Tab -> Nat] /\ expected \in [Tab -> Nat] /\ fetched \in [Tab -> Nat]
  /\ revision \in 0 .. MaxRevision /\ known \in Nat /\ raced \in BOOLEAN
  /\ {told, silent, outdated} \subseteq [Tab -> BOOLEAN] /\ rowLock \in Tab \cup {Nothing}
  /\ made \in 0 .. MaxEdits /\ opens \in Nat /\ lost \in Nat

\* "returns HTTP 409 on a stale revision": the workspace row behaves as a
\* versioned document, whatever tabs, lost answers and overlapping saves do.
Document == INSTANCE VersionedDocument WITH revision <- revision, known <- known
ImplementsDocument == Document!Spec

\* The inductive form: an open transaction that expects a revision holds the
\* row's lock and the revision it expects.
LockHeld == \A t \in Tab : put[t] = "locked" /\ expected[t] > 0 =>
              rowLock = t /\ expected[t] = revision

\* "This prevents simultaneous tabs from silently overwriting one another"
\* (docs/DATA_MODEL.md): what a tab has saved stays saved, whatever the other
\* tabs save afterwards, however slow the saves are; but for two first saves,
\* neither of which finds a row to lock, and but for a tab that took the latest
\* copy while saves it had queued before were still waiting: those overwrite
\* what it took.
OverwritesTaken(t) == outdated[t] /\ put[t] = "locked" /\ put'[t] = "saved"
SavedEditsStay ==
  [][~raced /\ (\A t \in Tab : ~OverwritesTaken(t)) => tables \cap Edit \subseteq tables']_workspaceVars

\* A tab that knows the current revision takes nothing for saved that the
\* server does not hold.
SavedMeansStored ==
  \A t \in Tab : knownRevision[t] = revision /\ revision > 0 =>
    persisted[t] \cap Edit \subseteq tables

\* An edit that is not saved is noticed: it is saved in the end, or the user is
\* told; but where the latest copy is refused after a conflict, and nothing more
\* is to be sent, the code says nothing, and the next edit is to be noticed.
Unsaved(t) == page[t] = "open" /\ doc[t] # persisted[t] /\ ~told[t] /\ ~silent[t]
UnsavedIsNoticed == \A t \in Tab : []<>~Unsaved(t)
=============================================================================
