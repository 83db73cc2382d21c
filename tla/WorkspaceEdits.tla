--------------------------- MODULE WorkspaceEdits ---------------------------
(***************************************************************************)
(* What the edits of a daily workspace do to its collections: feedback and *)
(* the jobs it dismisses, strategies and their revisions, notifications.   *)
(*                                                                         *)
(* app/dailyProduct.ts makes them from the tab's copy; a save replaces the *)
(* server's rows by the copy's, and a load composes a copy from the rows   *)
(* (user_workspace.rs), where dismissals are derived from the feedback.    *)
(* Most edits are functions of the latest copy; one (feedback) is computed *)
(* from the copy that was RENDERED, which an update made by a promise or   *)
(* an effect may already have replaced.  An agent's tools write strategies *)
(* in the server's rows, once per idempotency key but executed again after *)
(* a crash (lib/agent/tools.ts).                                           *)
(*                                                                         *)
(* Abstractions.  DailyWorkspace has the protocol of saving; here a save   *)
(* or a load happens as one step.  Order within feedback is left out.      *)
(*                                                                         *)
(* Faulty variants, used by nothing: ForgetsTheRest, NextByCount.          *)
(***************************************************************************)
EXTENDS Naturals, Sequences, FiniteSets, SequencesExt

CONSTANTS
  Job,                \* jobs on the screen
  AgentKey,           \* idempotency keys of strategy tool calls
  MaxEditsMade,       \* bound: edits the person and the effects make
  MaxAlerts           \* the cap of the notification list (100)

ASSUME EditsAssumption ==
  /\ MaxEditsMade \in Nat /\ MaxAlerts \in Nat \ {0}
  /\ AgentKey \cap (0 .. MaxEditsMade) = {}

\* A revision is named by the key that made it or by a number; a strategy by
\* its first revision.  A notification's key is a job and what happened to it.
RevisionId == (1 .. MaxEditsMade) \cup AgentKey
Revision == [id : RevisionId, version : Nat]
Event == {"possibly_closed", "closed"}

VARIABLES
  copy,               \* the tab's workspace, and
  rendered,           \* the one its handlers close over
  rows,               \* the server's tables: feedback and strategies
  edits               \* bound counter; it also names revisions

editVars == <<copy, rendered, rows, edits>>

Blank == [feedback |-> <<>>, dismissed |-> {}, strategies |-> <<>>, alerts |-> <<>>]

EditsInit ==
  /\ copy = Blank /\ rendered = Blank
  /\ rows = [feedback |-> <<>>, strategies |-> <<>>]
  /\ edits = 0
-----------------------------------------------------------------------------
\* A person's edit is rendered before the next one; an update made by an
\* effect or after an await may not be.
Counted == edits < MaxEditsMade /\ edits' = edits + 1
ByPerson(next) == Counted /\ copy' = next /\ rendered' = next
BehindTheScreen(next) == copy' = next /\ rendered' \in {rendered, next}

\* addFeedback, from recordJobFeedback: the rendered copy is what it extends.
AddFeedback(job, dismisses) ==
  /\ ByPerson([rendered EXCEPT
       !.feedback = Append(@, [job |-> job, dismisses |-> dismisses, undone |-> FALSE]),
       !.dismissed = IF dismisses THEN @ \cup {job} ELSE @])
  /\ UNCHANGED rows

\* undoFeedback: the job comes back unless other feedback still dismisses it.
Dismissing(record, job) == record.job = job /\ record.dismisses /\ ~record.undone
ForgetsTheRest(feedback, i) == FALSE
StillDismissed(feedback, i) ==
  \E k \in DOMAIN feedback \ {i} : Dismissing(feedback[k], feedback[i].job)
UndoFeedback(i) ==
  /\ ~copy.feedback[i].undone
  /\ ByPerson([copy EXCEPT
       !.feedback[i].undone = TRUE,
       !.dismissed = IF StillDismissed(copy.feedback, i) THEN @ ELSE @ \ {copy.feedback[i].job}])
  /\ UNCHANGED rows

\* saveStrategy: a new strategy, or the next revision of one, made active.
Versions(strategy) == {revision.version : revision \in strategy.revisions}
NextByCount(strategy) == Cardinality(strategy.revisions)
NextVersion(strategy) == 1 + CHOOSE v \in Versions(strategy) : \A w \in Versions(strategy) : w <= v
FirstOf(name, id) == [name |-> name, active |-> id, revisions |-> {[id |-> id, version |-> 1]}]
RevisedBy(strategy, id) ==
  [strategy EXCEPT !.active = id, !.revisions = @ \cup {[id |-> id, version |-> NextVersion(strategy)]}]

CreateStrategy ==
  /\ ByPerson([copy EXCEPT !.strategies = <<FirstOf(edits', edits')>> \o @])
  /\ UNCHANGED rows

\* duplicateStrategy: its active plan, as a strategy of its own.
DuplicateStrategy(i) ==
  /\ copy.strategies[i].revisions # {}
  /\ ByPerson([copy EXCEPT !.strategies = <<FirstOf(edits', edits')>> \o @])
  /\ UNCHANGED rows

\* When the profile has been loaded, its plan is the first strategy of a
\* workspace without any: an effect.
Reconcile ==
  /\ copy.strategies = <<>> /\ Counted
  /\ BehindTheScreen([copy EXCEPT !.strategies = <<FirstOf(edits', edits')>>])
  /\ UNCHANGED rows

\* saveStrategyRevision: after the plan was stored, so behind the screen.  A
\* strategy that a load has meanwhile taken from the copy is made again.
Named(strategies, name) == {i \in DOMAIN strategies : strategies[i].name = name}
EditStrategy(name) ==
  /\ LET there == Named(copy.strategies, name) IN
     Counted /\ BehindTheScreen([copy EXCEPT !.strategies =
       IF there = {} THEN <<FirstOf(name, edits')>> \o @
       ELSE [i \in DOMAIN @ |-> IF i \in there THEN RevisedBy(@[i], edits') ELSE @[i]]])
  /\ UNCHANGED rows

\* addNotification: not while one with the key is there and not dismissed.
Announced(alerts, key) == \E i \in DOMAIN alerts : alerts[i].key = key /\ ~alerts[i].dismissed
Capped(alerts) == SubSeq(alerts, 1, IF Len(alerts) < MaxAlerts THEN Len(alerts) ELSE MaxAlerts)

\* syncSavedJobNotifications, syncApplicationNotifications: an effect.
Announce(key) ==
  /\ ~Announced(copy.alerts, key)
  /\ Counted /\ BehindTheScreen([copy EXCEPT !.alerts = Capped(<<[key |-> key, dismissed |-> FALSE]>> \o @)])
  /\ UNCHANGED rows

\* updateNotification, dismiss.
DismissAlert(i) ==
  /\ ~copy.alerts[i].dismissed
  /\ ByPerson([copy EXCEPT !.alerts[i].dismissed = TRUE])
  /\ UNCHANGED rows
-----------------------------------------------------------------------------
\* sync_entities: the rows become the copy's.
SaveCopy ==
  /\ rows' = [feedback |-> copy.feedback, strategies |-> copy.strategies]
  /\ UNCHANGED <<copy, rendered, edits>>

\* compose_entities: dismissals are derived; the notifications are the
\* server's own, none of which the tab made.
DismissedBy(feedback) == {r.job : r \in {s \in ToSet(feedback) : s.dismisses /\ ~s.undone}}
LoadCopy ==
  /\ BehindTheScreen([feedback |-> rows.feedback, dismissed |-> DismissedBy(rows.feedback),
                      strategies |-> rows.strategies, alerts |-> <<>>])
  /\ UNCHANGED <<rows, edits>>

\* create_search_strategy: both inserts do nothing when the row is there.
AgentCreates(key) ==
  /\ Named(rows.strategies, key) = {}
  /\ rows' = [rows EXCEPT !.strategies = <<FirstOf(key, key)>> \o @]
  /\ UNCHANGED <<copy, rendered, edits>>

\* revise_search_strategy: the key's revision if it is there, else the next.
AgentRevises(i, key) ==
  /\ key \notin {revision.id : revision \in rows.strategies[i].revisions}
  /\ rows' = [rows EXCEPT !.strategies[i] = RevisedBy(@, key)]
  /\ UNCHANGED <<copy, rendered, edits>>
-----------------------------------------------------------------------------
EditsNext ==
  \/ \E job \in Job, dismisses \in BOOLEAN : AddFeedback(job, dismisses)
  \/ \E i \in DOMAIN copy.feedback : UndoFeedback(i)
  \/ CreateStrategy \/ Reconcile \/ SaveCopy \/ LoadCopy
  \/ \E i \in DOMAIN copy.strategies : DuplicateStrategy(i)
  \/ \E strategy \in ToSet(rendered.strategies) : EditStrategy(strategy.name)
  \/ \E key \in Job \X Event : Announce(key)
  \/ \E i \in DOMAIN copy.alerts : DismissAlert(i)
  \/ \E key \in AgentKey : AgentCreates(key)
  \/ \E key \in AgentKey, i \in DOMAIN rows.strategies : AgentRevises(i, key)

EditsSpec == EditsInit /\ [][EditsNext]_editVars
-----------------------------------------------------------------------------
\* Feedback, strategies and notifications stay within their domains.
Strategy == [name : RevisionId, active : RevisionId, revisions : SUBSET Revision]
Feedback == [job : Job, dismisses : BOOLEAN, undone : BOOLEAN]
Alert    == [key : Job \X Event, dismissed : BOOLEAN]
CopyOK(c) == /\ \A r \in ToSet(c.feedback) : r \in Feedback
             /\ \A s \in ToSet(c.strategies) : s.name \in RevisionId
             /\ \A a \in ToSet(c.alerts) : a \in Alert
             /\ c.dismissed \subseteq Job /\ Len(c.alerts) <= MaxAlerts
EditsTypeOK == /\ CopyOK(copy) /\ CopyOK(rendered)
               /\ ToSet(rows.feedback) \subseteq Feedback /\ edits \in 0 .. MaxEditsMade

\* What the tab hides is what its feedback dismisses, as the server would
\* derive it: a reload neither brings a job back nor hides one.  Also when
\* feedback was given on a copy that had already been replaced.
DismissalsMatch == copy.dismissed = DismissedBy(copy.feedback)

\* Every strategy, in the tab and in the tables, has an active revision that
\* is one of its own, and no version twice (a save that has one twice breaks
\* the table's key), whoever of person and agent revised it, however often
\* the agent's call was executed and whatever a save erased.
WellFormed(strategy) ==
  /\ strategy.active \in {revision.id : revision \in strategy.revisions}
  /\ \A r, q \in strategy.revisions : r # q => r.version # q.version /\ r.id # q.id
StrategiesWellFormed ==
  \A strategy \in ToSet(copy.strategies) \cup ToSet(rows.strategies) : WellFormed(strategy)
=============================================================================
