------------------------- MODULE ApplicationRecords -------------------------
(***************************************************************************)
(* One job a person follows: whether it is saved, and its application, on  *)
(* a tab's screen and in the server's tables.                              *)
(*                                                                         *)
(* Every change shows on the screen at once.  A change of the application  *)
(* starts a 400 ms timer with a patch of the changed field, and REPLACES   *)
(* the patch of a timer that already runs (app/entitySync.ts); the answer  *)
(* of the PUT is the server's whole record, which the screen adopts.  A    *)
(* save or its removal is sent at once and not sequenced.  The server's    *)
(* upsert (entity_writes.rs) reads the stage without a lock, then writes   *)
(* the row and appends the move from the stage it read.                    *)
(*                                                                         *)
(* Abstractions.  Of the application's fields two are kept: the stage,     *)
(* which a patch may leave out but the upsert always writes, and one other *)
(* (notes) that stands for all that keep their value when left out.  Of an *)
(* activity the stages it goes from and to are kept, which make its id.    *)
(*                                                                         *)
(* Faulty variants, used by nothing: AdoptsNothing, MovesOfNamedStages.    *)
(***************************************************************************)
EXTENDS Naturals, Sequences, SequencesExt

CONSTANTS
  Stage,              \* the lifecycle stages the person and the agent choose
  MaxChanges,         \* bound: changes the person makes
  MaxMoves,           \* bound: moves an agent's tool makes
  MaxFlights,         \* bound: requests of one kind under way
  MaxFailures,        \* bound: requests or answers lost
  MaxReloads,         \* bound: reloads of the page
  Keep                \* a field that is not in a patch

ASSUME RecordsAssumption ==
  /\ {"Saved", "Preparing"} \subseteq Stage
  /\ Keep \notin Stage \cup Nat /\ "none" \notin Stage
  /\ {MaxChanges, MaxMoves, MaxFlights, MaxFailures, MaxReloads} \subseteq Nat

\* Untracked: there is no application.
Untracked == [stage |-> "none", notes |-> 0]
Record == [stage : Stage, notes : 0 .. MaxChanges] \cup {Untracked}
Patch  == [stage : Stage \cup {Keep}, notes : (0 .. MaxChanges) \cup {Keep}]
NoPatch == [stage |-> Keep, notes |-> Keep]

VARIABLES
  shown,              \* the application on the screen (workspace.applications)
  star,               \* the job is saved, on the screen
  pending,            \* pendingApplications: the patch whose timer runs
  puts,               \* PUTs under way: patch, where it is, stage read, answer,
                      \* and whether a page still waits for it
  marks,              \* saves (TRUE) and removals under way, not yet applied
  warned,             \* history: what the person was told is not stored, and no
                      \* later answer has settled
  application,        \* the row of applications
  moves,              \* its activities, each by its id: the stages moved from
                      \* and to; created, from "none"; by the agent, from "any"
  saveRow,            \* a row of saved_jobs exists
  overlapped,         \* history: two writes of the application ran at once,
  starred,            \* or two of the save
  createdTwice,       \* history: a write found no row, and there was one
  unseen,             \* history: an agent's move the screen has not met
  changes, agentMoves, failures, reloads  \* bound counters

recordVars == <<shown, star, pending, puts, marks, warned, application, moves, saveRow,
                overlapped, starred, createdTwice, unseen, changes, agentMoves, failures, reloads>>

RecordsInit ==
  /\ shown = Untracked /\ star = FALSE /\ pending = NoPatch /\ puts = <<>> /\ marks = <<>>
  /\ warned = {} /\ application = Untracked /\ moves = {} /\ saveRow = FALSE
  /\ overlapped = FALSE /\ starred = FALSE /\ createdTwice = FALSE /\ unseen = FALSE
  /\ changes = 0 /\ agentMoves = 0 /\ failures = 0 /\ reloads = 0
-----------------------------------------------------------------------------
\* updateApplication and persistApplication: the screen takes the patch; a
\* patch whose timer still ran is forgotten.
Patched(record, patch) ==
  [stage |-> IF patch.stage # Keep THEN patch.stage
             ELSE IF record = Untracked THEN "Saved" ELSE record.stage,
   notes |-> IF patch.notes # Keep THEN patch.notes ELSE record.notes]

Change(patch) ==
  /\ changes < MaxChanges /\ changes' = changes + 1
  /\ shown' = Patched(shown, patch)
  /\ pending' = patch
  /\ UNCHANGED <<star, puts, marks, warned, application, moves, saveRow, overlapped,
                 starred, createdTwice, unseen, agentMoves, failures, reloads>>

\* advanceApplication: a job not tracked yet is tracked as "Preparing".
Advance == Change([NoPatch EXCEPT !.stage = IF shown = Untracked THEN "Preparing" ELSE shown.stage])

\* setApplicationStage: an untracked job is created with empty notes.
SetStage(stage) == Change([stage |-> stage, notes |-> IF shown = Untracked THEN 0 ELSE Keep])

\* ApplicationsWorkspace, onChange of one field of a tracked job.
EditNotes == shown # Untracked /\ Change([NoPatch EXCEPT !.notes = changes + 1])

\* toggleSaved, unsaveById: shown at once, sent at once.
ToggleSaved ==
  /\ changes < MaxChanges /\ changes' = changes + 1 /\ Len(marks) < MaxFlights
  /\ star' = ~star
  /\ marks' = Append(marks, star')
  /\ starred' = (starred \/ marks # <<>>)
  /\ UNCHANGED <<shown, pending, puts, warned, application, moves, saveRow, overlapped,
                 unseen, agentMoves, failures, reloads, createdTwice>>

\* The timer fires: putApplication sends the patch.
SendPatch ==
  /\ pending # NoPatch /\ Len(puts) < MaxFlights
  /\ puts' = Append(puts, [patch |-> pending, at |-> "sent", read |-> "none", answer |-> Untracked,
                          heard |-> TRUE])
  /\ pending' = NoPatch
  /\ overlapped' = (overlapped \/ puts # <<>>)
  /\ UNCHANGED <<shown, star, marks, warned, application, moves, saveRow, starred,
                 createdTwice, unseen, changes, agentMoves, failures, reloads>>

\* Reload: timers and answers to come are forgotten, the screen is what the
\* server holds; a request under way goes on.
Reload ==
  /\ reloads < MaxReloads /\ reloads' = reloads + 1
  /\ shown' = application /\ star' = saveRow
  /\ pending' = NoPatch /\ warned' = {} /\ unseen' = FALSE
  /\ puts' = [i \in DOMAIN puts |-> [puts[i] EXCEPT !.heard = FALSE]]
  /\ overlapped' = (puts # <<>>) /\ starred' = (marks # <<>>)
  /\ UNCHANGED <<marks, application, moves, saveRow, changes, agentMoves, failures,
                 createdTwice>>
-----------------------------------------------------------------------------
\* upsert_application, the first statements: the stage is read, not locked.
ReadStage(i) ==
  /\ puts[i].at = "sent"
  /\ puts' = [puts EXCEPT ![i].at = "read", ![i].read = application.stage]
  /\ UNCHANGED <<shown, star, pending, marks, warned, application, moves, saveRow,
                 overlapped, starred, createdTwice, unseen, changes, agentMoves,
                 failures, reloads>>

\* A patch without a stage writes back the stage that was read.
NextStage(put) == IF put.patch.stage # Keep THEN put.patch.stage
                  ELSE IF put.read # "none" THEN put.read ELSE "Saved"

\* A move is recorded when the stage read is not the next one.  A new row
\* records its creation, once.  An activity whose id is there already is not
\* appended again: the same move made twice is recorded once.
MovesOfNamedStages(put) ==
  IF put.patch.stage \in {Keep, put.read} THEN {} ELSE {<<put.read, put.patch.stage>>}
Created == \E move \in moves : move[1] = "none"
MovesOf(put) ==
  IF put.read = NextStage(put) \/ (put.read = "none" /\ Created) THEN {}
  ELSE {<<put.read, NextStage(put)>>}

\* The rest of the transaction, its commit and the record it answers.
WriteApplication(i) ==
  /\ puts[i].at = "read"
  /\ application' = [Patched(application, puts[i].patch) EXCEPT !.stage = NextStage(puts[i])]
  /\ moves' = moves \cup MovesOf(puts[i])
  /\ createdTwice' = (createdTwice \/ (puts[i].read = "none" /\ application # Untracked))
  /\ puts' = [puts EXCEPT ![i].at = "answered", ![i].answer = application']
  /\ UNCHANGED <<shown, star, pending, marks, warned, saveRow, overlapped, starred,
                 unseen, changes, agentMoves, failures, reloads>>

\* adoptServerApplication: the screen takes the whole record.
AdoptsNothing(i) ==
  /\ puts[i].at = "answered" /\ puts' = RemoveAt(puts, i)
  /\ UNCHANGED <<shown, unseen, star, pending, marks, warned, application, moves,
                 saveRow, overlapped, starred, createdTwice, changes, agentMoves,
                 failures, reloads>>
Adopt(i) ==
  /\ puts[i].at = "answered" /\ puts' = RemoveAt(puts, i)
  /\ IF puts[i].heard THEN shown' = puts[i].answer /\ unseen' = FALSE /\ warned' = warned \ {"record"}
     ELSE UNCHANGED <<shown, unseen, warned>>
  /\ UNCHANGED <<star, pending, marks, application, moves, saveRow, overlapped, starred,
                 createdTwice, changes, agentMoves, failures, reloads>>

\* A PUT or its answer is lost: the person is told, nothing is sent again.
PutFails(i) ==
  /\ failures < MaxFailures /\ failures' = failures + 1
  /\ puts' = RemoveAt(puts, i) /\ warned' = IF puts[i].heard THEN warned \cup {"record"} ELSE warned
  /\ UNCHANGED <<shown, star, pending, marks, application, moves, saveRow, overlapped,
                 starred, createdTwice, unseen, changes, agentMoves, reloads>>

\* upsert_save, delete_save; the answer changes nothing on the screen.
ApplyMark(i) ==
  /\ saveRow' = marks[i] /\ marks' = RemoveAt(marks, i) /\ warned' = warned \ {"save"}
  /\ UNCHANGED <<shown, star, pending, puts, application, moves, overlapped, starred,
                 createdTwice, unseen, changes, agentMoves, failures, reloads>>
MarkFails(i) ==
  /\ failures < MaxFailures /\ failures' = failures + 1
  /\ marks' = RemoveAt(marks, i) /\ warned' = warned \cup {"save"}
  /\ saveRow' \in {saveRow, marks[i]}
  /\ UNCHANGED <<shown, star, pending, puts, application, moves, overlapped, starred,
                 createdTwice, unseen, changes, agentMoves, reloads>>

\* The agent's update_application_state: the stage, and an activity of its own
\* that does not say what the stage was.
AgentMoves(stage) ==
  /\ application # Untracked /\ agentMoves < MaxMoves /\ agentMoves' = agentMoves + 1
  /\ application' = [application EXCEPT !.stage = stage]
  /\ moves' = moves \cup {<<"any", stage>>}
  /\ overlapped' = (overlapped \/ puts # <<>>) /\ unseen' = TRUE
  /\ UNCHANGED <<shown, star, pending, puts, marks, warned, saveRow, starred,
                 createdTwice, changes, failures, reloads>>
-----------------------------------------------------------------------------
RecordsProgress ==
  \/ SendPatch
  \/ \E i \in DOMAIN puts : ReadStage(i) \/ WriteApplication(i) \/ Adopt(i)
  \/ \E i \in DOMAIN marks : ApplyMark(i)

RecordsNext ==
  \/ Advance \/ EditNotes \/ ToggleSaved \/ Reload
  \/ \E stage \in Stage : SetStage(stage) \/ AgentMoves(stage)
  \/ \E i \in DOMAIN puts : PutFails(i)
  \/ \E i \in DOMAIN marks : MarkFails(i)
  \/ RecordsProgress

RecordsSpec == RecordsInit /\ [][RecordsNext]_recordVars
-----------------------------------------------------------------------------
\* Patches, requests and rows stay within their domains.
RecordsTypeOK ==
  /\ shown \in Record /\ application \in Record /\ pending \in Patch
  /\ moves \subseteq (Stage \cup {"none", "any"}) \X Stage
  /\ \A i \in DOMAIN puts : puts[i].patch \in Patch /\ puts[i].answer \in Record
                            /\ puts[i].at \in {"sent", "read", "answered"} /\ puts[i].heard \in BOOLEAN
  /\ marks \in Seq(BOOLEAN) /\ warned \subseteq {"record", "save"}
  /\ {star, saveRow, overlapped, starred, createdTwice, unseen} \subseteq BOOLEAN

\* When everything sent has been answered, the screen shows what the server
\* holds, or the person was told otherwise: although a patch may have been
\* forgotten, a page reloaded, an answer lost (app/entitySync.ts: "a failure
\* surfaces as a status message").  But for writes that ran at once, and an
\* agent's move the tab has not met yet.
ScreenMeetsRow ==
  /\ pending = NoPatch /\ puts = <<>> /\ "record" \notin warned /\ ~overlapped /\ ~unseen => shown = application
  /\ marks = <<>> /\ "save" \notin warned /\ ~starred => star = saveRow

\* Whoever moves the row, in writes that overlap or not, its activities account
\* for its stage: there is a chain of moves from the creation, or from a move of
\* the agent's, that leads there (in other words: every set of stages that holds
\* where those go, and where each move from one of its stages goes, holds it).
\* It cannot be said that each change has its own activity, as the comment in
\* entity_writes.rs does ("exactly one"): a move made again appends nothing.
\* But for a row that two writes created, of which one activity tells.
ClosedUnderMoves(stages) ==
  \A move \in moves : move[1] \in stages \cup {"none", "any"} => move[2] \in stages
Accounted(stage) == \A stages \in SUBSET Stage : ClosedUnderMoves(stages) => stage \in stages
MovesLead == application = Untracked \/ createdTwice \/ Accounted(application.stage)
=============================================================================
