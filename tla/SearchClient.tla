---------------------------- MODULE SearchClient ----------------------------
(***************************************************************************)
(* A person's searches: starting, rerunning and restoring a search session *)
(* in the browser (app/RoleAtlasApp.tsx), draining its result pages        *)
(* (app/scoutIndex.ts) and polling the active one every five seconds while *)
(* the stage shown is one of four; and what the requests do on the server  *)
(* (bin/api.rs, search.rs, orchestration.rs), where the coordinator        *)
(* (bin/coordinator.rs) reranks a session when one of its sources ends.    *)
(*                                                                         *)
(* Requests are neither sequenced nor aborted: a poll may be under way     *)
(* when the next one is sent, or when another search becomes active.  Only *)
(* the restoring effect is cancelled.  A drained answer is several         *)
(* requests.  Every request for a page first refreshes the session: it     *)
(* sets the stage its sources call for, whatever the stage was.            *)
(*                                                                         *)
(* Abstractions.  A result is named by its session and page, so what a     *)
(* reranking moves between pages is not seen.  Of a session's sources the  *)
(* state that decides its stage is kept.  What ends a scan is the subject  *)
(* of SourceRuns: here a source ends at any time.  The statements of one   *)
(* refresh, of one ranking and of one selection are one step.              *)
(*                                                                         *)
(* Faulty variants, used by nothing: KeepsTheIds, NeverCancelled,          *)
(* WatchesScansOnly.                                                       *)
(***************************************************************************)
EXTENDS Naturals, Sequences, SequencesExt

CONSTANTS
  MaxSessions,        \* bound: search sessions
  MaxRerankings,      \* bound: reruns, and sources that end
  MaxPages,           \* bound: pages of results
  MaxCalls,           \* bound: requests under way
  MaxDrops            \* bound: requests and rerankings that fail

ASSUME SearchAssumption ==
  /\ {MaxRerankings, MaxDrops} \subseteq Nat
  /\ {MaxSessions, MaxPages, MaxCalls} \subseteq Nat \ {0}

SearchSession == 1 .. MaxSessions
NoSearch == 0
ResultPage == [session : SearchSession, page : 1 .. MaxPages]

\* The state of its selected sources that decides a session's stage: queued or
\* scanning; else stale or unscanned; else failed, deferred, or none selected;
\* else fresh or scanned.
SourceStep == {"active", "gap", "failed", "checked"}
\* The client polls in two more stages, which are set nowhere.
Polled == {"scanning_sources", "reranking"}
SessionStage ==
  Polled \cup {"searching_index", "identifying_source_gaps", "partial", "completed"}

VARIABLES
  created,            \* sessions on the server
  pages,              \* per session, pages of ranked results
  searchStage,        \* per session, its stage
  sources,            \* per session, the state that decides its stage
  coordinator,        \* where the coordinator is, with which session
  active,             \* activeSearchSession, or NoSearch
  shownStage,         \* its stage as shown
  shownIds,           \* activeSearchJobIds
  restored,           \* activeSearchRestored
  calls,              \* requests under way: kind, session, where the server is
                      \* with it, next page, what was got, the stage last
                      \* answered, and whether cancelled
  emptied,            \* history: a rerun found nothing
  rerankings, drops   \* bound counters

serverSide == <<created, pages, searchStage, sources, coordinator, rerankings>>
shownSide == <<active, shownStage, shownIds, restored, emptied>>
searchVars == <<serverSide, shownSide, calls, drops>>

\* The stage that the selected sources call for.
StageOf(step) ==
  CASE step = "active"  -> "scanning_sources"
    [] step = "gap"     -> "identifying_source_gaps"
    [] step = "checked" -> "completed"
    [] OTHER            -> "partial"

\* A session of an earlier visit exists when the page opens.
SearchInit ==
  /\ created = 1 /\ rerankings = 0
  /\ coordinator = [session |-> NoSearch, at |-> "idle"]
  /\ \E step \in SourceStep :
       /\ sources = [s \in SearchSession |-> IF s = 1 THEN step ELSE "failed"]
       /\ searchStage = [s \in SearchSession |-> IF s = 1 THEN StageOf(step) ELSE "searching_index"]
  /\ pages = [s \in SearchSession |-> IF s = 1 THEN 1 ELSE 0]
  /\ active = NoSearch /\ shownStage = "none" /\ shownIds = {} /\ restored = FALSE
  /\ calls = <<>> /\ emptied = FALSE /\ drops = 0
-----------------------------------------------------------------------------
\* rerun: one transaction sets the stage and deletes the rows.
Reranks(s) ==
  /\ searchStage' = [searchStage EXCEPT ![s] = "reranking"]
  /\ pages' = [pages EXCEPT ![s] = 0]
\* run_session: rows are visible when they are ranked.
Ranks(s) ==
  /\ searchStage' = [searchStage EXCEPT ![s] = "completed"]
  /\ \E n \in 0 .. MaxPages : pages' = [pages EXCEPT ![s] = n]
\* refresh_session: the stage its sources call for.
Refreshes(s) == searchStage' = [searchStage EXCEPT ![s] = StageOf(sources[s])]

\* The coordinator saves the end of a run attached to the session; what decides
\* the stage may be another source that is active, or one that is not.
CoordinatorAt(s, label) == coordinator' = [session |-> s, at |-> label]
SourceEnds(s) ==
  /\ sources[s] = "active" /\ coordinator.at = "idle" /\ CoordinatorAt(s, "saved")
  /\ \E step \in SourceStep : sources' = [sources EXCEPT ![s] = step]
  /\ rerankings < MaxRerankings /\ rerankings' = rerankings + 1
  /\ UNCHANGED <<created, pages, searchStage, shownSide, calls, drops>>

\* Then it refreshes the session, reranks it and refreshes it again.
Proceeds(s) ==
  \/ coordinator.at = "saved" /\ Refreshes(s) /\ CoordinatorAt(s, "rerank") /\ UNCHANGED pages
  \/ coordinator.at = "rerank" /\ Reranks(s) /\ CoordinatorAt(s, "rank")
  \/ coordinator.at = "rank" /\ Ranks(s) /\ CoordinatorAt(s, "refresh")
  \/ coordinator.at = "refresh" /\ Refreshes(s) /\ CoordinatorAt(NoSearch, "idle") /\ UNCHANGED pages
CoordinatorStep ==
  Proceeds(coordinator.session) /\ UNCHANGED <<created, sources, rerankings, shownSide, calls, drops>>

\* A ranking that fails is logged; anything else ends the process, and the
\* result is delivered to it again.
CoordinatorFails ==
  /\ drops < MaxDrops /\ drops' = drops + 1 /\ coordinator.at # "idle"
  /\ \/ coordinator.at \in {"rerank", "rank"} /\ CoordinatorAt(coordinator.session, "refresh")
     \/ CoordinatorAt(coordinator.session, "saved")
  /\ UNCHANGED <<created, pages, searchStage, sources, rerankings, shownSide, calls>>
-----------------------------------------------------------------------------
SendsAfter(rest, kind, s) ==
  /\ Len(rest) < MaxCalls
  /\ calls' = Append(rest, [kind |-> kind, session |-> s, next |-> 1, got |-> {},
                            at |-> IF kind \in {"execute", "rerun"} THEN "rank" ELSE "refresh",
                            stage |-> "none", cancelled |-> FALSE])
Sends(kind, s) == SendsAfter(calls, kind, s)

\* executeSearchPlan: the POST creates the session.
StartSearch ==
  /\ created < MaxSessions /\ Sends("execute", created + 1)
  /\ created' = created + 1
  /\ UNCHANGED <<pages, searchStage, sources, coordinator, rerankings, shownSide, drops>>

\* rerunStrategy: the POST reranks the strategy's last session.
RerunSearch(s) ==
  /\ s <= created /\ rerankings < MaxRerankings /\ rerankings' = rerankings + 1
  /\ Reranks(s) /\ Sends("rerun", s)
  /\ UNCHANGED <<created, sources, coordinator, shownSide, drops>>

\* The effect's cleanup: a session that becomes active, and a strategy that
\* changes, cancel the restore under way.
NeverCancelled(rest) == rest
Cleanup(rest) ==
  [i \in DOMAIN rest |-> [rest[i] EXCEPT !.cancelled = @ \/ rest[i].kind = "restore"]]

\* The restoring effect asks for the session of an earlier visit, and again
\* when the strategies change.
RestoreSearch(s) ==
  /\ ~restored /\ active = NoSearch /\ s <= created
  /\ SendsAfter(Cleanup(calls), "restore", s)
  /\ UNCHANGED <<serverSide, shownSide, drops>>

\* The interval: a poll is sent whether or not the last one was answered.
WatchesScansOnly == active # NoSearch /\ shownStage = "scanning_sources"
Watched == active # NoSearch /\ shownStage \in Polled
Poll == Watched /\ Sends("poll", active) /\ UNCHANGED <<serverSide, shownSide, drops>>
-----------------------------------------------------------------------------
\* The server's side of request i.  A POST ranks the session, selects its
\* sources and refreshes it, queues or defers the sources that are due and
\* refreshes it again; a GET only refreshes.
CallAt(i, label) == calls' = [calls EXCEPT ![i].at = label]
RankCall(i) ==
  calls[i].at = "rank" /\ Ranks(calls[i].session) /\ CallAt(i, "select") /\ UNCHANGED sources
SelectSources(i) ==
  /\ calls[i].at = "select" /\ CallAt(i, "queue") /\ UNCHANGED pages
  /\ \E step \in SourceStep : sources' = [sources EXCEPT ![calls[i].session] = step]
  /\ searchStage' = [searchStage EXCEPT ![calls[i].session] = StageOf(sources'[calls[i].session])]
QueueSources(i) ==
  /\ calls[i].at = "queue" /\ CallAt(i, "read") /\ UNCHANGED pages
  /\ sources' \in IF sources[calls[i].session] # "gap" THEN {sources}
                  ELSE {[sources EXCEPT ![calls[i].session] = step] : step \in {"active", "failed"}}
  /\ searchStage' = [searchStage EXCEPT ![calls[i].session] = StageOf(sources'[calls[i].session])]
RefreshCall(i) ==
  /\ calls[i].at = "refresh" /\ Refreshes(calls[i].session) /\ CallAt(i, "read")
  /\ UNCHANGED <<pages, sources>>

\* get_page: the rows of one page, the session as it is now, whether there is
\* more.  fetchRemainingSessionResults asks until there is not.
ReadPage(i) ==
  LET call == calls[i]  s == call.session IN
  /\ call.at = "read"
  /\ calls' = [calls EXCEPT
       ![i].next = @ + 1, ![i].stage = searchStage[s],
       ![i].at = IF call.next < pages[s] THEN "refresh" ELSE "answered",
       ![i].got = @ \cup {r \in ResultPage : r.session = s /\ r.page = call.next
                                               /\ call.next <= pages[s]}]
  /\ UNCHANGED <<pages, searchStage, sources>>

Serve(i) ==
  /\ \/ RankCall(i) \/ SelectSources(i) \/ QueueSources(i) \/ RefreshCall(i) \/ ReadPage(i)
  /\ UNCHANGED <<created, coordinator, rerankings, shownSide, drops>>
-----------------------------------------------------------------------------
\* An answer is adopted: the session, and the ids of what was got; a rerun
\* that found nothing leaves the ids as they are.
FoundNothing(call) == call.got = {} /\ call.kind = "rerun"
KeepsTheIds(call) == call.got = {} \/ call.kind = "poll"
LeavesIds(call) == FoundNothing(call)
AdoptAnswer(call) ==
  /\ active' = call.session /\ shownStage' = call.stage
  /\ shownIds' = IF LeavesIds(call) THEN shownIds ELSE call.got
  /\ emptied' = (emptied \/ FoundNothing(call))
  /\ restored' = TRUE
Conclude(i) ==
  IF calls[i].cancelled
  THEN calls' = RemoveAt(calls, i) /\ UNCHANGED shownSide
  ELSE calls' = Cleanup(RemoveAt(calls, i)) /\ AdoptAnswer(calls[i])

AnswerCall(i) == calls[i].at = "answered" /\ Conclude(i) /\ UNCHANGED <<serverSide, drops>>

\* A page after the first is refused: what there is is the answer.
RefusePage(i) ==
  /\ drops < MaxDrops /\ drops' = drops + 1 /\ UNCHANGED serverSide
  /\ calls[i].at # "answered" /\ calls[i].next > 1 /\ Conclude(i)

\* A request or its answer fails, wherever the server is with it: the call
\* comes to nothing, a restore is given up.
DropCall(i) ==
  /\ drops < MaxDrops /\ drops' = drops + 1 /\ UNCHANGED serverSide
  /\ calls' = RemoveAt(calls, i)
  /\ restored' = (restored \/ (calls[i].kind = "restore" /\ ~calls[i].cancelled))
  /\ UNCHANGED <<active, shownStage, shownIds, emptied>>
-----------------------------------------------------------------------------
SearchNext ==
  \/ StartSearch \/ Poll \/ CoordinatorStep \/ CoordinatorFails
  \/ \E s \in SearchSession : RerunSearch(s) \/ RestoreSearch(s) \/ SourceEnds(s)
  \/ \E i \in DOMAIN calls : Serve(i) \/ AnswerCall(i) \/ RefusePage(i) \/ DropCall(i)

SearchSpec == SearchInit /\ [][SearchNext]_searchVars

\* The interval fires, requests are served and answered, and the coordinator
\* goes on with what it is at.
CallMoves(i) == i \in DOMAIN calls /\ (Serve(i) \/ AnswerCall(i))
SearchFairness ==
  /\ WF_searchVars(Poll) /\ WF_searchVars(CoordinatorStep)
  /\ \A i \in 1 .. MaxCalls : WF_searchVars(CallMoves(i))
-----------------------------------------------------------------------------
\* Sessions, requests and what is shown stay within their domains.
SearchTypeOK ==
  /\ created \in 0 .. MaxSessions /\ active \in 0 .. created
  /\ pages \in [SearchSession -> 0 .. MaxPages] /\ shownIds \subseteq ResultPage
  /\ searchStage \in [SearchSession -> SessionStage]
  /\ sources \in [SearchSession -> SourceStep]
  /\ coordinator.at # "idle" => coordinator.session \in SearchSession
  /\ \A i \in DOMAIN calls : calls[i].session <= created /\ calls[i].got \subseteq ResultPage

\* The results shown are those of the search that is shown, although answers
\* of several searches arrive in any order; but for a rerun without results.
ShownTogether == emptied \/ \A r \in shownIds : r.session = active

\* Restoring an earlier search never replaces one that is already active,
\* however late its answer comes.
RestoreYields ==
  active # NoSearch => \A i \in DOMAIN calls : calls[i].kind = "restore" => calls[i].cancelled

\* A search whose sources have all ended is not shown as scanned or reranked
\* for ever: late and overtaking answers and a reranking that fails may set an
\* older stage, but then the polling goes on.  It says nothing of a stage that
\* is shown and not polled, which nothing updates.
DoneUnseen(s) ==
  active = s /\ StageOf(sources[s]) \notin Polled /\ shownStage \in Polled
DoneIsShown == \A s \in SearchSession : []<>~DoneUnseen(s)
=============================================================================
