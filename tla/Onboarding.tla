----------------------------- MODULE Onboarding -----------------------------
(***************************************************************************)
(* Setting up a profile and a first search (app/OnboardingFlow.tsx): a     *)
(* walk through eight steps over a draft.  Every change writes the whole   *)
(* draft twice, into the flow and into the workspace that is saved         *)
(* (app/RoleAtlasApp.tsx), and every change is made from the draft the     *)
(* screen was last rendered with: two changes of one click, or a change    *)
(* made when an answer arrives, start from the same old draft.             *)
(*                                                                         *)
(* Reading a resume and starting the search are requests; meanwhile the    *)
(* person may go on, close the flow, or open it again.                     *)
(*                                                                         *)
(* Abstractions.  A profile has whether its facts are confirmed, and the   *)
(* server's row, 0 for none; that it has a name, without which facts       *)
(* cannot be confirmed, is taken for granted.  A plan built of a profile   *)
(* is empty or has queries, as its goals name no role or some: either may  *)
(* be.  Editing facts, goals, location and constraints changes none of     *)
(* these.                                                                  *)
(*                                                                         *)
(* Faulty variants, used by nothing: AnyStep.                              *)
(***************************************************************************)
EXTENDS Naturals, Sequences, SequencesExt

CONSTANTS
  Unset,              \* null
  MaxOpenings,        \* bound: openings of the flow
  MaxRequests         \* bound: resumes read and searches started

ASSUME OnboardingAssumption ==
  /\ {MaxOpenings, MaxRequests} \subseteq Nat \ {0}
  /\ Unset \notin {"empty", "queries"} \cup [confirmed : BOOLEAN, row : Nat]

OnboardingSteps ==
  <<"welcome", "profile-source", "review-facts", "career-goals", "location-eligibility",
    "hard-constraints", "strategy-preview", "run-search">>
OnboardingStep == ToSet(OnboardingSteps)
Place(step) == CHOOSE i \in DOMAIN OnboardingSteps : OnboardingSteps[i] = step

VARIABLES
  draft,              \* the flow's draft
  onboarding,         \* the workspace's copy
  opening,            \* showOnboarding: the number of this opening, or 0
  busy,               \* the flow waits for a request of its own
  resumes,            \* resumes being read: the draft and opening of the click
  starting,           \* searches being started: likewise, and how far they are
  candidate,          \* candidateProfile, with its plan
  openings, requests, savedRows   \* counters: openings, requests, rows on the server

onboardingVars == <<draft, onboarding, opening, busy, resumes, starting, candidate,
                    openings, requests, savedRows>>

CreateWorkspace ==
  [step |-> "welcome", done |-> {}, profile |-> Unset, plan |-> Unset, completed |-> FALSE]
NewProfile == [confirmed |-> FALSE, row |-> 0]
\* buildCandidateProfile: every field is from the resume, none confirmed.
ExtractedProfile == [confirmed |-> FALSE, row |-> 0]
ManualStrategy == {"empty", "queries"}

\* A first visit, or one whose profile is still to be loaded.
OnboardingInit ==
  /\ draft = CreateWorkspace /\ onboarding = CreateWorkspace
  /\ opening = 1 /\ openings = 1 /\ busy = FALSE /\ resumes = {} /\ starting = {}
  /\ candidate = Unset /\ requests = 0 /\ savedRows = 0
-----------------------------------------------------------------------------
Shown == opening > 0
\* The draft a click is made from becomes the given one, in both places.
Commit(next) == draft' = next /\ onboarding' = next
Went(from, step) ==
  [from EXCEPT !.step = step,
               !.done = IF from.step = step THEN @ ELSE @ \union {from.step}]
With(from, profile, plan) == [from EXCEPT !.profile = profile, !.plan = plan]
NoRequest == UNCHANGED <<busy, resumes, starting, requests, candidate, savedRows>>
Here == UNCHANGED <<opening, openings>>

\* The list of steps, "Back", and the buttons that only lead on.
AnyStep(d, step) == TRUE
MayGo(d, step) == Place(step) <= Place(d.step) \/ step \in d.done
LeadsOn(d) ==
  CASE d.step = "welcome" -> {"profile-source"}
    [] d.step = "location-eligibility" -> {"hard-constraints"}
    [] d.step = "strategy-preview" /\ d.plan = "queries" -> {"run-search"}
    [] OTHER -> {}
Go ==
  /\ Shown
  /\ \E step \in OnboardingStep :
       (MayGo(draft, step) \/ step \in LeadsOn(draft)) /\ Commit(Went(draft, step))
  /\ NoRequest /\ Here

ChooseManual ==
  /\ Shown /\ draft.step = "profile-source"
  /\ Commit(Went(With(draft, NewProfile, "empty"), "review-facts"))
  /\ NoRequest /\ Here

\* updateProfile, then go: both from the draft on the screen, so that the
\* second draft, in which no fact is confirmed, replaces the first.
ConfirmFacts ==
  /\ Shown /\ draft.step = "review-facts" /\ draft.profile # Unset
  /\ LET confirmed == [draft EXCEPT !.profile.confirmed = TRUE]
         commits == <<confirmed, Went(draft, "career-goals")>>
     IN Commit(Last(commits))
  /\ NoRequest /\ Here

\* "Continue" of the goals and "Build strategy" of the constraints.
BuildStrategy ==
  /\ Shown /\ draft.profile # Unset
  /\ \/ /\ draft.step = "career-goals"
        /\ Commit(Went(With(draft, draft.profile, "queries"), "location-eligibility"))
     \/ /\ draft.step = "hard-constraints" /\ \E plan \in ManualStrategy :
            Commit(Went(With(draft, draft.profile, plan), "strategy-preview"))
  /\ NoRequest /\ Here
EditQueries ==
  /\ Shown /\ draft.step = "strategy-preview" /\ Unset \notin {draft.profile, draft.plan}
  /\ \E plan \in ManualStrategy : Commit([draft EXCEPT !.plan = plan])
  /\ NoRequest /\ Here
-----------------------------------------------------------------------------
Asks ==
  /\ ~busy /\ busy' = TRUE /\ requests < MaxRequests /\ requests' = requests + 1

ReadResume ==
  /\ Shown /\ draft.step = "profile-source" /\ Asks
  /\ resumes' = resumes \union {[draft |-> draft, opening |-> opening]}
  /\ UNCHANGED <<draft, onboarding, starting, candidate, savedRows>> /\ Here

\* What an answer commits: the flow has a draft only while it is mounted, the
\* workspace takes it in any case.
CommitLate(r, next) ==
  /\ onboarding' = next
  /\ draft' = IF r.opening = opening THEN next ELSE draft
Freed(r) == busy' = IF r.opening = opening THEN FALSE ELSE busy

ResumeAnswers ==
  /\ \E r \in resumes :
       /\ \E plan \in ManualStrategy :
            CommitLate(r, Went(With(r.draft, ExtractedProfile, plan), "review-facts"))
       /\ resumes' = resumes \ {r} /\ Freed(r)
  /\ UNCHANGED <<starting, requests, candidate, savedRows>> /\ Here
\* The file is refused (too large, empty, no PDF or DOCX, no text in it), or
\* no answer comes.
ResumeFails ==
  /\ \E r \in resumes : resumes' = resumes \ {r} /\ Freed(r)
  /\ UNCHANGED <<draft, onboarding, starting, requests, candidate, savedRows>> /\ Here

\* finish: the profile is saved, the search started, and the flow closed.
Finish ==
  /\ Shown /\ draft.step = "run-search" /\ draft.profile # Unset
  /\ draft.plan = "queries" /\ Asks
  /\ starting' = starting \union {[draft |-> draft, opening |-> opening, saved |-> FALSE]}
  /\ UNCHANGED <<draft, onboarding, resumes, candidate, savedRows>> /\ Here
\* save_candidate_profile keeps the row the profile names, or adds one.
ProfileSaved ==
  /\ \E r \in {r \in starting : ~r.saved} :
       LET row == IF r.draft.profile.row > 0 THEN r.draft.profile.row ELSE savedRows + 1
           saved == [r.draft.profile EXCEPT !.row = row]
       IN /\ savedRows' = IF row > savedRows THEN row ELSE savedRows
          /\ candidate' = saved
          /\ onboarding' = [onboarding EXCEPT !.profile = saved, !.plan = r.draft.plan,
                                              !.completed = TRUE]
          /\ starting' = (starting \ {r}) \union {[r EXCEPT !.saved = TRUE]}
  /\ UNCHANGED <<draft, busy, resumes, requests>> /\ Here
\* The flow closes, and its last commit is made from the draft of the click.
SearchStarted ==
  /\ \E r \in {r \in starting : r.saved} :
       /\ CommitLate(r, [r.draft EXCEPT !.completed = TRUE])
       /\ starting' = starting \ {r} /\ opening' = 0 /\ busy' = FALSE
  /\ UNCHANGED <<resumes, requests, candidate, savedRows, openings>>
StartFails ==
  /\ \E r \in starting : starting' = starting \ {r} /\ Freed(r)
  /\ UNCHANGED <<draft, onboarding, resumes, requests, candidate, savedRows>> /\ Here
-----------------------------------------------------------------------------
Skip ==
  /\ Shown /\ opening' = 0 /\ busy' = FALSE
  /\ UNCHANGED <<draft, onboarding, resumes, starting, candidate, openings,
                 requests, savedRows>>
Otherwise(a, b) == IF a # Unset THEN a ELSE b
\* openOnboarding: the saved draft, completed by the profile on the server.
OpenOnboarding ==
  /\ ~Shown /\ openings < MaxOpenings
  /\ openings' = openings + 1 /\ opening' = openings + 1 /\ busy' = FALSE
  /\ \E plan \in IF onboarding.plan # Unset \/ candidate = Unset THEN {onboarding.plan}
                 ELSE ManualStrategy :
       LET profile == Otherwise(onboarding.profile, candidate)
       IN Commit([With(onboarding, profile, plan) EXCEPT
                    !.step = IF profile # Unset THEN "review-facts" ELSE "welcome"])
  /\ UNCHANGED <<resumes, starting, candidate, requests, savedRows>>
\* The profile arrives, and fills in for one the workspace does not have.
Reconciled(workspace, profile, plan) ==
  IF workspace.profile # Unset THEN workspace ELSE With(workspace, profile, plan)
ProfileLoaded ==
  /\ candidate = Unset /\ candidate' = [NewProfile EXCEPT !.row = 1]
  /\ \E plan \in ManualStrategy :
       onboarding' = Reconciled(onboarding, candidate', plan)
  /\ savedRows = 0 /\ savedRows' = 1
  /\ UNCHANGED <<draft, opening, busy, resumes, starting, openings, requests>>

OnboardingNext ==
  \/ Go \/ ChooseManual \/ ConfirmFacts \/ BuildStrategy
  \/ EditQueries \/ ReadResume \/ ResumeAnswers \/ ResumeFails
  \/ Finish \/ ProfileSaved \/ SearchStarted \/ StartFails
  \/ Skip \/ OpenOnboarding \/ ProfileLoaded
OnboardingSpec == OnboardingInit /\ [][OnboardingNext]_onboardingVars
-----------------------------------------------------------------------------
OnboardingDraft ==
  [step : OnboardingStep, done : SUBSET OnboardingStep, completed : BOOLEAN,
   profile : {Unset} \union
     [confirmed : BOOLEAN, row : 0 .. MaxRequests + 1],
   plan : {Unset, "empty", "queries"}]
\* Drafts are whole, and every request comes from an opening there was.
OnboardingTypeOK ==
  /\ {draft, onboarding} \subseteq OnboardingDraft
  /\ opening \in 0 .. openings /\ openings \in 1 .. MaxOpenings
  /\ requests \in 0 .. MaxRequests /\ busy \in BOOLEAN
  /\ \A r \in resumes \union starting : r.draft \in OnboardingDraft /\ r.opening \in 1 .. openings

\* A step is shown with something on it: no order of clicks, late answers and
\* reopenings leads past the choice of a source without a profile, or to the
\* strategy without one, for those steps render nothing then and the person
\* could only go back.
StepHasItsData ==
  Shown => /\ Place(draft.step) > Place("profile-source") => draft.profile # Unset
           /\ Place(draft.step) >= Place("strategy-preview") => draft.plan # Unset

\* Who comes to the goals for the first time has just confirmed the facts
\* (nothing else leads there), and the profile says so.
AcceptedMeansConfirmed ==
  Shown /\ draft.step = "career-goals" /\ "career-goals" \notin draft.done
    => draft.profile.confirmed
=============================================================================
