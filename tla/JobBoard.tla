------------------------------ MODULE JobBoard ------------------------------
(***************************************************************************)
(* The jobs a person sees (app/RoleAtlasApp.tsx, jobs): the public feeds   *)
(* the page was rendered with (app/liveJobs.ts), into which the crawler's  *)
(* index, the answers of searches, the details of one job and the scores   *)
(* of a model are merged as they arrive (app/jobIdentity.ts,               *)
(* app/jobRanking.ts).                                                     *)
(*                                                                         *)
(* A listing is a record: its id and site, the addresses of its            *)
(* application and of its page (canonicalizeJobUrl has been applied to     *)
(* both), its fingerprint, how rich its text is, whether the text is a     *)
(* preview, its lineage, and how well it fits the resume.  A card is a     *)
(* listing with the score it shows; "parts" is history: the ids of the     *)
(* listings the card has absorbed.                                         *)
(*                                                                         *)
(* Abstractions.  A score is its kind and the id it was computed for.  A   *)
(* batch is in the order SetToSeq gives it, and model scores lead the      *)
(* order.  No source of listings sets a requisition id, the fourth         *)
(* identity of deduplicateJobs.  A feed's listing is a whole text with one *)
(* address, for its application and its page (buildJob), and an id no      *)
(* listing of the crawler has: those begin with "scout-".                  *)
(*                                                                         *)
(* Faulty variants, used by nothing: WeakestLineage, EveryCard.            *)
(***************************************************************************)
EXTENDS Naturals, Sequences, FiniteSets, SequencesExt, TLC

CONSTANTS
  Listing,            \* what the feeds and the crawler list
  MaxCards,           \* 600 in the code
  MaxArrivals         \* bound: answers merged into the board

ListingField ==
  {"id", "site", "apply", "url", "fingerprint", "rich", "preview", "kind", "fit"}
ASSUME BoardAssumption ==
  /\ \A l \in Listing :
       /\ DOMAIN l = ListingField /\ l.kind \in {"feed", "canonical"}
       /\ {l.rich, l.fit} \subseteq Nat /\ l.preview \in BOOLEAN
       /\ l.kind = "feed" => ~l.preview /\ l.apply = l.url
       /\ \A k \in Listing : k.id = l.id => k.kind = l.kind
  /\ IsFiniteSet(Listing)
  /\ MaxCards \in Nat \ {0} /\ MaxArrivals \in Nat

VARIABLES
  cards,              \* jobs
  found,              \* activeSearchJobIds
  resume,             \* resumeProfile is set
  sourceStatus,       \* sourceMeta: feeds failed, and the status shown
  fitting,            \* the cards a profile being confirmed will rank, if one is
  asked,              \* ids a model was asked to score
  reading,            \* ids whose details were asked for
  arrivals            \* bound counter

boardVars == <<cards, found, resume, sourceStatus, fitting, asked, reading, arrivals>>

Ids(batch) == {l.id : l \in batch}
Crawled == {l \in Listing : l.kind = "canonical"}
Feeds == {l.site : l \in Listing \ Crawled}

Card(l, kind) ==
  [f \in ListingField \union {"slug", "score", "parts"} |->
     CASE f = "slug" -> l.id [] f = "score" -> <<kind, l.id>> [] f = "parts" -> {l.id}
       [] OTHER -> l[f]]
CardsOf(batch, kind) == [i \in 1 .. Len(SetToSeq(batch)) |-> Card(SetToSeq(batch)[i], kind)]
-----------------------------------------------------------------------------
\* A feed gives a listing a sourceJobId, the crawler does not: there the id
\* stands for it, and the fingerprint alone may recognise the listing.
SourceScopedJobId(c) == <<c.site, IF c.site \in Feeds THEN c.slug ELSE c.id>>
Addresses(c) ==
  << <<"source", SourceScopedJobId(c)>>, <<"apply", c.apply>>, <<"listing", c.url>> >>
Fingerprint(c) == <<"fingerprint", c.fingerprint>>
Probes(c) == IF c.site \in Feeds THEN Addresses(c) ELSE Append(Addresses(c), Fingerprint(c))

\* The members of I, as "before" orders them, and the elements of a list at them.
InOrder(I, before) ==
  [k \in 1 .. Cardinality(I) |->
     CHOOSE i \in I : Cardinality({j \in I : <<j, i>> \in before}) = k - 1]
Picked(list, places) == [k \in 1 .. Len(places) |-> list[places[k]]]
AsListed(list) == {p \in (DOMAIN list) \X (DOMAIN list) : p[1] < p[2]}
Only(list, I) == Picked(list, InOrder(I, AsListed(list)))

Lineage == [feed |-> 1, canonical |-> 2]
WeakestLineage(a, b) == IF Lineage[a] <= Lineage[b] THEN a ELSE b
StrongestLineage(a, b) == IF Lineage[a] >= Lineage[b] THEN a ELSE b

\* Two records of one job: the richer one's text, the stronger one's lineage.
Survivor(old, c) ==
  [(IF c.rich > old.rich THEN c ELSE old) EXCEPT
     !.kind = StrongestLineage(old.kind, c.kind), !.parts = old.parts \union c.parts]
\* One more job: a card of its own, or part of the card it is recognised in.
Absorb(acc, c) ==
  LET known == SelectInSeq(Probes(c), LAMBDA k : k \in DOMAIN acc.at)
      place == IF known = 0 THEN Len(acc.list) + 1 ELSE acc.at[Probes(c)[known]]
      keys == ToSet(Addresses(c)) \union {Fingerprint(c)}
  IN [list |-> IF known = 0 THEN Append(acc.list, c)
               ELSE [acc.list EXCEPT ![place] = Survivor(acc.list[place], c)],
      at |-> [k \in keys \union DOMAIN acc.at |-> IF k \in keys THEN place ELSE acc.at[k]]]
Absorbed(list) ==
  LET after[n \in 0 .. Len(list)] ==
        IF n = 0 THEN [list |-> <<>>, at |-> <<>>] ELSE Absorb(after[n - 1], list[n])
  IN after
DeduplicateJobs(list) == Absorbed(list)[Len(list)].list

\* The search result a card shows: by its id, or by one of its addresses.
ResultFor(c, results) ==
  LET Having(a) == SelectLastInSeq(results, LAMBDA r : a \in {r.url, r.apply})
      same == SelectLastInSeq(results, LAMBDA r : r.id = c.id)
  IN IF same > 0 THEN same ELSE IF Having(c.url) > 0 THEN Having(c.url) ELSE Having(c.apply)
WithEvidence(c, results) ==
  LET r == ResultFor(c, results)
  IN IF r = 0 THEN c
     ELSE [c EXCEPT !.id = results[r].id, !.kind = "canonical", !.score = results[r].score]
MergeSearchResultJobs(list, results) ==
  LET merged == DeduplicateJobs(results \o list)
  IN [i \in 1 .. Len(merged) |-> WithEvidence(merged[i], results)]
MergeImportedJobs(current, imported) ==
  LET both == current \o imported
      evidence == Only(both, {i \in DOMAIN both : both[i].score[1] = "search"})
  IN IF evidence = <<>> THEN DeduplicateJobs(imported \o current)
     ELSE MergeSearchResultJobs(imported \o current, evidence)

RankedLocally(list) ==
  LET better == {p \in (DOMAIN list) \X (DOMAIN list) :
                   \/ list[p[1]].fit > list[p[2]].fit
                   \/ list[p[1]].fit = list[p[2]].fit /\ p[1] < p[2]}
      scored == [i \in DOMAIN list |-> [list[i] EXCEPT !.score = <<"resume", list[i].slug>>]]
  IN Picked(scored, InOrder(DOMAIN list, better))
EveryCard(list) == list
CappedCards(list) == SubSeq(list, 1, IF Len(list) < MaxCards THEN Len(list) ELSE MaxCards)
-----------------------------------------------------------------------------
\* getLiveJobs: every feed settles in time or fails; what it lists is of feed
\* lineage whatever it says.
BoardInit ==
  /\ \E failed \in SUBSET Feeds :
       LET listed == {l \in Listing \ Crawled : l.site \notin failed}
       IN /\ cards = CappedCards(DeduplicateJobs(CardsOf(listed, "estimate")))
          /\ sourceStatus = [failed |-> failed,
               shown |-> IF cards = <<>> THEN "unavailable"
                         ELSE IF failed # {} THEN "partial" ELSE "live"]
  /\ found = {} /\ resume = FALSE /\ fitting = {} /\ asked = {} /\ reading = {}
  /\ arrivals = 0

Arrives == arrivals < MaxArrivals /\ arrivals' = arrivals + 1

ImportScoutJobs(imported) ==
  /\ LET merged == CappedCards(MergeImportedJobs(cards, imported))
     IN cards' = IF resume THEN RankedLocally(merged) ELSE merged
  /\ sourceStatus' = [sourceStatus EXCEPT
       !.shown = IF sourceStatus.failed # {} THEN "partial" ELSE "live"]

\* The index, every two minutes and as the query changes: previews.
IndexSynced ==
  /\ Arrives
  /\ \E batch \in SUBSET {l \in Crawled : l.preview} \ {{}} :
       ImportScoutJobs(CardsOf(batch, "estimate"))
  /\ UNCHANGED <<found, resume, fitting, asked, reading>>
\* A search, a poll of it, or its restoration answers with full texts.
SearchAnswered ==
  /\ Arrives
  /\ \E batch \in SUBSET {l \in Crawled : ~l.preview} :
       ImportScoutJobs(CardsOf(batch, "search")) /\ found' = Ids(batch)
  /\ UNCHANGED <<resume, fitting, asked, reading>>

\* confirmCandidateProfile and findMyFit search, then rank what was found and
\* the jobs there were when they began.
FitStarts ==
  /\ fitting = {} /\ fitting' = {cards}
  /\ UNCHANGED <<cards, found, resume, sourceStatus, asked, reading, arrivals>>
FitAnswered ==
  /\ Arrives
  /\ \E before \in fitting, batch \in SUBSET {l \in Crawled : ~l.preview} :
       /\ cards' = CappedCards(RankedLocally(
                     DeduplicateJobs(CardsOf(batch, "search") \o before)))
       /\ found' = Ids(batch)
       /\ sourceStatus' = [sourceStatus EXCEPT
            !.shown = IF sourceStatus.failed # {} THEN "partial" ELSE "live"]
  /\ resume' = TRUE /\ fitting' = {} /\ UNCHANGED <<asked, reading>>
FitFails ==
  /\ fitting # {} /\ fitting' = {}
  /\ UNCHANGED <<cards, found, resume, sourceStatus, asked, reading, arrivals>>

\* The model answers in batches, all or none; what it scores is its choice,
\* and any id it names passes.
Scores == SUBSET Ids(Listing)

\* runAiMatching: the answer is applied by id to whatever is shown by then.
AiAsked ==
  /\ resume /\ asked = {} /\ cards # <<>> /\ asked' = Ids(ToSet(cards))
  /\ UNCHANGED <<cards, found, resume, sourceStatus, fitting, reading, arrivals>>
AiAnswers ==
  /\ asked # {} /\ Arrives
  /\ \E scored \in Scores :
       LET answered == {i \in DOMAIN cards : cards[i].id \in scored}
           rated == [i \in DOMAIN cards |->
             IF i \in answered THEN [cards[i] EXCEPT !.score = <<"ai", cards[i].id>>]
             ELSE cards[i]]
       IN cards' = Only(rated, answered) \o Only(rated, DOMAIN cards \ answered)
  /\ asked' = {} /\ UNCHANGED <<found, resume, sourceStatus, fitting, reading>>
AiFails ==
  /\ asked # {} /\ asked' = {}
  /\ UNCHANGED <<cards, found, resume, sourceStatus, fitting, reading, arrivals>>

\* The drawer opens on a preview and fetches the whole text, unless it closes.
DetailAsked ==
  /\ \E i \in DOMAIN cards :
       cards[i].preview /\ cards[i].kind = "canonical" /\ reading' = {cards[i].id}
  /\ UNCHANGED <<cards, found, resume, sourceStatus, fitting, asked, arrivals>>
MergeDetail(c, l) ==
  [Card(l, "estimate") EXCEPT !.score = c.score, !.parts = c.parts \union {l.id}]
DetailAnswers ==
  /\ Arrives
  /\ \E l \in {l \in Crawled : l.id \in reading /\ ~l.preview} :
       cards' = [i \in DOMAIN cards |->
         IF cards[i].id = l.id THEN MergeDetail(cards[i], l) ELSE cards[i]]
  /\ reading' = {} /\ UNCHANGED <<found, resume, sourceStatus, fitting, asked>>
DetailAborted ==
  /\ reading # {} /\ reading' = {}
  /\ UNCHANGED <<cards, found, resume, sourceStatus, fitting, asked, arrivals>>

BoardNext ==
  \/ IndexSynced \/ SearchAnswered \/ FitStarts \/ FitAnswered \/ FitFails
  \/ AiAsked \/ AiAnswers \/ AiFails \/ DetailAsked \/ DetailAnswers \/ DetailAborted
BoardSpec == BoardInit /\ [][BoardNext]_boardVars
-----------------------------------------------------------------------------
\* Cards are whole, no more than the cap, and ids known.
BoardTypeOK ==
  /\ Len(cards) <= MaxCards
  /\ \A c \in ToSet(cards) :
       /\ c.kind \in {"feed", "canonical"} /\ c.parts \subseteq Ids(Listing)
       /\ c.score[1] \in {"estimate", "search", "resume", "ai"}
  /\ found \subseteq Ids(Crawled) /\ resume \in BOOLEAN
  /\ asked \subseteq Ids(Listing) /\ reading \subseteq Ids(Crawled)
  /\ arrivals \in 0 .. MaxArrivals

\* While no resume ranks the board, what the active search found is on it,
\* under its own id and with the score the search gave it, however rich the
\* copies are that the feeds brought (jobIdentity.ts: a feed copy "must never
\* overwrite the server's score, eligibility, or provenance for the active
\* search session") - or it is part of the card of another listing of the
\* crawler that looks the same.  TLC finds this violated.
EvidenceSurvives ==
  ~resume => \A i \in found :
    \E c \in ToSet(cards) :
      \/ c.id = i /\ c.score = <<"search", i>>
      \/ i \in c.parts /\ \E p \in c.parts : p # i /\ p \in Ids(Crawled)

\* A card is shown as verified only when a listing of the crawler is in it,
\* and always when one is.
LineageEarned ==
  \A c \in ToSet(cards) :
    c.kind = "canonical" <=> c.parts \cap Ids(Crawled) # {}
=============================================================================
