----------------------------- MODULE RequestProofs -----------------------------
(***************************************************************************)
(* What requests under way leave on the screen and in the tables: proofs   *)
(* about SearchClient, for any sessions, pages and requests, about         *)
(* ApplicationRecords, for any changes, moves, losses and reloads, about   *)
(* DailyWorkspace, for any tabs, edits and bounds, and about WeeklyDigest, *)
(* for any requests, interval, clock and losses.                           *)
(*                                                                         *)
(* Searches.  That the results shown are those of the search shown does    *)
(* not say what the requests under way hold, which is what is shown next:  *)
(* a request has got rows of its own session only (SoundList).             *)
(*                                                                         *)
(* Applications.  RecordsInv follows a write to its answer: while no two   *)
(* overlap there is at most one, a page waits for it, the stage it read is *)
(* the row's and its answer is the row.                                    *)
(* MovesInv, which needs none of it, follows the stages that are accounted *)
(* for by activities: the row's, and every one that a write has read.      *)
(***************************************************************************)
EXTENDS SearchClient, ApplicationRecords, DailyWorkspace, WeeklyDigest, SequenceTheorems, TLAPS

\* What RemoveAt leaves was there before, and it is one less.
LEMMA RemoveAtLeaves ==
  ASSUME NEW S, NEW list \in Seq(S), NEW i \in DOMAIN list
  PROVE  /\ RemoveAt(list, i) \in Seq(S)
         /\ Len(RemoveAt(list, i)) = Len(list) - 1
         /\ \A j \in DOMAIN RemoveAt(list, i) : \E k \in DOMAIN list : RemoveAt(list, i)[j] = list[k]
<1> DEFINE front == SubSeq(list, 1, i - 1)
           back == SubSeq(list, i + 1, Len(list))
           left == front \o back
<1>1. i \in 1 .. Len(list) /\ Len(list) \in Nat /\ DOMAIN list = 1 .. Len(list)
  BY LenProperties
<1>2. \A j \in 1 .. Len(list) : list[j] \in S
  BY <1>1, ElementOfSeq
<1>3. /\ front \in Seq(S) /\ Len(front) = i - 1
      /\ \A j \in 1 .. Len(front) : front[j] = list[j] /\ j \in DOMAIN list
  BY <1>1, <1>2, SubSeqProperties
<1>4. /\ back \in Seq(S) /\ Len(back) = Len(list) - i
      /\ \A j \in 1 .. Len(back) : back[j] = list[i + j] /\ i + j \in DOMAIN list
  <2> DEFINE m == i + 1
             n == Len(list)
  <2>1. m \in Int /\ n \in Int /\ m <= n + 1 /\ \A j \in m .. n : list[j] \in S
    BY <1>1, <1>2
  <2> HIDE DEF m, n
  <2>2. /\ SubSeq(list, m, n) \in Seq(S) /\ Len(SubSeq(list, m, n)) = IF m <= n THEN n - m + 1 ELSE 0
        /\ \A j \in 1 .. n - m + 1 : SubSeq(list, m, n)[j] = list[m + j - 1]
    BY <2>1, SubSeqProperties
  <2>3. Len(SubSeq(list, m, n)) = n - m + 1
    BY <2>1, <2>2
  <2>4. \A j \in 1 .. n - m + 1 : m + j - 1 = i + j /\ i + j \in DOMAIN list
    BY <1>1 DEF m, n
  <2>5. n - m + 1 = Len(list) - i
    BY <1>1 DEF m, n
  <2> QED
    BY <2>2, <2>3, <2>4, <2>5 DEF m, n
<1>5. RemoveAt(list, i) = left
  BY DEF RemoveAt
<1> HIDE DEF front, back
<1>6. /\ left \in Seq(S) /\ Len(left) = Len(front) + Len(back)
      /\ \A j \in 1 .. Len(front) + Len(back) :
           left[j] = IF j <= Len(front) THEN front[j] ELSE back[j - Len(front)]
  BY <1>3, <1>4, ConcatProperties
<1>7. DOMAIN left = 1 .. Len(front) + Len(back)
  BY <1>6, LenProperties
<1> HIDE DEF left
<1>8. ASSUME NEW j \in DOMAIN left PROVE \E k \in DOMAIN list : left[j] = list[k]
  <2>1. CASE j <= Len(front)
    <3>1. left[j] = front[j] /\ j \in 1 .. Len(front)
      BY <2>1, <1>1, <1>3, <1>4, <1>6, <1>7
    <3> QED
      BY <3>1, <1>3
  <2>2. CASE ~(j <= Len(front))
    <3>1. Len(front) \in Nat /\ Len(back) \in Nat /\ j \in 1 .. Len(front) + Len(back)
      BY <1>1, <1>3, <1>4, <1>7
    <3>2. left[j] = back[j - Len(front)]
      BY <2>2, <3>1, <1>6
    <3>3. j - Len(front) \in 1 .. Len(back)
      BY <2>2, <3>1
    <3> QED
      BY <3>2, <3>3, <1>4
  <2> QED
    BY <2>1, <2>2
<1>9. Len(front) + Len(back) = Len(list) - 1
  BY <1>1, <1>3, <1>4
<1> QED
  BY <1>5, <1>6, <1>8, <1>9
-----------------------------------------------------------------------------
\* The searches.

CallStage == SessionStage \cup {"none"}
CallPlace == {"rank", "select", "queue", "refresh", "read", "answered"}
Call == [kind : {"execute", "rerun", "restore", "poll"}, session : Nat, next : Nat,
         got : SUBSET ResultPage, at : CallPlace, stage : CallStage, cancelled : BOOLEAN]

Its(call) == \A r \in call.got : r.session = call.session
SoundList(list, n) ==
  list \in Seq(Call) /\ \A i \in DOMAIN list : list[i].session \in 1 .. n /\ Its(list[i])

\* A restore under way would not be listened to.
Yields(call) == call.kind = "restore" => call.cancelled
Quiet(list) == \A i \in DOMAIN list : Yields(list[i])

SearchInv ==
  /\ SearchTypeOK /\ rerankings \in Nat /\ {restored, emptied} \subseteq BOOLEAN
  /\ coordinator \in [session : Nat, at : {"idle", "saved", "rerank", "rank", "refresh"}]
  /\ SoundList(calls, created) /\ ShownTogether /\ RestoreYields
-----------------------------------------------------------------------------
\* A request less.
LEMMA RemoveAtSound ==
  ASSUME NEW list, NEW n, SoundList(list, n), NEW i \in DOMAIN list
  PROVE  SoundList(RemoveAt(list, i), n) /\ (Quiet(list) => Quiet(RemoveAt(list, i)))
<1>1. list \in Seq(Call)
  BY DEF SoundList
<1>2. /\ RemoveAt(list, i) \in Seq(Call)
      /\ \A j \in DOMAIN RemoveAt(list, i) : \E k \in DOMAIN list : RemoveAt(list, i)[j] = list[k]
  BY <1>1, RemoveAtLeaves
<1> QED
  BY <1>2 DEF SoundList, Quiet

\* The effect's cleanup leaves every request what it is, and every restore quiet.
LEMMA CleanupSound ==
  ASSUME NEW list, NEW n, SoundList(list, n)
  PROVE  SoundList(Cleanup(list), n) /\ Quiet(Cleanup(list))
<1>1. DOMAIN Cleanup(list) = DOMAIN list /\ DOMAIN list = 1 .. Len(list) /\ Len(list) \in Nat
  BY LenProperties DEF Cleanup, SoundList
<1>2. ASSUME NEW i \in DOMAIN list
      PROVE  /\ Cleanup(list)[i] \in Call
             /\ Cleanup(list)[i].session = list[i].session /\ Cleanup(list)[i].got = list[i].got
             /\ Yields(Cleanup(list)[i])
  <2>1. list[i] \in Call
    BY ElementOfSeq DEF SoundList
  <2>2. Cleanup(list)[i] =
          [list[i] EXCEPT !.cancelled = list[i].cancelled \/ list[i].kind = "restore"]
    BY DEF Cleanup
  <2> QED BY <2>1, <2>2 DEF Call, Yields
<1>3. Cleanup(list) \in Seq(Call)
  BY <1>1, <1>2, IsASeq DEF Cleanup
<1> QED BY <1>1, <1>2, <1>3 DEF SoundList, Quiet, Its

\* A request that is sent has got nothing yet.
LEMMA SendsSound ==
  ASSUME NEW list, NEW n \in Nat, SoundList(list, n), NEW m \in Nat, n <= m, NEW s \in 1 .. m,
         NEW kind \in {"execute", "rerun", "restore", "poll"}, SendsAfter(list, kind, s)
  PROVE  SoundList(calls', m) /\ (Quiet(list) /\ kind # "restore" => Quiet(calls'))
<1> DEFINE new == [kind |-> kind, session |-> s, next |-> 1, got |-> {},
                   at |-> IF kind \in {"execute", "rerun"} THEN "rank" ELSE "refresh",
                   stage |-> "none", cancelled |-> FALSE]
<1>1. new \in Call /\ Its(new) /\ new.session = s /\ new.kind = kind
  BY DEF Call, Its, CallStage, CallPlace
<1>2. calls' = Append(list, new) /\ list \in Seq(Call)
  BY DEF SendsAfter, SoundList
<1> HIDE DEF new
<1>3. /\ calls' \in Seq(Call) /\ DOMAIN calls' = 1 .. Len(list) + 1 /\ DOMAIN list = 1 .. Len(list)
      /\ \A i \in 1 .. Len(list) : calls'[i] = list[i]
      /\ calls'[Len(list) + 1] = new /\ Len(list) \in Nat
  BY <1>1, <1>2, AppendProperties, LenProperties
<1>4. ASSUME NEW i \in DOMAIN calls'
      PROVE  /\ calls'[i].session \in 1 .. m /\ Its(calls'[i])
             /\ Quiet(list) /\ kind # "restore" => Yields(calls'[i])
  <2>1. CASE i = Len(list) + 1
    BY <1>1, <1>3, <2>1 DEF Yields
  <2>2. CASE i \in 1 .. Len(list)
    <3>1. calls'[i] = list[i] /\ list[i].session \in 1 .. n /\ Its(list[i])
      BY <1>3, <2>2 DEF SoundList
    <3>2. Quiet(list) => Yields(list[i])
      BY <1>3, <2>2 DEF Quiet
    <3> QED BY <3>1, <3>2
  <2> QED BY <1>3, <2>1, <2>2
<1> QED BY <1>3, <1>4 DEF SoundList, Quiet

\* What SearchTypeOK says of requests follows.
LEMMA SoundTyped ==
  ASSUME NEW list, NEW n \in Nat, SoundList(list, n)
  PROVE  \A i \in DOMAIN list : list[i].session <= n /\ list[i].got \subseteq ResultPage
<1> SUFFICES ASSUME NEW i \in DOMAIN list
             PROVE  list[i].session <= n /\ list[i].got \subseteq ResultPage
  OBVIOUS
<1>1. list[i] \in Call /\ list[i].session \in 1 .. n
  BY ElementOfSeq DEF SoundList
<1> QED BY <1>1 DEF Call

\* A state of the sources calls for a stage.
LEMMA StageCalled == ASSUME NEW step \in SourceStep PROVE StageOf(step) \in SessionStage
BY DEF StageOf, SourceStep, SessionStage, Polled

LEMMA SearchInitially == SearchInit => SearchInv
<1> SUFFICES ASSUME SearchInit PROVE SearchInv
  OBVIOUS
<1>1. created = 1 /\ active = 0 /\ shownIds = {} /\ DOMAIN calls = {}
  BY EmptySeq DEF SearchInit, NoSearch
<1>2. 1 \in 0 .. MaxSessions /\ 0 \in 0 .. MaxPages /\ 1 \in 0 .. MaxPages
  BY SearchAssumption
<1>3. /\ pages \in [SearchSession -> 0 .. MaxPages]
      /\ sources \in [SearchSession -> SourceStep] /\ searchStage \in [SearchSession -> SessionStage]
  <2>1. PICK step \in SourceStep :
          /\ sources = [s \in SearchSession |-> IF s = 1 THEN step ELSE "failed"]
          /\ searchStage = [s \in SearchSession |-> IF s = 1 THEN StageOf(step) ELSE "searching_index"]
    BY DEF SearchInit
  <2>2. StageOf(step) \in SessionStage /\ "searching_index" \in SessionStage /\ "failed" \in SourceStep
    BY StageCalled DEF SessionStage, SourceStep
  <2>3. pages = [s \in SearchSession |-> IF s = 1 THEN 1 ELSE 0]
    BY DEF SearchInit
  <2> QED BY <1>2, <2>1, <2>2, <2>3
<1>4. coordinator = [session |-> 0, at |-> "idle"]
  BY DEF SearchInit, NoSearch
<1>5. SearchTypeOK
  BY <1>1, <1>2, <1>3, <1>4, SearchAssumption DEF SearchTypeOK
<1>6. rerankings \in Nat /\ {restored, emptied} \subseteq BOOLEAN
  BY DEF SearchInit
<1>7. SoundList(calls, created) /\ ShownTogether /\ RestoreYields
  BY EmptySeq DEF SearchInit, SoundList, ShownTogether, RestoreYields
<1> QED BY <1>4, <1>5, <1>6, <1>7 DEF SearchInv
-----------------------------------------------------------------------------
\* A request ends with an answer: the search that is shown becomes its own,
\* with the rows it got, or none of it is listened to.
LEMMA ConcludeStep ==
  ASSUME SearchInv, NEW i \in DOMAIN calls, Conclude(i), UNCHANGED serverSide
  PROVE  SearchInv'
<1> USE DEF SearchInv, serverSide
<1>1. /\ created \in Nat /\ calls[i] \in Call /\ calls[i].session \in 1 .. created /\ Its(calls[i])
      /\ Quiet(calls) \/ active = NoSearch
  BY ElementOfSeq, SearchAssumption DEF SoundList, SearchTypeOK, RestoreYields, Quiet, Yields
<1>2. CASE calls[i].cancelled
  <2>1. calls' = RemoveAt(calls, i) /\ UNCHANGED shownSide
    BY <1>2 DEF Conclude
  <2>2. SoundList(calls', created') /\ (Quiet(calls) => Quiet(calls'))
    BY <2>1, RemoveAtSound
  <2>3. \A k \in DOMAIN calls' : calls'[k].session <= created' /\ calls'[k].got \subseteq ResultPage
    BY <1>1, <2>2, SoundTyped
  <2>4. SearchTypeOK' /\ rerankings' \in Nat /\ {restored', emptied'} \subseteq BOOLEAN
    BY <2>1, <2>3 DEF SearchTypeOK, shownSide
  <2>5. ShownTogether' /\ RestoreYields'
    BY <1>1, <2>1, <2>2 DEF ShownTogether, RestoreYields, Quiet, Yields, shownSide
  <2> QED BY <2>2, <2>4, <2>5
<1>3. CASE ~calls[i].cancelled
  <2>1. calls' = Cleanup(RemoveAt(calls, i)) /\ AdoptAnswer(calls[i])
    BY <1>3 DEF Conclude
  <2>2. SoundList(calls', created') /\ Quiet(calls')
    BY <2>1, RemoveAtSound, CleanupSound
  <2>3. \A k \in DOMAIN calls' : calls'[k].session <= created' /\ calls'[k].got \subseteq ResultPage
    BY <1>1, <2>2, SoundTyped
  <2>4. /\ active' = calls[i].session /\ restored' = TRUE /\ emptied' \in BOOLEAN
        /\ shownIds' \subseteq ResultPage
    BY <1>1, <2>1 DEF AdoptAnswer, LeavesIds, FoundNothing, SearchTypeOK, Call
  <2>5. SearchTypeOK' /\ rerankings' \in Nat /\ {restored', emptied'} \subseteq BOOLEAN
    BY <1>1, <2>3, <2>4 DEF SearchTypeOK
  <2>6. ShownTogether'
    BY <1>1, <2>1 DEF ShownTogether, AdoptAnswer, LeavesIds, FoundNothing, Its
  <2>7. RestoreYields'
    BY <2>2 DEF RestoreYields, Quiet, Yields
  <2> QED BY <2>2, <2>5, <2>6, <2>7
<1> QED BY <1>2, <1>3

\* A list that differs in one request, of the same session.
LEMMA SameRequestSound ==
  ASSUME NEW list, NEW n, SoundList(list, n), NEW i \in DOMAIN list, NEW call \in Call,
         call.session = list[i].session, Its(call),
         call.kind = list[i].kind, call.cancelled = list[i].cancelled
  PROVE  /\ SoundList([list EXCEPT ![i] = call], n)
         /\ Quiet(list) => Quiet([list EXCEPT ![i] = call])
<1>1. /\ [list EXCEPT ![i] = call] \in Seq(Call)
      /\ DOMAIN [list EXCEPT ![i] = call] = DOMAIN list
  BY ExceptSeq DEF SoundList
<1>2. \A k \in DOMAIN list : [list EXCEPT ![i] = call][k] = IF k = i THEN call ELSE list[k]
  OBVIOUS
<1> QED BY <1>1, <1>2 DEF SoundList, Quiet, Yields

\* What the server keeps of its sessions, but for the requests.
ServerTyped ==
  /\ pages \in [SearchSession -> 0 .. MaxPages] /\ searchStage \in [SearchSession -> SessionStage]
  /\ sources \in [SearchSession -> SourceStep]

\* Ranking, reranking and refreshing leave it so.
LEMMA SessionSteps ==
  ASSUME ServerTyped, NEW s \in SearchSession, Ranks(s) \/ Reranks(s) \/ (Refreshes(s) /\ UNCHANGED pages)
  PROVE  pages' \in [SearchSession -> 0 .. MaxPages] /\ searchStage' \in [SearchSession -> SessionStage]
<1>1. 0 \in 0 .. MaxPages /\ StageOf(sources[s]) \in SessionStage
  BY SearchAssumption, StageCalled DEF ServerTyped
<1>2. {"completed", "reranking"} \subseteq SessionStage
  BY DEF SessionStage, Polled
<1> QED BY <1>1, <1>2 DEF ServerTyped, Ranks, Reranks, Refreshes

\* The server goes on with a request: it is of the same session, and what it
\* has got is too.
LEMMA ServeStep ==
  ASSUME SearchInv, NEW i \in DOMAIN calls, Serve(i)
  PROVE  SearchInv'
<1> DEFINE s == calls[i].session
<1>1. /\ created \in Nat /\ calls[i] \in Call /\ s \in 1 .. created /\ Its(calls[i])
      /\ s \in SearchSession /\ ServerTyped
  BY ElementOfSeq, SearchAssumption DEF SearchInv, SoundList, SearchTypeOK, SearchSession, ServerTyped
<1>2. UNCHANGED <<created, coordinator, rerankings, shownSide>>
  BY DEF Serve
<1>3. PICK call \in Call :
        /\ call.session = s /\ Its(call) /\ call.kind = calls[i].kind
        /\ call.cancelled = calls[i].cancelled
        /\ calls' = calls \/ calls' = [calls EXCEPT ![i] = call]
  <2>1. ASSUME NEW label \in CallPlace, CallAt(i, label)
        PROVE  \E call \in Call :
                 /\ call.session = s /\ Its(call) /\ call.kind = calls[i].kind
                 /\ call.cancelled = calls[i].cancelled /\ calls' = [calls EXCEPT ![i] = call]
    <3> DEFINE moved == [calls[i] EXCEPT !.at = label]
    <3>1. moved \in Call /\ moved.session = s /\ moved.got = calls[i].got
      BY <1>1 DEF Call
    <3>2. moved.kind = calls[i].kind /\ moved.cancelled = calls[i].cancelled
      BY <1>1 DEF Call
    <3>3. calls' = [calls EXCEPT ![i] = moved]
      BY <2>1 DEF CallAt
    <3> HIDE DEF moved
    <3>4. Its(moved)
      BY <1>1, <3>1 DEF Its
    <3> QED BY <3>1, <3>2, <3>3, <3>4
  <2>2. CASE RankCall(i) \/ SelectSources(i) \/ QueueSources(i) \/ RefreshCall(i)
    <3>1. \E label \in CallPlace : CallAt(i, label)
      BY <2>2 DEF RankCall, SelectSources, QueueSources, RefreshCall, CallPlace
    <3> QED BY <2>1, <3>1
  <2>3. CASE ReadPage(i)
    <3> DEFINE rows == {r \in ResultPage : r.session = s /\ r.page = calls[i].next
                                              /\ calls[i].next <= pages[s]}
               place == IF calls[i].next < pages[s] THEN "refresh" ELSE "answered"
               served == [calls[i] EXCEPT !.next = @ + 1, !.stage = searchStage[s],
                            !.at = place, !.got = @ \cup rows]
    <3>1. rows \subseteq ResultPage /\ calls[i].next + 1 \in Nat /\ place \in CallPlace
      BY <1>1 DEF Call, CallPlace
    <3>2. searchStage[s] \in CallStage
      BY <1>1 DEF ServerTyped, CallStage
    <3>3. calls' = [calls EXCEPT ![i] = served] /\ \A r \in rows : r.session = s
      BY <2>3 DEF ReadPage
    <3> HIDE DEF rows, place
    <3>4. /\ served \in Call /\ served.session = s /\ served.got = calls[i].got \cup rows
          /\ served.kind = calls[i].kind /\ served.cancelled = calls[i].cancelled
      BY <1>1, <3>1, <3>2 DEF Call
    <3> HIDE DEF served
    <3>5. Its(served)
      BY <1>1, <3>3, <3>4 DEF Its
    <3> QED BY <3>3, <3>4, <3>5
  <2> QED BY <2>2, <2>3 DEF Serve
<1>4. SoundList(calls', created') /\ (Quiet(calls) => Quiet(calls'))
  BY <1>1, <1>2, <1>3, SameRequestSound DEF SearchInv
<1>5. \A k \in DOMAIN calls' : calls'[k].session <= created' /\ calls'[k].got \subseteq ResultPage
  BY <1>1, <1>2, <1>4, SoundTyped
<1>6. ServerTyped'
  <2>1. CASE RankCall(i) \/ RefreshCall(i)
    <3>1. UNCHANGED sources /\ (Ranks(s) \/ (Refreshes(s) /\ UNCHANGED pages))
      BY <2>1 DEF RankCall, RefreshCall
    <3> HIDE DEF s
    <3> QED BY <1>1, <3>1, SessionSteps DEF ServerTyped
  <2>2. CASE SelectSources(i) \/ QueueSources(i)
    <3>1. sources' \in [SearchSession -> SourceStep]
      BY <1>1, <2>2 DEF SelectSources, QueueSources, ServerTyped, SourceStep
    <3>2. StageOf(sources'[s]) \in SessionStage
      BY <1>1, <3>1, StageCalled
    <3>3. UNCHANGED pages /\ searchStage' = [searchStage EXCEPT ![s] = StageOf(sources'[s])]
      BY <2>2 DEF SelectSources, QueueSources
    <3> QED BY <1>1, <3>1, <3>2, <3>3 DEF ServerTyped
  <2>3. CASE ReadPage(i)
    BY <1>1, <2>3 DEF ReadPage, ServerTyped
  <2> QED BY <2>1, <2>2, <2>3 DEF Serve
<1>7. SearchTypeOK'
  BY <1>2, <1>5, <1>6 DEF SearchInv, SearchTypeOK, ServerTyped, shownSide
<1>8. ShownTogether' /\ RestoreYields'
  BY <1>2, <1>4 DEF SearchInv, ShownTogether, RestoreYields, Quiet, Yields, shownSide
<1> QED BY <1>2, <1>4, <1>7, <1>8 DEF SearchInv, shownSide

\* A request is given up: the others are what they were.
LEMMA DropStep ==
  ASSUME SearchInv, NEW i \in DOMAIN calls, DropCall(i)
  PROVE  SearchInv'
<1> USE DEF SearchInv
<1>1. /\ calls' = RemoveAt(calls, i)
      /\ UNCHANGED <<created, pages, searchStage, sources, coordinator, rerankings>>
      /\ UNCHANGED <<active, shownStage, shownIds, emptied>> /\ restored' \in BOOLEAN
      /\ created \in Nat
  BY SearchAssumption DEF DropCall, serverSide, SearchTypeOK
<1>2. SoundList(calls', created') /\ (Quiet(calls) => Quiet(calls'))
  BY <1>1, RemoveAtSound
<1>3. \A k \in DOMAIN calls' : calls'[k].session <= created' /\ calls'[k].got \subseteq ResultPage
  BY <1>1, <1>2, SoundTyped
<1>4. SearchTypeOK' /\ rerankings' \in Nat /\ {restored', emptied'} \subseteq BOOLEAN
  BY <1>1, <1>3 DEF SearchTypeOK
<1>5. ShownTogether' /\ RestoreYields'
  BY <1>1, <1>2 DEF ShownTogether, RestoreYields, Quiet, Yields
<1> QED BY <1>1, <1>2, <1>4, <1>5

\* A request is sent: starting a search may add its session.
LEMMA SendStep ==
  ASSUME SearchInv, NEW kind \in {"execute", "rerun", "poll"}, NEW s \in 1 .. created',
         Sends(kind, s), UNCHANGED <<shownSide, coordinator>>, created' \in created .. MaxSessions,
         ServerTyped', rerankings' \in Nat
  PROVE  SearchInv'
<1> USE DEF SearchInv, shownSide
<1>1. created \in Nat /\ created' \in Nat /\ created <= created' /\ created' \in 0 .. MaxSessions
  BY SearchAssumption DEF SearchTypeOK
<1>2. SoundList(calls', created') /\ (Quiet(calls) => Quiet(calls'))
  BY <1>1, SendsSound DEF Sends
<1>3. \A k \in DOMAIN calls' : calls'[k].session <= created' /\ calls'[k].got \subseteq ResultPage
  BY <1>1, <1>2, SoundTyped
<1>4. SearchTypeOK' /\ {restored', emptied'} \subseteq BOOLEAN
  BY <1>1, <1>3 DEF SearchTypeOK, ServerTyped
<1>5. ShownTogether' /\ RestoreYields'
  BY <1>2 DEF ShownTogether, RestoreYields, Quiet, Yields
<1> QED BY <1>2, <1>4, <1>5

\* The coordinator goes on: it changes sessions, no request and nothing shown.
LEMMA CoordinatorKeeps ==
  ASSUME SearchInv, UNCHANGED <<created, shownSide, calls>>, rerankings' \in Nat, ServerTyped',
         coordinator' \in [session : Nat, at : {"idle", "saved", "rerank", "rank", "refresh"}],
         coordinator'.at # "idle" => coordinator'.session \in SearchSession
  PROVE  SearchInv'
<1>1. SearchTypeOK'
  BY DEF SearchInv, SearchTypeOK, ServerTyped, shownSide
<1>2. ShownTogether' /\ RestoreYields'
  BY DEF SearchInv, ShownTogether, RestoreYields, shownSide
<1> QED BY <1>1, <1>2 DEF SearchInv, shownSide

LEMMA SearchStep == SearchInv /\ [SearchNext]_searchVars => SearchInv'
<1> SUFFICES ASSUME SearchInv, [SearchNext]_searchVars PROVE SearchInv'
  OBVIOUS
<1> USE DEF serverSide, shownSide
<1>0. /\ created \in Nat /\ created \in 0 .. MaxSessions /\ rerankings \in Nat
      /\ ServerTyped /\ MaxPages \in Nat /\ MaxSessions \in Nat
      /\ coordinator \in [session : Nat, at : {"idle", "saved", "rerank", "rank", "refresh"}]
      /\ coordinator.at # "idle" => coordinator.session \in SearchSession
  BY SearchAssumption DEF SearchInv, SearchTypeOK, ServerTyped
<1>1. CASE UNCHANGED searchVars
  BY <1>1 DEF searchVars, SearchInv, SearchTypeOK, ShownTogether, RestoreYields
<1>2. CASE StartSearch
  <2>1. ServerTyped'
    BY <1>0, <1>2 DEF StartSearch, ServerTyped
  <2> QED BY <1>0, <1>2, <2>1, SendStep DEF StartSearch
<1>3. CASE Poll
  <2>1. active \in 1 .. created
    BY <1>0, <1>3 DEF Poll, Watched, NoSearch, SearchInv, SearchTypeOK
  <2>2. ServerTyped'
    BY <1>0, <1>3 DEF Poll, ServerTyped
  <2> QED BY <1>0, <1>3, <2>1, <2>2, SendStep DEF Poll
<1>4. ASSUME NEW s \in SearchSession, RerunSearch(s) PROVE SearchInv'
  <2>1. /\ s \in 1 .. created /\ UNCHANGED <<created, shownSide, coordinator, sources>>
        /\ Sends("rerun", s) /\ Reranks(s) /\ rerankings' \in Nat
    BY <1>0, <1>4 DEF RerunSearch, SearchSession
  <2>2. ServerTyped'
    BY <1>0, <2>1, SessionSteps DEF ServerTyped
  <2>3. created' \in created .. MaxSessions /\ s \in 1 .. created'
    BY <1>0, <2>1
  <2> QED BY <2>1, <2>2, <2>3, SendStep
<1>5. ASSUME NEW s \in SearchSession, RestoreSearch(s) PROVE SearchInv'
  <2>1. /\ s \in 1 .. created /\ UNCHANGED <<serverSide, shownSide>> /\ active = NoSearch
        /\ SendsAfter(Cleanup(calls), "restore", s)
    BY <1>0, <1>5 DEF RestoreSearch, SearchSession
  <2>2. SoundList(calls', created')
    BY <1>0, <2>1, CleanupSound, SendsSound DEF SearchInv
  <2>3. \A k \in DOMAIN calls' : calls'[k].session <= created' /\ calls'[k].got \subseteq ResultPage
    BY <1>0, <2>1, <2>2, SoundTyped
  <2> QED BY <2>1, <2>2, <2>3 DEF SearchInv, SearchTypeOK, ShownTogether, RestoreYields
<1>6. ASSUME NEW s \in SearchSession, SourceEnds(s) PROVE SearchInv'
  <2>1. /\ UNCHANGED <<created, pages, searchStage, shownSide, calls>> /\ rerankings' \in Nat
        /\ coordinator' = [session |-> s, at |-> "saved"] /\ sources' \in [SearchSession -> SourceStep]
    BY <1>0, <1>6 DEF SourceEnds, CoordinatorAt, ServerTyped
  <2> QED BY <1>0, <2>1, CoordinatorKeeps DEF SearchSession, ServerTyped
<1>7. CASE CoordinatorStep
  <2> DEFINE s == coordinator.session
  <2>1. UNCHANGED <<created, sources, rerankings, shownSide, calls>> /\ Proceeds(s)
    BY <1>7 DEF CoordinatorStep
  <2>2. s \in SearchSession /\ s \in Nat
    BY <1>0, <2>1 DEF Proceeds
  <2>3. Ranks(s) \/ Reranks(s) \/ (Refreshes(s) /\ UNCHANGED pages)
    BY <2>1 DEF Proceeds
  <2>4. /\ coordinator' \in [session : Nat, at : {"idle", "saved", "rerank", "rank", "refresh"}]
        /\ coordinator'.at # "idle" => coordinator'.session \in SearchSession
    BY <2>1, <2>2 DEF Proceeds, CoordinatorAt, NoSearch
  <2> HIDE DEF s
  <2>5. ServerTyped'
    BY <1>0, <2>1, <2>2, <2>3, SessionSteps DEF ServerTyped
  <2> QED BY <1>0, <2>1, <2>4, <2>5, CoordinatorKeeps
<1>8. CASE CoordinatorFails
  <2>1. /\ UNCHANGED <<created, pages, searchStage, sources, rerankings, shownSide, calls>>
        /\ \E label \in {"refresh", "saved"} : coordinator' = [session |-> coordinator.session, at |-> label]
        /\ coordinator.at # "idle"
    BY <1>8 DEF CoordinatorFails, CoordinatorAt
  <2>2. ServerTyped'
    BY <1>0, <2>1 DEF ServerTyped
  <2> QED BY <1>0, <2>1, <2>2, CoordinatorKeeps
<1>9. ASSUME NEW i \in DOMAIN calls, Serve(i) \/ AnswerCall(i) \/ RefusePage(i) \/ DropCall(i)
      PROVE  SearchInv'
  BY <1>9, ServeStep, DropStep, ConcludeStep DEF AnswerCall, RefusePage
<1> QED BY <1>1, <1>2, <1>3, <1>4, <1>5, <1>6, <1>7, <1>8, <1>9 DEF SearchNext

\* However requests are sent, served, refused and given up, sessions and what
\* is shown stay within their domains.
THEOREM SearchTyped == SearchSpec => []SearchTypeOK
<1>1. SearchInv => SearchTypeOK
  BY DEF SearchInv
<1> QED BY <1>1, SearchInitially, SearchStep, PTL DEF SearchSpec

\* Polls, starts, reruns and restores answer in any order: the results that
\* are shown are those of the search that is shown.
THEOREM ResultsOfTheSearchShown == SearchSpec => []ShownTogether
<1>1. SearchInv => ShownTogether
  BY DEF SearchInv
<1> QED BY <1>1, SearchInitially, SearchStep, PTL DEF SearchSpec

\* Once a search is active no restore under way is listened to, so none
\* replaces it.
THEOREM RestoringYields == SearchSpec => []RestoreYields
<1>1. SearchInv => RestoreYields
  BY DEF SearchInv
<1> QED BY <1>1, SearchInitially, SearchStep, PTL DEF SearchSpec
-----------------------------------------------------------------------------
\* The applications.

\* A write of the application that no other overlaps: a page waits for its
\* answer, the stage it read is the row's, what it answers is the row.
True(one) == /\ one.heard
             /\ one.at = "read" => one.read = application.stage
             /\ one.at = "answered" => one.answer = application
PutsAlone == ~overlapped => Len(puts) <= 1 /\ \A i \in DOMAIN puts : True(puts[i])

\* A save or its removal that no other overlaps is what the screen shows.
MarkAlone == ~starred => Len(marks) <= 1 /\ \A i \in DOMAIN marks : marks[i] = star

\* The types, sequences included.
Put == [patch : Patch, at : {"sent", "read", "answered"}, read : Stage \cup {"none"},
        answer : Record, heard : BOOLEAN]
RecordsTyped ==
  /\ shown \in Record /\ application \in Record /\ pending \in Patch
  /\ moves \subseteq (Stage \cup {"none", "any"}) \X Stage
  /\ puts \in Seq(Put) /\ marks \in Seq(BOOLEAN) /\ warned \subseteq {"record", "save"}
  /\ {star, saveRow, overlapped, starred, createdTwice, unseen} \subseteq BOOLEAN
  /\ changes \in 0 .. MaxChanges

RecordsInv == RecordsTyped /\ PutsAlone /\ MarkAlone /\ ScreenMeetsRow
-----------------------------------------------------------------------------
\* What comes of a patch is a record, whose stage may then be set.
LEMMA PatchedIsRecord ==
  ASSUME RecordsAssumption, NEW record \in Record, NEW patch \in Patch
  PROVE  /\ record.stage \in Stage \cup {"none"} /\ record.notes \in 0 .. MaxChanges
         /\ Patched(record, patch).notes \in 0 .. MaxChanges
         /\ Patched(record, patch) \in Record
         /\ \A stage \in Stage : [Patched(record, patch) EXCEPT !.stage = stage] \in Record
<1>1. /\ record.stage \in Stage \cup {"none"} /\ record.notes \in 0 .. MaxChanges
      /\ record = Untracked \/ record.stage \in Stage
  BY DEF Record, Untracked, RecordsAssumption
<1>2. /\ patch.stage \in Stage \cup {Keep} /\ patch.notes \in (0 .. MaxChanges) \cup {Keep}
  BY DEF Patch
<1> DEFINE stg == IF patch.stage # Keep THEN patch.stage
                  ELSE IF record = Untracked THEN "Saved" ELSE record.stage
           nts == IF patch.notes # Keep THEN patch.notes ELSE record.notes
<1>3. stg \in Stage /\ nts \in 0 .. MaxChanges
  BY <1>1, <1>2 DEF RecordsAssumption
<1>4. Patched(record, patch) = [stage |-> stg, notes |-> nts]
  BY DEF Patched
<1> HIDE DEF stg, nts
<1> QED
  BY <1>1, <1>3, <1>4 DEF Record

\* What the only element of a list leaves behind.
LEMMA OnlyOne ==
  ASSUME NEW S, NEW list \in Seq(S), NEW i \in DOMAIN list, Len(list) <= 1
  PROVE  list # <<>> /\ DOMAIN list = {i} /\ RemoveAt(list, i) = <<>>
<1>1. Len(list) \in Nat /\ DOMAIN list = 1 .. Len(list)
  BY LenProperties
<1>2. Len(list) = 1
  BY <1>1
<1>3. RemoveAt(list, i) \in Seq(S) /\ Len(RemoveAt(list, i)) = 0
  BY <1>2, RemoveAtLeaves
<1>4. RemoveAt(list, i) = <<>>
  BY <1>3, EmptySeq
<1>5. DOMAIN list = {1} /\ i = 1
  BY <1>1, <1>2
<1>6. DOMAIN list = {i}
  BY <1>5, Zenon
<1>7. list # <<>>
  <2>1. Len(<<>>) = 0
    OBVIOUS
  <2>2. Len(list) # 0
    BY <1>2
  <2> QED
    BY <2>1, <2>2, Zenon
<1> QED
  BY <1>4, <1>6, <1>7, Zenon

\* An edit of the person's: its patch says something, so its timer runs.
LEMMA ChangeKeeps ==
  ASSUME RecordsAssumption, RecordsInv, NEW patch \in Patch, patch # NoPatch, Change(patch)
  PROVE  RecordsInv'
<1>1. Patched(shown, patch) \in Record
  BY PatchedIsRecord DEF RecordsInv, RecordsTyped
<1>2. RecordsTyped'
  <2>1. changes' \in 0 .. MaxChanges
    BY DEF Change, RecordsInv, RecordsTyped, RecordsAssumption
  <2> QED
    BY <1>1, <2>1 DEF Change, RecordsInv, RecordsTyped
<1>3. PutsAlone' /\ MarkAlone'
  BY DEF Change, RecordsInv, PutsAlone, True, MarkAlone
<1>4. ScreenMeetsRow'
  BY DEF Change, RecordsInv, ScreenMeetsRow
<1> QED
  BY <1>2, <1>3, <1>4 DEF RecordsInv

\* The person's three edits: each patch names a stage or a note, never nothing.
LEMMA PersonKeeps ==
  ASSUME RecordsAssumption, RecordsInv, Advance \/ EditNotes \/ \E stage \in Stage : SetStage(stage)
  PROVE  RecordsInv'
<1>1. shown \in Record /\ changes \in 0 .. MaxChanges
  BY DEF RecordsInv, RecordsTyped
<1>2. shown = Untracked \/ shown.stage \in Stage
  BY <1>1 DEF Record
<1>3. ASSUME NEW stage \in Stage, NEW notes \in (0 .. MaxChanges) \cup {Keep}
      PROVE  [stage |-> stage, notes |-> notes] \in Patch /\ [stage |-> stage, notes |-> notes] # NoPatch
  <2>1. stage # Keep
    BY DEF RecordsAssumption
  <2> QED
    BY <2>1 DEF Patch, NoPatch
<1>4. CASE Advance
  <2> DEFINE stage == IF shown = Untracked THEN "Preparing" ELSE shown.stage
  <2>1. stage \in Stage
    BY <1>2 DEF RecordsAssumption
  <2>2. Change([NoPatch EXCEPT !.stage = stage])
    BY <1>4 DEF Advance
  <2> HIDE DEF stage
  <2>3. [NoPatch EXCEPT !.stage = stage] = [stage |-> stage, notes |-> Keep]
    BY DEF NoPatch
  <2> QED
    BY <1>3, <2>1, <2>2, <2>3, ChangeKeeps
<1>5. CASE EditNotes
  <2> DEFINE patch == [stage |-> Keep, notes |-> changes + 1]
  <2>1. Change(patch) /\ changes < MaxChanges
    BY <1>5 DEF EditNotes, NoPatch, Change
  <2>2. changes + 1 \in 0 .. MaxChanges /\ changes + 1 # Keep
    BY <1>1, <2>1 DEF RecordsAssumption
  <2>3. patch \in Patch /\ patch # NoPatch
    BY <2>2 DEF Patch, NoPatch
  <2> HIDE DEF patch
  <2> QED
    BY <2>1, <2>3, ChangeKeeps
<1>6. CASE \E stage \in Stage : SetStage(stage)
  <2>1. PICK stage \in Stage : SetStage(stage)
    BY <1>6
  <2> DEFINE notes == IF shown = Untracked THEN 0 ELSE Keep
  <2>2. notes \in (0 .. MaxChanges) \cup {Keep}
    BY DEF RecordsAssumption
  <2>3. Change([stage |-> stage, notes |-> notes])
    BY <2>1 DEF SetStage
  <2> HIDE DEF notes
  <2> QED
    BY <1>3, <2>2, <2>3, ChangeKeeps
<1> QED
  BY <1>4, <1>5, <1>6

\* Saves: one is sent, applied, or fails.
LEMMA MarksKeep ==
  ASSUME RecordsAssumption, RecordsInv,
         ToggleSaved \/ \E i \in DOMAIN marks : ApplyMark(i) \/ MarkFails(i)
  PROVE  RecordsInv'
<1>1. RecordsTyped /\ PutsAlone /\ MarkAlone /\ ScreenMeetsRow
  BY DEF RecordsInv
<1>2. marks \in Seq(BOOLEAN) /\ star \in BOOLEAN
  BY <1>1 DEF RecordsTyped
<1>3. CASE ToggleSaved
  <2>1. marks' = Append(marks, star') /\ star' \in BOOLEAN
    BY <1>3 DEF ToggleSaved
  <2>2. marks' \in Seq(BOOLEAN) /\ marks' # <<>>
    BY <1>2, <2>1, AppendProperties, EmptySeq
  <2>3. RecordsTyped'
    <3>1. changes' \in 0 .. MaxChanges
      BY <1>1, <1>3 DEF ToggleSaved, RecordsTyped, RecordsAssumption
    <3>2. starred' \in BOOLEAN
      BY <1>3 DEF ToggleSaved
    <3> QED
      BY <1>1, <1>3, <2>1, <2>2, <3>1, <3>2 DEF ToggleSaved, RecordsTyped
  <2>4. PutsAlone'
    BY <1>1, <1>3 DEF ToggleSaved, PutsAlone, True
  <2>5. MarkAlone'
    <3>1. starred' \/ marks = <<>>
      BY <1>3 DEF ToggleSaved
    <3>2. ASSUME marks = <<>> PROVE marks' = <<star'>>
      BY <2>1, <3>2
    <3>3. ASSUME marks = <<>> PROVE marks'[1] = star' /\ DOMAIN marks' = {1}
      BY <3>2, <3>3
    <3>4. ASSUME marks = <<>> PROVE Len(marks') <= 1
      <4>1. Len(marks') = 1
        BY <3>2, <3>4
      <4> QED
        BY <4>1
    <3>5. marks = <<>> => \A i \in DOMAIN marks' : marks'[i] = star'
      <4>1. \A i \in {1} : i = 1
        OBVIOUS
      <4> QED
        BY <3>3, <4>1, Zenon
    <3> QED
      BY <3>1, <3>4, <3>5 DEF MarkAlone
  <2>6. ScreenMeetsRow'
    BY <1>1, <1>3, <2>2 DEF ToggleSaved, ScreenMeetsRow
  <2> QED
    BY <2>3, <2>4, <2>5, <2>6 DEF RecordsInv
<1>4. ASSUME NEW i \in DOMAIN marks, ApplyMark(i) \/ MarkFails(i)
      PROVE  RecordsInv'
  <2>1. marks' = RemoveAt(marks, i) /\ UNCHANGED <<star, starred, shown, application, pending, puts>>
    BY <1>4 DEF ApplyMark, MarkFails
  <2>2. marks' \in Seq(BOOLEAN) /\ marks[i] \in BOOLEAN
    BY <1>2, <2>1, RemoveAtLeaves, LenProperties, ElementOfSeq
  <2>3. saveRow' \in BOOLEAN /\ warned' \subseteq {"record", "save"}
    BY <1>1, <1>4, <2>2 DEF ApplyMark, MarkFails, RecordsTyped
  <2>4. RecordsTyped'
    BY <1>1, <1>4, <2>2, <2>3 DEF ApplyMark, MarkFails, RecordsTyped
  <2>5. PutsAlone'
    BY <1>1, <1>4 DEF ApplyMark, MarkFails, PutsAlone, True
  <2>6. ~starred => marks' = <<>> /\ marks[i] = star
    BY <1>1, <1>2, <2>1, OnlyOne DEF MarkAlone
  <2>7. MarkAlone'
    <3>1. Len(<<>>) <= 1 /\ DOMAIN <<>> = {}
      OBVIOUS
    <3> QED
      BY <2>1, <2>6, <3>1 DEF MarkAlone
  <2>8. ScreenMeetsRow'
    <3>1. ("record" \notin warned') => ("record" \notin warned)
      BY <1>4 DEF ApplyMark, MarkFails
    <3>2. ~starred /\ "save" \notin warned' => star' = saveRow'
      BY <1>4, <2>1, <2>6 DEF ApplyMark, MarkFails
    <3> QED
      BY <1>1, <1>4, <2>1, <3>1, <3>2 DEF ApplyMark, MarkFails, ScreenMeetsRow
  <2> QED
    BY <2>4, <2>5, <2>7, <2>8 DEF RecordsInv
<1> QED
  BY <1>3, <1>4

\* What a write is, wherever it is in the list.
LEMMA PutsTyped ==
  ASSUME RecordsTyped, NEW i \in DOMAIN puts
  PROVE  /\ puts \in Seq(Put) /\ puts[i] \in Put /\ DOMAIN puts = 1 .. Len(puts) /\ Len(puts) \in Nat
         /\ \A one \in Put : /\ [puts EXCEPT ![i] = one] \in Seq(Put)
                             /\ DOMAIN [puts EXCEPT ![i] = one] = DOMAIN puts
                             /\ [puts EXCEPT ![i] = one][i] = one
                             /\ Len([puts EXCEPT ![i] = one]) = Len(puts)
                             /\ [puts EXCEPT ![i] = one] # <<>>
<1>1. puts \in Seq(Put) /\ DOMAIN puts = 1 .. Len(puts) /\ Len(puts) \in Nat /\ puts[i] \in Put
  BY LenProperties, ElementOfSeq DEF RecordsTyped
<1>2. ASSUME NEW one \in Put
      PROVE  /\ [puts EXCEPT ![i] = one] \in Seq(Put)
             /\ DOMAIN [puts EXCEPT ![i] = one] = DOMAIN puts
             /\ [puts EXCEPT ![i] = one][i] = one
             /\ Len([puts EXCEPT ![i] = one]) = Len(puts)
  BY <1>1, ExceptSeq
<1>3. ASSUME NEW one \in Put
      PROVE  [puts EXCEPT ![i] = one] # <<>>
  <2>1. i \in DOMAIN [puts EXCEPT ![i] = one]
    BY <1>2
  <2> QED
    BY <2>1
<1> QED
  BY <1>1, <1>2, <1>3

\* A patch is sent: its write is the only one, or it overlaps.
LEMMA SendKeeps ==
  ASSUME RecordsAssumption, RecordsInv, SendPatch
  PROVE  RecordsInv'
<1> DEFINE one == [patch |-> pending, at |-> "sent", read |-> "none", answer |-> Untracked,
                   heard |-> TRUE]
<1>1. RecordsTyped /\ PutsAlone /\ MarkAlone /\ ScreenMeetsRow
  BY DEF RecordsInv
<1>2. one \in Put
  BY <1>1 DEF RecordsTyped, Put, Record
<1>3. puts' = Append(puts, one) /\ puts \in Seq(Put)
  BY <1>1 DEF SendPatch, RecordsTyped
<1>4. True(one)'
  BY DEF True
<1> HIDE DEF one
<1>5. puts' \in Seq(Put) /\ puts' # <<>>
  BY <1>2, <1>3, AppendProperties, EmptySeq
<1>6. RecordsTyped'
  <2>1. NoPatch \in Patch
    BY DEF NoPatch, Patch
  <2>2. overlapped' \in BOOLEAN
    BY DEF SendPatch
  <2> QED
    BY <1>1, <1>5, <2>1, <2>2 DEF SendPatch, RecordsTyped
<1>7. PutsAlone'
  <2>1. overlapped' \/ puts = <<>>
    BY DEF SendPatch
  <2>2. puts = <<>> => puts' = <<one>>
    BY <1>3
  <2>3. ASSUME puts = <<>> PROVE Len(puts') <= 1 /\ \A i \in DOMAIN puts' : puts'[i] = one
    <3>1. puts' = <<one>>
      BY <2>2, <2>3
    <3>2. Len(puts') = 1 /\ DOMAIN puts' = {1} /\ puts'[1] = one
      BY <3>1
    <3> QED
      BY <3>2
  <2> QED
    BY <1>4, <2>1, <2>3 DEF PutsAlone, True, SendPatch, one
<1>8. MarkAlone' /\ ScreenMeetsRow'
  BY <1>1, <1>5 DEF SendPatch, MarkAlone, ScreenMeetsRow
<1> QED
  BY <1>6, <1>7, <1>8 DEF RecordsInv

\* A reload shows what the server holds; writes under way then overlap it.
LEMMA ReloadKeeps ==
  ASSUME RecordsAssumption, RecordsInv, Reload
  PROVE  RecordsInv'
<1>1. RecordsTyped /\ PutsAlone /\ MarkAlone /\ ScreenMeetsRow
  BY DEF RecordsInv
<1>2. /\ puts' = [i \in DOMAIN puts |-> [puts[i] EXCEPT !.heard = FALSE]]
      /\ puts \in Seq(Put) /\ Len(puts) \in Nat /\ DOMAIN puts = 1 .. Len(puts)
  BY <1>1, LenProperties DEF Reload, RecordsTyped
<1>3. puts' \in Seq(Put)
  <2>1. \A i \in 1 .. Len(puts) : puts[i] \in Put
    BY <1>2, ElementOfSeq
  <2>2. \A i \in 1 .. Len(puts) : [puts[i] EXCEPT !.heard = FALSE] \in Put
    BY <2>1 DEF Put
  <2>3. puts' \in [1 .. Len(puts) -> Put]
    BY <1>2, <2>2
  <2> QED
    BY <1>2, <2>3
<1>4. RecordsTyped'
  <2>1. NoPatch \in Patch
    BY DEF NoPatch, Patch
  <2>2. overlapped' \in BOOLEAN /\ starred' \in BOOLEAN
    BY DEF Reload
  <2> QED
    BY <1>1, <1>3, <2>1, <2>2 DEF Reload, RecordsTyped
<1>5. ~overlapped' => puts' = <<>>
  <2>1. ~overlapped' => puts = <<>>
    BY DEF Reload
  <2> QED
    BY <1>2, <2>1
<1>6. ~starred' => marks' = <<>>
  BY DEF Reload
<1>7. PutsAlone' /\ MarkAlone'
  BY <1>5, <1>6 DEF PutsAlone, MarkAlone
<1>8. ScreenMeetsRow'
  BY DEF Reload, ScreenMeetsRow
<1> QED
  BY <1>4, <1>7, <1>8 DEF RecordsInv

\* The stage is read: it is the row's.
LEMMA ReadKeeps ==
  ASSUME RecordsAssumption, RecordsInv, NEW i \in DOMAIN puts, ReadStage(i)
  PROVE  RecordsInv'
<1> DEFINE one == [puts[i] EXCEPT !.at = "read", !.read = application.stage]
<1>1. RecordsTyped /\ PutsAlone /\ MarkAlone /\ ScreenMeetsRow
  BY DEF RecordsInv
<1>2. puts[i] \in Put /\ application.stage \in Stage \cup {"none"}
  BY <1>1, PutsTyped DEF RecordsTyped, Record, Untracked
<1>3. one \in Put /\ one.at = "read" /\ one.read = application.stage /\ one.heard = puts[i].heard
  BY <1>2 DEF Put
<1>4. puts' = [puts EXCEPT ![i] = one]
  BY DEF ReadStage
<1> HIDE DEF one
<1>5. /\ puts' \in Seq(Put) /\ DOMAIN puts' = DOMAIN puts /\ puts'[i] = one
      /\ Len(puts') = Len(puts) /\ puts' # <<>>
  BY <1>1, <1>3, <1>4, PutsTyped
<1>6. RecordsTyped'
  BY <1>1, <1>5 DEF ReadStage, RecordsTyped
<1>7. PutsAlone'
  <2>1. ~overlapped => DOMAIN puts = {i} /\ puts[i].heard /\ Len(puts) <= 1
    BY <1>1, PutsTyped, OnlyOne DEF PutsAlone, True
  <2> QED
    BY <1>3, <1>5, <2>1 DEF PutsAlone, True, ReadStage
<1>8. MarkAlone' /\ ScreenMeetsRow'
  BY <1>1, <1>5 DEF ReadStage, MarkAlone, ScreenMeetsRow
<1> QED
  BY <1>6, <1>7, <1>8 DEF RecordsInv

\* The row is written: what is answered is the row.
LEMMA WriteKeeps ==
  ASSUME RecordsAssumption, RecordsInv, NEW i \in DOMAIN puts, WriteApplication(i)
  PROVE  RecordsInv'
<1> DEFINE one == [puts[i] EXCEPT !.at = "answered", !.answer = application']
<1>1. RecordsTyped /\ PutsAlone /\ MarkAlone /\ ScreenMeetsRow
  BY DEF RecordsInv
<1>2. /\ puts[i] \in Put /\ puts[i].patch \in Patch /\ puts[i].read \in Stage \cup {"none"}
      /\ application \in Record
  BY <1>1, PutsTyped DEF RecordsTyped, Put
<1>3. NextStage(puts[i]) \in Stage
  BY <1>2 DEF NextStage, Patch, RecordsAssumption
<1>4. application' \in Record
  BY <1>2, <1>3, PatchedIsRecord DEF WriteApplication
<1>5. /\ one \in Put /\ one.at = "answered" /\ one.answer = application'
      /\ one.heard = puts[i].heard
  BY <1>2, <1>4 DEF Put
<1>6. puts' = [puts EXCEPT ![i] = one]
  BY DEF WriteApplication
<1> HIDE DEF one
<1>7. /\ puts' \in Seq(Put) /\ DOMAIN puts' = DOMAIN puts /\ puts'[i] = one
      /\ Len(puts') = Len(puts) /\ puts' # <<>>
  BY <1>1, <1>5, <1>6, PutsTyped
<1>8. MovesOf(puts[i]) \subseteq (Stage \cup {"none", "any"}) \X Stage /\ createdTwice' \in BOOLEAN
  BY <1>1, <1>2, <1>3 DEF MovesOf, WriteApplication, RecordsTyped
<1>9. RecordsTyped'
  BY <1>1, <1>4, <1>7, <1>8 DEF WriteApplication, RecordsTyped
<1>10. PutsAlone'
  <2>1. ~overlapped => DOMAIN puts = {i} /\ puts[i].heard /\ Len(puts) <= 1
    BY <1>1, PutsTyped, OnlyOne DEF PutsAlone, True
  <2>2. overlapped' = overlapped
    BY DEF WriteApplication
  <2> QED
    BY <1>5, <1>7, <2>1, <2>2 DEF PutsAlone, True
<1>11. MarkAlone' /\ ScreenMeetsRow'
  BY <1>1, <1>7 DEF WriteApplication, MarkAlone, ScreenMeetsRow
<1> QED
  BY <1>9, <1>10, <1>11 DEF RecordsInv

\* An answer is adopted, or a write or its answer is lost.
LEMMA AnsweredKeeps ==
  ASSUME RecordsAssumption, RecordsInv, NEW i \in DOMAIN puts, Adopt(i) \/ PutFails(i)
  PROVE  RecordsInv'
<1>1. RecordsTyped /\ PutsAlone /\ MarkAlone /\ ScreenMeetsRow
  BY DEF RecordsInv
<1>2. /\ puts \in Seq(Put) /\ puts[i].answer \in Record /\ puts[i].heard \in BOOLEAN
  BY <1>1, PutsTyped DEF Put
<1>3. /\ puts' = RemoveAt(puts, i) /\ puts' \in Seq(Put)
      /\ UNCHANGED <<application, overlapped, starred, star, saveRow, marks, pending, moves, createdTwice, changes>>
  BY <1>2, RemoveAtLeaves DEF Adopt, PutFails
<1>4. RecordsTyped'
  <2>1. shown' \in Record /\ unseen' \in BOOLEAN /\ warned' \subseteq {"record", "save"}
    BY <1>1, <1>2 DEF Adopt, PutFails, RecordsTyped
  <2> QED
    BY <1>1, <1>3, <2>1 DEF RecordsTyped
<1>5. ~overlapped => puts' = <<>> /\ True(puts[i])
  BY <1>1, <1>2, <1>3, OnlyOne DEF PutsAlone
<1>6. PutsAlone'
  <2>1. Len(<<>>) <= 1 /\ DOMAIN <<>> = {}
    OBVIOUS
  <2> QED
    BY <1>3, <1>5, <2>1 DEF PutsAlone
<1>7. MarkAlone'
  BY <1>1, <1>3 DEF MarkAlone
<1>8. ~overlapped => "record" \in warned' \/ shown' = application
  BY <1>5 DEF Adopt, PutFails, True
<1>9. "save" \notin warned' => "save" \notin warned
  BY DEF Adopt, PutFails
<1>10. ScreenMeetsRow'
  BY <1>1, <1>3, <1>8, <1>9 DEF ScreenMeetsRow
<1> QED
  BY <1>4, <1>6, <1>7, <1>10 DEF RecordsInv

\* An agent moves the row behind the screen.
LEMMA AgentMoveKeeps ==
  ASSUME RecordsAssumption, RecordsInv, NEW stage \in Stage, AgentMoves(stage)
  PROVE  RecordsInv'
<1>1. RecordsTyped /\ PutsAlone /\ MarkAlone /\ ScreenMeetsRow
  BY DEF RecordsInv
<1>2. application \in Record /\ application # Untracked
  BY <1>1 DEF AgentMoves, RecordsTyped
<1>3. application' \in Record /\ <<"any", stage>> \in (Stage \cup {"none", "any"}) \X Stage
  BY <1>2 DEF AgentMoves, Record
<1>4. RecordsTyped'
  <2>1. overlapped' \in BOOLEAN
    BY DEF AgentMoves
  <2> QED
    BY <1>1, <1>3, <2>1 DEF AgentMoves, RecordsTyped
<1>5. ~overlapped' => puts' = <<>>
  BY DEF AgentMoves
<1>6. PutsAlone'
  BY <1>5 DEF PutsAlone
<1>7. MarkAlone' /\ ScreenMeetsRow'
  BY <1>1 DEF AgentMoves, MarkAlone, ScreenMeetsRow
<1> QED
  BY <1>4, <1>6, <1>7 DEF RecordsInv
-----------------------------------------------------------------------------
LEMMA RecordsStart == ASSUME RecordsAssumption, RecordsInit PROVE RecordsInv
<1>1. RecordsTyped
  <2>1. Untracked \in Record /\ NoPatch \in Patch
    BY DEF Record, NoPatch, Patch
  <2>2. <<>> \in Seq(Put) /\ <<>> \in Seq(BOOLEAN)
    OBVIOUS
  <2>3. 0 \in 0 .. MaxChanges
    BY DEF RecordsAssumption
  <2>4. star \in BOOLEAN /\ saveRow \in BOOLEAN /\ overlapped \in BOOLEAN /\ starred \in BOOLEAN
        /\ unseen \in BOOLEAN /\ createdTwice \in BOOLEAN
    BY DEF RecordsInit
  <2> QED
    BY <2>1, <2>2, <2>3, <2>4 DEF RecordsInit, RecordsTyped
<1>2. PutsAlone /\ MarkAlone
  <2>1. Len(<<>>) <= 1 /\ DOMAIN <<>> = {}
    OBVIOUS
  <2> QED
    BY <2>1 DEF RecordsInit, PutsAlone, MarkAlone
<1>3. ScreenMeetsRow
  BY Zenon DEF RecordsInit, ScreenMeetsRow
<1> QED
  BY <1>1, <1>2, <1>3 DEF RecordsInv

\* Every step keeps the invariant.
LEMMA RecordsStep == ASSUME RecordsAssumption, RecordsInv, [RecordsNext]_recordVars PROVE RecordsInv'
<1>1. CASE Advance \/ EditNotes \/ \E stage \in Stage : SetStage(stage)
  BY <1>1, PersonKeeps
<1>2. CASE ToggleSaved \/ \E i \in DOMAIN marks : ApplyMark(i) \/ MarkFails(i)
  BY <1>2, MarksKeep
<1>3. CASE Reload
  BY <1>3, ReloadKeeps
<1>4. CASE SendPatch
  BY <1>4, SendKeeps
<1>5. ASSUME NEW i \in DOMAIN puts, ReadStage(i) \/ WriteApplication(i) \/ Adopt(i) \/ PutFails(i)
      PROVE  RecordsInv'
  BY <1>5, ReadKeeps, WriteKeeps, AnsweredKeeps
<1>6. ASSUME NEW stage \in Stage, AgentMoves(stage)
      PROVE  RecordsInv'
  BY <1>6, AgentMoveKeeps
<1>7. CASE UNCHANGED recordVars
  BY <1>7 DEF recordVars, RecordsInv, RecordsTyped, PutsAlone, True, MarkAlone, ScreenMeetsRow
<1> QED
  BY <1>1, <1>2, <1>3, <1>4, <1>5, <1>6, <1>7 DEF RecordsNext, RecordsProgress

\* So it holds for ever.
LEMMA RecordsKept == RecordsSpec => []RecordsInv
<1>1. RecordsInit => RecordsInv
  BY RecordsAssumption, RecordsStart
<1>2. RecordsInv /\ [RecordsNext]_recordVars => RecordsInv'
  BY RecordsAssumption, RecordsStep
<1> QED
  BY <1>1, <1>2, PTL DEF RecordsSpec

\* Patches, requests and rows stay within their domains.
THEOREM RecordsStayTyped == RecordsSpec => []RecordsTypeOK
<1>1. ASSUME RecordsInv PROVE RecordsTypeOK
  <2>1. RecordsTyped
    BY <1>1 DEF RecordsInv
  <2>2. ASSUME NEW i \in DOMAIN puts PROVE puts[i] \in Put
    BY <2>1, <2>2, PutsTyped
  <2> QED
    BY <2>1, <2>2 DEF RecordsTyped, RecordsTypeOK, Put
<1> QED
  BY <1>1, RecordsKept, PTL

\* When everything sent has been answered, the screen shows what the server
\* holds or the person was told, but for writes that ran at once and an
\* agent's move (entitySync.ts forgets patches and never sends one again).
THEOREM ScreenAndRowMeet == RecordsSpec => []ScreenMeetsRow
<1>1. RecordsInv => ScreenMeetsRow
  BY DEF RecordsInv
<1> QED
  BY <1>1, RecordsKept, PTL

\* What the activities say of the row, and of the stage a write has read: as
\* activities are never removed, a stage once accounted for remains so.
MovesInv ==
  /\ application = Untracked => moves = {}
  /\ \/ createdTwice
     \/ /\ application = Untracked \/ Accounted(application.stage)
        /\ \A i \in DOMAIN puts : puts[i].at = "read" =>
             puts[i].read = "none" \/ Accounted(puts[i].read)

LEMMA MoreMoves ==
  ASSUME moves \subseteq moves'
  PROVE  \A stages \in SUBSET Stage : ClosedUnderMoves(stages)' => ClosedUnderMoves(stages)
  BY DEF ClosedUnderMoves

\* A write leads from a stage that was accounted for to the next one.
LEMMA WriteLeads ==
  ASSUME RecordsAssumption, RecordsInv, MovesInv, NEW i \in DOMAIN puts, WriteApplication(i)
  PROVE  MovesInv'
<1>1. /\ puts[i].patch \in Patch /\ puts[i].read \in Stage \cup {"none"} /\ puts \in Seq(Put)
      /\ puts[i].at = "read" /\ moves \subseteq moves'
      /\ createdTwice' = (createdTwice \/ (puts[i].read = "none" /\ application # Untracked))
      /\ moves' = moves \cup MovesOf(puts[i])
  BY PutsTyped DEF RecordsInv, RecordsTyped, Put, WriteApplication
<1>2. NextStage(puts[i]) \in Stage /\ application'.stage = NextStage(puts[i])
  BY <1>1 DEF NextStage, Patch, RecordsAssumption, WriteApplication, Patched
<1>3. application' # Untracked
  BY <1>2 DEF Untracked, RecordsAssumption
<1>4. ASSUME ~createdTwice' PROVE Accounted(application.stage)'
  <2>1. SUFFICES ASSUME NEW stages \in SUBSET Stage, ClosedUnderMoves(stages)'
                 PROVE  NextStage(puts[i]) \in stages
    BY <1>2 DEF Accounted
  <2>2. ~createdTwice /\ (puts[i].read = "none" => application = Untracked)
    BY <1>1, <1>4
  <2>3. CASE puts[i].read = "none"
    <3>1. moves = {} /\ ~Created
      BY <2>2, <2>3 DEF MovesInv, Created
    <3>2. puts[i].read # NextStage(puts[i])
      BY <1>2, <2>3 DEF RecordsAssumption
    <3>3. <<"none", NextStage(puts[i])>> \in moves'
      BY <1>1, <2>3, <3>1, <3>2 DEF MovesOf
    <3> QED
      BY <2>1, <3>3 DEF ClosedUnderMoves
  <2>4. CASE puts[i].read # "none"
    <3>1. Accounted(puts[i].read)
      BY <1>1, <2>2, <2>4 DEF MovesInv
    <3>2. ClosedUnderMoves(stages)
      BY <1>1, <2>1 DEF ClosedUnderMoves
    <3>3. puts[i].read \in stages
      BY <3>1, <3>2 DEF Accounted
    <3>4. CASE puts[i].read = NextStage(puts[i])
      BY <3>3, <3>4
    <3>5. CASE puts[i].read # NextStage(puts[i])
      <4>1. <<puts[i].read, NextStage(puts[i])>> \in moves'
        BY <1>1, <2>4, <3>5 DEF MovesOf
      <4> QED
        BY <2>1, <3>3, <4>1 DEF ClosedUnderMoves
    <3> QED
      BY <3>4, <3>5
  <2> QED
    BY <2>3, <2>4
<1>5. ASSUME ~createdTwice', NEW k \in DOMAIN puts', puts'[k].at = "read", puts'[k].read # "none"
      PROVE  Accounted(puts[k].read)'
  <2>1. /\ k \in DOMAIN puts /\ puts[k].at = "read" /\ puts'[k].read = puts[k].read
    <3>1. k \in DOMAIN puts /\ (k # i => puts'[k] = puts[k])
      BY <1>5 DEF WriteApplication
    <3>2. k # i
      BY <1>1, <1>5, <3>1 DEF WriteApplication
    <3> QED
      BY <1>5, <3>1, <3>2
  <2>2. Accounted(puts[k].read)
    BY <1>1, <1>5, <2>1 DEF MovesInv
  <2> QED
    BY <1>1, <2>1, <2>2, MoreMoves DEF Accounted
<1>6. ~createdTwice' => Accounted(application.stage)' /\
        \A k \in DOMAIN puts' : puts'[k].at = "read" /\ puts'[k].read # "none" => Accounted(puts[k].read)'
  BY <1>4, <1>5
<1> QED
  BY <1>3, <1>6 DEF MovesInv

\* An agent's move is where it leads.
LEMMA AgentMoveLeads ==
  ASSUME RecordsInv, MovesInv, NEW stage \in Stage, AgentMoves(stage)
  PROVE  MovesInv'
<1>1. application \in Record /\ application # Untracked /\ puts' = puts /\ createdTwice' = createdTwice
      /\ <<"any", stage>> \in moves' /\ moves \subseteq moves'
  BY DEF RecordsInv, RecordsTyped, AgentMoves
<1>2. application'.stage = stage /\ application' # Untracked
  <2>1. application \in [stage : Stage, notes : 0 .. MaxChanges]
    BY <1>1 DEF Record
  <2>2. application'.stage = stage
    BY <2>1 DEF AgentMoves
  <2> QED
    BY <2>2, RecordsAssumption DEF Untracked
<1>3. Accounted(application.stage)'
  BY <1>1, <1>2 DEF Accounted, ClosedUnderMoves
<1>4. ASSUME NEW i \in DOMAIN puts, Accounted(puts[i].read) PROVE Accounted(puts[i].read)'
  BY <1>1, <1>4, MoreMoves DEF Accounted
<1> QED
  BY <1>1, <1>2, <1>3, <1>4 DEF MovesInv

\* A request that reads the stage leaves the others as they are.
LEMMA ReadChangesOne ==
  ASSUME puts \in Seq(Put), NEW i \in DOMAIN puts, ReadStage(i)
  PROVE  /\ DOMAIN puts' = DOMAIN puts /\ puts'[i].read = application.stage
         /\ \A j \in DOMAIN puts : j # i => puts'[j] = puts[j]
<1> DEFINE one == [puts[i] EXCEPT !.at = "read", !.read = application.stage]
<1>1. puts' = [puts EXCEPT ![i] = one]
  BY DEF ReadStage
<1>2. puts[i] \in Put
  BY LenProperties, ElementOfSeq
<1>3. one.read = application.stage
  BY <1>2 DEF Put
<1> HIDE DEF one
<1>4. DOMAIN puts' = DOMAIN puts /\ puts'[i] = one /\ \A j \in DOMAIN puts : j # i => puts'[j] = puts[j]
  BY <1>1
<1> QED
  BY <1>3, <1>4

\* A request reads the stage of the row, or is sent, or leaves.
LEMMA PutLeads ==
  ASSUME RecordsInv, MovesInv, UNCHANGED <<application, moves, createdTwice>>,
         \/ SendPatch \/ Reload \/ UNCHANGED puts
         \/ \E i \in DOMAIN puts : ReadStage(i) \/ Adopt(i) \/ PutFails(i)
  PROVE  MovesInv'
<1>1. puts \in Seq(Put) /\ application \in Record
  BY DEF RecordsInv, RecordsTyped
<1>2. ASSUME NEW k \in DOMAIN puts', puts'[k].at = "read", puts'[k].read # "none"
      PROVE  \/ puts'[k].read = application.stage /\ application # Untracked
             \/ \E i \in DOMAIN puts : puts[i].at = "read" /\ puts'[k].read = puts[i].read
  <2>1. CASE SendPatch
    <3>1. k \in DOMAIN puts \/ puts'[k].at = "sent"
      BY <1>1, <1>2, <2>1, AppendProperties, LenProperties DEF SendPatch
    <3> QED
      BY <1>1, <1>2, <2>1, <3>1, AppendProperties, LenProperties DEF SendPatch
  <2>2. CASE Reload
    <3>1. k \in DOMAIN puts /\ puts'[k] = [puts[k] EXCEPT !.heard = FALSE] /\ puts[k] \in Put
      BY <1>1, <1>2, <2>2, PutsTyped DEF Reload, RecordsInv
    <3>2. puts'[k].at = puts[k].at /\ puts'[k].read = puts[k].read
      BY <3>1 DEF Put
    <3> QED
      BY <1>2, <3>1, <3>2
  <2>3. ASSUME NEW i \in DOMAIN puts, ReadStage(i)
        PROVE  \/ puts'[k].read = application.stage /\ application # Untracked
               \/ \E j \in DOMAIN puts : puts[j].at = "read" /\ puts'[k].read = puts[j].read
    <3>1. DOMAIN puts' = DOMAIN puts /\ puts'[i].read = application.stage
          /\ \A j \in DOMAIN puts : j # i => puts'[j] = puts[j]
      BY <1>1, <2>3, ReadChangesOne
    <3>2. application.stage # "none" => application # Untracked
      BY DEF Untracked
    <3> QED
      BY <1>2, <3>1, <3>2
  <2>4. ASSUME NEW i \in DOMAIN puts, puts' = RemoveAt(puts, i)
        PROVE  \E j \in DOMAIN puts : puts'[k] = puts[j]
    BY <1>1, <1>2, <2>4, RemoveAtLeaves
  <2> QED
    BY <1>2, <2>1, <2>2, <2>3, <2>4 DEF Adopt, PutFails
<1>3. /\ \A stages \in SUBSET Stage : ClosedUnderMoves(stages)' => ClosedUnderMoves(stages)
      /\ application' = application /\ moves' = moves /\ createdTwice' = createdTwice
  BY MoreMoves
<1>4. ASSUME ~createdTwice, NEW k \in DOMAIN puts', puts'[k].at = "read", puts'[k].read # "none"
      PROVE  Accounted(puts[k].read)'
  <2>1. Accounted(application.stage) \/ application = Untracked
    BY <1>4 DEF MovesInv
  <2>2. ASSUME NEW i \in DOMAIN puts, puts[i].at = "read", puts'[k].read = puts[i].read
        PROVE  Accounted(puts[i].read)
    BY <1>4, <2>2 DEF MovesInv
  <2>3. Accounted(puts'[k].read)
    BY <1>2, <1>4, <2>1, <2>2
  <2> QED
    BY <1>3, <2>3 DEF Accounted
<1>5. Accounted(application.stage) => Accounted(application.stage)'
  BY <1>3 DEF Accounted
<1> QED
  BY <1>3, <1>4, <1>5 DEF MovesInv

\* Whoever moves a row, in writes that overlap or not, its activities lead to
\* its stage (entity_writes.rs appends a move from the stage that was read,
\* without a lock, and not a second time).
THEOREM MovesLeadToTheStage == RecordsSpec => []MovesLead
<1>1. RecordsInit => MovesInv
  <2>1. ASSUME RecordsInit PROVE moves = {} /\ application = Untracked /\ DOMAIN puts = {}
    <3>1. DOMAIN <<>> = {}
      OBVIOUS
    <3> QED
      BY <2>1, <3>1 DEF RecordsInit
  <2> QED
    BY <2>1 DEF MovesInv
<1>2. ASSUME RecordsInv, MovesInv, [RecordsNext]_recordVars PROVE MovesInv'
  <2>1. ASSUME NEW i \in DOMAIN puts, WriteApplication(i) PROVE MovesInv'
    BY <1>2, <2>1, RecordsAssumption, WriteLeads
  <2>2. ASSUME NEW stage \in Stage, AgentMoves(stage) PROVE MovesInv'
    BY <1>2, <2>2, AgentMoveLeads
  <2>3. ASSUME \/ SendPatch \/ Reload \/ UNCHANGED recordVars \/ Advance \/ EditNotes
               \/ \E stage \in Stage : SetStage(stage)
               \/ ToggleSaved \/ \E i \in DOMAIN marks : ApplyMark(i) \/ MarkFails(i)
               \/ \E i \in DOMAIN puts : ReadStage(i) \/ Adopt(i) \/ PutFails(i)
        PROVE  MovesInv'
    <3>1. UNCHANGED <<application, moves, createdTwice>>
      <4>1. ASSUME Advance \/ EditNotes \/ \E stage \in Stage : SetStage(stage)
            PROVE  UNCHANGED <<application, moves, createdTwice>>
        BY <4>1 DEF Advance, EditNotes, SetStage, Change
      <4>2. ASSUME ToggleSaved \/ \E i \in DOMAIN marks : ApplyMark(i) \/ MarkFails(i)
            PROVE  UNCHANGED <<application, moves, createdTwice>>
        BY <4>2 DEF ToggleSaved, ApplyMark, MarkFails
      <4>3. ASSUME \E i \in DOMAIN puts : ReadStage(i) \/ Adopt(i) \/ PutFails(i)
            PROVE  UNCHANGED <<application, moves, createdTwice>>
        BY <4>3 DEF ReadStage, Adopt, PutFails
      <4>4. ASSUME SendPatch \/ Reload \/ UNCHANGED recordVars
            PROVE  UNCHANGED <<application, moves, createdTwice>>
        BY <4>4 DEF SendPatch, Reload, recordVars
      <4> QED
        BY <2>3, <4>1, <4>2, <4>3, <4>4
    <3>2. \/ SendPatch \/ Reload \/ UNCHANGED puts
          \/ \E i \in DOMAIN puts : ReadStage(i) \/ Adopt(i) \/ PutFails(i)
      BY <2>3 DEF recordVars, Advance, EditNotes, SetStage, Change, ToggleSaved, ApplyMark, MarkFails
    <3> QED
      BY <1>2, <3>1, <3>2, PutLeads
  <2> QED
    BY <1>2, <2>1, <2>2, <2>3 DEF RecordsNext, RecordsProgress
<1>3. MovesInv => MovesLead
  BY DEF MovesInv, MovesLead
<1> QED
  BY <1>1, <1>2, <1>3, RecordsKept, PTL DEF RecordsSpec
-----------------------------------------------------------------------------
(***************************************************************************)
(* The workspace.  The protocol rests on the lock (LockHeld): a            *)
(* transaction that expects a revision holds the row, so that revision is  *)
(* current when it commits.  That alone makes the row a versioned          *)
(* document.  That a save loses no saved edit needs more: a tab that knows *)
(* the current revision shows (ShowsSaved) and sends (Carries) every edit  *)
(* the server holds, and what an open transaction deleted is still all     *)
(* there is (Covered).  All three fail once two first saves have raced.    *)
(* The saves a tab has queued grow, as its copy does, until the copy is    *)
(* replaced while they wait: a tab of which that is so is outdated, and    *)
(* nothing is said of it.                                                  *)
(***************************************************************************)
Sending(t) == put[t] # "none"

\* What tabs know is never newer than the row, a save is sent with the
\* revision its tab knows, and a tab that is not open has nothing to send.
Known ==
  \A t \in Tab :
    /\ knownRevision[t] <= revision /\ expected[t] <= revision /\ fetched[t] <= revision
    /\ Sending(t) => expected[t] = knownRevision[t]
    /\ page[t] # "open" => queue[t] = <<>> /\ ~timer[t] /\ knownRevision[t] = 0

\* What was answered as saved is there while its revision is current.
Stored ==
  \A t \in Tab :
    put[t] = "saved" /\ fetched[t] = revision => Head(queue[t]) \cap Edit \subseteq tables

ProtocolInv == WorkspaceTypeOK /\ LockHeld /\ Known /\ Stored /\ SavedMeansStored

\* A queue of snapshots of a copy that grows.
Growing(list, copy) ==
  \A i \in DOMAIN list : list[i] \subseteq copy /\ \A j \in i .. Len(list) : list[i] \subseteq list[j]

\* At the current revision, and unless first saves raced: what a tab shows,
\* what it sends, and what it was answered hold every edit of the tables.
AtCurrent(t) == ~raced /\ ~outdated[t] /\ revision > 0 /\ knownRevision[t] = revision
ShowsSaved == \A t \in Tab : AtCurrent(t) /\ page[t] = "open" => tables \cap Edit \subseteq doc[t]
Carries ==
  \A t \in Tab :
    /\ ~outdated[t] => Growing(queue[t], doc[t])
    /\ queue[t] # <<>> /\ AtCurrent(t) => tables \cap Edit \subseteq Head(queue[t])
Answers ==
  \A t \in Tab : put[t] = "saved" /\ fetched[t] = revision /\ ~raced =>
    tables \cap Edit \subseteq Head(queue[t])
\* What an open transaction deleted: every edit there is, or none.
Covered ==
  \A t \in Tab : put[t] = "locked" =>
    IF expected[t] > 0 THEN tables \cap Edit \subseteq replaced[t] ELSE replaced[t] \cap Edit = {}
FirstSave == revision = 0 => tables \cap Edit = {}

SaveInv == ProtocolInv /\ ShowsSaved /\ Carries /\ Answers /\ Covered /\ FirstSave
-----------------------------------------------------------------------------
\* Queues.

\* The save at the head of a queue is a snapshot; taking it off, and adding
\* one at the end, leaves a queue of snapshots.
LEMMA QueueFacts ==
  ASSUME NEW q \in Seq(Content), NEW c \in Content
  PROVE  /\ Append(q, c) \in Seq(Content) /\ Append(q, c) # <<>>
         /\ q # <<>> => /\ Head(q) \in Content /\ Tail(q) \in Seq(Content)
                       /\ Head(Append(q, c)) = Head(q)
         /\ q = <<>> => Head(Append(q, c)) = c /\ Tail(Append(q, c)) = <<>>
         /\ Len(q) \in Nat /\ (q = <<>> <=> Len(q) = 0)
  BY HeadTailProperties, AppendProperties, HeadTailAppend, LenProperties, EmptySeq

\* Queues of snapshots of a copy that grows: the next one is sent, the copy is
\* queued, the copy grows.
LEMMA GrowingQueues ==
  ASSUME NEW q \in Seq(Content), NEW copy \in Content, Growing(q, copy)
  PROVE  /\ Growing(Append(q, copy), copy)
         /\ q # <<>> => Growing(Tail(q), copy) /\ Head(q) \subseteq copy
         /\ q # <<>> /\ Tail(q) # <<>> => Head(q) \subseteq Head(Tail(q))
         /\ \A more : copy \subseteq more => Growing(q, more)
<1>1. Len(q) \in Nat /\ DOMAIN q = 1 .. Len(q)
  BY LenProperties
<1>2. Growing(Append(q, copy), copy)
  <2> DEFINE longer == Append(q, copy)
  <2>1. /\ DOMAIN longer = 1 .. Len(q) + 1 /\ Len(longer) = Len(q) + 1
        /\ \A i \in 1 .. Len(q) : longer[i] = q[i]
        /\ longer[Len(q) + 1] = copy
    BY <1>1, AppendProperties, LenProperties
  <2> HIDE DEF longer
  <2>2. \A i \in DOMAIN longer : longer[i] \subseteq copy
    BY <1>1, <2>1 DEF Growing
  <2>3. ASSUME NEW i \in DOMAIN longer, NEW j \in i .. Len(longer)
        PROVE  longer[i] \subseteq longer[j]
    BY <1>1, <2>1, <2>2 DEF Growing
  <2> QED BY <2>2, <2>3 DEF Growing, longer
<1>3. ASSUME q # <<>>
      PROVE  /\ Growing(Tail(q), copy) /\ Head(q) \subseteq copy
             /\ Tail(q) # <<>> => Head(q) \subseteq Head(Tail(q))
  <2> DEFINE rest == Tail(q)
  <2>1. /\ rest \in Seq(Content) /\ Len(rest) = Len(q) - 1 /\ Head(q) = q[1] /\ Len(q) >= 1
        /\ \A i \in 1 .. Len(rest) : rest[i] = q[i + 1]
    BY <1>1, <1>3, HeadTailProperties, EmptySeq
  <2>2. DOMAIN rest = 1 .. Len(rest) /\ Len(rest) \in Nat
    BY <2>1, LenProperties
  <2>3. rest # <<>> => Head(rest) = rest[1] /\ Len(rest) >= 1
    BY <2>1, <2>2, HeadTailProperties, EmptySeq
  <2> HIDE DEF rest
  <2>4. ASSUME NEW i \in DOMAIN rest
        PROVE  rest[i] \subseteq copy /\ \A j \in i .. Len(rest) : rest[i] \subseteq rest[j]
    <3>1. i + 1 \in DOMAIN q /\ rest[i] = q[i + 1]
      BY <1>1, <2>1, <2>2
    <3>2. ASSUME NEW j \in i .. Len(rest) PROVE rest[i] \subseteq rest[j]
      <4>1. j + 1 \in (i + 1) .. Len(q) /\ rest[j] = q[j + 1]
        BY <1>1, <2>1, <2>2
      <4> QED BY <3>1, <4>1 DEF Growing
    <3> QED BY <3>1, <3>2 DEF Growing
  <2>5. rest # <<>> => q[1] \subseteq q[2] /\ rest[1] = q[2]
    <3> SUFFICES ASSUME rest # <<>> PROVE q[1] \subseteq q[2] /\ rest[1] = q[2]
      OBVIOUS
    <3>1. 1 \in DOMAIN q /\ 2 \in 1 .. Len(q) /\ 1 \in 1 .. Len(rest)
      BY <1>1, <2>1, <2>2, <2>3
    <3> QED BY <2>1, <3>1 DEF Growing
  <2>6. q[1] \subseteq copy
    BY <1>1, <2>1 DEF Growing
  <2> QED BY <2>1, <2>3, <2>4, <2>5, <2>6 DEF Growing, rest
<1>4. \A more : copy \subseteq more => Growing(q, more)
  BY DEF Growing
<1> QED BY <1>2, <1>3, <1>4
-----------------------------------------------------------------------------
\* Type correctness.

LEMMA WorkspaceTypeInit == WorkspaceInit => WorkspaceTypeOK
<1> SUFFICES ASSUME WorkspaceInit PROVE WorkspaceTypeOK
  OBVIOUS
<1>1. <<>> \in Seq(Content) /\ {} \in Content
  BY EmptySeq DEF Content
<1>2. revision \in 0 .. MaxRevision /\ made \in 0 .. MaxEdits
  BY WorkspaceAssumption DEF WorkspaceInit
<1>3. /\ doc \in [Tab -> Content] /\ persisted \in [Tab -> Content] /\ stored \in Content
      /\ queue \in [Tab -> Seq(Content)] /\ replaced \in [Tab -> Content] /\ tables \in Content
  BY <1>1 DEF WorkspaceInit
<1>4. /\ page \in [Tab -> {"closed", "loading", "hydrating", "open"}]
      /\ put \in [Tab -> Phase] /\ \A t \in Tab : put[t] = "none"
  BY DEF WorkspaceInit, Phase
<1>5. timer \in [Tab -> BOOLEAN] /\ {told, silent, outdated} \subseteq [Tab -> BOOLEAN] /\ raced \in BOOLEAN
  BY DEF WorkspaceInit
<1>6. /\ knownRevision \in [Tab -> Nat] /\ expected \in [Tab -> Nat] /\ fetched \in [Tab -> Nat]
      /\ known \in Nat /\ rowLock \in Tab \cup {Nothing} /\ opens \in Nat /\ lost \in Nat
  BY DEF WorkspaceInit
<1> QED
  BY <1>2, <1>3, <1>4, <1>5, <1>6 DEF WorkspaceTypeOK

LEMMA WorkspaceTypeNext ==
  WorkspaceTypeOK /\ [WorkspaceNext]_workspaceVars => WorkspaceTypeOK'
<1> SUFFICES ASSUME WorkspaceTypeOK, [WorkspaceNext]_workspaceVars
             PROVE  WorkspaceTypeOK'
  OBVIOUS
<1> USE WorkspaceAssumption DEF WorkspaceTypeOK, tabVars, serverVars
<1>1. /\ \A t \in Tab : doc[t] \in Content /\ queue[t] \in Seq(Content)
      /\ revision \in Nat /\ opens + 1 \in Nat /\ lost + 1 \in Nat
  OBVIOUS
<1>2. ASSUME NEW t \in Tab, Open(t) PROVE WorkspaceTypeOK'
  BY <1>1, <1>2 DEF Open, Phase
<1>3. ASSUME NEW t \in Tab, LoadRow(t) PROVE WorkspaceTypeOK'
  BY <1>1, <1>3 DEF LoadRow, Phase
<1>4. ASSUME NEW t \in Tab, LoadTables(t) PROVE WorkspaceTypeOK'
  <2>1. CASE Adopts(t, tables)
    BY <1>1, <1>4, <2>1 DEF LoadTables, Adopts, Phase
  <2>2. CASE Adopts(t, doc[t])
    BY <1>1, <1>4, <2>2 DEF LoadTables, Adopts, Phase
  <2> QED BY <1>4, <2>1, <2>2 DEF LoadTables
<1>5. ASSUME NEW t \in Tab, LoadFails(t) PROVE WorkspaceTypeOK'
  BY <1>1, <1>5 DEF LoadFails, Adopts, Phase
<1>6. ASSUME NEW t \in Tab, Close(t) PROVE WorkspaceTypeOK'
  <2>1. /\ page' \in [Tab -> {"closed", "loading", "hydrating", "open"}] /\ put' \in [Tab -> Phase]
        /\ timer' \in [Tab -> BOOLEAN] /\ {told', silent', outdated'} \subseteq [Tab -> BOOLEAN]
    BY <1>6 DEF Close, Phase
  <2>2. /\ doc' \in [Tab -> Content] /\ persisted' \in [Tab -> Content]
        /\ queue' \in [Tab -> Seq(Content)] /\ knownRevision' \in [Tab -> Nat]
        /\ \A q \in Tab : put'[q] # "none" => queue'[q] # <<>>
    BY <1>6, EmptySeq DEF Close, Content
  <2> QED BY <1>6, <2>1, <2>2 DEF Close
<1>7. ASSUME NEW t \in Tab, MakeEdit(t) PROVE WorkspaceTypeOK'
  <2>1. made' \in Edit
    BY <1>7 DEF MakeEdit, Edit
  <2>2. doc[t] \cup {made'} \in Content
    BY <1>1, <2>1 DEF Content
  <2>3. made' \in 0 .. MaxEdits
    BY <1>7 DEF MakeEdit
  <2> QED BY <1>1, <1>7, <2>2, <2>3 DEF MakeEdit
<1>8. ASSUME NEW t \in Tab, TimerFires(t) PROVE WorkspaceTypeOK'
  <2>1. queue' \in [Tab -> Seq(Content)] /\ \A q \in Tab : put'[q] # "none" => queue'[q] # <<>>
    BY <1>1, <1>8, QueueFacts DEF TimerFires, Phase
  <2>2. tables' \in Content
    BY <1>1, <1>8, QueueFacts DEF TimerFires, Content
  <2> QED BY <1>1, <1>8, <2>1, <2>2, QueueFacts DEF TimerFires, Phase
<1>9. ASSUME NEW t \in Tab, Send(t) PROVE WorkspaceTypeOK'
  BY <1>1, <1>9 DEF Send, Phase
<1>10. ASSUME NEW t \in Tab, BeginSave(t) PROVE WorkspaceTypeOK'
  <2>1. UNCHANGED <<page, doc, persisted, knownRevision, timer, queue, expected, fetched,
                    told, silent, outdated, stored, opens, revision, known, raced, tables, made, lost>>
    BY <1>10 DEF BeginSave
  <2>2. CASE Stale(t)
    <3>1. put' = [put EXCEPT ![t] = "conflict"] /\ UNCHANGED <<replaced, rowLock>>
      BY <1>10, <2>2 DEF BeginSave
    <3>2. put' \in [Tab -> Phase] /\ put[t] = "sent"
      BY <3>1, <1>10 DEF BeginSave, Phase
    <3> QED BY <2>1, <3>1, <3>2
  <2>3. CASE ~Stale(t)
    <3>1. /\ put' = [put EXCEPT ![t] = "locked"] /\ replaced' = [replaced EXCEPT ![t] = tables]
          /\ rowLock' \in {t, rowLock}
      BY <1>10, <2>3 DEF BeginSave
    <3>2. put' \in [Tab -> Phase] /\ put[t] = "sent"
      BY <3>1, <1>10 DEF BeginSave, Phase
    <3>3. replaced' \in [Tab -> Content]
      BY <3>1
    <3> QED BY <2>1, <3>1, <3>2, <3>3
  <2> QED BY <2>2, <2>3
<1>11. ASSUME NEW t \in Tab, CommitSave(t) PROVE WorkspaceTypeOK'
  <2>1. queue' \in [Tab -> Seq(Content)] /\ \A q \in Tab : put'[q] # "none" => queue'[q] # <<>>
    BY <1>1, <1>11, QueueFacts DEF CommitSave, Unlocked, Phase
  <2>2. tables' \in Content
    BY <1>1, <1>11, QueueFacts DEF CommitSave, Unlocked, Content
  <2>3. /\ put' \in [Tab -> Phase] /\ fetched' \in [Tab -> Nat]
        /\ revision' \in 0 .. MaxRevision /\ known' \in Nat /\ raced' \in BOOLEAN
    BY <1>1, <1>11 DEF CommitSave, Phase
  <2>4. rowLock' \in Tab \cup {Nothing}
    BY <1>11 DEF CommitSave, Unlocked
  <2>5. UNCHANGED <<page, doc, persisted, knownRevision, timer, expected, replaced, told, silent, outdated,
                    stored, opens, made, lost>>
    BY <1>11 DEF CommitSave
  <2> QED BY <2>1, <2>2, <2>3, <2>4, <2>5
<1>12. ASSUME NEW t \in Tab, Saved(t) PROVE WorkspaceTypeOK'
  <2>1. queue' \in [Tab -> Seq(Content)] /\ \A q \in Tab : put'[q] # "none" => queue'[q] # <<>>
    BY <1>1, <1>12, QueueFacts DEF Saved, Answered, Phase
  <2>2. tables' \in Content
    BY <1>1, <1>12, QueueFacts DEF Saved, Answered, Content
  <2> QED BY <1>1, <1>12, <2>1, <2>2, QueueFacts DEF Saved, Answered, Phase
<1>13. ASSUME NEW t \in Tab, Refetch(t) PROVE WorkspaceTypeOK'
  BY <1>1, <1>13 DEF Refetch, Phase
<1>14. ASSUME NEW t \in Tab, Restore(t) PROVE WorkspaceTypeOK'
  <2>1. queue' \in [Tab -> Seq(Content)] /\ \A q \in Tab : put'[q] # "none" => queue'[q] # <<>>
    BY <1>1, <1>14, QueueFacts DEF Restore, Adopts, Answered, Phase
  <2>2. tables' \in Content
    BY <1>1, <1>14, QueueFacts DEF Restore, Adopts, Answered, Content
  <2>3. /\ put' \in [Tab -> Phase] /\ knownRevision' \in [Tab -> Nat] /\ timer' \in [Tab -> BOOLEAN]
        /\ {told', silent', outdated'} \subseteq [Tab -> BOOLEAN]
    <3>1. {told', silent', outdated'} \subseteq [Tab -> BOOLEAN]
      BY <1>14 DEF Restore
    <3> QED BY <1>14, <3>1 DEF Restore, Adopts, Answered, Phase
  <2>4. doc' \in [Tab -> Content] /\ persisted' \in [Tab -> Content] /\ stored' \in Content
    BY <1>14 DEF Restore, Adopts
  <2>5. UNCHANGED <<page, expected, replaced, fetched, opens, serverVars, made, lost>>
    BY <1>14 DEF Restore
  <2> QED BY <2>1, <2>2, <2>3, <2>4, <2>5
<1>15. ASSUME NEW t \in Tab, SaveFails(t) PROVE WorkspaceTypeOK'
  <2>1. queue' \in [Tab -> Seq(Content)] /\ \A q \in Tab : put'[q] # "none" => queue'[q] # <<>>
    BY <1>1, <1>15, QueueFacts DEF SaveFails, Refused, Lost, Answered, Unlocked, Phase
  <2>2. tables' \in Content
    BY <1>1, <1>15, QueueFacts DEF SaveFails, Refused, Lost, Answered, Unlocked, Content
  <2>3. put' \in [Tab -> Phase] /\ {told', silent', outdated'} \subseteq [Tab -> BOOLEAN]
    BY <1>15 DEF SaveFails, Answered, Phase
  <2>4. rowLock' \in Tab \cup {Nothing} /\ lost' \in Nat
    BY <1>1, <1>15 DEF SaveFails, Refused, Lost, Unlocked
  <2> QED BY <1>1, <1>15, <2>1, <2>2, <2>3, <2>4 DEF SaveFails
<1>18. ASSUME NEW t \in Tab, LatestRefused(t) PROVE WorkspaceTypeOK'
  <2>1. queue' \in [Tab -> Seq(Content)] /\ \A q \in Tab : put'[q] # "none" => queue'[q] # <<>>
    BY <1>1, <1>18, QueueFacts DEF LatestRefused, Answered, Phase
  <2> QED BY <1>1, <1>18, <2>1 DEF LatestRefused, Answered, Phase
<1>16. ASSUME NEW e \in AgentEdit, AgentWrites(e) PROVE WorkspaceTypeOK'
  <2>1. tables' \in Content
    BY <1>16 DEF AgentWrites, Content
  <2> QED BY <1>16, <2>1 DEF AgentWrites
<1>17. CASE UNCHANGED workspaceVars
  BY <1>17 DEF workspaceVars
<1> QED
  BY <1>2, <1>3, <1>4, <1>5, <1>6, <1>7, <1>8, <1>9, <1>10, <1>11, <1>12, <1>13, <1>14, <1>15, <1>16, <1>17, <1>18
  DEF WorkspaceNext, Progress

\* Every reference, row and request stays within its domain.
THEOREM WorkspaceTyped == WorkspaceSpec => []WorkspaceTypeOK
  BY WorkspaceTypeInit, WorkspaceTypeNext, PTL DEF WorkspaceSpec
-----------------------------------------------------------------------------
\* The protocol.

\* A workspace no tab has open satisfies each part of the invariant.
LEMMA ProtocolInit == WorkspaceInit => LockHeld /\ Known /\ Stored /\ SavedMeansStored
  BY WorkspaceAssumption DEF WorkspaceInit, LockHeld, Known, Stored, SavedMeansStored, Sending

\* Only the holder of the row may commit a save that expects a revision.
LEMMA LockHeldNext ==
  WorkspaceTypeOK /\ LockHeld /\ Known /\ [WorkspaceNext]_workspaceVars => LockHeld'
<1> SUFFICES ASSUME WorkspaceTypeOK /\ LockHeld /\ Known, [WorkspaceNext]_workspaceVars
             PROVE  LockHeld'
  OBVIOUS
<1> USE WorkspaceAssumption DEF tabVars, serverVars, Sending
<1>1. /\ revision \in Nat /\ revision + 1 \in Nat /\ revision + 1 > revision
      /\ knownRevision \in [Tab -> Nat] /\ expected \in [Tab -> Nat] /\ fetched \in [Tab -> Nat]
      /\ put \in [Tab -> Phase] /\ page \in [Tab -> {"closed", "loading", "hydrating", "open"}]
      /\ timer \in [Tab -> BOOLEAN] /\ queue \in [Tab -> Seq(Content)]
      /\ \A t \in Tab : put[t] # "none" => queue[t] # <<>>
  BY DEF WorkspaceTypeOK
<1>2. ASSUME NEW t \in Tab, Open(t) PROVE LockHeld'
  BY <1>1, <1>2 DEF Open, LockHeld, Known
<1>3. ASSUME NEW t \in Tab, LoadRow(t) PROVE LockHeld'
  BY <1>1, <1>3 DEF LoadRow, LockHeld, Known
<1>4. ASSUME NEW t \in Tab, LoadTables(t) PROVE LockHeld'
  BY <1>1, <1>4 DEF LoadTables, Adopts, LockHeld, Known
<1>5. ASSUME NEW t \in Tab, LoadFails(t) PROVE LockHeld'
  BY <1>1, <1>5 DEF LoadFails, Adopts, LockHeld, Known
<1>6. ASSUME NEW t \in Tab, Close(t) PROVE LockHeld'
  BY <1>1, <1>6 DEF Close, LockHeld, Known
<1>7. ASSUME NEW t \in Tab, MakeEdit(t) PROVE LockHeld'
  BY <1>1, <1>7 DEF MakeEdit, LockHeld, Known
<1>8. ASSUME NEW t \in Tab, TimerFires(t) PROVE LockHeld'
  BY <1>1, <1>8 DEF TimerFires, LockHeld, Known
<1>9. ASSUME NEW t \in Tab, Send(t) PROVE LockHeld'
  BY <1>1, <1>9 DEF Send, LockHeld, Known
<1>10. ASSUME NEW t \in Tab, BeginSave(t) PROVE LockHeld'
  BY <1>1, <1>10 DEF BeginSave, Stale, LockHeld, Known
<1>11. ASSUME NEW t \in Tab, CommitSave(t) PROVE LockHeld'
  BY <1>1, <1>11 DEF CommitSave, Unlocked, LockHeld, Known
<1>12. ASSUME NEW t \in Tab, Saved(t) PROVE LockHeld'
  BY <1>1, <1>12 DEF Saved, Answered, LockHeld, Known
<1>13. ASSUME NEW t \in Tab, Refetch(t) PROVE LockHeld'
  BY <1>1, <1>13 DEF Refetch, LockHeld, Known
<1>14. ASSUME NEW t \in Tab, Restore(t) PROVE LockHeld'
  BY <1>1, <1>14 DEF Restore, Answered, Adopts, LockHeld, Known
<1>15. ASSUME NEW t \in Tab, SaveFails(t) PROVE LockHeld'
  BY <1>1, <1>15 DEF SaveFails, Answered, Unlocked, Refused, Lost, LockHeld, Known
<1>18. ASSUME NEW t \in Tab, LatestRefused(t) PROVE LockHeld'
  BY <1>1, <1>18 DEF LatestRefused, Answered, LockHeld, Known
<1>16. ASSUME NEW e \in AgentEdit, AgentWrites(e) PROVE LockHeld'
  BY <1>1, <1>16 DEF AgentWrites, LockHeld, Known
<1>17. CASE UNCHANGED workspaceVars
  BY <1>1, <1>17 DEF workspaceVars, LockHeld, Known
<1> QED
  BY <1>2, <1>3, <1>4, <1>5, <1>6, <1>7, <1>8, <1>9, <1>10, <1>11, <1>12, <1>13, <1>14, <1>15, <1>16, <1>17, <1>18
  DEF WorkspaceNext, Progress

\* Revisions only grow, and tabs learn them from the row.
LEMMA KnownNext ==
  WorkspaceTypeOK /\ Known /\ [WorkspaceNext]_workspaceVars => Known'
<1> SUFFICES ASSUME WorkspaceTypeOK /\ Known, [WorkspaceNext]_workspaceVars
             PROVE  Known'
  OBVIOUS
<1> USE WorkspaceAssumption DEF tabVars, serverVars, Sending
<1>1. /\ revision \in Nat /\ revision + 1 \in Nat /\ revision + 1 > revision
      /\ knownRevision \in [Tab -> Nat] /\ expected \in [Tab -> Nat] /\ fetched \in [Tab -> Nat]
      /\ put \in [Tab -> Phase] /\ page \in [Tab -> {"closed", "loading", "hydrating", "open"}]
      /\ timer \in [Tab -> BOOLEAN] /\ queue \in [Tab -> Seq(Content)]
      /\ \A t \in Tab : put[t] # "none" => queue[t] # <<>>
  BY DEF WorkspaceTypeOK
<1>2. ASSUME NEW t \in Tab, Open(t) PROVE Known'
  BY <1>1, <1>2, QueueFacts DEF Open, Known, Phase
<1>3. ASSUME NEW t \in Tab, LoadRow(t) PROVE Known'
  BY <1>1, <1>3, QueueFacts DEF LoadRow, Known, Phase
<1>4. ASSUME NEW t \in Tab, LoadTables(t) PROVE Known'
  BY <1>1, <1>4, QueueFacts DEF LoadTables, Adopts, Known, Phase
<1>5. ASSUME NEW t \in Tab, LoadFails(t) PROVE Known'
  BY <1>1, <1>5, QueueFacts DEF LoadFails, Adopts, Known, Phase
<1>6. ASSUME NEW t \in Tab, Close(t) PROVE Known'
  BY <1>1, <1>6, QueueFacts DEF Close, Known, Phase
<1>7. ASSUME NEW t \in Tab, MakeEdit(t) PROVE Known'
  BY <1>1, <1>7, QueueFacts DEF MakeEdit, Known, Phase
<1>8. ASSUME NEW t \in Tab, TimerFires(t) PROVE Known'
  BY <1>1, <1>8, QueueFacts DEF TimerFires, Known, Phase
<1>9. ASSUME NEW t \in Tab, Send(t) PROVE Known'
  BY <1>1, <1>9, QueueFacts DEF Send, Known, Phase
<1>10. ASSUME NEW t \in Tab, BeginSave(t) PROVE Known'
  BY <1>1, <1>10, QueueFacts DEF BeginSave, Stale, Known, Phase
<1>11. ASSUME NEW t \in Tab, CommitSave(t) PROVE Known'
  <2>1. /\ UNCHANGED <<page, knownRevision, timer, queue, expected>> /\ revision' = revision + 1
        /\ fetched' = [fetched EXCEPT ![t] = revision'] /\ put' = [put EXCEPT ![t] = "saved"]
    BY <1>11 DEF CommitSave
  <2>2. ASSUME NEW q \in Tab
        PROVE  /\ fetched'[q] <= revision' /\ knownRevision'[q] <= revision'
               /\ expected'[q] <= revision'
    <3>1. /\ fetched[q] \in Nat /\ knownRevision[q] \in Nat /\ expected[q] \in Nat
          /\ fetched[q] <= revision /\ knownRevision[q] <= revision /\ expected[q] <= revision
      BY <1>1 DEF Known
    <3>2. knownRevision'[q] = knownRevision[q] /\ expected'[q] = expected[q]
          /\ fetched'[q] \in {fetched[q], revision'}
      BY <1>1, <2>1
    <3>3. revision \in Nat /\ revision' = revision + 1
      BY <1>1, <2>1
    <3>4. \A n \in Nat : n <= revision => n <= revision'
      BY <3>3
    <3>5. revision' <= revision'
      BY <3>3
    <3>6. fetched[q] <= revision' /\ knownRevision[q] <= revision' /\ expected[q] <= revision'
      BY <3>1, <3>4
    <3> QED BY <3>2, <3>5, <3>6
  <2>3. \A q \in Tab : Sending(q)' => Sending(q)
    BY <1>1, <2>1, <1>11 DEF CommitSave
  <2> QED BY <2>1, <2>2, <2>3 DEF Known
<1>12. ASSUME NEW t \in Tab, Saved(t) PROVE Known'
  BY <1>1, <1>12, QueueFacts DEF Saved, Answered, Known, Phase
<1>13. ASSUME NEW t \in Tab, Refetch(t) PROVE Known'
  BY <1>1, <1>13, QueueFacts DEF Refetch, Known, Phase
<1>14. ASSUME NEW t \in Tab, Restore(t) PROVE Known'
  BY <1>1, <1>14, QueueFacts DEF Restore, Answered, Adopts, Known, Phase
<1>15. ASSUME NEW t \in Tab, SaveFails(t) PROVE Known'
  BY <1>1, <1>15, QueueFacts DEF SaveFails, Answered, Unlocked, Refused, Lost, Known, Phase
<1>18. ASSUME NEW t \in Tab, LatestRefused(t) PROVE Known'
  BY <1>1, <1>18, QueueFacts DEF LatestRefused, Answered, Known, Phase
<1>16. ASSUME NEW e \in AgentEdit, AgentWrites(e) PROVE Known'
  BY <1>1, <1>16, QueueFacts DEF AgentWrites, Known, Phase
<1>17. CASE UNCHANGED workspaceVars
  BY <1>1, <1>17 DEF workspaceVars, Known, Phase
<1> QED
  BY <1>2, <1>3, <1>4, <1>5, <1>6, <1>7, <1>8, <1>9, <1>10, <1>11, <1>12, <1>13, <1>14, <1>15, <1>16, <1>17, <1>18
  DEF WorkspaceNext, Progress

\* A save answered at the current revision was the last to replace the tables.
LEMMA StoredNext ==
  WorkspaceTypeOK /\ Known /\ Stored /\ [WorkspaceNext]_workspaceVars => Stored'
<1> SUFFICES ASSUME WorkspaceTypeOK /\ Known /\ Stored, [WorkspaceNext]_workspaceVars
             PROVE  Stored'
  OBVIOUS
<1> USE WorkspaceAssumption DEF tabVars, serverVars, Sending
<1>1. /\ revision \in Nat /\ revision + 1 \in Nat /\ revision + 1 > revision
      /\ knownRevision \in [Tab -> Nat] /\ expected \in [Tab -> Nat] /\ fetched \in [Tab -> Nat]
      /\ put \in [Tab -> Phase] /\ page \in [Tab -> {"closed", "loading", "hydrating", "open"}]
      /\ timer \in [Tab -> BOOLEAN] /\ queue \in [Tab -> Seq(Content)]
      /\ \A t \in Tab : put[t] # "none" => queue[t] # <<>>
  BY DEF WorkspaceTypeOK
<1>2. ASSUME NEW t \in Tab, Open(t) PROVE Stored'
  BY <1>1, <1>2, QueueFacts DEF Open, Known, Stored
<1>3. ASSUME NEW t \in Tab, LoadRow(t) PROVE Stored'
  BY <1>1, <1>3, QueueFacts DEF LoadRow, Known, Stored
<1>4. ASSUME NEW t \in Tab, LoadTables(t) PROVE Stored'
  BY <1>1, <1>4, QueueFacts DEF LoadTables, Adopts, Known, Stored
<1>5. ASSUME NEW t \in Tab, LoadFails(t) PROVE Stored'
  BY <1>1, <1>5, QueueFacts DEF LoadFails, Adopts, Known, Stored
<1>6. ASSUME NEW t \in Tab, Close(t) PROVE Stored'
  BY <1>1, <1>6, QueueFacts DEF Close, Known, Stored
<1>7. ASSUME NEW t \in Tab, MakeEdit(t) PROVE Stored'
  BY <1>1, <1>7, QueueFacts DEF MakeEdit, Known, Stored
<1>8. ASSUME NEW t \in Tab, TimerFires(t) PROVE Stored'
  BY <1>1, <1>8, QueueFacts DEF TimerFires, Known, Stored
<1>9. ASSUME NEW t \in Tab, Send(t) PROVE Stored'
  BY <1>1, <1>9, QueueFacts DEF Send, Known, Stored
<1>10. ASSUME NEW t \in Tab, BeginSave(t) PROVE Stored'
  <2>1. /\ UNCHANGED <<queue, fetched, revision, tables>>
        /\ \E p \in {"conflict", "locked"} : put' = [put EXCEPT ![t] = p]
    BY <1>10 DEF BeginSave
  <2>2. \A q \in Tab : put'[q] = "saved" => put[q] = "saved"
    BY <1>1, <2>1
  <2> QED BY <2>1, <2>2 DEF Stored
<1>11. ASSUME NEW t \in Tab, CommitSave(t) PROVE Stored'
  <2>1. /\ queue' = queue /\ revision' = revision + 1
        /\ fetched' = [fetched EXCEPT ![t] = revision']
        /\ tables' = (tables \ replaced[t]) \cup Head(queue[t])
    BY <1>11 DEF CommitSave
  <2>2. \A q \in Tab \ {t} : fetched'[q] # revision'
    BY <1>1, <2>1 DEF Known
  <2>3. Head(queue'[t]) \subseteq tables'
    BY <2>1
  <2> QED BY <2>2, <2>3 DEF Stored
<1>12. ASSUME NEW t \in Tab, Saved(t) PROVE Stored'
  BY <1>1, <1>12, QueueFacts DEF Saved, Answered, Known, Stored
<1>13. ASSUME NEW t \in Tab, Refetch(t) PROVE Stored'
  BY <1>1, <1>13, QueueFacts DEF Refetch, Known, Stored
<1>14. ASSUME NEW t \in Tab, Restore(t) PROVE Stored'
  BY <1>1, <1>14, QueueFacts DEF Restore, Answered, Adopts, Known, Stored
<1>15. ASSUME NEW t \in Tab, SaveFails(t) PROVE Stored'
  BY <1>1, <1>15, QueueFacts DEF SaveFails, Answered, Unlocked, Refused, Lost, Known, Stored
<1>18. ASSUME NEW t \in Tab, LatestRefused(t) PROVE Stored'
  BY <1>1, <1>18, QueueFacts DEF LatestRefused, Answered, Known, Stored
<1>16. ASSUME NEW e \in AgentEdit, AgentWrites(e) PROVE Stored'
  BY <1>1, <1>16, QueueFacts DEF AgentWrites, Known, Stored
<1>17. CASE UNCHANGED workspaceVars
  BY <1>1, <1>17 DEF workspaceVars, Known, Stored
<1> QED
  BY <1>2, <1>3, <1>4, <1>5, <1>6, <1>7, <1>8, <1>9, <1>10, <1>11, <1>12, <1>13, <1>14, <1>15, <1>16, <1>17, <1>18
  DEF WorkspaceNext, Progress

\* So what such a tab takes for saved is there.
LEMMA SavedMeansStoredNext ==
  WorkspaceTypeOK /\ Known /\ Stored /\ SavedMeansStored /\ [WorkspaceNext]_workspaceVars => SavedMeansStored'
<1> SUFFICES ASSUME WorkspaceTypeOK /\ Known /\ Stored /\ SavedMeansStored, [WorkspaceNext]_workspaceVars
             PROVE  SavedMeansStored'
  OBVIOUS
<1> USE WorkspaceAssumption DEF tabVars, serverVars, Sending
<1>1. /\ revision \in Nat /\ revision + 1 \in Nat /\ revision + 1 > revision
      /\ knownRevision \in [Tab -> Nat] /\ expected \in [Tab -> Nat] /\ fetched \in [Tab -> Nat]
      /\ put \in [Tab -> Phase] /\ page \in [Tab -> {"closed", "loading", "hydrating", "open"}]
      /\ timer \in [Tab -> BOOLEAN] /\ queue \in [Tab -> Seq(Content)]
      /\ \A t \in Tab : put[t] # "none" => queue[t] # <<>>
  BY DEF WorkspaceTypeOK
<1>2. ASSUME NEW t \in Tab, Open(t) PROVE SavedMeansStored'
  BY <1>1, <1>2, QueueFacts DEF Open, Known, Stored, SavedMeansStored
<1>3. ASSUME NEW t \in Tab, LoadRow(t) PROVE SavedMeansStored'
  BY <1>1, <1>3, QueueFacts DEF LoadRow, Known, Stored, SavedMeansStored
<1>4. ASSUME NEW t \in Tab, LoadTables(t) PROVE SavedMeansStored'
  <2>0. persisted \in [Tab -> Content]
    BY DEF WorkspaceTypeOK
  <2>1. knownRevision'[t] = revision /\ revision > 0 => persisted'[t] \cap Edit \subseteq tables
    <3>1. knownRevision'[t] = fetched[t]
      BY <1>1, <1>4 DEF LoadTables, WorkspaceTypeOK
    <3>2. CASE Adopts(t, tables)
      BY <1>1, <1>4, <2>0, <3>2 DEF LoadTables, Adopts
    <3>3. CASE fetched[t] = 0
      BY <3>1, <3>3
    <3> QED BY <1>4, <3>2, <3>3 DEF LoadTables
  <2>2. /\ revision' = revision /\ tables' = tables
        /\ \A q \in Tab \ {t} : persisted'[q] = persisted[q] /\ knownRevision'[q] = knownRevision[q]
    BY <1>1, <1>4, <2>0 DEF LoadTables, Adopts
  <2> QED BY <2>1, <2>2 DEF SavedMeansStored
<1>5. ASSUME NEW t \in Tab, LoadFails(t) PROVE SavedMeansStored'
  <2>1. knownRevision[t] = 0 /\ UNCHANGED <<knownRevision, revision, tables>>
    BY <1>1, <1>5 DEF LoadFails, Known
  <2>0. persisted \in [Tab -> Content]
    BY DEF WorkspaceTypeOK
  <2>2. \A q \in Tab \ {t} : persisted'[q] = persisted[q]
    BY <1>5, <2>0 DEF LoadFails, Adopts
  <2>3. ASSUME NEW q \in Tab, knownRevision'[q] = revision', revision' > 0
        PROVE  (persisted'[q] \cap Edit) \subseteq tables'
    <3>1. knownRevision[q] = revision /\ revision > 0
      BY <2>1, <2>3
    <3>2. q # t
      BY <2>1, <3>1
    <3>3. persisted'[q] = persisted[q]
      BY <2>2, <3>2
    <3>4. (persisted[q] \cap Edit) \subseteq tables
      BY <3>1 DEF SavedMeansStored
    <3> QED BY <2>1, <3>3, <3>4
  <2> QED BY <2>3 DEF SavedMeansStored
<1>6. ASSUME NEW t \in Tab, Close(t) PROVE SavedMeansStored'
  BY <1>1, <1>6, QueueFacts DEF Close, Known, Stored, SavedMeansStored
<1>7. ASSUME NEW t \in Tab, MakeEdit(t) PROVE SavedMeansStored'
  BY <1>1, <1>7, QueueFacts DEF MakeEdit, Known, Stored, SavedMeansStored
<1>8. ASSUME NEW t \in Tab, TimerFires(t) PROVE SavedMeansStored'
  BY <1>1, <1>8, QueueFacts DEF TimerFires, Known, Stored, SavedMeansStored
<1>9. ASSUME NEW t \in Tab, Send(t) PROVE SavedMeansStored'
  BY <1>1, <1>9, QueueFacts DEF Send, Known, Stored, SavedMeansStored
<1>10. ASSUME NEW t \in Tab, BeginSave(t) PROVE SavedMeansStored'
  BY <1>1, <1>10, QueueFacts DEF BeginSave, Stale, Known, Stored, SavedMeansStored
<1>11. ASSUME NEW t \in Tab, CommitSave(t) PROVE SavedMeansStored'
  BY <1>1, <1>11, QueueFacts DEF CommitSave, Unlocked, Known, Stored, SavedMeansStored
<1>12. ASSUME NEW t \in Tab, Saved(t) PROVE SavedMeansStored'
  <2>0. persisted \in [Tab -> Content]
    BY DEF WorkspaceTypeOK
  <2>1. knownRevision'[t] = revision /\ revision > 0 => persisted'[t] \cap Edit \subseteq tables
    BY <1>1, <1>12, <2>0 DEF Saved, Answered, Known, Stored
  <2>2. /\ revision' = revision /\ tables' = tables
        /\ \A q \in Tab \ {t} : persisted'[q] = persisted[q] /\ knownRevision'[q] = knownRevision[q]
    BY <1>1, <1>12, <2>0 DEF Saved
  <2> QED BY <2>1, <2>2 DEF SavedMeansStored
<1>13. ASSUME NEW t \in Tab, Refetch(t) PROVE SavedMeansStored'
  BY <1>1, <1>13, QueueFacts DEF Refetch, Known, Stored, SavedMeansStored
<1>14. ASSUME NEW t \in Tab, Restore(t) PROVE SavedMeansStored'
  <2>0. persisted \in [Tab -> Content]
    BY DEF WorkspaceTypeOK
  <2>1. knownRevision'[t] = revision /\ revision > 0 => persisted'[t] \cap Edit \subseteq tables
    BY <1>1, <1>14, <2>0 DEF Restore, Adopts, Known
  <2>2. /\ revision' = revision /\ tables' = tables
        /\ \A q \in Tab \ {t} : persisted'[q] = persisted[q] /\ knownRevision'[q] = knownRevision[q]
    BY <1>1, <1>14, <2>0 DEF Restore, Adopts
  <2> QED BY <2>1, <2>2 DEF SavedMeansStored
<1>15. ASSUME NEW t \in Tab, SaveFails(t) PROVE SavedMeansStored'
  BY <1>1, <1>15, QueueFacts DEF SaveFails, Answered, Unlocked, Refused, Lost, Known, Stored, SavedMeansStored
<1>18. ASSUME NEW t \in Tab, LatestRefused(t) PROVE SavedMeansStored'
  BY <1>1, <1>18, QueueFacts DEF LatestRefused, Answered, Known, Stored, SavedMeansStored
<1>16. ASSUME NEW e \in AgentEdit, AgentWrites(e) PROVE SavedMeansStored'
  BY <1>1, <1>16, QueueFacts DEF AgentWrites, Known, Stored, SavedMeansStored
<1>17. CASE UNCHANGED workspaceVars
  BY <1>1, <1>17 DEF workspaceVars, Known, Stored, SavedMeansStored
<1> QED
  BY <1>2, <1>3, <1>4, <1>5, <1>6, <1>7, <1>8, <1>9, <1>10, <1>11, <1>12, <1>13, <1>14, <1>15, <1>16, <1>17, <1>18
  DEF WorkspaceNext, Progress

LEMMA ProtocolNext == ProtocolInv /\ [WorkspaceNext]_workspaceVars => ProtocolInv'
  BY WorkspaceTypeNext, LockHeldNext, KnownNext, StoredNext, SavedMeansStoredNext DEF ProtocolInv

LEMMA ProtocolAlways == WorkspaceSpec => []ProtocolInv
<1>1. WorkspaceInit => ProtocolInv
  BY WorkspaceTypeInit, ProtocolInit DEF ProtocolInv
<1> QED
  BY <1>1, ProtocolNext, PTL DEF WorkspaceSpec

\* A tab that knows the current revision takes nothing for saved that the
\* server does not hold, for any tabs and however slow its saves are.
THEOREM SavedIsStored == WorkspaceSpec => []SavedMeansStored
<1>1. ProtocolInv => SavedMeansStored
  BY DEF ProtocolInv
<1> QED
  BY <1>1, ProtocolAlways, PTL

\* Every step of the workspace writes the document with the revision its
\* writer named, or leaves it: a stale writer changes nothing.
LEMMA DocumentStep ==
  ProtocolInv /\ [WorkspaceNext]_workspaceVars => [Document!Next]_<<revision, known>>
<1> SUFFICES ASSUME ProtocolInv, [WorkspaceNext]_workspaceVars
             PROVE  [Document!Next]_<<revision, known>>
  OBVIOUS
<1> USE DEF tabVars, serverVars
<1>1. ASSUME NEW t \in Tab, CommitSave(t) PROVE Document!Next
  <2>1. expected[t] \in Nat /\ revision \in Nat /\ revision < MaxRevision /\ MaxRevision \in Nat
    BY <1>1, WorkspaceAssumption DEF CommitSave, ProtocolInv, WorkspaceTypeOK
  <2>2. expected[t] \in {0, revision}
    BY <1>1, <2>1 DEF CommitSave, ProtocolInv, LockHeld
  <2>3. expected[t] \in 0 .. MaxRevision
    BY <2>1, <2>2
  <2>4. Document!Write(expected[t])
    BY <1>1, <2>2 DEF CommitSave, Document!Write
  <2> QED BY <2>3, <2>4 DEF Document!Next
<1>2. ASSUME NEW t \in Tab, Open(t) \/ Close(t) \/ LoadFails(t) \/ MakeEdit(t)
      PROVE  UNCHANGED <<revision, known>>
  BY <1>2 DEF Open, Close, LoadFails, MakeEdit
<1>3. ASSUME NEW t \in Tab, LoadRow(t) \/ LoadTables(t) \/ TimerFires(t) \/ Send(t) \/ BeginSave(t)
      PROVE  UNCHANGED <<revision, known>>
  BY <1>3 DEF LoadRow, LoadTables, TimerFires, Send, BeginSave
<1>4. ASSUME NEW t \in Tab,
             Saved(t) \/ Refetch(t) \/ Restore(t) \/ LatestRefused(t) \/ SaveFails(t)
      PROVE  UNCHANGED <<revision, known>>
  BY <1>4 DEF Saved, Refetch, Restore, LatestRefused, SaveFails
<1>5. ASSUME NEW e \in AgentEdit, AgentWrites(e) PROVE UNCHANGED <<revision, known>>
  BY <1>5 DEF AgentWrites
<1>6. CASE UNCHANGED workspaceVars
  BY <1>6 DEF workspaceVars
<1> QED
  BY <1>1, <1>2, <1>3, <1>4, <1>5, <1>6 DEF WorkspaceNext, Progress

\* The workspace row implements a versioned document, for any tabs, edits and
\* bounds, two first saves that race included.
THEOREM WorkspaceIsDocument == WorkspaceSpec => ImplementsDocument
<1>1. WorkspaceInit => Document!Init
  BY DEF WorkspaceInit, Document!Init
<1> QED
  BY <1>1, DocumentStep, ProtocolAlways, PTL DEF WorkspaceSpec, ImplementsDocument, Document!Spec
-----------------------------------------------------------------------------
\* The edits.

\* So it does the part about edits: no edit was made yet.
LEMMA SaveInit == WorkspaceInit => ShowsSaved /\ Carries /\ Answers /\ Covered /\ FirstSave
  BY WorkspaceAssumption, EmptySeq
  DEF Growing, WorkspaceInit, ShowsSaved, Carries, Answers, Covered, FirstSave, AtCurrent

\* There is no edit on the server before the first save.
LEMMA FirstSaveNext ==
  SaveInv /\ [WorkspaceNext]_workspaceVars => FirstSave'
<1> SUFFICES ASSUME SaveInv, [WorkspaceNext]_workspaceVars
             PROVE  FirstSave'
  OBVIOUS
<1> USE WorkspaceAssumption DEF tabVars, serverVars, Sending
<1>1. /\ revision \in Nat /\ revision + 1 \in Nat /\ revision + 1 > revision
      /\ knownRevision \in [Tab -> Nat] /\ expected \in [Tab -> Nat] /\ fetched \in [Tab -> Nat]
      /\ put \in [Tab -> Phase] /\ page \in [Tab -> {"closed", "loading", "hydrating", "open"}]
      /\ timer \in [Tab -> BOOLEAN] /\ queue \in [Tab -> Seq(Content)]
      /\ \A t \in Tab : put[t] # "none" => queue[t] # <<>>
  BY DEF SaveInv, ProtocolInv, WorkspaceTypeOK
<1>2. ASSUME NEW t \in Tab, Open(t) PROVE FirstSave'
  BY <1>1, <1>2 DEF Open, SaveInv, FirstSave
<1>3. ASSUME NEW t \in Tab, LoadRow(t) PROVE FirstSave'
  BY <1>1, <1>3 DEF LoadRow, SaveInv, FirstSave
<1>4. ASSUME NEW t \in Tab, LoadTables(t) PROVE FirstSave'
  BY <1>1, <1>4 DEF LoadTables, Adopts, SaveInv, FirstSave
<1>5. ASSUME NEW t \in Tab, LoadFails(t) PROVE FirstSave'
  BY <1>1, <1>5 DEF LoadFails, Adopts, SaveInv, FirstSave
<1>6. ASSUME NEW t \in Tab, Close(t) PROVE FirstSave'
  BY <1>1, <1>6 DEF Close, SaveInv, FirstSave
<1>7. ASSUME NEW t \in Tab, MakeEdit(t) PROVE FirstSave'
  BY <1>1, <1>7 DEF MakeEdit, SaveInv, FirstSave
<1>8. ASSUME NEW t \in Tab, TimerFires(t) PROVE FirstSave'
  BY <1>1, <1>8 DEF TimerFires, SaveInv, FirstSave
<1>9. ASSUME NEW t \in Tab, Send(t) PROVE FirstSave'
  BY <1>1, <1>9 DEF Send, SaveInv, FirstSave
<1>10. ASSUME NEW t \in Tab, BeginSave(t) PROVE FirstSave'
  BY <1>1, <1>10 DEF BeginSave, Stale, SaveInv, FirstSave
<1>11. ASSUME NEW t \in Tab, CommitSave(t) PROVE FirstSave'
  BY <1>1, <1>11 DEF CommitSave, Unlocked, SaveInv, FirstSave
<1>12. ASSUME NEW t \in Tab, Saved(t) PROVE FirstSave'
  BY <1>1, <1>12 DEF Saved, Answered, SaveInv, FirstSave
<1>13. ASSUME NEW t \in Tab, Refetch(t) PROVE FirstSave'
  BY <1>1, <1>13 DEF Refetch, SaveInv, FirstSave
<1>14. ASSUME NEW t \in Tab, Restore(t) PROVE FirstSave'
  BY <1>1, <1>14 DEF Restore, Answered, Adopts, SaveInv, FirstSave
<1>15. ASSUME NEW t \in Tab, SaveFails(t) PROVE FirstSave'
  BY <1>1, <1>15 DEF SaveFails, Answered, Unlocked, Refused, Lost, SaveInv, FirstSave
<1>18. ASSUME NEW t \in Tab, LatestRefused(t) PROVE FirstSave'
  BY <1>1, <1>18 DEF LatestRefused, Answered, SaveInv, FirstSave
<1>16. ASSUME NEW e \in AgentEdit, AgentWrites(e) PROVE FirstSave'
  BY <1>1, <1>16 DEF AgentWrites, SaveInv, FirstSave
<1>17. CASE UNCHANGED workspaceVars
  BY <1>1, <1>17 DEF workspaceVars, SaveInv, FirstSave
<1> QED
  BY <1>2, <1>3, <1>4, <1>5, <1>6, <1>7, <1>8, <1>9, <1>10, <1>11, <1>12, <1>13, <1>14, <1>15, <1>16, <1>17, <1>18
  DEF WorkspaceNext, Progress

\* The lock keeps what a transaction deleted all there is to delete.
LEMMA CoveredNext ==
  SaveInv /\ [WorkspaceNext]_workspaceVars => Covered'
<1> SUFFICES ASSUME SaveInv, [WorkspaceNext]_workspaceVars
             PROVE  Covered'
  OBVIOUS
<1> USE WorkspaceAssumption DEF tabVars, serverVars, Sending
<1>1. /\ revision \in Nat /\ revision + 1 \in Nat /\ revision + 1 > revision
      /\ knownRevision \in [Tab -> Nat] /\ expected \in [Tab -> Nat] /\ fetched \in [Tab -> Nat]
      /\ put \in [Tab -> Phase] /\ page \in [Tab -> {"closed", "loading", "hydrating", "open"}]
      /\ timer \in [Tab -> BOOLEAN] /\ queue \in [Tab -> Seq(Content)]
      /\ \A t \in Tab : put[t] # "none" => queue[t] # <<>>
  BY DEF SaveInv, ProtocolInv, WorkspaceTypeOK
<1>2. ASSUME NEW t \in Tab, Open(t) PROVE Covered'
  BY <1>1, <1>2 DEF Open, SaveInv, ProtocolInv, LockHeld, FirstSave, Covered
<1>3. ASSUME NEW t \in Tab, LoadRow(t) PROVE Covered'
  BY <1>1, <1>3 DEF LoadRow, SaveInv, ProtocolInv, LockHeld, FirstSave, Covered
<1>4. ASSUME NEW t \in Tab, LoadTables(t) PROVE Covered'
  BY <1>1, <1>4 DEF LoadTables, Adopts, SaveInv, ProtocolInv, LockHeld, FirstSave, Covered
<1>5. ASSUME NEW t \in Tab, LoadFails(t) PROVE Covered'
  BY <1>1, <1>5 DEF LoadFails, Adopts, SaveInv, ProtocolInv, LockHeld, FirstSave, Covered
<1>6. ASSUME NEW t \in Tab, Close(t) PROVE Covered'
  BY <1>1, <1>6 DEF Close, SaveInv, ProtocolInv, LockHeld, FirstSave, Covered
<1>7. ASSUME NEW t \in Tab, MakeEdit(t) PROVE Covered'
  BY <1>1, <1>7 DEF MakeEdit, SaveInv, ProtocolInv, LockHeld, FirstSave, Covered
<1>8. ASSUME NEW t \in Tab, TimerFires(t) PROVE Covered'
  BY <1>1, <1>8 DEF TimerFires, SaveInv, ProtocolInv, LockHeld, FirstSave, Covered
<1>9. ASSUME NEW t \in Tab, Send(t) PROVE Covered'
  BY <1>1, <1>9 DEF Send, SaveInv, ProtocolInv, LockHeld, FirstSave, Covered
<1>10. ASSUME NEW t \in Tab, BeginSave(t) PROVE Covered'
  <2>0. replaced \in [Tab -> Content]
    BY DEF SaveInv, ProtocolInv, WorkspaceTypeOK
  <2>1. put'[t] = "locked" =>
          /\ expected[t] = revision /\ replaced'[t] = tables
          /\ expected[t] = 0 => tables \cap Edit = {}
    BY <1>1, <1>10, <2>0 DEF BeginSave, Stale, SaveInv, FirstSave
  <2>2. /\ expected' = expected /\ tables' = tables
        /\ \A q \in Tab \ {t} : replaced'[q] = replaced[q] /\ put'[q] = put[q]
    BY <1>1, <1>10, <2>0 DEF BeginSave
  <2>3. put'[t] = "locked" =>
          IF expected'[t] > 0 THEN tables' \cap Edit \subseteq replaced'[t]
                              ELSE replaced'[t] \cap Edit = {}
    BY <1>1, <2>1, <2>2
  <2>4. \A q \in Tab \ {t} : put'[q] = "locked" =>
          IF expected'[q] > 0 THEN tables' \cap Edit \subseteq replaced'[q]
                              ELSE replaced'[q] \cap Edit = {}
    BY <2>2 DEF Covered, SaveInv
  <2> QED BY <2>3, <2>4 DEF Covered
<1>11. ASSUME NEW t \in Tab, CommitSave(t) PROVE Covered'
  BY <1>1, <1>11 DEF CommitSave, Unlocked, SaveInv, ProtocolInv, LockHeld, FirstSave, Covered
<1>12. ASSUME NEW t \in Tab, Saved(t) PROVE Covered'
  BY <1>1, <1>12 DEF Saved, Answered, SaveInv, ProtocolInv, LockHeld, FirstSave, Covered
<1>13. ASSUME NEW t \in Tab, Refetch(t) PROVE Covered'
  BY <1>1, <1>13 DEF Refetch, SaveInv, ProtocolInv, LockHeld, FirstSave, Covered
<1>14. ASSUME NEW t \in Tab, Restore(t) PROVE Covered'
  BY <1>1, <1>14 DEF Restore, Answered, Adopts, SaveInv, ProtocolInv, LockHeld, FirstSave, Covered
<1>15. ASSUME NEW t \in Tab, SaveFails(t) PROVE Covered'
  BY <1>1, <1>15 DEF SaveFails, Answered, Unlocked, Refused, Lost, SaveInv, ProtocolInv, LockHeld, FirstSave, Covered
<1>18. ASSUME NEW t \in Tab, LatestRefused(t) PROVE Covered'
  BY <1>1, <1>18 DEF LatestRefused, Answered, SaveInv, ProtocolInv, LockHeld, FirstSave, Covered
<1>16. ASSUME NEW e \in AgentEdit, AgentWrites(e) PROVE Covered'
  BY <1>1, <1>16 DEF AgentWrites, SaveInv, ProtocolInv, LockHeld, FirstSave, Covered
<1>17. CASE UNCHANGED workspaceVars
  BY <1>1, <1>17 DEF workspaceVars, SaveInv, ProtocolInv, LockHeld, FirstSave, Covered
<1> QED
  BY <1>2, <1>3, <1>4, <1>5, <1>6, <1>7, <1>8, <1>9, <1>10, <1>11, <1>12, <1>13, <1>14, <1>15, <1>16, <1>17, <1>18
  DEF WorkspaceNext, Progress

\* A save that others did not overtake put every edit into the tables.
LEMMA AnswersNext ==
  SaveInv /\ [WorkspaceNext]_workspaceVars => Answers'
<1> SUFFICES ASSUME SaveInv, [WorkspaceNext]_workspaceVars
             PROVE  Answers'
  OBVIOUS
<1> USE WorkspaceAssumption DEF tabVars, serverVars, Sending
<1>1. /\ revision \in Nat /\ revision + 1 \in Nat /\ revision + 1 > revision
      /\ knownRevision \in [Tab -> Nat] /\ expected \in [Tab -> Nat] /\ fetched \in [Tab -> Nat]
      /\ put \in [Tab -> Phase] /\ page \in [Tab -> {"closed", "loading", "hydrating", "open"}]
      /\ timer \in [Tab -> BOOLEAN] /\ queue \in [Tab -> Seq(Content)]
      /\ \A t \in Tab : put[t] # "none" => queue[t] # <<>>
  BY DEF SaveInv, ProtocolInv, WorkspaceTypeOK
<1>2. ASSUME NEW t \in Tab, Open(t) PROVE Answers'
  BY <1>1, <1>2, QueueFacts DEF Open, SaveInv, ProtocolInv, LockHeld, Known, FirstSave, Covered, Answers
<1>3. ASSUME NEW t \in Tab, LoadRow(t) PROVE Answers'
  BY <1>1, <1>3, QueueFacts DEF LoadRow, SaveInv, ProtocolInv, LockHeld, Known, FirstSave, Covered, Answers
<1>4. ASSUME NEW t \in Tab, LoadTables(t) PROVE Answers'
  BY <1>1, <1>4, QueueFacts DEF LoadTables, Adopts, SaveInv, ProtocolInv, LockHeld, Known, FirstSave, Covered, Answers
<1>5. ASSUME NEW t \in Tab, LoadFails(t) PROVE Answers'
  BY <1>1, <1>5, QueueFacts DEF LoadFails, Adopts, SaveInv, ProtocolInv, LockHeld, Known, FirstSave, Covered, Answers
<1>6. ASSUME NEW t \in Tab, Close(t) PROVE Answers'
  BY <1>1, <1>6, QueueFacts DEF Close, SaveInv, ProtocolInv, LockHeld, Known, FirstSave, Covered, Answers
<1>7. ASSUME NEW t \in Tab, MakeEdit(t) PROVE Answers'
  BY <1>1, <1>7, QueueFacts DEF MakeEdit, SaveInv, ProtocolInv, LockHeld, Known, FirstSave, Covered, Answers
<1>8. ASSUME NEW t \in Tab, TimerFires(t) PROVE Answers'
  BY <1>1, <1>8, QueueFacts DEF TimerFires, SaveInv, ProtocolInv, LockHeld, Known, FirstSave, Covered, Answers
<1>9. ASSUME NEW t \in Tab, Send(t) PROVE Answers'
  BY <1>1, <1>9, QueueFacts DEF Send, SaveInv, ProtocolInv, LockHeld, Known, FirstSave, Covered, Answers
<1>10. ASSUME NEW t \in Tab, BeginSave(t) PROVE Answers'
  <2>1. /\ UNCHANGED <<queue, fetched, revision, tables, raced>>
        /\ \E p \in {"conflict", "locked"} : put' = [put EXCEPT ![t] = p]
    BY <1>10 DEF BeginSave
  <2>2. \A q \in Tab : put'[q] = "saved" => put[q] = "saved"
    BY <1>1, <2>1
  <2> QED BY <2>1, <2>2 DEF SaveInv, Answers
<1>11. ASSUME NEW t \in Tab, CommitSave(t) PROVE Answers'
  <2>1. \A q \in Tab : revision' # fetched[q] /\ queue'[q] = queue[q]
    BY <1>1, <1>11 DEF CommitSave, SaveInv, ProtocolInv, Known
  <2>2. \A q \in Tab \ {t} : fetched'[q] # revision'
    BY <1>1, <2>1, <1>11 DEF CommitSave
  <2>3. CASE expected[t] > 0
    <3>1. tables \cap Edit \subseteq replaced[t]
      BY <1>11, <2>3 DEF CommitSave, SaveInv, Covered
    <3>2. tables' \cap Edit \subseteq Head(queue'[t])
      BY <1>11, <2>1, <3>1 DEF CommitSave
    <3> QED BY <2>2, <3>2 DEF Answers
  <2>4. CASE expected[t] = 0 /\ ~raced'
    <3>0. ~(expected[t] = 0 /\ revision > 0)
      BY <1>11, <2>4 DEF CommitSave
    <3>1. tables \cap Edit = {}
      BY <1>1, <2>4, <3>0 DEF SaveInv, FirstSave
    <3>2. tables' \cap Edit \subseteq Head(queue'[t])
      BY <1>11, <2>1, <3>1 DEF CommitSave
    <3> QED BY <2>2, <3>2 DEF Answers
  <2>5. CASE raced'
    BY <2>5 DEF Answers
  <2> QED BY <1>1, <2>3, <2>4, <2>5
<1>12. ASSUME NEW t \in Tab, Saved(t) PROVE Answers'
  BY <1>1, <1>12, QueueFacts DEF Saved, Answered, SaveInv, ProtocolInv, LockHeld, Known, FirstSave, Covered, Answers
<1>13. ASSUME NEW t \in Tab, Refetch(t) PROVE Answers'
  BY <1>1, <1>13, QueueFacts DEF Refetch, SaveInv, ProtocolInv, LockHeld, Known, FirstSave, Covered, Answers
<1>14. ASSUME NEW t \in Tab, Restore(t) PROVE Answers'
  BY <1>1, <1>14, QueueFacts DEF Restore, Answered, Adopts, SaveInv, ProtocolInv, LockHeld, Known, FirstSave, Covered, Answers
<1>15. ASSUME NEW t \in Tab, SaveFails(t) PROVE Answers'
  BY <1>1, <1>15, QueueFacts DEF SaveFails, Answered, Unlocked, Refused, Lost, SaveInv, ProtocolInv, LockHeld, Known, FirstSave, Covered, Answers
<1>18. ASSUME NEW t \in Tab, LatestRefused(t) PROVE Answers'
  BY <1>1, <1>18, QueueFacts DEF LatestRefused, Answered, SaveInv, ProtocolInv, LockHeld, Known, FirstSave, Covered, Answers
<1>16. ASSUME NEW e \in AgentEdit, AgentWrites(e) PROVE Answers'
  BY <1>1, <1>16, QueueFacts DEF AgentWrites, SaveInv, ProtocolInv, LockHeld, Known, FirstSave, Covered, Answers
<1>17. CASE UNCHANGED workspaceVars
  BY <1>1, <1>17 DEF workspaceVars, SaveInv, ProtocolInv, LockHeld, Known, FirstSave, Covered, Answers
<1> QED
  BY <1>2, <1>3, <1>4, <1>5, <1>6, <1>7, <1>8, <1>9, <1>10, <1>11, <1>12, <1>13, <1>14, <1>15, <1>16, <1>17, <1>18
  DEF WorkspaceNext, Progress

\* A tab learns a revision together with the edits it stands for.
LEMMA ShowsNext ==
  SaveInv /\ [WorkspaceNext]_workspaceVars => ShowsSaved'
<1> SUFFICES ASSUME SaveInv, [WorkspaceNext]_workspaceVars
             PROVE  ShowsSaved'
  OBVIOUS
<1> USE WorkspaceAssumption DEF tabVars, serverVars, Sending
<1>1. /\ revision \in Nat /\ revision + 1 \in Nat /\ revision + 1 > revision
      /\ knownRevision \in [Tab -> Nat] /\ expected \in [Tab -> Nat] /\ fetched \in [Tab -> Nat]
      /\ put \in [Tab -> Phase] /\ page \in [Tab -> {"closed", "loading", "hydrating", "open"}]
      /\ timer \in [Tab -> BOOLEAN] /\ queue \in [Tab -> Seq(Content)]
      /\ \A t \in Tab : put[t] # "none" => queue[t] # <<>>
  BY DEF SaveInv, ProtocolInv, WorkspaceTypeOK
<1>2. ASSUME NEW t \in Tab, Open(t) PROVE ShowsSaved'
  BY <1>1, <1>2, QueueFacts DEF Open, SaveInv, ProtocolInv, Known, Carries, Answers, ShowsSaved, AtCurrent
<1>3. ASSUME NEW t \in Tab, LoadRow(t) PROVE ShowsSaved'
  BY <1>1, <1>3, QueueFacts DEF LoadRow, SaveInv, ProtocolInv, Known, Carries, Answers, ShowsSaved, AtCurrent
<1>4. ASSUME NEW t \in Tab, LoadTables(t) PROVE ShowsSaved'
  <2>0. doc \in [Tab -> Content]
    BY DEF SaveInv, ProtocolInv, WorkspaceTypeOK
  <2>1. ~raced /\ revision > 0 /\ knownRevision'[t] = revision => tables \cap Edit \subseteq doc'[t]
    BY <1>1, <1>4, <2>0 DEF LoadTables, Adopts
  <2>2. /\ UNCHANGED <<revision, tables, raced, outdated>>
        /\ \A q \in Tab \ {t} : doc'[q] = doc[q] /\ knownRevision'[q] = knownRevision[q]
                              /\ page'[q] = page[q]
    BY <1>1, <1>4, <2>0 DEF LoadTables, Adopts
  <2> QED BY <2>1, <2>2 DEF SaveInv, ShowsSaved, AtCurrent
<1>5. ASSUME NEW t \in Tab, LoadFails(t) PROVE ShowsSaved'
  <2>0. doc \in [Tab -> Content] /\ page[t] # "open"
    BY <1>5 DEF SaveInv, ProtocolInv, WorkspaceTypeOK, LoadFails
  <2>1. knownRevision[t] = 0 /\ UNCHANGED <<knownRevision, outdated, revision, tables, raced>>
    BY <1>5, <2>0 DEF LoadFails, SaveInv, ProtocolInv, Known
  <2>2. \A q \in Tab \ {t} : doc'[q] = doc[q] /\ page'[q] = page[q]
    BY <1>1, <1>5, <2>0 DEF LoadFails, Adopts
  <2>3. ASSUME NEW q \in Tab, AtCurrent(q)', page'[q] = "open"
        PROVE  tables' \cap Edit \subseteq doc'[q]
    <3>1. revision' > 0 /\ knownRevision'[q] = revision' /\ ~raced'
      BY <2>3 DEF AtCurrent
    <3>2. q # t
      BY <2>1, <3>1
    <3>3. doc'[q] = doc[q] /\ page[q] = "open" /\ AtCurrent(q)
      BY <2>1, <2>2, <2>3, <3>1, <3>2 DEF AtCurrent
    <3> QED BY <2>1, <3>3 DEF SaveInv, ShowsSaved
  <2> QED BY <2>3 DEF ShowsSaved
<1>6. ASSUME NEW t \in Tab, Close(t) PROVE ShowsSaved'
  BY <1>1, <1>6, QueueFacts DEF Close, SaveInv, ProtocolInv, Known, Carries, Answers, ShowsSaved, AtCurrent
<1>7. ASSUME NEW t \in Tab, MakeEdit(t) PROVE ShowsSaved'
  <2>0. doc \in [Tab -> Content]
    BY DEF SaveInv, ProtocolInv, WorkspaceTypeOK
  <2>1. UNCHANGED <<page, knownRevision, outdated, revision, tables, raced>>
    BY <1>7 DEF MakeEdit
  <2>2. \A q \in Tab : doc[q] \subseteq doc'[q]
    BY <1>7, <2>0 DEF MakeEdit
  <2> QED BY <2>1, <2>2 DEF SaveInv, ShowsSaved, AtCurrent
<1>8. ASSUME NEW t \in Tab, TimerFires(t) PROVE ShowsSaved'
  BY <1>1, <1>8, QueueFacts DEF TimerFires, SaveInv, ProtocolInv, Known, Carries, Answers, ShowsSaved, AtCurrent
<1>9. ASSUME NEW t \in Tab, Send(t) PROVE ShowsSaved'
  BY <1>1, <1>9, QueueFacts DEF Send, SaveInv, ProtocolInv, Known, Carries, Answers, ShowsSaved, AtCurrent
<1>10. ASSUME NEW t \in Tab, BeginSave(t) PROVE ShowsSaved'
  BY <1>1, <1>10, QueueFacts DEF BeginSave, Stale, SaveInv, ProtocolInv, Known, Carries, Answers, ShowsSaved, AtCurrent
<1>11. ASSUME NEW t \in Tab, CommitSave(t) PROVE ShowsSaved'
  BY <1>1, <1>11, QueueFacts DEF CommitSave, Unlocked, SaveInv, ProtocolInv, Known, Carries, Answers, ShowsSaved, AtCurrent
<1>12. ASSUME NEW t \in Tab, Saved(t) PROVE ShowsSaved'
  <2>1. UNCHANGED <<page, doc, outdated, revision, tables, raced>>
    BY <1>12 DEF Saved
  <2>2. \A q \in Tab \ {t} : knownRevision'[q] = knownRevision[q]
    BY <1>1, <1>12 DEF Saved
  <2>3. knownRevision'[t] = fetched[t] /\ queue[t] # <<>> /\ put[t] = "saved"
    BY <1>1, <1>12 DEF Saved
  <2>4. ~raced /\ ~outdated[t] /\ fetched[t] = revision => tables \cap Edit \subseteq doc[t]
    <3> SUFFICES ASSUME ~raced, ~outdated[t], fetched[t] = revision
                 PROVE  tables \cap Edit \subseteq doc[t]
      OBVIOUS
    <3>1. tables \cap Edit \subseteq Head(queue[t])
      BY <2>3 DEF SaveInv, Answers
    <3>2. Growing(queue[t], doc[t]) /\ doc[t] \in Content /\ queue[t] \in Seq(Content)
      BY DEF SaveInv, Carries, ProtocolInv, WorkspaceTypeOK
    <3>3. Head(queue[t]) \subseteq doc[t]
      BY <2>3, <3>2, GrowingQueues
    <3> QED BY <3>1, <3>3
  <2> QED BY <2>1, <2>2, <2>3, <2>4 DEF SaveInv, ShowsSaved, AtCurrent
<1>13. ASSUME NEW t \in Tab, Refetch(t) PROVE ShowsSaved'
  BY <1>1, <1>13, QueueFacts DEF Refetch, SaveInv, ProtocolInv, Known, Carries, Answers, ShowsSaved, AtCurrent
<1>14. ASSUME NEW t \in Tab, Restore(t) PROVE ShowsSaved'
  <2>0. doc \in [Tab -> Content]
    BY DEF SaveInv, ProtocolInv, WorkspaceTypeOK
  <2>1. ~raced /\ revision > 0 /\ knownRevision'[t] = revision => tables \cap Edit \subseteq doc'[t]
    BY <1>1, <1>14, <2>0 DEF Restore, Adopts
  <2>2. /\ revision' = revision /\ tables' = tables /\ raced' = raced
        /\ \A q \in Tab \ {t} : doc'[q] = doc[q] /\ knownRevision'[q] = knownRevision[q]
                              /\ page'[q] = page[q] /\ outdated'[q] = outdated[q]
    BY <1>1, <1>14, <2>0 DEF Restore, Adopts, SaveInv, ProtocolInv, WorkspaceTypeOK
  <2> QED BY <2>1, <2>2 DEF SaveInv, ShowsSaved, AtCurrent
<1>15. ASSUME NEW t \in Tab, SaveFails(t) PROVE ShowsSaved'
  BY <1>1, <1>15, QueueFacts DEF SaveFails, Answered, Unlocked, Refused, Lost, SaveInv, ProtocolInv, Known, Carries, Answers, ShowsSaved, AtCurrent
<1>18. ASSUME NEW t \in Tab, LatestRefused(t) PROVE ShowsSaved'
  BY <1>1, <1>18, QueueFacts DEF LatestRefused, Answered, SaveInv, ProtocolInv, Known, Carries, Answers, ShowsSaved, AtCurrent
<1>16. ASSUME NEW e \in AgentEdit, AgentWrites(e) PROVE ShowsSaved'
  BY <1>1, <1>16, QueueFacts DEF AgentWrites, SaveInv, ProtocolInv, Known, Carries, Answers, ShowsSaved, AtCurrent
<1>17. CASE UNCHANGED workspaceVars
  BY <1>1, <1>17 DEF workspaceVars, SaveInv, ProtocolInv, Known, Carries, Answers, ShowsSaved, AtCurrent
<1> QED
  BY <1>2, <1>3, <1>4, <1>5, <1>6, <1>7, <1>8, <1>9, <1>10, <1>11, <1>12, <1>13, <1>14, <1>15, <1>16, <1>17, <1>18
  DEF WorkspaceNext, Progress

\* A step that touches one tab at most, and not what all tabs share.
LEMMA CarriesElsewhere ==
  ASSUME Carries, NEW t \in Tab, UNCHANGED <<tables, raced, revision>>,
         \A q \in Tab \ {t} :
           /\ queue'[q] = queue[q] /\ doc'[q] = doc[q]
           /\ knownRevision'[q] = knownRevision[q] /\ outdated'[q] = outdated[q],
         ~outdated'[t] => Growing(queue'[t], doc'[t]),
         queue'[t] # <<>> /\ AtCurrent(t)' => tables \cap Edit \subseteq Head(queue'[t])
  PROVE  Carries'
BY DEF Carries, AtCurrent

\* A step that leaves the queues, and takes nothing from a copy.
LEMMA CarriesKept ==
  ASSUME Carries, UNCHANGED <<queue, knownRevision, outdated, raced, revision>>,
         tables' \cap Edit = tables \cap Edit, \A t \in Tab : doc[t] \subseteq doc'[t],
         queue \in [Tab -> Seq(Content)], doc \in [Tab -> Content]
  PROVE  Carries'
<1>1. ASSUME NEW t \in Tab PROVE ~outdated'[t] => Growing(queue'[t], doc'[t])
  <2>1. doc[t] \in Content /\ queue[t] \in Seq(Content) /\ doc[t] \subseteq doc'[t]
    OBVIOUS
  <2>2. ~outdated[t] => Growing(queue[t], doc[t])
    BY DEF Carries
  <2> QED BY <2>1, <2>2, GrowingQueues
<1> QED BY <1>1 DEF Carries, AtCurrent

\* The save at the head of a queue was answered, and the copy stays: the next
\* one holds what it held.
LEMMA CarriesShorter ==
  ASSUME SaveInv, NEW t \in Tab, queue[t] # <<>>,
         queue' = [queue EXCEPT ![t] = Tail(queue[t])],
         UNCHANGED <<tables, raced, revision, doc, outdated>>,
         \A q \in Tab \ {t} : knownRevision'[q] = knownRevision[q],
         AtCurrent(t)' => tables \cap Edit \subseteq Head(queue[t])
  PROVE  Carries'
<1>1. /\ Carries /\ doc[t] \in Content /\ queue \in [Tab -> Seq(Content)]
      /\ ~outdated[t] => Growing(queue[t], doc[t])
  BY DEF SaveInv, ProtocolInv, WorkspaceTypeOK, Carries
<1>2. queue'[t] = Tail(queue[t]) /\ \A q \in Tab \ {t} : queue'[q] = queue[q]
  BY <1>1
<1>3. ~outdated'[t] => Growing(queue'[t], doc'[t])
  BY <1>1, <1>2, GrowingQueues
<1>4. ASSUME queue'[t] # <<>>, AtCurrent(t)' PROVE tables \cap Edit \subseteq Head(queue'[t])
  <2>1. ~outdated[t] /\ tables \cap Edit \subseteq Head(queue[t])
    BY <1>4 DEF AtCurrent
  <2>2. Head(queue[t]) \subseteq Head(Tail(queue[t]))
    BY <1>1, <1>2, <1>4, <2>1, GrowingQueues
  <2> QED BY <1>2, <2>1, <2>2
<1> QED BY <1>1, <1>2, <1>3, <1>4, CarriesElsewhere

\* What a tab queues holds what it queued before, until its copy is replaced.
LEMMA CarriesNext ==
  SaveInv /\ [WorkspaceNext]_workspaceVars => Carries'
<1> SUFFICES ASSUME SaveInv, [WorkspaceNext]_workspaceVars
             PROVE  Carries'
  OBVIOUS
<1> USE WorkspaceAssumption DEF tabVars, serverVars
<1>1. /\ revision \in Nat /\ Carries /\ doc \in [Tab -> Content]
      /\ knownRevision \in [Tab -> Nat] /\ queue \in [Tab -> Seq(Content)]
      /\ outdated \in [Tab -> BOOLEAN]
      /\ \A t \in Tab : put[t] # "none" => queue[t] # <<>>
      /\ \A t \in Tab : page[t] # "open" => queue[t] = <<>> /\ ~timer[t]
  BY DEF SaveInv, ProtocolInv, WorkspaceTypeOK, Known
<1>0. \A copy : Growing(<<>>, copy)
  BY EmptySeq DEF Growing
<1>2. ASSUME NEW t \in Tab, Open(t) \/ LoadRow(t) \/ LoadTables(t) \/ LoadFails(t) PROVE Carries'
  <2>1. queue' = queue /\ queue[t] = <<>> /\ UNCHANGED <<tables, raced, revision, outdated>>
    BY <1>1, <1>2 DEF Open, LoadRow, LoadTables, LoadFails
  <2>2. \A q \in Tab \ {t} : doc'[q] = doc[q] /\ knownRevision'[q] = knownRevision[q]
    BY <1>1, <1>2 DEF Open, LoadRow, LoadTables, LoadFails, Adopts
  <2>3. Growing(queue'[t], doc'[t])
    BY <1>0, <2>1
  <2>4. ~(queue'[t] # <<>>)
    BY <2>1
  <2> QED BY <1>1, <2>1, <2>2, <2>3, <2>4, CarriesElsewhere
<1>3. ASSUME NEW t \in Tab, Close(t) PROVE Carries'
  <2>1. queue'[t] = <<>> /\ UNCHANGED <<tables, raced, revision>>
    BY <1>1, <1>3 DEF Close
  <2>2. \A q \in Tab \ {t} :
          /\ queue'[q] = queue[q] /\ doc'[q] = doc[q]
          /\ knownRevision'[q] = knownRevision[q] /\ outdated'[q] = outdated[q]
    BY <1>1, <1>3 DEF Close
  <2> QED BY <1>0, <1>1, <2>1, <2>2, CarriesElsewhere
<1>4. ASSUME NEW t \in Tab, MakeEdit(t) \/ Send(t) \/ BeginSave(t) \/ Refetch(t) PROVE Carries'
  <2>1. UNCHANGED <<queue, knownRevision, outdated, raced, revision, tables>>
    BY <1>4 DEF MakeEdit, Send, BeginSave, Refetch
  <2>2. \A q \in Tab : doc[q] \subseteq doc'[q]
    BY <1>1, <1>4 DEF MakeEdit, Send, BeginSave, Refetch
  <2> QED BY <1>1, <2>1, <2>2, CarriesKept
<1>5. ASSUME NEW t \in Tab, TimerFires(t) PROVE Carries'
  <2>1. page[t] = "open" /\ doc[t] \in Content /\ queue[t] \in Seq(Content)
    BY <1>1, <1>5 DEF TimerFires
  <2>2. queue' = [queue EXCEPT ![t] = Append(queue[t], doc[t])]
        /\ UNCHANGED <<doc, knownRevision, outdated, tables, raced, revision>>
    BY <1>5 DEF TimerFires
  <2>3. queue'[t] = Append(queue[t], doc[t]) /\ \A q \in Tab \ {t} : queue'[q] = queue[q]
    BY <1>1, <2>2
  <2>4. ~outdated'[t] => Growing(queue'[t], doc'[t])
    <3>1. ~outdated[t] => Growing(queue[t], doc[t])
      BY <1>1 DEF Carries
    <3> QED BY <2>1, <2>2, <2>3, <3>1, GrowingQueues
  <2>5. ASSUME AtCurrent(t)' PROVE tables \cap Edit \subseteq Head(queue'[t])
    <3>1. AtCurrent(t)
      BY <2>2, <2>5 DEF AtCurrent
    <3>2. CASE queue[t] = <<>>
      <4>1. Head(queue'[t]) = doc[t]
        BY <2>1, <2>3, <3>2, QueueFacts
      <4> QED BY <2>1, <3>1, <4>1 DEF SaveInv, ShowsSaved
    <3>3. CASE queue[t] # <<>>
      <4>1. Head(queue'[t]) = Head(queue[t])
        BY <2>1, <2>3, <3>3, QueueFacts
      <4> QED BY <1>1, <3>1, <3>3, <4>1 DEF Carries
    <3> QED BY <3>2, <3>3
  <2> QED BY <1>1, <2>2, <2>3, <2>4, <2>5, CarriesElsewhere
<1>6. ASSUME NEW t \in Tab, CommitSave(t) PROVE Carries'
  <2>1. UNCHANGED <<queue, doc, knownRevision, outdated>> /\ revision' = revision + 1
    BY <1>6 DEF CommitSave
  <2>2. \A q \in Tab : knownRevision'[q] # revision'
    BY <1>1, <2>1 DEF SaveInv, ProtocolInv, Known
  <2> QED BY <1>1, <2>1, <2>2 DEF Carries, AtCurrent
<1>7. ASSUME NEW t \in Tab, Saved(t) \/ LatestRefused(t) \/ SaveFails(t) PROVE Carries'
  <2>1. /\ put[t] # "none" /\ queue[t] # <<>> /\ queue' = [queue EXCEPT ![t] = Tail(queue[t])]
        /\ UNCHANGED <<tables, raced, revision, doc, outdated>>
    BY <1>1, <1>7 DEF Saved, LatestRefused, SaveFails, Answered, Refused, Lost
  <2>2. \A q \in Tab \ {t} : knownRevision'[q] = knownRevision[q]
    BY <1>1, <1>7 DEF Saved, LatestRefused, SaveFails
  <2>3. AtCurrent(t)' => tables \cap Edit \subseteq Head(queue[t])
    <3>1. CASE Saved(t)
      BY <1>1, <2>1, <3>1 DEF Saved, AtCurrent, SaveInv, Answers
    <3>2. CASE LatestRefused(t) \/ SaveFails(t)
      <4>1. knownRevision' = knownRevision
        BY <3>2 DEF LatestRefused, SaveFails
      <4> QED BY <1>1, <2>1, <4>1 DEF AtCurrent, Carries
    <3> QED BY <1>7, <3>1, <3>2
  <2> QED BY <2>1, <2>2, <2>3, CarriesShorter
<1>8. ASSUME NEW t \in Tab, Restore(t) PROVE Carries'
  <2>1. /\ queue[t] # <<>> /\ queue' = [queue EXCEPT ![t] = Tail(queue[t])]
        /\ UNCHANGED <<tables, raced, revision>>
        /\ outdated' = [outdated EXCEPT ![t] = Tail(queue[t]) # <<>>]
    BY <1>1, <1>8 DEF Restore, Answered
  <2>2. \A q \in Tab \ {t} :
          /\ queue'[q] = queue[q] /\ doc'[q] = doc[q]
          /\ knownRevision'[q] = knownRevision[q] /\ outdated'[q] = outdated[q]
    BY <1>1, <1>8, <2>1 DEF Restore, Adopts
  <2>3. queue'[t] = Tail(queue[t]) /\ (~outdated'[t] => queue'[t] = <<>>)
    BY <1>1, <2>1
  <2>4. ~outdated'[t] => Growing(queue'[t], doc'[t])
    BY <1>0, <2>3
  <2>5. ~(queue'[t] # <<>> /\ AtCurrent(t)')
    BY <2>3 DEF AtCurrent
  <2> QED BY <1>1, <2>1, <2>2, <2>4, <2>5, CarriesElsewhere
<1>9. ASSUME NEW e \in AgentEdit, AgentWrites(e) PROVE Carries'
  <2>1. UNCHANGED <<queue, knownRevision, outdated, raced, revision, doc>> /\ tables' = tables \cup {e}
    BY <1>9 DEF AgentWrites
  <2>2. tables' \cap Edit = tables \cap Edit
    BY <2>1
  <2> QED BY <1>1, <2>1, <2>2, CarriesKept
<1>10. CASE UNCHANGED workspaceVars
  BY <1>1, <1>10, CarriesKept DEF workspaceVars
<1> QED
  BY <1>2, <1>3, <1>4, <1>5, <1>6, <1>7, <1>8, <1>9, <1>10 DEF WorkspaceNext, Progress

LEMMA SaveNext == SaveInv /\ [WorkspaceNext]_workspaceVars => SaveInv'
  BY ProtocolNext, FirstSaveNext, CoveredNext, AnswersNext, ShowsNext, CarriesNext DEF SaveInv

\* A save that commits sends the saved edits again: either there were none, or
\* its tab knew the current revision and its snapshot carries them.
LEMMA EditsStayStep ==
  SaveInv /\ [WorkspaceNext]_workspaceVars
    => [~raced /\ (\A t \in Tab : ~OverwritesTaken(t))
          => tables \cap Edit \subseteq tables']_workspaceVars
<1> SUFFICES ASSUME SaveInv, [WorkspaceNext]_workspaceVars, ~raced,
                    \A t \in Tab : ~OverwritesTaken(t)
             PROVE  tables \cap Edit \subseteq tables'
  OBVIOUS
<1> USE DEF tabVars, serverVars
<1>1. ASSUME NEW t \in Tab, CommitSave(t) PROVE tables \cap Edit \subseteq tables'
  <2>1. expected[t] \in Nat /\ put[t] = "locked" /\ queue[t] # <<>>
    BY <1>1 DEF CommitSave, SaveInv, ProtocolInv, WorkspaceTypeOK
  <2>2. CASE expected[t] = 0
    <3>1. replaced[t] \cap Edit = {}
      BY <2>1, <2>2 DEF SaveInv, Covered
    <3> QED BY <1>1, <3>1 DEF CommitSave
  <2>3. CASE expected[t] > 0
    <3>1. AtCurrent(t)
      <4>1. ~outdated[t]
        BY <1>1 DEF CommitSave, OverwritesTaken, SaveInv, ProtocolInv, WorkspaceTypeOK
      <4> QED
        BY <2>1, <2>3, <4>1 DEF SaveInv, ProtocolInv, LockHeld, Known, Sending, AtCurrent
    <3>2. tables \cap Edit \subseteq Head(queue[t])
      BY <2>1, <3>1 DEF SaveInv, Carries
    <3> QED BY <1>1, <3>2 DEF CommitSave
  <2> QED BY <2>1, <2>2, <2>3
<1>2. ASSUME NEW t \in Tab, Open(t) \/ Close(t) \/ LoadFails(t) \/ MakeEdit(t)
      PROVE  tables' = tables
  BY <1>2 DEF Open, Close, LoadFails, MakeEdit
<1>3. ASSUME NEW t \in Tab, LoadRow(t) \/ LoadTables(t) \/ TimerFires(t) \/ Send(t) \/ BeginSave(t)
      PROVE  tables' = tables
  BY <1>3 DEF LoadRow, LoadTables, TimerFires, Send, BeginSave
<1>4. ASSUME NEW t \in Tab,
             Saved(t) \/ Refetch(t) \/ Restore(t) \/ LatestRefused(t) \/ SaveFails(t)
      PROVE  tables' = tables
  BY <1>4 DEF Saved, Refetch, Restore, LatestRefused, SaveFails
<1>5. ASSUME NEW e \in AgentEdit, AgentWrites(e) PROVE tables \subseteq tables'
  BY <1>5 DEF AgentWrites
<1>6. CASE UNCHANGED workspaceVars
  BY <1>6 DEF workspaceVars
<1> QED
  BY <1>1, <1>2, <1>3, <1>4, <1>5, <1>6 DEF WorkspaceNext, Progress

\* However slow its saves are, what a tab has saved stays saved, whatever the
\* other tabs save: the comparison of revisions under the row's lock is enough,
\* but for two first saves, neither of which locks, and but for the saves that
\* a tab had queued before it took the latest copy.
THEOREM SavedEditsAreKept == WorkspaceSpec => SavedEditsStay
<1>1. WorkspaceInit => SaveInv
  BY WorkspaceTypeInit, ProtocolInit, SaveInit DEF SaveInv, ProtocolInv
<1> QED
  BY <1>1, SaveNext, EditsStayStep, PTL DEF WorkspaceSpec, SavedEditsStay
-----------------------------------------------------------------------------
(***************************************************************************)
(* The digest.  That no two digests go out within an interval is not       *)
(* inductive: it rests on who holds the row (Holding), on what an email    *)
(* remembers of the transaction that delivered it (Signed), and on the     *)
(* marker (Gated): for an email whose transaction was not lost, either     *)
(* that transaction is still open, or the gate is as closed as the email   *)
(* requires, or its interval is over.  The last case is needed because the *)
(* marker can move BACK: a request records when its own transaction began, *)
(* which may be before the one recorded last.                              *)
(***************************************************************************)
InDelivery(r) == at[r] \in {"claimed", "delivered"}

\* Whoever is past the gate holds the row, and the gate is still open.
Holding ==
  \A r \in DigestRequest : (InDelivery(r) <=> digestLock = r) /\ (InDelivery(r) => Due /\ wanted)

\* An email is of a request that delivered, and says when that one began.
Signed ==
  \A i \in DOMAIN delivered :
    /\ at[delivered[i].by] \in {"delivered", "sent", "failed"}
    /\ delivered[i].begun = begun[delivered[i].by]
    /\ at[delivered[i].by] = "failed" => delivered[i].lost
HasEmail == \A r \in DigestRequest :
  at[r] = "delivered" => \E i \in DOMAIN delivered : delivered[i].by = r

Gated ==
  \A i \in DOMAIN delivered :
    \/ delivered[i].lost \/ at[delivered[i].by] = "delivered"
    \/ /\ lastSent # NeverSent
       /\ lastSent >= delivered[i].begun \/ now >= delivered[i].begun + Interval

DigestInv ==
  /\ DigestTypeOK /\ Holding /\ Signed /\ HasEmail /\ Gated
  /\ OneDigestAWeek /\ MarkedMeansDelivered
-----------------------------------------------------------------------------
\* The emails of a lost transaction are marked, and nothing else about them.
LEMMA Marked ==
  ASSUME NEW log \in Seq(Email), NEW r
  PROVE  /\ MarkedLost(log, r) \in Seq(Email) /\ DOMAIN MarkedLost(log, r) = DOMAIN log
         /\ \A i \in DOMAIN log :
              /\ MarkedLost(log, r)[i].by = log[i].by
              /\ MarkedLost(log, r)[i].begun = log[i].begun
              /\ MarkedLost(log, r)[i].at = log[i].at
              /\ MarkedLost(log, r)[i].lost = (log[i].lost \/ log[i].by = r)
<1> DEFINE marked == MarkedLost(log, r)
<1>1. ASSUME NEW i \in DOMAIN log
      PROVE  /\ marked[i] \in Email
             /\ marked[i].by = log[i].by /\ marked[i].begun = log[i].begun
             /\ marked[i].at = log[i].at
             /\ marked[i].lost = (log[i].lost \/ log[i].by = r)
  <2>1. log[i] \in Email
    BY ElementOfSeq
  <2>2. marked[i] = [log[i] EXCEPT !.lost = log[i].lost \/ log[i].by = r]
    BY DEF MarkedLost
  <2> QED BY <2>1, <2>2 DEF Email
<1>2. DOMAIN log = 1 .. Len(log) /\ Len(log) \in Nat
  BY LenProperties
<1>3. marked \in Seq(Email) /\ DOMAIN marked = DOMAIN log
  <2>1. marked \in [1 .. Len(log) -> Email]
    BY <1>1, <1>2 DEF MarkedLost
  <2> HIDE DEF marked
  <2> QED BY <2>1, <1>2, SeqDef
<1> QED BY <1>1, <1>3

\* What an email says.
LEMMA EmailTyped ==
  ASSUME DigestTypeOK, NEW i \in DOMAIN delivered
  PROVE  /\ delivered[i].begun \in Nat /\ delivered[i].by \in DigestRequest
         /\ delivered[i].lost \in BOOLEAN
<1>1. i \in 1 .. Len(delivered)
  BY LenProperties DEF DigestTypeOK
<1>2. delivered[i] \in Email
  BY <1>1, ElementOfSeq DEF DigestTypeOK
<1> QED BY <1>2 DEF Email, Instant

\* A new email comes last.
LEMMA Emailed ==
  ASSUME NEW log \in Seq(Email), NEW e \in Email
  PROVE  /\ Append(log, e) \in Seq(Email)
         /\ DOMAIN Append(log, e) = DOMAIN log \cup {Len(log) + 1}
         /\ \A i \in DOMAIN log : Append(log, e)[i] = log[i] /\ i < Len(log) + 1
         /\ Append(log, e)[Len(log) + 1] = e /\ Len(log) + 1 \notin DOMAIN log
  BY AppendProperties, LenProperties
-----------------------------------------------------------------------------
\* Type correctness.

LEMMA DigestTypeInit == DigestInit => DigestTypeOK
  BY DigestAssumption DEF DigestInit, DigestTypeOK, Instant, NeverSent

LEMMA DigestTypeNext == DigestTypeOK /\ [DigestNext]_digestVars => DigestTypeOK'
<1> SUFFICES ASSUME DigestTypeOK, [DigestNext]_digestVars
             PROVE  DigestTypeOK'
  OBVIOUS
<1> USE DigestAssumption
<1>1. CASE SetPreference
  BY <1>1 DEF SetPreference, DigestTypeOK
<1>2. CASE DigestTick
  BY <1>2 DEF DigestTick, DigestTypeOK, Instant
<1>3. CASE \E r \in DigestRequest : BeginDigest(r)
  BY <1>3 DEF BeginDigest, Moves, DigestTypeOK
<1>4. CASE \E r \in DigestRequest : ClaimDigest(r)
  BY <1>4 DEF ClaimDigest, LocksRow, Moves, DigestTypeOK
<1>5. CASE \E r \in DigestRequest : DeclineDigest(r)
  BY <1>5 DEF DeclineDigest, Moves, DigestTypeOK
<1>6. CASE \E r \in DigestRequest : RefuseDigest(r)
  BY <1>6 DEF RefuseDigest, Releases, Unmarked, Moves, DigestTypeOK
<1>7. CASE \E r \in DigestRequest : DeliverDigest(r)
  <2>1. PICK r \in DigestRequest : DeliverDigest(r)
    BY <1>7
  <2>2. [by |-> r, begun |-> begun[r], at |-> now, lost |-> FALSE] \in Email
    BY DEF DigestTypeOK, Email
  <2>3. delivered' \in Seq(Email)
    BY <2>1, <2>2, Emailed DEF DeliverDigest, DigestTypeOK
  <2> QED BY <2>1, <2>3 DEF DeliverDigest, Moves, DigestTypeOK
<1>8. CASE \E r \in DigestRequest : RecordDigest(r)
  BY <1>8 DEF RecordDigest, Releases, Moves, DigestTypeOK
<1>9. CASE \E r \in DigestRequest : LoseDigest(r)
  <2>1. PICK r \in DigestRequest : LoseDigest(r)
    BY <1>9
  <2>2. delivered' \in Seq(Email)
    BY <2>1, Marked DEF LoseDigest, DigestTypeOK
  <2> QED BY <2>1, <2>2 DEF LoseDigest, Releases, DigestTypeOK
<1>10. CASE UNCHANGED digestVars
  BY <1>10 DEF digestVars, DigestTypeOK
<1> QED
  BY <1>1, <1>2, <1>3, <1>4, <1>5, <1>6, <1>7, <1>8, <1>9, <1>10 DEF DigestNext

\* Clock, marker, lock and emails stay within their domains.
THEOREM DigestTyped == DigestSpec => []DigestTypeOK
  BY DigestTypeInit, DigestTypeNext, PTL DEF DigestSpec
-----------------------------------------------------------------------------
\* The invariant.

LEMMA DigestInvInit == DigestInit => DigestInv
  BY DigestTypeInit, DigestAssumption
  DEF DigestInit, DigestInv, Holding, InDelivery, Signed, HasEmail, Gated, OneDigestAWeek,
      MarkedMeansDelivered

\* Who is past the gate holds the row: there is at most one.
LEMMA OneOpen ==
  ASSUME DigestTypeOK, Holding, NEW r \in DigestRequest, NEW q \in DigestRequest,
         InDelivery(r), InDelivery(q)
  PROVE  r = q
  BY DEF Holding

\* A step that keeps the emails, the marker and the clock, and moves no
\* request to or from "delivered", keeps what is said of emails.
LEMMA EmailsKept ==
  ASSUME DigestInv, DigestTypeOK', UNCHANGED <<delivered, lastSent>>, now' >= now,
         \A r \in DigestRequest : at[r] = "delivered" <=> at'[r] = "delivered",
         \A i \in DOMAIN delivered :
           LET r == delivered[i].by IN at'[r] = at[r] /\ begun'[r] = begun[r]
  PROVE  Signed' /\ HasEmail' /\ Gated' /\ OneDigestAWeek' /\ MarkedMeansDelivered'
<1> USE DEF DigestInv
<1>1. Signed'
  BY DEF Signed
<1>2. HasEmail'
  BY DEF HasEmail
<1>3. Gated'
  <2> SUFFICES ASSUME NEW i \in DOMAIN delivered, ~delivered[i].lost,
                      at[delivered[i].by] # "delivered"
               PROVE  /\ lastSent # NeverSent
                      /\ lastSent >= delivered[i].begun \/ now' >= delivered[i].begun + Interval
    BY DEF Gated
  <2>1. delivered[i].begun \in Nat
    BY EmailTyped
  <2>2. now \in Nat /\ now' \in Nat /\ Interval \in Nat
    BY DigestAssumption DEF DigestTypeOK, Instant
  <2> QED BY <2>1, <2>2 DEF Gated
<1>4. OneDigestAWeek' /\ MarkedMeansDelivered'
  BY DEF OneDigestAWeek, MarkedMeansDelivered
<1> QED BY <1>1, <1>2, <1>3, <1>4

LEMMA DigestInvNext == DigestInv /\ [DigestNext]_digestVars => DigestInv'
<1> SUFFICES ASSUME DigestInv, [DigestNext]_digestVars
             PROVE  DigestInv'
  OBVIOUS
<1> USE DEF DigestInv
<1>0. DigestTypeOK' /\ DigestTypeOK
  BY DigestTypeNext
<1>1. CASE SetPreference
  <2>1. Holding'
    BY <1>1, DigestAssumption DEF SetPreference, Holding, InDelivery, Due
  <2>2. now' >= now
    BY <1>0, <1>1 DEF SetPreference, DigestTypeOK, Instant
  <2> QED BY <1>0, <1>1, <2>1, <2>2, EmailsKept DEF SetPreference
<1>2. CASE DigestTick
  <2>1. now' >= now /\ (Due => Due')
    BY <1>0, <1>2, DigestAssumption DEF DigestTick, DigestTypeOK, Instant, Due, NeverSent
  <2>2. Holding'
    BY <1>2, <2>1 DEF DigestTick, Holding, InDelivery
  <2> QED BY <1>0, <1>2, <2>1, <2>2, EmailsKept DEF DigestTick
<1>3. ASSUME NEW r \in DigestRequest, BeginDigest(r)
      PROVE  DigestInv'
  <2>1. Holding'
    BY <1>0, <1>3 DEF BeginDigest, Moves, Holding, InDelivery, Due, DigestTypeOK
  <2>2. now' >= now /\ UNCHANGED <<delivered, lastSent>>
    BY <1>0, <1>3 DEF BeginDigest, DigestTypeOK, Instant
  <2>3. \A q \in DigestRequest : at[q] = "delivered" <=> at'[q] = "delivered"
    BY <1>0, <1>3 DEF BeginDigest, Moves, DigestTypeOK
  <2>4. \A i \in DOMAIN delivered : delivered[i].by # r
    BY <1>3 DEF Signed, BeginDigest, Moves
  <2>5. \A q : q # r => at'[q] = at[q] /\ begun'[q] = begun[q]
    BY <1>0, <1>3 DEF BeginDigest, Moves, DigestTypeOK
  <2> QED BY <1>0, <2>1, <2>2, <2>3, <2>4, <2>5, EmailsKept
<1>4. ASSUME NEW r \in DigestRequest, ClaimDigest(r)
      PROVE  DigestInv'
  <2>1. Holding'
    BY <1>0, <1>4, DigestAssumption DEF ClaimDigest, LocksRow, Moves, Holding, InDelivery, Due, DigestTypeOK
  <2>2. now' >= now /\ UNCHANGED <<delivered, lastSent>>
    BY <1>0, <1>4 DEF ClaimDigest, DigestTypeOK, Instant
  <2>3. \A q \in DigestRequest : at[q] = "delivered" <=> at'[q] = "delivered"
    BY <1>0, <1>4 DEF ClaimDigest, Moves, DigestTypeOK
  <2>4. \A i \in DOMAIN delivered : delivered[i].by # r
    BY <1>4 DEF Signed, ClaimDigest, Moves
  <2>5. \A q : q # r => at'[q] = at[q] /\ begun'[q] = begun[q]
    BY <1>0, <1>4 DEF ClaimDigest, Moves, DigestTypeOK
  <2> QED BY <1>0, <2>1, <2>2, <2>3, <2>4, <2>5, EmailsKept
<1>5. ASSUME NEW r \in DigestRequest, DeclineDigest(r)
      PROVE  DigestInv'
  <2>1. Holding'
    BY <1>0, <1>5 DEF DeclineDigest, Moves, Holding, InDelivery, Due, DigestTypeOK
  <2>2. now' >= now /\ UNCHANGED <<delivered, lastSent>>
    BY <1>0, <1>5 DEF DeclineDigest, DigestTypeOK, Instant
  <2>3. \A q \in DigestRequest : at[q] = "delivered" <=> at'[q] = "delivered"
    BY <1>0, <1>5 DEF DeclineDigest, Moves, DigestTypeOK
  <2>4. \A i \in DOMAIN delivered : delivered[i].by # r
    BY <1>5 DEF Signed, DeclineDigest, Moves
  <2>5. \A q : q # r => at'[q] = at[q] /\ begun'[q] = begun[q]
    BY <1>0, <1>5 DEF DeclineDigest, Moves, DigestTypeOK
  <2> QED BY <1>0, <2>1, <2>2, <2>3, <2>4, <2>5, EmailsKept
<1>6. ASSUME NEW r \in DigestRequest, RefuseDigest(r)
      PROVE  DigestInv'
  <2>1. Holding'
    BY <1>0, <1>6, DigestAssumption
    DEF RefuseDigest, Releases, Unmarked, Moves, Holding, InDelivery, Due, DigestTypeOK
  <2>2. now' >= now /\ UNCHANGED <<delivered, lastSent>>
    BY <1>0, <1>6 DEF RefuseDigest, Unmarked, DigestTypeOK, Instant
  <2>3. \A q \in DigestRequest : at[q] = "delivered" <=> at'[q] = "delivered"
    BY <1>0, <1>6 DEF RefuseDigest, Moves, DigestTypeOK
  <2>4. \A i \in DOMAIN delivered : delivered[i].by # r
    BY <1>6 DEF Signed, RefuseDigest, Moves
  <2>5. \A q : q # r => at'[q] = at[q] /\ begun'[q] = begun[q]
    BY <1>0, <1>6 DEF RefuseDigest, Moves, DigestTypeOK
  <2> QED BY <1>0, <2>1, <2>2, <2>3, <2>4, <2>5, EmailsKept
<1>7. ASSUME NEW r \in DigestRequest, DeliverDigest(r)
      PROVE  DigestInv'
  <2> DEFINE e == [by |-> r, begun |-> begun[r], at |-> now, lost |-> FALSE]
             n == Len(delivered) + 1
  <2>1. /\ DOMAIN delivered' = DOMAIN delivered \cup {n} /\ n \notin DOMAIN delivered
        /\ \A i \in DOMAIN delivered : delivered'[i] = delivered[i] /\ i < n
        /\ delivered'[n] = e
    <3>1. e \in Email
      BY <1>0 DEF DigestTypeOK, Email
    <3> QED BY <1>0, <1>7, <3>1, Emailed DEF DeliverDigest, DigestTypeOK
  <2>2. at[r] = "claimed" /\ at'[r] = "delivered" /\ \A q : q # r => at'[q] = at[q]
    BY <1>0, <1>7 DEF DeliverDigest, Moves, DigestTypeOK
  <2>3. UNCHANGED <<now, wanted, lastSent, digestLock, begun>>
    BY <1>7 DEF DeliverDigest
  <2>4. \A i \in DOMAIN delivered : delivered[i].by # r
    BY <2>2 DEF Signed
  <2>5. Holding'
    BY <2>2, <2>3 DEF Holding, InDelivery, Due
  <2>6. Signed' /\ HasEmail'
    BY <2>1, <2>2, <2>3, <2>4 DEF Signed, HasEmail
  <2>7. Gated'
    BY <2>1, <2>2, <2>3, <2>4 DEF Gated
  <2>8. OneDigestAWeek'
    <3>1. \A i \in DOMAIN delivered : delivered[i].lost \/ now >= delivered[i].begun + Interval
      <4> SUFFICES ASSUME NEW i \in DOMAIN delivered, ~delivered[i].lost
                   PROVE  now >= delivered[i].begun + Interval
        OBVIOUS
      <4>1. delivered[i].begun \in Nat /\ delivered[i].by \in DigestRequest
        BY <1>0, EmailTyped
      <4>2. at[delivered[i].by] # "delivered"
        BY <4>1, <2>2, <2>4, OneOpen, <1>0 DEF InDelivery
      <4>3. \/ lastSent # NeverSent /\ now >= lastSent + Interval
            \/ now >= delivered[i].begun + Interval
        BY <2>2, <4>2 DEF Gated, Holding, InDelivery, Due
      <4>4. now \in Nat /\ Interval \in Nat /\ (lastSent # NeverSent => lastSent \in Nat)
        BY <1>0, DigestAssumption DEF DigestTypeOK, Instant
      <4> QED BY <4>1, <4>2, <4>3, <4>4 DEF Gated
    <3>2. \A i \in DOMAIN delivered' : i > n => FALSE
      <4>1. DOMAIN delivered = 1 .. Len(delivered) /\ Len(delivered) \in Nat
        BY <1>0, LenProperties DEF DigestTypeOK
      <4> QED BY <2>1, <4>1
    <3>3. e.at = now
      OBVIOUS
    <3> QED BY <2>1, <3>1, <3>2, <3>3 DEF OneDigestAWeek
  <2>9. MarkedMeansDelivered'
    BY <2>1, <2>3 DEF MarkedMeansDelivered
  <2> QED BY <1>0, <2>5, <2>6, <2>7, <2>8, <2>9
<1>8. ASSUME NEW r \in DigestRequest, RecordDigest(r)
      PROVE  DigestInv'
  <2>1. at[r] = "delivered" /\ at'[r] = "sent" /\ \A q : q # r => at'[q] = at[q]
    BY <1>0, <1>8 DEF RecordDigest, Moves, DigestTypeOK
  <2>2. UNCHANGED <<now, wanted, begun, delivered>> /\ lastSent' = begun[r]
    BY <1>8 DEF RecordDigest
  <2>3. \A q \in DigestRequest : q # r => ~InDelivery(q)
    BY <1>0, <2>1, OneOpen DEF InDelivery
  <2>4. Holding'
    BY <1>8, <2>1, <2>2, <2>3, DigestAssumption DEF RecordDigest, Releases, Holding, InDelivery
  <2>5. Signed' /\ HasEmail'
    BY <2>1, <2>2 DEF Signed, HasEmail
  <2>6. Gated'
    <3> SUFFICES ASSUME NEW i \in DOMAIN delivered, ~delivered[i].lost
                 PROVE  /\ lastSent' # NeverSent
                        /\ \/ lastSent' >= delivered[i].begun
                           \/ now >= delivered[i].begun + Interval
      BY <2>2 DEF Gated
    <3>1. lastSent' \in Nat /\ lastSent' # NeverSent
      BY <1>0, <2>2, DigestAssumption DEF DigestTypeOK, Instant, NeverSent
    <3>2. delivered[i].begun \in Nat /\ delivered[i].by \in DigestRequest
      BY <1>0, EmailTyped
    <3>3. now \in Nat /\ Interval \in Nat
      BY <1>0, DigestAssumption DEF DigestTypeOK, Instant
    <3>4. CASE delivered[i].by = r
      BY <2>2, <3>1, <3>2, <3>4 DEF Signed
    <3>5. CASE delivered[i].by # r
      <4>1. /\ lastSent # NeverSent
            /\ lastSent >= delivered[i].begun \/ now >= delivered[i].begun + Interval
        BY <2>3, <3>2, <3>5 DEF Gated, InDelivery
      <4>2. now >= lastSent + Interval /\ lastSent \in Nat
        BY <1>0, <2>1, <4>1 DEF Holding, InDelivery, Due, DigestTypeOK, Instant
      <4> QED BY <3>1, <3>2, <3>3, <4>1, <4>2
    <3> QED BY <3>4, <3>5
  <2>7. OneDigestAWeek'
    BY <2>2 DEF OneDigestAWeek
  <2>8. MarkedMeansDelivered'
    BY <2>1, <2>2 DEF MarkedMeansDelivered, HasEmail, Signed
  <2> QED BY <1>0, <2>4, <2>5, <2>6, <2>7, <2>8
<1>9. ASSUME NEW r \in DigestRequest, LoseDigest(r)
      PROVE  DigestInv'
  <2>1. at'[r] = "failed" /\ \A q : q # r => at'[q] = at[q]
    BY <1>0, <1>9 DEF LoseDigest, DigestTypeOK
  <2>2. UNCHANGED <<now, wanted, lastSent, begun>>
    BY <1>9 DEF LoseDigest
  <2>3. /\ DOMAIN delivered' = DOMAIN delivered
        /\ \A i \in DOMAIN delivered :
             /\ delivered'[i].by = delivered[i].by /\ delivered'[i].begun = delivered[i].begun
             /\ delivered'[i].at = delivered[i].at
             /\ delivered'[i].lost = (delivered[i].lost \/ delivered[i].by = r)
    BY <1>0, <1>9, Marked DEF LoseDigest, DigestTypeOK
  <2>4. Holding'
    BY <1>9, <2>1, <2>2, DigestAssumption DEF LoseDigest, Releases, Holding, InDelivery, Due
  <2>5. Signed'
    <3>1. \A i \in DOMAIN delivered : at'[delivered[i].by] = "failed" => delivered'[i].lost
      BY <2>1, <2>3 DEF Signed
    <3>2. \A i \in DOMAIN delivered : at'[delivered[i].by] \in {"delivered", "sent", "failed"}
      BY <2>1 DEF Signed
    <3> QED BY <2>2, <2>3, <3>1, <3>2 DEF Signed
  <2>6. HasEmail'
    BY <2>1, <2>3 DEF HasEmail
  <2>7. Gated'
    <3>1. \A i \in DOMAIN delivered :
            \/ delivered'[i].lost
            \/ ~delivered[i].lost /\ at'[delivered[i].by] = at[delivered[i].by]
      BY <2>1, <2>3 DEF Gated
    <3> QED BY <2>2, <2>3, <3>1 DEF Gated
  <2>8. OneDigestAWeek' /\ MarkedMeansDelivered'
    BY <2>2, <2>3 DEF OneDigestAWeek, MarkedMeansDelivered
  <2> QED BY <1>0, <2>4, <2>5, <2>6, <2>7, <2>8
<1>10. CASE UNCHANGED digestVars
  BY <1>0, <1>10
  DEF digestVars, Holding, InDelivery, Due, Signed, HasEmail, Gated, OneDigestAWeek,
      MarkedMeansDelivered
<1> QED
  BY <1>1, <1>2, <1>3, <1>4, <1>5, <1>6, <1>7, <1>8, <1>9, <1>10 DEF DigestNext

LEMMA DigestInvariant == DigestSpec => []DigestInv
  BY DigestInvInit, DigestInvNext, PTL DEF DigestSpec

\* No two digests go out within an interval, whatever tabs and retries ask
\* for, but for a delivery whose transaction was lost.
THEOREM DigestsAWeekApart == DigestSpec => []OneDigestAWeek
<1>1. DigestInv => OneDigestAWeek
  BY DEF DigestInv
<1> QED BY <1>1, DigestInvariant, PTL

\* The gate closes only on a digest that was delivered.
THEOREM GateClosesOnDelivery == DigestSpec => []MarkedMeansDelivered
<1>1. DigestInv => MarkedMeansDelivered
  BY DEF DigestInv
<1> QED BY <1>1, DigestInvariant, PTL

\* No digest goes out once it is turned off.
THEOREM DigestsAreWanted == DigestSpec => OnlyWantedDigests
<1>1. DigestInv /\ [DigestNext]_digestVars =>
        [\A r \in DigestRequest : at[r] = "claimed" /\ at'[r] = "delivered" => wanted]_digestVars
  BY DEF DigestInv, Holding, InDelivery
<1> QED BY <1>1, DigestInvariant, PTL DEF DigestSpec, OnlyWantedDigests
=============================================================================
