------------------------------ MODULE EditProofs ------------------------------
(***************************************************************************)
(* What a person's edits leave behind: proofs about WorkspaceEdits, for    *)
(* any jobs, edits and agent keys, and about Onboarding, for any number of *)
(* openings and requests.                                                  *)
(*                                                                         *)
(* Edits.  DismissalsMatch is not enough for itself: feedback extends the  *)
(* copy that was rendered, and a load composes a copy of the rows, so      *)
(* EditsInv says of copy, rendered copy and rows alike what holds of one.  *)
(* That no version is made twice rests on two facts a strategy keeps: its  *)
(* versions have a latest one, and its revisions are named by numbers      *)
(* already drawn or by an agent's keys.                                    *)
(*                                                                         *)
(* Onboarding.  "Back" and the list of steps lead to any step that was     *)
(* done, and an answer or an opening brings back another draft, so Whole   *)
(* says of EVERY draft the program keeps, those of requests under way      *)
(* included, that every step done or shown has its data.                   *)
(***************************************************************************)
EXTENDS WorkspaceEdits, Onboarding, SequenceTheorems, FiniteSetTheorems, TLAPS

\* The edits.
-----------------------------------------------------------------------------
\* A strategy as its table's keys want it, whose versions have a latest one and
\* whose revisions are named by an agent's key or by one of the first n numbers.
HasLatest(strategy) == \E v \in Versions(strategy) : \A w \in Versions(strategy) : w <= v
Sound(strategy, n) ==
  /\ strategy \in Strategy
  /\ WellFormed(strategy)
  /\ HasLatest(strategy)
  /\ \A revision \in strategy.revisions : revision.id \in (1 .. n) \cup AgentKey
AllSound(strategies, n) ==
  strategies \in Seq(Strategy) /\ \A i \in DOMAIN strategies : Sound(strategies[i], n)

\* What holds of a copy of the workspace, and of the tables.
Collections == [feedback : Seq(Feedback), dismissed : SUBSET Job, strategies : Seq(Strategy),
                alerts : Seq(Alert)]
CopyInv(c, n) ==
  /\ c \in Collections
  /\ Len(c.alerts) <= MaxAlerts
  /\ c.dismissed = DismissedBy(c.feedback)
  /\ AllSound(c.strategies, n)
RowsInv ==
  /\ rows \in [feedback : Seq(Feedback), strategies : Seq(Strategy)]
  /\ AllSound(rows.strategies, edits)

EditsInv ==
  edits \in 0 .. MaxEditsMade /\ CopyInv(copy, edits) /\ CopyInv(rendered, edits) /\ RowsInv
-----------------------------------------------------------------------------
\* A job is dismissed by feedback that dismisses it and was not taken back.
LEMMA DismissedByAny ==
  ASSUME NEW feedback \in Seq(Feedback)
  PROVE  /\ DismissedBy(feedback) \subseteq Job
         /\ \A job : job \in DismissedBy(feedback)
                     <=> \E i \in DOMAIN feedback : Dismissing(feedback[i], job)
<1>1. \A i \in DOMAIN feedback : feedback[i] \in Feedback
  BY LenProperties, ElementOfSeq
<1>2. \A job : job \in DismissedBy(feedback)
               <=> \E i \in DOMAIN feedback : Dismissing(feedback[i], job)
  BY DEF DismissedBy, ToSet, Dismissing
<1> QED
  BY <1>1, <1>2 DEF Dismissing, Feedback

\* Numbers drawn later do not disturb a strategy, nor a copy.
LEMMA SoundLater ==
  ASSUME NEW n \in Nat, NEW m \in Nat, n <= m
  PROVE  /\ \A s : Sound(s, n) => Sound(s, m)
         /\ \A ss : AllSound(ss, n) => AllSound(ss, m)
         /\ \A c : CopyInv(c, n) => CopyInv(c, m)
<1>1. 1 .. n \subseteq 1 .. m
  OBVIOUS
<1>2. \A s : Sound(s, n) => Sound(s, m)
  BY <1>1 DEF Sound
<1>3. \A ss : AllSound(ss, n) => AllSound(ss, m)
  BY <1>2 DEF AllSound
<1> QED
  BY <1>2, <1>3 DEF CopyInv

\* A strategy of one revision is sound.
LEMMA FirstIsSound ==
  ASSUME EditsAssumption, NEW n \in 0 .. MaxEditsMade, NEW name \in RevisionId,
         NEW id \in (1 .. n) \cup AgentKey
  PROVE  Sound(FirstOf(name, id), n)
<1> DEFINE only == [id |-> id, version |-> 1]
           first == FirstOf(name, id)
<1>1. only \in Revision /\ id \in RevisionId
  BY DEF RevisionId, Revision, EditsAssumption
<1>2. first.name = name /\ first.active = id /\ first.revisions = {only}
  BY DEF FirstOf
<1>3. first \in Strategy
  BY <1>1 DEF FirstOf, Strategy
<1>4. WellFormed(first)
  BY <1>2 DEF WellFormed
<1>5. Versions(first) = {1}
  BY <1>2 DEF Versions
<1>6. HasLatest(first)
  BY <1>5 DEF HasLatest
<1> QED
  BY <1>2, <1>3, <1>4, <1>6 DEF Sound

\* The next version is greater than every one there is.
LEMMA NextIsLater ==
  ASSUME NEW n \in Nat, NEW strategy, Sound(strategy, n)
  PROVE  /\ NextVersion(strategy) \in Nat
         /\ \A v \in Versions(strategy) : v \in Nat /\ v < NextVersion(strategy)
<1>1. Versions(strategy) \subseteq Nat
  BY DEF Sound, Strategy, Revision, Versions
<1>2. PICK top \in Versions(strategy) : \A w \in Versions(strategy) : w <= top
  BY DEF Sound, HasLatest
<1> DEFINE latest == CHOOSE v \in Versions(strategy) : \A w \in Versions(strategy) : w <= v
<1>3. latest \in Versions(strategy) /\ \A w \in Versions(strategy) : w <= latest
  BY <1>2
<1>4. NextVersion(strategy) = 1 + latest
  BY DEF NextVersion
<1> HIDE DEF latest
<1> QED
  BY <1>1, <1>3, <1>4

\* A strategy revised under a name it does not have yet is sound.
LEMMA RevisedIsSound ==
  ASSUME EditsAssumption, NEW n \in 0 .. MaxEditsMade, NEW strategy, Sound(strategy, n),
         NEW id \in (1 .. n) \cup AgentKey,
         id \notin {revision.id : revision \in strategy.revisions}
  PROVE  Sound(RevisedBy(strategy, id), n)
<1> DEFINE new == [id |-> id, version |-> NextVersion(strategy)]
           revised == RevisedBy(strategy, id)
<1>0. n \in Nat
  BY DEF EditsAssumption
<1>1. /\ NextVersion(strategy) \in Nat
      /\ \A v \in Versions(strategy) : v \in Nat /\ v < NextVersion(strategy)
  BY <1>0, NextIsLater
<1>2. new \in Revision /\ id \in RevisionId
  BY <1>1 DEF RevisionId, Revision, EditsAssumption
<1>3. strategy \in Strategy
  BY DEF Sound
<1>4. /\ revised \in Strategy /\ revised.active = id
      /\ revised.revisions = strategy.revisions \cup {new}
  BY <1>2, <1>3 DEF RevisedBy, Strategy
<1>5. \A r \in strategy.revisions : r.version \in Nat /\ r.version < NextVersion(strategy) /\ r.id # id
  BY <1>1 DEF Versions
<1>6. WellFormed(revised)
  <2>1. \A r, q \in strategy.revisions : r # q => r.version # q.version /\ r.id # q.id
    BY DEF Sound, WellFormed
  <2>2. \A r \in strategy.revisions : r.version # new.version /\ r.id # new.id
    BY <1>1, <1>5
  <2>3. new.id = id
    OBVIOUS
  <2> HIDE DEF new, revised
  <2> QED
    BY <2>1, <2>2, <2>3, <1>4 DEF WellFormed
<1>7. HasLatest(revised)
  <2>1. new.version = NextVersion(strategy)
    OBVIOUS
  <2> HIDE DEF new, revised
  <2>2. \A v \in Versions(revised) : v \in Versions(strategy) \/ v = NextVersion(strategy)
    BY <1>4, <2>1 DEF Versions
  <2>3. NextVersion(strategy) \in Versions(revised)
    BY <1>4, <2>1 DEF Versions
  <2> QED
    BY <2>2, <2>3, <1>1 DEF HasLatest
<1>8. \A r \in revised.revisions : r.id \in (1 .. n) \cup AgentKey
  BY <1>4 DEF Sound
<1> QED
  BY <1>4, <1>6, <1>7, <1>8 DEF Sound

\* A sound strategy may be put first.
LEMMA PutFirst ==
  ASSUME NEW n \in Nat, NEW ss, AllSound(ss, n), NEW s, Sound(s, n)
  PROVE  AllSound(<<s>> \o ss, n)
<1>1. ss \in Seq(Strategy) /\ <<s>> \in Seq(Strategy) /\ Len(<<s>>) = 1 /\ <<s>>[1] = s
  BY DEF AllSound, Sound
<1>2. /\ <<s>> \o ss \in Seq(Strategy) /\ Len(<<s>> \o ss) = 1 + Len(ss)
      /\ \A i \in 1 .. 1 + Len(ss) : (<<s>> \o ss)[i] = IF i <= 1 THEN <<s>>[i] ELSE ss[i - 1]
  BY <1>1, ConcatProperties
<1>3. Len(ss) \in Nat /\ DOMAIN ss = 1 .. Len(ss)
  BY <1>1, LenProperties
<1>4. DOMAIN (<<s>> \o ss) = 1 .. 1 + Len(ss)
  BY <1>2, LenProperties
<1>5. ASSUME NEW i \in 1 .. 1 + Len(ss)
      PROVE  Sound((<<s>> \o ss)[i], n)
  <2>1. CASE i = 1
    BY <2>1, <1>1, <1>2, <1>3
  <2>2. CASE i # 1
    <3>1. i - 1 \in DOMAIN ss /\ (<<s>> \o ss)[i] = ss[i - 1]
      BY <2>2, <1>2, <1>3
    <3> QED
      BY <3>1 DEF AllSound
  <2> QED
    BY <2>1, <2>2
<1> QED
  BY <1>2, <1>4, <1>5 DEF AllSound

\* The notification list never grows past its cap.
LEMMA CappedAlerts ==
  ASSUME EditsAssumption, NEW alerts \in Seq(Alert), NEW alert \in Alert
  PROVE  Capped(<<alert>> \o alerts) \in Seq(Alert) /\ Len(Capped(<<alert>> \o alerts)) <= MaxAlerts
<1> DEFINE all == <<alert>> \o alerts
           kept == IF Len(all) < MaxAlerts THEN Len(all) ELSE MaxAlerts
<1>1. all \in Seq(Alert)
  BY ConcatProperties
<1> HIDE DEF all
<1>2. Len(all) \in Nat /\ DOMAIN all = 1 .. Len(all) /\ MaxAlerts \in Nat \ {0}
  BY <1>1, LenProperties DEF EditsAssumption
<1>3. kept \in Int /\ kept <= Len(all) /\ kept <= MaxAlerts /\ 0 <= kept
  BY <1>2
<1> HIDE DEF kept
<1>4. \A i \in 1 .. kept : all[i] \in Alert
  BY <1>1, <1>2, <1>3, ElementOfSeq
<1>5. /\ SubSeq(all, 1, kept) \in Seq(Alert)
      /\ Len(SubSeq(all, 1, kept)) = IF 1 <= kept THEN kept - 1 + 1 ELSE 0
  BY <1>3, <1>4, SubSeqProperties
<1>6. Capped(all) = SubSeq(all, 1, kept)
  BY DEF Capped, kept
<1>7. Len(SubSeq(all, 1, kept)) <= MaxAlerts
  BY <1>2, <1>3, <1>5
<1> QED
  BY <1>5, <1>6, <1>7 DEF all

\* Whatever is made of a copy, shown at once or not: if it is a good copy,
\* all is well.
LEMMA AnEdit ==
  ASSUME EditsAssumption, EditsInv, NEW next, CopyInv(next, edits'), Counted,
         copy' = next, rendered' \in {rendered, next}, UNCHANGED rows
  PROVE  EditsInv'
<1>1. /\ edits \in Nat /\ edits' \in 0 .. MaxEditsMade /\ edits' \in Nat /\ edits <= edits'
  BY DEF EditsInv, Counted, EditsAssumption
<1>2. CopyInv(rendered, edits') /\ AllSound(rows.strategies, edits')
  BY <1>1, SoundLater DEF EditsInv, RowsInv
<1>3. rendered' = rendered \/ rendered' = next
  OBVIOUS
<1>4. CopyInv(copy', edits')
  OBVIOUS
<1>5. CopyInv(rendered', edits')
  BY <1>2, <1>3
<1>6. RowsInv'
  BY <1>2 DEF EditsInv, RowsInv
<1> QED
  BY <1>1, <1>4, <1>5, <1>6 DEF EditsInv

\* The number an edit draws is a name nothing bears yet.
LEMMA Drawn ==
  ASSUME EditsAssumption, EditsInv, Counted
  PROVE  /\ edits' \in 0 .. MaxEditsMade /\ edits' \in 1 .. edits' /\ edits' \in RevisionId
         /\ edits' \in Nat /\ edits \in Nat /\ edits <= edits'
         /\ \A s : Sound(s, edits) => edits' \notin {revision.id : revision \in s.revisions}
         /\ CopyInv(copy, edits') /\ CopyInv(rendered, edits')
<1>1. /\ edits' \in 0 .. MaxEditsMade /\ edits' \in 1 .. edits' /\ edits' \in Nat
      /\ edits \in Nat /\ edits <= edits' /\ edits' \notin 1 .. edits
  BY DEF EditsInv, Counted, EditsAssumption
<1>2. edits' \notin AgentKey /\ edits' \in RevisionId
  BY <1>1 DEF EditsAssumption, RevisionId
<1>3. \A s : Sound(s, edits) => edits' \notin {revision.id : revision \in s.revisions}
  BY <1>1, <1>2 DEF Sound
<1>4. CopyInv(copy, edits') /\ CopyInv(rendered, edits')
  BY <1>1, SoundLater DEF EditsInv
<1> QED
  BY <1>1, <1>2, <1>3, <1>4

\* Feedback on the copy that was rendered.
LEMMA FeedbackKeeps ==
  ASSUME EditsAssumption, EditsInv, NEW job \in Job, NEW dismisses \in BOOLEAN,
         AddFeedback(job, dismisses)
  PROVE  EditsInv'
<1> DEFINE given == [job |-> job, dismisses |-> dismisses, undone |-> FALSE]
           all == Append(rendered.feedback, given)
           hidden == IF dismisses THEN rendered.dismissed \cup {job} ELSE rendered.dismissed
           next == [rendered EXCEPT !.feedback = all, !.dismissed = hidden]
<1>1. Counted /\ copy' = next /\ rendered' = next /\ UNCHANGED rows
  BY DEF AddFeedback, ByPerson
<1>2. CopyInv(rendered, edits')
  BY <1>1, Drawn
<1>3. /\ rendered.feedback \in Seq(Feedback) /\ given \in Feedback
      /\ Len(rendered.feedback) \in Nat /\ DOMAIN rendered.feedback = 1 .. Len(rendered.feedback)
  BY <1>2, LenProperties DEF CopyInv, Collections, Feedback
<1>4. /\ all \in Seq(Feedback) /\ DOMAIN all = 1 .. Len(rendered.feedback) + 1
      /\ \A i \in DOMAIN rendered.feedback : all[i] = rendered.feedback[i]
      /\ all[Len(rendered.feedback) + 1] = given
  BY <1>3
<1>5. \A j : Dismissing(given, j) <=> j = job /\ dismisses
  BY DEF Dismissing
<1> HIDE DEF given, all, hidden
<1>6. /\ next.feedback = all /\ next.dismissed = hidden
      /\ next.strategies = rendered.strategies /\ next.alerts = rendered.alerts
      /\ all \in Seq(Feedback) /\ hidden \in SUBSET Job => next \in Collections
  BY <1>2 DEF CopyInv, Collections
<1> HIDE DEF next
<1>7. \A j : (\E i \in DOMAIN all : Dismissing(all[i], j))
             <=> (\E i \in DOMAIN rendered.feedback : Dismissing(rendered.feedback[i], j))
                 \/ Dismissing(given, j)
  BY <1>3, <1>4
<1>8. /\ \A j : j \in DismissedBy(all) <=> j \in DismissedBy(rendered.feedback) \/ (j = job /\ dismisses)
      /\ DismissedBy(all) \subseteq Job
  BY <1>3, <1>4, <1>5, <1>7, DismissedByAny
<1>9. hidden = DismissedBy(all)
  BY <1>2, <1>8 DEF CopyInv, hidden
<1>10. CopyInv(next, edits')
  BY <1>2, <1>4, <1>6, <1>8, <1>9 DEF CopyInv
<1> QED
  BY <1>1, <1>10, AnEdit

\* Taking feedback back: other feedback may still dismiss the job.
LEMMA UndoKeeps ==
  ASSUME EditsAssumption, EditsInv, NEW i \in DOMAIN copy.feedback, UndoFeedback(i)
  PROVE  EditsInv'
<1> DEFINE job == copy.feedback[i].job
           all == [copy.feedback EXCEPT ![i].undone = TRUE]
           hidden == IF StillDismissed(copy.feedback, i) THEN copy.dismissed ELSE copy.dismissed \ {job}
           next == [copy EXCEPT !.feedback = all, !.dismissed = hidden]
<1>1. Counted /\ copy' = next /\ rendered' = next /\ UNCHANGED rows
  BY DEF UndoFeedback, ByPerson
<1>2. CopyInv(copy, edits')
  BY <1>1, Drawn
<1>3. /\ copy.feedback \in Seq(Feedback) /\ copy.feedback[i] \in Feedback
      /\ DOMAIN copy.feedback = 1 .. Len(copy.feedback)
  BY <1>2, LenProperties, ElementOfSeq DEF CopyInv, Collections
<1>4. [copy.feedback[i] EXCEPT !.undone = TRUE] \in Feedback
  BY <1>3 DEF Feedback
<1>5. all \in Seq(Feedback)
  BY <1>3, <1>4, ExceptSeq
<1>6. /\ DOMAIN all = DOMAIN copy.feedback
      /\ \A k \in DOMAIN copy.feedback : k # i => all[k] = copy.feedback[k]
      /\ all[i].undone = TRUE
  BY <1>3, <1>4 DEF Feedback
<1> HIDE DEF all, hidden
<1>7. /\ next.feedback = all /\ next.dismissed = hidden
      /\ next.strategies = copy.strategies /\ next.alerts = copy.alerts
      /\ all \in Seq(Feedback) /\ hidden \in SUBSET Job => next \in Collections
  BY <1>2 DEF CopyInv, Collections
<1> HIDE DEF next
<1>8. \A j : (\E k \in DOMAIN all : Dismissing(all[k], j))
             <=> (\E k \in DOMAIN copy.feedback \ {i} : Dismissing(copy.feedback[k], j))
  BY <1>6 DEF Dismissing
<1>9. \A j : (\E k \in DOMAIN copy.feedback : Dismissing(copy.feedback[k], j))
             <=> \/ \E k \in DOMAIN copy.feedback \ {i} : Dismissing(copy.feedback[k], j)
                 \/ Dismissing(copy.feedback[i], j)
  OBVIOUS
<1>10. \A j : Dismissing(copy.feedback[i], j) => j = job
  BY DEF Dismissing
<1>11. /\ \A j : j \in DismissedBy(all)
                 <=> \E k \in DOMAIN copy.feedback \ {i} : Dismissing(copy.feedback[k], j)
       /\ DismissedBy(all) \subseteq Job
  BY <1>5, <1>8, DismissedByAny
<1>12. \A j : j \in copy.dismissed
              <=> \/ \E k \in DOMAIN copy.feedback \ {i} : Dismissing(copy.feedback[k], j)
                  \/ Dismissing(copy.feedback[i], j)
  <2>1. \A j : j \in DismissedBy(copy.feedback)
               <=> \E k \in DOMAIN copy.feedback : Dismissing(copy.feedback[k], j)
    BY <1>3, DismissedByAny
  <2>2. copy.dismissed = DismissedBy(copy.feedback)
    BY <1>2 DEF CopyInv
  <2> QED
    BY <2>1, <2>2, <1>9
<1>13. \A j : j # job => (j \in DismissedBy(all) <=> j \in copy.dismissed)
  BY <1>10, <1>11, <1>12
<1>14. job \in DismissedBy(all) <=> StillDismissed(copy.feedback, i)
  BY <1>11 DEF StillDismissed
<1>15. DismissedBy(all) \subseteq copy.dismissed
  BY <1>11, <1>12
<1> HIDE DEF job
<1>16. hidden = DismissedBy(all)
  BY <1>13, <1>14, <1>15 DEF hidden
<1>17. CopyInv(next, edits')
  BY <1>2, <1>5, <1>7, <1>11, <1>16 DEF CopyInv
<1> QED
  BY <1>1, <1>17, AnEdit

\* A copy may have other strategies, and other notifications.
LEMMA OtherLists ==
  ASSUME NEW n, NEW c, CopyInv(c, n)
  PROVE  /\ \A ss : AllSound(ss, n) => CopyInv([c EXCEPT !.strategies = ss], n)
         /\ \A aa \in Seq(Alert) : Len(aa) <= MaxAlerts => CopyInv([c EXCEPT !.alerts = aa], n)
<1>1. ASSUME NEW ss, AllSound(ss, n)
      PROVE  CopyInv([c EXCEPT !.strategies = ss], n)
  <2> DEFINE d == [c EXCEPT !.strategies = ss]
  <2>1. /\ d.strategies = ss /\ d.feedback = c.feedback /\ d.dismissed = c.dismissed
        /\ d.alerts = c.alerts /\ d \in Collections
    BY <1>1 DEF CopyInv, Collections, AllSound
  <2> HIDE DEF d
  <2>2. CopyInv(d, n)
    BY <1>1, <2>1 DEF CopyInv
  <2> QED
    BY <2>2 DEF d
<1>2. ASSUME NEW aa \in Seq(Alert), Len(aa) <= MaxAlerts
      PROVE  CopyInv([c EXCEPT !.alerts = aa], n)
  <2> DEFINE d == [c EXCEPT !.alerts = aa]
  <2>1. /\ d.strategies = c.strategies /\ d.feedback = c.feedback /\ d.dismissed = c.dismissed
        /\ d.alerts = aa /\ d \in Collections
    BY <1>2 DEF CopyInv, Collections
  <2> HIDE DEF d
  <2>2. CopyInv(d, n)
    BY <1>2, <2>1 DEF CopyInv
  <2> QED
    BY <2>2 DEF d
<1> QED
  BY <1>1, <1>2

\* One strategy more: the person's own, a duplicate, or the profile's first.
LEMMA NewStrategyKeeps ==
  ASSUME EditsAssumption, EditsInv,
         CreateStrategy \/ Reconcile \/ \E i \in DOMAIN copy.strategies : DuplicateStrategy(i)
  PROVE  EditsInv'
<1> DEFINE fresh == FirstOf(edits', edits')
           more == <<fresh>> \o copy.strategies
<1>1. Counted /\ UNCHANGED rows
  BY DEF CreateStrategy, Reconcile, DuplicateStrategy, ByPerson
<1>2. Sound(fresh, edits')
  BY <1>1, Drawn, FirstIsSound
<1>3. CopyInv(copy, edits') /\ edits' \in Nat
  BY <1>1, Drawn
<1>4. AllSound(more, edits')
  BY <1>2, <1>3, PutFirst DEF CopyInv
<1>5. CASE CreateStrategy \/ \E i \in DOMAIN copy.strategies : DuplicateStrategy(i)
  <2> DEFINE next == [copy EXCEPT !.strategies = more]
  <2>1. copy' = next /\ rendered' = next
    BY <1>5 DEF CreateStrategy, DuplicateStrategy, ByPerson
  <2>2. CopyInv(next, edits')
    BY <1>3, <1>4, OtherLists
  <2> HIDE DEF next
  <2> QED
    BY <1>1, <2>1, <2>2, AnEdit
<1>6. CASE Reconcile
  <2> DEFINE next == [copy EXCEPT !.strategies = <<fresh>>]
  <2>1. copy' = next /\ rendered' \in {rendered, next} /\ copy.strategies = <<>>
    BY <1>6 DEF Reconcile, BehindTheScreen
  <2>2. AllSound(<<fresh>>, edits')
    BY <1>2 DEF AllSound, Sound
  <2>3. CopyInv(next, edits')
    BY <1>3, <2>2, OtherLists
  <2> HIDE DEF next
  <2> QED
    BY <1>1, <2>1, <2>3, AnEdit
<1> QED
  BY <1>5, <1>6

\* The next revision of the strategies of a name, or that strategy again.
LEMMA EditStrategyKeeps ==
  ASSUME EditsAssumption, EditsInv, NEW strategy \in ToSet(rendered.strategies),
         EditStrategy(strategy.name)
  PROVE  EditsInv'
<1> DEFINE name == strategy.name
           there == Named(copy.strategies, name)
           again == <<FirstOf(name, edits')>> \o copy.strategies
           revised == [i \in DOMAIN copy.strategies |->
                        IF i \in there THEN RevisedBy(copy.strategies[i], edits') ELSE copy.strategies[i]]
           list == IF there = {} THEN again ELSE revised
           next == [copy EXCEPT !.strategies = list]
<1>1. Counted /\ UNCHANGED rows /\ copy' = next /\ rendered' \in {rendered, next}
  BY DEF EditStrategy, BehindTheScreen
<1>2. name \in RevisionId
  BY LenProperties, ElementOfSeq DEF EditsInv, CopyInv, AllSound, Sound, Strategy, ToSet
<1>3. /\ CopyInv(copy, edits') /\ edits' \in Nat /\ edits' \in 0 .. MaxEditsMade
      /\ edits' \in (1 .. edits') \cup AgentKey
  BY <1>1, Drawn
<1>4. AllSound(again, edits')
  <2>1. Sound(FirstOf(name, edits'), edits')
    BY <1>2, <1>3, FirstIsSound
  <2> QED
    BY <1>3, <2>1, PutFirst DEF CopyInv
<1>5. AllSound(revised, edits')
  <2>1. copy.strategies \in Seq(Strategy) /\ DOMAIN copy.strategies = 1 .. Len(copy.strategies)
        /\ Len(copy.strategies) \in Nat
    BY <1>3, LenProperties DEF CopyInv, AllSound
  <2>2. ASSUME NEW i \in DOMAIN copy.strategies
        PROVE  /\ Sound(copy.strategies[i], edits')
               /\ Sound(RevisedBy(copy.strategies[i], edits'), edits')
    <3>1. Sound(copy.strategies[i], edits')
      BY <1>3 DEF CopyInv, AllSound
    <3>2. Sound(copy.strategies[i], edits)
      BY DEF EditsInv, CopyInv, AllSound
    <3>3. edits' \notin {revision.id : revision \in copy.strategies[i].revisions}
      BY <1>1, <3>2, Drawn
    <3> QED
      BY <1>3, <3>1, <3>3, RevisedIsSound
  <2>3. \A i \in DOMAIN copy.strategies : Sound(revised[i], edits')
    BY <2>2
  <2>4. DOMAIN revised = 1 .. Len(copy.strategies)
    BY <2>1
  <2>5. \A i \in DOMAIN copy.strategies : revised[i] \in Strategy
    BY <2>3 DEF Sound
  <2>6. revised \in [1 .. Len(copy.strategies) -> Strategy]
    BY <2>1, <2>5
  <2> HIDE DEF revised
  <2>7. revised \in Seq(Strategy)
    BY <2>1, <2>6
  <2> QED
    BY <2>1, <2>3, <2>4, <2>7 DEF AllSound
<1> HIDE DEF again, revised
<1>6. AllSound(list, edits')
  BY <1>4, <1>5
<1>7. CopyInv(next, edits')
  BY <1>3, <1>6, OtherLists
<1> HIDE DEF next
<1> QED
  BY <1>1, <1>7, AnEdit

\* A notification more, or one dismissed.
LEMMA AlertsKeep ==
  ASSUME EditsAssumption, EditsInv,
         \/ \E key \in Job \X Event : Announce(key)
         \/ \E i \in DOMAIN copy.alerts : DismissAlert(i)
  PROVE  EditsInv'
<1>1. Counted /\ UNCHANGED rows
  BY DEF Announce, DismissAlert, ByPerson
<1>2. CopyInv(copy, edits') /\ copy.alerts \in Seq(Alert) /\ Len(copy.alerts) <= MaxAlerts
  BY <1>1, Drawn DEF CopyInv, Collections
<1>3. CASE \E key \in Job \X Event : Announce(key)
  <2>1. PICK key \in Job \X Event : Announce(key)
    BY <1>3
  <2> DEFINE alert == [key |-> key, dismissed |-> FALSE]
             list == Capped(<<alert>> \o copy.alerts)
             next == [copy EXCEPT !.alerts = list]
  <2>2. copy' = next /\ rendered' \in {rendered, next}
    BY <2>1 DEF Announce, BehindTheScreen
  <2>3. list \in Seq(Alert) /\ Len(list) <= MaxAlerts
    <3>1. alert \in Alert
      BY DEF Alert
    <3> QED
      BY <1>2, <3>1, CappedAlerts
  <2> HIDE DEF list
  <2>4. CopyInv(next, edits')
    BY <1>2, <2>3, OtherLists
  <2> HIDE DEF next
  <2> QED
    BY <1>1, <2>2, <2>4, AnEdit
<1>4. CASE \E i \in DOMAIN copy.alerts : DismissAlert(i)
  <2>1. PICK i \in DOMAIN copy.alerts : DismissAlert(i)
    BY <1>4
  <2> DEFINE list == [copy.alerts EXCEPT ![i].dismissed = TRUE]
             next == [copy EXCEPT !.alerts = list]
  <2>2. copy' = next /\ rendered' = next
    BY <2>1 DEF DismissAlert, ByPerson
  <2>3. list \in Seq(Alert) /\ Len(list) <= MaxAlerts
    <3>1. i \in 1 .. Len(copy.alerts) /\ copy.alerts[i] \in Alert
      BY <1>2, LenProperties, ElementOfSeq
    <3>2. [copy.alerts[i] EXCEPT !.dismissed = TRUE] \in Alert
      BY <3>1 DEF Alert
    <3> QED
      BY <1>2, <3>1, <3>2, ExceptSeq
  <2> HIDE DEF list
  <2>4. CopyInv(next, edits')
    BY <1>2, <2>3, OtherLists
  <2> HIDE DEF next
  <2> QED
    BY <1>1, <2>2, <2>4, AnEdit
<1> QED
  BY <1>3, <1>4

\* A save makes the rows the copy's, a load a copy of the rows.
LEMMA SaveAndLoadKeep ==
  ASSUME EditsAssumption, EditsInv, SaveCopy \/ LoadCopy
  PROVE  EditsInv'
<1>1. CASE SaveCopy
  <2>1. /\ rows' = [feedback |-> copy.feedback, strategies |-> copy.strategies]
        /\ copy' = copy /\ rendered' = rendered /\ edits' = edits
    BY <1>1 DEF SaveCopy
  <2>2. /\ copy.feedback \in Seq(Feedback) /\ AllSound(copy.strategies, edits)
        /\ copy.strategies \in Seq(Strategy)
    BY DEF EditsInv, CopyInv, Collections
  <2>3. RowsInv'
    BY <2>1, <2>2 DEF RowsInv
  <2> QED
    BY <2>1, <2>3 DEF EditsInv
<1>2. CASE LoadCopy
  <2> DEFINE next == [feedback |-> rows.feedback, dismissed |-> DismissedBy(rows.feedback),
                      strategies |-> rows.strategies, alerts |-> <<>>]
  <2>1. copy' = next /\ rendered' \in {rendered, next} /\ rows' = rows /\ edits' = edits
    BY <1>2 DEF LoadCopy, BehindTheScreen
  <2>2. /\ rows.feedback \in Seq(Feedback) /\ AllSound(rows.strategies, edits)
        /\ rows.strategies \in Seq(Strategy)
    BY DEF EditsInv, RowsInv
  <2>3. DismissedBy(rows.feedback) \in SUBSET Job
    BY <2>2, DismissedByAny
  <2>4. <<>> \in Seq(Alert) /\ Len(<<>>) <= MaxAlerts
    BY DEF EditsAssumption
  <2>5. CopyInv(next, edits)
    BY <2>2, <2>3, <2>4 DEF CopyInv, Collections
  <2> HIDE DEF next
  <2> QED
    BY <2>1, <2>5 DEF EditsInv, RowsInv
<1> QED
  BY <1>1, <1>2

\* An agent's strategy, and an agent's revision.
LEMMA AgentKeeps ==
  ASSUME EditsAssumption, EditsInv, NEW key \in AgentKey,
         AgentCreates(key) \/ \E i \in DOMAIN rows.strategies : AgentRevises(i, key)
  PROVE  EditsInv'
<1>1. /\ edits \in Nat /\ edits \in 0 .. MaxEditsMade /\ key \in RevisionId
      /\ key \in (1 .. edits) \cup AgentKey
  BY DEF EditsInv, EditsAssumption, RevisionId
<1>2. rows.strategies \in Seq(Strategy) /\ AllSound(rows.strategies, edits)
  BY DEF EditsInv, RowsInv
<1>3. copy' = copy /\ rendered' = rendered /\ edits' = edits
  BY DEF AgentCreates, AgentRevises
<1>4. ASSUME NEW list, AllSound(list, edits), rows' = [rows EXCEPT !.strategies = list]
      PROVE  EditsInv'
  <2>1. rows'.strategies = list /\ rows' \in [feedback : Seq(Feedback), strategies : Seq(Strategy)]
    BY <1>4 DEF EditsInv, RowsInv, AllSound
  <2>2. RowsInv'
    BY <1>3, <1>4, <2>1 DEF RowsInv
  <2> QED
    BY <1>3, <2>2 DEF EditsInv
<1>5. CASE AgentCreates(key)
  <2>1. rows' = [rows EXCEPT !.strategies = <<FirstOf(key, key)>> \o rows.strategies]
    BY <1>5 DEF AgentCreates
  <2>2. Sound(FirstOf(key, key), edits)
    BY <1>1, FirstIsSound
  <2>3. AllSound(<<FirstOf(key, key)>> \o rows.strategies, edits)
    BY <1>1, <1>2, <2>2, PutFirst
  <2> QED
    BY <1>4, <2>1, <2>3
<1>6. CASE \E i \in DOMAIN rows.strategies : AgentRevises(i, key)
  <2>1. PICK i \in DOMAIN rows.strategies : AgentRevises(i, key)
    BY <1>6
  <2> DEFINE revised == RevisedBy(rows.strategies[i], key)
             list == [rows.strategies EXCEPT ![i] = revised]
  <2>2. /\ rows' = [rows EXCEPT !.strategies = list]
        /\ key \notin {revision.id : revision \in rows.strategies[i].revisions}
    BY <2>1 DEF AgentRevises
  <2>3. Sound(rows.strategies[i], edits)
    BY <1>2 DEF AllSound
  <2>4. Sound(revised, edits)
    BY <1>1, <2>2, <2>3, RevisedIsSound
  <2> HIDE DEF revised
  <2>5. list \in Seq(Strategy)
    BY <1>2, <2>4, LenProperties, ExceptSeq DEF Sound
  <2>6. DOMAIN list = DOMAIN rows.strategies
    OBVIOUS
  <2>7. \A k \in DOMAIN rows.strategies : Sound(list[k], edits)
    BY <1>2, <2>4 DEF AllSound
  <2>8. AllSound(list, edits)
    BY <2>5, <2>6, <2>7 DEF AllSound
  <2> QED
    BY <1>4, <2>2, <2>8
<1> QED
  BY <1>5, <1>6

\* An empty workspace is a good copy of empty tables.
LEMMA EditsStart ==
  ASSUME EditsAssumption, EditsInit
  PROVE  EditsInv
<1>1. AllSound(<<>>, 0)
  BY DEF AllSound
<1>2. DismissedBy(<<>>) = {} /\ <<>> \in Seq(Feedback) /\ <<>> \in Seq(Alert)
  BY DEF DismissedBy, ToSet
<1>3. CopyInv(Blank, 0)
  BY <1>1, <1>2 DEF Blank, CopyInv, Collections, AllSound, EditsAssumption
<1>4. RowsInv
  BY <1>1, <1>2 DEF EditsInit, RowsInv, AllSound
<1> QED
  BY <1>3, <1>4 DEF EditsInit, EditsInv, EditsAssumption

\* Every edit, save, load and tool call keeps copy and rows good.
LEMMA EditsStep ==
  ASSUME EditsAssumption, EditsInv, [EditsNext]_editVars
  PROVE  EditsInv'
<1>1. ASSUME NEW job \in Job, NEW dismisses \in BOOLEAN, AddFeedback(job, dismisses)
      PROVE  EditsInv'
  BY <1>1, FeedbackKeeps
<1>2. ASSUME NEW i \in DOMAIN copy.feedback, UndoFeedback(i)
      PROVE  EditsInv'
  BY <1>2, UndoKeeps
<1>3. CASE CreateStrategy \/ Reconcile \/ \E i \in DOMAIN copy.strategies : DuplicateStrategy(i)
  BY <1>3, NewStrategyKeeps
<1>4. CASE SaveCopy \/ LoadCopy
  BY <1>4, SaveAndLoadKeep
<1>5. ASSUME NEW strategy \in ToSet(rendered.strategies), EditStrategy(strategy.name)
      PROVE  EditsInv'
  BY <1>5, EditStrategyKeeps
<1>6. CASE \/ \E key \in Job \X Event : Announce(key)
           \/ \E i \in DOMAIN copy.alerts : DismissAlert(i)
  BY <1>6, AlertsKeep
<1>7. ASSUME NEW key \in AgentKey,
             AgentCreates(key) \/ \E i \in DOMAIN rows.strategies : AgentRevises(i, key)
      PROVE  EditsInv'
  BY <1>7, AgentKeeps
<1>8. CASE UNCHANGED editVars
  BY <1>8 DEF editVars, EditsInv, RowsInv
<1> QED
  BY <1>1, <1>2, <1>3, <1>4, <1>5, <1>6, <1>7, <1>8 DEF EditsNext

\* So they are good for ever.
LEMMA EditsKept == EditsSpec => []EditsInv
<1>1. EditsInit => EditsInv
  BY EditsAssumption, EditsStart
<1>2. EditsInv /\ [EditsNext]_editVars => EditsInv'
  BY EditsAssumption, EditsStep
<1> QED
  BY <1>1, <1>2, PTL DEF EditsSpec

\* Every collection of the tab and of the tables stays within its domain, and
\* the notifications within their cap, whatever the edits, saves and loads.
THEOREM EditsStayTyped == EditsSpec => []EditsTypeOK
<1>1. ASSUME NEW c, CopyInv(c, edits)
      PROVE  CopyOK(c)
  <2>1. /\ c.feedback \in Seq(Feedback) /\ c.strategies \in Seq(Strategy) /\ c.alerts \in Seq(Alert)
        /\ c.dismissed \subseteq Job /\ Len(c.alerts) <= MaxAlerts
    BY <1>1 DEF CopyInv, Collections
  <2>2. \A s \in ToSet(c.strategies) : s \in Strategy
    BY <2>1, LenProperties, ElementOfSeq DEF ToSet
  <2>3. /\ \A r \in ToSet(c.feedback) : r \in Feedback
        /\ \A a \in ToSet(c.alerts) : a \in Alert
    BY <2>1, LenProperties, ElementOfSeq DEF ToSet
  <2> QED
    BY <2>1, <2>2, <2>3 DEF CopyOK, Strategy
<1>2. EditsInv => EditsTypeOK
  <2> SUFFICES ASSUME EditsInv PROVE EditsTypeOK
    OBVIOUS
  <2>1. CopyOK(copy) /\ CopyOK(rendered)
    BY <1>1 DEF EditsInv
  <2>2. ToSet(rows.feedback) \subseteq Feedback
    BY LenProperties, ElementOfSeq DEF EditsInv, RowsInv, ToSet
  <2> QED
    BY <2>1, <2>2 DEF EditsTypeOK, EditsInv
<1> QED
  BY <1>2, EditsKept, PTL

\* What the tab hides is always what its feedback dismisses, as the server
\* would derive it (dailyProduct.ts and user_workspace.rs keep the two apart).
THEOREM DismissalsFollow == EditsSpec => []DismissalsMatch
<1>1. EditsInv => DismissalsMatch
  BY DEF EditsInv, CopyInv, DismissalsMatch
<1> QED
  BY <1>1, EditsKept, PTL

\* No strategy has a version twice or an active revision it does not hold,
\* in the tab or in the tables, whoever revised it in whatever order.
THEOREM StrategiesAreSound == EditsSpec => []StrategiesWellFormed
<1>1. EditsInv => StrategiesWellFormed
  BY DEF EditsInv, CopyInv, RowsInv, AllSound, Sound, ToSet, StrategiesWellFormed
<1> QED
  BY <1>1, EditsKept, PTL
-----------------------------------------------------------------------------
\* The onboarding.

Profile == [confirmed : BOOLEAN, row : Nat]
Plan == {"empty", "queries"}
Draft ==
  [step : OnboardingStep, done : SUBSET OnboardingStep, completed : BOOLEAN,
   profile : {Unset} \cup Profile, plan : {Unset} \cup Plan]

HasData(d, step) ==
  /\ Place(step) > Place("profile-source") => d.profile # Unset
  /\ Place(step) >= Place("strategy-preview") => d.plan # Unset
Whole(d) == d \in Draft /\ HasData(d, d.step) /\ \A step \in d.done : HasData(d, step)
Filled(d) == Whole(d) /\ d.profile \in Profile /\ d.plan \in Plan

OnboardingInv ==
  /\ Whole(draft) /\ Whole(onboarding)
  /\ opening \in Nat /\ openings \in Nat /\ savedRows \in Nat /\ candidate \in {Unset} \cup Profile
  /\ resumes \subseteq [draft : Draft, opening : Nat]
  /\ starting \subseteq [draft : Draft, opening : Nat, saved : BOOLEAN]
  /\ \A r \in resumes : Whole(r.draft)
  /\ \A r \in starting : Filled(r.draft)
-----------------------------------------------------------------------------
LEMMA Unequal == Unset \notin Profile /\ Unset \notin Plan
BY OnboardingAssumption DEF Profile, Plan

LEMMA Steps ==
  /\ OnboardingStep = {"welcome", "profile-source", "review-facts", "career-goals",
                       "location-eligibility", "hard-constraints", "strategy-preview", "run-search"}
  /\ DOMAIN OnboardingSteps = 1 .. 8
BY DEF OnboardingStep, OnboardingSteps, ToSet

LEMMA Places ==
  /\ \A step \in OnboardingStep : Place(step) \in 1 .. 8
  /\ Place("welcome") = 1 /\ Place("profile-source") = 2 /\ Place("review-facts") = 3
  /\ Place("career-goals") = 4 /\ Place("location-eligibility") = 5
  /\ Place("hard-constraints") = 6 /\ Place("strategy-preview") = 7 /\ Place("run-search") = 8
<1>1. ASSUME NEW i \in 1 .. 8, NEW k \in 1 .. 8, OnboardingSteps[i] = OnboardingSteps[k]
      PROVE  i = k
  BY <1>1 DEF OnboardingSteps
<1>2. ASSUME NEW i \in 1 .. 8 PROVE Place(OnboardingSteps[i]) = i
  BY <1>1, Steps DEF Place
<1>3. /\ OnboardingSteps[1] = "welcome" /\ OnboardingSteps[2] = "profile-source"
      /\ OnboardingSteps[3] = "review-facts" /\ OnboardingSteps[4] = "career-goals"
      /\ OnboardingSteps[5] = "location-eligibility" /\ OnboardingSteps[6] = "hard-constraints"
      /\ OnboardingSteps[7] = "strategy-preview" /\ OnboardingSteps[8] = "run-search"
  BY DEF OnboardingSteps
<1>4. /\ Place("welcome") = 1 /\ Place("profile-source") = 2 /\ Place("review-facts") = 3
      /\ Place("career-goals") = 4 /\ Place("location-eligibility") = 5
      /\ Place("hard-constraints") = 6 /\ Place("strategy-preview") = 7 /\ Place("run-search") = 8
  BY <1>2, <1>3
<1>5. \A step \in OnboardingStep : Place(step) \in 1 .. 8
  BY <1>4, Steps
<1> QED BY <1>4, <1>5

\* A draft that goes to a step whose data it has.
LEMMA WentWhole ==
  ASSUME NEW d, Whole(d), NEW step \in OnboardingStep, HasData(d, step)
  PROVE  Whole(Went(d, step))
<1>1. /\ Went(d, step) \in Draft /\ Went(d, step).step = step
      /\ Went(d, step).profile = d.profile /\ Went(d, step).plan = d.plan
      /\ Went(d, step).done \subseteq d.done \cup {d.step}
  BY DEF Went, Whole, Draft
<1> QED BY <1>1 DEF Whole, HasData

\* A draft with a profile and a plan.
LEMMA WithWhole ==
  ASSUME NEW d, Whole(d), NEW profile \in Profile, NEW plan \in Plan
  PROVE  Whole(With(d, profile, plan)) /\ Filled(With(d, profile, plan))
<1>1. /\ With(d, profile, plan) \in Draft /\ With(d, profile, plan).profile = profile
      /\ With(d, profile, plan).plan = plan
  BY DEF With, Whole, Draft
<1> QED BY <1>1, Unequal DEF Whole, Filled, HasData

LEMMA FilledHasAll ==
  ASSUME NEW d, Filled(d), NEW step PROVE HasData(d, step) /\ Whole(d)
BY Unequal DEF Filled, HasData

\* What a draft of a step has.
LEMMA StepData ==
  ASSUME NEW d, Whole(d)
  PROVE  /\ HasData(d, "welcome") /\ HasData(d, "profile-source")
         /\ \A step \in OnboardingStep : Place(step) <= Place(d.step) => HasData(d, step)
         /\ d.profile # Unset => \A step \in {"review-facts", "career-goals", "location-eligibility",
                                              "hard-constraints"} : HasData(d, step)
         /\ d.profile # Unset /\ d.plan # Unset => \A step \in OnboardingStep : HasData(d, step)
<1>1. d.step \in OnboardingStep
  BY DEF Whole, Draft
<1> QED BY <1>1, Places DEF Whole, HasData

LEMMA OnboardingInitially == OnboardingInit => OnboardingInv
<1> SUFFICES ASSUME OnboardingInit PROVE OnboardingInv
  OBVIOUS
<1>1. Whole(CreateWorkspace)
  BY Places, Steps DEF CreateWorkspace, Whole, Draft, HasData
<1> QED BY <1>1 DEF OnboardingInit, OnboardingInv
-----------------------------------------------------------------------------
\* A click that commits a whole draft.
LEMMA CommitStep ==
  ASSUME OnboardingInv, NEW next, Whole(next), Commit(next), NoRequest, Here
  PROVE  OnboardingInv'
BY DEF OnboardingInv, Commit, NoRequest, Here

LEMMA GoStep == ASSUME OnboardingInv, Go PROVE OnboardingInv'
<1>1. PICK step \in OnboardingStep :
        (MayGo(draft, step) \/ step \in LeadsOn(draft)) /\ Commit(Went(draft, step))
  BY DEF Go
<1>2. Whole(draft) /\ draft.step \in OnboardingStep
  BY DEF OnboardingInv, Whole, Draft
<1>3. HasData(draft, step)
  <2>1. CASE MayGo(draft, step)
    BY <1>2, <2>1, StepData DEF MayGo, Whole
  <2>2. CASE draft.step = "welcome" /\ step = "profile-source"
    BY <1>2, <2>2, StepData
  <2>3. CASE draft.step = "location-eligibility" /\ step = "hard-constraints"
    BY <1>2, <2>3, Places DEF Whole, HasData
  <2>4. CASE draft.step = "strategy-preview" /\ step = "run-search"
    BY <1>2, <2>4, Places DEF Whole, HasData
  <2> QED BY <1>1, <2>1, <2>2, <2>3, <2>4 DEF LeadsOn
<1> QED BY <1>1, <1>2, <1>3, WentWhole, CommitStep DEF Go

LEMMA ChooseManualStep == ASSUME OnboardingInv, ChooseManual PROVE OnboardingInv'
<1>1. NewProfile \in Profile /\ "empty" \in Plan /\ "review-facts" \in OnboardingStep
  BY Steps DEF NewProfile, Profile, Plan
<1>2. Whole(draft)
  BY DEF OnboardingInv
<1>3. Filled(With(draft, NewProfile, "empty"))
  BY <1>1, <1>2, WithWhole
<1>4. Whole(Went(With(draft, NewProfile, "empty"), "review-facts"))
  BY <1>1, <1>3, FilledHasAll, WentWhole
<1> QED BY <1>4, CommitStep DEF ChooseManual

LEMMA ConfirmFactsStep == ASSUME OnboardingInv, ConfirmFacts PROVE OnboardingInv'
<1>1. Commit(Went(draft, "career-goals")) /\ draft.profile # Unset /\ NoRequest /\ Here
  BY DEF ConfirmFacts, Last
<1>2. Whole(draft) /\ "career-goals" \in OnboardingStep
  BY Steps DEF OnboardingInv
<1>3. Whole(Went(draft, "career-goals"))
  BY <1>1, <1>2, StepData, WentWhole
<1> QED BY <1>1, <1>3, CommitStep

LEMMA BuildStrategyStep == ASSUME OnboardingInv, BuildStrategy PROVE OnboardingInv'
<1>1. Whole(draft) /\ draft.profile \in Profile
  BY DEF OnboardingInv, BuildStrategy, Whole, Draft
<1>2. PICK plan \in Plan, step \in OnboardingStep :
        Commit(Went(With(draft, draft.profile, plan), step))
  BY Steps DEF BuildStrategy, ManualStrategy, Plan
<1>3. Filled(With(draft, draft.profile, plan))
  BY <1>1, WithWhole
<1>4. Whole(Went(With(draft, draft.profile, plan), step))
  BY <1>3, FilledHasAll, WentWhole
<1> QED BY <1>2, <1>4, CommitStep DEF BuildStrategy

LEMMA EditQueriesStep == ASSUME OnboardingInv, EditQueries PROVE OnboardingInv'
<1>1. Whole(draft) /\ draft.profile \in Profile
  BY DEF OnboardingInv, EditQueries, Whole, Draft
<1>2. PICK plan \in Plan : Commit([draft EXCEPT !.plan = plan])
  BY DEF EditQueries, ManualStrategy, Plan
<1>3. [draft EXCEPT !.plan = plan] = With(draft, draft.profile, plan)
  BY <1>1 DEF With, Whole, Draft
<1>4. Whole([draft EXCEPT !.plan = plan])
  BY <1>1, <1>3, WithWhole
<1> QED BY <1>2, <1>4, CommitStep DEF EditQueries
-----------------------------------------------------------------------------
LEMMA ReadResumeStep == ASSUME OnboardingInv, ReadResume PROVE OnboardingInv'
<1>1. [draft |-> draft, opening |-> opening] \in [draft : Draft, opening : Nat] /\ Whole(draft)
  BY DEF OnboardingInv, Whole
<1>2. /\ resumes' = resumes \cup {[draft |-> draft, opening |-> opening]}
      /\ UNCHANGED <<draft, onboarding, starting, candidate, savedRows>> /\ Here
  BY DEF ReadResume
<1> QED BY <1>1, <1>2 DEF OnboardingInv, Here

LEMMA ResumeAnswersStep == ASSUME OnboardingInv, ResumeAnswers PROVE OnboardingInv'
<1>1. PICK r \in resumes, plan \in Plan :
        /\ CommitLate(r, Went(With(r.draft, ExtractedProfile, plan), "review-facts"))
        /\ resumes' = resumes \ {r}
  BY DEF ResumeAnswers, ManualStrategy, Plan
<1>2. Whole(r.draft) /\ ExtractedProfile \in Profile /\ "review-facts" \in OnboardingStep
  BY Steps DEF OnboardingInv, ExtractedProfile, Profile
<1>3. Whole(Went(With(r.draft, ExtractedProfile, plan), "review-facts"))
  BY <1>2, WithWhole, FilledHasAll, WentWhole
<1>4. Whole(draft') /\ Whole(onboarding')
  BY <1>1, <1>3 DEF CommitLate, OnboardingInv
<1> QED BY <1>1, <1>4 DEF OnboardingInv, ResumeAnswers, Here

LEMMA FailsStep == ASSUME OnboardingInv, ResumeFails \/ StartFails PROVE OnboardingInv'
<1>1. /\ resumes' \subseteq resumes /\ starting' \subseteq starting
      /\ UNCHANGED <<draft, onboarding, candidate, savedRows>> /\ Here
  BY DEF ResumeFails, StartFails
<1> QED BY <1>1 DEF OnboardingInv, Here

LEMMA FinishStep == ASSUME OnboardingInv, Finish PROVE OnboardingInv'
<1> DEFINE request == [draft |-> draft, opening |-> opening, saved |-> FALSE]
<1>1. draft.profile # Unset /\ draft.plan = "queries" /\ Whole(draft)
  BY DEF Finish, OnboardingInv
<1>2. Filled(draft)
  BY <1>1 DEF Filled, Whole, Draft, Plan
<1>3. request \in [draft : Draft, opening : Nat, saved : BOOLEAN] /\ Filled(request.draft)
  BY <1>2 DEF OnboardingInv, Whole
<1>4. /\ starting' = starting \cup {request} /\ UNCHANGED <<draft, onboarding, resumes>>
      /\ UNCHANGED <<candidate, savedRows>> /\ Here
  BY DEF Finish
<1> HIDE DEF request
<1> QED BY <1>3, <1>4 DEF OnboardingInv, Here

LEMMA ProfileSavedStep == ASSUME OnboardingInv, ProfileSaved PROVE OnboardingInv'
<1> DEFINE Row(r) == IF r.draft.profile.row > 0 THEN r.draft.profile.row ELSE savedRows + 1
           Saved(r) == [r.draft.profile EXCEPT !.row = Row(r)]
<1>1. PICK r \in starting :
        /\ savedRows' = IF Row(r) > savedRows THEN Row(r) ELSE savedRows
        /\ candidate' = Saved(r)
        /\ onboarding' = [onboarding EXCEPT !.profile = Saved(r), !.plan = r.draft.plan,
                                            !.completed = TRUE]
        /\ starting' = (starting \ {r}) \cup {[r EXCEPT !.saved = TRUE]}
  BY DEF ProfileSaved
<1>2. /\ r \in [draft : Draft, opening : Nat, saved : BOOLEAN] /\ Filled(r.draft)
      /\ r.draft.profile \in Profile /\ r.draft.plan \in Plan /\ savedRows \in Nat
  BY DEF OnboardingInv, Filled
<1>3. Row(r) \in Nat /\ Saved(r) \in Profile
  BY <1>2 DEF Profile
<1> HIDE DEF Row, Saved
<1>4. /\ [r EXCEPT !.saved = TRUE] \in [draft : Draft, opening : Nat, saved : BOOLEAN]
      /\ [r EXCEPT !.saved = TRUE].draft = r.draft
  BY <1>2
<1>5. Whole(onboarding')
  <2>1. Whole(onboarding) /\ onboarding \in Draft
    BY DEF OnboardingInv, Whole
  <2>2. onboarding' \in Draft /\ onboarding'.profile = Saved(r) /\ onboarding'.plan = r.draft.plan
    BY <1>1, <1>2, <1>3, <2>1 DEF Draft
  <2>3. Filled(onboarding')
    BY <1>2, <1>3, <2>2, Unequal DEF Filled, Whole, HasData
  <2> QED BY <2>3 DEF Filled
<1>6. savedRows' \in Nat /\ candidate' \in Profile
  BY <1>1, <1>2, <1>3
<1> QED BY <1>1, <1>2, <1>4, <1>5, <1>6 DEF OnboardingInv, ProfileSaved, Here

LEMMA SearchStartedStep == ASSUME OnboardingInv, SearchStarted PROVE OnboardingInv'
<1>1. PICK r \in starting :
        CommitLate(r, [r.draft EXCEPT !.completed = TRUE]) /\ starting' = starting \ {r}
  BY DEF SearchStarted
<1>2. Filled(r.draft)
  BY DEF OnboardingInv
<1>3. Whole([r.draft EXCEPT !.completed = TRUE])
  BY <1>2 DEF Filled, Whole, Draft, HasData
<1>4. Whole(draft') /\ Whole(onboarding')
  BY <1>1, <1>3 DEF CommitLate, OnboardingInv
<1> QED BY <1>1, <1>4 DEF OnboardingInv, SearchStarted

LEMMA OpenOnboardingStep == ASSUME OnboardingInv, OpenOnboarding PROVE OnboardingInv'
<1> DEFINE profile == Otherwise(onboarding.profile, candidate)
           Opened(plan) == [With(onboarding, profile, plan) EXCEPT
                              !.step = IF profile # Unset THEN "review-facts" ELSE "welcome"]
<1>1. PICK plan : /\ onboarding.plan # Unset \/ candidate = Unset => plan = onboarding.plan
                  /\ ~(onboarding.plan # Unset \/ candidate = Unset) => plan \in Plan
                  /\ Commit(Opened(plan))
  BY DEF OpenOnboarding, ManualStrategy, Plan
<1>2. Whole(onboarding) /\ onboarding \in Draft /\ candidate \in {Unset} \cup Profile
  BY DEF OnboardingInv, Whole
<1>3. /\ profile \in {Unset} \cup Profile /\ plan \in {Unset} \cup Plan
      /\ onboarding.profile # Unset => profile # Unset
      /\ onboarding.plan # Unset => plan # Unset
  BY <1>1, <1>2, Unequal DEF Otherwise, Draft
<1> HIDE DEF profile
<1>4. /\ Opened(plan) \in Draft /\ Opened(plan).profile = profile /\ Opened(plan).plan = plan
      /\ Opened(plan).step = (IF profile # Unset THEN "review-facts" ELSE "welcome")
      /\ Opened(plan).done = onboarding.done
  BY <1>2, <1>3, Steps DEF With, Draft
<1> HIDE DEF Opened
<1>5. Whole(Opened(plan))
  BY <1>2, <1>3, <1>4, Places DEF Whole, HasData
<1>6. opening' \in Nat /\ openings' \in Nat
  BY DEF OpenOnboarding, OnboardingInv
<1> QED BY <1>1, <1>5, <1>6 DEF OnboardingInv, OpenOnboarding, Commit

LEMMA ProfileLoadedStep == ASSUME OnboardingInv, ProfileLoaded PROVE OnboardingInv'
<1>1. PICK plan \in Plan : onboarding' = Reconciled(onboarding, candidate', plan)
  BY DEF ProfileLoaded, ManualStrategy, Plan
<1>2. candidate' \in Profile /\ savedRows' \in Nat
  BY DEF ProfileLoaded, NewProfile, Profile
<1>3. Whole(onboarding')
  BY <1>1, <1>2, WithWhole DEF Reconciled, OnboardingInv
<1> QED BY <1>2, <1>3 DEF OnboardingInv, ProfileLoaded
-----------------------------------------------------------------------------
LEMMA OnboardingStays == OnboardingInv /\ [OnboardingNext]_onboardingVars => OnboardingInv'
<1> SUFFICES ASSUME OnboardingInv, [OnboardingNext]_onboardingVars PROVE OnboardingInv'
  OBVIOUS
<1>1. CASE UNCHANGED onboardingVars
  BY <1>1 DEF onboardingVars, OnboardingInv
<1>2. CASE Skip
  BY <1>2 DEF Skip, OnboardingInv
<1>3. CASE Go \/ ChooseManual \/ ConfirmFacts \/ BuildStrategy \/ EditQueries
  BY <1>3, GoStep, ChooseManualStep, ConfirmFactsStep, BuildStrategyStep, EditQueriesStep
<1>4. CASE ReadResume \/ ResumeAnswers \/ ResumeFails \/ Finish \/ ProfileSaved
  BY <1>4, ReadResumeStep, ResumeAnswersStep, FailsStep, FinishStep, ProfileSavedStep
<1>5. CASE SearchStarted \/ StartFails \/ OpenOnboarding \/ ProfileLoaded
  BY <1>5, SearchStartedStep, FailsStep, OpenOnboardingStep, ProfileLoadedStep
<1> QED BY <1>1, <1>2, <1>3, <1>4, <1>5 DEF OnboardingNext

\* No order of clicks, late answers and reopenings leads past the choice of a
\* source without a profile, or to the strategy without one.
THEOREM StepsHaveTheirData == OnboardingSpec => []StepHasItsData
<1>1. OnboardingInv => StepHasItsData
  BY DEF OnboardingInv, Whole, HasData, StepHasItsData
<1> QED BY <1>1, OnboardingInitially, OnboardingStays, PTL DEF OnboardingSpec
-----------------------------------------------------------------------------
(***************************************************************************)
(* Rows are counted by the requests that may still add one: what is saved  *)
(* and what is on its way to be saved is never more than what was asked    *)
(* for, and the row of a profile that was there before.                    *)
(***************************************************************************)
ToSave == {r \in starting : ~r.saved}
Numbered(d) == d.profile # Unset => d.profile.row <= savedRows

OnboardingCounts ==
  /\ opening \in 0 .. openings /\ openings \in 1 .. MaxOpenings
  /\ requests \in 0 .. MaxRequests /\ busy \in BOOLEAN /\ IsFiniteSet(ToSave)
  /\ \A r \in resumes \cup starting : r.opening \in 1 .. openings /\ Numbered(r.draft)
  /\ Numbered(draft) /\ Numbered(onboarding)
  /\ candidate # Unset => candidate.row <= savedRows
  /\ Cardinality(ToSave) <= requests /\ savedRows + Cardinality(ToSave) <= requests + 1

OnboardingBounded == OnboardingInv /\ OnboardingCounts

LEMMA OnboardingBoundedInitially == OnboardingInit => OnboardingBounded
<1> SUFFICES ASSUME OnboardingInit PROVE OnboardingCounts
  BY OnboardingInitially DEF OnboardingBounded
<1>1. ToSave = {} /\ IsFiniteSet({}) /\ Cardinality({}) = 0
  BY FS_EmptySet DEF OnboardingInit, ToSave
<1>2. Numbered(draft) /\ Numbered(onboarding)
  BY DEF OnboardingInit, Numbered, CreateWorkspace
<1>3. 1 \in 1 .. MaxOpenings /\ 0 \in 0 .. MaxRequests
  BY OnboardingAssumption
<1> HIDE DEF ToSave
<1>4. /\ opening = 1 /\ openings = 1 /\ ~busy /\ busy \in BOOLEAN /\ resumes = {} /\ starting = {}
      /\ candidate = Unset /\ requests = 0 /\ savedRows = 0
  BY DEF OnboardingInit
<1> QED BY <1>1, <1>2, <1>3, <1>4 DEF OnboardingCounts

\* The numbers the invariants give.
LEMMA InNumbers ==
  ASSUME OnboardingBounded
  PROVE  /\ Cardinality(ToSave) \in Nat /\ savedRows \in Nat /\ requests \in Nat
         /\ opening \in Nat /\ openings \in Nat /\ MaxRequests \in Nat /\ MaxOpenings \in Nat
         /\ draft \in Draft /\ onboarding \in Draft
         /\ \A r \in resumes \cup starting : r.draft \in Draft
<1>1. IsFiniteSet(ToSave)
  BY DEF OnboardingBounded, OnboardingCounts
<1>2. Cardinality(ToSave) \in Nat
  BY <1>1, FS_CardinalityType
<1>3. /\ savedRows \in Nat /\ requests \in Nat /\ opening \in Nat /\ openings \in Nat
      /\ MaxRequests \in Nat /\ MaxOpenings \in Nat
  BY OnboardingAssumption DEF OnboardingBounded, OnboardingInv, OnboardingCounts
<1>4. draft \in Draft /\ onboarding \in Draft /\ \A r \in resumes \cup starting : r.draft \in Draft
  BY DEF OnboardingBounded, OnboardingInv, Whole, Filled
<1> QED BY <1>2, <1>3, <1>4

\* Going on, and taking a profile or a plan, change no other row.
LEMMA RowsGiven ==
  ASSUME NEW d \in Draft, NEW step \in OnboardingStep, NEW profile \in {Unset} \cup Profile,
         NEW plan \in {Unset} \cup Plan
  PROVE  /\ Went(d, step) \in Draft /\ Went(d, step).profile = d.profile
         /\ With(d, profile, plan) \in Draft /\ With(d, profile, plan).profile = profile
BY DEF Went, With, Draft

\* A click that makes no request.
LEMMA CommitCounts ==
  ASSUME OnboardingCounts, NEW next, Numbered(next), Commit(next), NoRequest, Here
  PROVE  OnboardingCounts'
BY DEF OnboardingCounts, Numbered, ToSave, Commit, NoRequest, Here

LEMMA ClicksCount ==
  ASSUME OnboardingBounded, Go \/ ChooseManual \/ ConfirmFacts \/ BuildStrategy \/ EditQueries
  PROVE  OnboardingCounts'
<1>1. draft \in Draft /\ Numbered(draft) /\ OnboardingCounts /\ savedRows \in Nat
  BY InNumbers DEF OnboardingBounded, OnboardingCounts
<1>2. PICK next : /\ Commit(next) /\ NoRequest /\ Here
                  /\ next.profile = draft.profile \/ next.profile = NewProfile
  <2>1. CASE Go
    BY <1>1, <2>1, RowsGiven DEF Go
  <2>2. CASE ChooseManual
    <3>1. "empty" \in Plan /\ NewProfile \in Profile /\ "review-facts" \in OnboardingStep
      BY Steps DEF Plan, NewProfile, Profile
    <3>2. Went(With(draft, NewProfile, "empty"), "review-facts").profile = NewProfile
      BY <1>1, <3>1, RowsGiven
    <3> QED BY <2>2, <3>2 DEF ChooseManual
  <2>3. CASE ConfirmFacts
    <3>1. Commit(Went(draft, "career-goals")) /\ NoRequest /\ Here
      BY <2>3 DEF ConfirmFacts, Last
    <3>2. Went(draft, "career-goals").profile = draft.profile
      BY <1>1, Steps, RowsGiven
    <3> QED BY <3>1, <3>2
  <2>4. CASE BuildStrategy
    <3>1. PICK plan \in Plan, step \in OnboardingStep :
            Commit(Went(With(draft, draft.profile, plan), step))
      BY <2>4, Steps DEF BuildStrategy, ManualStrategy, Plan
    <3>2. draft.profile \in {Unset} \cup Profile
      BY <1>1 DEF Draft
    <3>3. /\ With(draft, draft.profile, plan) \in Draft
          /\ With(draft, draft.profile, plan).profile = draft.profile
      BY <1>1, <3>2, RowsGiven
    <3>4. Went(With(draft, draft.profile, plan), step).profile = draft.profile
      BY <3>2, <3>3, RowsGiven
    <3> QED BY <2>4, <3>1, <3>4 DEF BuildStrategy
  <2>5. CASE EditQueries
    <3>1. PICK plan \in Plan : Commit([draft EXCEPT !.plan = plan])
      BY <2>5 DEF EditQueries, ManualStrategy, Plan
    <3>2. [draft EXCEPT !.plan = plan].profile = draft.profile
      BY <1>1 DEF Draft
    <3> QED BY <2>5, <3>1, <3>2 DEF EditQueries
  <2> QED BY <2>1, <2>2, <2>3, <2>4, <2>5
<1>3. Numbered(next)
  BY <1>1, <1>2 DEF Numbered, NewProfile
<1> QED BY <1>1, <1>2, <1>3, CommitCounts

LEMMA ReadResumeCounts ==
  ASSUME OnboardingBounded, ReadResume
  PROVE  OnboardingCounts'
<1>1. /\ resumes' = resumes \cup {[draft |-> draft, opening |-> opening]} /\ opening > 0
      /\ requests < MaxRequests /\ requests' = requests + 1 /\ busy' = TRUE
      /\ UNCHANGED <<draft, onboarding, starting, candidate, savedRows>> /\ Here
  BY DEF ReadResume, Shown, Asks
<1>2. opening \in 1 .. openings
  BY <1>1, InNumbers DEF OnboardingBounded, OnboardingCounts
<1>3. ToSave' = ToSave
  BY <1>1 DEF ToSave
<1> HIDE DEF ToSave
<1> QED BY <1>1, <1>2, <1>3, InNumbers DEF OnboardingBounded, OnboardingCounts, Numbered, Here

LEMMA ResumeAnswersCounts ==
  ASSUME OnboardingBounded, ResumeAnswers
  PROVE  OnboardingCounts'
<1>1. PICK r \in resumes, plan \in Plan :
        /\ CommitLate(r, Went(With(r.draft, ExtractedProfile, plan), "review-facts"))
        /\ resumes' = resumes \ {r} /\ Freed(r)
  BY DEF ResumeAnswers, ManualStrategy, Plan
<1> DEFINE next == Went(With(r.draft, ExtractedProfile, plan), "review-facts")
<1>2. r.draft \in Draft /\ ExtractedProfile \in Profile /\ "review-facts" \in OnboardingStep
  BY InNumbers, Steps DEF ExtractedProfile, Profile
<1>3. next.profile = ExtractedProfile
  BY <1>2, RowsGiven
<1> HIDE DEF next
<1>4. Numbered(next)
  BY <1>3, InNumbers DEF Numbered, ExtractedProfile
<1>5. (draft' = next \/ draft' = draft) /\ onboarding' = next
  BY <1>1 DEF CommitLate, next
<1>6. /\ UNCHANGED <<starting, requests, candidate, savedRows, opening, openings>>
      /\ busy' \in BOOLEAN /\ resumes' \subseteq resumes
  BY <1>1 DEF ResumeAnswers, Here, Freed, OnboardingBounded, OnboardingCounts
<1>7. ToSave' = ToSave
  BY <1>6 DEF ToSave
<1> HIDE DEF ToSave
<1> QED BY <1>4, <1>5, <1>6, <1>7 DEF OnboardingBounded, OnboardingCounts, Numbered

\* Requests that go, and ask for nothing more.
LEMMA FewerCount ==
  ASSUME OnboardingBounded, starting' \subseteq starting
  PROVE  IsFiniteSet(ToSave') /\ Cardinality(ToSave') \in Nat /\ Cardinality(ToSave') <= Cardinality(ToSave)
<1>1. ToSave' \in SUBSET ToSave /\ IsFiniteSet(ToSave)
  BY DEF ToSave, OnboardingBounded, OnboardingCounts
<1> HIDE DEF ToSave
<1> QED BY <1>1, FS_Subset, FS_CardinalityType

LEMMA FailsCount ==
  ASSUME OnboardingBounded, ResumeFails \/ StartFails
  PROVE  OnboardingCounts'
<1>1. /\ resumes' \subseteq resumes /\ starting' \subseteq starting /\ busy' \in BOOLEAN
      /\ UNCHANGED <<draft, onboarding, candidate, savedRows, requests, opening, openings>>
  BY DEF ResumeFails, StartFails, Here, Freed, OnboardingBounded, OnboardingCounts
<1>2. /\ IsFiniteSet(ToSave') /\ Cardinality(ToSave') <= requests
      /\ savedRows + Cardinality(ToSave') <= requests + 1
  BY <1>1, FewerCount, InNumbers DEF OnboardingBounded, OnboardingCounts
<1> HIDE DEF ToSave
<1> QED BY <1>1, <1>2 DEF OnboardingBounded, OnboardingCounts, Numbered

LEMMA FinishCounts ==
  ASSUME OnboardingBounded, Finish
  PROVE  OnboardingCounts'
<1> DEFINE request == [draft |-> draft, opening |-> opening, saved |-> FALSE]
<1>1. /\ starting' = starting \cup {request} /\ opening > 0
      /\ requests < MaxRequests /\ requests' = requests + 1 /\ busy' = TRUE
      /\ UNCHANGED <<draft, onboarding, resumes, candidate, savedRows, opening, openings>>
  BY DEF Finish, Shown, Asks, Here
<1>2. opening \in 1 .. openings
  BY <1>1, InNumbers DEF OnboardingBounded, OnboardingCounts
<1>3. ToSave' = ToSave \cup {request} /\ request.opening = opening /\ request.draft = draft
  BY <1>1 DEF ToSave
<1> HIDE DEF request, ToSave
<1>4. IsFiniteSet(ToSave)
  BY DEF OnboardingBounded, OnboardingCounts
<1>5. IsFiniteSet(ToSave') /\ Cardinality(ToSave') <= Cardinality(ToSave) + 1
  <2>1. /\ IsFiniteSet(ToSave \cup {request})
        /\ Cardinality(ToSave \cup {request}) =
             IF request \in ToSave THEN Cardinality(ToSave) ELSE Cardinality(ToSave) + 1
    BY <1>4, FS_AddElement
  <2>2. Cardinality(ToSave \cup {request}) <= Cardinality(ToSave) + 1
    BY <2>1, InNumbers
  <2> QED BY <1>3, <2>1, <2>2
<1>6. Cardinality(ToSave') \in Nat
  BY <1>5, FS_CardinalityType
<1>7. Cardinality(ToSave') <= requests' /\ savedRows + Cardinality(ToSave') <= requests' + 1
  BY <1>1, <1>5, <1>6, InNumbers DEF OnboardingBounded, OnboardingCounts
<1>8. requests' \in 0 .. MaxRequests
  BY <1>1, InNumbers
<1> QED BY <1>1, <1>2, <1>3, <1>5, <1>7, <1>8 DEF OnboardingBounded, OnboardingCounts, Numbered

LEMMA ProfileSavedCounts ==
  ASSUME OnboardingBounded, ProfileSaved
  PROVE  OnboardingCounts'
<1> DEFINE Row(r) == IF r.draft.profile.row > 0 THEN r.draft.profile.row ELSE savedRows + 1
           Saved(r) == [r.draft.profile EXCEPT !.row = Row(r)]
<1>1. PICK r \in starting :
        /\ ~r.saved /\ savedRows' = IF Row(r) > savedRows THEN Row(r) ELSE savedRows
        /\ candidate' = Saved(r)
        /\ onboarding' = [onboarding EXCEPT !.profile = Saved(r), !.plan = r.draft.plan,
                                            !.completed = TRUE]
        /\ starting' = (starting \ {r}) \cup {[r EXCEPT !.saved = TRUE]}
  BY DEF ProfileSaved
<1> DEFINE kept == [r EXCEPT !.saved = TRUE]
<1>2. /\ r \in [draft : Draft, opening : Nat, saved : BOOLEAN] /\ r.draft.profile \in Profile
      /\ r.draft.profile # Unset /\ onboarding \in Draft /\ r \in ToSave
  BY <1>1, Unequal, InNumbers DEF OnboardingBounded, OnboardingInv, Filled, ToSave
<1>3. kept.draft = r.draft /\ kept.opening = r.opening /\ kept.saved = TRUE
  BY <1>2
<1>4. ToSave' = ToSave \ {r}
  BY <1>1, <1>3 DEF ToSave
<1> HIDE DEF ToSave, kept
<1>5. /\ IsFiniteSet(ToSave') /\ Cardinality(ToSave') = Cardinality(ToSave) - 1
  <2>1. IsFiniteSet(ToSave)
    BY DEF OnboardingBounded, OnboardingCounts
  <2> QED BY <1>2, <1>4, <2>1, FS_RemoveElement
<1>6. Cardinality(ToSave') \in Nat
  BY <1>5, FS_CardinalityType
<1>7. /\ Row(r) \in Nat /\ r.draft.profile.row <= savedRows
      /\ Saved(r).row = Row(r)
  BY <1>1, <1>2, InNumbers DEF OnboardingBounded, OnboardingCounts, Numbered, Profile
<1>8. savedRows' \in Nat /\ savedRows <= savedRows' /\ savedRows' <= savedRows + 1 /\ Row(r) <= savedRows'
  BY <1>1, <1>7, InNumbers
<1>9. onboarding'.profile = Saved(r)
  BY <1>1, <1>2 DEF Draft
<1> HIDE DEF Row, Saved
<1>10. /\ Cardinality(ToSave') <= requests /\ savedRows' + Cardinality(ToSave') <= requests + 1
  BY <1>5, <1>6, <1>8, InNumbers DEF OnboardingBounded, OnboardingCounts
<1>11. /\ UNCHANGED <<draft, busy, resumes, requests, opening, openings>>
  BY DEF ProfileSaved, Here
<1>12. ASSUME NEW d \in Draft, Numbered(d) PROVE Numbered(d)'
  <2>1. d.profile # Unset => d.profile.row \in Nat
    BY DEF Draft, Profile
  <2> QED BY <1>8, <1>12, <2>1, InNumbers DEF Numbered
<1>13. \A q \in resumes' \cup starting' :
         /\ \/ q \in resumes \cup starting
            \/ q.draft = r.draft /\ q.opening = r.opening /\ r \in starting
  BY <1>1, <1>3, <1>11 DEF kept
<1>14. \A q \in resumes' \cup starting' :
         q.opening \in 1 .. openings /\ Numbered(q.draft) /\ q.draft \in Draft
  BY <1>13, InNumbers DEF OnboardingBounded, OnboardingCounts
<1>15. Numbered(draft)' /\ Numbered(onboarding)' /\ (candidate' # Unset => candidate'.row <= savedRows')
  <2>1. Numbered(draft)'
    <3>1. Numbered(draft) /\ draft \in Draft /\ draft' = draft
      BY <1>11, InNumbers DEF OnboardingBounded, OnboardingCounts
    <3>2. draft.profile # Unset => draft.profile.row \in Nat
      BY <3>1 DEF Draft, Profile
    <3> QED BY <1>8, <3>1, <3>2, InNumbers DEF Numbered
  <2>2. Numbered(onboarding)'
    BY <1>7, <1>8, <1>9 DEF Numbered
  <2> QED BY <1>1, <1>7, <1>8, <2>1, <2>2
<1>16. \A q \in resumes' \cup starting' : q.opening \in 1 .. openings' /\ Numbered(q.draft)'
  <2> TAKE q \in resumes' \cup starting'
  <2>1. q.draft \in Draft /\ Numbered(q.draft) /\ q.opening \in 1 .. openings
    BY <1>14
  <2>2. q.draft.profile # Unset => q.draft.profile.row \in Nat
    BY <2>1 DEF Draft, Profile
  <2> QED BY <1>8, <1>11, <2>1, <2>2, InNumbers DEF Numbered
<1> QED BY <1>5, <1>10, <1>11, <1>15, <1>16 DEF OnboardingBounded, OnboardingCounts

LEMMA SearchStartedCounts ==
  ASSUME OnboardingBounded, SearchStarted
  PROVE  OnboardingCounts'
<1>1. PICK r \in starting :
        /\ CommitLate(r, [r.draft EXCEPT !.completed = TRUE])
        /\ starting' = starting \ {r} /\ opening' = 0 /\ busy' = FALSE
  BY DEF SearchStarted
<1> DEFINE next == [r.draft EXCEPT !.completed = TRUE]
<1>2. next.profile = r.draft.profile /\ Numbered(r.draft)
  BY InNumbers DEF Draft, OnboardingBounded, OnboardingCounts
<1>3. (draft' = next \/ draft' = draft) /\ onboarding' = next
  BY <1>1 DEF CommitLate
<1> HIDE DEF next
<1>4. Numbered(next)
  BY <1>2 DEF Numbered
<1>5. UNCHANGED <<resumes, requests, candidate, savedRows, openings>> /\ starting' \subseteq starting
  BY <1>1 DEF SearchStarted
<1>6. /\ IsFiniteSet(ToSave') /\ Cardinality(ToSave') <= requests
      /\ savedRows + Cardinality(ToSave') <= requests + 1
  BY <1>5, FewerCount, InNumbers DEF OnboardingBounded, OnboardingCounts
<1>7. opening' \in 0 .. openings
  BY <1>1, InNumbers
<1> HIDE DEF ToSave
<1> QED BY <1>1, <1>3, <1>4, <1>5, <1>6, <1>7 DEF OnboardingBounded, OnboardingCounts, Numbered

LEMMA OpenOnboardingCounts ==
  ASSUME OnboardingBounded, OpenOnboarding
  PROVE  OnboardingCounts'
<1> DEFINE profile == Otherwise(onboarding.profile, candidate)
           Opened(plan) == [With(onboarding, profile, plan) EXCEPT
                              !.step = IF profile # Unset THEN "review-facts" ELSE "welcome"]
<1>1. PICK plan : Commit(Opened(plan))
  BY DEF OpenOnboarding
<1>2. onboarding \in Draft
  BY InNumbers
<1>3. Opened(plan).profile = profile
  BY <1>2 DEF With, Draft
<1>4. profile # Unset => profile.row <= savedRows
  BY DEF Otherwise, OnboardingBounded, OnboardingCounts, Numbered
<1> HIDE DEF Opened, profile
<1>5. Numbered(Opened(plan))
  BY <1>3, <1>4 DEF Numbered
<1>6. /\ openings' = openings + 1 /\ opening' = openings + 1 /\ busy' = FALSE /\ openings < MaxOpenings
      /\ UNCHANGED <<resumes, starting, candidate, requests, savedRows>>
  BY DEF OpenOnboarding
<1>7. /\ opening' \in 0 .. openings' /\ openings' \in 1 .. MaxOpenings
      /\ \A r \in resumes \cup starting : r.opening \in 1 .. openings'
  BY <1>6, InNumbers DEF OnboardingBounded, OnboardingCounts
<1>8. ToSave' = ToSave
  BY <1>6 DEF ToSave
<1> HIDE DEF ToSave
<1> QED BY <1>1, <1>5, <1>6, <1>7, <1>8 DEF OnboardingBounded, OnboardingCounts, Numbered, Commit

LEMMA ProfileLoadedCounts ==
  ASSUME OnboardingBounded, ProfileLoaded
  PROVE  OnboardingCounts'
<1>1. PICK plan : onboarding' = Reconciled(onboarding, candidate', plan)
  BY DEF ProfileLoaded
<1>2. /\ candidate' = [NewProfile EXCEPT !.row = 1] /\ savedRows = 0 /\ savedRows' = 1
      /\ UNCHANGED <<draft, opening, busy, resumes, starting, openings, requests>>
  BY DEF ProfileLoaded
<1>3. onboarding \in Draft /\ candidate'.row = 1
  BY <1>2, InNumbers DEF NewProfile
<1>4. onboarding'.profile = onboarding.profile \/ onboarding'.profile.row = 1
  BY <1>1, <1>3 DEF Reconciled, With, Draft
<1>5. ASSUME NEW d \in Draft, d.profile # Unset => d.profile.row <= 0
      PROVE  d.profile # Unset => d.profile.row <= 1
  BY <1>5 DEF Draft, Profile
<1>6. /\ Numbered(draft)' /\ Numbered(onboarding)'
      /\ \A r \in resumes \cup starting : Numbered(r.draft)'
  BY <1>2, <1>3, <1>4, <1>5, InNumbers DEF OnboardingBounded, OnboardingCounts, Numbered
<1>7. ToSave' = ToSave
  BY <1>2 DEF ToSave
<1> HIDE DEF ToSave
<1>8. 1 + Cardinality(ToSave) <= requests + 1 /\ (candidate' # Unset => candidate'.row <= 1)
  BY <1>3, InNumbers DEF OnboardingBounded, OnboardingCounts
<1> QED BY <1>2, <1>6, <1>7, <1>8 DEF OnboardingBounded, OnboardingCounts
-----------------------------------------------------------------------------
LEMMA OnboardingBoundedStays ==
  OnboardingBounded /\ [OnboardingNext]_onboardingVars => OnboardingBounded'
<1> SUFFICES ASSUME OnboardingBounded, [OnboardingNext]_onboardingVars PROVE OnboardingCounts'
  BY OnboardingStays DEF OnboardingBounded
<1>1. CASE UNCHANGED onboardingVars
  BY <1>1 DEF onboardingVars, OnboardingBounded, OnboardingCounts, Numbered, ToSave
<1>2. CASE Skip
  <2>1. opening' = 0 /\ busy' \in BOOLEAN
    BY <1>2 DEF Skip
  <2>2. opening' \in 0 .. openings
    BY <2>1, InNumbers
  <2> QED BY <1>2, <2>1, <2>2 DEF Skip, OnboardingBounded, OnboardingCounts, Numbered, ToSave
<1>3. CASE ReadResume \/ ResumeAnswers \/ ResumeFails \/ Finish \/ ProfileSaved
  BY <1>3, ReadResumeCounts, ResumeAnswersCounts, FailsCount, FinishCounts, ProfileSavedCounts
<1>4. CASE SearchStarted \/ StartFails \/ OpenOnboarding \/ ProfileLoaded
  BY <1>4, SearchStartedCounts, FailsCount, OpenOnboardingCounts, ProfileLoadedCounts
<1> QED BY <1>1, <1>2, <1>3, <1>4, ClicksCount DEF OnboardingNext

\* Drafts stay whole, every request comes from an opening there was, and no
\* more rows are saved than profiles were sent, whatever is clicked while
\* requests are under way.
THEOREM OnboardingStaysTyped == OnboardingSpec => []OnboardingTypeOK
<1>1. OnboardingBounded => OnboardingTypeOK
  <2> SUFFICES ASSUME OnboardingBounded PROVE OnboardingTypeOK
    OBVIOUS
  <2>1. savedRows <= MaxRequests + 1
    BY InNumbers DEF OnboardingBounded, OnboardingCounts
  <2>2. ASSUME NEW d \in Draft, Numbered(d) PROVE d \in OnboardingDraft
    <3>1. d.profile # Unset => d.profile \in [confirmed : BOOLEAN, row : 0 .. MaxRequests + 1]
      BY <2>1, <2>2, InNumbers DEF Draft, Profile, Numbered
    <3> QED BY <3>1 DEF Draft, Plan, OnboardingDraft
  <2> QED BY <2>2, InNumbers DEF OnboardingBounded, OnboardingCounts, OnboardingTypeOK
<1> QED BY <1>1, OnboardingBoundedInitially, OnboardingBoundedStays, PTL DEF OnboardingSpec
=============================================================================
