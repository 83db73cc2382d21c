---------------------------- MODULE BoardProofs -----------------------------
(***************************************************************************)
(* Proofs about JobBoard, for any finite set of listings, cap and number   *)
(* of arrivals: what is on the board, and what is lost from it.            *)
(*                                                                         *)
(* Cards are not unions of listings in any simple way: each is the text of *)
(* one listing, the lineage of the strongest, the history of all, and the  *)
(* id and score of a search's result.  WholeCard is what holds of every    *)
(* card.  That a card is verified only by a listing of the crawler is not  *)
(* inductive by cards alone: a merged card that only resembles a result by *)
(* an address would take its id and lineage.  It never does, because       *)
(* results are merged first, and a feed's listing has one address: one     *)
(* that shares it has become part of the result's card (ResultsLead),      *)
(* provided that no two cards of feed lineage in the list merged into have *)
(* one source's identity (Distinct).  BoardInv keeps that of what is shown *)
(* and of what a profile being confirmed will rank.                        *)
(*                                                                         *)
(* deduplicateJobs is a recursive function: what it computes is not        *)
(* proved, but what its steps keep is, by the least place where it would   *)
(* fail (UpTo).                                                            *)
(***************************************************************************)
EXTENDS JobBoard, FiniteSetTheorems, FunctionTheorems, SequenceTheorems,
        WellFoundedInduction, TLAPS

\* A set that holds 0 and, with a number below N, the next one, holds 0 .. N.
LEMMA UpTo ==
  ASSUME NEW N \in Nat, NEW S, 0 \in S, \A n \in 0 .. N : n \in S /\ n < N => n + 1 \in S
  PROVE  0 .. N \subseteq S
<1> DEFINE missing == (0 .. N) \ S
           less == OpToRel(<, Nat)
<1>1. SUFFICES ASSUME missing # {} PROVE FALSE
  OBVIOUS
<1>2. missing \subseteq Nat
  OBVIOUS
<1>3. \A a, b \in Nat : a < b => <<a, b>> \in less
  BY DEF OpToRel
<1>4. IsWellFoundedOn(less, Nat)
  BY NatLessThanWellFounded
<1> HIDE DEF less, missing
<1>5. PICK n \in missing : \A m \in missing : ~(<<m, n>> \in less)
  BY <1>1, <1>2, <1>4, WFMin
<1> USE DEF missing
<1>6. n \in 1 .. N /\ n - 1 \in 0 .. N /\ n - 1 < n /\ n - 1 < N
  OBVIOUS
<1>7. n - 1 \in S
  BY <1>2, <1>5, <1>6, <1>3
<1> QED
  BY <1>6, <1>7

\* The recursive function of deduplicateJobs is what its equation says.
LEMMA AbsorbedIs ==
  ASSUME NEW list, Len(list) \in Nat
  PROVE  Absorbed(list) =
           [n \in 0 .. Len(list) |->
              IF n = 0 THEN [list |-> <<>>, at |-> <<>>]
              ELSE Absorb(Absorbed(list)[n - 1], list[n])]
<1> DEFINE N == Len(list)
           base == [list |-> <<>>, at |-> <<>>]
           Solves(g, m) == g = [n \in 0 .. m |-> IF n = 0 THEN base ELSE Absorb(g[n - 1], list[n])]
           S == {m \in 0 .. N : \E g : Solves(g, m)}
<1>1. 0 \in S
  <2> DEFINE g == [n \in 0 .. 0 |-> base]
  <2>1. Solves(g, 0)
    OBVIOUS
  <2> HIDE DEF g, Solves
  <2> QED
    BY <2>1
<1>2. ASSUME NEW m \in 0 .. N, m \in S, m < N PROVE m + 1 \in S
  <2>1. PICK g : Solves(g, m)
    BY <1>2
  <2> DEFINE h == [n \in 0 .. m + 1 |-> IF n = 0 THEN base
                                        ELSE Absorb(g[n - 1], list[n])]
  <2>2. \A n \in 0 .. m : h[n] = g[n]
    BY <2>1
  <2>3. \A n \in 0 .. m + 1 : n # 0 => n - 1 \in 0 .. m
    OBVIOUS
  <2>4. \A n \in 0 .. m + 1 : n # 0 => h[n - 1] = g[n - 1]
    BY <2>2, <2>3
  <2>5. Solves(h, m + 1)
    BY <2>4
  <2>6. m + 1 \in 0 .. N
    BY <1>2
  <2> HIDE DEF h, Solves
  <2>7. \E f : Solves(f, m + 1)
    BY <2>5
  <2> QED
    BY <2>6, <2>7
<1>3. N \in S
  <2> HIDE DEF S
  <2>1. 0 .. N \subseteq S
    BY <1>1, <1>2, UpTo
  <2> QED
    BY <2>1
<1>4. PICK g : Solves(g, N)
  BY <1>3
<1>5. Absorbed(list) = CHOOSE f : Solves(f, N)
  BY DEF Absorbed
<1>6. Solves(CHOOSE f : Solves(f, N), N)
  <2> HIDE DEF Solves
  <2> QED
   BY <1>4
<1> QED
  BY <1>5, <1>6

\* A set of listings is listed without repetition.
LEMMA BatchListed ==
  ASSUME NEW batch, IsFiniteSet(batch)
  PROVE  /\ SetToSeq(batch) \in Seq(batch) /\ Cardinality(batch) \in Nat
         /\ Len(SetToSeq(batch)) = Cardinality(batch)
         /\ \A l \in batch : \E i \in 1 .. Len(SetToSeq(batch)) : SetToSeq(batch)[i] = l
<1> DEFINE n == Cardinality(batch)
           f == SetToSeq(batch)
<1>1. n \in Nat /\ ExistsBijection(1 .. n, batch)
  BY FS_CardinalityType
<1>2. PICK g : g \in Bijection(1 .. n, batch)
  BY <1>1, Fun_ExistsBij
<1>3. g \in [1 .. n -> batch] /\ IsInjective(g)
  <2>1. g \in [1 .. n -> batch] /\ \A a, b \in 1 .. n : g[a] = g[b] => a = b
    BY <1>2, Fun_BijectionProperties
  <2> QED
    BY <2>1 DEF IsInjective
<1>4. f \in [1 .. n -> batch] /\ IsInjective(f)
  BY <1>3 DEF SetToSeq
<1> HIDE DEF f
<1>5. f \in Injection(1 .. n, batch)
  BY <1>4, Fun_IsInj DEF IsInjective
<1>6. f \in Surjection(1 .. n, batch)
  BY <1>1, <1>5, FS_Injection, FS_Interval
<1>7. \A l \in batch : \E i \in 1 .. n : f[i] = l
  BY <1>6 DEF Surjection
<1>8. f \in Seq(batch) /\ Len(f) = n
  BY <1>1, <1>4
<1> QED
  BY <1>1, <1>7, <1>8 DEF f

\* "before" orders the members of I strictly.
Orders(before, I) ==
  /\ \A i \in I : <<i, i>> \notin before
  /\ \A i, j \in I : i # j => <<i, j>> \in before \/ <<j, i>> \in before
  /\ \A i, j, k \in I : <<i, j>> \in before /\ <<j, k>> \in before => <<i, k>> \in before

\* The list of the members of a finite set in a strict order has each of them once.
LEMMA Ordered ==
  ASSUME NEW I, IsFiniteSet(I), NEW before, Orders(before, I)
  PROVE  /\ InOrder(I, before) \in Seq(I) /\ Cardinality(I) \in Nat
         /\ Len(InOrder(I, before)) = Cardinality(I)
         /\ \A a, b \in 1 .. Cardinality(I) : InOrder(I, before)[a] = InOrder(I, before)[b] => a = b
         /\ \A i \in I : \E k \in 1 .. Cardinality(I) : InOrder(I, before)[k] = i
<1> DEFINE n == Cardinality(I)
           Below(i) == {j \in I : <<j, i>> \in before}
           Rank(i) == Cardinality(Below(i))
           rank == [i \in I |-> Rank(i)]
           s == InOrder(I, before)
<1>1. \A i \in I : IsFiniteSet(Below(i)) /\ Rank(i) \in Nat
  <2> TAKE i \in I
  <2>1. Below(i) \in SUBSET I
    OBVIOUS
  <2> HIDE DEF Below
  <2> QED
    BY <2>1, FS_Subset, FS_CardinalityType
<1>2. n \in Nat
  BY FS_CardinalityType
<1>3. \A i \in I : Rank(i) < n
  <2> TAKE i \in I
  <2>1. Below(i) \in SUBSET (I \ {i})
    BY DEF Orders
  <2>2. IsFiniteSet(I \ {i}) /\ Cardinality(I \ {i}) = n - 1
    BY FS_RemoveElement
  <2> HIDE DEF Below
  <2>3. Rank(i) <= n - 1
    BY <2>1, <2>2, FS_Subset
  <2> QED
    BY <2>3, <1>1, <1>2
<1>4. \A i, j \in I : <<i, j>> \in before => Rank(i) < Rank(j)
  <2> TAKE i, j \in I
  <2> HAVE <<i, j>> \in before
  <2>1. Below(i) \in SUBSET (Below(j) \ {i}) /\ i \in Below(j)
    BY DEF Orders
  <2> HIDE DEF Below
  <2>2. IsFiniteSet(Below(j) \ {i}) /\ Cardinality(Below(j) \ {i}) = Rank(j) - 1
    BY <1>1, <2>1, FS_RemoveElement
  <2>3. Rank(i) <= Rank(j) - 1
    BY <2>1, <2>2, FS_Subset
  <2> QED
    BY <1>1, <2>3
<1> HIDE DEF Rank, n
<1>5. \A i, j \in I : Rank(i) = Rank(j) => i = j
  <2> SUFFICES ASSUME NEW i \in I, NEW j \in I, i # j PROVE Rank(i) # Rank(j)
    OBVIOUS
  <2>1. <<i, j>> \in before \/ <<j, i>> \in before
    BY DEF Orders
  <2>2. Rank(i) \in Nat /\ Rank(j) \in Nat
    BY <1>1
  <2>3. Rank(i) < Rank(j) \/ Rank(j) < Rank(i)
    BY <1>4, <2>1
  <2> QED
    BY <2>2, <2>3
<1>6. rank \in Injection(I, 0 .. n - 1)
  <2>1. \A i \in I : Rank(i) \in 0 .. n - 1
    <3> TAKE i \in I
    <3>1. Rank(i) \in Nat /\ Rank(i) < n
      BY <1>1, <1>3
    <3> QED
      BY <1>2, <3>1
  <2>2. rank \in [I -> 0 .. n - 1]
    BY <2>1
  <2>3. \A i, j \in I : rank[i] = rank[j] => i = j
    BY <1>5
  <2> HIDE DEF rank
  <2> QED
    BY <2>3, <2>2, Fun_IsInj
<1>7. rank \in Surjection(I, 0 .. n - 1)
  <2>1. IsFiniteSet(0 .. n - 1) /\ Cardinality(0 .. n - 1) = n
    BY <1>2, FS_Interval
  <2> HIDE DEF rank
  <2> QED
    BY <1>6, <2>1, FS_Injection DEF n
<1>8. \A k \in 0 .. n - 1 : \E i \in I : Rank(i) = k
  <2>1. \A k \in 0 .. n - 1 : \E i \in I : rank[i] = k
    BY <1>7 DEF Surjection
  <2> QED
    BY <2>1
<1> DEFINE Nth(k) == CHOOSE i \in I : Rank(i) = k - 1
<1>9. \A k \in 1 .. n : Nth(k) \in I /\ Rank(Nth(k)) = k - 1
  <2> TAKE k \in 1 .. n
  <2>1. PICK i \in I : Rank(i) = k - 1
    BY <1>2, <1>8
  <2> QED
    BY <2>1
<1>10. s = [k \in 1 .. n |-> Nth(k)]
  BY Zenon DEF InOrder, Rank, n
<1> HIDE DEF s, Nth
<1>11. s \in [1 .. n -> I] /\ \A k \in 1 .. n : Rank(s[k]) = k - 1
  BY <1>9, <1>10
<1>12. s \in Seq(I) /\ Len(s) = n
  BY <1>2, <1>11
<1>13. \A i \in I : \E k \in 1 .. n : s[k] = i
  <2> TAKE i \in I
  <2>1. PICK k \in 1 .. n : k - 1 = Rank(i)
    <3>1. Rank(i) \in Nat /\ Rank(i) < n
      BY <1>1, <1>3
    <3>2. Rank(i) + 1 \in 1 .. n /\ (Rank(i) + 1) - 1 = Rank(i)
      BY <1>2, <3>1
    <3> QED
      BY <3>2
  <2>2. s[k] \in I /\ Rank(s[k]) = Rank(i)
    BY <1>11, <2>1
  <2> QED
    BY <1>5, <2>1, <2>2
<1>14. \A a, b \in 1 .. n : s[a] = s[b] => a = b
  BY <1>2, <1>11
<1> QED
  BY <1>2, <1>12, <1>13, <1>14 DEF s, n

CardField == ListingField \union {"slug", "score", "parts"}
ScoreKind == {"estimate", "search", "resume", "ai"}
CardValue ==
  (UNION {{l[f] : f \in ListingField} : l \in Listing}) \union {"feed", "canonical"}
  \union (ScoreKind \X Ids(Listing)) \union SUBSET Ids(Listing)

\* What holds of every card: among it that one is canonical exactly when a
\* listing of the crawler is part of it, and that a feed's has one address.
WholeCard(c) ==
  /\ c.kind \in {"feed", "canonical"} /\ c.parts \subseteq Ids(Listing)
  /\ {c.id, c.slug} \subseteq Ids(Listing) /\ c.score \in ScoreKind \X Ids(Listing)
  /\ {c.rich, c.fit} \subseteq Nat
  /\ c.kind = "canonical" <=> c.parts \cap Ids(Crawled) # {}
  /\ c.id \in Ids(Crawled) => c.kind = "canonical"
  /\ c.preview = TRUE => c.id \in Ids(Crawled)
  /\ c.score[1] = "search" => c.id \in Ids(Crawled)
  /\ c.kind = "feed" => c.apply = c.url
ACard == {c \in [CardField -> CardValue] : WholeCard(c)}

LEMMA Values ==
  /\ \A l \in Listing : \A f \in ListingField : l[f] \in CardValue
  /\ \A i \in Ids(Listing) : i \in CardValue
  /\ \A s \in ScoreKind : \A i \in Ids(Listing) : <<s, i>> \in CardValue
  /\ \A p \in SUBSET Ids(Listing) : p \in CardValue
  /\ {"feed", "canonical"} \subseteq CardValue
<1>1. \A l \in Listing : \A f \in ListingField : l[f] \in CardValue
  <2> TAKE l \in Listing
  <2> TAKE f \in ListingField
  <2>1. l[f] \in {l[g] : g \in ListingField}
    OBVIOUS
  <2> QED
    BY <2>1, Zenon DEF CardValue
<1>2. \A i \in Ids(Listing) : i \in CardValue
  <2> TAKE i \in Ids(Listing)
  <2>1. PICK l \in Listing : i = l.id
    BY DEF Ids
  <2> QED
    BY <1>1, <2>1 DEF ListingField
<1>3. \A s \in ScoreKind : \A i \in Ids(Listing) : <<s, i>> \in CardValue
  BY Zenon DEF CardValue
<1>4. \A p \in SUBSET Ids(Listing) : p \in CardValue
  BY Zenon DEF CardValue
<1>5. {"feed", "canonical"} \subseteq CardValue
  BY Zenon DEF CardValue
<1> QED
  BY <1>1, <1>2, <1>3, <1>4, <1>5

\* A listing makes a card; only the crawler's are search results.
LEMMA CardMade ==
  ASSUME NEW l \in Listing, NEW s \in {"estimate", "search"}, s = "search" => l \in Crawled
  PROVE  /\ Card(l, s) \in ACard /\ Card(l, s).kind = l.kind /\ Card(l, s).id = l.id
         /\ Card(l, s).score = <<s, l.id>> /\ Card(l, s).parts = {l.id}
<1> DEFINE c == Card(l, s)
<1>1. c \in [CardField -> CardValue]
  <2>1. ASSUME NEW f \in CardField PROVE c[f] \in CardValue
    <3>1. CASE f \in ListingField
      <4>1. c[f] = l[f]
        BY <3>1 DEF Card, ListingField
      <4> QED
        BY <3>1, <4>1, Values
    <3>2. CASE f = "slug"
      <4>1. c[f] = l.id /\ l.id \in Ids(Listing)
        BY <3>2 DEF Card, Ids, ListingField
      <4> QED
        BY <4>1, Values
    <3>3. CASE f = "score"
      <4>1. c[f] = <<s, l.id>> /\ l.id \in Ids(Listing) /\ s \in ScoreKind
        BY <3>3 DEF Card, Ids, ScoreKind, ListingField
      <4> QED
        BY <4>1, Values
    <3>4. CASE f = "parts"
      <4>1. c[f] = {l.id} /\ l.id \in Ids(Listing)
        BY <3>4 DEF Card, Ids, ListingField
      <4> QED
        BY <4>1, Values
    <3> QED
      BY <3>1, <3>2, <3>3, <3>4 DEF CardField
  <2>2. DOMAIN c = CardField /\ c = [f \in CardField |-> c[f]]
    BY DEF Card, CardField
  <2> HIDE DEF c
  <2> QED
    BY <2>1, <2>2
<1>2. /\ c.id = l.id /\ c.apply = l.apply /\ c.url = l.url /\ c.rich = l.rich /\ c.fit = l.fit
      /\ c.kind = l.kind /\ c.preview = l.preview
      /\ c.slug = l.id /\ c.score = <<s, l.id>> /\ c.parts = {l.id}
  BY DEF Card, ListingField
<1>3. l.id \in Ids(Listing) /\ (l \in Crawled => l.id \in Ids(Crawled))
  BY DEF Ids
<1>4. /\ l.kind \in {"feed", "canonical"} /\ {l.rich, l.fit} \subseteq Nat
      /\ l.kind = "feed" => ~l.preview /\ l.apply = l.url
      /\ \A k \in Listing : k.id = l.id => k.kind = l.kind
  <2>1. l.kind \in {"feed", "canonical"} /\ {l.rich, l.fit} \subseteq Nat
    BY BoardAssumption
  <2>2. l.kind = "feed" => ~l.preview /\ l.apply = l.url
    BY BoardAssumption
  <2>3. \A k \in Listing : k.id = l.id => k.kind = l.kind
    BY BoardAssumption
  <2> QED
    BY <2>1, <2>2, <2>3
<1>5. l.kind = "feed" => l.id \notin Ids(Crawled)
  BY <1>4 DEF Ids, Crawled
<1>6. l.kind = "canonical" <=> l \in Crawled
  BY DEF Crawled
<1>7. WholeCard(c)
  <2> HIDE DEF c
  <2> QED
    BY <1>2, <1>3, <1>4, <1>5, <1>6 DEF WholeCard, ScoreKind
<1> QED
  BY <1>1, <1>2, <1>7 DEF ACard

\* The fields of a record that deduplicateJobs looks at, and its evidence.
IsTextOf(m, d) ==
  /\ m.id = d.id /\ m.slug = d.slug /\ m.site = d.site /\ m.apply = d.apply /\ m.url = d.url
  /\ m.fingerprint = d.fingerprint /\ m.score = d.score

LEMMA Rescored ==
  ASSUME NEW c \in ACard, NEW s \in ScoreKind, NEW i \in Ids(Listing),
         s = "search" => c.id \in Ids(Crawled)
  PROVE  LET m == [c EXCEPT !.score = <<s, i>>]
         IN m \in ACard /\ m.kind = c.kind /\ m.id = c.id /\ m.slug = c.slug /\ m.site = c.site
            /\ m.parts = c.parts
<1> DEFINE m == [c EXCEPT !.score = <<s, i>>]
<1>1. c \in [CardField -> CardValue] /\ WholeCard(c)
  BY DEF ACard
<1>2. <<s, i>> \in CardValue /\ <<s, i>> \in ScoreKind \X Ids(Listing)
  BY Values
<1>3. m \in [CardField -> CardValue]
  BY <1>1, <1>2
<1>4. /\ m.kind = c.kind /\ m.parts = c.parts /\ m.id = c.id /\ m.slug = c.slug
      /\ m.score = <<s, i>> /\ m.rich = c.rich /\ m.fit = c.fit /\ m.preview = c.preview
      /\ m.apply = c.apply /\ m.url = c.url /\ m.site = c.site
  BY <1>1 DEF CardField, ListingField
<1>5. WholeCard(m)
  <2> HIDE DEF m
  <2> QED
    BY <1>1, <1>2, <1>4 DEF WholeCard
<1> QED
  BY <1>3, <1>4, <1>5 DEF ACard

LEMMA Survives ==
  ASSUME NEW old \in ACard, NEW c \in ACard
  PROVE  /\ Survivor(old, c) \in ACard /\ Survivor(old, c).parts = old.parts \union c.parts
         /\ Survivor(old, c).kind = "feed" <=> old.kind = "feed" /\ c.kind = "feed"
         /\ IsTextOf(Survivor(old, c), old) \/ IsTextOf(Survivor(old, c), c)
<1> DEFINE d == IF c.rich > old.rich THEN c ELSE old
           k == StrongestLineage(old.kind, c.kind)
           p == old.parts \union c.parts
           m == [d EXCEPT !.kind = k, !.parts = p]
<1>1. d \in [CardField -> CardValue] /\ WholeCard(d) /\ WholeCard(old) /\ WholeCard(c) /\ (d = old \/ d = c)
  BY DEF ACard
<1>2. /\ k \in {"feed", "canonical"}
      /\ k = "canonical" <=> old.kind = "canonical" \/ c.kind = "canonical"
  BY <1>1 DEF StrongestLineage, Lineage, WholeCard
<1> HIDE DEF k
<1>3. p \subseteq Ids(Listing) /\ k \in CardValue /\ p \in CardValue
  <2>1. p \subseteq Ids(Listing)
    BY <1>1 DEF WholeCard
  <2> HIDE DEF p
  <2> QED
    BY <1>2, <2>1, Values
<1>4. m \in [CardField -> CardValue]
  <2> HIDE DEF d, p
  <2> QED
    BY <1>1, <1>3
<1>5. /\ m.kind = k /\ m.parts = p /\ m.id = d.id /\ m.slug = d.slug
      /\ m.score = d.score /\ m.rich = d.rich /\ m.fit = d.fit /\ m.preview = d.preview
      /\ m.apply = d.apply /\ m.url = d.url /\ m.site = d.site /\ m.fingerprint = d.fingerprint
  <2> HIDE DEF d, p
  <2> QED
    BY <1>1 DEF CardField, ListingField
<1> HIDE DEF m
<1>6. k = "canonical" <=> p \cap Ids(Crawled) # {}
  BY <1>1, <1>2 DEF WholeCard
<1>7. k = "feed" => d.kind = "feed"
  BY <1>1, <1>2 DEF WholeCard
<1>8. d.kind = "canonical" => k = "canonical"
  BY <1>1, <1>2
<1> HIDE DEF d
<1>9. WholeCard(m)
  <2> HIDE DEF p
  <2> QED
    BY <1>1, <1>2, <1>3, <1>5, <1>6, <1>7, <1>8 DEF WholeCard
<1>10. m = Survivor(old, c)
  BY DEF m, d, k, p, Survivor
<1>11. IsTextOf(m, old) \/ IsTextOf(m, c)
  BY <1>1, <1>5 DEF IsTextOf
<1>12. m.kind = "feed" <=> old.kind = "feed" /\ c.kind = "feed"
  BY <1>1, <1>2, <1>5 DEF WholeCard
<1> QED
  BY <1>4, <1>5, <1>9, <1>10, <1>11, <1>12 DEF ACard

LEMMA Evidenced ==
  ASSUME NEW c \in ACard, c.kind = "canonical", NEW r \in ACard, r.score[1] = "search"
  PROVE  LET m == [c EXCEPT !.id = r.id, !.kind = "canonical", !.score = r.score]
         IN m \in ACard /\ m.kind = "canonical" /\ m.id = r.id /\ m.score = r.score
            /\ m.parts = c.parts
<1> DEFINE m == [c EXCEPT !.id = r.id, !.kind = "canonical", !.score = r.score]
<1>1. c \in [CardField -> CardValue] /\ WholeCard(c) /\ WholeCard(r)
  BY DEF ACard
<1>2. r.id \in CardValue /\ r.score \in CardValue /\ "canonical" \in CardValue
  BY <1>1, Values DEF WholeCard
<1>3. m \in [CardField -> CardValue]
  BY <1>1, <1>2
<1>4. /\ m.kind = "canonical" /\ m.parts = c.parts /\ m.id = r.id /\ m.slug = c.slug
      /\ m.score = r.score /\ m.rich = c.rich /\ m.fit = c.fit /\ m.preview = c.preview
      /\ m.apply = c.apply /\ m.url = c.url
  BY <1>1 DEF CardField, ListingField
<1>5. WholeCard(m)
  <2> HIDE DEF m
  <2> QED
    BY <1>1, <1>4 DEF WholeCard
<1> QED
  BY <1>3, <1>4, <1>5 DEF ACard

LEMMA Detailed ==
  ASSUME NEW c \in ACard, NEW l \in Crawled, c.id = l.id
  PROVE  /\ MergeDetail(c, l) \in ACard /\ MergeDetail(c, l).kind = "canonical"
         /\ c.parts \subseteq MergeDetail(c, l).parts
<1> DEFINE b == Card(l, "estimate")
           p == c.parts \union {l.id}
           m == [b EXCEPT !.score = c.score, !.parts = p]
<1>1. b \in ACard /\ b.kind = "canonical" /\ b.id = l.id
  BY CardMade DEF Crawled
<1> HIDE DEF b
<1>2. b \in [CardField -> CardValue] /\ WholeCard(b) /\ WholeCard(c)
  BY <1>1 DEF ACard
<1>3. l.id \in Ids(Crawled) /\ l.id \in Ids(Listing) /\ p \subseteq Ids(Listing)
  BY <1>2 DEF Ids, Crawled, WholeCard
<1>4. p \in CardValue /\ c.score \in CardValue
  BY <1>2, <1>3, Values DEF WholeCard
<1>5. m \in [CardField -> CardValue]
  <2> HIDE DEF p
  <2> QED
    BY <1>2, <1>4
<1>6. /\ m.kind = "canonical" /\ m.parts = p /\ m.id = l.id /\ m.slug = b.slug
      /\ m.score = c.score /\ m.rich = b.rich /\ m.fit = b.fit /\ m.preview = b.preview
      /\ m.apply = b.apply /\ m.url = b.url
  <2> HIDE DEF p
  <2> QED
    BY <1>1, <1>2 DEF CardField, ListingField
<1>7. WholeCard(m)
  <2> HIDE DEF m
  <2> QED
    BY <1>2, <1>3, <1>6 DEF WholeCard
<1> QED
  BY <1>5, <1>6, <1>7 DEF ACard, MergeDetail, b

\* A nonempty set of numbers has a least one.
LEMMA LeastIs ==
  ASSUME NEW S \in SUBSET Nat, S # {}
  PROVE  Min(S) \in S /\ \A n \in S : Min(S) <= n
<1> DEFINE less == OpToRel(<, Nat)
<1>1. \A a, b \in Nat : a < b => <<a, b>> \in less
  BY DEF OpToRel
<1>2. IsWellFoundedOn(less, Nat)
  BY NatLessThanWellFounded
<1> HIDE DEF less
<1>3. PICK least \in S : \A m \in S : ~(<<m, least>> \in less)
  BY <1>2, WFMin
<1>4. least \in S /\ \A n \in S : least <= n
  <2> SUFFICES ASSUME NEW n \in S PROVE least <= n
    OBVIOUS
  <2>1. n \in Nat /\ least \in Nat /\ ~(n < least)
    BY <1>1, <1>3
  <2> QED
    BY <2>1
<1> QED
  BY <1>4 DEF Min

\* A nonempty set of positions has a last one.
LEMMA LastIs ==
  ASSUME NEW N \in Nat, NEW S \in SUBSET (1 .. N), S # {}
  PROVE  Max(S) \in S
<1> DEFINE T == {n \in 0 .. N : N - n \in S}
<1>1. T \in SUBSET Nat
  OBVIOUS
<1>2. \A i \in S : N - i \in T
  <2> TAKE i \in S
  <2>1. N - i \in 0 .. N /\ N - (N - i) = i
    OBVIOUS
  <2> QED
    BY <2>1
<1>3. T # {}
  BY <1>2
<1> HIDE DEF T
<1>4. PICK n \in T : \A m \in T : n <= m
  BY <1>1, <1>3, LeastIs
<1>5. N - n \in S /\ n \in 0 .. N
  BY DEF T
<1>6. \A i \in S : N - n >= i
  BY <1>2, <1>4, <1>5
<1> QED
  BY <1>5, <1>6 DEF Max

Source(c) == <<"source", SourceScopedJobId(c)>>
Sure(c) == {Source(c), <<"apply", c.apply>>, <<"listing", c.url>>}
Keys(c) == Sure(c) \union {Fingerprint(c)}

\* The identity by which a job is recognised is the first that is known: its
\* source's, if that is, and one of its addresses before its look.
LEMMA Recognised ==
  ASSUME NEW c, NEW D, NEW known, known = SelectInSeq(Probes(c), LAMBDA k : k \in D)
  PROVE  /\ known = 0 => Sure(c) \cap D = {}
         /\ known # 0 => /\ Probes(c)[known] \in Keys(c) \cap D
                         /\ Source(c) \in D => Probes(c)[known] = Source(c)
                         /\ Sure(c) \cap D # {} => Probes(c)[known] \in Sure(c)
<1> DEFINE p == Probes(c)
           places == {i \in 1 .. Len(p) : p[i] \in D}
<1>1. /\ Len(p) \in 3 .. 4 /\ p[1] = Source(c) /\ p[2] = <<"apply", c.apply>>
      /\ p[3] = <<"listing", c.url>>
      /\ Len(p) = 4 => p[4] = Fingerprint(c)
  BY DEF Probes, Addresses, Source
<1>2. known = IF places # {} THEN Min(places) ELSE 0
  BY DEF SelectInSeq
<1> HIDE DEF p
<1>3. CASE places = {}
  <2>1. known = 0
    BY <1>2, <1>3
  <2>2. 1 \in 1 .. Len(p) /\ 2 \in 1 .. Len(p) /\ 3 \in 1 .. Len(p)
    BY <1>1
  <2>3. p[1] \notin D /\ p[2] \notin D /\ p[3] \notin D
    BY <1>3, <2>2
  <2> QED
    BY <1>1, <2>1, <2>3 DEF Sure
<1>4. CASE places # {}
  <2>1. places \in SUBSET Nat
    OBVIOUS
  <2>2. known \in places /\ \A n \in places : known <= n
    <3> HIDE DEF places
    <3> QED
      BY <1>2, <1>4, <2>1, LeastIs
  <2>3. known \in {1, 2, 3, 4} /\ p[known] \in D /\ (known = 4 => Len(p) = 4)
    BY <1>1, <2>2
  <2>4. p[known] \in Keys(c) /\ (known # 4 => p[known] \in Sure(c))
    <3>1. CASE known = 4
      BY <1>1, <2>3, <3>1 DEF Keys
    <3>2. CASE known # 4
      BY <1>1, <2>3, <3>2 DEF Keys, Sure
    <3> QED
      BY <3>1, <3>2
  <2>5. \A i \in {1, 2, 3} : p[i] \in D => known <= i
    <3> TAKE i \in {1, 2, 3}
    <3> HAVE p[i] \in D
    <3>1. i \in 1 .. Len(p)
      BY <1>1
    <3>2. i \in places
      BY <3>1
    <3> QED
      BY <2>2, <3>2
  <2>6. Source(c) \in D => known = 1
    BY <1>1, <2>3, <2>5
  <2>7. Sure(c) \cap D # {} => known # 4
    <3> SUFFICES ASSUME NEW k \in Sure(c), k \in D PROVE known # 4
      OBVIOUS
    <3>1. PICK i \in {1, 2, 3} : p[i] = k
      BY <1>1 DEF Sure
    <3> QED
      BY <2>5, <3>1
  <2> QED
    BY <1>1, <2>3, <2>4, <2>6, <2>7 DEF p
<1> QED
  BY <1>3, <1>4

\* What is accumulated: cards, each found by its source's identity, and
\* identities of them only.
Accumulated(acc) ==
  /\ acc.list \in Seq(ACard)
  /\ \A k \in DOMAIN acc.at : acc.at[k] \in 1 .. Len(acc.list)
  /\ \A p \in 1 .. Len(acc.list) :
       Source(acc.list[p]) \in DOMAIN acc.at /\ acc.at[Source(acc.list[p])] = p

\* The step of deduplicateJobs: a job gets a card of its own, at the end, or
\* joins the card it is recognised in; all its identities then lead there.
Added(acc, c, r, place) ==
  /\ place = Len(acc.list) + 1 /\ r.list = Append(acc.list, c)
  /\ Sure(c) \cap DOMAIN acc.at = {}
Joined(acc, c, r, place) ==
  /\ place \in 1 .. Len(acc.list)
  /\ r.list = [acc.list EXCEPT ![place] = Survivor(acc.list[place], c)]
  /\ \E k \in Keys(c) \cap DOMAIN acc.at :
       /\ place = acc.at[k]
       /\ Source(c) \in DOMAIN acc.at => k = Source(c)
       /\ Sure(c) \cap DOMAIN acc.at # {} => k \in Sure(c)

LEMMA OneMore ==
  ASSUME NEW acc, Accumulated(acc), NEW c \in ACard
  PROVE  \E place \in 1 .. Len(acc.list) + 1 :
           /\ Absorb(acc, c).at = [k \in Keys(c) \union DOMAIN acc.at |->
                                     IF k \in Keys(c) THEN place ELSE acc.at[k]]
           /\ \/ Added(acc, c, Absorb(acc, c), place)
              \/ Joined(acc, c, Absorb(acc, c), place)
<1> DEFINE D == DOMAIN acc.at
           known == SelectInSeq(Probes(c), LAMBDA k : k \in DOMAIN acc.at)
           place == IF known = 0 THEN Len(acc.list) + 1 ELSE acc.at[Probes(c)[known]]
           r == Absorb(acc, c)
<1>1. /\ known = 0 => Sure(c) \cap D = {}
      /\ known # 0 => /\ Probes(c)[known] \in Keys(c) \cap D
                      /\ Source(c) \in D => Probes(c)[known] = Source(c)
                      /\ Sure(c) \cap D # {} => Probes(c)[known] \in Sure(c)
  <2>1. known = SelectInSeq(Probes(c), LAMBDA k : k \in D)
    BY DEF known
  <2> HIDE DEF known, D
  <2> QED
    BY <2>1, Recognised
<1>2. Keys(c) = ToSet(Addresses(c)) \union {Fingerprint(c)}
  BY DEF Keys, Sure, Source, Addresses, ToSet
<1>3. /\ r.list = IF known = 0 THEN Append(acc.list, c)
                  ELSE [acc.list EXCEPT ![place] = Survivor(acc.list[place], c)]
      /\ r.at = [k \in Keys(c) \union DOMAIN acc.at |->
                   IF k \in Keys(c) THEN place ELSE acc.at[k]]
  BY <1>2 DEF Absorb
<1> HIDE DEF known, r
<1>4. Len(acc.list) \in Nat
  BY DEF Accumulated
<1>5. CASE known = 0
  <2>1. place = Len(acc.list) + 1
    BY <1>5
  <2>2. Added(acc, c, r, place)
    BY <1>1, <1>3, <1>5, <2>1 DEF Added
  <2> HIDE DEF place
  <2> QED
    BY <1>3, <1>4, <2>1, <2>2 DEF r
<1>6. CASE known # 0
  <2> DEFINE k == Probes(c)[known]
  <2>1. place = acc.at[k] /\ k \in Keys(c) \cap D
    BY <1>1, <1>6
  <2>2. place \in 1 .. Len(acc.list)
    BY <2>1 DEF Accumulated
  <2>3. Joined(acc, c, r, place)
    <3> HIDE DEF place, k
    <3>1. /\ Source(c) \in D => k = Source(c)
          /\ Sure(c) \cap D # {} => k \in Sure(c)
      BY <1>1, <1>6 DEF k
    <3>2. r.list = [acc.list EXCEPT ![place] = Survivor(acc.list[place], c)]
      BY <1>3, <1>6
    <3> QED
      BY <2>1, <2>2, <3>1, <3>2 DEF Joined
  <2> HIDE DEF place
  <2> QED
    BY <1>3, <1>4, <2>2, <2>3 DEF r
<1> QED
  BY <1>5, <1>6

LEMMA KeysAdded ==
  ASSUME NEW acc, Accumulated(acc), NEW c \in ACard
  PROVE  DOMAIN Absorb(acc, c).at = Keys(c) \union DOMAIN acc.at
<1>1. PICK place \in 1 .. Len(acc.list) + 1 :
        /\ Absorb(acc, c).at = [k \in Keys(c) \union DOMAIN acc.at |->
                                  IF k \in Keys(c) THEN place ELSE acc.at[k]]
        /\ \/ Added(acc, c, Absorb(acc, c), place)
           \/ Joined(acc, c, Absorb(acc, c), place)
  BY OneMore
<1> QED
  BY <1>1

LEMMA ShownSource ==
  ASSUME NEW m, NEW d, IsTextOf(m, d)
  PROVE  Source(m) = Source(d)
BY DEF IsTextOf, Source, SourceScopedJobId

\* An identity of a source is no other identity.
LEMMA SourceKey ==
  ASSUME NEW c, NEW d, Source(d) \in Keys(c)
  PROVE  Source(d) = Source(c)
BY DEF Keys, Sure, Source, Fingerprint

LEMMA Accumulates ==
  ASSUME NEW acc, Accumulated(acc), NEW c \in ACard
  PROVE  Accumulated(Absorb(acc, c))
<1> DEFINE r == Absorb(acc, c)
           L == acc.list
<1>1. PICK place \in 1 .. Len(L) + 1 :
        /\ r.at = [k \in Keys(c) \union DOMAIN acc.at |->
                     IF k \in Keys(c) THEN place ELSE acc.at[k]]
        /\ Added(acc, c, r, place) \/ Joined(acc, c, r, place)
  BY OneMore
<1> HIDE DEF r, L
<1>2. L \in Seq(ACard) /\ Len(L) \in Nat
  BY DEF Accumulated, L
<1>3. \A p \in 1 .. Len(L) : L[p] \in ACard /\ Source(L[p]) \in DOMAIN acc.at /\ acc.at[Source(L[p])] = p
  BY <1>2 DEF Accumulated, L
<1>4. \A k \in DOMAIN acc.at : acc.at[k] \in 1 .. Len(L)
  BY DEF Accumulated, L
<1>5. Source(c) \in Keys(c)
  BY DEF Keys, Sure
<1>6. DOMAIN r.at = Keys(c) \union DOMAIN acc.at
  BY <1>1
<1>7. \A k \in DOMAIN r.at : r.at[k] = IF k \in Keys(c) THEN place ELSE acc.at[k]
  BY <1>1
<1>8. CASE Added(acc, c, r, place)
  <2>1. place = Len(L) + 1 /\ r.list = Append(L, c) /\ Source(c) \notin DOMAIN acc.at
    BY <1>8 DEF Added, Sure, L
  <2>2. r.list \in Seq(ACard) /\ Len(r.list) = Len(L) + 1
    BY <1>2, <2>1
  <2>3. \A p \in 1 .. Len(L) : r.list[p] = L[p]
    BY <1>2, <2>1
  <2>4. r.list[place] = c
    BY <1>2, <2>1
  <2>5. \A k \in DOMAIN r.at : r.at[k] \in 1 .. Len(r.list)
    BY <1>2, <1>4, <1>6, <1>7, <2>1, <2>2
  <2>6. ASSUME NEW p \in 1 .. Len(r.list)
        PROVE  Source(r.list[p]) \in DOMAIN r.at /\ r.at[Source(r.list[p])] = p
    <3>1. CASE p = place
      BY <1>5, <1>6, <1>7, <2>4, <3>1
    <3>2. CASE p # place
      <4>1. p \in 1 .. Len(L) /\ r.list[p] = L[p]
        BY <1>2, <2>1, <2>2, <2>3, <3>2
      <4>2. Source(L[p]) \notin Keys(c)
        BY <1>3, <2>1, <4>1, SourceKey
      <4> QED
        BY <1>3, <1>6, <1>7, <4>1, <4>2
    <3> QED
      BY <3>1, <3>2
  <2> QED
    BY <2>2, <2>5, <2>6 DEF Accumulated, r
<1>9. CASE Joined(acc, c, r, place)
  <2>1. PICK k \in Keys(c) \cap DOMAIN acc.at :
          place = acc.at[k] /\ (Source(c) \in DOMAIN acc.at => k = Source(c))
    BY <1>9 DEF Joined
  <2> DEFINE m == Survivor(L[place], c)
  <2>2. place \in 1 .. Len(L) /\ r.list = [L EXCEPT ![place] = m]
    BY <1>9 DEF Joined, L
  <2>3. m \in ACard /\ (Source(m) = Source(L[place]) \/ Source(m) = Source(c))
    BY <1>3, <2>2, Survives, ShownSource
  <2> HIDE DEF m
  <2>4. r.list \in Seq(ACard) /\ Len(r.list) = Len(L)
    BY <1>2, <2>2, <2>3
  <2>5. \A p \in 1 .. Len(L) : r.list[p] = IF p = place THEN m ELSE L[p]
    BY <1>2, <2>2
  <2>6. \A i \in DOMAIN r.at : r.at[i] \in 1 .. Len(r.list)
    BY <1>4, <1>6, <1>7, <2>2, <2>4
  <2>7. ASSUME NEW p \in 1 .. Len(r.list)
        PROVE  Source(r.list[p]) \in DOMAIN r.at /\ r.at[Source(r.list[p])] = p
    <3>1. CASE p = place
      <4>1. r.list[p] = m
        BY <2>2, <2>5, <3>1
      <4> QED
        BY <1>3, <1>5, <1>6, <1>7, <2>2, <2>3, <3>1, <4>1
    <3>2. CASE p # place
      <4>1. p \in 1 .. Len(L) /\ r.list[p] = L[p]
        BY <2>4, <2>5, <3>2
      <4>2. Source(L[p]) \notin Keys(c)
        BY <1>3, <2>1, <3>2, <4>1, SourceKey
      <4> QED
        BY <1>3, <1>6, <1>7, <4>1, <4>2
    <3> QED
      BY <3>1, <3>2
  <2> QED
    BY <2>4, <2>6, <2>7 DEF Accumulated, r
<1> QED
  BY <1>1, <1>8, <1>9

\* No source's identity is twice among the cards of feeds.
Distinct(list) ==
  \A p, q \in DOMAIN list :
    list[p].kind = "feed" /\ list[q].kind = "feed" /\ Source(list[p]) = Source(list[q]) => p = q

LEMMA Deduplicated ==
  ASSUME NEW list \in Seq(ACard)
  PROVE  /\ \A n \in 0 .. Len(list) : Accumulated(Absorbed(list)[n])
         /\ DeduplicateJobs(list) \in Seq(ACard) /\ Distinct(DeduplicateJobs(list))
<1> DEFINE N == Len(list)
           a == Absorbed(list)
           S == {n \in 0 .. N : Accumulated(a[n])}
<1>1. N \in Nat /\ \A n \in 1 .. N : list[n] \in ACard
  OBVIOUS
<1>2. /\ a[0] = [list |-> <<>>, at |-> <<>>]
      /\ \A n \in 0 .. N : n < N => a[n + 1] = Absorb(a[n], list[n + 1])
  <2>1. a = [n \in 0 .. N |-> IF n = 0 THEN [list |-> <<>>, at |-> <<>>]
                              ELSE Absorb(a[n - 1], list[n])]
    BY <1>1, AbsorbedIs
  <2> HIDE DEF a
  <2>2. 0 \in 0 .. N /\ \A n \in 0 .. N : n < N => n + 1 \in 0 .. N /\ n + 1 # 0 /\ (n + 1) - 1 = n
    BY <1>1
  <2> QED
    BY <2>1, <2>2
<1> HIDE DEF a
<1>3. 0 \in S
  <2>1. a[0].list = <<>> /\ a[0].at = <<>>
    BY <1>2
  <2>2. <<>> \in Seq(ACard) /\ Len(<<>>) = 0 /\ DOMAIN <<>> = {}
    OBVIOUS
  <2>3. Accumulated(a[0])
    BY <2>1, <2>2 DEF Accumulated
  <2> QED
    BY <1>1, <2>3
<1>4. \A n \in 0 .. N : n \in S /\ n < N => n + 1 \in S
  <2> SUFFICES ASSUME NEW n \in 0 .. N, n \in S, n < N PROVE n + 1 \in S
    OBVIOUS
  <2>1. n + 1 \in 1 .. N /\ n + 1 \in 0 .. N
    BY <1>1
  <2>2. Accumulated(a[n + 1])
    BY <1>1, <1>2, <2>1, Accumulates
  <2> QED
    BY <2>1, <2>2
<1>5. \A n \in 0 .. N : Accumulated(a[n])
  <2> HIDE DEF S, N
  <2>1. 0 .. N \subseteq S
    BY <1>1, <1>3, <1>4, UpTo
  <2> QED
    BY <2>1 DEF S
<1>6. Accumulated(a[N]) /\ DeduplicateJobs(list) = a[N].list
  BY <1>1, <1>5 DEF DeduplicateJobs, a
<1>7. Distinct(a[N].list)
  BY <1>6 DEF Accumulated, Distinct
<1> QED
  BY <1>5, <1>6, <1>7 DEF Accumulated, a

\* The identities in Hot lead to cards of the crawler, and no card of a feed
\* shows an address of A.
Led(acc, A, Hot) ==
  /\ \A k \in Hot \cap DOMAIN acc.at : acc.list[acc.at[k]].kind = "canonical"
  /\ \A p \in 1 .. Len(acc.list) : acc.list[p].kind = "feed" => acc.list[p].url \notin A

\* What a step of deduplicateJobs does to the list and the identities.
LEMMA Step ==
  ASSUME NEW acc, Accumulated(acc), NEW c \in ACard, NEW place,
         \/ Added(acc, c, Absorb(acc, c), place)
         \/ Joined(acc, c, Absorb(acc, c), place)
  PROVE  LET r == Absorb(acc, c)
         IN /\ place \in 1 .. Len(r.list) /\ Len(acc.list) \in Nat
            /\ Len(r.list) \in {Len(acc.list), Len(acc.list) + 1}
            /\ \A p \in 1 .. Len(r.list) : p # place => p \in 1 .. Len(acc.list) /\ r.list[p] = acc.list[p]
            /\ \/ place \notin 1 .. Len(acc.list) /\ r.list[place] = c
               \/ place \in 1 .. Len(acc.list) /\ r.list[place] = Survivor(acc.list[place], c)
<1> DEFINE r == Absorb(acc, c)
           L == acc.list
           m == Survivor(L[place], c)
<1> HIDE DEF r, L, m
<1>1. L \in Seq(ACard) /\ Len(L) \in Nat
  BY DEF Accumulated, L
<1>2. CASE Added(acc, c, r, place)
  <2>1. place = Len(L) + 1 /\ r.list = Append(L, c)
    BY <1>2 DEF Added, L
  <2>2. Len(r.list) = Len(L) + 1 /\ r.list[place] = c /\ \A p \in 1 .. Len(L) : r.list[p] = L[p]
    BY <1>1, <2>1
  <2> QED
    BY <1>1, <2>1, <2>2 DEF r, L
<1>3. CASE Joined(acc, c, r, place)
  <2>1. place \in 1 .. Len(L) /\ r.list = [L EXCEPT ![place] = m]
    BY <1>3 DEF Joined, L, m
  <2>2. m \in ACard
    BY <1>1, <2>1, Survives DEF m
  <2>3. Len(r.list) = Len(L) /\ \A p \in 1 .. Len(L) : r.list[p] = IF p = place THEN m ELSE L[p]
    BY <1>1, <2>1, <2>2
  <2> QED
    BY <1>1, <2>1, <2>3 DEF r, L, m
<1> QED
  BY <1>2, <1>3 DEF r

LEMMA Leads ==
  ASSUME NEW acc, Accumulated(acc), NEW c \in ACard, NEW A, NEW Hot, Led(acc, A, Hot),
         \A x \in A : <<"apply", x>> \in Hot /\ <<"listing", x>> \in Hot,
         c.kind = "feed" /\ c.url \in A =>
           Source(c) \in Hot /\ Sure(c) \cap DOMAIN acc.at # {},
         c.kind = "feed" /\ c.url \notin A => Keys(c) \cap Hot = {}
  PROVE  Led(Absorb(acc, c), A, Hot)
<1> DEFINE r == Absorb(acc, c)
           L == acc.list
<1>1. PICK place \in 1 .. Len(L) + 1 :
        /\ r.at = [k \in Keys(c) \union DOMAIN acc.at |->
                     IF k \in Keys(c) THEN place ELSE acc.at[k]]
        /\ Added(acc, c, r, place) \/ Joined(acc, c, r, place)
  BY OneMore
<1>2. /\ place \in 1 .. Len(r.list) /\ Len(L) \in Nat
      /\ Len(r.list) \in {Len(L), Len(L) + 1}
      /\ \A p \in 1 .. Len(r.list) : p # place => p \in 1 .. Len(L) /\ r.list[p] = L[p]
      /\ \/ place \notin 1 .. Len(L) /\ r.list[place] = c
         \/ place \in 1 .. Len(L) /\ r.list[place] = Survivor(L[place], c)
  BY <1>1, Step
<1> HIDE DEF r, L
<1>3. \A p \in 1 .. Len(L) : L[p] \in ACard
  BY DEF Accumulated, L
<1>4. \A k \in DOMAIN acc.at : acc.at[k] \in 1 .. Len(L)
  BY DEF Accumulated, L
<1>5. /\ \A k \in Hot \cap DOMAIN acc.at : L[acc.at[k]].kind = "canonical"
      /\ \A p \in 1 .. Len(L) : L[p].kind = "feed" => L[p].url \notin A
  BY DEF Led, L
<1>6. DOMAIN r.at = Keys(c) \union DOMAIN acc.at
      /\ \A k \in DOMAIN r.at : r.at[k] = IF k \in Keys(c) THEN place ELSE acc.at[k]
  BY <1>1
<1>7. \A p \in 1 .. Len(r.list) : p # place /\ r.list[p].kind = "feed" => r.list[p].url \notin A
  BY <1>2, <1>5
<1>8. ASSUME place \in 1 .. Len(L)
      PROVE  /\ r.list[place].kind = "feed" <=> L[place].kind = "feed" /\ c.kind = "feed"
             /\ r.list[place].kind \in {"feed", "canonical"}
             /\ r.list[place].url \in {L[place].url, c.url}
  <2>1. r.list[place] = Survivor(L[place], c) /\ L[place] \in ACard
    BY <1>2, <1>3, <1>8
  <2> DEFINE m == Survivor(L[place], c)
  <2>2. /\ m \in ACard /\ (m.kind = "feed" <=> L[place].kind = "feed" /\ c.kind = "feed")
        /\ IsTextOf(m, L[place]) \/ IsTextOf(m, c)
    BY <2>1, Survives
  <2> HIDE DEF m
  <2>3. m.kind \in {"feed", "canonical"} /\ m.url \in {L[place].url, c.url}
    BY <2>2 DEF IsTextOf, ACard, WholeCard
  <2> QED
    BY <2>1, <2>2, <2>3 DEF m
<1>9. c.kind \in {"feed", "canonical"} /\ (c.kind = "feed" => c.apply = c.url)
  BY DEF ACard, WholeCard
<1>10. CASE r.list[place].kind = "canonical"
  <2>1. ASSUME NEW k \in Hot \cap DOMAIN r.at PROVE r.list[r.at[k]].kind = "canonical"
    <3>1. CASE r.at[k] = place
      BY <1>10, <3>1
    <3>2. CASE r.at[k] # place
      <4>1. k \in DOMAIN acc.at /\ r.at[k] = acc.at[k]
        BY <1>6, <3>2
      <4>2. r.at[k] \in 1 .. Len(r.list)
        BY <1>2, <1>4, <4>1
      <4> QED
        BY <1>2, <1>5, <3>2, <4>1, <4>2
    <3> QED
      BY <3>1, <3>2
  <2>2. \A p \in 1 .. Len(r.list) : r.list[p].kind = "feed" => r.list[p].url \notin A
    BY <1>7, <1>10
  <2> QED
    BY <2>1, <2>2 DEF Led, r
<1>11. CASE c.kind = "canonical" \/ c.url \in A
  <2>1. CASE c.kind = "canonical"
    <3>1. r.list[place].kind = "canonical"
      BY <1>2, <1>8, <2>1
    <3> QED
      BY <1>10, <3>1
  <2>2. CASE c.kind = "feed" /\ c.url \in A
    <3>1. Sure(c) \subseteq Hot /\ Sure(c) \cap DOMAIN acc.at # {}
      BY <1>9, <2>2 DEF Sure
    <3>2. Joined(acc, c, r, place)
      BY <1>1, <3>1 DEF Added
    <3>3. PICK k \in DOMAIN acc.at : k \in Sure(c) /\ place = acc.at[k]
      BY <3>1, <3>2 DEF Joined
    <3>4. L[place].kind = "canonical" /\ place \in 1 .. Len(L)
      BY <1>4, <1>5, <3>1, <3>3
    <3>5. r.list[place].kind = "canonical"
      BY <1>8, <3>4
    <3> QED
      BY <1>10, <3>5
  <2> QED
    BY <1>9, <1>11, <2>1, <2>2
<1>12. CASE c.kind = "feed" /\ c.url \notin A
  <2>1. ASSUME NEW k \in Hot \cap DOMAIN r.at PROVE r.list[r.at[k]].kind = "canonical"
    <3>1. k \notin Keys(c) /\ k \in DOMAIN acc.at /\ r.at[k] = acc.at[k]
      BY <1>6, <1>12
    <3>2. r.at[k] \in 1 .. Len(L) /\ L[r.at[k]].kind = "canonical" /\ r.at[k] \in 1 .. Len(r.list)
      BY <1>2, <1>4, <1>5, <3>1
    <3>3. CASE r.at[k] = place
      BY <1>8, <3>2, <3>3
    <3>4. CASE r.at[k] # place
      BY <1>2, <3>2, <3>4
    <3> QED
      BY <3>3, <3>4
  <2>2. r.list[place].kind = "feed" => r.list[place].url \notin A
    <3>1. CASE place \in 1 .. Len(L)
      BY <1>5, <1>8, <1>12, <3>1
    <3>2. CASE place \notin 1 .. Len(L)
      BY <1>2, <1>12, <3>2
    <3> QED
      BY <3>1, <3>2
  <2> QED
    BY <1>7, <2>1, <2>2 DEF Led, r
<1> QED
  BY <1>9, <1>11, <1>12

\* Records of feeds with one source's identity have one address.
OneAddress(list) ==
  \A p, q \in DOMAIN list :
    /\ list[p].kind = "feed" /\ list[q].kind = "feed" /\ Source(list[p]) = Source(list[q])
    => list[p].url = list[q].url
AddressesOf(results) ==
  {results[i].url : i \in DOMAIN results} \union {results[i].apply : i \in DOMAIN results}

\* Search results are listed first, so that no card of a feed is left with an
\* address of theirs.
LEMMA ResultsLead ==
  ASSUME NEW results \in Seq(ACard), NEW list \in Seq(ACard), OneAddress(results \o list),
         \A i \in DOMAIN results : results[i].kind = "canonical"
  PROVE  \A p \in DOMAIN DeduplicateJobs(results \o list) :
           DeduplicateJobs(results \o list)[p].kind = "feed" =>
             DeduplicateJobs(results \o list)[p].url \notin AddressesOf(results)
<1> DEFINE all == results \o list
           N == Len(all)
           R == Len(results)
           a == Absorbed(all)
           A == AddressesOf(results)
           Hot == {<<"apply", x>> : x \in A} \union {<<"listing", x>> : x \in A}
                  \union {Source(all[i]) : i \in {j \in 1 .. N : all[j].kind = "feed" /\ all[j].url \in A}}
           S == {n \in 0 .. N : /\ Led(a[n], A, Hot)
                                /\ \A i \in 1 .. n : Keys(all[i]) \subseteq DOMAIN a[n].at}
<1>1. /\ all \in Seq(ACard) /\ N \in Nat /\ R \in Nat /\ R <= N
      /\ \A i \in 1 .. N : all[i] \in ACard
      /\ \A i \in 1 .. R : i \in 1 .. N /\ all[i] = results[i] /\ all[i].kind = "canonical"
  OBVIOUS
<1>2. \A n \in 0 .. N : Accumulated(a[n])
  BY <1>1, Deduplicated
<1>3. /\ a[0] = [list |-> <<>>, at |-> <<>>]
      /\ \A n \in 0 .. N : n < N => a[n + 1] = Absorb(a[n], all[n + 1])
  <2>1. a = [n \in 0 .. N |-> IF n = 0 THEN [list |-> <<>>, at |-> <<>>]
                              ELSE Absorb(a[n - 1], all[n])]
    BY <1>1, AbsorbedIs
  <2> HIDE DEF a
  <2>2. 0 \in 0 .. N /\ \A n \in 0 .. N : n < N => n + 1 \in 0 .. N /\ n + 1 # 0 /\ (n + 1) - 1 = n
    BY <1>1
  <2> QED
    BY <2>1, <2>2
<1>4. \A i \in 1 .. R : all[i].url \in A /\ all[i].apply \in A
  BY <1>1 DEF AddressesOf
<1>5. \A x \in A : \E i \in 1 .. R : <<"apply", x>> \in Keys(all[i]) \/ <<"listing", x>> \in Keys(all[i])
  <2> SUFFICES ASSUME NEW x \in A
               PROVE  \E i \in 1 .. R : <<"apply", x>> \in Keys(all[i]) \/ <<"listing", x>> \in Keys(all[i])
    OBVIOUS
  <2>1. PICK i \in DOMAIN results : x = results[i].url \/ x = results[i].apply
    BY DEF AddressesOf
  <2>2. i \in 1 .. R /\ all[i] = results[i]
    BY <1>1, <2>1
  <2> QED
    BY <2>1, <2>2 DEF Keys, Sure
<1>6. OneAddress(all)
  OBVIOUS
<1> HIDE DEF a, A, all, N, R
<1>7. \A x \in A : <<"apply", x>> \in Hot /\ <<"listing", x>> \in Hot
  OBVIOUS
<1>8. \A i \in 1 .. N : all[i].kind = "feed" /\ all[i].url \in A => Source(all[i]) \in Hot
  OBVIOUS
<1>9. ASSUME NEW i \in 1 .. N, all[i].kind = "feed", all[i].url \notin A
      PROVE  Keys(all[i]) \cap Hot = {}
  <2>1. all[i].apply = all[i].url
    BY <1>1, <1>9 DEF ACard, WholeCard
  <2>2. \A x \in A : <<"apply", x>> \notin Keys(all[i]) /\ <<"listing", x>> \notin Keys(all[i])
    BY <1>9, <2>1 DEF Keys, Sure, Source, Fingerprint
  <2>3. ASSUME NEW j \in 1 .. N, all[j].kind = "feed", all[j].url \in A
        PROVE  Source(all[j]) \notin Keys(all[i])
    <3>1. SUFFICES ASSUME Source(all[j]) = Source(all[i]) PROVE FALSE
      BY SourceKey
    <3>2. DOMAIN all = 1 .. N
      BY <1>1 DEF N
    <3> QED
      BY <1>6, <1>9, <2>3, <3>1, <3>2 DEF OneAddress
  <2> QED
    BY <2>2, <2>3
<1> HIDE DEF Hot
<1>10. 0 \in S
  <2>1. a[0].list = <<>> /\ a[0].at = <<>>
    BY <1>3
  <2>2. DOMAIN <<>> = {} /\ Len(<<>>) = 0
    OBVIOUS
  <2>3. Led(a[0], A, Hot)
    BY <2>1, <2>2 DEF Led
  <2> QED
    BY <1>1, <2>3
<1>11. \A n \in 0 .. N : n \in S /\ n < N => n + 1 \in S
  <2> SUFFICES ASSUME NEW n \in 0 .. N, n \in S, n < N PROVE n + 1 \in S
    OBVIOUS
  <2> DEFINE c == all[n + 1]
  <2>1. n + 1 \in 1 .. N /\ n + 1 \in 0 .. N /\ c \in ACard /\ a[n + 1] = Absorb(a[n], c)
    BY <1>1, <1>3
  <2>2. Accumulated(a[n])
    BY <1>2
  <2>3. Led(a[n], A, Hot) /\ \A i \in 1 .. n : Keys(all[i]) \subseteq DOMAIN a[n].at
    OBVIOUS
  <2>4. ASSUME c.kind = "feed", c.url \in A
        PROVE  Source(c) \in Hot /\ Sure(c) \cap DOMAIN a[n].at # {}
    <3>1. ~(n + 1 <= R)
      BY <1>1, <2>1, <2>4
    <3>2. PICK i \in 1 .. R : <<"apply", c.url>> \in Keys(all[i]) \/ <<"listing", c.url>> \in Keys(all[i])
      BY <1>5, <2>4
    <3>3. i \in 1 .. n
      BY <1>1, <2>1, <3>1
    <3>4. <<"apply", c.url>> \in DOMAIN a[n].at \/ <<"listing", c.url>> \in DOMAIN a[n].at
      BY <2>3, <3>2, <3>3
    <3>5. c.apply = c.url
      BY <2>1, <2>4 DEF ACard, WholeCard
    <3> QED
      BY <1>8, <2>1, <2>4, <3>4, <3>5 DEF Sure
  <2>5. c.kind = "feed" /\ c.url \notin A => Keys(c) \cap Hot = {}
    BY <1>9, <2>1
  <2>6. DOMAIN Absorb(a[n], c).at = Keys(c) \union DOMAIN a[n].at
    <3> HIDE DEF c
    <3> QED
      BY <2>1, <2>2, KeysAdded
  <2> HIDE DEF S, c
  <2>7. Led(Absorb(a[n], c), A, Hot)
    BY <1>7, <2>1, <2>2, <2>3, <2>4, <2>5, Leads
  <2>8. \A i \in 1 .. n + 1 : Keys(all[i]) \subseteq DOMAIN a[n + 1].at
    <3> TAKE i \in 1 .. n + 1
    <3>1. i \in 1 .. n \/ i = n + 1
      BY <1>1
    <3> QED
      BY <2>1, <2>3, <2>6, <3>1 DEF c
  <2> QED
    BY <2>1, <2>7, <2>8 DEF S
<1>12. Led(a[N], A, Hot)
  <2> HIDE DEF S
  <2>1. 0 .. N \subseteq S
    BY <1>1, <1>10, <1>11, UpTo
  <2>2. N \in S
    BY <1>1, <2>1
  <2> QED
    BY <2>2 DEF S
<1>13. DeduplicateJobs(all) = a[N].list /\ DeduplicateJobs(all) \in Seq(ACard)
  BY <1>1, Deduplicated DEF DeduplicateJobs, a, N
<1>14. \A p \in DOMAIN DeduplicateJobs(all) :
         DeduplicateJobs(all)[p].kind = "feed" => DeduplicateJobs(all)[p].url \notin A
  BY <1>12, <1>13 DEF Led
<1> QED
  BY <1>14 DEF all, A

\* Only a card of the crawler is given a search result's evidence.
LEMMA EvidenceGiven ==
  ASSUME NEW results \in Seq(ACard), NEW c \in ACard,
         \A i \in DOMAIN results : results[i].score[1] = "search",
         c.kind = "feed" => c.url \notin AddressesOf(results)
  PROVE  /\ WithEvidence(c, results) \in ACard
         /\ WithEvidence(c, results).kind = c.kind
         /\ WithEvidence(c, results).parts = c.parts
         /\ c.kind = "feed" => WithEvidence(c, results) = c
<1> DEFINE r == ResultFor(c, results)
           Having(x) == {i \in 1 .. Len(results) : x \in {results[i].url, results[i].apply}}
           same == {i \in 1 .. Len(results) : results[i].id = c.id}
           End(I) == IF I # {} THEN Max(I) ELSE 0
<1>1. r = IF End(same) > 0 THEN End(same)
          ELSE IF End(Having(c.url)) > 0 THEN End(Having(c.url)) ELSE End(Having(c.apply))
  BY DEF ResultFor, SelectLastInSeq
<1>2. /\ DOMAIN results = 1 .. Len(results) /\ Len(results) \in Nat
      /\ \A i \in 1 .. Len(results) : results[i] \in ACard
  OBVIOUS
<1>3. ASSUME NEW I \in SUBSET (1 .. Len(results))
      PROVE  End(I) = 0 \/ End(I) \in I
  BY <1>2, <1>3, LastIs
<1>4. same \subseteq 1 .. Len(results) /\ \A x : Having(x) \subseteq 1 .. Len(results)
  OBVIOUS
<1>5. r = 0 \/ r \in same \/ r \in Having(c.url) \/ r \in Having(c.apply)
  <2> HIDE DEF same, Having, End, r
  <2>1. /\ End(same) = 0 \/ End(same) \in same
        /\ End(Having(c.url)) = 0 \/ End(Having(c.url)) \in Having(c.url)
        /\ End(Having(c.apply)) = 0 \/ End(Having(c.apply)) \in Having(c.apply)
    BY <1>3, <1>4
  <2> QED
    BY <1>1, <2>1
<1>6. CASE r = 0
  <2>1. WithEvidence(c, results) = c
    BY <1>6 DEF WithEvidence
  <2> QED
    BY <2>1
<1>7. CASE r # 0
  <2>1. r \in 1 .. Len(results) /\ results[r] \in ACard /\ results[r].score[1] = "search"
    BY <1>2, <1>4, <1>5, <1>7
  <2>2. c.kind = "canonical"
    <3>1. WholeCard(c) /\ WholeCard(results[r])
      BY <2>1 DEF ACard
    <3>2. CASE results[r].id = c.id
      BY <2>1, <3>1, <3>2 DEF WholeCard
    <3>3. CASE c.url \in {results[r].url, results[r].apply} \/ c.apply \in {results[r].url, results[r].apply}
      <4>1. c.url \in AddressesOf(results) \/ c.apply \in AddressesOf(results)
        BY <1>2, <2>1, <3>3 DEF AddressesOf
      <4> QED
        BY <3>1, <4>1 DEF WholeCard
    <3> QED
      BY <1>5, <1>7, <3>2, <3>3
  <2>3. WithEvidence(c, results) =
          [c EXCEPT !.id = results[r].id, !.kind = "canonical", !.score = results[r].score]
    BY <1>7 DEF WithEvidence
  <2> DEFINE m == [c EXCEPT !.id = results[r].id, !.kind = "canonical", !.score = results[r].score]
  <2>4. m \in ACard /\ m.kind = "canonical" /\ m.parts = c.parts
    BY <2>1, <2>2, Evidenced
  <2> HIDE DEF m
  <2> QED
    BY <2>2, <2>3, <2>4 DEF m
<1> QED
  BY <1>6, <1>7

\* What each card of one list has absorbed, some card of the other has.
Carried(list, out) ==
  \A i \in DOMAIN list : \E k \in DOMAIN out : list[i].parts \subseteq out[k].parts

LEMMA CarriedOn ==
  ASSUME NEW a, NEW b, NEW c, Carried(a, b), Carried(b, c)
  PROVE  Carried(a, c)
<1> SUFFICES ASSUME NEW i \in DOMAIN a PROVE \E k \in DOMAIN c : a[i].parts \subseteq c[k].parts
  BY DEF Carried
<1>1. PICK j \in DOMAIN b : a[i].parts \subseteq b[j].parts
  BY DEF Carried
<1>2. PICK k \in DOMAIN c : b[j].parts \subseteq c[k].parts
  BY DEF Carried
<1> QED
  BY <1>1, <1>2

LEMMA DeduplicationCarries ==
  ASSUME NEW list \in Seq(ACard)
  PROVE  Carried(list, DeduplicateJobs(list))
<1> DEFINE N == Len(list)
           a == Absorbed(list)
           Holds(n) == \A i \in 1 .. n : \E p \in 1 .. Len(a[n].list) :
                         list[i].parts \subseteq a[n].list[p].parts
           S == {n \in 0 .. N : Holds(n)}
<1>1. N \in Nat /\ DOMAIN list = 1 .. N /\ \A n \in 1 .. N : list[n] \in ACard
  OBVIOUS
<1>2. \A n \in 0 .. N : Accumulated(a[n])
  BY Deduplicated
<1>3. \A n \in 0 .. N : n < N => a[n + 1] = Absorb(a[n], list[n + 1])
  <2>1. a = [n \in 0 .. N |-> IF n = 0 THEN [list |-> <<>>, at |-> <<>>]
                              ELSE Absorb(a[n - 1], list[n])]
    BY <1>1, AbsorbedIs
  <2> HIDE DEF a
  <2>2. \A n \in 0 .. N : n < N => n + 1 \in 0 .. N /\ n + 1 # 0 /\ (n + 1) - 1 = n
    BY <1>1
  <2> QED
    BY <2>1, <2>2
<1> HIDE DEF a
<1>4. 0 \in S
  BY <1>1
<1>5. \A n \in 0 .. N : n \in S /\ n < N => n + 1 \in S
  <2> SUFFICES ASSUME NEW n \in 0 .. N, n \in S, n < N PROVE n + 1 \in S
    OBVIOUS
  <2> DEFINE c == list[n + 1]
             r == Absorb(a[n], c)
             L == a[n].list
  <2>1. n + 1 \in 1 .. N /\ n + 1 \in 0 .. N /\ c \in ACard /\ a[n + 1] = r
    BY <1>1, <1>3
  <2>2. Accumulated(a[n]) /\ Holds(n)
    BY <1>2
  <2>3. \A p \in 1 .. Len(L) : L[p] \in ACard
    BY <2>2 DEF Accumulated
  <2> HIDE DEF c, Holds
  <2>4. PICK place : Added(a[n], c, r, place) \/ Joined(a[n], c, r, place)
    BY <2>1, <2>2, OneMore
  <2>5. /\ place \in 1 .. Len(r.list) /\ Len(L) \in Nat
        /\ Len(r.list) \in {Len(L), Len(L) + 1}
        /\ \A p \in 1 .. Len(r.list) : p # place => p \in 1 .. Len(L) /\ r.list[p] = L[p]
        /\ \/ place \notin 1 .. Len(L) /\ r.list[place] = c
           \/ place \in 1 .. Len(L) /\ r.list[place] = Survivor(L[place], c)
    BY <2>1, <2>2, <2>4, Step
  <2> HIDE DEF r, L
  <2>6. place \in 1 .. Len(L) => r.list[place].parts = L[place].parts \union c.parts
    BY <2>1, <2>3, <2>5, Survives
  <2>7. c.parts \subseteq r.list[place].parts
    BY <2>5, <2>6
  <2>8. \A p \in 1 .. Len(L) : p \in 1 .. Len(r.list) /\ L[p].parts \subseteq r.list[p].parts
    BY <2>5, <2>6
  <2>9. Holds(n + 1)
    <3> SUFFICES ASSUME NEW i \in 1 .. n + 1
                 PROVE  \E p \in 1 .. Len(r.list) : list[i].parts \subseteq r.list[p].parts
      BY <2>1 DEF Holds
    <3>1. CASE i = n + 1
      BY <2>5, <2>7, <3>1 DEF c
    <3>2. CASE i # n + 1
      <4>1. i \in 1 .. n
        BY <3>2
      <4>2. PICK p \in 1 .. Len(L) : list[i].parts \subseteq L[p].parts
        BY <2>2, <4>1 DEF Holds, L
      <4> QED
        BY <2>8, <4>2
    <3> QED
      BY <3>1, <3>2
  <2> QED
    BY <2>1, <2>9
<1>6. Holds(N)
  <2> HIDE DEF S
  <2>1. 0 .. N \subseteq S
    BY <1>1, <1>4, <1>5, UpTo
  <2>2. N \in S
    BY <1>1, <2>1
  <2> HIDE DEF Holds
  <2> QED
    BY <2>2 DEF S
<1>7. DeduplicateJobs(list) = a[N].list /\ DeduplicateJobs(list) \in Seq(ACard)
  BY Deduplicated DEF DeduplicateJobs, a
<1>8. DOMAIN a[N].list = 1 .. Len(a[N].list)
  BY <1>7
<1> QED
  BY <1>1, <1>6, <1>7, <1>8 DEF Carried

\* Each card of one list shows, if a feed's, a feed's card of another, each a
\* different one.
DrawnFrom(out, list) ==
  \E s \in [1 .. Len(out) -> 1 .. Len(list)] :
    /\ \A a, b \in 1 .. Len(out) : s[a] = s[b] => a = b
    /\ \A k \in 1 .. Len(out) : out[k].kind = "feed" =>
         list[s[k]].kind = "feed" /\ Source(out[k]) = Source(list[s[k]])

LEMMA DrawnDistinct ==
  ASSUME NEW out \in Seq(ACard), NEW list \in Seq(ACard), DrawnFrom(out, list), Distinct(list)
  PROVE  Distinct(out)
<1>1. DOMAIN out = 1 .. Len(out) /\ DOMAIN list = 1 .. Len(list)
  OBVIOUS
<1> QED
  BY <1>1 DEF DrawnFrom, Distinct

\* Some of a list, in any order.
LEMMA PickedCards ==
  ASSUME NEW list \in Seq(ACard), NEW I \in SUBSET (DOMAIN list), NEW before, Orders(before, I)
  PROVE  LET s == InOrder(I, before)
             out == Picked(list, s)
         IN /\ out \in Seq(ACard) /\ Len(out) = Len(s) /\ Len(s) <= Len(list)
            /\ s \in [1 .. Len(s) -> I]
            /\ \A a, b \in 1 .. Len(s) : s[a] = s[b] => a = b
            /\ \A i \in I : \E k \in 1 .. Len(s) : s[k] = i
            /\ \A k \in 1 .. Len(s) : out[k] = list[s[k]]
<1> DEFINE s == InOrder(I, before)
           out == Picked(list, s)
<1>1. DOMAIN list = 1 .. Len(list) /\ Len(list) \in Nat /\ \A i \in DOMAIN list : list[i] \in ACard
  OBVIOUS
<1>2. IsFiniteSet(DOMAIN list) /\ Cardinality(DOMAIN list) = Len(list)
  <2>1. IsFiniteSet(1 .. Len(list))
        /\ Cardinality(1 .. Len(list)) = IF 1 > Len(list) THEN 0 ELSE Len(list) - 1 + 1
    BY <1>1, FS_Interval
  <2>2. Cardinality(1 .. Len(list)) = Len(list)
    BY <1>1, <2>1
  <2> QED
    BY <1>1, <2>1, <2>2
<1>3. IsFiniteSet(I) /\ Cardinality(I) <= Len(list)
  BY <1>2, FS_Subset
<1>4. /\ s \in Seq(I) /\ Cardinality(I) \in Nat /\ Len(s) = Cardinality(I)
      /\ \A a, b \in 1 .. Cardinality(I) : s[a] = s[b] => a = b
      /\ \A i \in I : \E k \in 1 .. Cardinality(I) : s[k] = i
  BY <1>3, Ordered
<1> HIDE DEF s
<1>5. \A k \in 1 .. Len(s) : s[k] \in I /\ list[s[k]] \in ACard
  BY <1>1, <1>4
<1>6. out = [k \in 1 .. Len(s) |-> list[s[k]]]
  BY DEF Picked
<1>7. out \in Seq(ACard) /\ Len(out) = Len(s)
  <2>1. Len(s) \in Nat
    BY <1>4
  <2>2. out \in [1 .. Len(s) -> ACard]
    BY <1>5, <1>6
  <2> HIDE DEF out
  <2> QED
    BY <2>1, <2>2
<1>8. s \in [1 .. Len(s) -> I]
  BY <1>4
<1> QED
  BY <1>3, <1>4, <1>6, <1>7, <1>8 DEF s

LEMMA AllOrdered ==
  ASSUME NEW N \in Nat, NEW before, Orders(before, 1 .. N)
  PROVE  Len(InOrder(1 .. N, before)) = N
<1>1. IsFiniteSet(1 .. N) /\ Cardinality(1 .. N) = IF 1 > N THEN 0 ELSE N - 1 + 1
  BY FS_Interval
<1>2. Len(InOrder(1 .. N, before)) = Cardinality(1 .. N)
  BY <1>1, Ordered
<1> QED
  BY <1>1, <1>2

LEMMA ListedOrders ==
  ASSUME NEW list, NEW N \in Nat, DOMAIN list = 1 .. N, NEW I \in SUBSET (DOMAIN list)
  PROVE  Orders(AsListed(list), I)
BY DEF Orders, AsListed

LEMMA FeedsLast ==
  ASSUME NEW a \in Seq(ACard), NEW b \in Seq(ACard), OneAddress(b),
         \A i \in DOMAIN a : a[i].kind = "canonical"
  PROVE  a \o b \in Seq(ACard) /\ OneAddress(a \o b)
<1>1. \A p \in DOMAIN (a \o b) : (a \o b)[p].kind = "feed" =>
         \E q \in DOMAIN b : (a \o b)[p] = b[q]
  OBVIOUS
<1> QED
  BY <1>1 DEF OneAddress

LEMMA BothCarried ==
  ASSUME NEW a \in Seq(ACard), NEW b \in Seq(ACard)
  PROVE  Carried(a, a \o b) /\ Carried(b, a \o b)
<1>1. \A i \in DOMAIN a : i \in DOMAIN (a \o b) /\ (a \o b)[i] = a[i]
  OBVIOUS
<1>2. \A i \in DOMAIN b : Len(a) + i \in DOMAIN (a \o b) /\ (a \o b)[Len(a) + i] = b[i]
  OBVIOUS
<1>3. Carried(a, a \o b)
  <2> SUFFICES ASSUME NEW i \in DOMAIN a
               PROVE  \E k \in DOMAIN (a \o b) : a[i].parts \subseteq (a \o b)[k].parts
    BY DEF Carried
  <2> WITNESS i \in DOMAIN (a \o b)
  <2> QED
    BY <1>1
<1>4. Carried(b, a \o b)
  <2> SUFFICES ASSUME NEW i \in DOMAIN b
               PROVE  \E k \in DOMAIN (a \o b) : b[i].parts \subseteq (a \o b)[k].parts
    BY DEF Carried
  <2>1. Len(a) + i \in DOMAIN (a \o b) /\ (a \o b)[Len(a) + i] = b[i]
    BY <1>2
  <2> QED
    BY <2>1
<1> QED
  BY <1>3, <1>4

LEMMA EvidenceMerges ==
  ASSUME NEW results \in Seq(ACard), NEW list \in Seq(ACard), OneAddress(list),
         \A i \in DOMAIN results : results[i].score[1] = "search"
  PROVE  /\ MergeSearchResultJobs(list, results) \in Seq(ACard)
         /\ Distinct(MergeSearchResultJobs(list, results))
         /\ Carried(list, MergeSearchResultJobs(list, results))
<1> DEFINE merged == DeduplicateJobs(results \o list)
           out == MergeSearchResultJobs(list, results)
<1>1. \A i \in DOMAIN results : results[i].kind = "canonical"
  BY DEF ACard, WholeCard
<1>2. results \o list \in Seq(ACard) /\ OneAddress(results \o list)
  BY <1>1, FeedsLast
<1>3. merged \in Seq(ACard) /\ Distinct(merged)
  BY <1>2, Deduplicated
<1>4. Carried(list, merged)
  <2>1. Carried(results \o list, merged)
    BY <1>2, DeduplicationCarries
  <2>2. Carried(list, results \o list)
    BY BothCarried
  <2> HIDE DEF merged
  <2> QED
    BY <2>1, <2>2, CarriedOn
<1>5. \A p \in DOMAIN merged : merged[p].kind = "feed" => merged[p].url \notin AddressesOf(results)
  BY <1>1, <1>2, ResultsLead
<1>6. out = [i \in 1 .. Len(merged) |-> WithEvidence(merged[i], results)]
  BY DEF MergeSearchResultJobs
<1> HIDE DEF merged, out
<1>7. DOMAIN merged = 1 .. Len(merged) /\ Len(merged) \in Nat /\ \A i \in 1 .. Len(merged) : merged[i] \in ACard
  BY <1>3
<1>8. \A i \in 1 .. Len(merged) :
        /\ WithEvidence(merged[i], results) \in ACard
        /\ WithEvidence(merged[i], results).kind = merged[i].kind
        /\ WithEvidence(merged[i], results).parts = merged[i].parts
        /\ merged[i].kind = "feed" => WithEvidence(merged[i], results) = merged[i]
  BY <1>5, <1>7, EvidenceGiven
<1>9. out \in Seq(ACard) /\ Len(out) = Len(merged) /\ DOMAIN out = 1 .. Len(merged)
  BY <1>6, <1>7, <1>8
<1>10. Distinct(out)
  BY <1>3, <1>6, <1>7, <1>8, <1>9 DEF Distinct
<1>11. Carried(list, out)
  <2>1. Carried(merged, out)
    BY <1>6, <1>7, <1>8, <1>9 DEF Carried
  <2> QED
    BY <1>4, <2>1, CarriedOn
<1> QED
  BY <1>9, <1>10, <1>11 DEF out

\* importScoutJobs merges jobs of the crawler into a sound list.
LEMMA ImportMerges ==
  ASSUME NEW current \in Seq(ACard), Distinct(current), NEW imported \in Seq(ACard),
         \A i \in DOMAIN imported : imported[i].kind = "canonical"
  PROVE  /\ MergeImportedJobs(current, imported) \in Seq(ACard)
         /\ Distinct(MergeImportedJobs(current, imported))
         /\ Carried(current, MergeImportedJobs(current, imported))
         /\ Carried(imported, MergeImportedJobs(current, imported))
<1> DEFINE both == current \o imported
           I == {i \in DOMAIN both : both[i].score[1] = "search"}
           evidence == Only(both, I)
           list == imported \o current
<1>1. OneAddress(current)
  BY DEF Distinct, OneAddress
<1>2. list \in Seq(ACard) /\ OneAddress(list)
  BY <1>1, FeedsLast
<1>3. Carried(current, list) /\ Carried(imported, list)
  BY BothCarried
<1>4. both \in Seq(ACard) /\ Len(both) \in Nat /\ DOMAIN both = 1 .. Len(both) /\ I \in SUBSET (DOMAIN both)
  OBVIOUS
<1>5. \A i \in I : both[i].score[1] = "search"
  OBVIOUS
<1> HIDE DEF both, I, list
<1>6. Orders(AsListed(both), I)
  BY <1>4, ListedOrders
<1>7. /\ evidence \in Seq(ACard)
      /\ \A k \in DOMAIN evidence : evidence[k].score[1] = "search"
  <2> DEFINE s == InOrder(I, AsListed(both))
  <2>1. evidence = Picked(both, s)
    BY DEF Only
  <2>2. /\ evidence \in Seq(ACard) /\ Len(evidence) = Len(s) /\ s \in [1 .. Len(s) -> I]
        /\ \A k \in 1 .. Len(s) : evidence[k] = both[s[k]]
    BY <1>4, <1>6, PickedCards DEF Only
  <2> HIDE DEF s, evidence
  <2>3. DOMAIN evidence = 1 .. Len(s)
    BY <2>2
  <2> QED
    BY <1>5, <2>2, <2>3
<1>8. MergeImportedJobs(current, imported) =
        IF evidence = <<>> THEN DeduplicateJobs(list) ELSE MergeSearchResultJobs(list, evidence)
  BY DEF MergeImportedJobs, both, I, list
<1> HIDE DEF evidence
<1>9. /\ DeduplicateJobs(list) \in Seq(ACard) /\ Distinct(DeduplicateJobs(list))
      /\ Carried(list, DeduplicateJobs(list))
  BY <1>2, Deduplicated, DeduplicationCarries
<1>10. /\ MergeSearchResultJobs(list, evidence) \in Seq(ACard)
      /\ Distinct(MergeSearchResultJobs(list, evidence))
      /\ Carried(list, MergeSearchResultJobs(list, evidence))
  BY <1>2, <1>7, EvidenceMerges
<1>11. Carried(list, MergeImportedJobs(current, imported))
  BY <1>8, <1>9, <1>10
<1>12. /\ Carried(current, MergeImportedJobs(current, imported))
       /\ Carried(imported, MergeImportedJobs(current, imported))
  BY <1>3, <1>11, CarriedOn
<1> QED
  BY <1>8, <1>9, <1>10, <1>12

LEMMA BatchCards ==
  ASSUME NEW batch \in SUBSET Listing, NEW s \in {"estimate", "search"},
         s = "search" => batch \subseteq Crawled
  PROVE  /\ CardsOf(batch, s) \in Seq(ACard)
         /\ \A i \in DOMAIN CardsOf(batch, s) : \E l \in batch : CardsOf(batch, s)[i] = Card(l, s)
         /\ \A l \in batch : \E i \in DOMAIN CardsOf(batch, s) : CardsOf(batch, s)[i] = Card(l, s)
<1> DEFINE f == SetToSeq(batch)
           out == CardsOf(batch, s)
<1>1. IsFiniteSet(batch)
  BY BoardAssumption, FS_Subset
<1>2. /\ f \in Seq(batch) /\ Len(f) \in Nat
      /\ \A l \in batch : \E i \in 1 .. Len(f) : f[i] = l
  BY <1>1, BatchListed
<1>3. out = [i \in 1 .. Len(f) |-> Card(f[i], s)]
  BY DEF CardsOf
<1> HIDE DEF f, out
<1>4. \A i \in 1 .. Len(f) : f[i] \in batch /\ Card(f[i], s) \in ACard
  <2> TAKE i \in 1 .. Len(f)
  <2>1. f[i] \in batch
    BY <1>2
  <2> QED
    BY <2>1, CardMade
<1>5. out \in Seq(ACard) /\ DOMAIN out = 1 .. Len(f)
  BY <1>2, <1>3, <1>4
<1> QED
  BY <1>2, <1>3, <1>4, <1>5 DEF out

LEMMA CutToCap ==
  ASSUME NEW list \in Seq(ACard)
  PROVE  /\ CappedCards(list) \in Seq(ACard) /\ Len(CappedCards(list)) <= MaxCards
         /\ Distinct(list) => Distinct(CappedCards(list))
         /\ Len(CappedCards(list)) < MaxCards => CappedCards(list) = list
<1> DEFINE n == IF Len(list) < MaxCards THEN Len(list) ELSE MaxCards
           out == CappedCards(list)
<1>1. n \in Nat /\ n <= MaxCards /\ n <= Len(list)
  BY BoardAssumption
<1>2. out = SubSeq(list, 1, n)
  BY DEF CappedCards
<1> HIDE DEF n, out
<1>3. \A i \in 1 .. n : list[i] \in ACard
  BY <1>1
<1>4. /\ out \in Seq(ACard) /\ Len(out) = n
      /\ \A i \in 1 .. n : out[i] = list[i]
  BY <1>1, <1>2, <1>3
<1>5. DOMAIN out = 1 .. n /\ 1 .. n \subseteq DOMAIN list
  BY <1>1, <1>4
<1>6. Distinct(list) => Distinct(out)
  BY <1>4, <1>5 DEF Distinct
<1>7. Len(out) <= MaxCards
  BY <1>1, <1>4
<1>8. Len(out) < MaxCards => out = list
  <2>1. n < MaxCards => n = Len(list)
    BY BoardAssumption DEF n
  <2>2. SubSeq(list, 1, Len(list)) = list
    OBVIOUS
  <2> QED
    BY <1>2, <1>4, <2>1, <2>2
<1> QED
  BY <1>4, <1>6, <1>7, <1>8 DEF out

\* The order of ranking is strict: higher first, and of equals the earlier.
LEMMA Ranked ==
  ASSUME NEW list \in Seq(ACard), Distinct(list)
  PROVE  /\ RankedLocally(list) \in Seq(ACard) /\ Distinct(RankedLocally(list))
         /\ Len(RankedLocally(list)) = Len(list) /\ Carried(list, RankedLocally(list))
<1> DEFINE D == DOMAIN list
           better == {p \in D \X D : \/ list[p[1]].fit > list[p[2]].fit
                                     \/ list[p[1]].fit = list[p[2]].fit /\ p[1] < p[2]}
           scored == [i \in D |-> [list[i] EXCEPT !.score = <<"resume", list[i].slug>>]]
           out == RankedLocally(list)
           s == InOrder(D, better)
<1>1. D = 1 .. Len(list) /\ Len(list) \in Nat /\ \A i \in D : list[i] \in ACard
  OBVIOUS
<1>2. \A i \in D : list[i].fit \in Nat /\ i \in Nat /\ list[i].slug \in Ids(Listing)
  BY <1>1 DEF ACard, WholeCard
<1>3. out = Picked(scored, InOrder(D, better))
  BY DEF RankedLocally
<1>4. \A i \in D : /\ scored[i] \in ACard /\ scored[i].kind = list[i].kind
                  /\ Source(scored[i]) = Source(list[i]) /\ scored[i].parts = list[i].parts
  <2> TAKE i \in D
  <2>1. list[i] \in ACard /\ list[i].slug \in Ids(Listing) /\ "resume" \in ScoreKind
    BY <1>1, <1>2 DEF ScoreKind
  <2> DEFINE m == [list[i] EXCEPT !.score = <<"resume", list[i].slug>>]
  <2>2. /\ m \in ACard /\ m.kind = list[i].kind /\ m.id = list[i].id /\ m.slug = list[i].slug
        /\ m.site = list[i].site /\ m.parts = list[i].parts
    BY <2>1, Rescored
  <2>3. scored[i] = m
    OBVIOUS
  <2> HIDE DEF m, scored
  <2> QED
    BY <2>2, <2>3 DEF Source, SourceScopedJobId
<1>5. scored \in Seq(ACard) /\ Len(scored) = Len(list) /\ DOMAIN scored = D
  <2>1. DOMAIN scored = D
    OBVIOUS
  <2>2. scored \in [1 .. Len(list) -> ACard]
    BY <1>1, <1>4
  <2> HIDE DEF scored
  <2> QED
    BY <1>1, <2>1, <2>2
<1>6. Orders(better, D)
  <2>1. \A i, j \in D : <<i, j>> \in better <=>
          list[i].fit > list[j].fit \/ (list[i].fit = list[j].fit /\ i < j)
    OBVIOUS
  <2> HIDE DEF better, D
  <2>2. \A i \in D : <<i, i>> \notin better
    BY <1>2, <2>1
  <2>3. ASSUME NEW i \in D, NEW j \in D, i # j PROVE <<i, j>> \in better \/ <<j, i>> \in better
    <3>1. /\ list[i].fit \in Nat /\ list[j].fit \in Nat /\ i \in Nat /\ j \in Nat
      BY <1>2
    <3>2. \/ list[i].fit > list[j].fit \/ list[j].fit > list[i].fit
          \/ list[i].fit = list[j].fit /\ (i < j \/ j < i)
      BY <2>3, <3>1
    <3> QED
      BY <2>1, <3>2
  <2>4. ASSUME NEW i \in D, NEW j \in D, NEW k \in D, <<i, j>> \in better, <<j, k>> \in better
        PROVE  <<i, k>> \in better
    <3>1. /\ list[i].fit \in Nat /\ list[j].fit \in Nat /\ list[k].fit \in Nat
          /\ i \in Nat /\ j \in Nat /\ k \in Nat
      BY <1>2
    <3>2. /\ list[i].fit > list[j].fit \/ (list[i].fit = list[j].fit /\ i < j)
          /\ list[j].fit > list[k].fit \/ (list[j].fit = list[k].fit /\ j < k)
      BY <2>1, <2>4
    <3>3. list[i].fit > list[k].fit \/ (list[i].fit = list[k].fit /\ i < k)
      BY <3>1, <3>2
    <3> QED
      BY <2>1, <3>3
  <2> QED
    BY <2>2, <2>3, <2>4 DEF Orders
<1> HIDE DEF better, scored
<1>7. /\ Picked(scored, s) \in Seq(ACard) /\ Len(Picked(scored, s)) = Len(s) /\ Len(s) <= Len(scored)
      /\ s \in [1 .. Len(s) -> D]
      /\ \A a, b \in 1 .. Len(s) : s[a] = s[b] => a = b
      /\ \A i \in D : \E k \in 1 .. Len(s) : s[k] = i
      /\ \A k \in 1 .. Len(s) : Picked(scored, s)[k] = scored[s[k]]
  BY <1>5, <1>6, PickedCards
<1>8. Len(s) = Len(list)
  BY <1>1, <1>6, AllOrdered
<1> HIDE DEF s, out
<1>9. out \in Seq(ACard) /\ Len(out) = Len(s) /\ \A k \in 1 .. Len(s) : out[k] = scored[s[k]]
  BY <1>3, <1>7 DEF s
<1>10. DrawnFrom(out, list)
  <2>1. s \in [1 .. Len(out) -> 1 .. Len(list)]
    BY <1>1, <1>7, <1>9
  <2>2. \A k \in 1 .. Len(out) : out[k].kind = list[s[k]].kind /\ Source(out[k]) = Source(list[s[k]])
    BY <1>4, <1>7, <1>9
  <2>3. \A k \in 1 .. Len(out) : out[k].kind = "feed" =>
          list[s[k]].kind = "feed" /\ Source(out[k]) = Source(list[s[k]])
    BY <2>2
  <2>4. \A a, b \in 1 .. Len(out) : s[a] = s[b] => a = b
    BY <1>7, <1>9
  <2> QED
    BY <2>1, <2>3, <2>4 DEF DrawnFrom
<1>11. Carried(list, out)
  <2> SUFFICES ASSUME NEW i \in D PROVE \E k \in DOMAIN out : list[i].parts \subseteq out[k].parts
    BY DEF Carried
  <2>1. PICK k \in 1 .. Len(s) : s[k] = i
    BY <1>7
  <2> QED
    BY <1>4, <1>9, <2>1
<1> QED
  BY <1>5, <1>7, <1>9, <1>10, <1>11, <1>8, DrawnDistinct DEF out

\* The cards at some places of a list, in its order.
LEMMA OnlySome ==
  ASSUME NEW list \in Seq(ACard), NEW I \in SUBSET (DOMAIN list)
  PROVE  LET out == Only(list, I)
             s == InOrder(I, AsListed(list))
         IN /\ out \in Seq(ACard) /\ Len(out) \in Nat /\ s \in [1 .. Len(out) -> I]
            /\ \A i \in I : \E k \in 1 .. Len(out) : s[k] = i
            /\ \A i, j \in 1 .. Len(out) : s[i] = s[j] => i = j
            /\ \A k \in 1 .. Len(out) : out[k] = list[s[k]]
<1> DEFINE before == AsListed(list)
           s == InOrder(I, before)
           out == Picked(list, s)
<1>1. DOMAIN list = 1 .. Len(list) /\ Len(list) \in Nat
  OBVIOUS
<1>2. Orders(before, I)
  BY <1>1, ListedOrders
<1>3. Only(list, I) = out
  BY DEF Only
<1> HIDE DEF before
<1>4. /\ out \in Seq(ACard) /\ Len(out) = Len(s) /\ s \in [1 .. Len(s) -> I]
      /\ \A a, b \in 1 .. Len(s) : s[a] = s[b] => a = b
      /\ \A i \in I : \E k \in 1 .. Len(s) : s[k] = i
      /\ \A k \in 1 .. Len(s) : out[k] = list[s[k]]
  BY <1>2, PickedCards
<1>5. Len(out) \in Nat
  BY <1>4
<1> HIDE DEF s, out
<1> QED
  BY <1>3, <1>4, <1>5 DEF s, before

\* Some of a list, and the rest of it.
LEMMA Parted ==
  ASSUME NEW list \in Seq(ACard), NEW I \in SUBSET (DOMAIN list), Distinct(list)
  PROVE  LET out == Only(list, I) \o Only(list, DOMAIN list \ I)
         IN out \in Seq(ACard) /\ Distinct(out) /\ Len(out) <= Len(list) /\ Carried(list, out)
<1> DEFINE D == DOMAIN list
           J == D \ I
           a == Only(list, I)
           b == Only(list, J)
           f == InOrder(I, AsListed(list))
           g == InOrder(J, AsListed(list))
           n == Len(a)
           m == Len(b)
           out == a \o b
           s == [k \in 1 .. n + m |-> IF k <= n THEN f[k] ELSE g[k - n]]
<1>1. D = 1 .. Len(list) /\ Len(list) \in Nat /\ I \in SUBSET D /\ J \in SUBSET D /\ I \cap J = {}
  OBVIOUS
<1> HIDE DEF J
<1>2. /\ a \in Seq(ACard) /\ n \in Nat /\ f \in [1 .. n -> I]
      /\ \A i \in I : \E k \in 1 .. n : f[k] = i
      /\ \A i, j \in 1 .. n : f[i] = f[j] => i = j
      /\ \A k \in 1 .. n : a[k] = list[f[k]]
  BY OnlySome
<1>3. /\ b \in Seq(ACard) /\ m \in Nat /\ g \in [1 .. m -> J]
      /\ \A i \in J : \E k \in 1 .. m : g[k] = i
      /\ \A i, j \in 1 .. m : g[i] = g[j] => i = j
      /\ \A k \in 1 .. m : b[k] = list[g[k]]
  BY <1>1, OnlySome
<1> HIDE DEF D, a, b, f, g
<1>4. /\ out \in Seq(ACard) /\ Len(out) = n + m
      /\ \A k \in 1 .. n + m : out[k] = IF k <= n THEN a[k] ELSE b[k - n]
  BY <1>2, <1>3
<1> HIDE DEF out, n, m
<1>5. \A k \in 1 .. n + m : \/ k \in 1 .. n /\ k <= n
                            \/ k - n \in 1 .. m /\ ~(k <= n)
  BY <1>2, <1>3
<1>6. \A k \in 1 .. n + m :
        s[k] \in D /\ out[k] = list[s[k]] /\ (s[k] \in I <=> k <= n)
  <2> TAKE k \in 1 .. n + m
  <2>1. CASE k <= n
    BY <1>1, <1>2, <1>4, <1>5, <2>1
  <2>2. CASE ~(k <= n)
    BY <1>1, <1>3, <1>4, <1>5, <2>2
  <2> QED
    BY <2>1, <2>2
<1>7. ASSUME NEW i \in 1 .. n + m, NEW j \in 1 .. n + m, s[i] = s[j] PROVE i = j
  <2>1. CASE i <= n
    <3>1. j <= n
      BY <1>6, <1>7, <2>1
    <3> QED
      BY <1>2, <1>5, <1>7, <2>1, <3>1
  <2>2. CASE ~(i <= n)
    <3>1. ~(j <= n)
      BY <1>6, <1>7, <2>2
    <3>2. i - n = j - n
      BY <1>3, <1>5, <1>7, <2>2, <3>1
    <3> QED
      BY <1>2, <3>2
  <2> QED
    BY <2>1, <2>2
<1>8. s \in [1 .. n + m -> 1 .. Len(list)]
  <2>1. \A k \in 1 .. n + m : s[k] \in 1 .. Len(list)
    BY <1>1, <1>6
  <2> QED
    BY <2>1
<1> HIDE DEF s
<1>9. DrawnFrom(out, list)
  BY <1>4, <1>6, <1>7, <1>8 DEF DrawnFrom
<1>10. Len(out) <= Len(list)
  <2>1. s \in Injection(1 .. n + m, 1 .. Len(list))
    BY <1>7, <1>8, Fun_IsInj
  <2>2. IsFiniteSet(1 .. Len(list))
    BY <1>1, FS_Interval
  <2>3. Cardinality(1 .. n + m) <= Cardinality(1 .. Len(list))
    BY <2>1, <2>2, FS_Injection
  <2>4. \A k \in Nat : Cardinality(1 .. k) = k
    <3> TAKE k \in Nat
    <3>1. Cardinality(1 .. k) = IF 1 > k THEN 0 ELSE k - 1 + 1
      BY FS_Interval
    <3> QED
      BY <3>1
  <2>5. n + m \in Nat
    BY <1>2, <1>3
  <2> QED
    BY <1>1, <1>4, <2>3, <2>4, <2>5
<1>11. Distinct(out)
  BY <1>4, <1>9, DrawnDistinct
<1>12. Carried(list, out)
  <2> SUFFICES ASSUME NEW i \in D PROVE \E k \in 1 .. n + m : out[k] = list[i]
    BY <1>4 DEF Carried, D
  <2>1. CASE i \in I
    <3>1. PICK k \in 1 .. n : f[k] = i
      BY <1>2, <2>1
    <3>2. k \in 1 .. n + m /\ k <= n
      BY <1>2, <1>3
    <3> QED
      BY <1>2, <1>4, <3>1, <3>2
  <2>2. CASE i \notin I
    <3>1. PICK k \in 1 .. m : g[k] = i
      BY <1>3, <2>2 DEF J
    <3>2. n + k \in 1 .. n + m /\ ~(n + k <= n) /\ (n + k) - n = k
      BY <1>2, <1>3
    <3> QED
      BY <1>3, <1>4, <3>1, <3>2
  <2> QED
    BY <2>1, <2>2
<1> QED
  BY <1>4, <1>10, <1>11, <1>12 DEF out, a, b, J, D

(***************************************************************************)
(* The inductive invariant: the cards shown, and those a profile being     *)
(* confirmed will rank, are whole, and no source's identity is twice among *)
(* those of feeds.                                                         *)
(***************************************************************************)
SoundLists == {list \in Seq(ACard) : Distinct(list)}
BoardInv ==
  /\ cards \in SoundLists /\ Len(cards) <= MaxCards /\ fitting \subseteq SoundLists
  /\ found \subseteq Ids(Crawled) /\ resume \in BOOLEAN
  /\ asked \subseteq Ids(Listing) /\ reading \subseteq Ids(Crawled)
  /\ arrivals \in 0 .. MaxArrivals

\* What the search shown found is on the board, as verified.
FoundShown ==
  \A i \in found : \E k \in DOMAIN cards : i \in cards[k].parts /\ cards[k].kind = "canonical"

LEMMA BoardInvInit ==
  ASSUME BoardInit
  PROVE  BoardInv
<1>1. PICK failed \in SUBSET Feeds :
        cards = CappedCards(DeduplicateJobs(CardsOf({l \in Listing \ Crawled : l.site \notin failed}, "estimate")))
  BY DEF BoardInit
<1> DEFINE listed == {l \in Listing \ Crawled : l.site \notin failed}
           list == CardsOf(listed, "estimate")
<1>2. listed \in SUBSET Listing
  OBVIOUS
<1> HIDE DEF listed
<1>3. list \in Seq(ACard)
  BY <1>2, BatchCards
<1> HIDE DEF list
<1>4. DeduplicateJobs(list) \in Seq(ACard) /\ Distinct(DeduplicateJobs(list))
  BY <1>3, Deduplicated
<1>5. cards = CappedCards(DeduplicateJobs(list))
  BY <1>1 DEF list, listed
<1>6. cards \in SoundLists /\ Len(cards) <= MaxCards
  BY <1>4, <1>5, CutToCap DEF SoundLists
<1>7. MaxArrivals \in Nat
  BY BoardAssumption
<1>8. /\ found = {} /\ resume = FALSE /\ fitting = {} /\ asked = {} /\ reading = {}
      /\ arrivals \in 0 .. MaxArrivals
  BY <1>7 DEF BoardInit
<1> QED
  BY <1>6, <1>8 DEF BoardInv

\* The index and the searches: what arrives is merged, ranked and cut.
LEMMA ScoutJobsImported ==
  ASSUME cards \in SoundLists, NEW imported \in Seq(ACard),
         \A i \in DOMAIN imported : imported[i].kind = "canonical", ImportScoutJobs(imported)
  PROVE  /\ cards' \in SoundLists /\ Len(cards') <= MaxCards
         /\ Len(cards') < MaxCards => Carried(cards, cards') /\ Carried(imported, cards')
<1> DEFINE all == MergeImportedJobs(cards, imported)
           merged == CappedCards(all)
<1>1. all \in Seq(ACard) /\ Distinct(all) /\ Carried(cards, all) /\ Carried(imported, all)
  BY ImportMerges DEF SoundLists
<1> HIDE DEF all
<1>2. /\ merged \in Seq(ACard) /\ Distinct(merged) /\ Len(merged) <= MaxCards
      /\ Len(merged) < MaxCards => merged = all
  BY <1>1, CutToCap
<1>3. cards' = IF resume THEN RankedLocally(merged) ELSE merged
  BY DEF ImportScoutJobs, all
<1> HIDE DEF merged
<1>4. /\ RankedLocally(merged) \in Seq(ACard) /\ Distinct(RankedLocally(merged))
      /\ Len(RankedLocally(merged)) = Len(merged) /\ Carried(merged, RankedLocally(merged))
  BY <1>2, Ranked
<1>5. Len(merged) \in Nat /\ Len(RankedLocally(merged)) \in Nat /\ MaxCards \in Nat
  BY <1>2, <1>4, BoardAssumption
<1>6. Len(RankedLocally(merged)) <= MaxCards
  BY <1>2, <1>4, <1>5
<1>7. ASSUME Len(cards') < MaxCards PROVE Carried(cards, cards') /\ Carried(imported, cards')
  <2>1. merged = all
    BY <1>2, <1>3, <1>4, <1>7
  <2>2. CASE resume
    <3>1. cards' = RankedLocally(all) /\ Carried(all, RankedLocally(all))
      BY <1>3, <1>4, <2>1, <2>2
    <3>2. Carried(cards, RankedLocally(all)) /\ Carried(imported, RankedLocally(all))
      BY <1>1, <3>1, CarriedOn
    <3> QED
      BY <3>1, <3>2
  <2>3. CASE ~resume
    BY <1>1, <1>3, <2>1, <2>3
  <2> QED
    BY <2>2, <2>3
<1> QED
  BY <1>2, <1>3, <1>4, <1>6, <1>7 DEF SoundLists

LEMMA CrawledBatch ==
  ASSUME NEW batch \in SUBSET Crawled, NEW s \in {"estimate", "search"}
  PROVE  /\ CardsOf(batch, s) \in Seq(ACard) /\ Ids(batch) \subseteq Ids(Crawled)
         /\ \A i \in DOMAIN CardsOf(batch, s) : CardsOf(batch, s)[i].kind = "canonical"
         /\ \A j \in Ids(batch) : \E i \in DOMAIN CardsOf(batch, s) : j \in CardsOf(batch, s)[i].parts
<1>1. batch \in SUBSET Listing
  BY DEF Crawled
<1>2. /\ CardsOf(batch, s) \in Seq(ACard)
      /\ \A i \in DOMAIN CardsOf(batch, s) : \E l \in batch : CardsOf(batch, s)[i] = Card(l, s)
  BY <1>1, BatchCards
<1>3. \A l \in batch : Card(l, s).kind = "canonical"
  BY <1>1, CardMade DEF Crawled
<1>4. ASSUME NEW j \in Ids(batch)
      PROVE  \E i \in DOMAIN CardsOf(batch, s) : j \in CardsOf(batch, s)[i].parts
  <2>1. PICK l \in batch : l.id = j
    BY DEF Ids
  <2>2. PICK i \in DOMAIN CardsOf(batch, s) : CardsOf(batch, s)[i] = Card(l, s)
    BY <1>1, BatchCards
  <2>3. Card(l, s).parts = {l.id}
    BY <1>1, CardMade
  <2> QED
    BY <2>1, <2>2, <2>3
<1> QED
  BY <1>2, <1>3, <1>4 DEF Ids

\* What a batch that is carried on to the board brought is shown.
LEMMA BatchShown ==
  ASSUME NEW batch \in SUBSET Crawled, NEW s \in {"estimate", "search"},
         Carried(CardsOf(batch, s), cards'), cards' \in Seq(ACard), found' = Ids(batch)
  PROVE  FoundShown'
<1> SUFFICES ASSUME NEW j \in Ids(batch)
             PROVE  \E k \in DOMAIN cards' : j \in cards'[k].parts /\ cards'[k].kind = "canonical"
  BY DEF FoundShown
<1>1. PICK i \in DOMAIN CardsOf(batch, s) : j \in CardsOf(batch, s)[i].parts
  BY CrawledBatch
<1>2. PICK k \in DOMAIN cards' : CardsOf(batch, s)[i].parts \subseteq cards'[k].parts
  BY DEF Carried
<1>3. j \in Ids(Crawled) /\ cards'[k] \in ACard
  BY CrawledBatch
<1>4. cards'[k].kind = "canonical"
  BY <1>1, <1>2, <1>3 DEF ACard, WholeCard
<1> QED
  BY <1>1, <1>2, <1>4

LEMMA FitAnsweredKeeps ==
  ASSUME BoardInv, FitAnswered
  PROVE  BoardInv' /\ (Len(cards') < MaxCards => FoundShown')
<1>1. PICK before \in fitting, batch \in SUBSET {l \in Crawled : ~l.preview} :
        /\ cards' = CappedCards(RankedLocally(DeduplicateJobs(CardsOf(batch, "search") \o before)))
        /\ found' = Ids(batch)
  BY DEF FitAnswered
<1> DEFINE imported == CardsOf(batch, "search")
           all == imported \o before
           merged == DeduplicateJobs(all)
           ranked == RankedLocally(merged)
<1>2. batch \in SUBSET Crawled
  OBVIOUS
<1>3. imported \in Seq(ACard) /\ Ids(batch) \subseteq Ids(Crawled)
  BY <1>2, CrawledBatch
<1>4. before \in Seq(ACard)
  BY DEF BoardInv, SoundLists
<1> HIDE DEF imported
<1>5. all \in Seq(ACard) /\ Carried(imported, all)
  BY <1>3, <1>4, BothCarried
<1> HIDE DEF all
<1>6. merged \in Seq(ACard) /\ Distinct(merged) /\ Carried(all, merged)
  BY <1>5, Deduplicated, DeduplicationCarries
<1> HIDE DEF merged
<1>7. ranked \in Seq(ACard) /\ Distinct(ranked) /\ Carried(merged, ranked)
  BY <1>6, Ranked
<1>8. cards' = CappedCards(ranked)
  BY <1>1 DEF ranked, merged, all, imported
<1> HIDE DEF ranked
<1>9. cards' \in SoundLists /\ Len(cards') <= MaxCards
  BY <1>7, <1>8, CutToCap DEF SoundLists
<1>10. arrivals' \in 0 .. MaxArrivals
  BY BoardAssumption DEF BoardInv, FitAnswered, Arrives
<1>11. ASSUME Len(cards') < MaxCards PROVE FoundShown'
  <2>1. cards' = ranked
    BY <1>7, <1>8, <1>11, CutToCap
  <2>2. Carried(imported, merged)
    BY <1>5, <1>6, CarriedOn
  <2>3. Carried(imported, ranked)
    BY <1>7, <2>2, CarriedOn
  <2>4. Carried(CardsOf(batch, "search"), cards')
    BY <2>1, <2>3 DEF imported
  <2> QED
    BY <1>1, <1>2, <1>9, <2>4, BatchShown DEF SoundLists
<1> QED
  BY <1>1, <1>3, <1>9, <1>10, <1>11 DEF BoardInv, FitAnswered

LEMMA AiAnswersKeeps ==
  ASSUME BoardInv, AiAnswers
  PROVE  BoardInv' /\ Carried(cards, cards')
<1>1. PICK scored \in Scores :
        LET answered == {i \in DOMAIN cards : cards[i].id \in scored}
            rated == [i \in DOMAIN cards |->
              IF i \in answered THEN [cards[i] EXCEPT !.score = <<"ai", cards[i].id>>]
              ELSE cards[i]]
        IN cards' = Only(rated, answered) \o Only(rated, DOMAIN cards \ answered)
  BY DEF AiAnswers
<1> DEFINE answered == {i \in DOMAIN cards : cards[i].id \in scored}
           rated == [i \in DOMAIN cards |->
              IF i \in answered THEN [cards[i] EXCEPT !.score = <<"ai", cards[i].id>>]
              ELSE cards[i]]
<1>2. cards \in Seq(ACard) /\ Distinct(cards) /\ DOMAIN cards = 1 .. Len(cards) /\ Len(cards) \in Nat
  BY DEF BoardInv, SoundLists
<1>3. answered \in SUBSET (DOMAIN cards)
  OBVIOUS
<1> HIDE DEF answered
<1>4. \A i \in DOMAIN cards :
        /\ rated[i] \in ACard /\ rated[i].kind = cards[i].kind
        /\ Source(rated[i]) = Source(cards[i]) /\ rated[i].parts = cards[i].parts
  <2> TAKE i \in DOMAIN cards
  <2> DEFINE m == [cards[i] EXCEPT !.score = <<"ai", cards[i].id>>]
  <2>1. cards[i] \in ACard /\ cards[i].id \in Ids(Listing) /\ "ai" \in ScoreKind
    BY <1>2 DEF ACard, WholeCard, ScoreKind
  <2>2. /\ m \in ACard /\ m.kind = cards[i].kind /\ m.id = cards[i].id /\ m.slug = cards[i].slug
        /\ m.site = cards[i].site /\ m.parts = cards[i].parts
    BY <2>1, Rescored
  <2>3. rated[i] = IF i \in answered THEN m ELSE cards[i]
    OBVIOUS
  <2> HIDE DEF m, rated
  <2> QED
    BY <2>1, <2>2, <2>3 DEF Source, SourceScopedJobId
<1>5. DOMAIN rated = DOMAIN cards
  OBVIOUS
<1>6. cards' = Only(rated, answered) \o Only(rated, DOMAIN rated \ answered)
  BY <1>1, <1>5 DEF answered
<1>7. rated \in Seq(ACard) /\ Len(rated) = Len(cards)
  <2>1. rated \in [1 .. Len(cards) -> ACard]
    BY <1>2, <1>4
  <2> HIDE DEF rated
  <2> QED
    BY <1>2, <2>1
<1> HIDE DEF rated
<1>8. Distinct(rated)
  BY <1>2, <1>4, <1>5 DEF Distinct
<1>9. cards' \in Seq(ACard) /\ Distinct(cards') /\ Len(cards') <= Len(rated) /\ Carried(rated, cards')
  BY <1>3, <1>5, <1>6, <1>7, <1>8, Parted
<1>10. Len(cards') <= MaxCards
  <2>1. Len(cards') \in Nat /\ MaxCards \in Nat /\ Len(cards) <= MaxCards
    BY <1>9, BoardAssumption DEF BoardInv
  <2> QED
    BY <1>2, <1>7, <1>9, <2>1
<1>11. arrivals' \in 0 .. MaxArrivals
  BY BoardAssumption DEF BoardInv, AiAnswers, Arrives
<1>12. Carried(cards, cards')
  <2>1. Carried(cards, rated)
    BY <1>4, <1>5 DEF Carried
  <2> QED
    BY <1>9, <2>1, CarriedOn
<1> QED
  BY <1>9, <1>10, <1>11, <1>12 DEF BoardInv, AiAnswers, SoundLists

LEMMA DetailAnswersKeeps ==
  ASSUME BoardInv, DetailAnswers
  PROVE  BoardInv' /\ Carried(cards, cards')
<1>1. PICK l \in Crawled :
        cards' = [i \in DOMAIN cards |->
                    IF cards[i].id = l.id THEN MergeDetail(cards[i], l) ELSE cards[i]]
  BY DEF DetailAnswers
<1>2. cards \in Seq(ACard) /\ Distinct(cards) /\ DOMAIN cards = 1 .. Len(cards) /\ Len(cards) \in Nat
  BY DEF BoardInv, SoundLists
<1>3. \A i \in DOMAIN cards :
        /\ cards'[i] \in ACard /\ cards[i].parts \subseteq cards'[i].parts
        /\ cards'[i].kind = "feed" => cards'[i] = cards[i]
  <2> TAKE i \in DOMAIN cards
  <2>1. cards[i] \in ACard
    BY <1>2
  <2>2. CASE cards[i].id = l.id
    <3>1. cards'[i] = MergeDetail(cards[i], l)
      BY <1>1, <2>2
    <3>2. /\ MergeDetail(cards[i], l) \in ACard /\ MergeDetail(cards[i], l).kind = "canonical"
          /\ cards[i].parts \subseteq MergeDetail(cards[i], l).parts
      BY <2>1, <2>2, Detailed
    <3> QED
      BY <3>1, <3>2
  <2>3. CASE cards[i].id # l.id
    BY <1>1, <2>1, <2>3
  <2> QED
    BY <2>2, <2>3
<1>4. cards' \in Seq(ACard) /\ Len(cards') = Len(cards) /\ DOMAIN cards' = DOMAIN cards
  <2>1. cards' \in [1 .. Len(cards) -> ACard] /\ DOMAIN cards' = DOMAIN cards
    BY <1>1, <1>2, <1>3
  <2> QED
    BY <1>2, <2>1
<1>5. Distinct(cards')
  BY <1>2, <1>3, <1>4 DEF Distinct
<1>6. arrivals' \in 0 .. MaxArrivals
  BY BoardAssumption DEF BoardInv, DetailAnswers, Arrives
<1>7. Carried(cards, cards')
  BY <1>3, <1>4 DEF Carried
<1> QED
  BY <1>4, <1>5, <1>6, <1>7 DEF BoardInv, DetailAnswers, SoundLists

LEMMA SearchAnsweredKeeps ==
  ASSUME BoardInv, SearchAnswered
  PROVE  /\ BoardInv'
         /\ Len(cards') < MaxCards => Carried(cards, cards') /\ FoundShown'
<1>1. PICK batch \in SUBSET {l \in Crawled : ~l.preview} :
        ImportScoutJobs(CardsOf(batch, "search")) /\ found' = Ids(batch)
  BY DEF SearchAnswered
<1>2. batch \in SUBSET Crawled
  OBVIOUS
<1> DEFINE imported == CardsOf(batch, "search")
<1>3. /\ imported \in Seq(ACard) /\ Ids(batch) \subseteq Ids(Crawled)
      /\ \A i \in DOMAIN imported : imported[i].kind = "canonical"
  BY <1>2, CrawledBatch
<1>4. ImportScoutJobs(imported) /\ found' = Ids(batch)
  BY <1>1
<1> HIDE DEF imported
<1>5. /\ cards' \in SoundLists /\ Len(cards') <= MaxCards
      /\ Len(cards') < MaxCards => Carried(cards, cards') /\ Carried(imported, cards')
  BY <1>3, <1>4, ScoutJobsImported DEF BoardInv
<1>6. arrivals' \in 0 .. MaxArrivals
  BY BoardAssumption DEF BoardInv, SearchAnswered, Arrives
<1>7. ASSUME Len(cards') < MaxCards PROVE FoundShown'
  <2>1. Carried(CardsOf(batch, "search"), cards')
    BY <1>5, <1>7 DEF imported
  <2> QED
    BY <1>2, <1>4, <1>5, <2>1, BatchShown DEF SoundLists
<1> QED
  BY <1>3, <1>4, <1>5, <1>6, <1>7 DEF BoardInv, SearchAnswered

LEMMA BoardInvNext ==
  ASSUME BoardInv, [BoardNext]_boardVars
  PROVE  BoardInv' /\ (Len(cards') < MaxCards => FitAnswered \/ Carried(cards, cards'))
<1>1. cards' = cards => Carried(cards, cards')
  BY DEF Carried
<1>2. CASE IndexSynced
  <2>1. PICK batch \in SUBSET {l \in Crawled : l.preview} : ImportScoutJobs(CardsOf(batch, "estimate"))
    BY <1>2 DEF IndexSynced
  <2>2. batch \in SUBSET Crawled
    OBVIOUS
  <2> DEFINE imported == CardsOf(batch, "estimate")
  <2>3. imported \in Seq(ACard) /\ \A i \in DOMAIN imported : imported[i].kind = "canonical"
    BY <2>2, CrawledBatch
  <2>4. ImportScoutJobs(imported)
    BY <2>1
  <2> HIDE DEF imported
  <2>5. /\ cards' \in SoundLists /\ Len(cards') <= MaxCards
        /\ Len(cards') < MaxCards => Carried(cards, cards') /\ Carried(imported, cards')
    BY <2>3, <2>4, ScoutJobsImported DEF BoardInv
  <2>6. arrivals' \in 0 .. MaxArrivals
    BY <1>2, BoardAssumption DEF BoardInv, IndexSynced, Arrives
  <2> QED
    BY <1>2, <2>5, <2>6 DEF BoardInv, IndexSynced
<1>3. CASE SearchAnswered
  BY <1>3, SearchAnsweredKeeps
<1>4. CASE FitStarts
  BY <1>4, <1>1 DEF BoardInv, FitStarts
<1>5. CASE FitFails
  BY <1>5, <1>1 DEF BoardInv, FitFails
<1>6. CASE AiAsked
  <2>1. Ids(ToSet(cards)) \subseteq Ids(Listing)
    <3>1. \A c \in ToSet(cards) : c \in ACard
      BY DEF ToSet, BoardInv, SoundLists
    <3> QED
      BY <3>1 DEF ACard, WholeCard, Ids
  <2> QED
    BY <1>6, <1>1, <2>1 DEF BoardInv, AiAsked
<1>7. CASE AiFails
  BY <1>7, <1>1 DEF BoardInv, AiFails
<1>8. CASE DetailAsked
  <2>1. PICK i \in DOMAIN cards : cards[i].preview /\ reading' = {cards[i].id}
    BY <1>8 DEF DetailAsked
  <2>2. cards[i] \in ACard
    BY DEF BoardInv, SoundLists
  <2>3. cards[i].preview = TRUE => cards[i].id \in Ids(Crawled)
    BY <2>2 DEF ACard, WholeCard
  <2> QED
    BY <1>8, <1>1, <2>1, <2>3 DEF BoardInv, DetailAsked
<1>9. CASE DetailAborted
  BY <1>9, <1>1 DEF BoardInv, DetailAborted
<1>10. CASE UNCHANGED boardVars
  BY <1>10, <1>1 DEF BoardInv, boardVars
<1>11. CASE AiAnswers
  BY <1>11, AiAnswersKeeps DEF AiAnswers
<1>12. CASE DetailAnswers
  BY <1>12, DetailAnswersKeeps DEF DetailAnswers
<1> QED
  BY <1>2, <1>3, <1>4, <1>5, <1>6, <1>7, <1>8, <1>9, <1>10, <1>11, <1>12, FitAnsweredKeeps
     DEF BoardNext

\* Whatever arrives, what is shown and what a profile being confirmed will rank
\* are lists of whole cards, no two of them of one listing of a feed.
THEOREM BoardStaysInvariant == BoardSpec => []BoardInv
<1>1. BoardInit => BoardInv
  BY BoardInvInit
<1>2. BoardInv /\ [BoardNext]_boardVars => BoardInv'
  BY BoardInvNext
<1> QED
  BY <1>1, <1>2, PTL DEF BoardSpec

\* Whatever arrives, in whatever order, the board is never longer than the
\* cap, its cards are whole and it names only jobs of the crawler as found
\* or as being read.
THEOREM BoardStaysTyped == BoardSpec => []BoardTypeOK
<1>1. BoardInv => BoardTypeOK
  <2> SUFFICES ASSUME BoardInv PROVE BoardTypeOK
    OBVIOUS
  <2>1. \A c \in ToSet(cards) : c \in ACard
    BY DEF ToSet, BoardInv, SoundLists
  <2>2. ASSUME NEW c \in ToSet(cards)
        PROVE  /\ c.kind \in {"feed", "canonical"} /\ c.parts \subseteq Ids(Listing)
               /\ c.score[1] \in {"estimate", "search", "resume", "ai"}
    BY <2>1, <2>2 DEF ACard, WholeCard, ScoreKind
  <2> QED
    BY <2>2 DEF BoardInv, BoardTypeOK
<1> QED
  BY <1>1, BoardStaysInvariant, PTL

\* Whatever the feeds, the index, the searches and the details bring, a card
\* is shown as verified exactly when a listing of the crawler is part of it.
THEOREM VerifiedIsEarned == BoardSpec => []LineageEarned
<1>1. BoardInv => LineageEarned
  <2> SUFFICES ASSUME BoardInv, NEW c \in ToSet(cards)
               PROVE  c.kind = "canonical" <=> c.parts \cap Ids(Crawled) # {}
    BY DEF LineageEarned
  <2>1. c \in ACard
    BY DEF ToSet, BoardInv, SoundLists
  <2> QED
    BY <2>1 DEF ACard, WholeCard
<1> QED
  BY <1>1, BoardStaysInvariant, PTL

\* Whatever arrives, no listing is lost while the board is not full: what a
\* card has absorbed stays in some card, except where the ranking of a profile
\* being confirmed replaces the board.
THEOREM CardsAreKept ==
  BoardSpec => [][Len(cards') < MaxCards /\ ~FitAnswered => Carried(cards, cards')]_boardVars
<1>1. BoardInv /\ [BoardNext]_boardVars =>
        [Len(cards') < MaxCards /\ ~FitAnswered => Carried(cards, cards')]_boardVars
  BY BoardInvNext
<1> QED
  BY <1>1, BoardStaysInvariant, PTL DEF BoardSpec

\* What the active search found is on the board, as verified, from the answer
\* that brings it on, whatever arrives later, while the board is not full.
THEOREM FoundStaysShown ==
  BoardSpec => /\ FoundShown
               /\ [][Len(cards') < MaxCards /\ FoundShown => FoundShown']_boardVars
<1>1. BoardInit => FoundShown
  BY DEF BoardInit, FoundShown
<1>2. BoardInv /\ [BoardNext]_boardVars =>
        [Len(cards') < MaxCards /\ FoundShown => FoundShown']_boardVars
  <2> SUFFICES ASSUME BoardInv, [BoardNext]_boardVars, Len(cards') < MaxCards, FoundShown
               PROVE  FoundShown'
    OBVIOUS
  <2>1. BoardInv' /\ (FitAnswered \/ Carried(cards, cards'))
    BY BoardInvNext
  <2>2. CASE found' = found /\ Carried(cards, cards')
    <3> SUFFICES ASSUME NEW i \in found
                 PROVE  \E k \in DOMAIN cards' : i \in cards'[k].parts /\ cards'[k].kind = "canonical"
      BY <2>2 DEF FoundShown
    <3>1. PICK j \in DOMAIN cards : i \in cards[j].parts
      BY DEF FoundShown
    <3>2. PICK k \in DOMAIN cards' : cards[j].parts \subseteq cards'[k].parts
      BY <2>2 DEF Carried
    <3>3. i \in Ids(Crawled) /\ cards'[k] \in ACard
      BY <2>1 DEF BoardInv, SoundLists
    <3>4. cards'[k].kind = "canonical"
      BY <3>1, <3>2, <3>3 DEF ACard, WholeCard
    <3> QED
      BY <3>1, <3>2, <3>4
  <2>3. CASE FitAnswered
    BY <2>3, FitAnsweredKeeps
  <2>4. CASE SearchAnswered
    BY <2>4, SearchAnsweredKeeps
  <2>5. ASSUME ~FitAnswered, ~SearchAnswered PROVE found' = found /\ Carried(cards, cards')
    BY <2>1, <2>5 DEF BoardNext, boardVars, IndexSynced, FitStarts, FitFails, AiAsked, AiAnswers,
       AiFails, DetailAsked, DetailAnswers, DetailAborted
  <2> QED
    BY <2>2, <2>3, <2>4, <2>5
<1> QED
  BY <1>1, <1>2, BoardStaysInvariant, PTL DEF BoardSpec
=============================================================================
