---------------------------- MODULE WeeklyDigest ----------------------------
(***************************************************************************)
(* The weekly digest of one person: POST /api/notifications/digest         *)
(* (app/api/notifications/digest/route.ts), which claims the preferences   *)
(* row, delivers an email inside the transaction, and records when.        *)
(*                                                                         *)
(* An email cannot be rolled back.  The row lock keeps two requests from   *)
(* delivering at once; a delivery whose transaction is then lost leaves    *)
(* the gate open.                                                          *)
(*                                                                         *)
(* Abstractions.  Time is counted in ticks, Interval of them making the    *)
(* 6.5 days; what the email says is left out.                              *)
(*                                                                         *)
(* Faulty variants, used by nothing: ReadsUnlocked, RefusedStaysMarked.    *)
(***************************************************************************)
EXTENDS Naturals, Sequences

CONSTANTS
  DigestRequest,      \* POSTs of this person
  Interval,           \* ticks between two digests
  MaxTime,            \* bound: ticks
  MaxLosses           \* bound: transactions that are lost

NeverSent == MaxTime + 1
Nobody == "nobody"

ASSUME DigestAssumption ==
  {Interval, MaxTime, MaxLosses} \subseteq Nat /\ Nobody \notin DigestRequest

VARIABLES
  now,                \* the clock
  wanted,             \* weekly_digest
  lastSent,           \* last_digest_sent_at, or NeverSent
  digestLock,         \* the request holding the preferences row, or Nobody
  at,                 \* per request, how far it is
  begun,              \* per request, NOW(): when its transaction began
  delivered,          \* the emails: when their transaction began, when they
                      \* were delivered, and whether the transaction was lost
  losses              \* bound counter

digestVars == <<now, wanted, lastSent, digestLock, at, begun, delivered, losses>>

DigestInit ==
  /\ now = 0 /\ wanted = TRUE /\ lastSent = NeverSent /\ digestLock = Nobody
  /\ at = [r \in DigestRequest |-> "asked"] /\ begun = [r \in DigestRequest |-> 0]
  /\ delivered = <<>> /\ losses = 0

Moves(r, from, to) == at[r] = from /\ at' = [at EXCEPT ![r] = to]
-----------------------------------------------------------------------------
BeginDigest(r) ==
  /\ Moves(r, "asked", "begun") /\ begun' = [begun EXCEPT ![r] = now]
  /\ UNCHANGED <<now, wanted, lastSent, digestLock, delivered, losses>>

\* SELECT ... FOR UPDATE waits for the row.
ReadsUnlocked(r) == digestLock' = digestLock
LocksRow(r) == digestLock = Nobody /\ digestLock' = r

\* The gate: the digest is wanted, and the last one long enough ago.
Due == lastSent = NeverSent \/ now >= lastSent + Interval
ClaimDigest(r) ==
  /\ LocksRow(r) /\ wanted /\ Due /\ Moves(r, "begun", "claimed")
  /\ UNCHANGED <<now, wanted, lastSent, begun, delivered, losses>>
DeclineDigest(r) ==
  /\ digestLock = Nobody /\ ~(wanted /\ Due) /\ Moves(r, "begun", "declined")
  /\ UNCHANGED <<now, wanted, lastSent, digestLock, begun, delivered, losses>>

Releases(r) == digestLock' = IF digestLock = r THEN Nobody ELSE digestLock

\* No transport is configured, or it refuses: the transaction is rolled back.
RefusedStaysMarked(r) == lastSent' = begun[r]
Unmarked(r) == lastSent' = lastSent
RefuseDigest(r) ==
  /\ Moves(r, "claimed", "failed") /\ Releases(r) /\ Unmarked(r)
  /\ UNCHANGED <<now, wanted, begun, delivered, losses>>

DeliverDigest(r) ==
  /\ Moves(r, "claimed", "delivered")
  /\ delivered' = Append(delivered, [by |-> r, begun |-> begun[r], at |-> now, lost |-> FALSE])
  /\ UNCHANGED <<now, wanted, lastSent, digestLock, begun, losses>>

\* UPDATE last_digest_sent_at = NOW(), the transaction's beginning; COMMIT.
RecordDigest(r) ==
  /\ Moves(r, "delivered", "sent") /\ lastSent' = begun[r] /\ Releases(r)
  /\ UNCHANGED <<now, wanted, begun, delivered, losses>>

\* The process stops or the connection breaks: the server rolls back.
MarkedLost(emails, r) ==
  [i \in DOMAIN emails |-> [emails[i] EXCEPT !.lost = @ \/ emails[i].by = r]]
LoseDigest(r) ==
  /\ losses < MaxLosses /\ losses' = losses + 1
  /\ at[r] \in {"begun", "claimed", "delivered"} /\ at' = [at EXCEPT ![r] = "failed"]
  /\ Releases(r)
  /\ delivered' = MarkedLost(delivered, r)
  /\ UNCHANGED <<now, wanted, lastSent, begun>>
-----------------------------------------------------------------------------
\* The preferences are saved, in a transaction that needs the row too.
SetPreference ==
  /\ digestLock = Nobody /\ wanted' = ~wanted
  /\ UNCHANGED <<now, lastSent, digestLock, at, begun, delivered, losses>>

DigestTick ==
  /\ now < MaxTime /\ now' = now + 1
  /\ UNCHANGED <<wanted, lastSent, digestLock, at, begun, delivered, losses>>

DigestNext ==
  \/ SetPreference \/ DigestTick
  \/ \E r \in DigestRequest :
       \/ BeginDigest(r) \/ ClaimDigest(r) \/ DeclineDigest(r) \/ RefuseDigest(r)
       \/ DeliverDigest(r) \/ RecordDigest(r) \/ LoseDigest(r)

DigestSpec == DigestInit /\ [][DigestNext]_digestVars
-----------------------------------------------------------------------------
Instant == 0 .. MaxTime
Email == [by : DigestRequest, begun : Instant, at : Instant, lost : BOOLEAN]

\* Clock, marker, lock and emails stay within their domains.
DigestTypeOK ==
  /\ now \in Instant /\ wanted \in BOOLEAN /\ lastSent \in Instant \cup {NeverSent}
  /\ digestLock \in DigestRequest \cup {Nobody} /\ begun \in [DigestRequest -> Instant]
  /\ at \in [DigestRequest ->
              {"asked", "begun", "declined", "claimed", "failed", "delivered", "sent"}]
  /\ delivered \in Seq(Email) /\ losses \in Nat

\* No two digests within a week, whatever tabs and retries ask for: a later
\* one is delivered an Interval after the transaction of an earlier one began,
\* unless that transaction was lost after its delivery.
OneDigestAWeek ==
  \A i, j \in DOMAIN delivered :
    i < j => delivered[i].lost \/ delivered[j].at >= delivered[i].begun + Interval

\* The gate closes only on a digest that was delivered.
MarkedMeansDelivered ==
  lastSent # NeverSent => \E i \in DOMAIN delivered : delivered[i].begun = lastSent

\* No digest goes out once it is turned off: between the reading of the
\* preference and the delivery it cannot change.
OnlyWantedDigests ==
  [][\A r \in DigestRequest : at[r] = "claimed" /\ at'[r] = "delivered" => wanted]_digestVars
=============================================================================
