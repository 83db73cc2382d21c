--------------------------- MODULE ApprovalLedger ---------------------------
(***************************************************************************)
(* What the human-approval subsystem promises, with no requests, leases or *)
(* transactions in it: an approval is asked for once per call, decided at  *)
(* most once, spent at most once, and the external action is attempted at  *)
(* most once, only after the spending.  AgentRuntime is shown to implement *)
(* it.                                                                     *)
(***************************************************************************)
EXTENDS Integers

CONSTANT Call           \* the calls that need an approval
VARIABLES entry, sent   \* the approval of a call; attempts made under it

Init == entry = [c \in Call |-> "none"] /\ sent = [c \in Call |-> 0]

Ask(c) ==
  /\ entry[c] = "none"
  /\ entry' = [entry EXCEPT ![c] = "pending"] /\ UNCHANGED sent

Decide(c, verdict) ==
  /\ entry[c] = "pending"
  /\ entry' = [entry EXCEPT ![c] = verdict] /\ UNCHANGED sent

\* Overdue entries expire together, and one live approval may be spent with them.
Sweep(overdue, spent) ==
  /\ \A c \in overdue : entry[c] \in {"pending", "approved"}
  /\ \A c \in spent : entry[c] = "approved" /\ c \notin overdue
  /\ \A c, d \in spent : c = d
  /\ entry' = [c \in Call |-> IF c \in overdue THEN "expired"
                              ELSE IF c \in spent THEN "consumed" ELSE entry[c]]
  /\ UNCHANGED sent

Attempt(c) ==
  /\ entry[c] = "consumed" /\ sent[c] = 0
  /\ sent' = [sent EXCEPT ![c] = 1] /\ UNCHANGED entry

Next ==
  \/ \E c \in Call : \/ Ask(c) \/ Attempt(c)
                     \/ \E v \in {"approved", "rejected", "expired"} : Decide(c, v)
  \/ \E overdue, spent \in SUBSET Call : Sweep(overdue, spent)

Spec == Init /\ [][Next]_<<entry, sent>>
=============================================================================
