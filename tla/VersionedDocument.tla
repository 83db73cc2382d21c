------------------------- MODULE VersionedDocument --------------------------
(***************************************************************************)
(* What docs/DATA_MODEL.md promises of a saved workspace: a document whose *)
(* revision every write raises by one, and which a writer that names the   *)
(* revision it knows replaces only while that revision is the current one. *)
(* A writer that knows none (0) creates the document; two that both found  *)
(* none may both write.                                                    *)
(***************************************************************************)
EXTENDS Naturals

CONSTANT MaxRevision  \* bound: revisions a document may have

VARIABLES
  revision,           \* current revision, 0 before the first write
  known               \* the revision its last writer named

\* There is no document, or its first revision, that named none.
Init == revision \in {0, 1} /\ known = 0

Write(expected) ==
  /\ expected \in {0, revision}
  /\ revision' = revision + 1
  /\ known' = expected

Next == \E expected \in 0 .. MaxRevision : Write(expected)

Spec == Init /\ [][Next]_<<revision, known>>
=============================================================================
