--------------------------- MODULE MCAgentRuntime ---------------------------
(***************************************************************************)
(* Small instances of AgentRuntime for TLC.                                *)
(***************************************************************************)
EXTENDS AgentRuntime, TLC

PStep(key, tool, deps, reads, tries) ==
  [key |-> key, tool |-> tool, deps |-> deps, reads |-> reads, maxAttempts |-> tries]

\* A read, and an external action; then a delegation, a scan, an unknown tool.
SearchThenSend == << PStep("search", "read", {}, {}, 2),
                     PStep("send", "external", {"search"}, {}, 1) >>
ReadThenAnalyze == << PStep("search", "read", {}, {}, 2),
                      PStep("analyze", "delegate", {"search"}, {"search"}, 1),
                      PStep("recommend", "none", {"analyze"}, {}, 1) >>
JustSend     == << PStep("send", "external", {}, {}, 1) >>
ScanOnly     == << PStep("scan", "scan", {}, {}, 2) >>
AgainThenOdd == << PStep("scan", "scan", {}, {}, 2),
                   PStep("search", "read", {}, {}, 1),
                   PStep("odd", "unregistered", {"scan"}, {}, 1) >>
AnalyzeThenSend == << PStep("search", "read", {}, {}, 2),
                      PStep("analyze", "delegate", {"search"}, {"search"}, 1),
                      PStep("send", "external", {}, {}, 1) >>

ResumerSymmetry == Permutations(Resumer)
=============================================================================
