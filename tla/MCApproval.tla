------------------------------- MODULE MCApproval -------------------------------
(* Values of the constants of Approval for TLC. *)
EXTENDS Approval, TLC

\* Bodies: the government's flag lowered, as a stale page has it; all approved.
Body(F, value) == [f \in FlagNames |-> IF f \in F THEN value ELSE "none"]
MCBodies == {Body({"government"}, "NOT_ADDED"), Body(FlagNames, "APPROVED")}

Interchangeable ==
  Permutations(Handlers) \cup Permutations(Docs) \cup Permutations(Names) \cup Permutations(Emails)
=================================================================================
