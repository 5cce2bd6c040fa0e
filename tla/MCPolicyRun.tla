---------------------------- MODULE MCPolicyRun -----------------------------
(* Small instances of PolicyRun for TLC. *)
EXTENDS PolicyRun, TLC

CONSTANTS d1, d2, p, q

MCDomains  == {d1, d2}
MCSymmetry == Permutations(MCDomains)
=============================================================================
