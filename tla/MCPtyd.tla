------------------------------- MODULE MCPtyd -------------------------------
(***************************************************************************)
(* Instances of Ptyd for TLC.                                              *)
(***************************************************************************)
EXTENDS PtydHost, TLC

CONSTANTS s1, s2

OneSid == {s1}
TwoSids == {s1, s2}

\* Sessions are interchangeable: no action treats a session id specially.
SidSymmetry == Permutations(TwoSids)
=============================================================================
