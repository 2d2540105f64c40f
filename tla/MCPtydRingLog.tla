----------------------------- MODULE MCPtydRingLog -----------------------------
(***************************************************************************)
(* PtydRingLog for TLC: two byte values, capacities 1 to 3, pushes of up to 4 *)
(* bytes (longer than every ring, so that the skip branch is taken).       *)
(***************************************************************************)
EXTENDS PtydRingLog

MCByte == {0, 1}
MCCaps == 1..3
=============================================================================
