---------------------------- MODULE MCFrameRing -----------------------------
(***************************************************************************)
(* The instance of FrameRing for TLC.                                      *)
(***************************************************************************)
EXTENDS FrameRing

\* Two words that the checks of copy_slot compare (the length follows from the
\* size); the bytes of the picture are stored and loaded like them.
TwoWords == {"size", "len"}
=============================================================================
