---------------------------- MODULE MCFederation ----------------------------
(***************************************************************************)
(* Instances of Federation for TLC.                                        *)
(***************************************************************************)
EXTENDS Federation

\* A chat that takes messages, a tray package, an owner who opted out, an
\* address the receiver does not list.
MixedKinds == {<<"unknown", "live", "tray">>, <<"declined", "tray", "unknown">>}
TwoLive == {<<"live", "live">>}
=============================================================================
