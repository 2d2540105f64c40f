------------------------------ MODULE MCDelivery ------------------------------
(* Two posts to one agent, a Thread line and a project chat line. *)
EXTENDS Delivery

OneLane == <<"a", "a">>
TwoKinds == <<"thread", "project">>
=============================================================================
