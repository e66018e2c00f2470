------------------------------ MODULE MCWeChat ------------------------------
(***************************************************************************)
(* An instance of WeChat for TLC on its own: one chat.                     *)
(***************************************************************************)
EXTENDS WeChat

OneChat == [m \in ChatMessages |-> "c1"]
=============================================================================
