--------------------------- MODULE MCMemberships ---------------------------
(***************************************************************************)
(* A finite instance of Memberships for TLC: an endpoint that declares     *)
(* nothing or two workspaces.                                              *)
(***************************************************************************)
EXTENDS Memberships

NoOwner  == [a \in Addresses |-> CHOOSE e \in Endpoints : TRUE]
TwoLists == {<<>>, <<"w1", "w2">>}
=============================================================================
