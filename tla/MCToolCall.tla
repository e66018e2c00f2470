----------------------------- MODULE MCToolCall -----------------------------
(***************************************************************************)
(* Safety of a tool call and of its route, in one run: part names what a   *)
(* behaviour is about, the other stays in its initial state.  Both         *)
(* components are extended.                                                *)
(***************************************************************************)
EXTENDS ToolCall, Routing, TLC

VARIABLES part

Symmetry == Permutations(Calls) \cup Permutations(Conns)
calls == vars

\* Routing: a call that needs no confirmation, and no strict preference.
OneKey   == {[ws |-> "w1", ask |-> "none", queue |-> FALSE, ok |-> FALSE]}
Lenient  == [w \in {"personal", "w1"} |-> {}]
OneList  == {<<"w1">>}
NoOwners == [a \in {} |-> "e1"]

CallsInit ==
    /\ part \in {"ToolCall", "Routing", "Managed"}
    /\ Init /\ RoutingInit

\* Routing is narrowed in two ways: two endpoints on two sockets, without an
\* operator; and an operator who changes the memberships and the policy of one.
CallsNext ==
    \/ part = "ToolCall" /\ Next /\ UNCHANGED <<part, routing>>
    \/ part = "Routing" /\ RoutingNext /\ managed' = 0 /\ UNCHANGED <<part, calls>>
    \/ part = "Managed" /\ RoutingNext /\ known' \subseteq {"e1"} /\ UNCHANGED <<part, calls>>

CallsSpec == CallsInit /\ [][CallsNext]_<<part, calls, routing>>
=============================================================================
