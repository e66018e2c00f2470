------------------------------ MODULE MCTurns ------------------------------
(***************************************************************************)
(* Safety of the turns of a session, and of what they use: the workspaces  *)
(* of endpoints and the memory, in one run.  part names the component that *)
(* a behaviour is about, the others stay in their initial state.           *)
(***************************************************************************)
EXTENDS ReplyTurns, Memberships, Memory, TLC

VARIABLES part

Symmetry == Permutations(Messages)
turns == vars

\* Turns: two commands and no tool round.  Tools: a command and tool rounds.

\* Memberships: an endpoint, an address behind it and three workspaces.
OneOwner == [a \in {"a1"} |-> "e1"]
NoneOrTwo == {<<>>, <<"w1", "w2">>}

\* Memory: two saves of the same text, one of them asked for by the user, and a
\* patch that may set the profile to another value.
SameText == [s \in Saves |-> "x"]

TurnsInit ==
    /\ part \in {"Turns", "Tools", "Memberships", "Memory"}
    /\ Init /\ MembershipInit /\ MemoryInit

TurnsNext ==
    \/ /\ \/ part = "Turns" /\ Next /\ toolRounds' = 0
          \/ part = "Tools" /\ Next /\ commands' \in {0, 1}
       /\ UNCHANGED <<part, membership, memory>>
    \/ part = "Memberships" /\ MembershipNext /\ UNCHANGED <<part, turns, memory>>
    \/ part = "Memory" /\ MemoryNext /\ UNCHANGED <<part, turns, membership>>

TurnsSpec == TurnsInit /\ [][TurnsNext]_<<part, turns, membership, memory>>
=============================================================================
