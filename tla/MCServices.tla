----------------------------- MODULE MCServices -----------------------------
(***************************************************************************)
(* Safety of the outbox, of the components around the turn, and of tool    *)
(* calls and the outbox with shared endpoints, in one run: part names the  *)
(* component that a behaviour is about, the others stay in their initial   *)
(* state.                                                                  *)
(***************************************************************************)
EXTENDS Delivery, Interaction, Branches, ThreadFeed, WeChat, SharedEndpoint

VARIABLES part

\* Delivery: the outbox with one receive loop; three messages of different kinds,
\* and, when the core crashes, two of them.
single == vars

\* Interaction: two requests of the session of the command line, one of another;
\* either the third or the second one is never made.
interaction == interactionVars
AskedIn     == [r \in Requests |-> IF r = "r3" THEN "s2" ELSE "s1"]

\* Branches: one conversation.
conversation == branchesVars

\* ThreadFeed: one turn and one user message; two connections are lost, or one
\* and the history is fetched.

\* WeChat: two messages of one chat, the second one when the chat is only read,
\* without a crash; and a message and a notice of the core, with a fault or a crash.
wechat == wechatVars
OneChat == [m \in {"e1", "e2", "n1"} |-> "c1"]

\* SharedEndpoint: one call to an endpoint of two provider processes, or two
\* messages whose outbox two receive loops drain; never both in one behaviour.

ServicesInit ==
    /\ part \in {"Delivery", "Crash", "One session", "Two sessions", "Branches", "ThreadFeed",
                 "WeChat", "WeChat notice", "Two providers", "Two readers"}
    /\ Init /\ InteractionInit /\ BranchesInit /\ FeedInit /\ WeChatInit
    /\ SharedInit

ServicesNext ==
    /\ UNCHANGED part
    /\ \/ /\ \/ part = "Delivery" /\ Next /\ crashes' = 0
             \/ part = "Crash" /\ Next /\ pc'["m3"] = "idle"
          /\ UNCHANGED <<interaction, conversation, feed, wechat, tool, shared>>
       \/ /\ part = "One session" /\ InteractionNext /\ at'["r3"] = "idle"
          /\ UNCHANGED <<single, conversation, feed, wechat, tool, shared>>
       \/ /\ part = "Two sessions" /\ InteractionNext /\ at'["r2"] = "idle"
          /\ UNCHANGED <<single, conversation, feed, wechat, tool, shared>>
       \/ /\ part = "Branches" /\ BranchesNext
          /\ UNCHANGED <<single, interaction, feed, wechat, tool, shared>>
       \/ /\ part = "ThreadFeed" /\ FeedNext /\ drops' + fetches' <= 2
          /\ UNCHANGED <<single, interaction, conversation, wechat, tool, shared>>
       \/ /\ \/ part = "WeChat" /\ WeChatNext /\ "n1" \notin told' /\ kills' = 0
             \/ part = "WeChat notice" /\ WeChatNext /\ "e2" \notin posted' /\ faults' + kills' <= 1
          /\ UNCHANGED <<single, interaction, conversation, feed, tool, shared>>
       \/ /\ part = "Two providers" /\ CallStep
          /\ UNCHANGED <<single, interaction, conversation, feed, wechat>>
       \/ /\ part = "Two readers" /\ OutboxStep
          /\ UNCHANGED <<single, interaction, conversation, feed, wechat>>

allVars == <<part, single, interaction, conversation, feed, wechat, tool, shared>>

ServicesSpec == ServicesInit /\ [][ServicesNext]_allVars
=============================================================================
