--------------------------- MODULE EffectContract ---------------------------
(***************************************************************************)
(* What Core promises of an effect outside it that it asked a provider     *)
(* for: it happens at most once; one verdict about it is given and stays;  *)
(* a verdict that claims the effect comes only after it; and after a       *)
(* verdict that denies it, it never happens.                               *)
(*                                                                         *)
(* ToolRouterService.route_tool_call promises this to its caller of a      *)
(* tool's run, DeliveryService by the attempt row of a message shown.      *)
(***************************************************************************)
EXTENDS Naturals

CONSTANTS
  Effects,    \* the calls or messages
  Verdicts,   \* what may be said of one
  NoVerdict,  \* nothing has been said yet
  NeedsRun,   \* verdicts that claim it happened
  NotStarted  \* verdicts that claim it did not and will not

VARIABLES verdict, ran

vars == <<verdict, ran>>

Init ==
  /\ verdict = [c \in Effects |-> NoVerdict]
  /\ ran = [c \in Effects |-> 0]

(* The effect happens, possibly after whoever asked gave up on it. *)
Run(c) ==
  /\ ran[c] = 0
  /\ verdict[c] \notin NotStarted
  /\ ran' = [ran EXCEPT ![c] = 1]
  /\ UNCHANGED verdict

Close(c, v) ==
  /\ verdict[c] = NoVerdict
  /\ v \in NeedsRun => ran[c] = 1
  /\ v \in NotStarted => ran[c] = 0
  /\ verdict' = [verdict EXCEPT ![c] = v]
  /\ UNCHANGED ran

(* Core dies: those of S that are open end together and nobody hears of it. *)
Lose(S) ==
  /\ \A c \in S : verdict[c] = NoVerdict
  /\ \E v \in Verdicts \ (NeedsRun \cup NotStarted) :
        verdict' = [c \in Effects |-> IF c \in S THEN v ELSE verdict[c]]
  /\ UNCHANGED ran

Next ==
  \/ \E c \in Effects : Run(c) \/ \E v \in Verdicts : Close(c, v)
  \/ \E S \in SUBSET Effects : Lose(S)

Spec == Init /\ [][Next]_vars
=============================================================================
