--------------------------- MODULE SharedEndpoint ---------------------------
(***************************************************************************)
(* One endpoint that several provider processes answer for, each over its  *)
(* own connections: its tool calls (ToolCall) and its outbox (Delivery),   *)
(* which the receive loops of all these connections drain.                 *)
(*                                                                         *)
(* A receive loop that drains handles no frame of a call; here it may,     *)
(* which allows more orders than the code.                                 *)
(***************************************************************************)
EXTENDS Naturals, FiniteSets

CONSTANTS
  SharedCalls,      \* the calls for the endpoint
  SharedConns,      \* the connections of its provider processes
  SharedMessages,   \* the deliveries to it
  SharedAddressed,  \* those with a target_address
  SharedQueueable,  \* those kept in the outbox
  SharedLoops,      \* the receive loops
  SharedAttempts,   \* max_attempts
  SharedCrashes     \* bound: how often Core dies under the outbox

ASSUME SharedAssumption ==
  /\ SharedAddressed \subseteq SharedMessages
  /\ SharedQueueable \subseteq SharedMessages
  /\ IsFiniteSet(SharedLoops)
  /\ SharedAttempts \in Nat \ {0}
  /\ SharedCrashes \in Nat

\* The variables of ToolCall.
VARIABLES tcPc, tcPending, answer, row, successes, failures, targets, tcSent, link,
          reader, socks, requests, task, tcFrames, executions
tool == <<tcPc, tcPending, answer, row, successes, failures, targets, tcSent, link,
          reader, socks, requests, task, tcFrames, executions>>

TC == INSTANCE ToolCall WITH
        Calls <- SharedCalls, Conns <- SharedConns, SingleProvider <- FALSE,
        pc <- tcPc, pending <- tcPending, sent <- tcSent, frames <- tcFrames,
        runs <- executions

\* The variables of Delivery.
VARIABLES pc2, attempt2, linked2, outbox2, count2, due2, snapshot2, sending2, taken2,
          inbox2, okResult2, badResult2, shown2, reported2, orphans2, crashes2
shared == <<pc2, attempt2, linked2, outbox2, count2, due2, snapshot2, sending2, taken2,
            inbox2, okResult2, badResult2, shown2, reported2, orphans2, crashes2>>

DV == INSTANCE Delivery WITH
        Messages <- SharedMessages, Addressed <- SharedAddressed,
        Queueable <- SharedQueueable, Readers <- SharedLoops,
        MaxAttempts <- SharedAttempts, MaxCrashes <- SharedCrashes,
        pc <- pc2, attempt <- attempt2, linked <- linked2, outbox <- outbox2,
        count <- count2, due <- due2, snapshot <- snapshot2, sending <- sending2,
        taken <- taken2, inbox <- inbox2, okResult <- okResult2,
        badResult <- badResult2, shown <- shown2, reported <- reported2,
        orphans <- orphans2, crashes <- crashes2

SharedInit == TC!Init /\ DV!Init

CallStep   == TC!Next /\ UNCHANGED shared
OutboxStep == DV!Next /\ UNCHANGED tool

SharedNext == CallStep \/ OutboxStep

SharedSpec == SharedInit /\ [][SharedNext]_<<tool, shared>>

-----------------------------------------------------------------------------
(* However many processes and loops serve the endpoint: a success is a      *)
(* success of the tool, a retry follows a refusal, no future stays behind   *)
(* and no answer goes unscored; a delivered message was shown, attempts     *)
(* stay within the budget and none is stranded.                             *)
SharedIsSafe ==
  /\ TC!SuccessIsReal /\ TC!RetryIsSafe /\ TC!NoLeakedFuture /\ TC!EveryAnswerScored
  /\ DV!DeliveredIsReal /\ DV!RetryBudget /\ DV!StrandedOnlyByCrash
=============================================================================
