------------------------------ MODULE ToolCall ------------------------------
(***************************************************************************)
(* One tool call from ToolRouterService to an Endpoint Provider and back.  *)
(*                                                                         *)
(* Core side: the coroutine of ToolRouterService._dispatch_target, its     *)
(* table _pending of futures, the OperationCall/Operation rows, the socket *)
(* table of EndpointWebSocketManager and the frame handlers of             *)
(* gateway/endpoint_frame_handlers.py.  Provider side: the call task of    *)
(* endpoint_tool_sdk/runtime.py.  Between them, websocket connections that *)
(* drop, and that Core notices to be dropped only later.                   *)
(*                                                                         *)
(* The asyncio lock around _pending is never held across an await, so a    *)
(* handler that marks the row and then completes the future is one step.   *)
(* An await of the transport or of the future separates steps.             *)
(***************************************************************************)
EXTENDS Naturals

CONSTANTS
  Calls,           \* call ids, one per call of _dispatch_target
  Conns,           \* websocket connections of the target endpoint over time
  SingleProvider   \* TRUE: one provider process, so one live connection

ASSUME SingleProviderAssumption == SingleProvider \in BOOLEAN

VARIABLES
  pc,        \* pc[c]: where the coroutine of call c is
  pending,   \* pending[c]: the future of c in _pending, or "absent"
  answer,    \* answer[c]: what route_tool_call gave its caller
  row,       \* row[c]: OperationCall.status
  successes, \* successes[c]: routing successes recorded on account of c
  failures,  \* failures[c]: routing failures recorded on account of c
  targets,   \* targets[c]: sockets the frame of c has still to be sent to
  sent,      \* sent[c]: some socket took the frame
  link,      \* link[k]: the connection itself
  reader,    \* reader[k]: Core's receive loop of connection k
  socks,     \* EndpointWebSocketManager._connections of the endpoint
  requests,  \* tool.call.request frames on their way, <<call, connection>>
  task,      \* task[k][c]: the provider's task for the request got over k
  frames,    \* frames on their way to Core
  runs       \* runs[c]: executions of the tool begun for c (history)

scores       == <<successes, failures>>
coreVars     == <<pc, pending, answer, row, scores, targets, sent>>
wireVars     == <<link, reader, socks, requests, frames>>
providerVars == <<task, runs>>
vars         == <<coreVars, wireVars, providerVars>>

Phases   == {"idle", "sending", "waiting", "done"}
Futures  == {"absent", "open", "result", "error"}
Answers  == {"none", "result", "error", "timeout", "unavailable",
             "waiting_for_endpoint", "rejected", "cancelled", "lost"}
Statuses == {"none", "queued", "dispatched", "running",
             "succeeded", "failed", "cancelled"}
Tasks    == {"none", "started", "accepted", "queued", "running", "done", "gone"}
Terminal == {"result", "error", "cancel"}
FrameTypes == {"accepted", "progress"} \cup Terminal
Frames   == [conn : Conns, call : Calls, type : FrameTypes]

Frame(k, c, t) == [conn |-> k, call |-> c, type |-> t]

(* The order in which a provider sends the frames of one call. *)
Rank(t) == CASE t = "accepted" -> 1 [] t = "progress" -> 2 [] OTHER -> 3

(* A websocket delivers in order: f is the oldest frame of its call. *)
Oldest(f) ==
  \A g \in frames :
     (g.conn = f.conn /\ g.call = f.call) => Rank(f.type) <= Rank(g.type)

(* Operation.status is written in the transaction that writes the call row. *)
OperationStatus(c) == IF row[c] = "dispatched" THEN "dispatching" ELSE row[c]

-----------------------------------------------------------------------------
Init ==
  /\ pc = [c \in Calls |-> "idle"]
  /\ pending = [c \in Calls |-> "absent"]
  /\ answer = [c \in Calls |-> "none"]
  /\ row = [c \in Calls |-> "none"]
  /\ successes = [c \in Calls |-> 0]
  /\ failures = [c \in Calls |-> 0]
  /\ targets = [c \in Calls |-> {}]
  /\ sent = [c \in Calls |-> FALSE]
  /\ link = [k \in Conns |-> "new"]
  /\ reader = [k \in Conns |-> "none"]
  /\ socks = {}
  /\ requests = {}
  /\ task = [k \in Conns |-> [c \in Calls |-> "none"]]
  /\ frames = {}
  /\ runs = [c \in Calls |-> 0]

ScoreSuccess(c) == successes' = [successes EXCEPT ![c] = @ + 1] /\ UNCHANGED failures
ScoreFailure(c) == failures' = [failures EXCEPT ![c] = @ + 1] /\ UNCHANGED successes

-----------------------------------------------------------------------------
(* ToolRouterService: the coroutine of one call. *)

(* The call is turned down before any row exists: the workspace is missing, *)
(* a confirmation is required and absent, or the arguments cannot be sealed. *)
RejectCall(c) ==
  /\ pc[c] = "idle"
  /\ pc' = [pc EXCEPT ![c] = "done"]
  /\ answer' = [answer EXCEPT ![c] = "rejected"]
  /\ UNCHANGED <<pending, row, scores, targets, sent, wireVars, providerVars>>

(* The row exists, but no transport is configured for the kind of target:   *)
(* an external executor always ends here, an endpoint before the gateway    *)
(* is attached.                                                             *)
NoTransport(c) ==
  /\ pc[c] = "idle"
  /\ pc' = [pc EXCEPT ![c] = "done"]
  /\ answer' = [answer EXCEPT ![c] = "unavailable"]
  /\ row' = [row EXCEPT ![c] = "failed"]
  /\ ScoreFailure(c)
  /\ UNCHANGED <<pending, targets, sent, wireVars, providerVars>>

(* Rows are created, the future is registered, and send_to_endpoint takes a *)
(* snapshot of the sockets bound to the endpoint.                            *)
DispatchTarget(c) ==
  /\ pc[c] = "idle"
  /\ pc' = [pc EXCEPT ![c] = "sending"]
  /\ row' = [row EXCEPT ![c] = "queued"]
  /\ pending' = [pending EXCEPT ![c] = "open"]
  /\ targets' = [targets EXCEPT ![c] = socks]
  /\ UNCHANGED <<answer, scores, sent, wireVars, providerVars>>

(* Slip: the socket stays among the targets and is sent the frame again. *)
SendFrameAgain(c, k) ==
  /\ pc[c] = "sending"
  /\ k \in targets[c]
  /\ sent' = [sent EXCEPT ![c] = TRUE]
  /\ requests' = IF link[k] = "up" THEN requests \cup {<<c, k>>} ELSE requests
  /\ UNCHANGED <<pc, pending, answer, row, scores, targets, link, reader, socks, frames, providerVars>>

(* _send_many: one socket takes the frame.  A connection that is down but   *)
(* not yet known to be takes it too, and the frame is lost.                 *)
SendFrame(c, k) ==
  /\ pc[c] = "sending"
  /\ k \in targets[c]
  /\ targets' = [targets EXCEPT ![c] = @ \ {k}]
  /\ sent' = [sent EXCEPT ![c] = TRUE]
  /\ requests' = IF link[k] = "up" THEN requests \cup {<<c, k>>} ELSE requests
  /\ UNCHANGED <<pc, pending, answer, row, scores, link, reader, socks, frames, providerVars>>

(* _send_many: the send raises, and the manager forgets the socket. *)
SendFails(c, k) ==
  /\ pc[c] = "sending"
  /\ k \in targets[c]
  /\ link[k] = "down"
  /\ targets' = [targets EXCEPT ![c] = @ \ {k}]
  /\ socks' = socks \ {k}
  /\ UNCHANGED <<pc, pending, answer, row, scores, sent, link, reader, requests, frames, providerVars>>

(* Slip: one dead socket among those asked makes the call unavailable. *)
NotDispatchedIfAnyFailed(c) ==
  /\ pc[c] = "sending"
  /\ targets[c] = {}
  /\ pc' = [pc EXCEPT ![c] = "done"]
  /\ pending' = [pending EXCEPT ![c] = "absent"]
  /\ row' = [row EXCEPT ![c] = "failed"]
  /\ answer' = [answer EXCEPT ![c] = "unavailable"]
  /\ ScoreFailure(c)
  /\ UNCHANGED <<targets, sent, wireVars, providerVars>>

(* No socket took the frame: the call fails at once, with the answer that   *)
(* the offline policy asks for.                                             *)
NotDispatched(c) ==
  /\ pc[c] = "sending"
  /\ targets[c] = {}
  /\ ~sent[c]
  /\ pc' = [pc EXCEPT ![c] = "done"]
  /\ pending' = [pending EXCEPT ![c] = "absent"]
  /\ row' = [row EXCEPT ![c] = "failed"]
  /\ \E a \in {"unavailable", "waiting_for_endpoint"} :
        answer' = [answer EXCEPT ![c] = a]
  /\ ScoreFailure(c)
  /\ UNCHANGED <<targets, sent, wireVars, providerVars>>

(* mark_dispatched, whatever the row says by now, and then wait_for. *)
Dispatched(c) ==
  /\ pc[c] = "sending"
  /\ targets[c] = {}
  /\ sent[c]
  /\ pc' = [pc EXCEPT ![c] = "waiting"]
  /\ row' = [row EXCEPT ![c] = "dispatched"]
  /\ UNCHANGED <<pending, answer, scores, targets, sent, wireVars, providerVars>>

(* The future is done and the coroutine resumes. *)
Resume(c) ==
  /\ pc[c] = "waiting"
  /\ pending[c] \in {"result", "error"}
  /\ pc' = [pc EXCEPT ![c] = "done"]
  /\ answer' = [answer EXCEPT ![c] = pending[c]]
  /\ pending' = [pending EXCEPT ![c] = "absent"]
  /\ UNCHANGED <<row, scores, targets, sent, wireVars, providerVars>>

(* The except and finally clauses of the wait, but for the routing score. *)
TimeoutWith(c, a, future) ==
  /\ pc[c] = "waiting"
  /\ pc' = [pc EXCEPT ![c] = "done"]
  /\ answer' = [answer EXCEPT ![c] = a]
  /\ row' = [row EXCEPT ![c] = "failed"]
  /\ pending' = [pending EXCEPT ![c] = future]
  /\ UNCHANGED <<targets, sent, wireVars, providerVars>>

(* Slip: the finally clause does not pop the future. *)
TimeoutLeaksFuture(c) == TimeoutWith(c, "timeout", pending[c]) /\ ScoreFailure(c)

(* Slip: a timeout is reported as target_endpoint_unavailable. *)
TimeoutAsUnavailable(c) == TimeoutWith(c, "unavailable", "absent") /\ ScoreFailure(c)

(* Slip: the future is awaited without a limit. *)
NeverTimesOut(c) == FALSE

(* wait_for expires.  The future may have been completed in the same turn   *)
(* of the event loop: from Python 3.12 on the expiry still wins then.       *)
CallTimeout(c) == TimeoutWith(c, "timeout", "absent") /\ ScoreFailure(c)

(* The session's task is cancelled (SessionActorRuntime.cancel).  Only the  *)
(* wait is inside try/finally: cancelled in the transport, the coroutine    *)
(* leaves its future in _pending.  No row is written.                       *)
CancelCaller(c) ==
  /\ pc[c] \in {"sending", "waiting"}
  /\ pc' = [pc EXCEPT ![c] = "done"]
  /\ answer' = [answer EXCEPT ![c] = "cancelled"]
  /\ pending' = IF pc[c] = "waiting" THEN [pending EXCEPT ![c] = "absent"] ELSE pending
  /\ targets' = [targets EXCEPT ![c] = {}]
  /\ UNCHANGED <<row, scores, sent, wireVars, providerVars>>

-----------------------------------------------------------------------------
(* The frame handlers of the gateway. *)

CompleteFuture(c, value) ==
  pending' = IF pending[c] = "open" THEN [pending EXCEPT ![c] = value] ELSE pending

Consume(f) ==
  /\ f \in frames
  /\ Oldest(f)
  /\ frames' = frames \ {f}

(* tool.call.accepted and tool.call.progress: mark_accepted, mark_progress. *)
HandleProgress(f) ==
  /\ Consume(f)
  /\ f.type \in {"accepted", "progress"}
  /\ row' = [row EXCEPT ![f.call] = "running"]
  /\ UNCHANGED <<pc, pending, answer, scores, targets, sent, link, reader, socks, requests, providerVars>>

NotifyCallResult(f) ==
  /\ Consume(f)
  /\ f.type = "result"
  /\ row' = [row EXCEPT ![f.call] = "succeeded"]
  /\ ScoreSuccess(f.call)
  /\ CompleteFuture(f.call, "result")
  /\ UNCHANGED <<pc, answer, targets, sent, link, reader, socks, requests, providerVars>>

(* Slip: an error frame takes the path of a result. *)
NotifyErrorAsResult(f) ==
  /\ Consume(f)
  /\ f.type = "error"
  /\ row' = [row EXCEPT ![f.call] = "succeeded"]
  /\ ScoreSuccess(f.call)
  /\ CompleteFuture(f.call, "result")
  /\ UNCHANGED <<pc, answer, targets, sent, link, reader, socks, requests, providerVars>>

NotifyCallError(f) ==
  /\ Consume(f)
  /\ f.type = "error"
  /\ row' = [row EXCEPT ![f.call] = "failed"]
  /\ ScoreFailure(f.call)
  /\ CompleteFuture(f.call, "error")
  /\ UNCHANGED <<pc, answer, targets, sent, link, reader, socks, requests, providerVars>>

NotifyCallCancelled(f) ==
  /\ Consume(f)
  /\ f.type = "cancel"
  /\ row' = [row EXCEPT ![f.call] = "cancelled"]
  /\ ScoreFailure(f.call)
  /\ CompleteFuture(f.call, "error")
  /\ UNCHANGED <<pc, answer, targets, sent, link, reader, socks, requests, providerVars>>

-----------------------------------------------------------------------------
(* The provider: EndpointToolRuntime. *)

(* _handle_server_message makes a task for the request. *)
ReceiveRequest(k, c) ==
  /\ <<c, k>> \in requests
  /\ link[k] = "up"
  /\ requests' = requests \ {<<c, k>>}
  /\ task' = [task EXCEPT ![k][c] = "started"]
  /\ UNCHANGED <<coreVars, link, reader, socks, frames, runs>>

(* The task goes from one stage to the next and sends a frame. *)
Report(k, c, from, to, type) ==
  /\ link[k] = "up"
  /\ task[k][c] = from
  /\ task' = [task EXCEPT ![k][c] = to]
  /\ frames' = frames \cup {Frame(k, c, type)}
  /\ UNCHANGED <<coreVars, link, reader, socks, requests, runs>>

(* The sealed arguments do not open: an error, and nothing is executed. *)
ArgumentsUnreadable(k, c) == Report(k, c, "started", "done", "error")

SendAccepted(k, c) == Report(k, c, "started", "accepted", "accepted")

SendProgress(k, c) == Report(k, c, "accepted", "queued", "progress")

(* The semaphore and the lock of the tool are acquired and the tool begins. *)
ExecuteTool(k, c) ==
  /\ link[k] = "up"
  /\ task[k][c] = "queued"
  /\ task' = [task EXCEPT ![k][c] = "running"]
  /\ runs' = [runs EXCEPT ![c] = @ + 1]
  /\ UNCHANGED <<coreVars, wireVars>>

ToolSucceeds(k, c) == Report(k, c, "running", "done", "result")

ToolFails(k, c) == Report(k, c, "running", "done", "error")

(* A provider may also withdraw a call with tool.call.cancel. *)
WithdrawCall(k, c) ==
  \E from \in {"accepted", "queued", "running"} : Report(k, c, from, "done", "cancel")

-----------------------------------------------------------------------------
(* Connections. *)

Connect(k) ==
  /\ link[k] = "new"
  /\ SingleProvider => \A j \in Conns : link[j] # "up"
  /\ link' = [link EXCEPT ![k] = "up"]
  /\ reader' = [reader EXCEPT ![k] = "hello"]
  /\ UNCHANGED <<coreVars, socks, requests, frames, providerVars>>

(* endpoint.hello: bind_endpoint adds the socket, and leaves those that are *)
(* there already where they are.                                            *)
BindEndpoint(k) ==
  /\ reader[k] = "hello"
  /\ reader' = [reader EXCEPT ![k] = "open"]
  /\ socks' = socks \cup {k}
  /\ UNCHANGED <<coreVars, link, requests, frames, providerVars>>

StopTasks(K) ==
  task' = [k \in Conns |-> [c \in Calls |->
             IF k \in K /\ task[k][c] \notin {"none", "done"} THEN "gone" ELSE task[k][c]]]

(* The connection breaks.  _run_connection cancels the call tasks; what they *)
(* still send goes nowhere.  Frames sent before are in Core's buffer.        *)
LinkDown(k) ==
  /\ link[k] = "up"
  /\ link' = [link EXCEPT ![k] = "down"]
  /\ requests' = {r \in requests : r[2] # k}
  /\ StopTasks({k})
  /\ UNCHANGED <<coreVars, reader, socks, frames, runs>>

(* The provider leaves its receive loop with the connection still open (it  *)
(* is stopped, or a delivery handler raises): the same cancellation, and a  *)
(* task inside its try block reports it before the connection closes.       *)
CloseConnection(k) ==
  /\ link[k] = "up"
  /\ link' = [link EXCEPT ![k] = "down"]
  /\ requests' = {r \in requests : r[2] # k}
  /\ StopTasks({k})
  /\ frames' = frames \cup {Frame(k, c, "error") : c \in {d \in Calls : task[k][d] \in {"queued", "running"}}}
  /\ UNCHANGED <<coreVars, reader, socks, runs>>

(* Core's receive loop sees the disconnect and unregisters the socket. *)
ReadLoopEnds(k) ==
  /\ link[k] = "down"
  /\ reader[k] \in {"hello", "open"}
  /\ reader' = [reader EXCEPT ![k] = "closed"]
  /\ socks' = socks \ {k}
  /\ frames' = {f \in frames : f.conn # k}
  /\ UNCHANGED <<coreVars, link, requests, providerVars>>

(* The Core process dies and comes back: its coroutines, futures and sockets *)
(* are gone, the rows stay as they are.                                      *)
CoreRestart ==
  /\ pc' = [c \in Calls |-> IF pc[c] \in {"sending", "waiting"} THEN "done" ELSE pc[c]]
  /\ answer' = [c \in Calls |-> IF pc[c] \in {"sending", "waiting"} THEN "lost" ELSE answer[c]]
  /\ pending' = [c \in Calls |-> "absent"]
  /\ targets' = [c \in Calls |-> {}]
  /\ link' = [k \in Conns |-> IF link[k] = "up" THEN "down" ELSE link[k]]
  /\ reader' = [k \in Conns |-> IF reader[k] = "none" THEN "none" ELSE "closed"]
  /\ socks' = {}
  /\ requests' = {}
  /\ frames' = {}
  /\ StopTasks(Conns)
  /\ UNCHANGED <<row, scores, sent, runs>>

-----------------------------------------------------------------------------
Send(c)   == \E k \in Conns : SendFrame(c, k) \/ SendFails(c, k)
Settle(c) == NotDispatched(c) \/ Dispatched(c) \/ Resume(c) \/ CallTimeout(c)

Router ==
  \E c \in Calls :
     \/ RejectCall(c) \/ NoTransport(c) \/ DispatchTarget(c) \/ CancelCaller(c)
     \/ Send(c) \/ Settle(c)

Gateway ==
  \E f \in frames :
     \/ HandleProgress(f) \/ NotifyCallResult(f)
     \/ NotifyCallError(f) \/ NotifyCallCancelled(f)

Provider ==
  \E k \in Conns, c \in Calls :
     \/ ReceiveRequest(k, c) \/ ArgumentsUnreadable(k, c)
     \/ SendAccepted(k, c) \/ SendProgress(k, c) \/ ExecuteTool(k, c)
     \/ ToolSucceeds(k, c) \/ ToolFails(k, c) \/ WithdrawCall(k, c)

Network ==
  \/ \E k \in Conns :
        \/ Connect(k) \/ BindEndpoint(k) \/ LinkDown(k)
        \/ CloseConnection(k) \/ ReadLoopEnds(k)
  \/ CoreRestart

Next == Router \/ Gateway \/ Provider \/ Network

Spec == Init /\ [][Next]_vars

(* The event loop runs what is ready, a send of the ASGI server ends, and    *)
(* the timer of wait_for fires.  Nothing is assumed of the provider, the     *)
(* network or the frames.                                                    *)
FairSpec == Spec /\ \A c \in Calls : WF_vars(Send(c)) /\ WF_vars(Settle(c))

-----------------------------------------------------------------------------
(* Types of Core's tables, the wire and the provider's tasks. *)
TypeOK ==
  /\ pc \in [Calls -> Phases]
  /\ pending \in [Calls -> Futures]
  /\ answer \in [Calls -> Answers]
  /\ row \in [Calls -> Statuses]
  /\ successes \in [Calls -> Nat]
  /\ failures \in [Calls -> Nat]
  /\ targets \in [Calls -> SUBSET Conns]
  /\ sent \in [Calls -> BOOLEAN]
  /\ link \in [Conns -> {"new", "up", "down"}]
  /\ reader \in [Conns -> {"none", "hello", "open", "closed"}]
  /\ socks \subseteq Conns
  /\ requests \subseteq Calls \X Conns
  /\ task \in [Conns -> [Calls -> Tasks]]
  /\ frames \subseteq Frames
  /\ runs \in [Calls -> Nat]

(* Success is never invented: a caller that got a result, a row that says   *)
(* succeeded and a success in the routing score each follow an execution of *)
(* the tool, whatever was cancelled, late or lost on the way.               *)
SuccessIsReal ==
  \A c \in Calls :
     (answer[c] = "result" \/ row[c] = "succeeded" \/ successes[c] > 0) => runs[c] > 0

(* The answers after which ToolRouterError.retryable or a queueing policy   *)
(* invites the caller to try again, and the call never left Core.           *)
NotStarted == {"rejected", "unavailable", "waiting_for_endpoint"}

(* target_endpoint_unavailable and waiting_for_endpoint are safe to retry:  *)
(* no provider ran the tool, holds a task for it or will be sent one.       *)
RetryIsSafe ==
  \A c \in Calls : answer[c] \in NotStarted =>
     /\ runs[c] = 0
     /\ \A k \in Conns : task[k][c] = "none" /\ <<c, k>> \notin requests

(* With one provider process the tool of a call runs at most once, although *)
(* the frame goes to every socket bound to the endpoint, dead ones included *)
(* and the provider may have reconnected while the frame is being sent.     *)
AtMostOnce == SingleProvider => \A c \in Calls : runs[c] <= 1

(* _pending holds no future of a call that ended, except one cancelled      *)
(* inside the transport await, which stands outside the try/finally.        *)
NoLeakedFuture ==
  \A c \in Calls : pending[c] # "absent" =>
     pc[c] \in {"sending", "waiting"} \/ answer[c] = "cancelled"

(* The routing score hears of every call that got an answer from the        *)
(* endpoint or the clock, and with one provider at most twice: once for the *)
(* timeout and once for the late terminal frame.                            *)
EveryAnswerScored ==
  \A c \in Calls :
     /\ answer[c] \in {"result", "error", "timeout", "unavailable", "waiting_for_endpoint"}
           => successes[c] + failures[c] > 0
     /\ SingleProvider => successes[c] + failures[c] <= 2

(* The promise to the caller, with the answer as verdict. *)
Contract ==
  INSTANCE EffectContract WITH
    Effects <- Calls, Verdicts <- Answers \ {"none"}, NoVerdict <- "none",
    NeedsRun <- {"result"}, verdict <- answer, ran <- runs

(* ToolCall with one provider process implements EffectContract: every step *)
(* of router, gateway, provider and network is a step of the contract.      *)
ImplementsContract == Contract!Spec

(* Whatever the provider and the network do, a dispatched call gets its     *)
(* answer: no path of _dispatch_target waits for ever.                      *)
EveryCallSettles ==
  \A c \in Calls : pc[c] \in {"sending", "waiting"} ~> pc[c] = "done"

(* A caller that got the result finds the operation it belongs to           *)
(* succeeded.  The code does not keep this: mark_dispatched, written after  *)
(* the await of the transport, overwrites a result that came in meanwhile.  *)
ResultRecorded ==
  \A c \in Calls : answer[c] = "result" => row[c] = "succeeded"
=============================================================================
