--------------------------- MODULE ToolCallProofs ---------------------------
(***************************************************************************)
(* Proofs about ToolCall, for every set of calls and of connections.       *)
(*                                                                         *)
(* Bookkeeping relates what Core has done for a call to what a provider    *)
(* holds of it; Unique says that with one provider process at most one     *)
(* connection can ever run the call.  Together with the types they are     *)
(* inductive.                                                              *)
(***************************************************************************)
EXTENDS ToolCall, TLAPS

PreRun == {"none", "started", "accepted", "queued"}

(* What is known of sockets: one in the table, or in a snapshot of it, has *)
(* been connected, and so has one that carries a request or a task.        *)
Sockets ==
  /\ \A k \in Conns : reader[k] # "none" => link[k] # "new"
  /\ \A k \in socks : link[k] # "new"
  /\ \A c \in Calls : \A k \in targets[c] : link[k] # "new"
  /\ \A c \in Calls : \A k \in Conns : task[k][c] # "none" => link[k] # "new"
  /\ \A c \in Calls : \A k \in Conns : <<c, k>> \in requests => link[k] = "up"

(* A request or a task exists only of a call whose frame was sent, and a    *)
(* connection gets the frame of a call at most once.                        *)
OnlySent ==
  \A c \in Calls :
     /\ pc[c] = "idle" => targets[c] = {} /\ sent[c] = FALSE /\ answer[c] = "none"
     /\ pc[c] \in {"sending", "waiting"} => answer[c] = "none"
     /\ pc[c] \in {"waiting", "done"} => targets[c] = {}
     /\ answer[c] \in NotStarted => sent[c] = FALSE /\ pc[c] = "done"
     /\ \A k \in Conns : <<c, k>> \in requests => task[k][c] = "none"
     /\ \A k \in Conns : <<c, k>> \in requests \/ task[k][c] # "none"
           => sent[c] = TRUE /\ k \notin targets[c]

(* Every trace of a success follows a run, and a run leaves a task behind. *)
Trace ==
  \A c \in Calls :
     /\ runs[c] > 0 => \E k \in Conns : task[k][c] \notin PreRun
     /\ \A k \in Conns : task[k][c] = "running" => runs[c] > 0
     /\ \A f \in frames : f.call = c /\ f.type = "result" => runs[c] > 0
     /\ pending[c] = "result" => runs[c] > 0
     /\ answer[c] = "result" \/ row[c] = "succeeded" \/ successes[c] > 0 => runs[c] > 0

Bookkeeping == Sockets /\ OnlySent /\ Trace

(* Connection k has, or may still get, the request of c. *)
Touched(c, k) ==
  \/ <<c, k>> \in requests
  \/ task[k][c] # "none"
  \/ k \in targets[c] /\ link[k] = "up"

Unique ==
  /\ \A j, k \in Conns : link[j] = "up" /\ link[k] = "up" => j = k
  /\ \A c \in Calls : \A j, k \in Conns : Touched(c, j) /\ Touched(c, k) => j = k
  /\ \A c \in Calls : runs[c] <= 1

(* One if the router itself gave the answer and scored it. *)
ByRouter(c) == IF answer[c] \in {"timeout", "unavailable", "waiting_for_endpoint"} THEN 1 ELSE 0

(* Whoever completed a future or ended a call has scored it. *)
Heard ==
  \A c \in Calls :
     pending[c] \in {"result", "error"}
       \/ answer[c] \in {"result", "error", "timeout", "unavailable", "waiting_for_endpoint"}
     => successes[c] + failures[c] > 0

(* With one provider process a call has one terminal frame, sent by the one *)
(* task that ended, and until Core has handled it only the router scored.   *)
OneEnding ==
  \A c \in Calls :
     /\ \A f, g \in frames :
          f.call = c /\ g.call = c /\ f.type \in Terminal /\ g.type \in Terminal => f = g
     /\ \A f \in frames : f.call = c /\ f.type \in Terminal =>
          /\ task[f.conn][c] \in {"done", "gone"}
          /\ successes[c] + failures[c] = ByRouter(c)
     /\ successes[c] + failures[c] <= ByRouter(c) + 1
     /\ successes[c] + failures[c] > ByRouter(c) =>
          \E k \in Conns : task[k][c] \in {"done", "gone"}

IInv == TypeOK /\ Bookkeeping /\ (SingleProvider => Unique)

-----------------------------------------------------------------------------
(* The stages of a task at which it sends a frame, and the frame it sends. *)
Reports(k, c) ==
  \/ Report(k, c, "started", "done", "error")
  \/ Report(k, c, "started", "accepted", "accepted")
  \/ Report(k, c, "accepted", "queued", "progress")
  \/ Report(k, c, "running", "done", "result")
  \/ Report(k, c, "running", "done", "error")
  \/ \E from \in {"accepted", "queued", "running"} : Report(k, c, from, "done", "cancel")

(* A report moves one task on, and only the end of a task sends a terminal frame. *)
LEMMA ReportCases ==
  ASSUME NEW k \in Conns, NEW c \in Calls, Reports(k, c)
  PROVE  \E from \in {"started", "accepted", "queued", "running"},
            to \in Tasks, type \in FrameTypes :
           /\ Report(k, c, from, to, type)
           /\ type \in Terminal => to = "done"
BY SMTT(30) DEF Reports, Tasks, FrameTypes, Terminal

(* What a step of the whole system can be, one line per action. *)
LEMMA StepCases ==
  ASSUME Next
  PROVE  \/ \E c \in Calls : RejectCall(c)
         \/ \E c \in Calls : NoTransport(c)
         \/ \E c \in Calls : DispatchTarget(c)
         \/ \E c \in Calls : CancelCaller(c)
         \/ \E c \in Calls, k \in Conns : SendFrame(c, k)
         \/ \E c \in Calls, k \in Conns : SendFails(c, k)
         \/ \E c \in Calls : NotDispatched(c)
         \/ \E c \in Calls : Dispatched(c)
         \/ \E c \in Calls : Resume(c)
         \/ \E c \in Calls : CallTimeout(c)
         \/ \E f \in frames : HandleProgress(f)
         \/ \E f \in frames : NotifyCallResult(f)
         \/ \E f \in frames : NotifyCallError(f)
         \/ \E f \in frames : NotifyCallCancelled(f)
         \/ \E k \in Conns, c \in Calls : ReceiveRequest(k, c)
         \/ \E k \in Conns, c \in Calls : Reports(k, c)
         \/ \E k \in Conns, c \in Calls : ExecuteTool(k, c)
         \/ \E k \in Conns : Connect(k)
         \/ \E k \in Conns : BindEndpoint(k)
         \/ \E k \in Conns : LinkDown(k)
         \/ \E k \in Conns : CloseConnection(k)
         \/ \E k \in Conns : ReadLoopEnds(k)
         \/ CoreRestart
BY DEF Next, Router, Gateway, Provider, Network, Send, Settle, Reports,
       ArgumentsUnreadable, SendAccepted, SendProgress, ToolSucceeds, ToolFails, WithdrawCall

(* Every action keeps every variable in its set. *)
LEMMA TypeStep ==
  ASSUME TypeOK, [Next]_vars
  PROVE  TypeOK'
<1> USE DEF TypeOK, coreVars, wireVars, providerVars, scores, Phases, Futures,
           Answers, Statuses, Tasks, Terminal, FrameTypes, Frames
<1>1. ASSUME NEW c \in Calls, RejectCall(c) PROVE TypeOK'
  BY <1>1 DEF RejectCall
<1>2. ASSUME NEW c \in Calls, NoTransport(c) PROVE TypeOK'
  BY <1>2 DEF NoTransport, ScoreFailure
<1>3. ASSUME NEW c \in Calls, DispatchTarget(c) PROVE TypeOK'
  BY <1>3 DEF DispatchTarget
<1>4. ASSUME NEW c \in Calls, CancelCaller(c) PROVE TypeOK'
  BY <1>4 DEF CancelCaller
<1>5. ASSUME NEW c \in Calls, NEW k \in Conns, SendFrame(c, k) PROVE TypeOK'
  BY <1>5 DEF SendFrame
<1>6. ASSUME NEW c \in Calls, NEW k \in Conns, SendFails(c, k) PROVE TypeOK'
  BY <1>6 DEF SendFails
<1>7. ASSUME NEW c \in Calls, NotDispatched(c) PROVE TypeOK'
  BY <1>7 DEF NotDispatched, ScoreFailure
<1>8. ASSUME NEW c \in Calls, Dispatched(c) PROVE TypeOK'
  BY <1>8 DEF Dispatched
<1>9. ASSUME NEW c \in Calls, Resume(c) PROVE TypeOK'
  BY <1>9 DEF Resume
<1>10. ASSUME NEW c \in Calls, CallTimeout(c) PROVE TypeOK'
  BY <1>10 DEF CallTimeout, TimeoutWith, ScoreFailure
<1>11. ASSUME NEW f \in frames, HandleProgress(f) PROVE TypeOK'
  BY <1>11 DEF HandleProgress, Consume
<1>12. ASSUME NEW f \in frames, NotifyCallResult(f) PROVE TypeOK'
  BY <1>12 DEF NotifyCallResult, Consume, CompleteFuture, ScoreSuccess
<1>13. ASSUME NEW f \in frames, NotifyCallError(f) PROVE TypeOK'
  BY <1>13 DEF NotifyCallError, Consume, CompleteFuture, ScoreFailure
<1>14. ASSUME NEW f \in frames, NotifyCallCancelled(f) PROVE TypeOK'
  BY <1>14 DEF NotifyCallCancelled, Consume, CompleteFuture, ScoreFailure
<1>15. ASSUME NEW k \in Conns, NEW c \in Calls, ReceiveRequest(k, c) PROVE TypeOK'
  BY <1>15 DEF ReceiveRequest
<1>16. ASSUME NEW k \in Conns, NEW c \in Calls, Reports(k, c) PROVE TypeOK'
  <2>1. ASSUME NEW from \in Tasks, NEW to \in Tasks, NEW type \in FrameTypes,
                Report(k, c, from, to, type)
         PROVE  TypeOK'
    BY <2>1 DEF Report, Frame
  <2> QED
    BY ZenonT(30), <1>16, <2>1 DEF Reports
<1>17. ASSUME NEW k \in Conns, NEW c \in Calls, ExecuteTool(k, c) PROVE TypeOK'
  BY <1>17 DEF ExecuteTool
<1>18. ASSUME NEW k \in Conns, Connect(k) PROVE TypeOK'
  BY <1>18 DEF Connect
<1>19. ASSUME NEW k \in Conns, BindEndpoint(k) PROVE TypeOK'
  BY <1>19 DEF BindEndpoint
<1>20. ASSUME NEW k \in Conns, LinkDown(k) PROVE TypeOK'
  BY <1>20 DEF LinkDown, StopTasks
<1>21. ASSUME NEW k \in Conns, CloseConnection(k) PROVE TypeOK'
  BY <1>21 DEF CloseConnection, StopTasks, Frame
<1>22. ASSUME NEW k \in Conns, ReadLoopEnds(k) PROVE TypeOK'
  BY <1>22 DEF ReadLoopEnds
<1>23. ASSUME CoreRestart PROVE TypeOK'
  BY <1>23 DEF CoreRestart, StopTasks
<1>24. CASE UNCHANGED vars
  BY <1>24 DEF vars
<1> QED
  BY StepCases, <1>1, <1>2, <1>3, <1>4, <1>5, <1>6, <1>7, <1>8, <1>9, <1>10, <1>11,
     <1>12, <1>13, <1>14, <1>15, <1>16, <1>17, <1>18, <1>19, <1>20, <1>21, <1>22,
     <1>23, <1>24

(* A socket is never forgotten to have been connected. *)
LEMMA SocketsStep ==
  ASSUME TypeOK, Sockets, [Next]_vars
  PROVE  Sockets'
<1> USE DEF TypeOK, Sockets, coreVars, wireVars, providerVars, scores
<1>1. ASSUME NEW c \in Calls, RejectCall(c) PROVE Sockets'
  BY <1>1 DEF RejectCall
<1>2. ASSUME NEW c \in Calls, NoTransport(c) PROVE Sockets'
  BY <1>2 DEF NoTransport, ScoreFailure
<1>3. ASSUME NEW c \in Calls, DispatchTarget(c) PROVE Sockets'
  BY <1>3 DEF DispatchTarget
<1>4. ASSUME NEW c \in Calls, CancelCaller(c) PROVE Sockets'
  BY <1>4 DEF CancelCaller
<1>5. ASSUME NEW c \in Calls, NEW k \in Conns, SendFrame(c, k) PROVE Sockets'
  BY <1>5 DEF SendFrame
<1>6. ASSUME NEW c \in Calls, NEW k \in Conns, SendFails(c, k) PROVE Sockets'
  BY <1>6 DEF SendFails
<1>7. ASSUME NEW c \in Calls, NotDispatched(c) PROVE Sockets'
  BY <1>7 DEF NotDispatched, ScoreFailure
<1>8. ASSUME NEW c \in Calls, Dispatched(c) PROVE Sockets'
  BY <1>8 DEF Dispatched
<1>9. ASSUME NEW c \in Calls, Resume(c) PROVE Sockets'
  BY <1>9 DEF Resume
<1>10. ASSUME NEW c \in Calls, CallTimeout(c) PROVE Sockets'
  BY <1>10 DEF CallTimeout, TimeoutWith, ScoreFailure
<1>11. ASSUME NEW f \in frames, HandleProgress(f) PROVE Sockets'
  BY <1>11 DEF HandleProgress, Consume
<1>12. ASSUME NEW f \in frames, NotifyCallResult(f) PROVE Sockets'
  BY <1>12 DEF NotifyCallResult, Consume, CompleteFuture, ScoreSuccess
<1>13. ASSUME NEW f \in frames, NotifyCallError(f) PROVE Sockets'
  BY <1>13 DEF NotifyCallError, Consume, CompleteFuture, ScoreFailure
<1>14. ASSUME NEW f \in frames, NotifyCallCancelled(f) PROVE Sockets'
  BY <1>14 DEF NotifyCallCancelled, Consume, CompleteFuture, ScoreFailure
<1>15. ASSUME NEW k \in Conns, NEW c \in Calls, ReceiveRequest(k, c) PROVE Sockets'
  BY <1>15 DEF ReceiveRequest
<1>16. ASSUME NEW k \in Conns, NEW c \in Calls, Reports(k, c) PROVE Sockets'
  <2>1. ASSUME NEW from \in Tasks \ {"none"}, NEW to \in Tasks \ {"none"}, NEW type \in FrameTypes,
                Report(k, c, from, to, type)
         PROVE  Sockets'
    BY <2>1 DEF Report, Frame, Tasks
  <2> QED
    BY <1>16, <2>1 DEF Reports, Tasks, FrameTypes, Terminal
<1>17. ASSUME NEW k \in Conns, NEW c \in Calls, ExecuteTool(k, c) PROVE Sockets'
  BY <1>17 DEF ExecuteTool
<1>18. ASSUME NEW k \in Conns, Connect(k) PROVE Sockets'
  BY <1>18 DEF Connect
<1>19. ASSUME NEW k \in Conns, BindEndpoint(k) PROVE Sockets'
  BY <1>19 DEF BindEndpoint
<1>20. ASSUME NEW k \in Conns, LinkDown(k) PROVE Sockets'
  BY <1>20 DEF LinkDown, StopTasks
<1>21. ASSUME NEW k \in Conns, CloseConnection(k) PROVE Sockets'
  BY <1>21 DEF CloseConnection, StopTasks, Frame
<1>22. ASSUME NEW k \in Conns, ReadLoopEnds(k) PROVE Sockets'
  BY <1>22 DEF ReadLoopEnds
<1>23. ASSUME CoreRestart PROVE Sockets'
  BY <1>23 DEF CoreRestart, StopTasks
<1>24. CASE UNCHANGED vars
  BY <1>24 DEF vars
<1> QED
  BY StepCases, <1>1, <1>2, <1>3, <1>4, <1>5, <1>6, <1>7, <1>8, <1>9, <1>10, <1>11,
     <1>12, <1>13, <1>14, <1>15, <1>16, <1>17, <1>18, <1>19, <1>20, <1>21, <1>22,
     <1>23, <1>24

(* A provider hears of a call only through a frame that some socket took. *)
LEMMA OnlySentStep ==
  ASSUME TypeOK, OnlySent, [Next]_vars
  PROVE  OnlySent'
<1> USE DEF TypeOK, OnlySent, NotStarted, Phases, Answers, coreVars, wireVars, providerVars, scores
<1>1. ASSUME NEW c \in Calls, RejectCall(c) PROVE OnlySent'
  BY <1>1 DEF RejectCall
<1>2. ASSUME NEW c \in Calls, NoTransport(c) PROVE OnlySent'
  BY <1>2 DEF NoTransport, ScoreFailure
<1>3. ASSUME NEW c \in Calls, DispatchTarget(c) PROVE OnlySent'
  BY <1>3 DEF DispatchTarget
<1>4. ASSUME NEW c \in Calls, CancelCaller(c) PROVE OnlySent'
  BY <1>4 DEF CancelCaller
<1>5. ASSUME NEW c \in Calls, NEW k \in Conns, SendFrame(c, k) PROVE OnlySent'
  BY <1>5 DEF SendFrame
<1>6. ASSUME NEW c \in Calls, NEW k \in Conns, SendFails(c, k) PROVE OnlySent'
  BY <1>6 DEF SendFails
<1>7. ASSUME NEW c \in Calls, NotDispatched(c) PROVE OnlySent'
  BY <1>7 DEF NotDispatched, ScoreFailure
<1>8. ASSUME NEW c \in Calls, Dispatched(c) PROVE OnlySent'
  BY <1>8 DEF Dispatched
<1>9. ASSUME NEW c \in Calls, Resume(c) PROVE OnlySent'
  BY <1>9 DEF Resume
<1>10. ASSUME NEW c \in Calls, CallTimeout(c) PROVE OnlySent'
  BY <1>10 DEF CallTimeout, TimeoutWith, ScoreFailure
<1>11. ASSUME NEW f \in frames, HandleProgress(f) PROVE OnlySent'
  BY <1>11 DEF HandleProgress, Consume
<1>12. ASSUME NEW f \in frames, NotifyCallResult(f) PROVE OnlySent'
  BY <1>12 DEF NotifyCallResult, Consume, CompleteFuture, ScoreSuccess
<1>13. ASSUME NEW f \in frames, NotifyCallError(f) PROVE OnlySent'
  BY <1>13 DEF NotifyCallError, Consume, CompleteFuture, ScoreFailure
<1>14. ASSUME NEW f \in frames, NotifyCallCancelled(f) PROVE OnlySent'
  BY <1>14 DEF NotifyCallCancelled, Consume, CompleteFuture, ScoreFailure
<1>15. ASSUME NEW k \in Conns, NEW c \in Calls, ReceiveRequest(k, c) PROVE OnlySent'
  BY <1>15 DEF ReceiveRequest
<1>16. ASSUME NEW k \in Conns, NEW c \in Calls, Reports(k, c) PROVE OnlySent'
  <2>1. ASSUME NEW from \in Tasks \ {"none"}, NEW to \in Tasks \ {"none"}, NEW type \in FrameTypes,
                Report(k, c, from, to, type)
         PROVE  OnlySent'
    BY <2>1 DEF Report, Frame, Tasks
  <2> QED
    BY <1>16, <2>1 DEF Reports, Tasks, FrameTypes, Terminal
<1>17. ASSUME NEW k \in Conns, NEW c \in Calls, ExecuteTool(k, c) PROVE OnlySent'
  BY <1>17 DEF ExecuteTool
<1>18. ASSUME NEW k \in Conns, Connect(k) PROVE OnlySent'
  BY <1>18 DEF Connect
<1>19. ASSUME NEW k \in Conns, BindEndpoint(k) PROVE OnlySent'
  BY <1>19 DEF BindEndpoint
<1>20. ASSUME NEW k \in Conns, LinkDown(k) PROVE OnlySent'
  BY <1>20 DEF LinkDown, StopTasks
<1>21. ASSUME NEW k \in Conns, CloseConnection(k) PROVE OnlySent'
  BY <1>21 DEF CloseConnection, StopTasks, Frame
<1>22. ASSUME NEW k \in Conns, ReadLoopEnds(k) PROVE OnlySent'
  BY <1>22 DEF ReadLoopEnds
<1>23. ASSUME CoreRestart PROVE OnlySent'
  BY <1>23 DEF CoreRestart, StopTasks
<1>24. CASE UNCHANGED vars
  BY <1>24 DEF vars
<1> QED
  BY StepCases, <1>1, <1>2, <1>3, <1>4, <1>5, <1>6, <1>7, <1>8, <1>9, <1>10, <1>11,
     <1>12, <1>13, <1>14, <1>15, <1>16, <1>17, <1>18, <1>19, <1>20, <1>21, <1>22,
     <1>23, <1>24

(* No action reports a success that no run stands behind. *)
LEMMA TraceStep ==
  ASSUME TypeOK, OnlySent, Trace, [Next]_vars
  PROVE  Trace'
<1> USE DEF TypeOK, Trace, PreRun, Frames, coreVars, wireVars, providerVars, scores
<1>1. ASSUME NEW c \in Calls, RejectCall(c) PROVE Trace'
  BY <1>1 DEF RejectCall
<1>2. ASSUME NEW c \in Calls, NoTransport(c) PROVE Trace'
  BY <1>2 DEF NoTransport, ScoreFailure
<1>3. ASSUME NEW c \in Calls, DispatchTarget(c) PROVE Trace'
  BY <1>3 DEF DispatchTarget
<1>4. ASSUME NEW c \in Calls, CancelCaller(c) PROVE Trace'
  BY <1>4 DEF CancelCaller
<1>5. ASSUME NEW c \in Calls, NEW k \in Conns, SendFrame(c, k) PROVE Trace'
  BY <1>5 DEF SendFrame
<1>6. ASSUME NEW c \in Calls, NEW k \in Conns, SendFails(c, k) PROVE Trace'
  BY <1>6 DEF SendFails
<1>7. ASSUME NEW c \in Calls, NotDispatched(c) PROVE Trace'
  BY <1>7 DEF NotDispatched, ScoreFailure
<1>8. ASSUME NEW c \in Calls, Dispatched(c) PROVE Trace'
  BY <1>8 DEF Dispatched
<1>9. ASSUME NEW c \in Calls, Resume(c) PROVE Trace'
  BY <1>9 DEF Resume
<1>10. ASSUME NEW c \in Calls, CallTimeout(c) PROVE Trace'
  BY <1>10 DEF CallTimeout, TimeoutWith, ScoreFailure
<1>11. ASSUME NEW f \in frames, HandleProgress(f) PROVE Trace'
  BY <1>11 DEF HandleProgress, Consume
<1>12. ASSUME NEW f \in frames, NotifyCallResult(f) PROVE Trace'
  BY <1>12 DEF NotifyCallResult, Consume, CompleteFuture, ScoreSuccess
<1>13. ASSUME NEW f \in frames, NotifyCallError(f) PROVE Trace'
  BY <1>13 DEF NotifyCallError, Consume, CompleteFuture, ScoreFailure
<1>14. ASSUME NEW f \in frames, NotifyCallCancelled(f) PROVE Trace'
  BY <1>14 DEF NotifyCallCancelled, Consume, CompleteFuture, ScoreFailure
<1>15. ASSUME NEW k \in Conns, NEW c \in Calls, ReceiveRequest(k, c) PROVE Trace'
  BY <1>15 DEF ReceiveRequest, OnlySent
<1>16. ASSUME NEW k \in Conns, NEW c \in Calls, Reports(k, c) PROVE Trace'
  <2>1. ASSUME NEW from \in Tasks \ {"none"}, NEW to \in Tasks \ {"none"}, NEW type \in FrameTypes,
                from \in {"started", "accepted", "queued", "running"},
                from = "running" => to = "done",
                to # "running",
                type = "result" => from = "running",
                Report(k, c, from, to, type)
         PROVE  Trace'
    BY <2>1 DEF Report, Frame, Tasks
  <2> QED
    BY <1>16, <2>1 DEF Reports, Tasks, FrameTypes, Terminal
<1>17. ASSUME NEW k \in Conns, NEW c \in Calls, ExecuteTool(k, c) PROVE Trace'
  BY <1>17 DEF ExecuteTool
<1>18. ASSUME NEW k \in Conns, Connect(k) PROVE Trace'
  BY <1>18 DEF Connect
<1>19. ASSUME NEW k \in Conns, BindEndpoint(k) PROVE Trace'
  BY <1>19 DEF BindEndpoint
<1>20. ASSUME NEW k \in Conns, LinkDown(k) PROVE Trace'
  BY <1>20 DEF LinkDown, StopTasks
<1>21. ASSUME NEW k \in Conns, CloseConnection(k) PROVE Trace'
  BY <1>21 DEF CloseConnection, StopTasks, Frame
<1>22. ASSUME NEW k \in Conns, ReadLoopEnds(k) PROVE Trace'
  BY <1>22 DEF ReadLoopEnds
<1>23. ASSUME CoreRestart PROVE Trace'
  BY <1>23 DEF CoreRestart, StopTasks
<1>24. CASE UNCHANGED vars
  BY <1>24 DEF vars
<1> QED
  BY StepCases, <1>1, <1>2, <1>3, <1>4, <1>5, <1>6, <1>7, <1>8, <1>9, <1>10, <1>11,
     <1>12, <1>13, <1>14, <1>15, <1>16, <1>17, <1>18, <1>19, <1>20, <1>21, <1>22,
     <1>23, <1>24

(* With one provider process, at most one connection can run a call: a new  *)
(* connection is not in any snapshot, and an old one is down by then.        *)
LEMMA UniqueStep ==
  ASSUME SingleProvider, TypeOK, Bookkeeping, Unique, [Next]_vars
  PROVE  Unique'
<1> USE DEF TypeOK, Bookkeeping, Sockets, OnlySent, Trace, PreRun, Unique, Touched,
           coreVars, wireVars, providerVars, scores
<1>1. ASSUME NEW c \in Calls, RejectCall(c) PROVE Unique'
  BY <1>1 DEF RejectCall
<1>2. ASSUME NEW c \in Calls, NoTransport(c) PROVE Unique'
  BY <1>2 DEF NoTransport, ScoreFailure
<1>3. ASSUME NEW c \in Calls, DispatchTarget(c) PROVE Unique'
  BY <1>3 DEF DispatchTarget
<1>4. ASSUME NEW c \in Calls, CancelCaller(c) PROVE Unique'
  BY <1>4 DEF CancelCaller
<1>5. ASSUME NEW c \in Calls, NEW k \in Conns, SendFrame(c, k) PROVE Unique'
  BY <1>5 DEF SendFrame
<1>6. ASSUME NEW c \in Calls, NEW k \in Conns, SendFails(c, k) PROVE Unique'
  BY <1>6 DEF SendFails
<1>7. ASSUME NEW c \in Calls, NotDispatched(c) PROVE Unique'
  BY <1>7 DEF NotDispatched, ScoreFailure
<1>8. ASSUME NEW c \in Calls, Dispatched(c) PROVE Unique'
  BY <1>8 DEF Dispatched
<1>9. ASSUME NEW c \in Calls, Resume(c) PROVE Unique'
  BY <1>9 DEF Resume
<1>10. ASSUME NEW c \in Calls, CallTimeout(c) PROVE Unique'
  BY <1>10 DEF CallTimeout, TimeoutWith, ScoreFailure
<1>11. ASSUME NEW f \in frames, HandleProgress(f) PROVE Unique'
  BY <1>11 DEF HandleProgress, Consume
<1>12. ASSUME NEW f \in frames, NotifyCallResult(f) PROVE Unique'
  BY <1>12 DEF NotifyCallResult, Consume, CompleteFuture, ScoreSuccess
<1>13. ASSUME NEW f \in frames, NotifyCallError(f) PROVE Unique'
  BY <1>13 DEF NotifyCallError, Consume, CompleteFuture, ScoreFailure
<1>14. ASSUME NEW f \in frames, NotifyCallCancelled(f) PROVE Unique'
  BY <1>14 DEF NotifyCallCancelled, Consume, CompleteFuture, ScoreFailure
<1>15. ASSUME NEW k \in Conns, NEW c \in Calls, ReceiveRequest(k, c) PROVE Unique'
  BY <1>15 DEF ReceiveRequest
<1>16. ASSUME NEW k \in Conns, NEW c \in Calls, Reports(k, c) PROVE Unique'
  <2>1. ASSUME NEW from \in Tasks \ {"none"}, NEW to \in Tasks \ {"none"}, NEW type \in FrameTypes,
                Report(k, c, from, to, type)
         PROVE  Unique'
    BY <2>1 DEF Report, Frame, Tasks
  <2> QED
    BY <1>16, <2>1 DEF Reports, Tasks, FrameTypes, Terminal
<1>17. ASSUME NEW k \in Conns, NEW c \in Calls, ExecuteTool(k, c) PROVE Unique'
  <2>1. runs[c] = 0
    <3>1. SUFFICES ASSUME runs[c] > 0 PROVE FALSE
      BY SMT
    <3>2. PICK j \in Conns : task[j][c] \notin PreRun
      BY <3>1
    <3>3. j = k /\ task[k][c] \in PreRun
      BY ZenonT(30), <1>17, <3>2 DEF ExecuteTool
    <3> QED
      BY <3>2, <3>3
  <2> QED
    BY <1>17, <2>1 DEF ExecuteTool
<1>18. ASSUME NEW k \in Conns, Connect(k) PROVE Unique'
  BY <1>18 DEF Connect
<1>19. ASSUME NEW k \in Conns, BindEndpoint(k) PROVE Unique'
  BY <1>19 DEF BindEndpoint
<1>20. ASSUME NEW k \in Conns, LinkDown(k) PROVE Unique'
  BY <1>20 DEF LinkDown, StopTasks
<1>21. ASSUME NEW k \in Conns, CloseConnection(k) PROVE Unique'
  BY <1>21 DEF CloseConnection, StopTasks, Frame
<1>22. ASSUME NEW k \in Conns, ReadLoopEnds(k) PROVE Unique'
  BY <1>22 DEF ReadLoopEnds
<1>23. ASSUME CoreRestart PROVE Unique'
  BY <1>23 DEF CoreRestart, StopTasks
<1>24. CASE UNCHANGED vars
  BY <1>24 DEF vars
<1> QED
  BY StepCases, <1>1, <1>2, <1>3, <1>4, <1>5, <1>6, <1>7, <1>8, <1>9, <1>10, <1>11,
     <1>12, <1>13, <1>14, <1>15, <1>16, <1>17, <1>18, <1>19, <1>20, <1>21, <1>22,
     <1>23, <1>24

(* A future goes when its call ends, a cancelled one excepted. *)
LEMMA FutureStep ==
  ASSUME TypeOK, OnlySent, NoLeakedFuture, [Next]_vars
  PROVE  NoLeakedFuture'
<1> USE DEF TypeOK, OnlySent, NoLeakedFuture, coreVars, wireVars, providerVars, scores
<1>1. ASSUME NEW c \in Calls, RejectCall(c) PROVE NoLeakedFuture'
  BY <1>1 DEF RejectCall
<1>2. ASSUME NEW c \in Calls, NoTransport(c) PROVE NoLeakedFuture'
  BY <1>2 DEF NoTransport, ScoreFailure
<1>3. ASSUME NEW c \in Calls, DispatchTarget(c) PROVE NoLeakedFuture'
  BY <1>3 DEF DispatchTarget
<1>4. ASSUME NEW c \in Calls, CancelCaller(c) PROVE NoLeakedFuture'
  BY <1>4 DEF CancelCaller
<1>5. ASSUME NEW c \in Calls, NEW k \in Conns, SendFrame(c, k) PROVE NoLeakedFuture'
  BY <1>5 DEF SendFrame
<1>6. ASSUME NEW c \in Calls, NEW k \in Conns, SendFails(c, k) PROVE NoLeakedFuture'
  BY <1>6 DEF SendFails
<1>7. ASSUME NEW c \in Calls, NotDispatched(c) PROVE NoLeakedFuture'
  BY <1>7 DEF NotDispatched, ScoreFailure
<1>8. ASSUME NEW c \in Calls, Dispatched(c) PROVE NoLeakedFuture'
  BY <1>8 DEF Dispatched
<1>9. ASSUME NEW c \in Calls, Resume(c) PROVE NoLeakedFuture'
  BY <1>9 DEF Resume
<1>10. ASSUME NEW c \in Calls, CallTimeout(c) PROVE NoLeakedFuture'
  BY <1>10 DEF CallTimeout, TimeoutWith, ScoreFailure
<1>11. ASSUME NEW f \in frames, HandleProgress(f) PROVE NoLeakedFuture'
  BY <1>11 DEF HandleProgress, Consume
<1>12. ASSUME NEW f \in frames, NotifyCallResult(f) PROVE NoLeakedFuture'
  BY <1>12 DEF NotifyCallResult, Consume, CompleteFuture, ScoreSuccess
<1>13. ASSUME NEW f \in frames, NotifyCallError(f) PROVE NoLeakedFuture'
  BY <1>13 DEF NotifyCallError, Consume, CompleteFuture, ScoreFailure
<1>14. ASSUME NEW f \in frames, NotifyCallCancelled(f) PROVE NoLeakedFuture'
  BY <1>14 DEF NotifyCallCancelled, Consume, CompleteFuture, ScoreFailure
<1>15. ASSUME NEW k \in Conns, NEW c \in Calls, ReceiveRequest(k, c) PROVE NoLeakedFuture'
  BY <1>15 DEF ReceiveRequest
<1>16. ASSUME NEW k \in Conns, NEW c \in Calls, Reports(k, c) PROVE NoLeakedFuture'
  BY <1>16 DEF Reports, Report
<1>17. ASSUME NEW k \in Conns, NEW c \in Calls, ExecuteTool(k, c) PROVE NoLeakedFuture'
  BY <1>17 DEF ExecuteTool
<1>18. ASSUME NEW k \in Conns, Connect(k) PROVE NoLeakedFuture'
  BY <1>18 DEF Connect
<1>19. ASSUME NEW k \in Conns, BindEndpoint(k) PROVE NoLeakedFuture'
  BY <1>19 DEF BindEndpoint
<1>20. ASSUME NEW k \in Conns, LinkDown(k) PROVE NoLeakedFuture'
  BY <1>20 DEF LinkDown, StopTasks
<1>21. ASSUME NEW k \in Conns, CloseConnection(k) PROVE NoLeakedFuture'
  BY <1>21 DEF CloseConnection, StopTasks, Frame
<1>22. ASSUME NEW k \in Conns, ReadLoopEnds(k) PROVE NoLeakedFuture'
  BY <1>22 DEF ReadLoopEnds
<1>23. ASSUME CoreRestart PROVE NoLeakedFuture'
  BY <1>23 DEF CoreRestart, StopTasks
<1>24. CASE UNCHANGED vars
  BY <1>24 DEF vars
<1> QED
  BY StepCases, <1>1, <1>2, <1>3, <1>4, <1>5, <1>6, <1>7, <1>8, <1>9, <1>10, <1>11,
     <1>12, <1>13, <1>14, <1>15, <1>16, <1>17, <1>18, <1>19, <1>20, <1>21, <1>22,
     <1>23, <1>24


(* Whoever completes a future or ends a call records the score. *)
LEMMA HeardStep ==
  ASSUME TypeOK, Heard, [Next]_vars
  PROVE  Heard'
<1> USE DEF TypeOK, Heard, Frames, coreVars, wireVars, providerVars, scores
<1>1. ASSUME NEW c \in Calls, RejectCall(c) PROVE Heard'
  BY <1>1 DEF RejectCall
<1>2. ASSUME NEW c \in Calls, NoTransport(c) PROVE Heard'
  BY <1>2 DEF NoTransport, ScoreFailure
<1>3. ASSUME NEW c \in Calls, DispatchTarget(c) PROVE Heard'
  BY <1>3 DEF DispatchTarget
<1>4. ASSUME NEW c \in Calls, CancelCaller(c) PROVE Heard'
  BY <1>4 DEF CancelCaller
<1>5. ASSUME NEW c \in Calls, NEW k \in Conns, SendFrame(c, k) PROVE Heard'
  BY <1>5 DEF SendFrame
<1>6. ASSUME NEW c \in Calls, NEW k \in Conns, SendFails(c, k) PROVE Heard'
  BY <1>6 DEF SendFails
<1>7. ASSUME NEW c \in Calls, NotDispatched(c) PROVE Heard'
  BY <1>7 DEF NotDispatched, ScoreFailure
<1>8. ASSUME NEW c \in Calls, Dispatched(c) PROVE Heard'
  BY <1>8 DEF Dispatched
<1>9. ASSUME NEW c \in Calls, Resume(c) PROVE Heard'
  BY <1>9 DEF Resume
<1>10. ASSUME NEW c \in Calls, CallTimeout(c) PROVE Heard'
  BY <1>10 DEF CallTimeout, TimeoutWith, ScoreFailure
<1>11. ASSUME NEW f \in frames, HandleProgress(f) PROVE Heard'
  BY <1>11 DEF HandleProgress, Consume
<1>12. ASSUME NEW f \in frames, NotifyCallResult(f) PROVE Heard'
  BY <1>12 DEF NotifyCallResult, Consume, CompleteFuture, ScoreSuccess
<1>13. ASSUME NEW f \in frames, NotifyCallError(f) PROVE Heard'
  BY <1>13 DEF NotifyCallError, Consume, CompleteFuture, ScoreFailure
<1>14. ASSUME NEW f \in frames, NotifyCallCancelled(f) PROVE Heard'
  BY <1>14 DEF NotifyCallCancelled, Consume, CompleteFuture, ScoreFailure
<1>15. ASSUME NEW k \in Conns, NEW c \in Calls, ReceiveRequest(k, c) PROVE Heard'
  BY <1>15 DEF ReceiveRequest
<1>16. ASSUME NEW k \in Conns, NEW c \in Calls, Reports(k, c) PROVE Heard'
  BY <1>16 DEF Reports, Report
<1>17. ASSUME NEW k \in Conns, NEW c \in Calls, ExecuteTool(k, c) PROVE Heard'
  BY <1>17 DEF ExecuteTool
<1>18. ASSUME NEW k \in Conns, Connect(k) PROVE Heard'
  BY <1>18 DEF Connect
<1>19. ASSUME NEW k \in Conns, BindEndpoint(k) PROVE Heard'
  BY <1>19 DEF BindEndpoint
<1>20. ASSUME NEW k \in Conns, LinkDown(k) PROVE Heard'
  BY <1>20 DEF LinkDown, StopTasks
<1>21. ASSUME NEW k \in Conns, CloseConnection(k) PROVE Heard'
  BY <1>21 DEF CloseConnection, StopTasks, Frame
<1>22. ASSUME NEW k \in Conns, ReadLoopEnds(k) PROVE Heard'
  BY <1>22 DEF ReadLoopEnds
<1>23. ASSUME CoreRestart PROVE Heard'
  BY <1>23 DEF CoreRestart, StopTasks
<1>24. CASE UNCHANGED vars
  BY <1>24 DEF vars
<1> QED
  BY StepCases, <1>1, <1>2, <1>3, <1>4, <1>5, <1>6, <1>7, <1>8, <1>9, <1>10, <1>11,
     <1>12, <1>13, <1>14, <1>15, <1>16, <1>17, <1>18, <1>19, <1>20, <1>21, <1>22,
     <1>23, <1>24


(* The router scores the answers it gives itself. *)
LEMMA RouterScores ==
  ASSUME TypeOK, Heard, NEW c \in Calls
  PROVE  /\ successes[c] + failures[c] \in Nat
         /\ ByRouter(c) \in {0, 1}
         /\ successes[c] + failures[c] >= ByRouter(c)
<1>1. successes[c] \in Nat /\ failures[c] \in Nat
  BY DEF TypeOK
<1>2. ByRouter(c) = 1 => successes[c] + failures[c] > 0
  BY DEF Heard, ByRouter
<1>3. ByRouter(c) \in {0, 1}
  BY DEF ByRouter
<1> QED
  BY <1>1, <1>2, <1>3

(* With one provider process one task of a call ends, and sends one         *)
(* terminal frame: the endpoint is scored once, and after the router.       *)
LEMMA EndingStep ==
  ASSUME SingleProvider, TypeOK, Bookkeeping, Unique, Heard, OneEnding, [Next]_vars
  PROVE  OneEnding'
<1> USE DEF TypeOK, OneEnding, OnlySent, Frames, ByRouter, Terminal, Bookkeeping, Unique, Touched, coreVars, wireVars, providerVars, scores
<1>1. ASSUME NEW c \in Calls, RejectCall(c) PROVE OneEnding'
  BY SMTT(30), <1>1 DEF RejectCall
<1>2. ASSUME NEW c \in Calls, NoTransport(c) PROVE OneEnding'
  BY <1>2 DEF NoTransport, ScoreFailure
<1>3. ASSUME NEW c \in Calls, DispatchTarget(c) PROVE OneEnding'
  BY <1>3 DEF DispatchTarget
<1>4. ASSUME NEW c \in Calls, CancelCaller(c) PROVE OneEnding'
  BY <1>4 DEF CancelCaller
<1>5. ASSUME NEW c \in Calls, NEW k \in Conns, SendFrame(c, k) PROVE OneEnding'
  BY <1>5 DEF SendFrame
<1>6. ASSUME NEW c \in Calls, NEW k \in Conns, SendFails(c, k) PROVE OneEnding'
  BY <1>6 DEF SendFails
<1>7. ASSUME NEW c \in Calls, NotDispatched(c) PROVE OneEnding'
  BY <1>7 DEF NotDispatched, ScoreFailure
<1>8. ASSUME NEW c \in Calls, Dispatched(c) PROVE OneEnding'
  BY <1>8 DEF Dispatched
<1>9. ASSUME NEW c \in Calls, Resume(c) PROVE OneEnding'
  BY <1>9 DEF Resume
<1>10. ASSUME NEW c \in Calls, CallTimeout(c) PROVE OneEnding'
  BY <1>10 DEF CallTimeout, TimeoutWith, ScoreFailure
<1>11. ASSUME NEW f \in frames, HandleProgress(f) PROVE OneEnding'
  BY <1>11 DEF HandleProgress, Consume
<1>12. ASSUME NEW f \in frames, NotifyCallResult(f) PROVE OneEnding'
  BY <1>12 DEF NotifyCallResult, Consume, CompleteFuture, ScoreSuccess
<1>13. ASSUME NEW f \in frames, NotifyCallError(f) PROVE OneEnding'
  BY <1>13 DEF NotifyCallError, Consume, CompleteFuture, ScoreFailure
<1>14. ASSUME NEW f \in frames, NotifyCallCancelled(f) PROVE OneEnding'
  BY <1>14 DEF NotifyCallCancelled, Consume, CompleteFuture, ScoreFailure
<1>15. ASSUME NEW k \in Conns, NEW c \in Calls, ReceiveRequest(k, c) PROVE OneEnding'
  BY <1>15 DEF ReceiveRequest
<1>16. ASSUME NEW k \in Conns, NEW c \in Calls, Reports(k, c) PROVE OneEnding'
  <2>1. ASSUME NEW from \in {"started", "accepted", "queued", "running"}, NEW to \in Tasks,
               NEW type \in FrameTypes, Report(k, c, from, to, type), type \in Terminal => to = "done"
        PROVE  OneEnding'
    <3>1. /\ task[k][c] = from
          /\ frames' = frames \cup {Frame(k, c, type)}
          /\ task' = [task EXCEPT ![k][c] = to]
          /\ UNCHANGED <<answer, successes, failures>>
      BY <2>1 DEF Report
    <3>2. \A j \in Conns : task[j][c] \notin {"done", "gone"}
      BY <3>1
    <3>3. /\ \A g \in frames : g.call = c => g.type \notin Terminal
          /\ successes[c] + failures[c] <= ByRouter(c)
      BY <3>2
    <3>4. successes[c] + failures[c] >= ByRouter(c)
      BY RouterScores
    <3>5. Frame(k, c, type).conn = k /\ Frame(k, c, type).call = c /\ Frame(k, c, type).type = type
      BY DEF Frame
    <3> QED
      BY <3>1, <3>3, <3>4, <3>5, <2>1
  <2> QED
    <3> HIDE DEF OneEnding, Terminal
    <3> QED
      BY SMTT(30), <1>16, <2>1, ReportCases
<1>17. ASSUME NEW k \in Conns, NEW c \in Calls, ExecuteTool(k, c) PROVE OneEnding'
  BY <1>17 DEF ExecuteTool
<1>18. ASSUME NEW k \in Conns, Connect(k) PROVE OneEnding'
  BY <1>18 DEF Connect
<1>19. ASSUME NEW k \in Conns, BindEndpoint(k) PROVE OneEnding'
  BY <1>19 DEF BindEndpoint
<1>20. ASSUME NEW k \in Conns, LinkDown(k) PROVE OneEnding'
  BY <1>20 DEF LinkDown, StopTasks
<1>21. ASSUME NEW k \in Conns, CloseConnection(k) PROVE OneEnding'
  <2> DEFINE cut == {d \in Calls : task[k][d] \in {"queued", "running"}}
  <2>1. /\ frames' = frames \cup {Frame(k, d, "error") : d \in cut}
        /\ UNCHANGED <<answer, successes, failures>>
        /\ \A j \in Conns, d \in Calls : task'[j][d] =
             IF j = k /\ task[j][d] \notin {"none", "done"} THEN "gone" ELSE task[j][d]
    BY <1>21 DEF CloseConnection, StopTasks
  <2>2. ASSUME NEW d \in cut
        PROVE  /\ \A g \in frames : g.call = d => g.type \notin Terminal
               /\ successes[d] + failures[d] = ByRouter(d)
    <3>1. \A j \in Conns : task[j][d] \notin {"done", "gone"}
      OBVIOUS
    <3>2. /\ \A g \in frames : g.call = d => g.type \notin Terminal
          /\ successes[d] + failures[d] <= ByRouter(d)
      BY <3>1
    <3>3. /\ successes[d] + failures[d] \in Nat
          /\ ByRouter(d) \in {0, 1}
          /\ successes[d] + failures[d] >= ByRouter(d)
      BY RouterScores
    <3> QED
      BY ONLY <3>2, <3>3
  <2>3. ASSUME NEW f \in frames', NEW d \in Calls, f.call = d, f.type \in Terminal, d \notin cut
        PROVE  f \in frames
    BY <2>1, <2>3 DEF Frame
  <2>4. ASSUME NEW f \in frames', NEW d \in cut, f.call = d, f.type \in Terminal
        PROVE  f = Frame(k, d, "error") /\ f.conn = k
    BY <2>1, <2>2, <2>4 DEF Frame
  <2> HIDE DEF cut
  <2> SUFFICES ASSUME NEW d \in Calls
               PROVE  /\ \A f, g \in frames' : f.call = d /\ g.call = d /\ f.type \in Terminal
                           /\ g.type \in Terminal => f = g
                      /\ \A f \in frames' : f.call = d /\ f.type \in Terminal =>
                           /\ task'[f.conn][d] \in {"done", "gone"}
                           /\ successes[d] + failures[d] = ByRouter(d)
                      /\ successes[d] + failures[d] <= ByRouter(d) + 1
                      /\ successes[d] + failures[d] > ByRouter(d) =>
                           \E j \in Conns : task'[j][d] \in {"done", "gone"}
    BY <2>1
  <2>5. CASE d \in cut
    <3>1. \A f \in frames' : f.call = d /\ f.type \in Terminal => f = Frame(k, d, "error") /\ f.conn = k
      BY <2>4, <2>5
    <3>2. task'[k][d] = "gone"
      BY <2>1, <2>5 DEF cut
    <3>3. successes[d] + failures[d] = ByRouter(d) /\ ByRouter(d) \in {0, 1}
      BY <2>2, <2>5, RouterScores
    <3> QED
      BY ONLY <3>1, <3>2, <3>3
  <2>6. CASE d \notin cut
    <3>1. \A f \in frames' : f.call = d /\ f.type \in Terminal => f \in frames /\ f.conn \in Conns
      BY SMTT(30), <2>3, <2>6
    <3>2. \A j \in Conns : task[j][d] \in {"done", "gone"} => task'[j][d] \in {"done", "gone"}
      BY <2>1
    <3>3. /\ \A f, g \in frames :
               f.call = d /\ g.call = d /\ f.type \in Terminal /\ g.type \in Terminal => f = g
          /\ \A f \in frames : f.call = d /\ f.type \in Terminal =>
               task[f.conn][d] \in {"done", "gone"} /\ successes[d] + failures[d] = ByRouter(d)
          /\ successes[d] + failures[d] <= ByRouter(d) + 1
          /\ successes[d] + failures[d] > ByRouter(d) =>
               \E j \in Conns : task[j][d] \in {"done", "gone"}
      OBVIOUS
    <3> QED
      BY ONLY <3>1, <3>2, <3>3
  <2> QED
    BY <2>5, <2>6
<1>22. ASSUME NEW k \in Conns, ReadLoopEnds(k) PROVE OneEnding'
  BY <1>22 DEF ReadLoopEnds
<1>23. ASSUME CoreRestart PROVE OneEnding'
  BY <1>23 DEF CoreRestart, StopTasks
<1>24. CASE UNCHANGED vars
  BY <1>24 DEF vars
<1> QED
  BY StepCases, <1>1, <1>2, <1>3, <1>4, <1>5, <1>6, <1>7, <1>8, <1>9, <1>10, <1>11,
     <1>12, <1>13, <1>14, <1>15, <1>16, <1>17, <1>18, <1>19, <1>20, <1>21, <1>22,
     <1>23, <1>24


(* The inductive invariant: it holds at the start and no step breaks it. *)
THEOREM InductiveInvariant == Spec => []IInv
<1>1. Init => IInv
  BY DEF Init, IInv, TypeOK, Bookkeeping, Sockets, OnlySent, Trace, Unique, Touched, PreRun,
         NotStarted, Phases, Futures, Answers, Statuses, Tasks, Frames
<1>2. IInv /\ [Next]_vars => IInv'
  BY TypeStep, SocketsStep, OnlySentStep, TraceStep, UniqueStep DEF IInv, Bookkeeping
<1> QED
  BY <1>1, <1>2, PTL DEF Spec

(* Every variable of the router, the gateway and the provider stays in its  *)
(* type.                                                                    *)
THEOREM TypeCorrect == Spec => []TypeOK
<1>1. IInv => TypeOK
  BY DEF IInv
<1> QED
  BY <1>1, InductiveInvariant, PTL

(* A result, a succeeded row and a routing success all follow a run of the  *)
(* tool (notify_call_result and the answer of _dispatch_target).            *)
THEOREM SuccessFollowsRun == Spec => []SuccessIsReal
<1>1. IInv => SuccessIsReal
  BY DEF IInv, Bookkeeping, Trace, SuccessIsReal
<1> QED
  BY <1>1, InductiveInvariant, PTL

(* The early exits of _dispatch_target are safe to retry: no provider has   *)
(* run the tool, or can come to.                                            *)
THEOREM RetryAfterRefusal == Spec => []RetryIsSafe
<1>1. IInv => RetryIsSafe
  <2> SUFFICES ASSUME IInv, NEW c \in Calls, answer[c] \in NotStarted
               PROVE  runs[c] = 0 /\ \A k \in Conns : task[k][c] = "none" /\ <<c, k>> \notin requests
    BY DEF RetryIsSafe
  <2>1. \A k \in Conns : task[k][c] = "none" /\ <<c, k>> \notin requests
    BY DEF IInv, Bookkeeping, OnlySent
  <2>2. runs[c] \in Nat /\ ~(runs[c] > 0)
    BY <2>1 DEF IInv, Bookkeeping, Trace, PreRun, TypeOK
  <2> QED
    BY <2>1, <2>2
<1> QED
  BY <1>1, InductiveInvariant, PTL

(* With one provider process a call runs at most once, for any number of    *)
(* calls, sockets and reconnections.                                        *)
THEOREM RunsAtMostOnce == Spec => []AtMostOnce
<1>1. IInv => AtMostOnce
  BY DEF IInv, Unique, AtMostOnce
<1> QED
  BY <1>1, InductiveInvariant, PTL

(* Every end of _dispatch_target pops the future of its call, a cancellation *)
(* in the transport await excepted: this needs no assumption on providers.  *)
THEOREM FuturesAreCleared == Spec => []NoLeakedFuture
<1>1. Init => NoLeakedFuture
  BY DEF Init, NoLeakedFuture
<1>2. IInv /\ NoLeakedFuture /\ [Next]_vars => NoLeakedFuture'
  BY FutureStep DEF IInv, Bookkeeping
<1> QED
  BY <1>1, <1>2, InductiveInvariant, PTL DEF Spec

(* record_routing_success and record_routing_failure hear of every answer   *)
(* that the endpoint or the clock gave, and with one provider process of a  *)
(* call at most twice, whatever was late or lost.                           *)
THEOREM AnswersAreScored == Spec => []EveryAnswerScored
<1>1. Init => Heard /\ OneEnding
  BY DEF Init, Heard, OneEnding, ByRouter
<1>2. IInv /\ Heard /\ [Next]_vars => Heard'
  BY HeardStep DEF IInv
<1>3. IInv /\ Heard /\ (SingleProvider => OneEnding) /\ [Next]_vars
        => (SingleProvider => OneEnding)'
  BY EndingStep DEF IInv
<1>4. IInv /\ Heard /\ (SingleProvider => OneEnding) => EveryAnswerScored
  <2> SUFFICES ASSUME IInv, Heard, SingleProvider => OneEnding, NEW c \in Calls
               PROVE  /\ answer[c] \in {"result", "error", "timeout", "unavailable",
                                        "waiting_for_endpoint"}
                           => successes[c] + failures[c] > 0
                      /\ SingleProvider => successes[c] + failures[c] <= 2
    BY DEF EveryAnswerScored
  <2>1. /\ successes[c] + failures[c] \in Nat
        /\ ByRouter(c) \in {0, 1}
    BY RouterScores DEF IInv
  <2>2. SingleProvider => successes[c] + failures[c] <= ByRouter(c) + 1
    BY DEF OneEnding
  <2> QED
    BY <2>1, <2>2 DEF Heard
<1> QED
  BY <1>1, <1>2, <1>3, <1>4, InductiveInvariant, PTL DEF Spec

(* A call no socket has taken the frame of has not run. *)
LEMMA NotSentNotRun ==
  ASSUME IInv, NEW c \in Calls, pc[c] # "done", sent[c] = FALSE
  PROVE  runs[c] = 0 /\ answer[c] = "none"
<1>1. \A k \in Conns : task[k][c] = "none"
  BY DEF IInv, Bookkeeping, OnlySent
<1>2. runs[c] \in Nat /\ ~(runs[c] > 0)
  BY <1>1 DEF IInv, TypeOK, Bookkeeping, Trace, PreRun
<1>3. answer[c] = "none"
  BY DEF IInv, TypeOK, Phases, Bookkeeping, OnlySent
<1> QED
  BY <1>2, <1>3

(* A step of ToolCall is a step of the contract or leaves it alone. *)
LEMMA ContractStep ==
  ASSUME SingleProvider, IInv, [Next]_vars
  PROVE  [Contract!Next]_Contract!vars
<1> USE DEF Contract!vars
<1>1. ASSUME NEW c \in Calls, RejectCall(c) PROVE [Contract!Next]_Contract!vars
  <2>1. runs[c] = 0 /\ answer[c] = "none"
    BY <1>1, NotSentNotRun DEF RejectCall, IInv, Bookkeeping, OnlySent
  <2>2. Contract!Close(c, "rejected")
    BY <1>1, <2>1 DEF RejectCall, Contract!Close, coreVars, wireVars, providerVars, scores
  <2> QED
    BY <2>2 DEF Contract!Next, Answers
<1>2. ASSUME NEW c \in Calls, NoTransport(c) PROVE [Contract!Next]_Contract!vars
  <2>1. runs[c] = 0 /\ answer[c] = "none"
    BY <1>2, NotSentNotRun DEF NoTransport, ScoreFailure, IInv, Bookkeeping, OnlySent
  <2>2. Contract!Close(c, "unavailable")
    BY <1>2, <2>1 DEF NoTransport, ScoreFailure, Contract!Close, coreVars, wireVars,
       providerVars, scores
  <2> QED
    BY <2>2 DEF Contract!Next, Answers
<1>3. ASSUME NEW c \in Calls, DispatchTarget(c) PROVE [Contract!Next]_Contract!vars
  BY <1>3 DEF DispatchTarget, coreVars, providerVars
<1>4. ASSUME NEW c \in Calls, CancelCaller(c) PROVE [Contract!Next]_Contract!vars
  <2>1. answer[c] = "none"
    BY <1>4 DEF CancelCaller, IInv, Bookkeeping, OnlySent
  <2>2. Contract!Close(c, "cancelled")
    BY <1>4, <2>1 DEF CancelCaller, Contract!Close, NotStarted, providerVars
  <2> QED
    BY <2>2 DEF Contract!Next, Answers
<1>5. ASSUME NEW c \in Calls, NEW k \in Conns, SendFrame(c, k) PROVE [Contract!Next]_Contract!vars
  BY <1>5 DEF SendFrame, coreVars, providerVars
<1>6. ASSUME NEW c \in Calls, NEW k \in Conns, SendFails(c, k) PROVE [Contract!Next]_Contract!vars
  BY <1>6 DEF SendFails, coreVars, providerVars
<1>7. ASSUME NEW c \in Calls, NotDispatched(c) PROVE [Contract!Next]_Contract!vars
  <2>1. runs[c] = 0 /\ answer[c] = "none"
    BY <1>7, NotSentNotRun DEF NotDispatched, IInv, TypeOK
  <2>2. PICK v \in {"unavailable", "waiting_for_endpoint"} : answer' = [answer EXCEPT ![c] = v]
    BY <1>7 DEF NotDispatched
  <2>3. Contract!Close(c, v)
    BY <1>7, <2>1, <2>2 DEF NotDispatched, Contract!Close, providerVars
  <2> QED
    BY <2>3 DEF Contract!Next, Answers
<1>8. ASSUME NEW c \in Calls, Dispatched(c) PROVE [Contract!Next]_Contract!vars
  BY <1>8 DEF Dispatched, coreVars, providerVars
<1>9. ASSUME NEW c \in Calls, Resume(c) PROVE [Contract!Next]_Contract!vars
  <2>1. answer[c] = "none"
    BY <1>9 DEF Resume, IInv, Bookkeeping, OnlySent
  <2>2. pending[c] = "result" => runs[c] = 1
    BY DEF IInv, TypeOK, Bookkeeping, Trace, Unique
  <2>3. Contract!Close(c, pending[c])
    BY <1>9, <2>1, <2>2 DEF Resume, Contract!Close, NotStarted, providerVars
  <2> QED
    BY <1>9, <2>3 DEF Resume, Contract!Next, Answers
<1>10. ASSUME NEW c \in Calls, CallTimeout(c) PROVE [Contract!Next]_Contract!vars
  <2>1. answer[c] = "none"
    BY <1>10 DEF CallTimeout, TimeoutWith, ScoreFailure, IInv, Bookkeeping, OnlySent
  <2>2. Contract!Close(c, "timeout")
    BY <1>10, <2>1 DEF CallTimeout, TimeoutWith, ScoreFailure, Contract!Close,
       NotStarted, providerVars
  <2> QED
    BY <2>2 DEF Contract!Next, Answers
<1>11. ASSUME NEW f \in frames, HandleProgress(f) PROVE [Contract!Next]_Contract!vars
  BY <1>11 DEF HandleProgress, Consume, coreVars, providerVars
<1>12. ASSUME NEW f \in frames, NotifyCallResult(f) PROVE [Contract!Next]_Contract!vars
  BY <1>12 DEF NotifyCallResult, Consume, CompleteFuture, ScoreSuccess, coreVars, providerVars
<1>13. ASSUME NEW f \in frames, NotifyCallError(f) PROVE [Contract!Next]_Contract!vars
  BY <1>13 DEF NotifyCallError, Consume, CompleteFuture, ScoreFailure, coreVars, providerVars
<1>14. ASSUME NEW f \in frames, NotifyCallCancelled(f) PROVE [Contract!Next]_Contract!vars
  BY <1>14 DEF NotifyCallCancelled, Consume, CompleteFuture, ScoreFailure, coreVars, providerVars
<1>15. ASSUME NEW k \in Conns, NEW c \in Calls, ReceiveRequest(k, c) PROVE [Contract!Next]_Contract!vars
  BY <1>15 DEF ReceiveRequest, coreVars, providerVars
<1>16. ASSUME NEW k \in Conns, NEW c \in Calls, Reports(k, c) PROVE [Contract!Next]_Contract!vars
  BY <1>16 DEF Reports, Report, Frame, coreVars, providerVars
<1>17. ASSUME NEW k \in Conns, NEW c \in Calls, ExecuteTool(k, c) PROVE [Contract!Next]_Contract!vars
  <2>1. runs[c] = 0
    <3>1. SUFFICES ASSUME runs[c] > 0 PROVE FALSE
      BY DEF IInv, TypeOK
    <3>2. PICK j \in Conns : task[j][c] \notin PreRun
      BY <3>1 DEF IInv, Bookkeeping, Trace
    <3>3. j = k /\ task[k][c] \in PreRun
      BY <1>17, <3>2 DEF ExecuteTool, IInv, Unique, Touched, PreRun
    <3> QED
      BY <3>2, <3>3
  <2>2. answer[c] \notin NotStarted
    BY <1>17 DEF ExecuteTool, IInv, Bookkeeping, OnlySent
  <2>3. Contract!Run(c)
    BY <1>17, <2>1, <2>2 DEF ExecuteTool, Contract!Run, coreVars, IInv, TypeOK
  <2> QED
    BY <2>3 DEF Contract!Next
<1>18. ASSUME NEW k \in Conns, Connect(k) PROVE [Contract!Next]_Contract!vars
  BY <1>18 DEF Connect, coreVars, providerVars
<1>19. ASSUME NEW k \in Conns, BindEndpoint(k) PROVE [Contract!Next]_Contract!vars
  BY <1>19 DEF BindEndpoint, coreVars, providerVars
<1>20. ASSUME NEW k \in Conns, LinkDown(k) PROVE [Contract!Next]_Contract!vars
  BY <1>20 DEF LinkDown, StopTasks, coreVars, providerVars
<1>21. ASSUME NEW k \in Conns, CloseConnection(k) PROVE [Contract!Next]_Contract!vars
  BY <1>21 DEF CloseConnection, StopTasks, Frame, coreVars, providerVars
<1>22. ASSUME NEW k \in Conns, ReadLoopEnds(k) PROVE [Contract!Next]_Contract!vars
  BY <1>22 DEF ReadLoopEnds, coreVars, providerVars
<1>23. ASSUME CoreRestart PROVE [Contract!Next]_Contract!vars
  <2> DEFINE S == {c \in Calls : pc[c] \in {"sending", "waiting"}}
  <2>1. \A c \in S : answer[c] = "none"
    BY DEF IInv, Bookkeeping, OnlySent
  <2>2. "lost" \in (Answers \ {"none"}) \ ({"result"} \cup NotStarted)
    BY DEF Answers, NotStarted
  <2>3. answer' = [c \in Calls |-> IF c \in S THEN "lost" ELSE answer[c]]
    BY <1>23 DEF CoreRestart
  <2>4. Contract!Lose(S)
    BY <1>23, <2>1, <2>2, <2>3 DEF CoreRestart, Contract!Lose
  <2>5. S \in SUBSET Calls
    OBVIOUS
  <2> QED
    BY <2>4, <2>5 DEF Contract!Next
<1>24. CASE UNCHANGED vars
  BY <1>24 DEF vars, coreVars, providerVars
<1> QED
  BY StepCases, <1>1, <1>2, <1>3, <1>4, <1>5, <1>6, <1>7, <1>8, <1>9, <1>10, <1>11,
     <1>12, <1>13, <1>14, <1>15, <1>16, <1>17, <1>18, <1>19, <1>20, <1>21, <1>22,
     <1>23, <1>24

(* With one provider process the router keeps the promise of EffectContract: *)
(* at most one run, one verdict, a result only after a run, and no run      *)
(* after a refusal.                                                         *)
THEOREM ContractImplemented == ASSUME SingleProvider PROVE Spec => ImplementsContract
<1>1. Init => Contract!Init
  BY DEF Init, Contract!Init
<1>2. IInv /\ [Next]_vars => [Contract!Next]_Contract!vars
  BY ContractStep
<1> QED
  BY <1>1, <1>2, InductiveInvariant, PTL DEF Spec, ImplementsContract, Contract!Spec
=============================================================================
