----------------------------- MODULE MCProgress -----------------------------
(***************************************************************************)
(* What every component promises to do in the end, in one run: part names  *)
(* the component that a behaviour is about, the others stay in their       *)
(* initial state.  The fairness of each component is the one of its        *)
(* FairSpec, restricted to behaviours that are about it.                   *)
(***************************************************************************)
EXTENDS Naturals

VARIABLES part

\* ToolCall
VARIABLES
    pc, pending, answer, row, successes, failures, targets, sent, link, reader,
    socks, requests, task, frames, runs
tool ==
    <<pc, pending, answer, row, successes, failures, targets, sent, link, reader,
      socks, requests, task, frames, runs>>

\* Delivery
VARIABLES
    dvPc, attempt, linked, outbox, count, due, snapshot, sending, taken, inbox,
    okResult, badResult, shown, reported, orphans, crashes
delivery ==
    <<dvPc, attempt, linked, outbox, count, due, snapshot, sending, taken, inbox,
      okResult, badResult, shown, reported, orphans, crashes>>

\* ReplyTurns
VARIABLES
    submitted, queue, worker, phase, cancelled, index, replay, inputs, outcome,
    modelEnded, replayed, chat, checkpoints, activeTurn, rtPending, latestReplay,
    lastFinish, ctl, named, awaited, ctlReplay, regenerated, commands, trims,
    toolRounds
reply ==
    <<submitted, queue, worker, phase, cancelled, index, replay, inputs, outcome,
      modelEnded, replayed, chat, checkpoints, activeTurn, rtPending, latestReplay,
      lastFinish, ctl, named, awaited, ctlReplay, regenerated, commands, trims,
      toolRounds>>

\* Scheduler
VARIABLES
    rows, enabled, trigger, next, scDue, lease, tick, job, at, run, jobRun,
    message, version, claimed, fired, dropped, left, raises, scCrashes
scheduler ==
    <<rows, enabled, trigger, next, scDue, lease, tick, job, at, run, jobRun,
      message, version, claimed, fired, dropped, left, raises, scCrashes>>

\* Interaction
VARIABLES
    iaAt, iaPending, bySession, future, iaOutcome, response, context, approval,
    operation, consent, byHttp
interaction ==
    <<iaAt, iaPending, bySession, future, iaOutcome, response, context, approval,
      operation, consent, byHttp>>

\* ThreadFeed
VARIABLES
    tfPhase, deltas, log, stored, conn, tfReplay, wire, listed,
    buffered, posts, responses, overwritten, tfArchived, drops, fetches
feed ==
    <<tfPhase, deltas, log, stored, conn, tfReplay, wire, listed,
      buffered, posts, responses, overwritten, tfArchived, drops, fetches>>

\* WeChat
VARIABLES
    posted, acked, keys, accepted, told, poll, batch, passed, wxAt, status,
    unacked, file, connected, wxFrames, wxPending, result, finals, outbound,
    wxCount, direct, wxSent, given, faults, wxCrashes
wechat ==
    <<posted, acked, keys, accepted, told, poll, batch, passed, wxAt, status,
      unacked, file, connected, wxFrames, wxPending, result, finals, outbound,
      wxCount, direct, wxSent, given, faults, wxCrashes>>

\* Research
VARIABLES
    rsStatus, report, rsRun, rsMessages, scheduled, rsAt, step, overlapped, rsRuns,
    restarts
research ==
    <<rsStatus, report, rsRun, rsMessages, scheduled, rsAt, step, overlapped, rsRuns,
      restarts>>

\* Routing
VARIABLES
    known, memberRows, scope, archived, managed, roAt, dead, bound, roNamed, cap,
    allowed, cache, roResult, rebound
routing ==
    <<known, memberRows, scope, archived, managed, roAt, dead, bound, roNamed, cap,
      allowed, cache, roResult, rebound>>

\* One call; the provider may lose its connection and come back.
TC == INSTANCE ToolCall WITH
        Calls <- {"c1"}, Conns <- {"k1", "k2"}, SingleProvider <- TRUE

\* Two messages, one of them addressed.
DV == INSTANCE Delivery WITH
        Messages <- {"m1", "m2"}, Addressed <- {"m1"}, Queueable <- {"m1", "m2"},
        Readers <- {"r1"}, MaxAttempts <- 2, MaxCrashes <- 0, pc <- dvPc

\* Two messages and a command.
RT == INSTANCE ReplyTurns WITH
        Messages <- {"m1", "m2"}, MaxCheckpoints <- 1, MaxCommands <- 1,
        MaxTrims <- 0, MaxToolRounds <- 0, pending <- rtPending

\* A one_shot and a recurring job, a run that raises and a crash.
SC == INSTANCE Scheduler WITH
        Jobs <- {"j1", "j2"}, Executors <- {"scheduler"}, OneShots <- {"j1"},
        Heartbeat <- "none", Unroutable <- {}, MaxUpdates <- 0, MaxRaises <- 1,
        MaxCrashes <- 1, due <- scDue, crashes <- scCrashes

\* A confirmation and a question of the same session.
IA == INSTANCE Interaction WITH
        Requests <- {"r1", "r2"}, Session <- [r \in {"r1", "r2"} |-> "s1"],
        Confirms <- {"r1"}, Recorded <- {"s1"}, CliSession <- "s1", none <- "none",
        at <- iaAt, pending <- iaPending, outcome <- iaOutcome

\* One turn; a connection may be lost once.
TF == INSTANCE ThreadFeed WITH
        Turns <- {"t1"}, Users <- {}, MaxDeltas <- 1,
        MaxDrops <- 1, MaxFetches <- 1, MaxVisible <- 1, Retained <- 1,
        phase <- tfPhase, replay <- tfReplay, archived <- tfArchived

\* One chat message; two requests or frames may be lost, and a crash.
WX == INSTANCE WeChat WITH
        Events <- {"e1"}, Notices <- {}, Chat <- [m \in {"e1"} |-> "c1"],
        Ignored <- {}, ReadOnly <- {}, QueueSize <- 1, MaxFaults <- 2,
        MaxKills <- 1, provider <- "provider", nobody <- "nobody",
        handling <- wxAt, frames <- wxFrames, awaited <- wxPending, counts <- wxCount,
        sent <- wxSent, kills <- wxCrashes

\* A background run or one of the tool.
RS == INSTANCE Research WITH
        Workers <- {"w1"}, loop <- "loop", user <- "user", none <- "none",
        MaxRuns <- 1, MaxRestarts <- 0, status <- rsStatus, taskRun <- rsRun,
        messages <- rsMessages, place <- rsAt, runs <- rsRuns

\* One call that any of two endpoints on two sockets may serve.
RouteKey == [ws |-> "w1", ask |-> "none", queue |-> FALSE, ok |-> FALSE]
RO == INSTANCE Routing WITH
        Endpoints <- {"e1", "e2"}, Addresses <- {}, Owner <- <<>>,
        Workspaces <- {"personal", "w1"}, personal <- "personal",
        Declared <- {<<"w1">>}, MaxManaged <- 0, Sockets <- {"s1", "s2"},
        Keys <- {RouteKey}, Strict <- [w \in {"personal", "w1"} |-> {}], none <- "none",
        rows <- memberRows, at <- roAt, named <- roNamed, result <- roResult

vars ==
    <<part, tool, delivery, reply, scheduler, interaction, feed, wechat, research, routing>>

Init ==
    /\ part \in {"ToolCall", "Delivery", "ReplyTurns", "Scheduler", "Interaction",
                 "ThreadFeed", "WeChat", "Research", "Routing"}
    /\ TC!Init /\ DV!Init /\ RT!Init /\ SC!Init /\ IA!InteractionInit /\ TF!FeedInit /\ WX!WeChatInit
    /\ RS!ResearchInit /\ RO!RoutingInit

\* Narrowed, in steps that no fairness is about: nobody decides an approval over
\* HTTP; research runs in the background only and no report is submitted; each
\* endpoint has a socket of its own.
Next ==
    /\ UNCHANGED part
    /\ \/ /\ part = "ToolCall" /\ TC!Next
          /\ UNCHANGED <<delivery, reply, scheduler, interaction, feed, wechat, research, routing>>
       \/ /\ part = "Delivery" /\ DV!Next
          /\ UNCHANGED <<tool, reply, scheduler, interaction, feed, wechat, research, routing>>
       \/ /\ part = "ReplyTurns" /\ RT!Next
          /\ UNCHANGED <<tool, delivery, scheduler, interaction, feed, wechat, research, routing>>
       \/ /\ part = "Scheduler" /\ SC!Next
          /\ UNCHANGED <<tool, delivery, reply, interaction, feed, wechat, research, routing>>
       \/ /\ part = "Interaction" /\ IA!InteractionNext /\ byHttp' = {}
          /\ UNCHANGED <<tool, delivery, reply, scheduler, feed, wechat, research, routing>>
       \/ /\ part = "ThreadFeed" /\ TF!FeedNext
          /\ UNCHANGED <<tool, delivery, reply, scheduler, interaction, wechat, research, routing>>
       \/ /\ part = "WeChat" /\ WX!WeChatNext
          /\ UNCHANGED <<tool, delivery, reply, scheduler, interaction, feed, research, routing>>
       \/ /\ part = "Research" /\ RS!ResearchNext
          /\ rsAt'["loop"] # "begin" /\ step'["loop"].author # "user"
          /\ UNCHANGED <<tool, delivery, reply, scheduler, interaction, feed, wechat, routing>>
       \/ /\ part = "Routing" /\ RO!RoutingNext
          /\ bound'["s1"] \subseteq {"e1"} /\ bound'["s2"] \subseteq {"e2"}
          /\ UNCHANGED <<tool, delivery, reply, scheduler, interaction, feed, wechat, research>>

Spec == Init /\ [][Next]_vars

FairSpec ==
    /\ Spec
    /\ WF_tool(part = "ToolCall" /\ TC!Send("c1"))
    /\ WF_tool(part = "ToolCall" /\ TC!Settle("c1"))
    /\ WF_delivery(part = "Delivery" /\ DV!Drain("r1"))
    /\ \A m \in {"m1", "m2"} : WF_delivery(part = "Delivery" /\ DV!BackoffElapses(m))
    /\ WF_reply(part = "ReplyTurns" /\ RT!TurnStep) /\ WF_reply(part = "ReplyTurns" /\ RT!CancelStep)
    /\ WF_reply(part = "ReplyTurns" /\ RT!WorkerStep) /\ WF_reply(part = "ReplyTurns" /\ RT!ControlStep)
    /\ WF_scheduler(part = "Scheduler" /\ SC!ProcessorStep) /\ WF_scheduler(part = "Scheduler" /\ SC!RunStep("scheduler"))
    /\ \A j \in {"j1", "j2"} : WF_scheduler(part = "Scheduler" /\ SC!LeaseExpires(j))
    /\ \A r \in {"r1", "r2"} :
         /\ WF_interaction(part = "Interaction" /\ IA!AskerStep(r))
         /\ WF_interaction(part = "Interaction" /\ IA!AnswerStep(r))
    /\ WF_feed(part = "ThreadFeed" /\ TF!Announce("t1"))
    /\ WF_feed(part = "ThreadFeed" /\ TF!SocketStep)
    /\ WF_feed(part = "ThreadFeed" /\ TF!ReceiveFrame)
    /\ WF_wechat(part = "WeChat" /\ WX!PollStep)
    /\ WF_wechat(part = "WeChat" /\ WX!HandlerStep("e1"))
    /\ \A a \in {"w1", "loop"} : WF_research(part = "Research" /\ RS!ActorStep(a))
    /\ WF_routing(part = "Routing" /\ RO!Call(RouteKey))
    /\ WF_routing(part = "Routing" /\ RO!Expire(RouteKey))

-----------------------------------------------------------------------------
\* Whatever the provider and the network do, a dispatched call gets its answer.
EveryCallSettles == part = "ToolCall" => TC!EveryCallSettles

\* What is in the outbox of a live core is sent or ends as a dead letter.
OutboxDrains == part = "Delivery" => DV!OutboxDrains

\* A stop, undo or redo command returns: it does not hang brain_processor; and
\* shutdown ends, and serves what was queued first.
CommandsEnd == part = "ReplyTurns" => RT!CommandReturns /\ RT!ShutdownDrains

\* A due job that can run is served, even after a crash left its lease behind.
DueIsServed == part = "Scheduler" => SC!DueIsServed

\* A question ends, and an answer that was taken is recorded.
QuestionEnds == part = "Interaction" => IA!QuestionEnds

\* A reply in the log is listed by the client, lost connections included.
CatchesUp == part = "ThreadFeed" => TF!CatchesUp

\* Every chat message is acknowledged, lost requests and a crash included.
EventSettles == part = "WeChat" => WX!EventSettles

\* The runner of a cancelled task stops, however long the adapter takes.
CancelStopsRunner == part = "Research" => RS!CancelStopsRunner

\* A caller that keeps trying reaches an endpoint when there is one to reach: a
\* target that was lost leaves the cache.
RouteRecovers == part = "Routing" => RO!RouteRecovers
=============================================================================
