# A TLA+ model of MeetYou Core

MeetYou is an assistant whose Core process owns conversations, runs, scheduled
jobs, deliveries and tool calls, and talks to Endpoint Providers (the desktop,
chat bridges, devices) over WebSocket connections. Core is one asyncio process
with a relational database behind it. Nearly everything that is hard in it comes
from that: a coroutine that awaits lets every other coroutine run, rows are
written in several transactions of one operation, connections drop and come back
before Core notices, and the process may die between two writes.

This directory models the parts of Core where such orders matter, checks them
with TLC on small instances and proves the most important results with TLAPS for
every instance. Paths below are relative to the repository.

## 1. The system

### Components, their state and how they interact

| Component | State | Operations | Talks to |
|---|---|---|---|
| ToolRouter (`core/services/tool_router_service.py`) | `_pending` futures by call id, resolution cache, OperationCall/Operation rows, routing scores | route a call, dispatch it, settle it by result, error, cancel or timeout | WebSocket manager, frame handlers |
| WebSocket manager (`gateway/endpoint_ws.py`) | sockets by endpoint, metadata and subscriptions by socket | bind, send to all sockets of an endpoint, publish to subscribers, disconnect | every sender of frames |
| Frame handlers (`gateway/endpoint_frame_handlers.py`) | none of their own | one handler per frame type, one frame at a time per connection | router, delivery, registry |
| Endpoint tool SDK (`endpoint_tool_sdk/runtime.py`) | one task per call, semaphore, a lock per tool | connect, run a call, report | Core, by frames |
| Delivery (`core/services/delivery_service.py`, `core/db/repositories/endpoint.py`) | DeliveryAttempt and EndpointOutbox rows | deliver, drain the outbox, handle a result | WebSocket manager, scheduler |
| Session actor (`core/session_actor.py`) | queue, worker task, current handler task per session | submit, cancel the current handler, shut down | App |
| Brain (`core/brain.py`, `core/context.py`) | chat history, checkpoints, active turn, pending command | a turn, its tool rounds, completion; stop, guide, regenerate, roll back; trim | adapters, tools |
| App (`core/app.py`) | confirm contexts, the processors | `brain_processor`, `scheduler_processor`, a turn's try/except | all of them |
| Scheduler (`core/services/scheduler_service.py`, `schedule_time.py`) | ScheduledJob rows with next_fire_at and lease, ScheduledJobRun rows | tick, claim, run, mark fired, release; operator updates | App, Brain, Delivery |
| Heartbeat (`core/services/heartbeat_workflow.py`, `core/heart.py`) | its job and rows | one beat | Scheduler |
| Event bus (`core/event_bus.py`, `core/interaction_response_service.py`) | pending confirmations and questions, by id and by session | request, answer, time out, cancel | App, Brain, gateway |
| Approvals (`core/services/approval_service.py`) | Approval and Operation rows | create, decide | Event bus handlers in App |
| Session manager (`core/session_manager.py`) | sessions, a bounded table of inbound event ids | bind, deduplicate | gateway |
| Run events and client feed (`core/services/run_service.py`, `core/thread_delivery_bridge.py`, the desktop's `useMeetYouSocket.ts` and `chatState.ts`) | RunEvent rows with a sequence number; the client's list and buffer | append, publish, replay; reconnect, fetch | WebSocket manager |
| Endpoint registry (`core/services/endpoint_service.py`, `core/db/repositories/endpoint.py`, `capability_service.py`) | endpoints, addresses, memberships and scopes, capabilities | hello, snapshots, upserts; the operator's changes | router, delivery |
| Branches (V5, `core/services/v5_service.py`) | messages with parents, branches, checkpoints, the thread's leaf | attach, fork, edit, retry, check out, restore | App, routes |
| Research (`core/services/research_execution_service.py`, `v5_service.py`) | task row, Run, report artifact and message | plan, approve, start, run, cancel | routes, chat, tools, worker threads |
| Memory (`tools/memory.py`, `tools/memory_layers.py`, `core/heart.py`) | episodes, profiles and facts, edges; one object for all coroutines | save, write through, consolidate, merge, prune; the operator's commands | Brain's tools, housekeeping loop |
| WeChat provider (`sensors/meetwechat_adapter.py`) | poll cursor, statuses, acknowledgements to repeat, pending replies, outbound queue | poll, submit, wait, send, acknowledge | MeetWeChat service, Core over HTTP and sockets |

Further parts (CRUD services, tool policies, HTTP routes, model adapters, clients,
migrations) are listed in `PROJECT.json` with the reason they are left out.

### What is hard, and what makes each part correct

* **A tool call.** Result and timeout race; the frame goes to every socket of the
  endpoint, live or dead; the provider's connection closes in the middle of a call;
  the session's task is cancelled. Correct means: success is never invented, an
  answer that invites a retry means nothing ran, one provider runs a call at most
  once, the caller always gets an answer, and no future stays behind.
* **A delivery.** The frame leaves before the attempt is recorded; reports come
  late, twice or never; several receive loops drain one outbox; Core dies with a
  row in flight. Correct means: "delivered" was shown, a message is shown once,
  attempts are bounded, nothing stays in the outbox while Core lives.
* **A turn and its commands.** `brain_processor` awaits between accepting a
  command and cancelling the handler; a cancellation may find the handler at any
  await. Correct means: a command is applied only to the turn it was accepted for (the
  stop that goes with it may hit the next one, see section 3), a replay happens once, a turn
  is told its own end, and neither the worker nor `brain_processor` gets stuck.
* **A scheduled job.** Runs take minutes, during which jobs are edited, deleted
  or started by hand; runs raise; Core dies with a lease. Correct means: a
  one_shot runs, unless an update gives it up, and is then never run again, leases do not outlive their runs,
  rows are closed, and a due job is served.
* **A route.** Targets are cached for five seconds, sockets die before anyone
  notices, the table of sockets forgets a socket whose send fails, and the operator
  changes memberships. Correct means: a cached route is one that would be chosen
  anew, and a lost endpoint does not stay in the cache.
* **Memberships.** Providers declare workspaces again on every hello, the operator
  adds and removes them. Correct means: the scope follows the rows, an endpoint
  keeps a workspace and has one primary one, a hello undoes nothing.
* **A question to the user.** Answers come by id, by session, as text or over HTTP,
  late or for the wrong question; the turn is cancelled while the question is shown.
  Correct means: consent is real, a waiting question can be answered, rows agree.
* **Versions of a conversation.** A reply arrives after the user moved, edited or
  restored; creation and attachment may be separated by a failure. Correct means:
  history is a tree, pointers stay on their branch, a redelivered message has one turn.
* **A client's list.** Live frames, replay and history responses overlap. Correct
  means: each reply is listed once and, a long list's pruned ones apart, none is missing
  when nothing is under way.
* **A chat message from WeChat.** Requests fail, answers are lost, the adapter dies
  before it wrote its file, the reply comes twice over two sockets. Correct means:
  the message is not lost, the reply is sent once, a chat only read stays silent.
* **A research task.** Runners in threads and requests on the loop move one row
  without a lock. Correct means: one report, a Run that agrees, a cancellation that
  holds and stops the runner.
* **A memory.** Coroutines share the store and give way for embeddings and the
  model's patch. Correct means: what the user asked to remember is kept, a profile key
  has one active record, edges join records that exist.

`PROJECT.json` lists the hazards one by one with the line where each bites.

## 2. Modules

| Module | What it is |
|---|---|
| `ToolCall` | one endpoint, any number of calls and connections: router, gateway, provider, network |
| `EffectContract` | what whoever asks for an effect outside Core may believe of the answer, as an abstract specification: of `route_tool_call` and of `DeliveryService` |
| `SharedEndpoint` | composes `ToolCall` and `Delivery`: one endpoint that several provider processes answer for |
| `ToolCallProofs` | the inductive invariant of `ToolCall` and the refinement of `EffectContract` |
| `Delivery` | attempts, outbox, drains, provider, crash |
| `ReplyTurns` | session actor, turn, reply control, history and checkpoints |
| `Scheduler` | jobs, leases, runs, rows, crash |
| `DeliveryProofs` | the same for `Delivery` |
| `ReplyTurnsProofs` | the inductive invariant of `ReplyTurns` and the theorems that follow |
| `BackgroundProofs` | the same for `Scheduler` and `Research` |
| `RoutingProofs` | the same for `Memberships` and `Routing` |
| `SessionProofs` | the same for `Interaction`, `Memory` and `Branches` |
| `ClientProofs` | the same for `WeChat` and `ThreadFeed`; carries the theorems about `ToolCall` and `Delivery` over to `SharedEndpoint` |
| `Lists` | what a query makes of a table's rows; used by `Memberships` and `Scheduler` |
| `ListProofs` | what the lists of a query are made of, for `RoutingProofs` and `BackgroundProofs` |
| `Memberships` | workspaces of endpoints and addresses, as rows and as scope; archiving |
| `Routing` | extends `Memberships`: sockets, capabilities, choice of a target and its cache |
| `Interaction` | confirmations and questions with their approval and operation rows |
| `Branches` | messages, branches, checkpoints and the turns that answer |
| `ThreadFeed` | run events, subscription, replay, and the desktop client's list |
| `WeChat` | the MeetWeChat provider between its service and Core |
| `Research` | one research task and everyone who moves it |
| `Memory` | the long-term memory and its consolidation |
| `MCToolCall` | `ToolCall` and `Routing`, extended |
| `MCScheduler` | `Scheduler` and `Research`, extended |
| `MCTurns` | `ReplyTurns`, `Memberships` and `Memory`, extended |
| `MCServices` | `Delivery`, `Interaction`, `Branches`, `ThreadFeed`, `WeChat` and `SharedEndpoint`, extended |
| `MCProgress` | the components with fairness, for liveness |
| `MCWeChat`, `MCMemberships` | the instances of two of the runs that show a violation |

An action is the code of one coroutine from one await to the next, with every
call it makes in between. Where a `with session_scope()` transaction and the code
around it contain no await, they are one step: Core is a single process on one
event loop. Mutated forms of definitions ("Slip", "Mutant") stand just before the
definition they change; they are not part of any specification and serve to show
that the properties notice the bug they describe.

### ToolCall

`pc[c]` is the coroutine of `_dispatch_target` for call c: idle, in the transport
await ("sending"), in `wait_for` ("waiting"), done. `pending` is `_pending`; `row`
the OperationCall status (the Operation's status is written in the same
transaction, `OperationStatus`). `DispatchTarget` creates the rows, registers the
future and takes the snapshot of sockets that `send_to_endpoint` takes;
`SendFrame`/`SendFails` are the sends of `_send_many`, one socket at a time, since
`gather` leaves their order open. `Dispatched` is `mark_dispatched`, which does
not look at the row. `CallTimeout` may happen when the future is already done,
as `asyncio.wait_for` allows. The handlers `HandleProgress`, `NotifyCallResult`,
`NotifyCallError`, `NotifyCallCancelled` write the row, score the endpoint and
complete the future in one step. On the provider's side a task goes through
started, accepted, queued, running, done. `LinkDown` loses what is on its way to
the provider; `CloseConnection` is the provider leaving its loop, which makes
tasks inside their `try` report an error; `ReadLoopEnds` is Core noticing.
`CoreRestart` loses futures and sockets and keeps rows.

Arguments, tool names, results and routing weights are left out; a call has one
target. Frames of one call on one connection keep their order; other frames may
be handled in any order, which allows more than one socket does.

### Delivery

`deliver()` is `StartDeliver`, `DeliverTaken` (a socket takes the frame while the
coroutine still awaits), `RecordSent` or `RecordUnsent`. A drain works through a
snapshot of `list_due`, in any order: `MarkInflight` sets "sending" and counts the attempt
without looking at the status; `DrainSent` and `DrainUnsent` write the outcome and
take the next row. A receive loop that drains handles no report. The provider
handles each frame once, shows it or refuses it, and reports; reports may be lost.
`FailureStatus` is the comparison with `max_attempts`; the delay of the backoff is
`BackoffElapses`. `Crash` keeps the rows.

`Outcome` is what the attempt's status tells whoever asked for the message: "shown" when it
is delivered, "given_up" when it is dead_letter or failed, "open" otherwise. `KeepsContract`
is `EffectContract` of it: nothing is told that is not true of the surface, a message given up is
not shown later, and what was told stays told.

### SharedEndpoint

The socket table keeps a set of sockets per endpoint, so that several provider processes, or a
process and its dead connections, answer for one endpoint. A step is one of its calls
(`CallStep`, an instance of `ToolCall` without the restriction to one provider) or one of
its outbox (`OutboxStep`, an instance of `Delivery` with any set of receive loops). A loop that
drains handles no frame of a call; here it may, which allows more orders than the code.

### ReplyTurns

One session. The worker takes an input from the queue and creates the handler
task; `phase` is the await the handler is in. `index` is `turn_input_index`, taken before the
checkpoint is made; the checkpoint holds this length. `AcceptCommand` is
`request_reply_control` with an active turn; the emits follow, then `CancelCurrent`
or `NothingToCancel`, then `CancelReturns` and `SubmitReplay`. `InterruptTurn` is
the `except CancelledError` of the turn, `CancelEscapes` a cancellation outside that
`try`. `CancelCurrent` cancels the handler there is, whichever turn it serves. `AppendReply` is
the end of a model call without a tool call; a call that ends without content, as after an error
event that is only logged, appends no reply, and the turn completes all the same
(`core/brain.py:3227`). Shutdown cancels, restarts a dead worker, puts `_STOP` behind the queue and
joins. The chat history is a sequence of entries that name their turn and role;
`TrimHistory` removes entries by the priorities of the code.

### Scheduler

`next_fire_at` is absent, future or due, and a lease is free, held or expired: the
code only ever compares these times with now. `due` keeps the order of `list_due`.
A trigger is recurring or a one_shot whose `run_at` is ahead or passed. An executor
is the scheduler or a caller of `trigger_scheduled_job`, and `at` is the await its
run is in; `message`, `run` and `jobRun` are the rows it writes. `Claim`
reads the row again (`Claimable`); a job without a workspace raises at once, which
gives up the tick. `MarkFired` recomputes the time from the trigger the job has at
that moment. `UpdateJob` is an update of the trigger or the timezone, also one that leaves the trigger as
it was: `next_fire_at` is computed after now, so a one_shot whose `run_at` has passed gets none
and is given up, whether it has run or not (`dropped`). Left out: the limit of 50 jobs per tick, triggers that compute no time (an interval of
0, a cron expression without a match), and the heartbeat in a database without the
workspace `personal`, where it writes no rows.

### Memberships and Routing

Every operation of the registry is one transaction without an await. `rows[h]` keeps
the membership rows of an endpoint or address in the order of their creation,
`scope[h]` what `_sync_endpoint_scope` copied from them. The session has autoflush off,
so the query in `_promote_first_enabled` still finds the row that was just switched
off: `Disable` says so. `Seed` is what a hello does, `Operate` what the operator does.
`Routing` adds the table of sockets (`bound`), the state of each read loop (`named`),
the capabilities and the resolution cache. `Targets` is
`_resolve_execution_target_uncached`; which of the accepted candidates scores best is
left open. `Invalidated` is `invalidate_cache`; `Dies` is a peer that is gone before
anyone noticed. What happens to a request that was sent is `ToolCall`'s.

### Interaction

`at[r]` is the coroutine that asks r: it registers, awaits the subscribers that show
the question, then the future. `pending` and `bySession` are the two dictionaries of the
event bus. Answers come by id, by session and as text; `response` is the task that
records the decision. `Expire` and the cancellations are the ways out of the wait.

### Branches

`messages` are rows with a parent, `branches` have a leaf, and the thread has an active
branch and a leaf of its own. Creating a row and attaching it are two transactions; a
failure may fall between them. A reply is attached to what is active when it comes.
`moved` and `strayed` are history: the user left the question's branch meanwhile. `Visible` is
what a client is shown: the path to the thread's leaf or, when the leaf is null, every row of the
thread.

### ThreadFeed

A turn streams deltas, stores its reply, writes the durable `message.completed` event
and publishes. `subscribe` sends live frames from then on and the durable events
listed at that moment one by one: all of them, since every client of the repository
subscribes with `last_seen_event_seq` 0 (`DueEvents`). The client keeps a list and a 50 ms
buffer, and fetches the history after a reconnect; a response replaces the list. Every other
case of the reducer prunes: a list of more than `MaxVisible` items (160) is cut to the last
`Retained` (120) and those of the active turn (`pruneTurns`). The model has no order among
messages, so `Kept` lets any items stay as long as they are at least `Retained`, which allows more than
the code. `archived` is history: the replies that a prune took off.

### WeChat

The poll loop repeats acknowledgements, polls and waits for its handlers (`poll`).
A handler of an event submits it, waits for the reply and acknowledges; `Locked` is
the lock of the chat. Frames arrive on the chat's socket and on the provider's, each with
its own loop. `file` is the state as last written; a crash restores it, and the cursor,
queue and pending replies are gone. Requests may fail before or after they took effect.
A chat message that answers a pending confirmation or question is not modelled: `_handle_event`
hands it over as a response, or as a command if that fails, and acknowledges it without submitting a
message. The remembered keys of final messages are never cleared here; the code forgets
them beyond 4096.

### Research

A transition is two steps, a read with its guard and a commit, because runners in
threads commit at read committed without a lock; on the loop nothing comes between.
`overlapped` is history: a commit went over one it had not seen. `Rescue` is the loop that gets the exception of a background
run and fails the task; after a restart only the tool's "run" takes a task up again.

### Memory

A save awaits an embedding for its episode and another for the write-through to a
profile or fact; the housekeeping loop awaits the model's patch and an embedding per
upsert. Each await may fail. `Finish` deletes the batch, links and merges. Similarity,
scores and ages are open choices. The code also prunes when nothing is pending, where `delete_record`
stands for it, and takes at most `PENDING_BATCH_SIZE` episodes into a batch, where the model
takes all that are pending.

## 3. Runs

| Run | Instance | Shows |
|---|---|---|
| `toolcall_safety` | 2 calls, 2 connections, one provider; 2 endpoints on 2 sockets; one endpoint whose memberships change | success is real, retries safe, at most one run, refinement of `EffectContract`; cached routes are current |
| `scheduler_safety` | a one_shot and the heartbeat, runs by hand, an update of each, a run that raises, a crash; a research task with two runs, or one and a restart | one_shots are kept, but for an update of a due one, and run once, leases and rows follow the run; one report, and a Run that agrees |
| `services` | `Delivery` and the components around the turn, ten parts | what each of them may never do; `Delivery` refines `EffectContract` |
| `turns` | `ReplyTurns` (2 messages, 1 trim, 2 checkpoints; 2 commands, or 1 and a tool round), `Memberships`, `Memory` | commands are applied to their turn, replays happen once, a turn is told its own end, the worker survives; memberships; memory |
| `progress` | nine parts, each with the fairness of its own | what each component does in the end |
| `toolcall_recorded` | 1 call, 2 connections | violation: a result the caller has is missing in the operation row |
| `delivery_requeue` | 1 message, 1 loop | violation: a failure reported before the attempt exists is not requeued |
| `reply_trace` | 2 messages, 1 command, 1 trim | violation: a replayed turn leaves its input in the history |
| `scheduler_starved` | two jobs, one without a workspace | violation: a job that always raises starves the others |
| `wechat_sentonce` | one event, one notice, one chat | violation: a notice is sent to the chat twice |
| `research_cancel` | one worker thread, one run | violation: a cancelled task becomes failed or completed |
| `memberships_primary` | one endpoint, three workspaces, one change | violation: removing the primary workspace leaves none |

Components that do not interact at these points are checked side by side and not as a
product: the variable `part`, chosen in the initial state and then constant, names the
component that moves, and the others stay in their initial state. The state graph is the
sum of theirs. The part's own next-state relation and properties are used unchanged. The
components that have proofs are extended, so that TLC evaluates their assumptions and the
properties of the runs are the very definitions the theorems name; that is why operators and
variables of these components do not share names. `MCProgress`, about which nothing is proved,
has them as instances. The run of `SharedEndpoint` moves its calls or its outbox; the theorem is
about both at once.

Some parts are narrowed by a conjunct on the primed variables, so that two environment
events that the bounds allow do not both happen in one behaviour: a job that is edited or
deleted sees no raise and no crash, a session with a tool round sees one command, an outbox with a
crash has two messages instead of three, of three questions one is never asked, a client that loses two connections fetches no history, a chat with a
notice has a fault or a crash, a research task has two runs or a restart. The narrowed parts of `progress`
(no decision over HTTP, no research run by the tool and no submitted report, each endpoint on its own
socket) leave out only steps that no fairness is about. The whole instances were checked apart, see below.

The type invariant of a component is a conjunct of one of its properties (`QuestionsAreServed`,
`VersionsAreSound`, `NoEventLost`, `OutcomeIsOne`, `OnlyTheStopStrays`, `ListIsExact`,
`RoutesAreCurrent`, `StoreIsSound`, `MembershipsHold`).
Those of `ToolCall` and `Delivery` are proved, that of `Scheduler` was checked apart.

Distinct states per part:

| Run | Part | States |
|---|---|---|
| `toolcall_safety` | ToolCall (up to symmetry) | 759,945 |
| | Routing | 13,268 |
| | Managed (an operator, one endpoint) | 17,088 |
| `scheduler_safety` | Jobs (an update of each) | 911,400 |
| | Faults (a raise and a crash) | 196,896 |
| | Research (1 thread, 2 runs) | 245,054 |
| | Restart (1 thread, 1 run, 1 restart) | 117,072 |
| `services` | Delivery (3 messages of every kind, 1 loop, 2 attempts) | 128,299 |
| | Crash (2 messages) | 32,385 |
| | One session (2 questions) | 15,236 |
| | Two sessions | 15,183 |
| | Branches (3 messages, 2 branches) | 76,219 |
| | ThreadFeed (1 turn, 1 user message, 2 drops or 1 and a fetch, lists of 1) | 81,536 |
| | WeChat (2 events of one chat, 1 fault) | 156,979 |
| | WeChat notice (1 event, 1 notice, a fault or a crash) | 43,539 |
| | Two providers (`SharedEndpoint`: 1 call, 2 connections) | 51,572 |
| | Two readers (`SharedEndpoint`: 2 messages, 2 loops) | 256,225 |
| `turns` | Turns (2 commands; up to symmetry) | 1,322,298 |
| | Tools (1 command, a tool round; up to symmetry) | 240,775 |
| | Memberships | 12,078 |
| | Memory | 499,687 |
| `progress` | ToolCall 7,935, Delivery 7,547, ReplyTurns 78,821, Scheduler 23,408, Interaction 4,036, ThreadFeed 5,536, WeChat 11,605, Research 19,892, Routing 1,036 | 159,816 |

The runs marked violation state what a document or a test of the repository says;
`findings` in `PROJECT.json` quotes it and says what the code does.

Some properties hold only as they are worded, and the wording is where the code
falls short of the obvious statement:

* `ShownAtMostOnce` is checked with one receive loop. With two, a drain held up in the
  transport sends a row that the drain of the new connection has sent already,
  because `mark_inflight` does not look at the row's status.
* `OnlyTheStopStrays` lets the stop of a command hit another turn: its own turn may end while the
  command's result is emitted, and `cancel_current` then cancels the handler of the next one
  (`core/app.py:1448`). That turn is interrupted for nothing, but no command is applied to it:
  nothing of it is replayed and nothing rolled back.
* `OutcomeIsOwn` exempts a turn that was cancelled before anything of it is in the history:
  `finalize_reply_control` then returns the finish reason of the turn before. It does not say that
  a completed turn has a reply: a model call that ended without content completes silently.
* `RowsClosed` exempts the heartbeat, whose ScheduledJobRun `run_once` leaves running.
* `OneShotKept` exempts a one_shot that an update gave up (`dropped`): `update_job` recomputes
  `next_fire_at` after now for any change of trigger or timezone, so a due one_shot, or one whose
  run then raises, is not run (`core/services/scheduler_service.py:171`).
  It is content with the run that claimed the job. A one_shot that is
  rescheduled during its run, to a time that passes before the run ends, is not run
  for that time: `mark_fired` computes nothing after now.
* `NoLeakedFuture` exempts a call cancelled in the transport await, which stands
  outside the `try`/`finally`.
* `QuestionsAreServed` allows a session to be blocked by a question whose turn was
  cancelled while it was shown: that await stands outside the `try`. The rows of a
  question that timed out stay pending.
* `VersionsAreSound` says that what is shown is one version, unless the thread stands on an empty
  one: when its leaf is null, `list_messages_for_thread` shows the rows of all branches, a message and
  its revision together (`core/services/message_service.py:90`). The leaf becomes null when a branch or
  a manual checkpoint is made before the first message and checked out or restored later.
* `ReplyFollowsQuestion` exempts a reply that came after the user moved to another
  version (`strayed`): it is attached there. `OneRunPerKey` promises at most one turn; a
  failure between the row and the queue leaves a message that never gets one.
* `ListIsExact` exempts what a late history response took off the list
  (`overwritten`), what the prune took off a long one (`archived`), and a turn cancelled between
  the durable event and its frames. `CatchesUp` has the same exceptions. A pruned reply comes back
  only with a replay or a fetch.
* `RepliesFollowPolicy`: a chat only read is silent, unless the wait was given up before
  the reply came (`given`); then the frame is sent without a look at the policy. It speaks of
  replies; a notice may be sent twice (`wechat_sentonce`).
* `OutcomeIsOne` exempts transitions that overlapped, which `research_cancel` is about.
* `RoutesAreCurrent` exempts a route older than an operator's change, which does not
  invalidate the cache, and an endpoint whose socket was forgotten by a failed send or
  left out by a second hello (`Unnoticed`). `RouteRecovers` says that this passes.
* `MembershipsHold` says at most one primary workspace; that there is one does not hold
  (`memberships_primary`).
* `ExplicitKept` exempts an episode deleted with its batch because another upsert of the
  batch was applied (`covered`), `StoreIsSound` records the operator brought back
  (`revived`) and an edge to a record removed under a waiting coroutine (`held`).
* A background turn without content has no Message, and its targets are delivered to
  all the same (`NoMessage`, then delivery); `docs/v4/meetyou-v4-scheduled-workflows.md`
  says otherwise.

Deadlock is not checked: calls end, messages are delivered and a shut down session
rests, so all of these systems may stop.

### Bounds and why they are enough

Two connections are what a reconnect needs: the dead socket and the new one. Two
calls share only the sockets and the routing score. Two receive loops are the
held-up one and that of the new connection; `MaxAttempts` is 2 instead of 5, the
smallest value with a retry before the limit. Two messages give a turn and a queued
one, or a completed turn and a cancelled one; two commands give a command on the
replay of another; a tool round is met by one; two checkpoints are exceeded by three turns, as twelve would be
by thirteen. One update, one raise and one crash each can fall at every await of a
run. Two requests of one session give a late one and its successor, a request of
another session an answer gone astray. Three messages and two branches give an edit and a reply on either side
of it. Two drops give a replay cut off by the next loss; a fetch gives a response
overtaken by live events. A list of one item is pruned by the next, as one of 160 is by the 161st,
and one item is kept. A queue of one is full with the first reply. Two runs of a
research task are the background run and its rival. Two saves of one text share an
episode, and a third actor, the keeper, consolidates while both wait. Three workspaces
give a primary one, one to remove and one to promote.

Larger instances were checked apart, with the same properties: `WeChat` with two events,
a fault and a crash (743,062 states), with an event, a notice, a fault and a crash (92,434) or two
faults (274,752), and with two events and a notice (1,935,823 with a crash, 4,164,642 with a fault);
`ReplyTurns` with two commands and a tool round (6,356,906, up to symmetry); `Interaction` with three requests
(959,868); `Branches` with 3 branches (461,549) and with 4 messages (2,196,215);
`ThreadFeed` with two drops and a fetch (121,269) or two (410,588), with two turns (2,658,628) and with a prune that keeps nothing (130,022); `Scheduler` with updates,
a raise and a crash together (8,122,128), and with updates and a raise, its `TypeOK` included (2,064,832); `Delivery` with three
messages and a crash (699,573); `Research` with two runs and a restart (525,588); `Routing` with two calls (1,203,380), with two endpoints and an operator (190,480), with a named
endpoint (240,715) and with the queue policy (293,864); the liveness of `ToolCall` with two
providers (51,572), of `Delivery` with two readers (256,225) and of `ReplyTurns` with a tool round
(240,497), and that of `Interaction` (15,236), `Research` (49,269) and `Routing` (13,268) without the narrowing.

`MaxCommands`, `MaxTrims`, `MaxToolRounds`, `MaxUpdates`, `MaxRaises`, `MaxCrashes`,
`MaxFaults`, `MaxDrops`, `MaxFetches`, `MaxRestarts`, `MaxManaged`, `MaxRemovals` and their like
bound the environment; no bound limits what the code does in response.

### Fairness and why the code justifies it

* `ToolCall`: weak fairness of the coroutine's own steps (sends end, the loop runs
  what is ready, the `wait_for` timer fires). None of provider or network.
* `Delivery`: drains go on, because a connected endpoint sends heartbeats and each
  one drains; a transport await ends; backoffs elapse. Reports need not come.
* `ReplyTurns`: tasks that are not waiting run; a model call ends, since the HTTP
  session has a total timeout; a tool round is not required.
* `Scheduler`: the processor loops and waits at most 30 s, a run's awaits end, leases
  expire by the clock. Raising runs, updates and crashes are bounded, not fair.
* `Interaction`: the asking coroutine goes on when it can (the `wait_for` timer included),
  and so does the task of an answer. No answer need come.
* `ThreadFeed`: a turn announces what it stored, the client's socket reconnects by its
  timer and subscribes, frames on a connection that holds arrive.
* `WeChat`: the poll loop goes on, and a handler does: its waits have timeouts. The core,
  its sockets and the outbound worker need not do anything; failed requests are bounded.
* `Research`: an actor that has begun a step ends it. The adapter may poll for ever.
* `Routing`: a caller that keeps calling, and the entry's five seconds.

The fairness in `MCProgress` is that of the components, each over its own variables.

## 4. Proofs

`ToolCallProofs` proves, for every set of calls and connections:

* `TypeCorrect`, `SuccessFollowsRun`, `RetryAfterRefusal`: with any number of
  provider processes;
* `RunsAtMostOnce` and `ContractImplemented` (`ToolCall` refines `EffectContract`):
  with one provider process, which is the assumption `SingleProvider`, stated as the
  guard of `Connect` that one link is up at a time;
* `FuturesAreCleared` and `AnswersAreScored` (`NoLeakedFuture`, `EveryAnswerScored`): with any
  number of processes no entry stays in `_pending` and no answer goes unscored, and with one
  a call is scored at most twice.

The properties are not inductive. `SuccessIsReal` says nothing of a frame on its way
that will cause a success, and `AtMostOnce` nothing of a second request that will
cause a run. The invariant `IInv` adds:

* `Sockets`: sockets and requests belong to connections that were opened, requests
  to links that are up;
* `OnlySent`: the answer, the targets and `sent` agree with the coroutine's phase; a
  request or task exists only of a call that was sent, on a connection that is no
  longer among its targets;
* `Trace`: every result frame, completed future, row and score follows a run;
* `Unique` (one provider): at most one link is up, and of the connections at most
  one has, or may still get, the request of a call (`Touched`). A reconnect keeps
  this because the new connection is not in the snapshot of targets.

For the scores, `Heard` says that what reached the caller was scored, and `OneEnding` that with
one provider a call has one terminal frame, before whose handling only the router's own
timeout or failure can have been scored.

Each part has a step lemma with one case per action (`StepCases`); the refinement
(`ContractStep`) maps a tool's start to `Run`, an answer to `Close`, a restart of Core to
`Lose`, everything else to a stutter.

`DeliveryProofs` proves, for every set of messages and receive loops and any number
of attempts and crashes:

* `TypeCorrect`, `DeliveredWasShown`, `OnlyCrashStrands`: with any number of loops;
* `ShownOnce`, `DeliveredStays` and `ContractImplemented` (`KeepsContract`: `Delivery` refines
  `EffectContract`): with one receive loop, the assumption `OneLoop` (with two they are false, see
  above);
* `AttemptsStayInBudget` (`RetryBudget`): a row is attempted at most `max_attempts` times, and
  once more for each further loop. `Budget` says of the count what the loops that still
  hold the row in their snapshot (`Listing`) may add to it.

`IInv` adds to the types: `Honest` (a successful report on its way, and a delivered
attempt, belong to a message that was shown), `InHand` (a row in sending is the one
a drain holds, or a crash happened) and, with one loop, `Once` (of a
message one copy is under way, reported failed or shown, and then neither `deliver()`
nor a drain will hand it to the transport again), `OnlyQueueable` (a message that is not kept
has no row unless it was reported failed) and `GivenUp` (no copy of a message given up is left
anywhere). `ShownAtMostOnce` alone is not
inductive: it says nothing of a message not yet shown whose frame exists twice. In the refinement
(`ContractStep`) the surface that shows a message maps to `Run`, the write that tells an outcome to
`Close`, all else to a stutter. Outcomes are told by `RecordUnsent`, `DrainUnsent` and the reports
(`StatusWritten` is such a write, `NothingTold` is every other step); that they are true follows
from `Honest` and `GivenUp`, that they stay from `Once`.

`ClientProofs` proves `SharedEndpointIsSafe` (`SharedIsSafe`): with any number of provider
processes and receive loops, and with its calls and deliveries interleaved in any order, the endpoint
keeps `SuccessIsReal`, `RetryIsSafe`, `NoLeakedFuture`, `EveryAnswerScored`, `DeliveredIsReal`,
`RetryBudget` and `StrandedOnlyByCrash`. A behaviour of the endpoint is one of each component
(`CallsBehave`, `OutboxBehaves`), of which the theorems of `ToolCallProofs` and `DeliveryProofs` speak.
To a prover their instances of the components are not those of `SharedEndpoint`; the lemmas `SameCallNext`,
`SameOutboxNext` and their like say that they are.

`BackgroundProofs` proves of `Scheduler`, for every set of jobs and executors and any number of
updates, raising runs and crashes, `LeaseFollowsRun`, `RunsCloseRows`,
`OneShotsAreKept` and `OneShotsRunOnce`. `IInv` adds to the properties:

* `Leases`: a deleted job has no lease, without which a run that ends after the
  deletion could leave one;
* `Closing`: a run about to return has closed both rows, or is the heartbeat's;
* `InTime`: a due job has no `run_at` ahead, a waiting one none behind;
* `Fires`: versions fire in order and after they were claimed, and a run_at that has
  passed and fired has no next_fire_at. `OneShotOnce` follows because `Claim`, the
  only step that starts a run of the scheduler (`OnlyClaimStarts`), reads the row
  again and finds it due.

The order of the due jobs plays no part in these proofs. `SchedulerTypes` proves the rest of `TypeOK`:
`due`, from which a tick takes its jobs, has exactly the jobs whose next_fire_at has come, each once
(`DueListed`), through every update, deletion, end of a run and step of the clock, and no counter
passes its bound. It rests on `WithinMembers` of `ListProofs`: what is left of a list by a
query has the members asked for, none twice that was not there twice.

`ReplyTurnsProofs` proves, for every set of messages, any number of commands, trims and tool
rounds and any number of checkpoints kept, `OnlyTheStopGoesAstray`, `ReplaysAreExact`,
`OutcomesAreOwn` and `OnlyEscapesStrand`. `IInv` adds to the properties:

* `Handler`: the handler's phase, the outcome of its turn and its cancellation agree;
* `History`: checkpoints and entries belong to turns begun, and an early turn has none. This
  is what makes the active turn's checkpoint its own when it is restored;
* `Commands`: an active turn has a checkpoint, a pending command is for the turn that is
  active, and a cancellation of any other turn carries none;
* `Replays`: an input about to be submitted again is the handler's or the command's, and a
  turn inside its `try` has not been replayed.

`ReplayedOnce` is an equation of counts: of a message, the inputs queued, waiting and run are
those submitted, replayed and regenerated. An input is counted by the positions it has in a
list, and lemmas say what taking, appending and joining do to the count (`CountTail`,
`CountAppend`, `CountConcat`).

`SessionProofs` proves of `Interaction`, for every set of requests and sessions, `AnswersReachTheirQuestion`
(`AnswersAreKept`) and `QuestionsStayServed` (`QuestionsAreServed`). `QuestionInv` adds `Unasked` (a question
not asked left no trace), `OneAnswer` (a future is done with the task that records the answer),
`Consented` (an accepting answer was given to the question it completed), `RowsAtHand` (the
task finds the rows of its question) and `EntriesAreAsked` (an entry with an open future is of
a question that waits, or was cancelled while it was shown). An answer by id, by session or
as text is one case of the proof, `TakesAnswer`.

`SessionProofs` proves of `Memory` `ExplicitMemoriesAreKept` (`ExplicitKept`) and `TheStoreIsSound`
(`StoreIsSound`), for every set of saves, texts, values and records, patches of any size and any
number of removals. `MemoryInv` adds to the type:

* `LookedUp`: pending episodes are in the store, and the batch and the sources of a waiting
  upsert are, or were deleted meanwhile (`held`). Without it nothing is known of the ends of the
  edges that an upsert adds after its embedding;
* `WritesItsOwn`: a save that writes through has the upsert of the episode it added or found.
  Taking that episode from the pending ones is safe because the upsert is of no other;
* `Somewhere`: `ExplicitKept` from the moment the episode is added, when nobody has been told yet;
* `OneProfile` and `EdgesJoin`: the two parts of `StoreIsSound` in a form without counting. The lemma
  `WriteKeeps` is the heart of both: an upsert, whatever happened during its embedding, asks
  again for the active profile and invalidates the one it replaces.

The assumptions are that the ids of saves and of long-term records differ, and that the
housekeeping loop is no save.

`SessionProofs` proves of `Branches`, for every set of keys and any number of messages and branches,
`VersionsStaySound`, `RepliesFollow`, `KeysRunOnce` and `HistoriesAreKept` (the action property
`NothingRewritten`). `VersionInv` adds to the shape of the tree (`HistoryIsATree`, `OlderBranches`,
`Pointers`) that a revision is newer than its original and no history holds both
(`Revisions`), that a waiting question is in sight of the leaf (`AskedInSight`), and that keys
and replies are unique (`OneRow`, `OneReply`). The histories are recursive functions over
parents (`Path`, `Lineage`). The provers take them one unfolding at a time; where an
induction over messages would stand, the proof takes the oldest counterexample
(`LeastNatural`, `OldestFirst`), whose parent is older. `LeafKept` says that once there is a branch
the thread's leaf is null only by way of an empty version, which `OneVersionShown` needs.

`BackgroundProofs` proves of `Research` `OneOutcome` (`OutcomeIsOne`) for every set of worker threads and any
number of runs and restarts. `Guarded` says that a transition about to be committed was
permitted by what its actor read, `Authored` who follows a transition with a message or the
end of the Run, `Room` that a background run has its place, and `Agrees` that, unless transitions
overlapped, an actor about to deliver or to end the Run does so for what the task has
become (`Pending`). The lemma `EndIsFinal` is why it lasts: a terminal status is left only by a
commit over one it did not see, and that sets `overlapped`.

`ClientProofs` proves of `WeChat`, for every set of events, notices and chats, every policy and any number of
failed requests and crashes, `EventsAreKept` (`NoEventLost`) and `RepliesKeepPolicy`
(`RepliesFollowPolicy`). `WeChatInv` adds to the types:

* `Handled`: what says that an event needs no more handling, a status in memory or in the
  file, an acknowledgement made or still to be repeated, says so of an event the core has or
  that is ignored. The file is part of it because a crash brings it back;
* `Polled`: only events of the current poll are handled, and one that is complete or behind
  the cursor is acknowledged or on the list to be;
* `OnItsSocket` and `OneCopy`: the frames of a reply are on the socket of its chat with
  `delivery.message` last, and a reply is with one of the socket, the queue, the direct send
  and the chat. `ReplySentOnce` alone says nothing of the second frame of a reply that was sent;
* `Awaiting`: until its reply has been taken from the socket, the chat waits for the event,
  or the wait was given up. The lock of the chat keeps this: nobody else begins. It is what makes a
  chat only read silent (`Silent`), since only a reply that nobody waits for is sent
  directly.

`RoutingProofs` proves `MembershipsAreSound` (`MembershipsHold`), for every set of endpoints,
addresses, workspaces and declared lists and any number of operator's steps, and
`CachedRoutesAreCurrent` (`RoutesAreCurrent`), for every set of sockets and calls besides. The
assumptions are about constants: an address has an owner, the workspace `personal` exists,
declared lists are lists of workspaces, `none` is no endpoint.

* The rows of a holder are `Sound`: one for a workspace, one at most with the primary flag. The
  flag of a row that is switched off counts too, since `upsert` switches it on again as it is;
  `Disable` leaves such a row when it promotes the row it removes. `MInv` adds that the scope
  follows the rows of those who are known.
* What a list of workspaces leaves (`Within`) and what a declaration makes of the rows
  (`UpsertAll`) are recursive functions. `Recursion` (`ListProofs`) says that such a function exists, from the
  least number for which it would not; `OneByOne` carries what holds of the first value
  to the last. From them follow `WithinFacts` (a list of active rows is empty only when none is
  active, and has two members only when two are) and `UpsertAllFacts`.
* `IInv` adds to the types `Bindings` (a socket is bound to the endpoints its read loop knows or to
  none, and to none unless the loop runs) and `Current`, `RoutesAreCurrent` for one
  entry, with an age that is not ahead of the operator's. `Bindings` is why a lost binding is
  either noticed when the loop ends or in `Unnoticed`: without it an endpoint could be bound to a
  socket whose loop would invalidate others. A step is one that changes nothing for an entry that
  stays (`QuietStep`), a hello, the end of a loop, a call, or the operator's.

`ClientProofs` proves of `ThreadFeed` `TheListIsExact` (`ListIsExact`), for every set of turns and user
messages, any number of deltas, lost connections, restarts and fetches and any length a list is
pruned beyond and to. The assumptions are that turns
and user messages are different and that a list is not pruned to more than it may have. `FeedInv` adds to the type:

* `Lists`: the items of a reply have the id of the message or of the turn, and one at most has
  each. Hence `completeStreamMessage` leaves one item of any list (`CompletedIsOne`), which is where a
  live frame and its replay become one. A prune takes items out of such a list, which leaves one of its
  kind (`PrunedKeeps`);
* `OnlyLogged`: replay, wire, list and fetched histories are of replies in the log and rows stored, and
  a reply is in the log from its `Persist` on;
* `InOrder`: behind a completion nothing comes on the wire that would start an item for its
  turn again;
* `CaughtUp`: a live client has an announced reply `Coming` on the replay or the wire, or it was
  `Caught` with no streaming item left. `Subscribe` before `List` is what makes it hold: whatever
  is announced after the events were listed goes out on the wire.

Each inductive invariant was checked by TLC before it was proved, on instances of the sizes below:
`Memberships` (12,078 states) and `Routing` with two endpoints and an operator (190,480), `Interaction` with three requests (959,868), `Branches` with a key, 3 messages and 3 branches
(461,549), `Research` with two threads, a run and a restart (193,566), `WeChat` with two events of one
chat, a fault and a crash (743,062), with two chats (105,420) and with a notice (46,100), `Memory` on the
instance of its run (499,687), `ThreadFeed` with two fetches (410,588), the others
on the instances of their runs.

Only model-checked: the liveness properties, which need fairness. The runs marked violation are counterexamples and stay with TLC.

## 5. Plan

Modelled in this order: tool calls, deliveries, turns, the scheduler; then questions to the
user, conversation versions, the client's feed, the WeChat provider, research, memberships,
routing and memory. Proved are the safety properties of all of them.
What is left:

1. An abstract specification of `WeChat` (a chat message is with the service, under way
   or with the core) and of `ThreadFeed` (a list that grows by the log).
2. Composition: `Scheduler` with `Delivery` (a run's targets), `ReplyTurns` with `ToolCall` (a
   cancelled turn cancels its call).

## 6. Not modelled

The repository has some 80,000 lines of implementation. The modules stand for the part that
keeps state over awaits, transactions, connections or restarts, about a tenth. The rest is
left out for one of these reasons:

* **No control to check.** Translation to and from model vendors' formats, prompt
  building, tool descriptions and schemas, decision tables of the tool policy and of the
  assistant modes, parsing, serialisation, rendering, token estimates, similarity
  and decay. A model would repeat the tables.
* **One transaction on one row.** The CRUD services, most HTTP routes, the task store
  (whose scheduled runs are stubs) and the records of background jobs.
* **Pure I/O.** The adapters of external surfaces other than WeChat's, tools that call a
  web service, the desktop shell, the edge devices and the web client outside the list
  that `ThreadFeed` has.
* **Generated or declarative.** Migrations, packaging, configuration.

Within the modelled components: the compaction of an idle session's history
(`core/context.py`), whose assignment after an await drops what was appended meanwhile;
the session manager's table of event ids, whose callers are not concurrent;
`update_subscription` of the WebSocket manager, which no client uses for a thread it
follows; tool and progress events of a run; media; cron and daily arithmetic; the
database's own failures (a transaction is taken to commit, except where the code
separates two). Time is never a number: clocks appear as the comparisons the code makes.
