----------------------------- MODULE ReplyTurns -----------------------------
(***************************************************************************)
(* The turns of one conversation and the commands that control a reply:    *)
(* the session actor (its queue, its worker task and the handler task of   *)
(* the current turn), App._process_session_execution and the turn part of  *)
(* Brain.input_brain, Brain's reply-control state (history, checkpoints,   *)
(* active turn, pending command), and App.brain_processor, which submits   *)
(* messages and serves stop, append_guidance, regenerate and rollback.     *)
(*                                                                         *)
(* brain_processor serves one event after another and awaits emits and     *)
(* the cancelled handler in the middle of a command; the handler task      *)
(* moves on whenever brain_processor awaits.  Every action below is the    *)
(* code of one task from one await to the next.                            *)
(*                                                                         *)
(* Abstractions: the system messages at the head of chat_history, which    *)
(* nothing here removes, are left out and lengths count from behind them;  *)
(* a turn makes one checkpoint, so the turn's number is its id; the        *)
(* messages of a tool round are one entry.                                 *)
(***************************************************************************)
EXTENDS Naturals, Sequences, FiniteSets

CONSTANTS
  Messages,        \* user messages, each submitted at most once
  MaxCheckpoints,  \* 12 in _create_reply_checkpoint
  MaxCommands,     \* bound: commands that are accepted or completed
  MaxTrims,        \* bound: times trim_history removes something
  MaxToolRounds    \* bound: tool rounds of all turns

ASSUME ReplyTurnsAssumption ==
  /\ MaxCheckpoints \in Nat \ {0}
  /\ MaxCommands \in Nat
  /\ MaxTrims \in Nat
  /\ MaxToolRounds \in Nat

VARIABLES
  submitted,    \* messages brain_processor has taken from inbound_queue
  queue,        \* inputs in the actor's queue; _STOP is ctl = "joining"
  worker,       \* the actor's _run task: "none" (or done), or "idle"/"busy"
  phase,        \* where the handler task of turn Len(inputs) is
  cancelled,    \* cancel() was called on it and has not reached it
  index,        \* its turn_input_index
  replay,       \* <<input>> it will submit at its end, or <<>>
  inputs,       \* inputs[t]: what turn t answers
  outcome,      \* outcome[t]: the last finish_reason told of turn t, or ""
  modelEnded,   \* turns whose last model call ended (history)
  replayed,     \* turns finalized with a replay_input (history)
  chat,         \* chat_history
  checkpoints,  \* reply_checkpoints
  activeTurn,   \* active_turn, or 0
  pending,      \* pending_command
  latestReplay, \* turn of latest_replay_input, or 0
  lastFinish,   \* last_finish_reason
  ctl,          \* where brain_processor is
  named,        \* the turn the command in progress was accepted for
  awaited,      \* the turn whose handler task cancel_current awaits
  ctlReplay,    \* <<input>> brain_processor will submit, or <<>>
  regenerated,  \* regenerated[m]: regenerations of an ended turn (history)
  commands,     \* commands so far
  trims,        \* removals of trim_history so far
  toolRounds    \* tool rounds so far

actorVars   == <<queue, worker, phase, cancelled, index, replay, inputs>>
brainVars   == <<chat, checkpoints, activeTurn, pending, latestReplay,
                 lastFinish>>
controlVars == <<ctl, named, awaited, ctlReplay>>
counters    == <<regenerated, commands, trims, toolRounds>>
vars == <<submitted, actorVars, outcome, modelEnded, replayed, brainVars,
          controlVars, counters>>

Input    == [msg : Messages, guided : BOOLEAN]
Actions  == {"stop", "append_guidance", "regenerate", "rollback"}
Nothing  == [action |-> "none", cp |-> 0]
Reasons  == {"", "completed", "stopped", "replayed", "rolled_back", "failed"}
Phases   == {"none", "created", "starting", "indexed", "streaming", "replied",
             "publishing", "persisting", "failing", "ending"}
\* Inside the try of _process_session_execution.
InTry    == Phases \ {"none", "created", "failing", "ending"}

\* The turn the handler task works on.
turn == Len(inputs)

-----------------------------------------------------------------------------
(* Brain: checkpoints and the reply-control state.                         *)

CheckpointIds == {c.id : c \in checkpoints}
LengthAt(id)  == (CHOOSE c \in checkpoints : c.id = id).len

\* The newest MaxCheckpoints of a set of checkpoints.
Newest(cps) ==
  {c \in cps : Cardinality({d \in cps : d.id > c.id}) < MaxCheckpoints}

CreateReplyCheckpoint ==
  checkpoints' = Newest(checkpoints \cup {[id |-> turn, len |-> index]})

\* A checkpoint at or beyond the end of the history removes nothing.
RestoredChat(id) ==
  IF LengthAt(id) < Len(chat) THEN SubSeq(chat, 1, LengthAt(id)) ELSE chat

RestoreReplyCheckpoint(id) ==
  /\ chat' = RestoredChat(id)
  /\ checkpoints' = {c \in checkpoints : c.len <= LengthAt(id)}
  /\ activeTurn' = 0
  /\ pending' = Nothing

\* finalize_reply_control(turn_id = t, interrupted = True): whether it does
\* anything, the finish_reason and the replay_input it returns, and what it
\* changes.
Finalizes(t) == activeTurn # 0 /\ activeTurn = t

\* Mutant of FinishReason: the stored reason, whoever it belongs to.
FinishReasonStored(t) == IF lastFinish = "" THEN "stopped" ELSE lastFinish

FinishReason(t) ==
  IF ~Finalizes(t) THEN IF lastFinish = "" THEN "stopped" ELSE lastFinish
  ELSE CASE pending.action \in {"append_guidance", "regenerate"} -> "replayed"
         [] pending.action = "rollback" -> "rolled_back"
         [] OTHER -> "stopped"

ReplayInput(t) ==
  IF Finalizes(t) /\ pending.action \in {"append_guidance", "regenerate"}
  THEN <<[msg    |-> inputs[t].msg,
          guided |-> inputs[t].guided \/ pending.action = "append_guidance"]>>
  ELSE <<>>

Replayed(t) == IF ReplayInput(t) = <<>> THEN replayed ELSE replayed \cup {t}

FinalizeReplyControl(t) ==
  \/ /\ ~Finalizes(t)
     /\ UNCHANGED <<chat, checkpoints, activeTurn, pending, lastFinish>>
  \/ /\ Finalizes(t)
     /\ pending.action \in {"append_guidance", "regenerate", "rollback"}
     /\ RestoreReplyCheckpoint(pending.cp)
     /\ lastFinish' = FinishReason(t)
  \/ /\ Finalizes(t)
     /\ pending.action \in {"none", "stop"}
     /\ activeTurn' = 0
     /\ pending' = Nothing
     /\ lastFinish' = FinishReason(t)
     /\ UNCHANGED <<chat, checkpoints>>

MarkReplyTurnFailed(t) ==
  \/ /\ ~Finalizes(t)
     /\ UNCHANGED <<chat, checkpoints, activeTurn, pending, lastFinish>>
  \/ /\ Finalizes(t)
     /\ t \in CheckpointIds
     /\ RestoreReplyCheckpoint(t)
     /\ lastFinish' = "failed"
  \/ /\ Finalizes(t)
     /\ t \notin CheckpointIds
     /\ activeTurn' = 0
     /\ pending' = Nothing
     /\ lastFinish' = "failed"
     /\ UNCHANGED <<chat, checkpoints>>

-----------------------------------------------------------------------------
(* The session actor.                                                      *)

\* enqueue: _ensure_started, then put.
Enqueue(inps) ==
  /\ queue' = queue \o inps
  /\ worker' = IF worker = "none" THEN "idle" ELSE worker

\* _run takes the next payload and creates the handler task.
TakePayload ==
  /\ worker = "idle"
  /\ queue # <<>>
  /\ queue' = Tail(queue)
  /\ worker' = "busy"
  /\ phase' = "created"
  /\ inputs' = Append(inputs, Head(queue))
  /\ outcome' = Append(outcome, "")
  /\ UNCHANGED <<replayed, submitted, cancelled, index, replay, modelEnded,
                 brainVars, controlVars, counters>>

\* _run takes _STOP, which is behind every payload.
TakeStop ==
  /\ worker = "idle"
  /\ queue = <<>>
  /\ ctl = "joining"
  /\ worker' = "none"
  /\ UNCHANGED <<replayed, submitted, queue, phase, cancelled, index, replay,
                 inputs, outcome, modelEnded, brainVars, controlVars, counters>>

\* Mutant of HandlerDone: whatever ends the handler ends _run.
HandlerDoneEndsRun ==
  /\ phase' = "none"
  /\ worker' = "none"
  /\ cancelled' = FALSE
  /\ replay' = <<>>

\* The handler task returns or raises an Exception: _run goes on.
HandlerDone ==
  /\ phase' = "none"
  /\ worker' = "idle"
  /\ cancelled' = FALSE
  /\ replay' = <<>>

-----------------------------------------------------------------------------
(* The handler task.                                                       *)

Running(p) == phase = p /\ ~cancelled

\* Up to the first await inside the try: pending updates, stream start.
BeginTurn ==
  /\ Running("created")
  /\ phase' = "starting"
  /\ UNCHANGED <<replayed, submitted, queue, worker, cancelled, index, replay,
                 inputs, outcome, modelEnded, brainVars, controlVars, counters>>

\* input_brain reads the length of the history, then awaits memory.
TakeIndex ==
  /\ Running("starting")
  /\ phase' = "indexed"
  /\ index' = Len(chat)
  /\ UNCHANGED <<replayed, submitted, queue, worker, cancelled, replay,
                 inputs, outcome, modelEnded, brainVars, controlVars, counters>>

\* The checkpoint at that length, the active turn, the input appended.
ActivateTurn ==
  /\ Running("indexed")
  /\ phase' = "streaming"
  /\ CreateReplyCheckpoint
  /\ activeTurn' = turn
  /\ pending' = Nothing
  /\ chat' = Append(chat, [turn |-> turn, role |-> "user"])
  /\ UNCHANGED <<replayed, submitted, queue, worker, cancelled, index, replay,
                 inputs, outcome, modelEnded, latestReplay, lastFinish,
                 controlVars, counters>>

\* Tool messages go first, then replies, then user messages.
TrimPriority(entry) ==
  CASE entry.role = "tool" -> 0 [] entry.role = "assistant" -> 2
    [] entry.role = "user" -> 3

\* Positions trim_history removes before position i, never the last two.
TrimsBefore(j, i) ==
  \/ TrimPriority(chat[j]) < TrimPriority(chat[i])
  \/ TrimPriority(chat[j]) = TrimPriority(chat[i]) /\ j < i

\* trim_history, at the turn's start or when the budget is exceeded.  How
\* many go depends on the tokens; which ones on the priorities.
TrimHistory ==
  /\ Running("streaming")
  /\ trims < MaxTrims
  /\ trims' = trims + 1
  /\ \E gone \in SUBSET (1 .. Len(chat)) :
       /\ gone # {}
       /\ \A i \in gone : i + 2 <= Len(chat)
       /\ \A i \in gone, j \in 1 .. Len(chat) :
            j + 2 <= Len(chat) /\ TrimsBefore(j, i) => j \in gone
       /\ LET Position(k) == CHOOSE i \in (1 .. Len(chat)) \ gone :
                Cardinality({j \in (1 .. i) : j \notin gone}) = k
          IN chat' = [k \in 1 .. (Len(chat) - Cardinality(gone))
                        |-> chat[Position(k)]]
  /\ UNCHANGED <<replayed, submitted, actorVars, outcome, modelEnded,
                 checkpoints, activeTurn, pending, latestReplay, lastFinish,
                 controlVars, regenerated, commands, toolRounds>>

ToolRound ==
  /\ Running("streaming")
  /\ toolRounds < MaxToolRounds
  /\ toolRounds' = toolRounds + 1
  /\ chat' = Append(chat, [turn |-> turn, role |-> "tool"])
  /\ UNCHANGED <<replayed, submitted, actorVars, outcome, modelEnded,
                 checkpoints, activeTurn, pending, latestReplay, lastFinish,
                 controlVars, regenerated, commands, trims>>

\* The model call ends without a tool call; the usage event is yielded next.
\* Without content, as after an error event of the stream, which is logged,
\* there is no reply to append, and the turn completes all the same.
AppendReply ==
  /\ Running("streaming")
  /\ phase' = "replied"
  /\ chat' \in {chat, Append(chat, [turn |-> turn, role |-> "assistant"])}
  /\ modelEnded' = modelEnded \cup {turn}
  /\ UNCHANGED <<replayed, submitted, queue, worker, cancelled, index, replay,
                 inputs, outcome, checkpoints, activeTurn, pending,
                 latestReplay, lastFinish, controlVars, counters>>

\* Mutant of CompleteTurn: the pending command stays.
CompleteTurnKeepsCommand ==
  /\ Running("replied")
  /\ phase' = "publishing"
  /\ latestReplay' = turn
  /\ activeTurn' = 0
  /\ lastFinish' = "completed"
  /\ UNCHANGED <<replayed, submitted, queue, worker, cancelled, index, replay,
                 inputs, outcome, modelEnded, chat, checkpoints, pending,
                 controlVars, counters>>

CompleteTurn ==
  /\ Running("replied")
  /\ phase' = "publishing"
  /\ latestReplay' = turn
  /\ activeTurn' = 0
  /\ pending' = Nothing
  /\ lastFinish' = "completed"
  /\ UNCHANGED <<replayed, submitted, queue, worker, cancelled, index, replay,
                 inputs, outcome, modelEnded, chat, checkpoints, controlVars,
                 counters>>

\* emit_stream_end; the message is persisted next.
EndStream ==
  /\ Running("publishing")
  /\ phase' = "persisting"
  /\ outcome' = [outcome EXCEPT ![turn] = "completed"]
  /\ UNCHANGED <<replayed, submitted, queue, worker, cancelled, index, replay,
                 inputs, modelEnded, brainVars, controlVars, counters>>

PersistMessage ==
  /\ Running("persisting")
  /\ HandlerDone
  /\ UNCHANGED <<replayed, submitted, queue, index, inputs, outcome, modelEnded,
                 brainVars, controlVars, counters>>

\* except Exception: the turn failed, and the error is emitted next.
FailTurn ==
  /\ phase \in InTry
  /\ ~cancelled
  /\ phase' = "failing"
  /\ MarkReplyTurnFailed(turn)
  /\ outcome' = [outcome EXCEPT ![turn] = "failed"]
  /\ UNCHANGED <<replayed, submitted, queue, worker, cancelled, index, replay,
                 inputs, modelEnded, latestReplay, controlVars, counters>>

EmitError ==
  /\ Running("failing")
  /\ HandlerDone
  /\ UNCHANGED <<replayed, submitted, queue, index, inputs, outcome, modelEnded,
                 brainVars, controlVars, counters>>

\* Mutant of InterruptTurn: only an active turn handles its cancellation.
InterruptActiveTurn ==
  /\ cancelled
  /\ activeTurn = turn
  /\ phase' = "ending"
  /\ cancelled' = FALSE
  /\ replay' = ReplayInput(turn)
  /\ replayed' = Replayed(turn)
  /\ outcome' = [outcome EXCEPT ![turn] = FinishReason(turn)]
  /\ FinalizeReplyControl(turn)
  /\ UNCHANGED <<submitted, queue, worker, index, inputs, modelEnded,
                 latestReplay, controlVars, counters>>

\* except CancelledError: finalize, end the stream, emit the result next.
InterruptTurn ==
  /\ cancelled
  /\ phase \in InTry
  /\ phase' = "ending"
  /\ cancelled' = FALSE
  /\ replay' = ReplayInput(turn)
  /\ replayed' = Replayed(turn)
  /\ outcome' = [outcome EXCEPT ![turn] = FinishReason(turn)]
  /\ FinalizeReplyControl(turn)
  /\ UNCHANGED <<submitted, queue, worker, index, inputs, modelEnded,
                 latestReplay, controlVars, counters>>

\* CancelledError before the first step or inside except Exception: it
\* leaves the handler, and _run raises it too.
CancelEscapes ==
  /\ cancelled
  /\ phase \in {"created", "failing"}
  /\ phase' = "none"
  /\ worker' = "none"
  /\ cancelled' = FALSE
  /\ UNCHANGED <<replayed, submitted, queue, index, replay, inputs, outcome,
                 modelEnded, brainVars, controlVars, counters>>

\* Mutant of EndInterrupted: a replay gives way to queued messages.
EndInterruptedGivesWay ==
  /\ phase = "ending"
  /\ HandlerDone
  /\ queue' = IF queue # <<>> THEN queue ELSE queue \o replay
  /\ UNCHANGED <<replayed, submitted, index, inputs, outcome, modelEnded,
                 brainVars, controlVars, counters>>

\* The replay is submitted; a closed runtime raises, which _run logs.
EndInterrupted ==
  /\ phase = "ending"
  /\ HandlerDone
  /\ queue' = IF ctl \in {"closing", "joining"} THEN queue
              ELSE queue \o replay
  /\ UNCHANGED <<replayed, submitted, index, inputs, outcome, modelEnded,
                 brainVars, controlVars, counters>>

-----------------------------------------------------------------------------
(* brain_processor.                                                        *)

SubmitMessage(m) ==
  /\ ctl = "idle"
  /\ m \notin submitted
  /\ submitted' = submitted \cup {m}
  /\ Enqueue(<<[msg |-> m, guided |-> FALSE]>>)
  /\ UNCHANGED <<replayed, phase, cancelled, index, replay, inputs, outcome,
                 modelEnded, brainVars, controlVars, counters>>

Command ==
  /\ ctl = "idle"
  /\ commands < MaxCommands
  /\ commands' = commands + 1
  /\ UNCHANGED <<trims, toolRounds>>

\* request_reply_control while a turn is active: the command is accepted and
\* its result emitted.
AcceptCommand(action, cp) ==
  /\ Command
  /\ activeTurn # 0
  /\ cp \in IF action = "rollback" THEN CheckpointIds ELSE {activeTurn}
  /\ pending' = [action |-> action, cp |-> cp]
  /\ ctl' = "emitting"
  /\ named' = activeTurn
  /\ UNCHANGED <<replayed, submitted, actorVars, outcome, modelEnded, chat,
                 checkpoints, activeTurn, latestReplay, lastFinish, awaited,
                 ctlReplay, regenerated>>

\* regenerate and rollback while no turn is active.
RegenerateEnded ==
  /\ Command
  /\ activeTurn = 0
  /\ latestReplay \in CheckpointIds
  /\ RestoreReplyCheckpoint(latestReplay)
  /\ ctl' = "replaying"
  /\ ctlReplay' = <<inputs[latestReplay]>>
  /\ regenerated' = [regenerated EXCEPT ![inputs[latestReplay].msg] = @ + 1]
  /\ UNCHANGED <<replayed, submitted, actorVars, outcome, modelEnded,
                 latestReplay, lastFinish, named, awaited>>

RollbackEnded(cp) ==
  /\ Command
  /\ activeTurn = 0
  /\ cp \in CheckpointIds
  /\ RestoreReplyCheckpoint(cp)
  /\ lastFinish' = "rolled_back"
  /\ UNCHANGED <<replayed, submitted, actorVars, outcome, modelEnded,
                 latestReplay, controlVars, regenerated>>

\* After the emits: cancel_current, which awaits the handler task it finds.
CancelCurrent ==
  /\ ctl = "emitting"
  /\ phase # "none"
  /\ cancelled' = TRUE
  /\ awaited' = turn
  /\ ctl' = "cancelling"
  /\ UNCHANGED <<replayed, submitted, queue, worker, phase, index, replay,
                 inputs, outcome, modelEnded, brainVars, named, ctlReplay,
                 counters>>

\* There is no handler task: brain_processor finalizes by itself.
NothingToCancel ==
  /\ ctl = "emitting"
  /\ phase = "none"
  /\ FinalizeReplyControl(named)
  /\ replayed' = Replayed(named)
  /\ ctlReplay' = ReplayInput(named)
  /\ ctl' = "replaying"
  /\ UNCHANGED <<submitted, actorVars, outcome, modelEnded, latestReplay, named,
                 awaited, counters>>

HandlerGone == phase = "none" \/ turn # awaited

CancelReturns ==
  /\ ctl = "cancelling"
  /\ HandlerGone
  /\ ctl' = "idle"
  /\ UNCHANGED <<replayed, submitted, actorVars, outcome, modelEnded, brainVars,
                 named, awaited, ctlReplay, counters>>

SubmitReplay ==
  /\ ctl = "replaying"
  /\ ctl' = "idle"
  /\ ctlReplay' = <<>>
  /\ IF ctlReplay = <<>> THEN UNCHANGED <<queue, worker>>
     ELSE Enqueue(ctlReplay)
  /\ UNCHANGED <<replayed, submitted, phase, cancelled, index, replay, inputs,
                 outcome, modelEnded, brainVars, named, awaited, counters>>

\* brain_processor ends: stop() cancels the current turn, ...
Shutdown ==
  /\ ctl = "idle"
  /\ ctl' = "closing"
  /\ awaited' = turn
  /\ cancelled' = (phase # "none")
  /\ UNCHANGED <<replayed, submitted, queue, worker, phase, index, replay,
                 inputs, outcome, modelEnded, brainVars, named, ctlReplay,
                 counters>>

\* ... restarts a worker that died, puts _STOP behind the queue, ...
PutStop ==
  /\ ctl = "closing"
  /\ HandlerGone
  /\ ctl' = "joining"
  /\ Enqueue(<<>>)
  /\ UNCHANGED <<replayed, submitted, phase, cancelled, index, replay, inputs,
                 outcome, modelEnded, brainVars, named, awaited, ctlReplay,
                 counters>>

\* ... and awaits the worker.
WorkerJoined ==
  /\ ctl = "joining"
  /\ worker = "none"
  /\ ctl' = "closed"
  /\ UNCHANGED <<replayed, submitted, actorVars, outcome, modelEnded, brainVars,
                 named, awaited, ctlReplay, counters>>

-----------------------------------------------------------------------------
Init ==
  /\ submitted = {}
  /\ queue = <<>> /\ worker = "none"
  /\ phase = "none" /\ cancelled = FALSE /\ index = 0 /\ replay = <<>>
  /\ inputs = <<>> /\ outcome = <<>> /\ modelEnded = {}
  /\ replayed = {}
  /\ chat = <<>> /\ checkpoints = {} /\ activeTurn = 0 /\ pending = Nothing
  /\ latestReplay = 0 /\ lastFinish = ""
  /\ ctl = "idle" /\ named = 0 /\ awaited = 0 /\ ctlReplay = <<>>
  /\ regenerated = [m \in Messages |-> 0]
  /\ commands = 0 /\ trims = 0 /\ toolRounds = 0

\* A turn that nobody cancels: the model, the tools and the emits end.
TurnStep ==
  \/ BeginTurn \/ TakeIndex \/ ActivateTurn \/ AppendReply \/ CompleteTurn
  \/ EndStream \/ PersistMessage \/ FailTurn \/ EmitError

CancelStep == InterruptTurn \/ CancelEscapes \/ EndInterrupted

WorkerStep == TakePayload \/ TakeStop

ControlStep ==
  \/ CancelCurrent \/ NothingToCancel \/ CancelReturns \/ SubmitReplay
  \/ PutStop \/ WorkerJoined

Next ==
  \/ TurnStep \/ CancelStep \/ WorkerStep \/ ControlStep
  \/ TrimHistory \/ ToolRound
  \/ \E m \in Messages : SubmitMessage(m)
  \/ \E action \in Actions, cp \in CheckpointIds \cup {activeTurn} :
       AcceptCommand(action, cp)
  \/ RegenerateEnded
  \/ \E cp \in CheckpointIds : RollbackEnded(cp)
  \/ Shutdown

Spec == Init /\ [][Next]_vars

\* Tasks that are not waiting run; a model call ends or times out.
FairSpec ==
  Spec /\ WF_vars(TurnStep) /\ WF_vars(CancelStep) /\ WF_vars(WorkerStep)
       /\ WF_vars(ControlStep)

-----------------------------------------------------------------------------
(* Properties.                                                             *)

\* Types; never more checkpoints than _create_reply_checkpoint keeps.
TypeOK ==
  /\ submitted \subseteq Messages
  /\ queue \in Seq(Input)
  /\ worker \in {"none", "idle", "busy"}
  /\ phase \in Phases
  /\ cancelled \in BOOLEAN
  /\ index \in Nat
  /\ replay \in Seq(Input)
  /\ inputs \in Seq(Input)
  /\ outcome \in Seq(Reasons) /\ Len(outcome) = Len(inputs)
  /\ modelEnded \subseteq 1 .. turn /\ replayed \subseteq 1 .. turn
  /\ chat \in Seq([turn : Nat, role : {"user", "tool", "assistant"}])
  /\ checkpoints \subseteq [id : Nat, len : Nat]
  /\ Cardinality(checkpoints) <= MaxCheckpoints
  /\ activeTurn \in 0 .. turn
  /\ pending \in [action : Actions \cup {"none"}, cp : Nat]
  /\ latestReplay \in 0 .. turn
  /\ lastFinish \in Reasons
  /\ ctl \in {"idle", "emitting", "cancelling", "replaying", "closing",
              "joining", "closed"}
  /\ named \in 0 .. turn /\ awaited \in 0 .. turn
  /\ ctlReplay \in Seq(Input)
  /\ regenerated \in [Messages -> Nat]
  /\ commands \in 0 .. MaxCommands
  /\ trims \in 0 .. MaxTrims
  /\ toolRounds \in 0 .. MaxToolRounds

\* The turn that reply-control commands act on is the turn the handler task
\* is working on: no way through completion, failure or cancellation leaves
\* an active turn behind, to which later commands would be accepted.
ActiveTurnIsRunning ==
  activeTurn # 0 => phase \in {"streaming", "replied"} /\ activeTurn = turn

\* A command waiting to be applied belongs to the turn it was accepted for,
\* brain_processor is still serving it, and its checkpoint exists, so that
\* finalize_reply_control, which runs inside except CancelledError, does not
\* raise and does not apply it to another turn.
PendingIsServable ==
  pending # Nothing =>
    /\ ctl \in {"emitting", "cancelling"}
    /\ activeTurn # 0 /\ activeTurn = named
    /\ pending.cp \in CheckpointIds

\* The turn may end while the result of its command is emitted; what is
\* cancelled then is the handler of the next turn, if it has begun.  Such a
\* cancellation carries no command: that turn is stopped, but nothing of it is
\* replayed and nothing rolled back.
StrayCancelOnlyStops ==
  ctl = "cancelling" /\ awaited # named => pending = Nothing /\ replay = <<>>

\* All three, and the type: whichever end of a turn a command races with, it
\* is applied to the turn it was accepted for or to none; the cancellation
\* that goes with it may stop another.
OnlyTheStopStrays ==
  TypeOK /\ ActiveTurnIsRunning /\ PendingIsServable /\ StrayCancelOnlyStops

\* Where the input of message m can be: in a turn, in the queue, or about to
\* be submitted by an interrupted turn or by brain_processor.
Copies(m) ==
  LET In(s) == Cardinality({i \in DOMAIN s : s[i].msg = m})
  IN In(inputs) + In(queue) + In(replay) + In(ctlReplay)

\* A replay is neither lost nor made twice: the inputs made of a message are
\* the one that was submitted and one for each turn that was replayed and
\* each ended turn that was regenerated, whoever submits them and whatever
\* else is queued.
ReplayedOnce ==
  \A m \in Messages :
    Copies(m) = (IF m \in submitted THEN 1 ELSE 0)
                + Cardinality({t \in replayed : inputs[t].msg = m})
                + regenerated[m]

\* Inputs wait without a worker only after a cancellation that reached the
\* last turn before its first step or while it reported a failure: no other
\* end of a turn ends the worker.
StrandedOnlyByEscape ==
  queue # <<>> /\ worker = "none" => turn > 0 /\ outcome[turn] \in {"", "failed"}

\* A turn that has entered the history is told its own end: completed only if
\* its model call ended (with a reply or, silently, without content), replayed
\* only if its input is replayed.  Only a turn cancelled before that is told
\* the finish_reason of the turn before it.
OutcomeIsOwn ==
  \A t \in DOMAIN outcome :
    \/ \A i \in DOMAIN chat : chat[i].turn # t
    \/ /\ outcome[t] = "completed" => t \in modelEnded
       /\ outcome[t] = "replayed" => t \in replayed

\* A command does not hang brain_processor, which serves every session: the
\* handler it cancels ends, wherever the cancellation finds it.
CommandReturns ==
  ctl \in {"emitting", "cancelling", "replaying"} ~> ctl = "idle"

\* Shutdown ends, and serves what was queued first, even when the worker had
\* died before.
ShutdownDrains == ctl = "closing" ~> ctl = "closed" /\ queue = <<>>

\* A turn that was replayed has left nothing in the history.
ReplayedLeavesNoTrace ==
  \A t \in replayed, i \in DOMAIN chat : chat[i].turn # t
=============================================================================
