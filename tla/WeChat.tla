------------------------------- MODULE WeChat -------------------------------
(***************************************************************************)
(* The MeetWeChat provider, sensors/meetwechat_adapter.py: chat messages   *)
(* (events) are polled from the MeetWeChat service, handed to the core     *)
(* under the event's identity, answered in the chat and acknowledged.      *)
(*                                                                         *)
(* Events of one chat are handled one after the other; the handler waits   *)
(* for the reply, which comes over the web sockets the adapter keeps: one  *)
(* per chat, and one for the provider.  Statuses and acknowledgements that *)
(* are still to be repeated are kept in a file written with a delay, the   *)
(* poll cursor and the replies under way only in memory.                   *)
(* Left out: a chat message that answers a pending confirmation or         *)
(* question, which _handle_event sends as a response or, if that fails, as *)
(* a command, and acknowledges without submitting it as a message; and the *)
(* clearing of the remembered keys once there are more than 4096.          *)
(***************************************************************************)
EXTENDS Naturals, Sequences

CONSTANTS
    Events,         \* chat messages; the core's reply to e is message e
    Notices,        \* messages the core sends to a chat on its own
    Chat,           \* Chat[m]: the chat of an event or a notice
    Ignored,        \* events that are skipped: own, not text, muted
    ReadOnly,       \* events of a chat that is only read
    QueueSize,      \* meetwechat_outbound_queue_size
    MaxFaults,      \* bound on failed requests and lost frames
    MaxKills,       \* bound on crashes
    provider,       \* the provider's own web socket
    nobody          \* no event, no message

ASSUME WeChatAssumption ==
    /\ Events \cap Notices = {}
    /\ Chat \in [Events \cup Notices -> {Chat[m] : m \in Events \cup Notices}]
    /\ Ignored \subseteq Events /\ ReadOnly \subseteq Events
    /\ QueueSize \in Nat \ {0} /\ MaxFaults \in Nat /\ MaxKills \in Nat
    /\ provider \notin {Chat[m] : m \in Events \cup Notices}
    /\ nobody \notin Events \cup Notices

VARIABLES
    posted, acked,  \* the service: its events, and the acknowledged ones
    keys,           \* the service: idempotency keys, with the message sent under each
    accepted,       \* the core: events it has a message for
    told,           \* messages the core has published
    poll,           \* the poll loop: "ack", "get" or "join"
    batch,          \* events of the current poll
    passed,         \* events the cursor has passed
    handling,       \* handling[e]: where the handler of e is
    status,         \* status[e]: events[e].status in memory
    unacked,        \* ack_pending in memory
    file,           \* the state file: both as they were written last
    connected,      \* chats that have a web socket
    frames,         \* frames[s]: frames that socket s has still to handle
    awaited,        \* _pending_replies: the event each chat waits for
    result,         \* result[e]: the future of e
    finals,         \* _queued_final_keys
    outbound,       \* the outbound queue: pending event, index and message
    counts,         \* _outbound_message_counts
    direct,         \* direct[s]: the message that socket s sends itself
    sent,           \* history: how often each message went to its chat
    given,          \* history: events whose wait ended before their reply was out
    faults, kills   \* counters for the bounds

wechatVars ==
    <<posted, acked, keys, accepted, told, poll, batch, passed, handling, status, unacked,
      file, connected, frames, awaited, result, finals, outbound, counts, direct,
      sent, given, faults, kills>>
outside == <<posted, accepted, told, keys>>
polling == <<poll, batch, passed>>
handler == <<handling, status, result>>
replies == <<connected, frames, finals, outbound, counts, direct, sent>>
budget  == <<faults, kills>>

ChatMessages == Events \cup Notices
Chats    == {Chat[m] : m \in ChatMessages}
Sockets  == Chats \cup {provider}
\* Statuses that need no further handling.
Complete == {"sent", "skipped", "read_only", "blocked", "submitted"}
Status   == Complete \cup {"", "processing", "failed"}
Frame    == [type : {"completed", "message"}, msg : ChatMessages]

WeChatTypeOK ==
    /\ posted \subseteq Events /\ acked \subseteq posted /\ accepted \subseteq posted
    /\ told \subseteq ChatMessages
    /\ poll \in {"ack", "get", "join"}
    /\ batch \subseteq posted /\ passed \subseteq posted
    /\ handling \in [Events -> {"idle", "queued", "submitting", "waiting", "acking"}]
    /\ status \in [Events -> Status]
    /\ unacked \subseteq Events
    /\ file \in [status : [Events -> Status], unacked : SUBSET Events]
    /\ connected \subseteq Chats
    /\ frames \in [Sockets -> Seq(Frame)]
    /\ awaited \in [Chats -> Events \cup {nobody}]
    /\ result \in [Events -> {"open", "ok", "failed", "blocked", "cancelled"}]
    /\ finals \subseteq ChatMessages
    /\ outbound \in Seq([event : Events, index : Nat, msg : ChatMessages])
    /\ Len(outbound) <= QueueSize
    /\ counts \in [Events -> Nat]
    /\ keys \subseteq [event : Events, index : Nat, msg : ChatMessages]
    /\ direct \in [Sockets -> ChatMessages \cup {nobody}]
    /\ sent \in [ChatMessages -> Nat]
    /\ given \subseteq Events
    /\ faults \in 0..MaxFaults /\ kills \in 0..MaxKills

WeChatInit ==
    /\ posted = {} /\ acked = {} /\ accepted = {}
    /\ told = {}
    /\ poll = "ack" /\ batch = {} /\ passed = {}
    /\ handling = [e \in Events |-> "idle"]
    /\ status = [e \in Events |-> ""]
    /\ unacked = {}
    /\ file = [status |-> status, unacked |-> {}]
    /\ connected = {}
    /\ frames = [s \in Sockets |-> << >>]
    /\ awaited = [c \in Chats |-> nobody]
    /\ result = [e \in Events |-> "open"]
    /\ finals = {} /\ outbound = << >> /\ keys = {}
    /\ counts = [e \in Events |-> 0]
    /\ direct = [s \in Sockets |-> nobody]
    /\ sent = [m \in ChatMessages |-> 0]
    /\ given = {}
    /\ faults = 0 /\ kills = 0

Fault   == faults < MaxFaults /\ faults' = faults + 1 /\ UNCHANGED kills
NoFault == UNCHANGED budget

-----------------------------------------------------------------------------
(* The poll loop.                                                          *)

Arrive(e) ==
    /\ e \notin posted
    /\ posted' = posted \cup {e}
    /\ UNCHANGED <<acked, keys, accepted, told, polling, handler, unacked, file, replies,
                   awaited, given, budget>>

\* _ack_event_ids: on success E are no longer to be acknowledged; a request
\* that fails may have reached the service.
Acknowledged(E) == acked' = acked \cup E /\ unacked' = unacked \ E /\ NoFault
AckFailed(E) == acked' \in {acked, acked \cup E} /\ unacked' = unacked \cup E /\ Fault

\* _ack_pending_events at the head of the loop.
AckPending ==
    /\ poll = "ack" /\ poll' = "get"
    /\ Acknowledged(unacked) \/ (unacked # {} /\ AckFailed(unacked))
    /\ UNCHANGED <<outside, batch, passed, handler, file, replies, awaited, given>>

\* get_events and handle_events: what the service has after the cursor and not
\* acknowledged, all put in the inbound queue.
GetEvents ==
    /\ poll = "get" /\ poll' = "join"
    /\ batch' = posted \ (acked \cup passed)
    /\ handling' = [e \in Events |-> IF e \in batch' THEN "queued" ELSE handling[e]]
    /\ UNCHANGED <<outside, acked, passed, status, result, unacked, file, replies,
                   awaited, given, budget>>

PollFails ==
    /\ poll = "get" /\ poll' = "ack"
    /\ Fault
    /\ UNCHANGED <<outside, acked, batch, passed, handler, unacked, file, replies,
                   awaited, given>>

\* Bug: the cursor passes events that are still to be retried.
AdvanceAlways == passed' = passed \cup batch

\* _events_are_complete_for_cursor_advance
Advance == passed' = IF \A e \in batch : status[e] \in Complete
                     THEN passed \cup batch ELSE passed

\* The queue is joined, the cursor advanced or held.
Joined ==
    /\ poll = "join" /\ poll' = "ack"
    /\ \A e \in batch : handling[e] = "idle"
    /\ Advance
    /\ batch' = {}
    /\ UNCHANGED <<outside, acked, handler, unacked, file, replies, awaited, given, budget>>

-----------------------------------------------------------------------------
(* The handler of an event.                                                *)

Step(e, from, to, s) ==
    /\ handling[e] = from
    /\ handling' = [handling EXCEPT ![e] = to]
    /\ status' = [status EXCEPT ![e] = s]

\* The conversation lock of the chat.
Locked(c) == \E e \in Events : Chat[e] = c /\ handling[e] \in {"submitting", "waiting", "acking"}

\* An event that is complete, or is to be ignored, is only acknowledged.
Skip(e) ==
    /\ ~Locked(Chat[e])
    /\ \/ status[e] \in Complete /\ Step(e, "queued", "acking", status[e])
       \/ /\ status[e] \notin Complete /\ e \in Ignored
          /\ Step(e, "queued", "acking", "skipped")
    /\ UNCHANGED <<outside, acked, polling, result, unacked, file, replies, awaited,
                   given, budget>>

\* "processing", the chat's web socket, begin_event, for a message that answers
\* no pending confirmation or question.
Begin(e) ==
    LET c == Chat[e]
    IN  /\ ~Locked(c)
        /\ status[e] \notin Complete /\ e \notin Ignored
        /\ Step(e, "queued", "submitting", "processing")
        /\ connected' = connected \cup {c}
        /\ awaited' = [awaited EXCEPT ![c] = e]
        /\ result' = [f \in Events |-> IF f = e THEN "open"
                                       ELSE IF f = awaited[c] /\ result[f] = "open" THEN "cancelled"
                                       ELSE result[f]]
        /\ UNCHANGED <<outside, acked, polling, unacked, file, frames, finals, outbound,
                       counts, direct, sent, given, budget>>

\* The web socket cannot be opened: the worker logs the exception.
BeginFails(e) ==
    /\ ~Locked(Chat[e])
    /\ status[e] \notin Complete /\ e \notin Ignored
    /\ Step(e, "queued", "idle", "processing")
    /\ Fault
    /\ UNCHANGED <<outside, acked, polling, result, unacked, file, replies, awaited, given>>

\* discard_pending: the chat's entry, if it is still that of e.
Discard(e) ==
    IF awaited[Chat[e]] = e
    THEN /\ awaited' = [awaited EXCEPT ![Chat[e]] = nobody]
         /\ result' = [result EXCEPT ![e] = IF @ = "open" THEN "cancelled" ELSE @]
    ELSE UNCHANGED <<awaited, result>>

\* send_message with the event's identity: the core takes it once.
Submit(e) ==
    /\ handling[e] = "submitting"
    /\ \/ /\ e \notin accepted
          /\ Step(e, "submitting", "waiting", "submitted")
          /\ accepted' = accepted \cup {e}
          /\ UNCHANGED <<awaited, result, given>>
       \/ /\ e \in accepted                         \* idempotent_replay
          /\ Step(e, "submitting", "acking", "submitted")
          /\ Discard(e)
          /\ UNCHANGED <<accepted, given>>
    /\ UNCHANGED <<posted, acked, keys, told, polling, unacked, file, replies, budget>>

\* Bug: a message the core did not take is acknowledged.
SubmitFailsAcked(e) ==
    /\ Step(e, "submitting", "acking", "failed")
    /\ accepted' \in {accepted, accepted \cup {e}}
    /\ given' = given \cup {e}
    /\ Discard(e)
    /\ Fault
    /\ UNCHANGED <<posted, acked, keys, told, polling, unacked, file, replies>>

\* The request fails, or its answer is lost: not acknowledged, tried again.
SubmitFails(e) ==
    /\ Step(e, "submitting", "idle", "failed")
    /\ accepted' \in {accepted, accepted \cup {e}}
    /\ given' = given \cup {e}
    /\ Discard(e)
    /\ Fault
    /\ UNCHANGED <<posted, acked, keys, told, polling, unacked, file, replies>>

\* The future is completed.
Wake(e) ==
    /\ result[e] \in {"ok", "failed", "blocked"}
    /\ Step(e, "waiting", "acking",
            CASE result[e] = "blocked" -> "blocked"
              [] result[e] = "failed" -> "submitted"
              [] OTHER -> IF e \in ReadOnly THEN "read_only" ELSE "sent")
    /\ UNCHANGED <<outside, acked, polling, result, unacked, file, replies, awaited,
                   given, budget>>

\* reply_timeout_seconds; the core keeps the message and may answer later.
Timeout(e) ==
    /\ Step(e, "waiting", "acking", "submitted")
    /\ Discard(e)
    /\ given' = given \cup {e}
    /\ UNCHANGED <<outside, acked, polling, unacked, file, replies, budget>>

Ack(e) ==
    /\ Step(e, "acking", "idle", status[e])
    /\ Acknowledged({e}) \/ AckFailed({e})
    /\ UNCHANGED <<outside, polling, result, file, replies, awaited, given>>

-----------------------------------------------------------------------------
(* What comes from the core.                                               *)

\* The frames go to the sockets S that are open now; a connection that breaks
\* loses some at the end.
Publish(S, list) ==
    LET With(n) == [s \in Sockets |-> IF s \in S \cap (connected \cup {provider})
                                      THEN frames[s] \o SubSeq(list, 1, n) ELSE frames[s]]
    IN  \/ frames' = With(Len(list)) /\ NoFault
        \/ (\E n \in 0..(Len(list) - 1) : frames' = With(n)) /\ Fault

\* The turn of e completes: message.completed and delivery.message, one after
\* the other, to the subscribers of the chat's thread.  (The adapter is not
\* started anew between the two.)  A turn may also end without a reply.
CoreReplies(e) ==
    /\ e \in accepted \ told
    /\ told' = told \cup {e}
    /\ Publish({Chat[e]}, <<[type |-> "completed", msg |-> e], [type |-> "message", msg |-> e]>>)
    /\ UNCHANGED <<posted, acked, keys, accepted, polling, handler, unacked, file, connected,
                   awaited, finals, outbound, counts, direct, sent, given>>

\* send_to_endpoint: every socket of the endpoint, the provider's and the
\* chats'; a chat's socket ignores another chat's message.
CoreNotifies(n) ==
    /\ n \notin told
    /\ told' = told \cup {n}
    /\ Publish({provider, Chat[n]}, <<[type |-> "message", msg |-> n]>>)
    /\ UNCHANGED <<posted, acked, keys, accepted, polling, handler, unacked, file, connected,
                   awaited, finals, outbound, counts, direct, sent, given>>

\* _close_idle_endpoint_connections
CloseIdle(c) ==
    /\ c \in connected /\ ~Locked(c) /\ direct[c] = nobody
    /\ connected' = connected \ {c}
    /\ frames' = [frames EXCEPT ![c] = << >>]
    /\ UNCHANGED <<outside, acked, polling, handler, unacked, file, awaited, finals,
                   outbound, counts, direct, sent, given, budget>>

\* _complete_pending: whatever event the chat waits for now.  m is the message
\* the chat was told.
CompletePending(c, r, m) ==
    LET e == awaited[c]
    IN  /\ awaited' = [awaited EXCEPT ![c] = nobody]
        /\ IF e # nobody /\ result[e] = "open"
           THEN /\ result' = [result EXCEPT ![e] = r]
                /\ given' = IF m = e THEN given ELSE given \cup {e}
           ELSE UNCHANGED <<result, given>>

Queued(e, m) ==
    /\ outbound' = Append(outbound, [event |-> e, index |-> counts[e] + 1, msg |-> m])
    /\ UNCHANGED <<awaited, result, given>>

\* _enqueue_outbound: nothing is sent to a chat that is only read.
EnqueueReply(e, m) ==
    IF e \in ReadOnly
    THEN CompletePending(Chat[e], "ok", m) /\ UNCHANGED <<outbound, counts>>
    ELSE /\ counts' = [counts EXCEPT ![e] = @ + 1]
         /\ IF Len(outbound) = QueueSize
            THEN CompletePending(Chat[e], "failed", m) /\ UNCHANGED outbound
            ELSE Queued(e, m)

\* Bug: only delivery.message leaves its key.
RememberMessage(f) == finals' = IF f.type = "message" THEN finals \cup {f.msg} ELSE finals

\* _remember_final_delivery; here the key is remembered for ever.
Remember(f) == finals' = finals \cup {f.msg}

\* send_runtime_event for the next frame of socket s.  With a reply pending a
\* final message is queued for it, whoever it answers; without one a
\* delivery.message is sent at once, its key checked now and kept once it is
\* sent, and a message.completed is dropped.
Receive(s) ==
    /\ frames[s] # << >> /\ direct[s] = nobody
    /\ frames' = [frames EXCEPT ![s] = Tail(@)]
    /\ LET f == Head(frames[s])
           e == awaited[Chat[f.msg]]
       IN  \/ /\ e # nobody /\ f.msg \notin finals
              /\ Remember(f)
              /\ EnqueueReply(e, f.msg)
              /\ UNCHANGED direct
           \/ /\ e = nobody /\ f.type = "message" /\ f.msg \notin finals
              /\ direct' = [direct EXCEPT ![s] = f.msg]
              /\ UNCHANGED <<finals, outbound, counts, awaited, result, given>>
           \/ /\ f.msg \in finals \/ (e = nobody /\ f.type = "completed")
              /\ UNCHANGED <<finals, outbound, counts, awaited, result, given, direct>>
    /\ UNCHANGED <<outside, acked, polling, handling, status, unacked, file, connected, sent, budget>>

\* _send_direct_text is through: a failed send leaves no key.  The request may
\* have reached the chat although it failed.
DirectSent(s) ==
    LET m == direct[s]
    IN  /\ m # nobody
        /\ direct' = [direct EXCEPT ![s] = nobody]
        /\ \/ /\ sent' = [sent EXCEPT ![m] = @ + 1]
              /\ finals' = finals \cup {m}
              /\ NoFault
           \/ /\ sent' \in {sent, [sent EXCEPT ![m] = @ + 1]}
              /\ UNCHANGED finals
              /\ Fault
        /\ UNCHANGED <<outside, acked, polling, handler, unacked, file, connected, frames,
                       awaited, outbound, counts, given>>

\* The service sends the text of a new key, repeats its answer for a known one
\* and blocks a known one with another text.
SendText(o) ==
    /\ keys' = keys \cup {o}
    /\ sent' = IF o \in keys THEN sent ELSE [sent EXCEPT ![o.msg] = @ + 1]
Conflict(o) == \E k \in keys : k.event = o.event /\ k.index = o.index /\ k.msg # o.msg

\* An outbound worker sends the head of the queue, repeats included, and
\* completes the chat's pending reply.
OutboundSent ==
    /\ outbound # << >>
    /\ outbound' = Tail(outbound)
    /\ LET o == Head(outbound)
           c == Chat[o.event]
       IN  \/ /\ ~Conflict(o)
              /\ \/ SendText(o) /\ CompletePending(c, "ok", o.msg) /\ NoFault
                 \/ SendText(o) /\ CompletePending(c, "failed", o.msg) /\ Fault
           \/ CompletePending(c, "failed", o.msg) /\ Fault /\ UNCHANGED <<keys, sent>>
           \/ /\ CompletePending(c, "blocked", o.msg)
              /\ IF Conflict(o) THEN NoFault ELSE Fault
              /\ UNCHANGED <<keys, sent>>
    /\ UNCHANGED <<posted, accepted, told, acked, polling, handling, status, unacked, file,
                   connected, frames, finals, counts, direct>>

-----------------------------------------------------------------------------
(* The state file.                                                         *)

\* _flush_after_delay, and close.
Flush ==
    /\ file' = [status |-> status, unacked |-> unacked]
    /\ file' # file
    /\ UNCHANGED <<outside, acked, polling, handler, unacked, replies, awaited, given, budget>>

\* The process ends without a flush and is started again.
Kill ==
    /\ kills < MaxKills /\ kills' = kills + 1
    /\ poll' = "ack" /\ batch' = {} /\ passed' = {}
    /\ handling' = [e \in Events |-> "idle"]
    /\ status' = file.status
    /\ unacked' = file.unacked
    /\ connected' = {}
    /\ frames' = [s \in Sockets |-> << >>]
    /\ awaited' = [c \in Chats |-> nobody]
    /\ result' = [e \in Events |-> "open"]
    /\ finals' = {} /\ outbound' = << >>
    /\ counts' = [e \in Events |-> 0]
    /\ direct' = [s \in Sockets |-> nobody]
    /\ given' = given \cup (accepted \ told)
    /\ UNCHANGED <<outside, acked, file, sent, faults>>

-----------------------------------------------------------------------------
WeChatNext ==
    \/ \E e \in Events :
         \/ Arrive(e) \/ Skip(e) \/ Begin(e) \/ BeginFails(e) \/ Submit(e)
         \/ SubmitFails(e) \/ Wake(e) \/ Timeout(e) \/ Ack(e) \/ CoreReplies(e)
    \/ \E n \in Notices : CoreNotifies(n)
    \/ \E c \in Chats : CloseIdle(c)
    \/ \E s \in Sockets : Receive(s) \/ DirectSent(s)
    \/ AckPending \/ GetEvents \/ PollFails \/ Joined
    \/ OutboundSent \/ Flush \/ Kill

WeChatSpec == WeChatInit /\ [][WeChatNext]_wechatVars

\* The loop and the handlers run, and the timer of the wait fires.
PollStep == AckPending \/ GetEvents \/ Joined
HandlerStep(e) == Skip(e) \/ Begin(e) \/ Submit(e) \/ Wake(e) \/ Timeout(e) \/ Ack(e)

WeChatFairSpec ==
    /\ WeChatSpec
    /\ WF_wechatVars(PollStep) /\ \A e \in Events : WF_wechatVars(HandlerStep(e))

-----------------------------------------------------------------------------
(* Properties.                                                             *)

\* The service drops an event only when the core has it or the policy ignores
\* it: failed requests, lost answers and crashes before the state file is
\* written never lose a chat message.
AckedIsHandled == \A e \in acked : e \in accepted \/ e \in Ignored

\* An event the service still holds is on its way to be acknowledged: being
\* handled, on the list of acknowledgements to repeat, or ahead of the cursor
\* and so polled again.
NothingForgotten ==
    \A e \in posted \ acked : \/ handling[e] # "idle"
                              \/ e \in unacked
                              \/ e \notin passed

\* Both, and the type: at any moment an event is with the service or with the core.
NoEventLost == WeChatTypeOK /\ AckedIsHandled /\ NothingForgotten

\* The reply to an event goes to its chat at most once, although it comes in
\* two frames, before or after the wait is given up, around a crash and around
\* failed requests.
ReplySentOnce == \A e \in Events : sent[e] <= 1

\* A chat that is only read is sent no reply, unless its event was given up
\* before the reply came (then a delivery.message is sent whatever the policy).
ReadOnlyIsSilent == \A e \in ReadOnly : sent[e] > 0 => e \in given

\* Both: what is sent to a chat.
RepliesFollowPolicy == ReplySentOnce /\ ReadOnlyIsSilent

\* Every chat message is acknowledged in the end.
EventSettles == \A e \in Events : e \in posted ~> e \in acked

\* send_runtime_event: "final-message dedupe below prevents duplicate sends
\* when both receive it".
SentOnce == \A m \in ChatMessages : sent[m] <= 1
=============================================================================
