----------------------------- MODULE ThreadFeed -----------------------------
(***************************************************************************)
(* How a desktop client keeps up with a thread: the run events and frames  *)
(* that core/thread_delivery_bridge.py publishes for a turn, the           *)
(* subscription and its replay (gateway/endpoint_ws.py and                 *)
(* gateway/endpoint_frame_handlers.py), the socket of useMeetYouSocket.ts  *)
(* and the list of turns that chatState.ts keeps.                          *)
(*                                                                         *)
(* Only message.completed is durable.  A socket gets live frames from the  *)
(* moment it is subscribed and, one by one, the durable events there were  *)
(* when the replay listed them; both go out on one wire.  A history fetch  *)
(* replaces what is shown with what the server had when it answered.       *)
(* Every other case of the reducer prunes a list that has grown too long.  *)
(* The list also holds activities and system notices, which the model      *)
(* leaves out; they make the prune come earlier.  A replay also brings the *)
(* events of the thread's other branches; here there is one branch.        *)
(***************************************************************************)
EXTENDS Naturals, Sequences, FiniteSets

CONSTANTS
    Turns,          \* turns; a turn's reply is the message of the same name
    Users,          \* messages the user sends from this client
    MaxDeltas,      \* bound on the deltas of a turn
    MaxDrops,       \* bound on lost connections
    MaxFetches,     \* bound on history fetches
    MaxVisible,     \* MAX_VISIBLE_TURNS: the items that a client lists at most
    Retained        \* RETAINED_VISIBLE_TURNS: how many stay when it prunes

VARIABLES
    phase,          \* phase[t]: how far the core is with turn t
    deltas,         \* deltas[t]: run events of t before its completion
    log,            \* the durable message.completed events, in order
    stored,         \* user messages that have a row
    conn,           \* the client's socket: "down", "open", "acked", "live"
    replay,         \* durable events the replay has still to send
    wire,           \* frames under way to the client
    listed,         \* listed[m]: the items of the list that stand for m
    buffered,       \* turns with deltas in the 50 ms buffer
    posts,          \* posts[u]: the request that sends u
    responses,      \* history responses under way, as sets of messages
    overwritten,    \* history: messages that a response took off the list
    archived,       \* history: replies that a prune took off the list
    drops, fetches  \* counters for the bounds

feed == <<phase, deltas, log, stored, conn, replay, wire, listed,
          buffered, posts, responses, overwritten, archived,
          drops, fetches>>
server == <<phase, deltas, log, stored>>
socket == <<conn, replay>>
client == <<listed, buffered, posts, overwritten, archived>>
feedBudget == <<drops, fetches>>

ASSUME FeedAssumption ==
    /\ Turns \cap Users = {}
    /\ MaxDeltas \in Nat /\ MaxDrops \in Nat /\ MaxFetches \in Nat
    /\ MaxVisible \in Nat /\ Retained \in 0..MaxVisible

ThreadMessages == Turns \cup Users
Logged   == {log[i] : i \in 1..Len(log)}

\* final: the item has the message's id; keyed: it has the turn's id.
Item  == [final : BOOLEAN, keyed : BOOLEAN, streaming : BOOLEAN]
FeedFrame == [type : {"busy", "idle", "delta", "completed", "message"}, turn : Turns]

FeedTypeOK ==
    /\ phase \in [Turns -> {"new", "running", "idle", "stopped", "persisted",
                            "announced", "done", "cutoff"}]
    /\ deltas \in [Turns -> 0..MaxDeltas]
    /\ log \in Seq(Turns)
    /\ stored \subseteq Users
    /\ conn \in {"down", "open", "acked", "live"}
    /\ replay \in Seq(Turns)
    /\ wire \in Seq(FeedFrame)
    /\ listed \in [ThreadMessages -> Seq(Item)]
    /\ buffered \subseteq Turns
    /\ posts \in [Users -> {"new", "sent", "stored", "failed", "done"}]
    /\ responses \subseteq SUBSET ThreadMessages
    /\ overwritten \subseteq ThreadMessages
    /\ archived \subseteq Turns
    /\ drops \in 0..MaxDrops /\ fetches \in 0..MaxFetches

FeedInit ==
    /\ phase = [t \in Turns |-> "new"]
    /\ deltas = [t \in Turns |-> 0]
    /\ log = << >> /\ stored = {}
    /\ conn = "down" /\ replay = << >> /\ wire = << >>
    /\ listed = [m \in ThreadMessages |-> << >>]
    /\ buffered = {}
    /\ posts = [u \in Users |-> "new"]
    /\ responses = {} /\ overwritten = {} /\ archived = {}
    /\ drops = 0 /\ fetches = 0

-----------------------------------------------------------------------------
(* The turn in the core.                                                   *)

\* publish_subscription: to the sockets that are subscribed at this moment.
PublishFrame(type, t) ==
    wire' = IF conn \in {"acked", "live"}
            THEN Append(wire, [type |-> type, turn |-> t])
            ELSE wire

\* One step of turn t, after which it is in phase p.
TurnStep(t, from, to) ==
    /\ phase[t] \in from
    /\ phase' = [phase EXCEPT ![t] = to]
    /\ UNCHANGED <<stored, socket, client, responses, feedBudget>>

Start(t) ==
    /\ TurnStep(t, {"new"}, "running")
    /\ PublishFrame("busy", t)
    /\ UNCHANGED <<deltas, log>>

\* publish_message_delta: a run event that is not durable.
Delta(t) ==
    /\ deltas[t] < MaxDeltas
    /\ TurnStep(t, {"running"}, "running")
    /\ deltas' = [deltas EXCEPT ![t] = @ + 1]
    /\ PublishFrame("delta", t)
    /\ UNCHANGED log

\* The model is through: runtime.state idle.
Finish(t) ==
    /\ TurnStep(t, {"running"}, "idle")
    /\ PublishFrame("idle", t)
    /\ UNCHANGED <<deltas, log>>

\* Cancelled or failed: idle or error, and nothing is persisted.  The
\* cancellation may also come once the event is in the log and before, or
\* between, the frames that announce it.
Interrupt(t) ==
    /\ \/ TurnStep(t, {"running", "idle"}, "stopped")
       \/ TurnStep(t, {"persisted"}, "cutoff")
       \/ TurnStep(t, {"announced"}, "done")
    /\ PublishFrame("idle", t)
    /\ UNCHANGED <<deltas, log>>

\* persist_and_publish_assistant_message up to its first await: the message
\* and the durable event.  A turn without content persists nothing.
Persist(t) ==
    /\ deltas[t] > 0
    /\ TurnStep(t, {"idle"}, "persisted")
    /\ log' = Append(log, t)
    /\ UNCHANGED <<deltas, wire>>

Announce(t) ==
    /\ TurnStep(t, {"persisted"}, "announced")
    /\ PublishFrame("completed", t)
    /\ UNCHANGED <<deltas, log>>

DeliverMessage(t) ==
    /\ TurnStep(t, {"announced"}, "done")
    /\ PublishFrame("message", t)
    /\ UNCHANGED <<deltas, log>>

-----------------------------------------------------------------------------
(* The socket.                                                             *)

\* The reconnect timer: hello and subscription.start are on their way.
Connect ==
    /\ conn = "down"
    /\ conn' = "open"
    /\ UNCHANGED <<server, replay, wire, client, responses, feedBudget>>

\* Bug: the durable events are listed before the socket is subscribed.
SubscribeAfterListing ==
    \/ /\ conn = "open" /\ replay = << >>
       /\ conn' = "open"
       /\ replay' = log
       /\ UNCHANGED <<server, wire, client, responses, feedBudget>>
    \/ /\ conn = "open"
       /\ conn' = "live"
       /\ UNCHANGED <<server, replay, wire, client, responses, feedBudget>>

\* SubscriptionHandler: subscribe and send the ack.
Subscribe ==
    /\ conn = "open"
    /\ conn' = "acked"
    /\ UNCHANGED <<server, replay, wire, client, responses, feedBudget>>

\* list_for_thread_after: clients subscribe with last_seen_event_seq 0, and seq
\* starts at 1, so these are all the durable events.
DueEvents == log

\* The events are listed once, after the subscription.
List ==
    /\ conn = "acked"
    /\ conn' = "live"
    /\ replay' = DueEvents
    /\ UNCHANGED <<server, wire, client, responses, feedBudget>>

ReplaySend ==
    /\ replay # << >> /\ conn = "live"
    /\ PublishFrame("completed", Head(replay))
    /\ replay' = Tail(replay)
    /\ UNCHANGED <<server, conn, client, responses, feedBudget>>

\* The connection is lost with everything on it; the client ignores a socket
\* it has replaced.
Lose ==
    /\ conn' = "down" /\ replay' = << >> /\ wire' = << >>
    /\ drops < MaxDrops /\ drops' = drops + 1
    /\ UNCHANGED <<client, responses, fetches>>

Drop ==
    /\ conn # "down"
    /\ Lose
    /\ UNCHANGED server

\* The core restarts: turns are gone, rows and events stay.
CoreRestart ==
    /\ Lose
    /\ phase' = [t \in Turns |-> CASE phase[t] \in {"running", "idle"} -> "stopped"
                                   [] phase[t] = "persisted" -> "cutoff"
                                   [] phase[t] = "announced" -> "done"
                                   [] OTHER -> phase[t]]
    /\ UNCHANGED <<deltas, log, stored>>

-----------------------------------------------------------------------------
(* The list of turns.                                                      *)

Final(s) == {i \in 1..Len(s) : s[i].final}
Keyed(s) == {i \in 1..Len(s) : s[i].keyed}
First(S) == CHOOSE i \in S : \A j \in S : i <= j
Without(s, S) == LET kept == {i \in 1..Len(s) : i \notin S}
               IN  [i \in 1..Cardinality(kept) |->
                      s[CHOOSE j \in kept : Cardinality({k \in kept : k <= j}) = i]]

FromHistory == [final |-> TRUE, keyed |-> FALSE, streaming |-> FALSE]
Streaming   == [final |-> FALSE, keyed |-> TRUE, streaming |-> TRUE]
CompleteItem    == [final |-> TRUE, keyed |-> TRUE, streaming |-> FALSE]
Optimistic  == [final |-> FALSE, keyed |-> FALSE, streaming |-> FALSE]

\* appendTurnContent, and syncRuntimeToTurns for a busy status.
Streamed(s) ==
    IF Keyed(s) = {} THEN Append(s, Streaming)
    ELSE [s EXCEPT ![First(Keyed(s))].streaming = TRUE]

\* syncRuntimeToTurns for a status that is not busy: creates nothing.
Stilled(s) ==
    IF Keyed(s) = {} THEN s ELSE [s EXCEPT ![First(Keyed(s))].streaming = FALSE]

\* completeStreamMessage: the item of the message takes the streamed one in.
Completed(s) ==
    IF Final(s) # {}
    THEN LET i == First(Final(s))
             k == IF Keyed(s) = {} THEN {} ELSE {First(Keyed(s))} \ {i}
         IN  Without([s EXCEPT ![i] = CompleteItem], k)
    ELSE IF Keyed(s) # {} THEN [s EXCEPT ![First(Keyed(s))] = CompleteItem]
    ELSE Append(s, CompleteItem)

\* appendRuntimeMessage
Appended(s) == IF Final(s) # {} THEN s ELSE Append(s, FromHistory)

\* completeUserTurn
Confirmed(s) ==
    LET optimistic == {i \in 1..Len(s) : s[i] = Optimistic}
    IN  IF Final(s) # {} THEN Without(s, optimistic)
        ELSE IF optimistic # {} THEN [s EXCEPT ![First(optimistic)] = FromHistory]
        ELSE Append(s, FromHistory)

Flushed == [m \in ThreadMessages |-> IF m \in buffered THEN Streamed(listed[m]) ELSE listed[m]]

\* The items of a list.
Places(l) == UNION {{m} \X (1..Len(l[m])) : m \in ThreadMessages}

\* pruneTurns: a list that is too long keeps the items of the active turn and
\* its last ones.  The model has no order among messages: at least Retained
\* of them stay, more when several deltas are flushed one after the other.
Kept(l, own) ==
    IF Cardinality(Places(l)) <= MaxVisible THEN {Places(l)}
    ELSE {k \in SUBSET Places(l) : own \subseteq k /\ Cardinality(k) >= Retained}

Pruned(l, own) ==
    {[m \in ThreadMessages |-> Without(l[m], {i \in 1..Len(l[m]) : <<m, i>> \notin k})] :
        k \in Kept(l, own)}

\* A case of the reducer with withPrunedMessages.
Show(l, own) ==
    /\ listed' \in Pruned(l, own)
    /\ archived' = {t \in Turns : /\ Final(listed'[t]) = {}
                                  /\ t \in archived \/ Final(listed[t]) # {}}

\* The items of m become s; of these, those at the positions in own stay.
Put(l, m, s, own) == Show([l EXCEPT ![m] = s], {m} \X own)

\* Positions of s that the list of m does not have yet: the last ones.
Added(m, s) == (Len(listed[m]) + 1)..Len(s)

PutActive(l, t, s) == Put(l, t, s, Keyed(s))
PutLast(m, s)      == Put(listed, m, s, Added(m, s))

\* processWsUpdateForChat: deltas wait in the buffer, a completion flushes it.
ReceiveFrame ==
    /\ wire # << >>
    /\ LET f == Head(wire)
           t == f.turn
       IN  /\ wire' = Tail(wire)
           /\ buffered' = CASE f.type = "delta" -> buffered \cup {t}
                            [] f.type = "completed" -> {}
                            [] OTHER -> buffered
           /\ CASE f.type = "busy" -> PutActive(listed, t, Streamed(listed[t]))
                [] f.type = "idle" -> PutActive(listed, t, Stilled(listed[t]))
                [] f.type = "message" -> PutLast(t, Appended(listed[t]))
                [] f.type = "completed" -> \E l \in Pruned(Flushed, {}) :
                                              PutActive(l, t, Completed(l[t]))
                [] OTHER -> UNCHANGED <<listed, archived>>
           /\ overwritten' = IF f.type \in {"completed", "message"}
                             THEN overwritten \ {t} ELSE overwritten
    /\ UNCHANGED <<server, socket, posts, responses, feedBudget>>

\* The buffer's timer.
FlushDeltas ==
    /\ buffered # {}
    /\ buffered' = {}
    /\ Show(Flushed, {})
    /\ UNCHANGED <<server, socket, wire, posts, responses, overwritten, feedBudget>>

\* sendMessage: the optimistic item, the row, the response or a lost response.
Send(u) ==
    /\ posts[u] = "new"
    /\ posts' = [posts EXCEPT ![u] = "sent"]
    /\ PutLast(u, Append(listed[u], Optimistic))
    /\ UNCHANGED <<server, socket, wire, buffered, responses, overwritten, feedBudget>>

Store(u) ==
    /\ posts[u] = "sent"
    /\ posts' = [posts EXCEPT ![u] = "stored"]
    /\ stored' = stored \cup {u}
    /\ UNCHANGED <<phase, deltas, log, socket, wire, listed, buffered,
                   responses, overwritten, archived, feedBudget>>

PostDone(u) ==
    /\ posts[u] = "stored"
    /\ posts' = [posts EXCEPT ![u] = "done"]
    /\ PutLast(u, Confirmed(listed[u]))
    /\ overwritten' = overwritten \ {u}
    /\ UNCHANGED <<server, socket, wire, buffered, responses, feedBudget>>

PostFailed(u) ==
    /\ posts[u] \in {"sent", "stored"}
    /\ posts' = [posts EXCEPT ![u] = "failed"]
    /\ UNCHANGED <<server, socket, wire, listed, buffered, responses,
                   overwritten, archived, feedBudget>>

\* loadThreadHistory: the server answers now, the client applies it later.
Fetch ==
    /\ fetches < MaxFetches /\ fetches' = fetches + 1
    /\ responses' = responses \cup {Logged \cup stored}
    /\ UNCHANGED <<server, socket, wire, client, drops>>

\* hydrate_messages replaces the list.
Hydrate(r) ==
    /\ responses' = responses \ {r}
    /\ listed' = [m \in ThreadMessages |-> IF m \in r THEN <<FromHistory>> ELSE << >>]
    /\ overwritten' = {m \in (Logged \cup stored) \ r :
                         m \in overwritten \/ Final(listed[m]) # {}}
    /\ archived' = archived \ r
    /\ UNCHANGED <<server, socket, wire, buffered, posts, feedBudget>>

-----------------------------------------------------------------------------
FeedNext ==
    \/ \E t \in Turns :
         \/ Start(t) \/ Delta(t) \/ Finish(t) \/ Interrupt(t)
         \/ Persist(t) \/ Announce(t) \/ DeliverMessage(t)
    \/ Connect \/ Subscribe \/ List \/ ReplaySend \/ Drop \/ CoreRestart
    \/ ReceiveFrame \/ FlushDeltas
    \/ \E u \in Users : Send(u) \/ Store(u) \/ PostDone(u) \/ PostFailed(u)
    \/ Fetch
    \/ \E r \in responses : Hydrate(r)

FeedSpec == FeedInit /\ [][FeedNext]_feed

\* Ready coroutines run, the reconnect timer fires, frames on a live socket
\* arrive.
SocketStep == Connect \/ Subscribe \/ List \/ ReplaySend

FeedFairSpec ==
    /\ FeedSpec
    /\ \A t \in Turns : WF_feed(Announce(t))
    /\ WF_feed(SocketStep) /\ WF_feed(ReceiveFrame)

-----------------------------------------------------------------------------
(* Properties.                                                             *)

\* Nothing is under way to the client.
Settled == conn = "live" /\ replay = << >> /\ wire = << >> /\ responses = {} /\ buffered = {}

\* A message is listed once.  A streamed item and a listed message for the same
\* reply may stand side by side while frames are under way, and become one.
ListedOnce ==
    \A m \in ThreadMessages :
        /\ Cardinality(Final(listed[m])) <= 1
        /\ Settled /\ m \in Turns /\ phase[m] \notin {"persisted", "cutoff"} => Len(listed[m]) <= 1

\* A client with nothing under way lists every reply there is, whatever was
\* lost or repeated on the way.  Three gaps are left: a history response that
\* was overtaken by live frames, a turn cancelled between the durable event and
\* the frames that announce it, and replies that the prune took off a long list.
NothingMissed ==
    Settled => \A t \in Logged :
        \/ Final(listed[t]) # {}
        \/ t \in overwritten \cup archived
        \/ phase[t] \in {"persisted", "cutoff"}

\* A reply in the log is listed eventually, connections lost in between
\* included, unless a prune has taken it off the list.
CatchesUp ==
    \A t \in Turns : t \in Logged ~>
        \/ Final(listed[t]) # {}
        \/ t \in overwritten \cup archived
        \/ phase[t] = "cutoff"

\* A reply is listed once, however often its frames and events come, and a client
\* with nothing under way lists every reply there is but for the gaps named above;
\* the type.
ListIsExact == FeedTypeOK /\ ListedOnce /\ NothingMissed
=============================================================================
