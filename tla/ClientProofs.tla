---------------------------- MODULE ClientProofs ----------------------------
(***************************************************************************)
(* Theorems about two clients of a thread, and about an endpoint that      *)
(* several clients share.                                                  *)
(*                                                                         *)
(* WeChat, for every set of events, notices and chats, every policy and    *)
(* any number of failed requests and crashes: no chat message is lost, its *)
(* reply is sent once, and a chat only read stays silent.                  *)
(*                                                                         *)
(* ThreadFeed, what the desktop client shows of a thread, for any turns    *)
(* and user messages, any number of deltas, lost connections, restarts and *)
(* history fetches and any limits of its list: each reply is listed once,  *)
(* and none is missing but for the gaps that are named.                    *)
(*                                                                         *)
(* SharedEndpoint: what ToolCall and Delivery guarantee still holds when   *)
(* any number of provider processes answer for one endpoint and any number *)
(* of receive loops drain its outbox.                                      *)
(***************************************************************************)
EXTENDS WeChat, ThreadFeed, SharedEndpoint, FiniteSetTheorems, SequenceTheorems, TLAPS

(***************************************************************************)
(* The WeChat provider.                                                    *)
(***************************************************************************)

(* The sequence s of frames or of queued replies holds message m.          *)
Has(s, m) == \E i \in DOMAIN s : s[i].msg = m

-----------------------------------------------------------------------------
(* The inductive invariant: events that are acknowledged.                  *)

Taken(e) == e \in accepted \/ e \in Ignored

(* Whatever says that an event needs no more handling, in memory or in the *)
(* file, says so of one that was taken or is ignored.                      *)
Handled ==
    \A e \in Events :
       /\ status[e] \in Complete \/ file.status[e] \in Complete => Taken(e)
       /\ e \in unacked \/ e \in file.unacked \/ e \in acked => Taken(e) /\ e \in posted
       /\ handling[e] = "acking" => status[e] \in Complete
       /\ handling[e] = "waiting" => e \in accepted

(* Only an event of the current poll is handled; one that is complete or   *)
(* behind the cursor is acknowledged, or on the list to be.                *)
Polled ==
    /\ passed \cap batch = {}
    /\ \A e \in Events :
       /\ handling[e] # "idle" => poll = "join" /\ e \in batch
       /\ e \in passed => e \in acked \cup unacked
       /\ e \in batch /\ handling[e] = "idle" /\ status[e] \in Complete
             => e \in acked \cup unacked

-----------------------------------------------------------------------------
(* The inductive invariant: replies that are sent.                         *)

(* delivery.message is the last frame of a reply.                          *)
TextIsLast(q) ==
    \A i, j \in DOMAIN q :
       q[i].type = "message" /\ q[i].msg \in Events /\ q[j].msg = q[i].msg => j <= i

(* The frames of a reply are on the socket of its chat.                    *)
OnItsSocket ==
    /\ \A e \in Events : e \in told => e \in accepted
    /\ \A s \in Sockets, e \in Events : Has(frames[s], e) => s = Chat[e] /\ e \in told
    /\ \A s \in Sockets : TextIsLast(frames[s])

(* A reply is queued once. *)
QueuedOnce(q) ==
    \A i, j \in DOMAIN q : q[i].msg \in Events /\ q[j].msg = q[i].msg => i = j

Sending(e) == direct[Chat[e]] = e
Gone(e)    == e \in finals \/ ~Has(frames[Chat[e]], e)

(* A reply is with one of the socket, the queue and the chat: what is      *)
(* queued, being sent or sent comes from no further frame.                 *)
OneCopy ==
    /\ \A s \in Sockets : direct[s] \in Events => s = Chat[direct[s]]
    /\ QueuedOnce(outbound)
    /\ \A e \in Events :
       /\ Sending(e) => e \in told /\ ~Has(frames[Chat[e]], e)
       /\ Has(outbound, e) => e \in told /\ e \in finals /\ ~Sending(e)
       /\ sent[e] # 0 => /\ sent[e] = 1 /\ e \in told
                         /\ ~Has(outbound, e) /\ ~Sending(e) /\ Gone(e)

(* The chat waits for the reply to e. *)
Awaits(e) == awaited[Chat[e]] = e /\ result[e] = "open"

(* Until its reply has been taken from the socket, the chat waits for the  *)
(* event the core has taken, or the wait was given up.                     *)
Awaiting ==
    /\ \A c \in Chats : awaited[c] # nobody => Chat[awaited[c]] = c
    /\ \A e \in Events \ given :
       /\ handling[e] = "submitting" /\ e \notin accepted => Awaits(e)
       /\ e \in accepted /\ (e \notin told \/ ~Gone(e)) => Awaits(e) /\ handling[e] = "waiting"

(* What a chat only read is sent, or about to be, came after the wait.     *)
Silent ==
    \A e \in ReadOnly : sent[e] # 0 \/ Has(outbound, e) \/ Sending(e) => e \in given

WeChatInv == WeChatTypeOK /\ Handled /\ Polled /\ OnItsSocket /\ OneCopy /\ Awaiting /\ Silent

-----------------------------------------------------------------------------
(* What a step can be. *)
LEMMA WeChatSteps ==
  ASSUME WeChatNext
  PROVE
    \/ \E e \in Events : Arrive(e)
    \/ \E e \in Events : Skip(e)
    \/ \E e \in Events : Begin(e)
    \/ \E e \in Events : BeginFails(e)
    \/ \E e \in Events : Submit(e)
    \/ \E e \in Events : SubmitFails(e)
    \/ \E e \in Events : Wake(e)
    \/ \E e \in Events : Timeout(e)
    \/ \E e \in Events : Ack(e)
    \/ \E e \in Events : CoreReplies(e)
    \/ \E n \in Notices : CoreNotifies(n)
    \/ \E c \in Chats : CloseIdle(c)
    \/ \E s \in Sockets : Receive(s)
    \/ \E s \in Sockets : DirectSent(s)
    \/ AckPending \/ GetEvents \/ PollFails \/ Joined
    \/ OutboundSent \/ Flush \/ Kill
BY DEF WeChatNext

LEMMA Names ==
  /\ Events \subseteq ChatMessages /\ Notices \subseteq ChatMessages
  /\ Events \cap Notices = {} /\ nobody \notin ChatMessages
  /\ \A m \in ChatMessages : Chat[m] \in Chats
  /\ Chats \subseteq Sockets /\ provider \in Sockets /\ provider \notin Chats
  /\ ReadOnly \subseteq Events
  /\ QueueSize \in Nat /\ QueueSize # 0 /\ MaxFaults \in Nat /\ MaxKills \in Nat
BY WeChatAssumption DEF ChatMessages, Chats, Sockets

(* The frames of a chat message are no number of its own. *)
Replies == [event : Events, index : Nat, msg : ChatMessages]

-----------------------------------------------------------------------------
(* Sequences. *)

LEMMA TailOf ==
  ASSUME NEW S, NEW s \in Seq(S), s # << >>
  PROVE  /\ Head(s) \in S /\ Tail(s) \in Seq(S)
         /\ Len(s) \in Nat /\ Len(s) > 0 /\ Len(Tail(s)) = Len(s) - 1
         /\ s[1] = Head(s)
         /\ \A i \in 1..Len(Tail(s)) : Tail(s)[i] = s[i + 1]
         /\ DOMAIN s = 1..Len(s) /\ DOMAIN Tail(s) = 1..Len(Tail(s))
OBVIOUS

LEMMA AppendOf ==
  ASSUME NEW S, NEW s \in Seq(S), NEW x \in S
  PROVE  /\ Append(s, x) \in Seq(S)
         /\ Len(s) \in Nat /\ Len(Append(s, x)) = Len(s) + 1
         /\ Append(s, x)[Len(s) + 1] = x
         /\ \A i \in 1..Len(s) : Append(s, x)[i] = s[i]
         /\ DOMAIN s = 1..Len(s) /\ DOMAIN Append(s, x) = 1..(Len(s) + 1)
OBVIOUS

(* With the first n frames of a list of one, or of two. *)
LEMMA OneMore ==
  ASSUME NEW S, NEW s \in Seq(S), NEW x \in S, NEW n \in 0..1
  PROVE  \/ s \o SubSeq(<<x>>, 1, n) = s
         \/ s \o SubSeq(<<x>>, 1, n) = Append(s, x)
<1>1. CASE n = 0
  BY <1>1
<1>2. CASE n = 1
  BY <1>2
<1> QED
  BY <1>1, <1>2

LEMMA TwoMore ==
  ASSUME NEW S, NEW s \in Seq(S), NEW x \in S, NEW y \in S, NEW n \in 0..2
  PROVE  \/ s \o SubSeq(<<x, y>>, 1, n) = s
         \/ s \o SubSeq(<<x, y>>, 1, n) = Append(s, x)
         \/ s \o SubSeq(<<x, y>>, 1, n) = Append(Append(s, x), y)
<1>1. CASE n = 0
  BY <1>1
<1>2. CASE n = 1
  BY <1>2
<1>3. CASE n = 2
  BY <1>3
<1> QED
  BY <1>1, <1>2, <1>3

-----------------------------------------------------------------------------
(* What publishing leaves on the sockets. *)

FinalFrame(e) == [type |-> "completed", msg |-> e]
TextFrame(m)  == [type |-> "message", msg |-> m]

LEMMA FramesTyped ==
  ASSUME NEW m \in ChatMessages
  PROVE  FinalFrame(m) \in Frame /\ TextFrame(m) \in Frame
BY DEF FinalFrame, TextFrame, Frame

LEMMA TwoFrames ==
  ASSUME WeChatTypeOK, NEW e \in Events, Publish({Chat[e]}, <<FinalFrame(e), TextFrame(e)>>)
  PROVE  /\ frames' \in [Sockets -> Seq(Frame)]
         /\ \A s \in Sockets \ {Chat[e]} : frames'[s] = frames[s]
         /\ \/ frames'[Chat[e]] = frames[Chat[e]]
            \/ frames'[Chat[e]] = Append(frames[Chat[e]], FinalFrame(e))
            \/ frames'[Chat[e]] = Append(Append(frames[Chat[e]], FinalFrame(e)), TextFrame(e))
         /\ faults' \in 0..MaxFaults /\ UNCHANGED kills
<1> DEFINE list == <<FinalFrame(e), TextFrame(e)>>
           Open == {Chat[e]} \cap (connected \cup {provider})
           With(n) == [s \in Sockets |-> IF s \in Open THEN frames[s] \o SubSeq(list, 1, n)
                                         ELSE frames[s]]
<1>1. Len(list) = 2
  OBVIOUS
<1>2. PICK n \in 0..2 : frames' = With(n)
  <2>1. \/ frames' = With(Len(list))
        \/ \E n \in 0..(Len(list) - 1) : frames' = With(n)
    BY DEF Publish
  <2> HIDE DEF With, list
  <2> QED
    BY <1>1, <2>1
<1>3. Chat[e] \in Sockets /\ FinalFrame(e) \in Frame /\ TextFrame(e) \in Frame
  BY Names, FramesTyped
<1>4. \A s \in Sockets : frames[s] \in Seq(Frame)
  BY DEF WeChatTypeOK
<1>5. \A s \in Sockets \ {Chat[e]} : frames'[s] = frames[s]
  BY <1>2
<1>6. \/ frames'[Chat[e]] = frames[Chat[e]]
      \/ frames'[Chat[e]] = frames[Chat[e]] \o SubSeq(list, 1, n)
  BY <1>2, <1>3
<1>7. \/ frames'[Chat[e]] = frames[Chat[e]]
      \/ frames'[Chat[e]] = Append(frames[Chat[e]], FinalFrame(e))
      \/ frames'[Chat[e]] = Append(Append(frames[Chat[e]], FinalFrame(e)), TextFrame(e))
  <2> DEFINE t == frames[Chat[e]]
             more == t \o SubSeq(list, 1, n)
  <2>1. t \in Seq(Frame)
    BY <1>3, <1>4
  <2>2. \/ more = t
        \/ more = Append(t, FinalFrame(e))
        \/ more = Append(Append(t, FinalFrame(e)), TextFrame(e))
    <3> HIDE DEF t
    <3> QED
      BY <1>3, <2>1, TwoMore
  <2>3. frames'[Chat[e]] = t \/ frames'[Chat[e]] = more
    BY <1>6
  <2> HIDE DEF more
  <2> QED
    BY <2>2, <2>3
<1>8. frames'[Chat[e]] \in Seq(Frame)
  <2>1. frames[Chat[e]] \in Seq(Frame)
    BY <1>3, <1>4
  <2>2. /\ Append(frames[Chat[e]], FinalFrame(e)) \in Seq(Frame)
        /\ Append(Append(frames[Chat[e]], FinalFrame(e)), TextFrame(e)) \in Seq(Frame)
    BY <1>3, <2>1, AppendOf
  <2> QED
    BY <1>7, <2>1, <2>2
<1>9. DOMAIN frames' = Sockets /\ frames' = [s \in Sockets |-> frames'[s]]
  BY <1>2
<1>10. frames' \in [Sockets -> Seq(Frame)]
  BY <1>4, <1>5, <1>8, <1>9
<1>11. faults' \in 0..MaxFaults /\ UNCHANGED kills
  BY Names DEF Publish, Fault, NoFault, budget, WeChatTypeOK
<1> QED
  BY <1>5, <1>7, <1>10, <1>11

LEMMA OneFrame ==
  ASSUME WeChatTypeOK, NEW m \in ChatMessages, NEW S, Publish(S, <<TextFrame(m)>>)
  PROVE  /\ frames' \in [Sockets -> Seq(Frame)]
         /\ \A s \in Sockets : \/ frames'[s] = frames[s]
                               \/ s \in S /\ frames'[s] = Append(frames[s], TextFrame(m))
         /\ faults' \in 0..MaxFaults /\ UNCHANGED kills
<1> DEFINE list == <<TextFrame(m)>>
           Open == S \cap (connected \cup {provider})
           With(n) == [s \in Sockets |-> IF s \in Open THEN frames[s] \o SubSeq(list, 1, n)
                                         ELSE frames[s]]
<1>1. Len(list) = 1
  OBVIOUS
<1>2. PICK n \in 0..1 : frames' = With(n)
  <2>1. \/ frames' = With(Len(list))
        \/ \E n \in 0..(Len(list) - 1) : frames' = With(n)
    BY DEF Publish
  <2> HIDE DEF With, list
  <2> QED
    BY <1>1, <2>1
<1>3. TextFrame(m) \in Frame
  BY FramesTyped
<1>4. ASSUME NEW s \in Sockets
      PROVE  /\ frames'[s] \in Seq(Frame)
             /\ \/ frames'[s] = frames[s]
                \/ s \in S /\ frames'[s] = Append(frames[s], TextFrame(m))
  <2>1. frames[s] \in Seq(Frame)
    BY DEF WeChatTypeOK
  <2>2. frames'[s] = frames[s] \/ (s \in S /\ frames'[s] = frames[s] \o SubSeq(list, 1, n))
    BY <1>2
  <2>3. frames'[s] = frames[s] \/ (s \in S /\ frames'[s] = Append(frames[s], TextFrame(m)))
    BY <1>3, <2>1, <2>2, OneMore
  <2> QED
    BY <1>3, <2>1, <2>3
<1>5. frames' = [s \in Sockets |-> frames'[s]]
  BY <1>2
<1>6. faults' \in 0..MaxFaults /\ UNCHANGED kills
  BY Names DEF Publish, Fault, NoFault, budget, WeChatTypeOK
<1> QED
  BY <1>4, <1>5, <1>6

-----------------------------------------------------------------------------
(* Types. *)

Handlings == {"idle", "queued", "submitting", "waiting", "acking"}
Results   == {"open", "ok", "failed", "blocked", "cancelled"}

LEMMA StepTypes ==
  ASSUME WeChatTypeOK, NEW e \in Events, NEW from, NEW to \in Handlings, NEW t \in Status,
         Step(e, from, to, t)
  PROVE  /\ handling' \in [Events -> Handlings] /\ status' \in [Events -> Status]
         /\ handling[e] = from /\ handling'[e] = to /\ status'[e] = t
         /\ \A d \in Events \ {e} : handling'[d] = handling[d] /\ status'[d] = status[d]
BY DEF WeChatTypeOK, Step, Handlings

LEMMA DiscardTypes ==
  ASSUME WeChatTypeOK, NEW e \in Events, Discard(e)
  PROVE  /\ awaited' \in [Chats -> Events \cup {nobody}] /\ result' \in [Events -> Results]
         /\ \A d \in Events \ {e} : result'[d] = result[d]
         /\ \A c \in Chats : awaited'[c] = awaited[c] \/ (awaited[c] = e /\ awaited'[c] = nobody)
<1>1. /\ awaited \in [Chats -> Events \cup {nobody}] /\ result \in [Events -> Results]
      /\ Chat[e] \in Chats
  BY Names DEF WeChatTypeOK, Results
<1>2. CASE awaited[Chat[e]] = e
  <2>1. awaited' = [awaited EXCEPT ![Chat[e]] = nobody]
    BY <1>2 DEF Discard
  <2>2. PICK r \in Results : result' = [result EXCEPT ![e] = r]
    <3>1. result' = [result EXCEPT ![e] = IF @ = "open" THEN "cancelled" ELSE @]
      BY <1>2 DEF Discard
    <3>2. (IF result[e] = "open" THEN "cancelled" ELSE result[e]) \in Results
      BY <1>1 DEF Results
    <3> QED
      BY <3>1, <3>2
  <2>3. result' \in [Events -> Results] /\ \A d \in Events \ {e} : result'[d] = result[d]
    BY <1>1, <2>2
  <2>4. /\ awaited' \in [Chats -> Events \cup {nobody}]
        /\ \A c \in Chats : awaited'[c] = awaited[c] \/ (awaited[c] = e /\ awaited'[c] = nobody)
    BY <1>1, <1>2, <2>1
  <2> QED
    BY <2>3, <2>4
<1>3. CASE awaited[Chat[e]] # e
  <2>1. UNCHANGED <<awaited, result>>
    BY <1>3 DEF Discard
  <2> QED
    BY <1>1, <2>1
<1> QED
  BY <1>2, <1>3

LEMMA CompleteTypes ==
  ASSUME WeChatTypeOK, NEW c \in Chats, NEW r \in Results, NEW m, CompletePending(c, r, m)
  PROVE  /\ awaited' \in [Chats -> Events \cup {nobody}] /\ result' \in [Events -> Results]
         /\ given' \subseteq Events /\ given \subseteq given'
         /\ awaited'[c] = nobody
         /\ \A d \in Chats \ {c} : awaited'[d] = awaited[d]
         /\ \A d \in Events : d # awaited[c] => result'[d] = result[d]
         /\ \A d \in Events : d = awaited[c] /\ d # m /\ result[d] = "open" => d \in given'
<1>1. awaited[c] \in Events \cup {nobody} /\ nobody \notin Events
  BY Names DEF WeChatTypeOK
<1>2. CASE awaited[c] # nobody /\ result[awaited[c]] = "open"
  <2> DEFINE d == awaited[c]
  <2>1. d \in Events
    BY <1>1, <1>2
  <2>2. /\ awaited' = [awaited EXCEPT ![c] = nobody]
        /\ result' = [result EXCEPT ![d] = r]
        /\ given' = IF m = d THEN given ELSE given \cup {d}
    BY <1>2 DEF CompletePending
  <2>3. awaited' \in [Chats -> Events \cup {nobody}] /\ awaited'[c] = nobody
        /\ \A b \in Chats \ {c} : awaited'[b] = awaited[b]
    BY <2>2 DEF WeChatTypeOK
  <2> HIDE DEF d
  <2>4. result' \in [Events -> Results] /\ \A b \in Events : b # d => result'[b] = result[b]
    BY <2>1, <2>2 DEF WeChatTypeOK, Results
  <2>5. given' \subseteq Events /\ given \subseteq given' /\ (d # m => d \in given')
    BY <2>1, <2>2 DEF WeChatTypeOK
  <2> QED
    BY <2>3, <2>4, <2>5 DEF d
<1>3. CASE ~(awaited[c] # nobody /\ result[awaited[c]] = "open")
  BY <1>1, <1>3 DEF WeChatTypeOK, CompletePending, Results
<1> QED
  BY <1>2, <1>3

LEMMA FaultTypes ==
  ASSUME WeChatTypeOK, Fault \/ NoFault
  PROVE  faults' \in 0..MaxFaults /\ kills' = kills
BY Names DEF WeChatTypeOK, Fault, NoFault, budget

LEMMA HandlerTypes ==
  ASSUME WeChatTypeOK, Polled, NEW e \in Events,
         \/ Arrive(e) \/ Skip(e) \/ Begin(e) \/ BeginFails(e) \/ Submit(e)
         \/ SubmitFails(e) \/ Wake(e) \/ Timeout(e) \/ Ack(e)
  PROVE  WeChatTypeOK'
<1> USE Names DEF Status, Complete, Handlings, Results
<1>0. handling[e] # "idle" => e \in posted
  BY DEF Polled, WeChatTypeOK
<1>1. CASE Arrive(e)
  BY <1>1 DEF Arrive, WeChatTypeOK, polling, handler, replies, budget
<1>2. CASE Skip(e)
  <2>1. PICK t \in Status : Step(e, "queued", "acking", t)
    BY <1>2 DEF Skip, WeChatTypeOK
  <2>2. handling' \in [Events -> Handlings] /\ status' \in [Events -> Status]
    BY <2>1, StepTypes
  <2> QED
    BY <1>2, <2>2 DEF Skip, WeChatTypeOK, outside, polling, replies, budget
<1>3. CASE Begin(e)
  <2>1. handling' \in [Events -> Handlings] /\ status' \in [Events -> Status]
    BY <1>3, StepTypes DEF Begin
  <2>2. result' \in [Events -> Results]
    BY <1>3 DEF Begin, WeChatTypeOK
  <2>3. awaited' \in [Chats -> Events \cup {nobody}] /\ connected' \subseteq Chats
    BY <1>3 DEF Begin, WeChatTypeOK
  <2> QED
    BY <1>3, <2>1, <2>2, <2>3 DEF Begin, WeChatTypeOK, outside, polling, budget
<1>4. CASE BeginFails(e)
  <2>1. handling' \in [Events -> Handlings] /\ status' \in [Events -> Status]
    BY <1>4, StepTypes DEF BeginFails
  <2> QED
    BY <1>4, <2>1, FaultTypes DEF BeginFails, WeChatTypeOK, outside, polling, replies
<1>5. CASE Submit(e)
  <2>1. handling' \in [Events -> Handlings] /\ status' \in [Events -> Status]
    BY <1>5, StepTypes DEF Submit
  <2>2. awaited' \in [Chats -> Events \cup {nobody}] /\ result' \in [Events -> Results]
    BY <1>5, DiscardTypes DEF Submit, WeChatTypeOK
  <2>3. accepted' \subseteq posted
    <3>1. e \in posted
      BY <1>0, <1>5 DEF Submit
    <3> QED
      BY <1>5, <3>1 DEF Submit, WeChatTypeOK
  <2> QED
    BY <1>5, <2>1, <2>2, <2>3 DEF Submit, WeChatTypeOK, polling, replies, budget
<1>6. CASE SubmitFails(e)
  <2>1. handling' \in [Events -> Handlings] /\ status' \in [Events -> Status]
    BY <1>6, StepTypes DEF SubmitFails
  <2>2. awaited' \in [Chats -> Events \cup {nobody}] /\ result' \in [Events -> Results]
    BY <1>6, DiscardTypes DEF SubmitFails
  <2>3. accepted' \subseteq posted /\ given' \subseteq Events
    <3>1. e \in posted
      BY <1>0, <1>6 DEF SubmitFails, Step
    <3> QED
      BY <1>6, <3>1 DEF SubmitFails, WeChatTypeOK
  <2> QED
    BY <1>6, <2>1, <2>2, <2>3, FaultTypes DEF SubmitFails, WeChatTypeOK, polling, replies
<1>7. CASE Wake(e)
  <2>1. PICK t \in Status : Step(e, "waiting", "acking", t)
    BY <1>7 DEF Wake
  <2>2. handling' \in [Events -> Handlings] /\ status' \in [Events -> Status]
    BY <2>1, StepTypes
  <2> QED
    BY <1>7, <2>2 DEF Wake, WeChatTypeOK, outside, polling, replies, budget
<1>8. CASE Timeout(e)
  <2>1. handling' \in [Events -> Handlings] /\ status' \in [Events -> Status]
    BY <1>8, StepTypes DEF Timeout
  <2>2. awaited' \in [Chats -> Events \cup {nobody}] /\ result' \in [Events -> Results]
    BY <1>8, DiscardTypes DEF Timeout
  <2>3. given' \subseteq Events
    BY <1>8 DEF Timeout, WeChatTypeOK
  <2> QED
    BY <1>8, <2>1, <2>2, <2>3 DEF Timeout, WeChatTypeOK, outside, polling, replies, budget
<1>9. CASE Ack(e)
  <2>1. handling' \in [Events -> Handlings] /\ status' \in [Events -> Status]
    BY <1>9, StepTypes DEF Ack, WeChatTypeOK
  <2>2. acked' \subseteq posted /\ unacked' \subseteq Events
    <3>1. e \in posted
      BY <1>0, <1>9 DEF Ack, Step
    <3> QED
      BY <1>9, <3>1 DEF Ack, Acknowledged, AckFailed, WeChatTypeOK
  <2>3. faults' \in 0..MaxFaults /\ kills' = kills
    BY <1>9, FaultTypes DEF Ack, Acknowledged, AckFailed
  <2> QED
    BY <1>9, <2>1, <2>2, <2>3 DEF Ack, WeChatTypeOK, outside, polling, replies
<1> QED
  BY <1>1, <1>2, <1>3, <1>4, <1>5, <1>6, <1>7, <1>8, <1>9

LEMMA LoopTypes ==
  ASSUME WeChatTypeOK, AckPending \/ GetEvents \/ PollFails \/ Joined \/ Flush \/ Kill,
         unacked \subseteq posted
  PROVE  WeChatTypeOK'
<1> USE Names
<1>1. CASE AckPending
  <2>1. acked' \subseteq posted /\ unacked' \subseteq Events
    BY <1>1 DEF AckPending, Acknowledged, AckFailed, WeChatTypeOK
  <2>2. faults' \in 0..MaxFaults /\ kills' = kills
    BY <1>1, FaultTypes DEF AckPending, Acknowledged, AckFailed
  <2> QED
    BY <1>1, <2>1, <2>2 DEF AckPending, WeChatTypeOK, outside, handler, replies
<1>2. CASE GetEvents
  <2>1. batch' \subseteq posted
    BY <1>2 DEF GetEvents
  <2>2. handling' \in [Events -> Handlings]
    BY <1>2 DEF GetEvents, WeChatTypeOK, Handlings
  <2> QED
    BY <1>2, <2>1, <2>2 DEF GetEvents, WeChatTypeOK, outside, replies, budget, Handlings
<1>3. CASE PollFails
  <2>1. faults' \in 0..MaxFaults /\ kills' = kills
    BY <1>3, FaultTypes DEF PollFails
  <2> QED
    BY <1>3, <2>1 DEF PollFails, WeChatTypeOK, outside, handler, replies
<1>4. CASE Joined
  BY <1>4 DEF Joined, Advance, WeChatTypeOK, outside, handler, replies, budget
<1>5. CASE Flush
  BY <1>5 DEF Flush, WeChatTypeOK, outside, polling, handler, replies, budget
<1>6. CASE Kill
  <2>1. /\ handling' \in [Events -> Handlings] /\ result' \in [Events -> Results]
        /\ status' \in [Events -> Status] /\ unacked' \subseteq Events
    BY <1>6 DEF Kill, WeChatTypeOK, Handlings, Results
  <2>2. /\ frames' \in [Sockets -> Seq(Frame)] /\ counts' \in [Events -> Nat]
        /\ direct' \in [Sockets -> ChatMessages \cup {nobody}]
        /\ awaited' \in [Chats -> Events \cup {nobody}]
    BY <1>6 DEF Kill
  <2>3. outbound' \in Seq(Replies) /\ Len(outbound') <= QueueSize
    BY <1>6 DEF Kill
  <2>4. given' \subseteq Events /\ kills' \in 0..MaxKills
    BY <1>6 DEF Kill, WeChatTypeOK
  <2> QED
    BY <1>6, <2>1, <2>2, <2>3, <2>4 DEF Kill, WeChatTypeOK, outside, Handlings, Results, Replies
<1> QED
  BY <1>1, <1>2, <1>3, <1>4, <1>5, <1>6

(* The head of the socket's frames, and what the chat waits for. *)
LEMMA Received ==
  ASSUME WeChatTypeOK, NEW s \in Sockets, Receive(s)
  PROVE  /\ frames[s] \in Seq(Frame) /\ frames[s] # << >>
         /\ Head(frames[s]) \in Frame /\ Head(frames[s]).msg \in ChatMessages
         /\ Chat[Head(frames[s]).msg] \in Chats
         /\ awaited[Chat[Head(frames[s]).msg]] \in Events \cup {nobody}
         /\ frames' \in [Sockets -> Seq(Frame)]
         /\ frames'[s] = Tail(frames[s])
         /\ \A t \in Sockets \ {s} : frames'[t] = frames[t]
<1>1. frames[s] \in Seq(Frame) /\ frames[s] # << >>
  BY DEF Receive, WeChatTypeOK
<1>2. Head(frames[s]) \in Frame /\ Tail(frames[s]) \in Seq(Frame)
  BY <1>1, TailOf
<1>3. Head(frames[s]).msg \in ChatMessages
  BY <1>2 DEF Frame
<1>4. /\ Chat[Head(frames[s]).msg] \in Chats
      /\ awaited[Chat[Head(frames[s]).msg]] \in Events \cup {nobody}
  BY <1>3, Names DEF WeChatTypeOK
<1>5. frames' = [frames EXCEPT ![s] = Tail(frames[s])]
  BY DEF Receive
<1>6. /\ frames' \in [Sockets -> Seq(Frame)]
      /\ frames'[s] = Tail(frames[s])
      /\ \A t \in Sockets \ {s} : frames'[t] = frames[t]
  BY <1>2, <1>5 DEF WeChatTypeOK
<1> QED
  BY <1>1, <1>2, <1>3, <1>4, <1>6

(* The three ways to handle a frame that is for event e. *)
LEMMA Enqueues ==
  ASSUME WeChatTypeOK, NEW e \in Events, NEW m \in ChatMessages, EnqueueReply(e, m)
  PROVE  \/ /\ CompletePending(Chat[e], "ok", m) \/ CompletePending(Chat[e], "failed", m)
            /\ UNCHANGED outbound
            /\ counts' \in [Events -> Nat]
         \/ /\ e \notin ReadOnly
            /\ \E o \in Replies : o.msg = m /\ outbound' = Append(outbound, o)
            /\ Len(outbound) # QueueSize
            /\ UNCHANGED <<awaited, result, given>>
            /\ counts' \in [Events -> Nat]
<1>1. CASE e \in ReadOnly
  BY <1>1 DEF EnqueueReply, WeChatTypeOK
<1>2. CASE e \notin ReadOnly
  <2>1. counts' = [counts EXCEPT ![e] = @ + 1]
    BY <1>2 DEF EnqueueReply
  <2>2. counts' \in [Events -> Nat] /\ counts[e] + 1 \in Nat
    BY <2>1 DEF WeChatTypeOK
  <2>3. CASE Len(outbound) = QueueSize
    BY <1>2, <2>2, <2>3 DEF EnqueueReply
  <2>4. CASE Len(outbound) # QueueSize
    <3> DEFINE o == [event |-> e, index |-> counts[e] + 1, msg |-> m]
    <3>1. o \in Replies /\ o.msg = m
      BY <2>2 DEF Replies
    <3>2. outbound' = Append(outbound, o) /\ UNCHANGED <<awaited, result, given>>
      BY <1>2, <2>4 DEF EnqueueReply, Queued
    <3> HIDE DEF o
    <3> QED
      BY <1>2, <2>2, <2>4, <3>1, <3>2
  <2> QED
    BY <2>3, <2>4
<1> QED
  BY <1>1, <1>2

LEMMA ReceiveTypes ==
  ASSUME WeChatTypeOK, NEW s \in Sockets, Receive(s)
  PROVE  WeChatTypeOK'
<1> DEFINE f == Head(frames[s])
           e == awaited[Chat[f.msg]]
<1>1. /\ f.msg \in ChatMessages /\ Chat[f.msg] \in Chats /\ e \in Events \cup {nobody}
      /\ frames' \in [Sockets -> Seq(Frame)]
  BY Received
<1>2. \/ e # nobody /\ Remember(f) /\ EnqueueReply(e, f.msg) /\ UNCHANGED direct
      \/ /\ direct' = [direct EXCEPT ![s] = f.msg]
         /\ UNCHANGED <<finals, outbound, counts, awaited, result, given>>
      \/ UNCHANGED <<finals, outbound, counts, awaited, result, given, direct>>
  BY DEF Receive
<1>3. UNCHANGED <<outside, acked, polling, handling, status, unacked, file, connected, sent, budget>>
  BY DEF Receive
<1> HIDE DEF f, e
<1>4. CASE e # nobody /\ Remember(f) /\ EnqueueReply(e, f.msg) /\ UNCHANGED direct
  <2>1. e \in Events /\ Chat[e] \in Chats
    BY <1>1, <1>4, Names
  <2>2. finals' \subseteq ChatMessages
    BY <1>1, <1>4 DEF Remember, WeChatTypeOK
  <2>3. \/ /\ CompletePending(Chat[e], "ok", f.msg) \/ CompletePending(Chat[e], "failed", f.msg)
           /\ UNCHANGED outbound
           /\ counts' \in [Events -> Nat]
        \/ /\ \E o \in Replies : o.msg = f.msg /\ outbound' = Append(outbound, o)
           /\ Len(outbound) # QueueSize
           /\ UNCHANGED <<awaited, result, given>>
           /\ counts' \in [Events -> Nat]
    BY <1>1, <1>4, <2>1, Enqueues
  <2>4. /\ awaited' \in [Chats -> Events \cup {nobody}] /\ result' \in [Events -> Results]
        /\ given' \subseteq Events
    <3>1. "ok" \in Results /\ "failed" \in Results
      BY DEF Results
    <3>2. CASE UNCHANGED <<awaited, result, given>>
      BY <3>2 DEF WeChatTypeOK, Results
    <3> QED
      BY <2>1, <2>3, <3>1, <3>2, CompleteTypes
  <2>5. outbound \in Seq(Replies) /\ Len(outbound) <= QueueSize
    BY DEF WeChatTypeOK, Replies
  <2>6. outbound' \in Seq(Replies) /\ Len(outbound') <= QueueSize
    <3>1. CASE UNCHANGED outbound
      BY <2>5, <3>1
    <3>2. CASE Len(outbound) # QueueSize /\ \E o \in Replies : outbound' = Append(outbound, o)
      BY <2>5, <3>2, AppendOf, Names
    <3> QED
      BY <2>3, <3>1, <3>2
  <2>7. counts' \in [Events -> Nat]
    BY <2>3
  <2> QED
    BY <1>1, <1>3, <1>4, <2>2, <2>4, <2>6, <2>7
       DEF WeChatTypeOK, outside, polling, budget, Replies, Results
<1>5. CASE /\ direct' = [direct EXCEPT ![s] = f.msg]
           /\ UNCHANGED <<finals, outbound, counts, awaited, result, given>>
  <2>1. direct' \in [Sockets -> ChatMessages \cup {nobody}]
    BY <1>1, <1>5 DEF WeChatTypeOK
  <2> QED
    BY <1>1, <1>3, <1>5, <2>1 DEF WeChatTypeOK, outside, polling, budget
<1>6. CASE UNCHANGED <<finals, outbound, counts, awaited, result, given, direct>>
  BY <1>1, <1>3, <1>6 DEF WeChatTypeOK, outside, polling, budget
<1> QED
  BY <1>2, <1>4, <1>5, <1>6

(* What is sent to the chat. *)
LEMMA DirectTypes ==
  ASSUME WeChatTypeOK, NEW s \in Sockets, DirectSent(s)
  PROVE  /\ WeChatTypeOK'
         /\ direct[s] \in ChatMessages
         /\ direct'[s] = nobody /\ \A t \in Sockets \ {s} : direct'[t] = direct[t]
         /\ \/ sent' = [sent EXCEPT ![direct[s]] = @ + 1]
            \/ sent' = sent
<1>1. direct[s] \in ChatMessages
  BY DEF DirectSent, WeChatTypeOK
<1>2. /\ direct' \in [Sockets -> ChatMessages \cup {nobody}]
      /\ direct'[s] = nobody /\ \A t \in Sockets \ {s} : direct'[t] = direct[t]
  BY DEF DirectSent, WeChatTypeOK
<1>3. sent' = [sent EXCEPT ![direct[s]] = @ + 1] \/ sent' = sent
  BY DEF DirectSent
<1>4. sent' \in [ChatMessages -> Nat]
  BY <1>1, <1>3 DEF WeChatTypeOK
<1>5. finals' \subseteq ChatMessages
  BY <1>1 DEF DirectSent, WeChatTypeOK
<1>6. faults' \in 0..MaxFaults /\ kills' = kills
  BY FaultTypes DEF DirectSent
<1>7. UNCHANGED <<outside, acked, polling, handler, unacked, file, connected, frames,
                  awaited, outbound, counts, given>>
  BY DEF DirectSent
<1>8. WeChatTypeOK'
  BY <1>2, <1>4, <1>5, <1>6, <1>7 DEF WeChatTypeOK, outside, polling, handler
<1> QED
  BY <1>1, <1>2, <1>3, <1>8

LEMMA OutboundTypes ==
  ASSUME WeChatTypeOK, OutboundSent
  PROVE  /\ WeChatTypeOK'
         /\ outbound \in Seq(Replies) /\ outbound # << >>
         /\ Head(outbound) \in Replies /\ Head(outbound).msg \in ChatMessages
         /\ Chat[Head(outbound).event] \in Chats
         /\ outbound' = Tail(outbound)
         /\ \E r \in Results : CompletePending(Chat[Head(outbound).event], r, Head(outbound).msg)
         /\ sent' = [sent EXCEPT ![Head(outbound).msg] = @ + 1] \/ sent' = sent
<1> DEFINE o == Head(outbound)
           c == Chat[o.event]
<1>1. outbound \in Seq(Replies) /\ outbound # << >> /\ Len(outbound) <= QueueSize
  BY DEF WeChatTypeOK, OutboundSent, Replies
<1>2. /\ o \in Replies /\ Tail(outbound) \in Seq(Replies)
      /\ Len(outbound) \in Nat /\ Len(Tail(outbound)) = Len(outbound) - 1
  BY <1>1, TailOf
<1>3. o.event \in Events /\ o.msg \in ChatMessages /\ c \in Chats
  BY <1>2, Names DEF Replies
<1>4. /\ outbound' = Tail(outbound)
      /\ \E r \in Results : CompletePending(c, r, o.msg)
      /\ keys' = keys \/ keys' = keys \cup {o}
      /\ sent' = [sent EXCEPT ![o.msg] = @ + 1] \/ sent' = sent
      /\ Fault \/ NoFault
      /\ UNCHANGED <<posted, accepted, told, acked, polling, handling, status, unacked, file,
                     connected, frames, finals, counts, direct>>
  <2>1. "ok" \in Results /\ "failed" \in Results /\ "blocked" \in Results
    BY DEF Results
  <2>2. outbound' = Tail(outbound)
        /\ UNCHANGED <<posted, accepted, told, acked, polling, handling, status, unacked, file,
                       connected, frames, finals, counts, direct>>
    BY DEF OutboundSent
  <2>3. \/ SendText(o) /\ CompletePending(c, "ok", o.msg) /\ NoFault
        \/ SendText(o) /\ CompletePending(c, "failed", o.msg) /\ Fault
        \/ CompletePending(c, "failed", o.msg) /\ Fault /\ UNCHANGED <<keys, sent>>
        \/ /\ CompletePending(c, "blocked", o.msg) /\ (Fault \/ NoFault)
           /\ UNCHANGED <<keys, sent>>
    BY DEF OutboundSent
  <2>4. \E r \in Results : CompletePending(c, r, o.msg)
    BY <2>1, <2>3
  <2>5. Fault \/ NoFault
    BY <2>3
  <2>6. /\ keys' = keys \/ keys' = keys \cup {o}
        /\ sent' = [sent EXCEPT ![o.msg] = @ + 1] \/ sent' = sent
    BY <2>3 DEF SendText
  <2> QED
    BY <2>2, <2>4, <2>5, <2>6
<1> HIDE DEF o, c
<1>5. PICK r \in Results : CompletePending(c, r, o.msg)
  BY <1>4
<1>6. /\ awaited' \in [Chats -> Events \cup {nobody}] /\ result' \in [Events -> Results]
      /\ given' \subseteq Events
  BY <1>3, <1>5, CompleteTypes
<1>7. keys' \subseteq Replies /\ sent' \in [ChatMessages -> Nat]
  <2>1. keys' \subseteq Replies
    BY <1>2, <1>4 DEF WeChatTypeOK, Replies
  <2>2. sent' \in [ChatMessages -> Nat]
    BY <1>3, <1>4 DEF WeChatTypeOK
  <2> QED
    BY <2>1, <2>2
<1>8. Len(outbound') <= QueueSize
  BY <1>1, <1>2, <1>4, Names
<1>9. faults' \in 0..MaxFaults /\ kills' = kills
  BY <1>4, FaultTypes
<1>10. WeChatTypeOK'
  BY <1>2, <1>4, <1>6, <1>7, <1>8, <1>9 DEF WeChatTypeOK, polling, Replies, Results
<1> QED
  BY <1>1, <1>2, <1>3, <1>4, <1>10 DEF o, c

LEMMA OutsideTypes ==
  ASSUME WeChatTypeOK,
         \/ \E e \in Events : CoreReplies(e)
         \/ \E n \in Notices : CoreNotifies(n)
         \/ \E c \in Chats : CloseIdle(c)
  PROVE  WeChatTypeOK'
<1>1. ASSUME NEW e \in Events, CoreReplies(e)
      PROVE  WeChatTypeOK'
  <2>1. Publish({Chat[e]}, <<FinalFrame(e), TextFrame(e)>>)
    BY <1>1 DEF CoreReplies, FinalFrame, TextFrame
  <2>2. frames' \in [Sockets -> Seq(Frame)] /\ faults' \in 0..MaxFaults /\ kills' = kills
    BY <2>1, TwoFrames
  <2>3. told' \subseteq ChatMessages
    BY <1>1, Names DEF CoreReplies, WeChatTypeOK
  <2> QED
    BY <1>1, <2>2, <2>3 DEF CoreReplies, WeChatTypeOK, polling, handler
<1>2. ASSUME NEW n \in Notices, CoreNotifies(n)
      PROVE  WeChatTypeOK'
  <2>1. Publish({provider, Chat[n]}, <<TextFrame(n)>>)
    BY <1>2 DEF CoreNotifies, TextFrame
  <2>2. frames' \in [Sockets -> Seq(Frame)] /\ faults' \in 0..MaxFaults /\ kills' = kills
    BY <2>1, OneFrame, Names
  <2>3. told' \subseteq ChatMessages
    BY <1>2, Names DEF CoreNotifies, WeChatTypeOK
  <2> QED
    BY <1>2, <2>2, <2>3 DEF CoreNotifies, WeChatTypeOK, polling, handler
<1>3. ASSUME NEW c \in Chats, CloseIdle(c)
      PROVE  WeChatTypeOK'
  <2>1. connected' \subseteq Chats
    BY <1>3 DEF CloseIdle, WeChatTypeOK
  <2>2. << >> \in Seq(Frame) /\ c \in Sockets
    BY Names
  <2>3. frames' \in [Sockets -> Seq(Frame)]
    BY <1>3, <2>2 DEF CloseIdle, WeChatTypeOK
  <2> QED
    BY <1>3, <2>1, <2>3 DEF CloseIdle, WeChatTypeOK, outside, polling, handler, budget
<1> QED
  BY <1>1, <1>2, <1>3

-----------------------------------------------------------------------------
(* Acknowledgements. *)

LEMMA SettlesQuietly ==
  ASSUME WeChatTypeOK, Handled, Polled, posted \subseteq posted', accepted \subseteq accepted',
         UNCHANGED <<status, file, unacked, acked, handling, polling>>
  PROVE  Handled' /\ Polled'
BY DEF Handled, Polled, Taken, polling

(* A step of the handler of e that acknowledges nothing. *)
LEMMA HandlerSettles ==
  ASSUME WeChatTypeOK, Handled, Polled, NEW e \in Events,
         NEW from, from # "idle", NEW to \in Handlings, NEW t \in Status,
         Step(e, from, to, t),
         accepted \subseteq accepted', UNCHANGED <<posted, file, unacked, acked, polling>>,
         t \in Complete => e \in accepted' \/ e \in Ignored,
         to = "acking" => t \in Complete,
         to = "waiting" => e \in accepted',
         to = "idle" => t \notin Complete
  PROVE  Handled' /\ Polled'
<1>1. /\ handling[e] = from /\ handling'[e] = to /\ status'[e] = t
      /\ \A d \in Events \ {e} : handling'[d] = handling[d] /\ status'[d] = status[d]
  BY StepTypes
<1>2. Handled'
  BY <1>1 DEF Handled, Taken
<1>3. Polled'
  BY <1>1 DEF Polled, polling
<1> QED
  BY <1>2, <1>3

LEMMA SettledStep ==
  ASSUME WeChatTypeOK, Handled, Polled, WeChatNext
  PROVE  Handled' /\ Polled'
<1>1. ASSUME NEW e \in Events, Arrive(e)
      PROVE  Handled' /\ Polled'
  BY <1>1, SettlesQuietly DEF Arrive, handler
<1>2. ASSUME NEW e \in Events, Skip(e)
      PROVE  Handled' /\ Polled'
  <2>1. PICK t \in Complete : /\ Step(e, "queued", "acking", t)
                              /\ t = status[e] \/ e \in Ignored
    BY <1>2 DEF Skip, Complete
  <2>2. e \in accepted \/ e \in Ignored
    <3>1. handling[e] = "queued"
      BY <2>1 DEF Step
    <3> QED
      BY <2>1, <3>1 DEF Handled, Taken
  <2>3. UNCHANGED <<posted, accepted, file, unacked, acked, polling>>
    BY <1>2 DEF Skip, outside
  <2> QED
    BY <2>1, <2>2, <2>3, HandlerSettles DEF Status, Handlings
<1>3. ASSUME NEW e \in Events, Begin(e)
      PROVE  Handled' /\ Polled'
  <2>1. "processing" \in Status \ Complete /\ "submitting" \in Handlings
    BY DEF Status, Complete, Handlings
  <2>2. /\ Step(e, "queued", "submitting", "processing")
        /\ UNCHANGED <<posted, accepted, file, unacked, acked, polling>>
    BY <1>3 DEF Begin, outside
  <2> QED
    BY <2>1, <2>2, HandlerSettles
<1>4. ASSUME NEW e \in Events, BeginFails(e)
      PROVE  Handled' /\ Polled'
  <2>1. "processing" \in Status \ Complete /\ "idle" \in Handlings
    BY DEF Status, Complete, Handlings
  <2>2. /\ Step(e, "queued", "idle", "processing")
        /\ UNCHANGED <<posted, accepted, file, unacked, acked, polling>>
    BY <1>4 DEF BeginFails, outside
  <2> QED
    BY <2>1, <2>2, HandlerSettles
<1>5. ASSUME NEW e \in Events, Submit(e)
      PROVE  Handled' /\ Polled'
  <2>1. "submitted" \in Status /\ "waiting" \in Handlings /\ "acking" \in Handlings
        /\ "submitted" \in Complete
    BY DEF Status, Complete, Handlings
  <2>2. accepted \subseteq accepted' /\ e \in accepted'
        /\ UNCHANGED <<posted, file, unacked, acked, polling>>
    BY <1>5 DEF Submit
  <2>3. \/ Step(e, "submitting", "waiting", "submitted")
        \/ Step(e, "submitting", "acking", "submitted")
    BY <1>5 DEF Submit
  <2> QED
    BY <2>1, <2>2, <2>3, HandlerSettles
<1>6. ASSUME NEW e \in Events, SubmitFails(e)
      PROVE  Handled' /\ Polled'
  <2>1. "failed" \in Status \ Complete /\ "idle" \in Handlings
    BY DEF Status, Complete, Handlings
  <2>2. accepted \subseteq accepted' /\ UNCHANGED <<posted, file, unacked, acked, polling>>
        /\ Step(e, "submitting", "idle", "failed")
    BY <1>6 DEF SubmitFails
  <2> QED
    BY <2>1, <2>2, HandlerSettles
<1>7. ASSUME NEW e \in Events, Wake(e) \/ Timeout(e)
      PROVE  Handled' /\ Polled'
  <2>1. PICK t \in Complete : Step(e, "waiting", "acking", t)
    BY <1>7 DEF Wake, Timeout, Complete
  <2>2. e \in accepted
    BY <2>1 DEF Step, Handled
  <2>3. UNCHANGED <<posted, accepted, file, unacked, acked, polling>>
    BY <1>7 DEF Wake, Timeout, outside
  <2> QED
    BY <2>1, <2>2, <2>3, HandlerSettles DEF Status, Handlings
<1>8. ASSUME NEW e \in Events, Ack(e)
      PROVE  Handled' /\ Polled'
  <2>1. Step(e, "acking", "idle", status[e])
    BY <1>8 DEF Ack
  <2>2. /\ handling[e] = "acking" /\ handling'[e] = "idle"
        /\ \A d \in Events \ {e} : handling'[d] = handling[d]
        /\ \A d \in Events : status'[d] = status[d]
    BY <2>1 DEF Step, WeChatTypeOK
  <2>3. Taken(e) /\ e \in posted /\ e \in batch /\ poll = "join"
    BY <2>2 DEF Handled, Polled, WeChatTypeOK
  <2>4. /\ \A d \in acked' \cup unacked' : d \in acked \cup unacked \cup {e}
        /\ acked \cup unacked \cup {e} \subseteq acked' \cup unacked'
        /\ UNCHANGED <<posted, accepted, file, polling>>
    BY <1>8 DEF Ack, Acknowledged, AckFailed, outside
  <2>5. Handled'
    BY <2>2, <2>3, <2>4 DEF Handled, Taken
  <2>6. Polled'
    BY <2>2, <2>3, <2>4 DEF Polled, polling
  <2> QED
    BY <2>5, <2>6
<1>9. CASE AckPending
  <2>1. /\ acked' \cup unacked' = acked \cup unacked
        /\ UNCHANGED <<posted, accepted, status, handling, file, batch, passed>>
        /\ poll = "ack"
    BY <1>9 DEF AckPending, Acknowledged, AckFailed, outside, handler
  <2>2. Handled'
    <3>1. \A e \in Events : e \in acked' \/ e \in unacked' => e \in acked \/ e \in unacked
      BY <2>1
    <3> QED
      BY <2>1, <3>1 DEF Handled, Taken
  <2>3. Polled'
    BY <2>1 DEF Polled
  <2> QED
    BY <2>2, <2>3
<1>10. CASE GetEvents
  <2>1. /\ batch' \cap passed = {}
        /\ \A e \in Events : /\ e \in batch' => handling'[e] = "queued"
                             /\ e \notin batch' => handling'[e] = handling[e]
        /\ poll = "get" /\ poll' = "join"
        /\ UNCHANGED <<posted, accepted, status, file, acked, unacked, passed>>
    BY <1>10 DEF GetEvents, outside
  <2>2. Handled'
    BY <2>1 DEF Handled, Taken
  <2>3. Polled'
    BY <2>1 DEF Polled
  <2> QED
    BY <2>2, <2>3
<1>11. CASE PollFails
  <2>1. /\ poll = "get"
        /\ UNCHANGED <<posted, accepted, status, handling, file, acked, unacked, batch, passed>>
    BY <1>11 DEF PollFails, outside, handler
  <2> QED
    BY <2>1 DEF Handled, Taken, Polled
<1>12. CASE Joined
  <2>1. /\ \A e \in batch : handling[e] = "idle"
        /\ batch' = {}
        /\ UNCHANGED <<posted, accepted, status, handling, file, acked, unacked>>
        /\ passed' = passed \/ ((\A e \in batch : status[e] \in Complete)
                                /\ passed' = passed \cup batch)
    BY <1>12 DEF Joined, Advance, outside, handler
  <2>2. Handled'
    BY <2>1 DEF Handled, Taken
  <2>3. \A e \in Events : handling[e] = "idle"
    BY <2>1 DEF Polled, WeChatTypeOK
  <2>4. Polled'
    BY <2>1, <2>3 DEF Polled
  <2> QED
    BY <2>2, <2>4
<1>13. CASE Flush
  <2>1. /\ file'.status = status /\ file'.unacked = unacked
        /\ UNCHANGED <<posted, accepted, status, handling, acked, unacked, polling>>
    BY <1>13 DEF Flush, outside, handler
  <2> QED
    BY <2>1 DEF Handled, Taken, Polled, polling
<1>14. CASE Kill
  <2>1. /\ status' = file.status /\ unacked' = file.unacked
        /\ \A e \in Events : handling'[e] = "idle"
        /\ batch' = {} /\ passed' = {}
        /\ UNCHANGED <<posted, accepted, file, acked>>
    BY <1>14 DEF Kill, outside
  <2> QED
    BY <2>1 DEF Handled, Taken, Polled
<1>15. CASE /\ posted \subseteq posted' /\ accepted \subseteq accepted'
            /\ UNCHANGED <<status, file, unacked, acked, handling, polling>>
  BY <1>15, SettlesQuietly
<1>16. ASSUME \/ \E e \in Events : CoreReplies(e)
              \/ \E n \in Notices : CoreNotifies(n)
              \/ \E c \in Chats : CloseIdle(c)
              \/ \E s \in Sockets : Receive(s)
              \/ \E s \in Sockets : DirectSent(s)
              \/ OutboundSent
       PROVE  UNCHANGED <<posted, accepted, status, file, unacked, acked, handling, polling>>
  BY <1>16 DEF CoreReplies, CoreNotifies, CloseIdle, Receive, DirectSent, OutboundSent,
               outside, handler
<1> QED
  BY <1>1, <1>2, <1>3, <1>4, <1>5, <1>6, <1>7, <1>8, <1>9, <1>10, <1>11, <1>12, <1>13, <1>14,
     <1>15, <1>16, WeChatSteps

-----------------------------------------------------------------------------
(* What sequences of frames and of queued replies hold. *)

LEMMA HasTail ==
  ASSUME NEW S, NEW s \in Seq(S), s # << >>, NEW m, Has(Tail(s), m)
  PROVE  Has(s, m)
<1>1. PICK i \in DOMAIN Tail(s) : Tail(s)[i].msg = m
  BY DEF Has
<1>2. i \in 1..Len(Tail(s)) /\ Tail(s)[i] = s[i + 1] /\ i + 1 \in DOMAIN s
  BY TailOf
<1> QED
  BY <1>1, <1>2 DEF Has

LEMMA HasHead ==
  ASSUME NEW S, NEW s \in Seq(S), s # << >>
  PROVE  Has(s, Head(s).msg)
BY TailOf DEF Has

LEMMA HasAppend ==
  ASSUME NEW S, NEW s \in Seq(S), NEW x \in S, NEW m, Has(Append(s, x), m), x.msg # m
  PROVE  Has(s, m)
<1> DEFINE t == Append(s, x)
<1>1. /\ DOMAIN t = 1..(Len(s) + 1) /\ Len(s) \in Nat /\ DOMAIN s = 1..Len(s)
      /\ t[Len(s) + 1] = x
      /\ \A i \in 1..Len(s) : t[i] = s[i]
  BY AppendOf
<1>2. PICK i \in DOMAIN t : t[i].msg = m
  BY DEF Has
<1> HIDE DEF t
<1>3. i \in 1..Len(s)
  BY <1>1, <1>2
<1> QED
  BY <1>1, <1>2, <1>3 DEF Has

LEMMA HasNone ==
  ASSUME NEW m
  PROVE  ~Has(<< >>, m)
BY DEF Has

LEMMA NoneIsLast ==
  TextIsLast(<< >>) /\ QueuedOnce(<< >>)
BY DEF TextIsLast, QueuedOnce

LEMMA TailKeepsLast ==
  ASSUME NEW S, NEW s \in Seq(S), s # << >>, TextIsLast(s)
  PROVE  TextIsLast(Tail(s))
<1> DEFINE t == Tail(s)
<1>1. /\ Len(t) \in Nat /\ DOMAIN s = 1..(Len(t) + 1) /\ DOMAIN t = 1..Len(t)
      /\ \A i \in 1..Len(t) : t[i] = s[i + 1]
  BY TailOf
<1> HIDE DEF t
<1>2. ASSUME NEW i \in DOMAIN t, NEW j \in DOMAIN t,
             t[i].type = "message", t[i].msg \in Events, t[j].msg = t[i].msg
      PROVE  j <= i
  <2>1. /\ i + 1 \in DOMAIN s /\ j + 1 \in DOMAIN s
        /\ t[i] = s[i + 1] /\ t[j] = s[j + 1]
    BY <1>1, <1>2
  <2>2. j + 1 <= i + 1
    BY <1>2, <2>1 DEF TextIsLast
  <2> QED
    BY <1>1, <2>2
<1>3. TextIsLast(t)
  BY <1>2 DEF TextIsLast
<1> QED
  BY <1>3 DEF t

(* A message may follow the frames it is not among, or its message.completed. *)
LEMMA AppendKeepsLast ==
  ASSUME NEW S, NEW s \in Seq(S), NEW x \in S, TextIsLast(s),
         x.msg \in Events => \A i \in DOMAIN s : s[i].type = "message" => s[i].msg # x.msg
  PROVE  TextIsLast(Append(s, x))
<1> DEFINE t == Append(s, x)
<1>1. /\ DOMAIN t = 1..(Len(s) + 1) /\ Len(s) \in Nat /\ DOMAIN s = 1..Len(s)
      /\ t[Len(s) + 1] = x
      /\ \A i \in 1..Len(s) : t[i] = s[i]
  BY AppendOf
<1> HIDE DEF t
<1>2. ASSUME NEW i \in DOMAIN t, NEW j \in DOMAIN t,
             t[i].type = "message", t[i].msg \in Events, t[j].msg = t[i].msg
      PROVE  j <= i
  <2>1. CASE i = Len(s) + 1
    BY <1>1, <2>1
  <2>2. CASE i \in DOMAIN s /\ j \in DOMAIN s
    BY <1>1, <1>2, <2>2 DEF TextIsLast
  <2>3. CASE i \in DOMAIN s /\ j = Len(s) + 1
    BY <1>1, <1>2, <2>3
  <2> QED
    BY <1>1, <2>1, <2>2, <2>3
<1>3. TextIsLast(t)
  BY <1>2 DEF TextIsLast
<1> QED
  BY <1>3 DEF t

(* Behind a delivery.message there is no frame of the same reply. *)
LEMMA TextEnds ==
  ASSUME NEW S, NEW s \in Seq(S), s # << >>, TextIsLast(s),
         Head(s).type = "message", Head(s).msg \in Events
  PROVE  ~Has(Tail(s), Head(s).msg)
<1> SUFFICES ASSUME NEW i \in DOMAIN Tail(s), Tail(s)[i].msg = Head(s).msg
             PROVE  FALSE
  BY DEF Has
<1>1. /\ s[1] = Head(s) /\ 1 \in DOMAIN s /\ i \in Nat /\ i > 0
      /\ i + 1 \in DOMAIN s /\ Tail(s)[i] = s[i + 1]
  BY TailOf
<1>2. i + 1 <= 1
  BY <1>1 DEF TextIsLast
<1> QED
  BY <1>1, <1>2

LEMMA TailQueuedOnce ==
  ASSUME NEW S, NEW s \in Seq(S), s # << >>, QueuedOnce(s)
  PROVE  /\ QueuedOnce(Tail(s))
         /\ Head(s).msg \in Events => ~Has(Tail(s), Head(s).msg)
<1> DEFINE t == Tail(s)
<1>1. /\ Len(t) \in Nat /\ DOMAIN s = 1..(Len(t) + 1) /\ DOMAIN t = 1..Len(t)
      /\ \A i \in 1..Len(t) : t[i] = s[i + 1]
      /\ s[1] = Head(s)
  BY TailOf
<1> HIDE DEF t
<1>2. ASSUME NEW i \in DOMAIN t, NEW j \in DOMAIN t, t[i].msg \in Events, t[j].msg = t[i].msg
      PROVE  i = j
  <2>1. /\ i + 1 \in DOMAIN s /\ j + 1 \in DOMAIN s
        /\ t[i] = s[i + 1] /\ t[j] = s[j + 1]
    BY <1>1
  <2>2. i + 1 = j + 1
    BY <1>2, <2>1 DEF QueuedOnce
  <2> QED
    BY <1>1, <2>2
<1>3. ASSUME Head(s).msg \in Events, NEW i \in DOMAIN t, t[i].msg = Head(s).msg
      PROVE  FALSE
  <2>1. i + 1 \in DOMAIN s /\ 1 \in DOMAIN s /\ t[i] = s[i + 1] /\ i \in Nat /\ i > 0
    BY <1>1
  <2>2. i + 1 = 1
    BY <1>1, <1>3, <2>1 DEF QueuedOnce
  <2> QED
    BY <2>1, <2>2
<1>4. QueuedOnce(t) /\ (Head(s).msg \in Events => ~Has(t, Head(s).msg))
  BY <1>2, <1>3 DEF QueuedOnce, Has
<1> QED
  BY <1>4 DEF t

LEMMA AppendQueuedOnce ==
  ASSUME NEW S, NEW s \in Seq(S), NEW x \in S, QueuedOnce(s), x.msg \in Events => ~Has(s, x.msg)
  PROVE  QueuedOnce(Append(s, x))
<1> DEFINE t == Append(s, x)
<1>1. /\ DOMAIN t = 1..(Len(s) + 1) /\ Len(s) \in Nat /\ DOMAIN s = 1..Len(s)
      /\ t[Len(s) + 1] = x
      /\ \A i \in 1..Len(s) : t[i] = s[i]
  BY AppendOf
<1> HIDE DEF t
<1>2. ASSUME NEW i \in DOMAIN t, NEW j \in DOMAIN t, t[i].msg \in Events, t[j].msg = t[i].msg
      PROVE  i = j
  <2>1. CASE i = Len(s) + 1 /\ j \in DOMAIN s
    BY <1>1, <1>2, <2>1 DEF Has
  <2>2. CASE i \in DOMAIN s /\ j \in DOMAIN s
    BY <1>1, <1>2, <2>2 DEF QueuedOnce
  <2>3. CASE i \in DOMAIN s /\ j = Len(s) + 1
    BY <1>1, <1>2, <2>3 DEF Has
  <2> QED
    BY <1>1, <2>1, <2>2, <2>3
<1>3. QueuedOnce(t)
  BY <1>2 DEF QueuedOnce
<1> QED
  BY <1>3 DEF t

-----------------------------------------------------------------------------
(* Frames on the sockets. *)

LEMMA FramesAreSequences ==
  ASSUME WeChatTypeOK, NEW s \in Sockets
  PROVE  frames[s] \in Seq(Frame)
BY DEF WeChatTypeOK

(* A step that publishes no reply. *)
LEMMA FramesShrink ==
  ASSUME OnItsSocket, told \cap Events = told' \cap Events, accepted \subseteq accepted',
         \A s \in Sockets : /\ \A e \in Events : Has(frames'[s], e) => Has(frames[s], e)
                            /\ TextIsLast(frames'[s])
  PROVE  OnItsSocket'
BY DEF OnItsSocket

(* The frames after a reply to e was published. *)
LEMMA RepliesOnSocket ==
  ASSUME WeChatTypeOK, OnItsSocket, NEW e \in Events, CoreReplies(e)
  PROVE  /\ OnItsSocket'
         /\ \A s \in Sockets, d \in Events : Has(frames'[s], d) => Has(frames[s], d) \/ d = e
<1>1. Publish({Chat[e]}, <<FinalFrame(e), TextFrame(e)>>)
  BY DEF CoreReplies, FinalFrame, TextFrame
<1>2. /\ \A s \in Sockets \ {Chat[e]} : frames'[s] = frames[s]
      /\ \/ frames'[Chat[e]] = frames[Chat[e]]
         \/ frames'[Chat[e]] = Append(frames[Chat[e]], FinalFrame(e))
         \/ frames'[Chat[e]] = Append(Append(frames[Chat[e]], FinalFrame(e)), TextFrame(e))
  BY <1>1, TwoFrames
<1>3. e \in accepted /\ e \notin told /\ told' = told \cup {e} /\ accepted' = accepted
  BY DEF CoreReplies
<1> DEFINE q == frames[Chat[e]]
           q1 == Append(q, FinalFrame(e))
           q2 == Append(q1, TextFrame(e))
<1>4. /\ Chat[e] \in Sockets /\ q \in Seq(Frame) /\ FinalFrame(e) \in Frame /\ TextFrame(e) \in Frame
      /\ FinalFrame(e).msg = e /\ TextFrame(e).msg = e /\ FinalFrame(e).type = "completed"
  BY Names, FramesTyped, FramesAreSequences DEF FinalFrame, TextFrame
<1>5. ~Has(q, e) /\ TextIsLast(q)
  BY <1>3, <1>4 DEF OnItsSocket
<1> HIDE DEF q
<1>6. q1 \in Seq(Frame) /\ \A d \in Events : Has(q1, d) => Has(q, d) \/ d = e
  BY <1>4, AppendOf, HasAppend
<1>7. TextIsLast(q1)
  <2>1. \A i \in DOMAIN q : q[i].msg # FinalFrame(e).msg
    BY <1>4, <1>5 DEF Has
  <2> QED
    BY <1>4, <1>5, <2>1, AppendKeepsLast
<1>8. \A d \in Events : Has(q2, d) => Has(q, d) \/ d = e
  <2> HIDE DEF q1
  <2> QED
    BY <1>4, <1>6, HasAppend
<1>9. TextIsLast(q2)
  <2>1. \A i \in DOMAIN q1 : q1[i].type = "message" => q1[i].msg # TextFrame(e).msg
    <3>1. /\ DOMAIN q1 = 1..(Len(q) + 1) /\ Len(q) \in Nat /\ DOMAIN q = 1..Len(q)
          /\ q1[Len(q) + 1] = FinalFrame(e)
          /\ \A i \in 1..Len(q) : q1[i] = q[i]
      BY <1>4, AppendOf
    <3> HIDE DEF q1
    <3>2. \A i \in DOMAIN q : q[i].msg # e
      BY <1>5 DEF Has
    <3> QED
      BY <1>4, <3>1, <3>2
  <2> HIDE DEF q1
  <2> QED
    BY <1>4, <1>6, <1>7, <2>1, AppendKeepsLast
<1>10. frames'[Chat[e]] = q \/ frames'[Chat[e]] = q1 \/ frames'[Chat[e]] = q2
  BY <1>2 DEF q
<1> HIDE DEF q1, q2
<1>11. /\ \A d \in Events : Has(frames'[Chat[e]], d) => Has(q, d) \/ d = e
       /\ TextIsLast(frames'[Chat[e]])
  BY <1>5, <1>6, <1>7, <1>8, <1>9, <1>10
<1>12. \A s \in Sockets, d \in Events : Has(frames'[s], d) => Has(frames[s], d) \/ (d = e /\ s = Chat[e])
  BY <1>2, <1>11 DEF q
<1>13. \A s \in Sockets : TextIsLast(frames'[s])
  BY <1>2, <1>11 DEF OnItsSocket
<1>14. OnItsSocket'
  BY <1>3, <1>12, <1>13 DEF OnItsSocket
<1> QED
  BY <1>12, <1>14

(* The frames of replies after any other step but a crash. *)
LEMMA NoMoreFrames ==
  ASSUME WeChatTypeOK, OnItsSocket,
         \/ \E n \in Notices : CoreNotifies(n)
         \/ \E c \in Chats : CloseIdle(c)
         \/ \E s \in Sockets : Receive(s)
  PROVE  \A s \in Sockets : /\ \A e \in Events : Has(frames'[s], e) => Has(frames[s], e)
                            /\ TextIsLast(frames'[s])
<1>1. ASSUME NEW n \in Notices, CoreNotifies(n), NEW s \in Sockets
      PROVE  /\ \A e \in Events : Has(frames'[s], e) => Has(frames[s], e)
             /\ TextIsLast(frames'[s])
  <2>1. Publish({provider, Chat[n]}, <<TextFrame(n)>>)
    BY <1>1 DEF CoreNotifies, TextFrame
  <2>2. frames'[s] = frames[s] \/ frames'[s] = Append(frames[s], TextFrame(n))
    BY <2>1, OneFrame, Names
  <2>3. /\ TextFrame(n) \in Frame /\ TextFrame(n).msg = n /\ n \notin Events
        /\ frames[s] \in Seq(Frame) /\ TextIsLast(frames[s])
    BY Names, FramesTyped, FramesAreSequences DEF TextFrame, OnItsSocket
  <2>4. TextIsLast(Append(frames[s], TextFrame(n)))
    BY <2>3, AppendKeepsLast
  <2>5. \A e \in Events : Has(Append(frames[s], TextFrame(n)), e) => Has(frames[s], e)
    BY <2>3, HasAppend
  <2> QED
    BY <2>2, <2>3, <2>4, <2>5
<1>2. ASSUME NEW c \in Chats, CloseIdle(c), NEW s \in Sockets
      PROVE  /\ \A e \in Events : Has(frames'[s], e) => Has(frames[s], e)
             /\ TextIsLast(frames'[s])
  <2>1. frames'[s] = frames[s] \/ frames'[s] = << >>
    BY <1>2 DEF CloseIdle, WeChatTypeOK
  <2> QED
    BY <2>1, NoneIsLast, HasNone DEF OnItsSocket
<1>3. ASSUME NEW r \in Sockets, Receive(r), NEW s \in Sockets
      PROVE  /\ \A e \in Events : Has(frames'[s], e) => Has(frames[s], e)
             /\ TextIsLast(frames'[s])
  <2>1. /\ frames[r] \in Seq(Frame) /\ frames[r] # << >>
        /\ frames'[r] = Tail(frames[r])
        /\ s # r => frames'[s] = frames[s]
    BY <1>3, Received
  <2>2. TextIsLast(frames[r]) /\ TextIsLast(frames[s])
    BY DEF OnItsSocket
  <2>3. CASE s = r
    BY <2>1, <2>2, <2>3, HasTail, TailKeepsLast
  <2>4. CASE s # r
    BY <2>1, <2>2, <2>4
  <2> QED
    BY <2>3, <2>4
<1> QED
  BY <1>1, <1>2, <1>3

(* Every other step leaves the frames alone, or they are gone. *)
LEMMA OtherFrames ==
  ASSUME WeChatTypeOK, WeChatNext
  PROVE  \/ \E e \in Events : CoreReplies(e)
         \/ \E n \in Notices : CoreNotifies(n)
         \/ \E c \in Chats : CloseIdle(c)
         \/ \E s \in Sockets : Receive(s)
         \/ UNCHANGED <<told, frames>> /\ accepted \subseteq accepted'
         \/ Kill
<1>1. ASSUME NEW e \in Events,
             \/ Arrive(e) \/ Skip(e) \/ Begin(e) \/ BeginFails(e) \/ Submit(e)
             \/ SubmitFails(e) \/ Wake(e) \/ Timeout(e) \/ Ack(e)
      PROVE  UNCHANGED <<told, frames>> /\ accepted \subseteq accepted'
  BY <1>1 DEF Arrive, Skip, Begin, BeginFails, Submit, SubmitFails, Wake, Timeout, Ack,
              outside, replies
<1>2. ASSUME \/ \E s \in Sockets : DirectSent(s)
             \/ AckPending \/ GetEvents \/ PollFails \/ Joined \/ OutboundSent \/ Flush
      PROVE  UNCHANGED <<told, frames>> /\ accepted \subseteq accepted'
  BY <1>2 DEF DirectSent, AckPending, GetEvents, PollFails, Joined, OutboundSent, Flush,
              outside, replies
<1> QED
  BY <1>1, <1>2, WeChatSteps

LEMMA OnItsSocketStep ==
  ASSUME WeChatTypeOK, OnItsSocket, WeChatNext
  PROVE  OnItsSocket'
<1>1. CASE \E e \in Events : CoreReplies(e)
  BY <1>1, RepliesOnSocket
<1>2. CASE \/ \E n \in Notices : CoreNotifies(n)
           \/ \E c \in Chats : CloseIdle(c)
           \/ \E s \in Sockets : Receive(s)
  <2>1. told \cap Events = told' \cap Events
    <3>1. \/ \E n \in Notices : told' = told \cup {n}
          \/ told' = told
      BY <1>2 DEF CoreNotifies, CloseIdle, Receive, outside
    <3> QED
      BY <3>1, Names
  <2>2. accepted' = accepted
    BY <1>2 DEF CoreNotifies, CloseIdle, Receive, outside
  <2> QED
    BY <1>2, <2>1, <2>2, NoMoreFrames, FramesShrink
<1>3. CASE UNCHANGED <<told, frames>> /\ accepted \subseteq accepted'
  BY <1>3 DEF OnItsSocket
<1>4. CASE Kill
  <2>1. /\ \A s \in Sockets : frames'[s] = << >>
        /\ UNCHANGED <<told, accepted>>
    BY <1>4 DEF Kill, outside
  <2> QED
    BY <2>1, NoneIsLast, HasNone DEF OnItsSocket
<1> QED
  BY <1>1, <1>2, <1>3, <1>4, OtherFrames

-----------------------------------------------------------------------------
(* A reply is sent once. *)

(* A step that takes no reply from a socket and sends none. *)
LEMMA CopiesStay ==
  ASSUME WeChatTypeOK, OneCopy, told \subseteq told', UNCHANGED <<direct, outbound, sent>>,
         finals \subseteq finals',
         \A e \in Events : Has(frames'[Chat[e]], e) => Has(frames[Chat[e]], e) \/ e \notin told
  PROVE  OneCopy'
BY Names DEF OneCopy, Sending, Gone

(* What a chat is sent next. *)
LEMMA AtHand ==
  ASSUME WeChatTypeOK, OnItsSocket, OneCopy, NEW s \in Sockets, Receive(s)
  PROVE  Head(frames[s]).msg \in Events =>
            /\ s = Chat[Head(frames[s]).msg] /\ Head(frames[s]).msg \in told
            /\ Has(frames[s], Head(frames[s]).msg)
            /\ ~Sending(Head(frames[s]).msg)
            /\ Head(frames[s]).msg \notin finals =>
                  /\ sent[Head(frames[s]).msg] = 0
                  /\ ~Has(outbound, Head(frames[s]).msg)
            /\ Head(frames[s]).type = "message" => ~Has(frames'[s], Head(frames[s]).msg)
<1>1. /\ frames[s] \in Seq(Frame) /\ frames[s] # << >> /\ frames'[s] = Tail(frames[s])
      /\ Head(frames[s]).msg \in ChatMessages
  BY Received
<1> DEFINE m == Head(frames[s]).msg
<1>2. Has(frames[s], m)
  BY <1>1, HasHead
<1>3. SUFFICES ASSUME m \in Events
               PROVE  /\ s = Chat[m] /\ m \in told /\ ~Sending(m)
                      /\ m \notin finals => sent[m] = 0 /\ ~Has(outbound, m)
                      /\ Head(frames[s]).type = "message" => ~Has(frames'[s], m)
  BY <1>2
<1>4. Head(frames[s]).type = "message" => ~Has(frames'[s], m)
  <2>1. TextIsLast(frames[s])
    BY DEF OnItsSocket
  <2> QED
    BY <1>1, <1>3, <2>1, TextEnds
<1> HIDE DEF m
<1>5. s = Chat[m] /\ m \in told
  BY <1>2, <1>3 DEF OnItsSocket
<1>6. ~Sending(m) /\ (m \notin finals => sent[m] = 0 /\ ~Has(outbound, m))
  BY <1>2, <1>3, <1>5 DEF OneCopy, Gone
<1> QED
  BY <1>4, <1>5, <1>6

LEMMA ReceiveOneCopy ==
  ASSUME WeChatTypeOK, OnItsSocket, OneCopy, NEW s \in Sockets, Receive(s)
  PROVE  OneCopy'
<1> DEFINE f == Head(frames[s])
           m == f.msg
           e == awaited[Chat[m]]
<1>1. \/ e # nobody /\ m \notin finals /\ finals' = finals \cup {m}
         /\ EnqueueReply(e, m) /\ UNCHANGED direct
      \/ /\ f.type = "message" /\ m \notin finals
         /\ direct' = [direct EXCEPT ![s] = m]
         /\ UNCHANGED <<finals, outbound>>
      \/ UNCHANGED <<finals, outbound, direct>>
  BY DEF Receive, Remember
<1>2. direct[s] = nobody /\ UNCHANGED <<told, sent>>
  BY DEF Receive, outside
<1>3. m \in ChatMessages /\ e \in Events \cup {nobody}
  BY Received
<1>4. m \in Events =>
        /\ s = Chat[m] /\ m \in told /\ ~Sending(m)
        /\ m \notin finals => sent[m] = 0 /\ ~Has(outbound, m)
        /\ f.type = "message" => ~Has(frames'[s], m)
  BY AtHand
<1>5. \A d \in Events : Has(frames'[Chat[d]], d) => Has(frames[Chat[d]], d)
  BY NoMoreFrames, Names
<1> HIDE DEF f, m, e
<1>6. CASE UNCHANGED <<finals, outbound, direct>>
  BY <1>2, <1>5, <1>6, CopiesStay
<1>7. CASE /\ e # nobody /\ m \notin finals /\ finals' = finals \cup {m}
           /\ EnqueueReply(e, m) /\ UNCHANGED direct
  <2>1. \/ UNCHANGED outbound
        \/ \E o \in Replies : o.msg = m /\ outbound' = Append(outbound, o)
    BY <1>3, <1>7, Enqueues
  <2>2. CASE UNCHANGED outbound
    BY <1>2, <1>5, <1>7, <2>2, CopiesStay
  <2>3. CASE \E o \in Replies : o.msg = m /\ outbound' = Append(outbound, o)
    <3>1. PICK o \in Replies : o.msg = m /\ outbound' = Append(outbound, o)
      BY <2>3
    <3>2. outbound \in Seq(Replies)
      BY DEF WeChatTypeOK, Replies
    <3>3. QueuedOnce(outbound')
      BY <1>4, <1>7, <3>1, <3>2, AppendQueuedOnce DEF OneCopy
    <3>4. \A d \in Events : Has(outbound', d) => Has(outbound, d) \/ d = m
      BY <3>1, <3>2, HasAppend
    <3>5. \A d \in Events : d = m => d \in told /\ d \in finals' /\ ~Sending(d) /\ sent[d] = 0
      BY <1>4, <1>7
    <3> QED
      BY <1>2, <1>5, <1>7, <3>3, <3>4, <3>5 DEF OneCopy, Sending, Gone
  <2> QED
    BY <2>1, <2>2, <2>3
<1>8. CASE /\ f.type = "message" /\ m \notin finals
           /\ direct' = [direct EXCEPT ![s] = m]
           /\ UNCHANGED <<finals, outbound>>
  <2>1. direct'[s] = m /\ \A r \in Sockets \ {s} : direct'[r] = direct[r]
    BY <1>8 DEF WeChatTypeOK
  <2>2. \A d \in Events : d # m /\ Sending(d)' => Sending(d)
    BY <2>1, Names DEF Sending
  <2>3. \A d \in Events : Sending(d)' /\ d = m =>
           d \in told /\ ~Has(frames'[Chat[d]], d) /\ ~Has(outbound, d) /\ sent[d] = 0
    BY <1>4, <1>8
  <2>4. \A r \in Sockets : direct'[r] \in Events => r = Chat[direct'[r]]
    BY <1>4, <2>1 DEF OneCopy
  <2>5. QueuedOnce(outbound')
    BY <1>8 DEF OneCopy
  <2>6. ASSUME NEW d \in Events
        PROVE  /\ Sending(d)' => d \in told' /\ ~Has(frames'[Chat[d]], d)
               /\ Has(outbound', d) => d \in told' /\ d \in finals' /\ ~Sending(d)'
               /\ sent'[d] # 0 => /\ sent'[d] = 1 /\ d \in told'
                                  /\ ~Has(outbound', d) /\ ~Sending(d)' /\ Gone(d)'
    <3>1. /\ Sending(d) => d \in told /\ ~Has(frames[Chat[d]], d)
          /\ Has(outbound, d) => d \in told /\ d \in finals /\ ~Sending(d)
          /\ sent[d] # 0 => /\ sent[d] = 1 /\ d \in told
                            /\ ~Has(outbound, d) /\ ~Sending(d) /\ Gone(d)
      BY DEF OneCopy
    <3> QED
      BY <1>2, <1>5, <1>8, <2>2, <2>3, <3>1 DEF Gone
  <2> QED
    BY <2>4, <2>5, <2>6 DEF OneCopy
<1> QED
  BY <1>1, <1>6, <1>7, <1>8

(* The reply is sent and is nowhere else. *)
LEMMA SendsOnce ==
  ASSUME WeChatTypeOK, OneCopy, UNCHANGED <<told, frames>>, finals \subseteq finals',
         NEW m \in ChatMessages,
         sent' = [sent EXCEPT ![m] = @ + 1] \/ sent' = sent,
         m \in Events => /\ sent[m] = 0 /\ m \in told /\ Gone(m)
                         /\ ~Has(outbound', m) /\ ~Sending(m)',
         \A d \in Events : (Has(outbound', d) => Has(outbound, d)) /\ (Sending(d)' => Sending(d)),
         QueuedOnce(outbound'),
         \A s \in Sockets : direct'[s] \in Events => s = Chat[direct'[s]]
  PROVE  OneCopy'
<1>1. \A d \in Events : /\ d # m => sent'[d] = sent[d]
                        /\ d = m => sent'[d] \in {0, 1}
  BY Names DEF WeChatTypeOK
<1>2. ASSUME NEW d \in Events
      PROVE  /\ Sending(d)' => d \in told' /\ ~Has(frames'[Chat[d]], d)
             /\ Has(outbound', d) => d \in told' /\ d \in finals' /\ ~Sending(d)'
             /\ sent'[d] # 0 => /\ sent'[d] = 1 /\ d \in told'
                                /\ ~Has(outbound', d) /\ ~Sending(d)' /\ Gone(d)'
  <2>1. /\ Sending(d) => d \in told /\ ~Has(frames[Chat[d]], d)
        /\ Has(outbound, d) => d \in told /\ d \in finals /\ ~Sending(d)
        /\ sent[d] # 0 => /\ sent[d] = 1 /\ d \in told
                          /\ ~Has(outbound, d) /\ ~Sending(d) /\ Gone(d)
    BY DEF OneCopy
  <2>2. Gone(d) => Gone(d)'
    BY DEF Gone
  <2> QED
    BY <1>1, <2>1, <2>2
<1> QED
  BY <1>2 DEF OneCopy

LEMMA DirectOneCopy ==
  ASSUME WeChatTypeOK, OneCopy, NEW s \in Sockets, DirectSent(s)
  PROVE  OneCopy'
<1> DEFINE m == direct[s]
<1>1. /\ m \in ChatMessages /\ direct'[s] = nobody
      /\ \A t \in Sockets \ {s} : direct'[t] = direct[t]
      /\ sent' = [sent EXCEPT ![m] = @ + 1] \/ sent' = sent
  BY DirectTypes
<1>2. UNCHANGED <<told, frames, outbound>> /\ finals \subseteq finals'
  BY DEF DirectSent, outside
<1>3. m \in Events => /\ s = Chat[m] /\ Sending(m)
                      /\ ~Has(outbound, m) /\ sent[m] = 0 /\ m \in told /\ Gone(m)
  BY DEF OneCopy, Sending, Gone
<1> HIDE DEF m
<1>4. \A d \in Events : Sending(d)' => Sending(d) /\ d # m
  BY <1>1, <1>3, Names DEF Sending
<1>5. \A t \in Sockets : direct'[t] \in Events => t = Chat[direct'[t]]
  BY <1>1, Names DEF OneCopy
<1>6. QueuedOnce(outbound')
  BY <1>2 DEF OneCopy
<1> QED
  BY <1>1, <1>2, <1>3, <1>4, <1>5, <1>6, SendsOnce

LEMMA OutboundOneCopy ==
  ASSUME WeChatTypeOK, OneCopy, OutboundSent
  PROVE  OneCopy'
<1> DEFINE m == Head(outbound).msg
<1>1. /\ outbound \in Seq(Replies) /\ outbound # << >> /\ outbound' = Tail(outbound)
      /\ m \in ChatMessages
      /\ sent' = [sent EXCEPT ![m] = @ + 1] \/ sent' = sent
  BY OutboundTypes
<1>2. UNCHANGED <<told, frames, direct, finals>>
  BY DEF OutboundSent
<1>3. QueuedOnce(outbound)
  BY DEF OneCopy
<1>4. /\ QueuedOnce(outbound') /\ (m \in Events => ~Has(outbound', m))
      /\ Has(outbound, m)
  BY <1>1, <1>3, TailQueuedOnce, HasHead
<1>5. \A d \in Events : Has(outbound', d) => Has(outbound, d)
  BY <1>1, HasTail
<1> HIDE DEF m
<1>6. m \in Events => /\ sent[m] = 0 /\ m \in told /\ Gone(m) /\ ~Sending(m)
  BY <1>4 DEF OneCopy, Gone
<1>7. \A d \in Events : Sending(d)' = Sending(d)
  BY <1>2 DEF Sending
<1>8. \A s \in Sockets : direct'[s] \in Events => s = Chat[direct'[s]]
  BY <1>2 DEF OneCopy
<1> QED
  BY <1>1, <1>2, <1>4, <1>5, <1>6, <1>7, <1>8, SendsOnce

(* Every other step sends nothing. *)
LEMMA OtherReplies ==
  ASSUME WeChatTypeOK, WeChatNext
  PROVE  \/ \E e \in Events : CoreReplies(e)
         \/ \E n \in Notices : CoreNotifies(n)
         \/ \E c \in Chats : CloseIdle(c)
         \/ \E s \in Sockets : Receive(s)
         \/ \E s \in Sockets : DirectSent(s)
         \/ OutboundSent
         \/ /\ UNCHANGED <<told, frames, finals, outbound, direct, sent>>
            /\ given \subseteq given'
         \/ Kill
<1>1. ASSUME NEW e \in Events,
             \/ Arrive(e) \/ Skip(e) \/ Begin(e) \/ BeginFails(e) \/ Submit(e)
             \/ SubmitFails(e) \/ Wake(e) \/ Timeout(e) \/ Ack(e)
      PROVE  /\ UNCHANGED <<told, frames, finals, outbound, direct, sent>>
             /\ given \subseteq given'
  BY <1>1 DEF Arrive, Skip, Begin, BeginFails, Submit, SubmitFails, Wake, Timeout, Ack,
              outside, replies
<1>2. ASSUME AckPending \/ GetEvents \/ PollFails \/ Joined \/ Flush
      PROVE  /\ UNCHANGED <<told, frames, finals, outbound, direct, sent>>
             /\ given \subseteq given'
  BY <1>2 DEF AckPending, GetEvents, PollFails, Joined, Flush, outside, replies
<1> QED
  BY <1>1, <1>2, WeChatSteps

LEMMA OneCopyStep ==
  ASSUME WeChatTypeOK, OnItsSocket, OneCopy, WeChatNext
  PROVE  OneCopy'
<1>1. ASSUME NEW e \in Events, CoreReplies(e)
      PROVE  OneCopy'
  <2>1. /\ \A d \in Events : Has(frames'[Chat[d]], d) => Has(frames[Chat[d]], d) \/ d \notin told
        /\ told \subseteq told' /\ UNCHANGED <<direct, outbound, sent, finals>>
    BY <1>1, RepliesOnSocket, Names DEF CoreReplies
  <2> QED
    BY <2>1, CopiesStay
<1>2. CASE (\E n \in Notices : CoreNotifies(n)) \/ (\E c \in Chats : CloseIdle(c))
  <2>1. \A d \in Events : Has(frames'[Chat[d]], d) => Has(frames[Chat[d]], d)
    BY <1>2, NoMoreFrames, Names
  <2>2. told \subseteq told' /\ UNCHANGED <<direct, outbound, sent, finals>>
    BY <1>2 DEF CoreNotifies, CloseIdle, outside
  <2> QED
    BY <2>1, <2>2, CopiesStay
<1>3. CASE UNCHANGED <<told, frames, finals, outbound, direct, sent>>
  BY <1>3, CopiesStay
<1>4. CASE Kill
  <2>1. /\ \A s \in Sockets : frames'[s] = << >> /\ direct'[s] = nobody
        /\ outbound' = << >>
        /\ UNCHANGED <<told, sent>>
    BY <1>4 DEF Kill, outside
  <2>2. \A d \in Events : ~Sending(d)' /\ Gone(d)' /\ ~Has(outbound', d)
    BY <2>1, HasNone, Names DEF Sending, Gone
  <2> QED
    BY <2>1, <2>2, NoneIsLast, Names DEF OneCopy
<1> QED
  BY <1>1, <1>2, <1>3, <1>4, ReceiveOneCopy, DirectOneCopy, OutboundOneCopy, OtherReplies

-----------------------------------------------------------------------------
(* The chat waits for the reply that is to come. *)

(* A step that ends no wait. *)
LEMMA WaitsStay ==
  ASSUME WeChatTypeOK, Awaiting, UNCHANGED <<awaited, result, accepted>>, given \subseteq given',
         \A d \in Events : \/ handling'[d] = handling[d]
                           \/ /\ handling'[d] # "submitting"
                              /\ handling[d] # "waiting" \/ result[d] # "open",
         \A d \in Events : d \notin told' \/ ~Gone(d)' => d \notin told \/ ~Gone(d)
  PROVE  Awaiting'
BY DEF Awaiting, Awaits

(* The wait of e ends or is given up, the ones of other events go on. *)
LEMMA WaitEnds ==
  ASSUME WeChatTypeOK, Awaiting, NEW e \in Events, Discard(e),
         \A d \in Events \ {e} : handling'[d] = handling[d],
         handling'[e] # "submitting",
         \/ e \in given'
         \/ e \in told /\ Gone(e),
         accepted \subseteq accepted', accepted' \subseteq accepted \cup {e},
         given \subseteq given', UNCHANGED <<told, finals, frames>>
  PROVE  Awaiting'
<1>1. \A d \in Events : Gone(d)' = Gone(d)
  BY DEF Gone
<1>2. /\ \A d \in Events \ {e} : result'[d] = result[d]
      /\ \A c \in Chats : awaited'[c] = awaited[c] \/ (awaited[c] = e /\ awaited'[c] = nobody)
  BY DiscardTypes
<1>3. \A d \in Events \ {e} : Awaits(d) => Awaits(d)'
  BY <1>2, Names DEF Awaits
<1>4. \A c \in Chats : awaited'[c] # nobody => Chat[awaited'[c]] = c
  BY <1>2 DEF Awaiting
<1>5. ASSUME NEW d \in Events \ given'
      PROVE  /\ handling'[d] = "submitting" /\ d \notin accepted' => Awaits(d)'
             /\ d \in accepted' /\ (d \notin told' \/ ~Gone(d)')
                   => Awaits(d)' /\ handling'[d] = "waiting"
  <2>1. CASE d = e
    BY <1>1, <1>5, <2>1
  <2>2. CASE d # e
    BY <1>1, <1>3, <2>2 DEF Awaiting
  <2> QED
    BY <2>1, <2>2
<1> QED
  BY <1>4, <1>5 DEF Awaiting

(* The wait of chat c ends by message m. *)
LEMMA WaitCompletes ==
  ASSUME WeChatTypeOK, OnItsSocket, Awaiting, NEW c \in Chats, NEW r \in Results,
         NEW m \in ChatMessages, CompletePending(c, r, m),
         UNCHANGED <<handling, accepted, told>>,
         m \in Events => m \in told /\ Gone(m)',
         \A d \in Events : Gone(d) => Gone(d)'
  PROVE  Awaiting'
<1>1. /\ awaited'[c] = nobody /\ given \subseteq given'
      /\ \A d \in Chats \ {c} : awaited'[d] = awaited[d]
      /\ \A d \in Events : d # awaited[c] => result'[d] = result[d]
      /\ \A d \in Events : d = awaited[c] /\ d # m /\ result[d] = "open" => d \in given'
  BY CompleteTypes
<1>2. \A b \in Chats : awaited'[b] # nobody => Chat[awaited'[b]] = b
  BY <1>1 DEF Awaiting
<1>3. ASSUME NEW d \in Events \ given', d # m
      PROVE  Awaits(d) => Awaits(d)'
  <2>1. SUFFICES ASSUME Awaits(d)
                 PROVE  Awaits(d)'
    OBVIOUS
  <2>2. Chat[d] # c /\ d # awaited[c]
    BY <1>1, <1>3, <2>1, Names DEF Awaits, Awaiting
  <2> QED
    BY <1>1, <2>1, <2>2, Names DEF Awaits
<1>4. ASSUME NEW d \in Events \ given'
      PROVE  /\ handling'[d] = "submitting" /\ d \notin accepted' => Awaits(d)'
             /\ d \in accepted' /\ (d \notin told' \/ ~Gone(d)')
                   => Awaits(d)' /\ handling'[d] = "waiting"
  <2>1. CASE d = m
    BY <2>1 DEF OnItsSocket
  <2>2. CASE d # m
    BY <1>1, <1>3, <2>2 DEF Awaiting
  <2> QED
    BY <2>1, <2>2
<1> QED
  BY <1>2, <1>4 DEF Awaiting

LEMMA BeginAwaiting ==
  ASSUME WeChatTypeOK, Awaiting, NEW e \in Events, Begin(e)
  PROVE  Awaiting'
<1> DEFINE c == Chat[e]
<1>1. /\ handling[e] = "queued" /\ handling'[e] = "submitting"
      /\ \A d \in Events \ {e} : handling'[d] = handling[d]
  BY StepTypes DEF Begin, Step, WeChatTypeOK
<1>2. c \in Chats
  BY Names
<1>3. /\ awaited'[c] = e
      /\ \A b \in Chats \ {c} : awaited'[b] = awaited[b]
  BY <1>2 DEF Begin, WeChatTypeOK
<1>4. /\ result'[e] = "open"
      /\ \A d \in Events \ {e} : d # awaited[c] => result'[d] = result[d]
  BY DEF Begin
<1>5. UNCHANGED <<accepted, told, finals, frames, given>>
  BY DEF Begin, outside
<1>6. \A d \in Events : Gone(d)' = Gone(d)
  BY <1>5 DEF Gone
<1>7. \A d \in Events : handling[d] \in {"submitting", "waiting"} => Chat[d] # c
  BY DEF Begin, Locked
<1>8. Awaits(e)'
  BY <1>3, <1>4 DEF Awaits
<1>9. ASSUME NEW d \in Events, handling[d] \in {"submitting", "waiting"}, Awaits(d)
      PROVE  Awaits(d)'
  <2>1. Chat[d] \in Chats \ {c} /\ d # e
    BY <1>7, <1>9, Names
  <2>2. d # awaited[c]
    BY <1>2, <2>1, Names DEF Awaiting
  <2> QED
    BY <1>3, <1>4, <1>9, <2>1, <2>2 DEF Awaits
<1>10. \A b \in Chats : awaited'[b] # nobody => Chat[awaited'[b]] = b
  BY <1>3 DEF Awaiting
<1>11. ASSUME NEW d \in Events \ given'
       PROVE  /\ handling'[d] = "submitting" /\ d \notin accepted' => Awaits(d)'
              /\ d \in accepted' /\ (d \notin told' \/ ~Gone(d)')
                    => Awaits(d)' /\ handling'[d] = "waiting"
  <2>1. CASE d = e
    <3>1. d \in accepted => d \in told /\ Gone(d)
      BY <1>1, <1>5, <2>1 DEF Awaiting
    <3> QED
      BY <1>5, <1>6, <1>8, <2>1, <3>1
  <2>2. CASE d # e
    <3>1. /\ handling[d] = "submitting" /\ d \notin accepted => Awaits(d)
          /\ d \in accepted /\ (d \notin told \/ ~Gone(d)) => Awaits(d) /\ handling[d] = "waiting"
      BY <1>5 DEF Awaiting
    <3> QED
      BY <1>1, <1>5, <1>6, <1>9, <2>2, <3>1
  <2> QED
    BY <2>1, <2>2
<1> QED
  BY <1>10, <1>11 DEF Awaiting

LEMMA HandlerAwaiting ==
  ASSUME WeChatTypeOK, Awaiting, NEW e \in Events,
         \/ Skip(e) \/ BeginFails(e) \/ Submit(e) \/ SubmitFails(e)
         \/ Wake(e) \/ Timeout(e) \/ Ack(e)
  PROVE  Awaiting'
<1>1. CASE Skip(e) \/ BeginFails(e) \/ Wake(e) \/ Ack(e)
  <2>1. UNCHANGED <<awaited, result, accepted, given, told, finals, frames>>
    BY <1>1 DEF Skip, BeginFails, Wake, Ack, outside, replies
  <2>2. \/ \E t : Step(e, "queued", "acking", t) \/ Step(e, "queued", "idle", t)
                  \/ Step(e, "acking", "idle", t)
        \/ result[e] # "open" /\ \E t : Step(e, "waiting", "acking", t)
    BY <1>1 DEF Skip, BeginFails, Wake, Ack
  <2>3. \A d \in Events : \/ handling'[d] = handling[d]
                          \/ /\ handling'[d] # "submitting"
                             /\ handling[d] # "waiting" \/ result[d] # "open"
    BY <2>2 DEF Step, WeChatTypeOK
  <2>4. \A d \in Events : Gone(d)' = Gone(d)
    BY <2>1 DEF Gone
  <2> QED
    BY <2>1, <2>3, <2>4, WaitsStay
<1>2. CASE Submit(e) /\ e \notin accepted
  <2>1. /\ Step(e, "submitting", "waiting", "submitted")
        /\ accepted' = accepted \cup {e}
        /\ UNCHANGED <<awaited, result, given, told, finals, frames>>
    BY <1>2 DEF Submit, replies
  <2>2. /\ handling[e] = "submitting" /\ handling'[e] = "waiting"
        /\ \A d \in Events \ {e} : handling'[d] = handling[d]
    BY <2>1 DEF Step, WeChatTypeOK
  <2>3. \A d \in Events : Gone(d)' = Gone(d) /\ Awaits(d)' = Awaits(d)
    BY <2>1 DEF Gone, Awaits
  <2> QED
    BY <1>2, <2>1, <2>2, <2>3 DEF Awaiting
<1>3. CASE Submit(e) /\ e \in accepted
  <2>1. /\ Step(e, "submitting", "acking", "submitted") /\ Discard(e)
        /\ UNCHANGED <<accepted, given, told, finals, frames>>
    BY <1>3 DEF Submit, replies
  <2>2. /\ handling[e] = "submitting" /\ handling'[e] = "acking"
        /\ \A d \in Events \ {e} : handling'[d] = handling[d]
    BY <2>1 DEF Step, WeChatTypeOK
  <2>3. e \in given' \/ (e \in told /\ Gone(e))
    BY <1>3, <2>1, <2>2 DEF Awaiting
  <2> QED
    BY <1>3, <2>1, <2>2, <2>3, WaitEnds
<1>4. CASE SubmitFails(e) \/ Timeout(e)
  <2>1. /\ \E to, t : Step(e, "submitting", "idle", t) \/ Step(e, "waiting", "acking", t)
        /\ Discard(e) /\ given' = given \cup {e}
        /\ accepted' \in {accepted, accepted \cup {e}}
        /\ UNCHANGED <<told, finals, frames>>
    BY <1>4 DEF SubmitFails, Timeout, outside, replies
  <2>2. /\ handling'[e] # "submitting"
        /\ \A d \in Events \ {e} : handling'[d] = handling[d]
    BY <2>1 DEF Step, WeChatTypeOK
  <2> QED
    BY <2>1, <2>2, WaitEnds
<1> QED
  BY <1>1, <1>2, <1>3, <1>4

LEMMA ReceiveAwaiting ==
  ASSUME WeChatTypeOK, OnItsSocket, OneCopy, Awaiting, NEW s \in Sockets, Receive(s)
  PROVE  Awaiting'
<1>0. PICK m, e : m = Head(frames[s]).msg /\ e = awaited[Chat[m]]
  OBVIOUS
<1>1. \/ e # nobody /\ finals' = finals \cup {m} /\ EnqueueReply(e, m)
      \/ UNCHANGED <<finals, awaited, result, given>>
  BY <1>0 DEF Receive, Remember
<1>2. UNCHANGED <<handling, accepted, told>>
  BY DEF Receive, outside
<1>3. m \in ChatMessages /\ Chat[m] \in Chats /\ e \in Events \cup {nobody}
  BY <1>0, Received
<1>4. m \in Events => m \in told
  BY <1>0, AtHand
<1>5. \A d \in Events : Has(frames'[Chat[d]], d) => Has(frames[Chat[d]], d)
  BY NoMoreFrames, Names
<1>6. finals \subseteq finals'
  BY <1>1
<1>7. \A d \in Events : Gone(d) => Gone(d)'
  BY <1>5, <1>6 DEF Gone
<1>8. CASE UNCHANGED <<awaited, result, given>>
  BY <1>2, <1>7, <1>8, WaitsStay
<1>9. CASE e # nobody /\ finals' = finals \cup {m} /\ EnqueueReply(e, m)
  <2>1. Chat[e] \in Chats /\ "ok" \in Results /\ "failed" \in Results /\ e \in Events
    BY <1>3, <1>9, Names DEF Results
  <2>2. \/ CompletePending(Chat[e], "ok", m) \/ CompletePending(Chat[e], "failed", m)
        \/ UNCHANGED <<awaited, result, given>>
    BY <1>3, <1>9, <2>1, Enqueues
  <2>3. m \in Events => m \in told /\ Gone(m)'
    BY <1>4, <1>9 DEF Gone
  <2> QED
    BY <1>2, <1>3, <1>7, <1>8, <2>1, <2>2, <2>3, WaitCompletes
<1> QED
  BY <1>1, <1>8, <1>9

LEMMA AwaitingStep ==
  ASSUME WeChatTypeOK, Polled, OnItsSocket, OneCopy, Awaiting, WeChatNext
  PROVE  Awaiting'
<1>1. CASE \E e \in Events : Arrive(e)
  <2>1. UNCHANGED <<awaited, result, accepted, given, told, finals, frames, handling>>
    BY <1>1 DEF Arrive, handler, replies
  <2> QED
    BY <2>1, WaitsStay DEF Gone
<1>2. ASSUME NEW e \in Events,
             \/ Skip(e) \/ BeginFails(e) \/ Submit(e) \/ SubmitFails(e)
             \/ Wake(e) \/ Timeout(e) \/ Ack(e)
      PROVE  Awaiting'
  BY <1>2, HandlerAwaiting
<1>3. ASSUME NEW e \in Events, CoreReplies(e)
      PROVE  Awaiting'
  <2>1. /\ UNCHANGED <<awaited, result, accepted, given, finals, handling>>
        /\ e \notin told /\ told' = told \cup {e}
    BY <1>3 DEF CoreReplies, handler
  <2>2. \A d \in Events \ {e} : Has(frames'[Chat[d]], d) => Has(frames[Chat[d]], d)
    BY <1>3, RepliesOnSocket, Names
  <2>3. \A d \in Events : d \notin told' \/ ~Gone(d)' => d \notin told \/ ~Gone(d)
    BY <2>1, <2>2 DEF Gone
  <2> QED
    BY <2>1, <2>3, WaitsStay
<1>4. CASE (\E n \in Notices : CoreNotifies(n)) \/ (\E c \in Chats : CloseIdle(c))
  <2>1. /\ UNCHANGED <<awaited, result, accepted, given, finals, handling>>
        /\ told \subseteq told'
    BY <1>4 DEF CoreNotifies, CloseIdle, handler, outside
  <2>2. \A d \in Events : Has(frames'[Chat[d]], d) => Has(frames[Chat[d]], d)
    BY <1>4, NoMoreFrames, Names
  <2> QED
    BY <2>1, <2>2, WaitsStay DEF Gone
<1>5. CASE (\E s \in Sockets : DirectSent(s)) \/ AckPending \/ PollFails \/ Joined \/ Flush
  <2>1. /\ UNCHANGED <<awaited, result, accepted, given, told, frames, handling>>
        /\ finals \subseteq finals'
    BY <1>5 DEF DirectSent, AckPending, PollFails, Joined, Flush, handler, outside, replies
  <2> QED
    BY <2>1, WaitsStay DEF Gone
<1>6. CASE GetEvents
  <2>1. /\ UNCHANGED <<awaited, result, accepted, given, told, frames, finals>>
        /\ \A d \in Events : handling'[d] = handling[d] \/ handling'[d] = "queued"
        /\ poll = "get"
    BY <1>6 DEF GetEvents, outside, replies
  <2>2. \A d \in Events : handling[d] = "idle"
    BY <2>1 DEF Polled
  <2> QED
    BY <2>1, <2>2, WaitsStay DEF Gone
<1>7. CASE OutboundSent
  <2>0. PICK m, c : m = Head(outbound).msg /\ c = Chat[Head(outbound).event]
    OBVIOUS
  <2>1. /\ outbound \in Seq(Replies) /\ outbound # << >> /\ m \in ChatMessages /\ c \in Chats
        /\ \E r \in Results : CompletePending(c, r, m)
    BY <1>7, <2>0, OutboundTypes
  <2>2. Has(outbound, m)
    BY <2>0, <2>1, HasHead
  <2>3. UNCHANGED <<handling, accepted, told, finals, frames>>
    BY <1>7 DEF OutboundSent
  <2>4. m \in Events => m \in told /\ Gone(m)'
    BY <2>2, <2>3 DEF OneCopy, Gone
  <2>5. \A d \in Events : Gone(d) => Gone(d)'
    BY <2>3 DEF Gone
  <2> QED
    BY <2>1, <2>3, <2>4, <2>5, WaitCompletes
<1>8. CASE Kill
  <2>1. /\ \A s \in Sockets : frames'[s] = << >>
        /\ \A d \in Chats : awaited'[d] = nobody
        /\ \A d \in Events : handling'[d] = "idle"
        /\ given' = given \cup (accepted \ told)
        /\ UNCHANGED <<told, accepted>>
    BY <1>8 DEF Kill, outside
  <2>2. \A d \in Events : Gone(d)'
    BY <2>1, HasNone, Names DEF Gone
  <2> QED
    BY <2>1, <2>2 DEF Awaiting
<1> QED
  BY <1>1, <1>2, <1>3, <1>4, <1>5, <1>6, <1>7, <1>8, BeginAwaiting, ReceiveAwaiting, WeChatSteps

-----------------------------------------------------------------------------
(* A chat that is only read. *)

LEMMA SilentStep ==
  ASSUME WeChatTypeOK, OnItsSocket, OneCopy, Awaiting, Silent, WeChatNext
  PROVE  Silent'
<1>1. ASSUME NEW s \in Sockets, Receive(s)
      PROVE  Silent'
  <2> DEFINE f == Head(frames[s])
             m == f.msg
             e == awaited[Chat[m]]
  <2>1. \/ e # nobody /\ m \notin finals /\ EnqueueReply(e, m) /\ UNCHANGED direct
        \/ /\ e = nobody /\ m \notin finals
           /\ direct' = [direct EXCEPT ![s] = m]
           /\ UNCHANGED <<outbound, given>>
        \/ UNCHANGED <<outbound, direct, given>>
    BY <1>1 DEF Receive
  <2>2. sent' = sent
    BY <1>1 DEF Receive
  <2>3. m \in ChatMessages /\ e \in Events \cup {nobody}
    BY <1>1, Received
  <2>4. m \in Events => m \in told /\ s = Chat[m] /\ Has(frames[s], m)
    BY <1>1, AtHand
  <2> HIDE DEF f, m
  <2>5. m \in Events \ given /\ m \notin finals => e = m
    <3>1. m \in Events /\ m \notin finals => m \in accepted /\ ~Gone(m)
      BY <2>4 DEF OnItsSocket, Gone
    <3> QED
      BY <3>1 DEF Awaiting, Awaits
  <2>6. CASE UNCHANGED <<outbound, direct, given>>
    BY <2>2, <2>6 DEF Silent, Sending
  <2>7. CASE e # nobody /\ m \notin finals /\ EnqueueReply(e, m) /\ UNCHANGED direct
    <3>1. e \in Events /\ Chat[e] \in Chats /\ "ok" \in Results /\ "failed" \in Results
      BY <2>3, <2>7, Names DEF Results
    <3>2. \/ /\ CompletePending(Chat[e], "ok", m) \/ CompletePending(Chat[e], "failed", m)
             /\ UNCHANGED outbound
          \/ /\ e \notin ReadOnly /\ UNCHANGED given
             /\ \E o \in Replies : o.msg = m /\ outbound' = Append(outbound, o)
      BY <2>3, <2>7, <3>1, Enqueues
    <3>3. given \subseteq given'
      BY <3>1, <3>2, CompleteTypes, <2>3
    <3>4. ASSUME NEW d \in ReadOnly, Has(outbound', d)
          PROVE  Has(outbound, d) \/ d \in given
      <4>1. CASE UNCHANGED outbound
        BY <3>4, <4>1
      <4>2. CASE e \notin ReadOnly /\ \E o \in Replies : o.msg = m /\ outbound' = Append(outbound, o)
        <5>1. outbound \in Seq(Replies)
          BY DEF WeChatTypeOK, Replies
        <5>2. Has(outbound, d) \/ d = m
          BY <3>4, <4>2, <5>1, HasAppend
        <5>3. d = m => d \in given
          BY <2>5, <2>7, <4>2, Names
        <5> QED
          BY <5>2, <5>3
      <4> QED
        BY <3>2, <4>1, <4>2
    <3> QED
      BY <2>2, <2>7, <3>3, <3>4 DEF Silent, Sending
  <2>8. CASE /\ e = nobody /\ m \notin finals
             /\ direct' = [direct EXCEPT ![s] = m]
             /\ UNCHANGED <<outbound, given>>
    <3>1. \A d \in ReadOnly : Sending(d)' => Sending(d) \/ d = m
      BY <2>8, Names DEF Sending, WeChatTypeOK
    <3>2. m \in Events => m \in given
      BY <2>5, <2>8, Names
    <3> QED
      BY <2>2, <2>8, <3>1, <3>2, Names DEF Silent
  <2> QED
    BY <2>1, <2>6, <2>7, <2>8
<1>2. ASSUME NEW s \in Sockets, DirectSent(s)
      PROVE  Silent'
  <2> DEFINE m == direct[s]
  <2>1. /\ m \in ChatMessages /\ direct'[s] = nobody
        /\ \A t \in Sockets \ {s} : direct'[t] = direct[t]
        /\ sent' = [sent EXCEPT ![m] = @ + 1] \/ sent' = sent
    BY <1>2, DirectTypes
  <2>2. UNCHANGED <<outbound, given>>
    BY <1>2 DEF DirectSent
  <2>3. m \in ReadOnly => m \in given
    BY Names DEF OneCopy, Silent, Sending
  <2> HIDE DEF m
  <2>4. \A d \in ReadOnly : (Sending(d)' => Sending(d)) /\ (d # m => sent'[d] = sent[d])
    BY <2>1, Names DEF Sending, WeChatTypeOK
  <2> QED
    BY <2>2, <2>3, <2>4 DEF Silent
<1>3. CASE OutboundSent
  <2> DEFINE m == Head(outbound).msg
             c == Chat[Head(outbound).event]
  <2>1. /\ outbound \in Seq(Replies) /\ outbound # << >> /\ outbound' = Tail(outbound)
        /\ m \in ChatMessages /\ c \in Chats
        /\ \E r \in Results : CompletePending(c, r, m)
        /\ sent' = [sent EXCEPT ![m] = @ + 1] \/ sent' = sent
    BY <1>3, OutboundTypes
  <2>2. Has(outbound, m) /\ \A d \in ReadOnly : Has(outbound', d) => Has(outbound, d)
    BY <2>1, HasHead, HasTail
  <2>3. UNCHANGED direct
    BY <1>3 DEF OutboundSent
  <2> HIDE DEF m, c
  <2>4. given \subseteq given'
    BY <2>1, CompleteTypes
  <2>5. \A d \in ReadOnly : d # m => sent'[d] = sent[d]
    BY <2>1, Names DEF WeChatTypeOK
  <2> QED
    BY <2>2, <2>3, <2>4, <2>5 DEF Silent, Sending
<1>4. CASE UNCHANGED <<outbound, direct, sent>> /\ given \subseteq given'
  BY <1>4 DEF Silent, Sending
<1>5. ASSUME \/ \E e \in Events : CoreReplies(e)
             \/ \E n \in Notices : CoreNotifies(n)
             \/ \E c \in Chats : CloseIdle(c)
      PROVE  UNCHANGED <<outbound, direct, sent, given>>
  BY <1>5 DEF CoreReplies, CoreNotifies, CloseIdle
<1>6. CASE Kill
  <2>1. /\ \A s \in Sockets : direct'[s] = nobody
        /\ outbound' = << >> /\ sent' = sent /\ given \subseteq given'
    BY <1>6 DEF Kill
  <2>2. \A d \in ReadOnly : ~Sending(d)' /\ ~Has(outbound', d)
    BY <2>1, HasNone, Names DEF Sending
  <2> QED
    BY <2>1, <2>2 DEF Silent
<1> QED
  BY <1>1, <1>2, <1>3, <1>4, <1>5, <1>6, OtherReplies

-----------------------------------------------------------------------------
(* The theorems. *)

LEMMA TypesStep ==
  ASSUME WeChatTypeOK, Handled, Polled, WeChatNext
  PROVE  WeChatTypeOK'
<1>1. unacked \subseteq posted
  BY DEF Handled, WeChatTypeOK
<1> QED
  BY <1>1, WeChatSteps, HandlerTypes, LoopTypes, OutsideTypes, ReceiveTypes, DirectTypes, OutboundTypes

LEMMA WeChatInvInit ==
  ASSUME WeChatInit
  PROVE  WeChatInv
<1> USE Names DEF WeChatInit
<1>1. WeChatTypeOK
  <2>1. /\ handling \in [Events -> Handlings] /\ status \in [Events -> Status]
        /\ result \in [Events -> Results] /\ counts \in [Events -> Nat]
        /\ sent \in [ChatMessages -> Nat]
    BY DEF Handlings, Results, Status
  <2>2. file \in [status : [Events -> Status], unacked : SUBSET Events]
    BY <2>1
  <2>3. /\ frames \in [Sockets -> Seq(Frame)] /\ awaited \in [Chats -> Events \cup {nobody}]
        /\ direct \in [Sockets -> ChatMessages \cup {nobody}]
    <3>1. /\ frames = [s \in Sockets |-> << >>] /\ awaited = [c \in Chats |-> nobody]
          /\ direct = [s \in Sockets |-> nobody]
      OBVIOUS
    <3>2. << >> \in Seq(Frame)
      BY ONLY TRUE
    <3> QED
      BY ONLY <3>1, <3>2
  <2>4. outbound \in Seq(Replies) /\ Len(outbound) <= QueueSize
    <3>1. outbound = << >> /\ QueueSize \in Nat
      OBVIOUS
    <3> QED
      BY ONLY <3>1
  <2>5. faults \in 0..MaxFaults /\ kills \in 0..MaxKills
    <3>1. faults = 0 /\ kills = 0 /\ MaxFaults \in Nat /\ MaxKills \in Nat
      OBVIOUS
    <3> QED
      BY ONLY <3>1
  <2>6. /\ posted \subseteq Events /\ acked \subseteq posted /\ accepted \subseteq posted
        /\ told \subseteq ChatMessages /\ poll = "ack"
        /\ batch \subseteq posted /\ passed \subseteq posted /\ unacked \subseteq Events
        /\ connected \subseteq Chats /\ finals \subseteq ChatMessages /\ given \subseteq Events
        /\ keys \subseteq Replies
    OBVIOUS
  <2> QED
    BY ONLY <2>1, <2>2, <2>3, <2>4, <2>5, <2>6 DEF WeChatTypeOK, Handlings, Results, Replies
<1>2. Handled /\ Polled
  BY DEF Handled, Polled, Complete
<1>3. \A m : ~Has(<< >>, m)
  BY HasNone
<1>4. \A s \in Sockets : frames[s] = << >> /\ direct[s] = nobody
  OBVIOUS
<1>5. TextIsLast(<< >>) /\ QueuedOnce(<< >>)
  BY NoneIsLast
<1>6. OnItsSocket
  BY <1>3, <1>4, <1>5 DEF OnItsSocket
<1>7. \A e \in Events : ~Sending(e) /\ ~Has(outbound, e) /\ Gone(e) /\ sent[e] = 0
  BY <1>3, <1>4 DEF Sending, Gone
<1>8. OneCopy
  BY <1>4, <1>5, <1>7 DEF OneCopy
<1>9. Awaiting
  BY DEF Awaiting
<1>10. Silent
  BY <1>7 DEF Silent
<1> QED
  BY <1>1, <1>2, <1>6, <1>8, <1>9, <1>10 DEF WeChatInv

LEMMA WeChatInvStep ==
  ASSUME WeChatInv, [WeChatNext]_wechatVars
  PROVE  WeChatInv'
<1>1. CASE WeChatNext
  BY <1>1, TypesStep, SettledStep, OnItsSocketStep, OneCopyStep, AwaitingStep, SilentStep DEF WeChatInv
<1>2. CASE UNCHANGED wechatVars
  BY <1>2 DEF wechatVars, WeChatInv, WeChatTypeOK, Handled, Taken, Polled, OnItsSocket, OneCopy,
              Sending, Gone, Awaiting, Awaits, Silent
<1> QED
  BY <1>1, <1>2

(* The parts of the invariant hold in every reachable state: where an      *)
(* event, its status and its reply can be at the same time                 *)
(* (handle_event, send_runtime_event and the outbound workers).            *)
THEOREM WeChatInvariant == WeChatSpec => []WeChatInv
<1>1. WeChatInit => WeChatInv
  BY WeChatInvInit
<1>2. WeChatInv /\ [WeChatNext]_wechatVars => WeChatInv'
  BY WeChatInvStep
<1> QED
  BY <1>1, <1>2, PTL DEF WeChatSpec

(* At any moment an event is with the service or with the core: failed     *)
(* requests, lost answers, crashes and the held cursor lose none           *)
(* (_ack_event_ids, _events_are_complete_for_cursor_advance).              *)
THEOREM EventsAreKept == WeChatSpec => []NoEventLost
<1>1. ASSUME WeChatInv
      PROVE  NoEventLost
  <2>1. WeChatTypeOK
    BY <1>1 DEF WeChatInv
  <2>2. AckedIsHandled
    BY <1>1, <2>1 DEF WeChatInv, Handled, Taken, AckedIsHandled, WeChatTypeOK
  <2>3. NothingForgotten
    BY <1>1, <2>1 DEF WeChatInv, Polled, NothingForgotten, WeChatTypeOK
  <2> QED
    BY <2>1, <2>2, <2>3 DEF NoEventLost
<1> QED
  BY <1>1, WeChatInvariant, PTL

(* The reply to an event goes to its chat at most once, and a chat only    *)
(* read is sent none unless the wait was given up (_remember_final_delivery, *)
(* _enqueue_outbound, _send_direct_text).                                  *)
THEOREM RepliesKeepPolicy == WeChatSpec => []RepliesFollowPolicy
<1>1. ASSUME WeChatInv
      PROVE  RepliesFollowPolicy
  <2>1. ReplySentOnce
    <3>1. ASSUME NEW e \in Events
          PROVE  sent[e] <= 1
      <4>1. sent[e] = 0 \/ sent[e] = 1
        BY <1>1 DEF WeChatInv, OneCopy
      <4> QED
        BY ONLY <4>1
    <3> QED
      BY <3>1 DEF ReplySentOnce
  <2>2. ReadOnlyIsSilent
    BY <1>1, Names DEF WeChatInv, Silent, ReadOnlyIsSilent, WeChatTypeOK
  <2> QED
    BY <2>1, <2>2 DEF RepliesFollowPolicy
<1> QED
  BY <1>1, WeChatInvariant, PTL

-----------------------------------------------------------------------------
(* ThreadFeed.                                                             *)

(* The items of a reply: one at most has the id of the message, one at     *)
(* most the id of the turn, each has one of the two.                       *)
OneOfEach(s) ==
    /\ \A i \in 1..Len(s) : s[i].final \/ s[i].keyed
    /\ \A i, j \in 1..Len(s) : s[i].final /\ s[j].final => i = j
    /\ \A i, j \in 1..Len(s) : s[i].keyed /\ s[j].keyed => i = j

Lists ==
    /\ \A t \in Turns : OneOfEach(listed[t])
    /\ \A u \in Users : listed[u] \in {<<>>, <<Optimistic>>, <<FromHistory>>}
    /\ \A u \in Users : posts[u] = "new" => listed[u] = <<>>

(* What is listed, sent and fetched is of replies and messages there are.  *)
OnlyLogged ==
    /\ \A t \in Turns :
          t \in Logged <=> phase[t] \in {"persisted", "announced", "done", "cutoff"}
    /\ \A t \in Turns : Final(listed[t]) # {} => t \in Logged
    /\ \A i \in 1..Len(replay) : replay[i] \in Logged
    /\ \A i \in 1..Len(wire) :
          wire[i].type \in {"completed", "message"} => wire[i].turn \in Logged
    /\ \A r \in responses : r \subseteq Logged \cup stored
    /\ \A u \in stored : posts[u] # "new"

(* After the completion of a turn the wire brings nothing that streams.    *)
InOrder ==
    /\ \A i, j \in 1..Len(wire) :
          i < j /\ wire[i].type = "completed" /\ wire[j].turn = wire[i].turn =>
             wire[j].type \notin {"busy", "delta"}
    /\ conn # "live" => replay = <<>>
    /\ conn \notin {"acked", "live"} => wire = <<>>

(* A reply that was announced is coming to a client that is live, or it    *)
(* has come: no streaming frame is left to list it a second time.          *)
Coming(t) ==
    \/ \E i \in 1..Len(replay) : replay[i] = t
    \/ \E i \in 1..Len(wire) : wire[i].type = "completed" /\ wire[i].turn = t

Caught(t) ==
    /\ t \notin buffered
    /\ \A i \in 1..Len(wire) : wire[i].turn = t => wire[i].type \notin {"busy", "delta"}
    /\ \A i \in 1..Len(listed[t]) : listed[t][i].final
    /\ Final(listed[t]) # {} \/ t \in overwritten \cup archived

CaughtUp ==
    conn = "live" => \A t \in Turns : phase[t] \in {"announced", "done"} => Coming(t) \/ Caught(t)

FeedInv == FeedTypeOK /\ Lists /\ OnlyLogged /\ InOrder /\ CaughtUp

-----------------------------------------------------------------------------
(* The operators on lists of items.                                        *)

(* Nothing is taken out.                                                   *)
LEMMA WithoutNone ==
  ASSUME NEW T, NEW s \in Seq(T)
  PROVE  Without(s, {}) = s
<1> DEFINE n == Len(s)
           kept == {i \in 1..Len(s) : i \notin {}}
<1>1. n \in Nat /\ kept = 1 .. n
  OBVIOUS
<1>2. \A j \in 1 .. n : {k \in 1 .. n : k <= j} = 1 .. j
  BY <1>1
<1>3. ASSUME NEW j \in 1 .. n
      PROVE  Cardinality(1 .. j) = j
  <2>1. 1 \in Int /\ j \in Int /\ ~(1 > j) /\ j - 1 + 1 = j
    BY <1>1
  <2> QED
    BY <2>1, FS_Interval
<1>4. Cardinality(kept) = n
  <2>1. Cardinality(1 .. n) = IF 1 > n THEN 0 ELSE n - 1 + 1
    <3>1. 1 \in Int /\ n \in Int
      BY <1>1
    <3> HIDE DEF n
    <3> QED
      BY <3>1, FS_Interval
  <2> HIDE DEF kept, n
  <2>2. n = 0 \/ ~(1 > n)
    BY <1>1
  <2> QED
    BY <1>1, <2>1, <2>2
<1>5. ASSUME NEW i \in 1 .. n
      PROVE  (CHOOSE j \in kept : Cardinality({k \in kept : k <= j}) = i) = i
  <2>1. \A j \in kept : Cardinality({k \in kept : k <= j}) = j
    BY <1>1, <1>2, <1>3
  <2> HIDE DEF kept
  <2>2. \A j \in kept : Cardinality({k \in kept : k <= j}) = i <=> j = i
    BY <2>1
  <2> QED
    BY <1>1, <2>2
<1>6. Without(s, {}) = [i \in 1 .. n |->
                          s[CHOOSE j \in kept : Cardinality({k \in kept : k <= j}) = i]]
  BY <1>4 DEF Without
<1> HIDE DEF kept
<1>7. Without(s, {}) = [i \in 1 .. n |-> s[i]]
  BY <1>5, <1>6
<1> QED
  BY <1>7

(* One of two items is taken out.                                          *)
LEMMA WithoutOneOfTwo ==
  ASSUME NEW T, NEW s \in Seq(T), Len(s) = 2, NEW k \in {1, 2}
  PROVE  Without(s, {k}) = <<s[3 - k]>>
<1> DEFINE o == 3 - k
           kept == {i \in 1..Len(s) : i \notin {k}}
<1>1. kept = {o} /\ o \in 1..2
  OBVIOUS
<1>2. Cardinality(kept) = 1
  BY <1>1, FS_Singleton
<1>3. (CHOOSE j \in kept : Cardinality({x \in kept : x <= j}) = 1) = o
  <2>1. {x \in kept : x <= o} = {o}
    BY <1>1
  <2>2. Cardinality({x \in kept : x <= o}) = 1
    BY <2>1, FS_Singleton
  <2> HIDE DEF o, kept
  <2> QED
    BY <1>1, <2>2
<1>4. Without(s, {k}) = [i \in 1 .. 1 |->
                           s[CHOOSE j \in kept : Cardinality({x \in kept : x <= j}) = i]]
  BY <1>2 DEF Without
<1> HIDE DEF o, kept
<1>5. Without(s, {k}) = [i \in 1 .. 1 |-> s[o]]
  <2>1. \A i \in 1 .. 1 : i = 1
    OBVIOUS
  <2>2. \A i \in 1 .. 1 : (CHOOSE j \in kept : Cardinality({x \in kept : x <= j}) = i) = o
    BY <1>3, <2>1
  <2> QED
    BY <1>4, <2>2
<1>6. [i \in 1 .. 1 |-> s[o]] = <<s[o]>>
  OBVIOUS
<1> QED
  BY <1>5, <1>6 DEF o

(* All items are taken out.                                                *)
LEMMA WithoutAll ==
  ASSUME NEW T, NEW s \in Seq(T)
  PROVE  Without(s, 1 .. Len(s)) = <<>>
<1> DEFINE kept == {i \in 1..Len(s) : i \notin 1 .. Len(s)}
<1>1. kept = {}
  OBVIOUS
<1>2. Cardinality(kept) = 0
  BY <1>1, FS_EmptySet
<1>3. Without(s, 1 .. Len(s)) =
         [i \in 1 .. Cardinality(kept) |->
            s[CHOOSE j \in kept : Cardinality({k \in kept : k <= j}) = i]]
  BY DEF Without
<1> HIDE DEF kept
<1>4. Without(s, 1 .. Len(s)) =
         [i \in 1 .. 0 |-> s[CHOOSE j \in kept : Cardinality({k \in kept : k <= j}) = i]]
  BY <1>2, <1>3
<1>5. Without(s, 1 .. Len(s)) = [i \in 1 .. 0 |-> 0]
  <2>1. \A i \in 1 .. 0 : FALSE
    OBVIOUS
  <2> QED
    BY <1>4, <2>1
<1>6. [i \in 1 .. 0 |-> 0] = <<>>
  OBVIOUS
<1> QED
  BY <1>5, <1>6

(* What a prune may leave of the items of one message.                     *)
Part(s, q) == q = s \/ q = <<>> \/ \E i \in 1..Len(s) : q = <<s[i]>>

Short(l) == l \in [ThreadMessages -> Seq(Item)] /\ \A m \in ThreadMessages : Len(l[m]) <= 2

LEMMA PartItems ==
  ASSUME NEW s \in Seq(Item), NEW q, Part(s, q)
  PROVE  /\ q \in Seq(Item)
         /\ \A j \in 1..Len(q) : \E i \in 1..Len(s) : q[j] = s[i]
<1>1. CASE q = s
  BY <1>1
<1>2. CASE q = <<>>
  <2>1. <<>> \in Seq(Item) /\ \A j \in 1..Len(<<>>) : FALSE
    OBVIOUS
  <2> QED
    BY <1>2, <2>1
<1>3. ASSUME NEW i \in 1..Len(s), q = <<s[i]>>
      PROVE  q \in Seq(Item) /\ \A j \in 1..Len(q) : q[j] = s[i]
  <2>1. s[i] \in Item
    BY ElementOfSeq
  <2>2. \A x \in Item : <<x>> \in Seq(Item) /\ \A j \in 1..Len(<<x>>) : <<x>>[j] = x
    OBVIOUS
  <2> QED
    BY <1>3, <2>1, <2>2
<1> QED
  BY <1>1, <1>2, <1>3 DEF Part

(* A part has no id twice, and no item with an id that was not there.      *)
LEMMA PartKeeps ==
  ASSUME NEW s \in Seq(Item), NEW q, Part(s, q)
  PROVE  /\ OneOfEach(s) => OneOfEach(q)
         /\ (\A i \in 1..Len(s) : s[i].final) => \A j \in 1..Len(q) : q[j].final
         /\ Final(q) # {} => Final(s) # {}
<1>1. q \in Seq(Item) /\ \A j \in 1..Len(q) : \E i \in 1..Len(s) : q[j] = s[i]
  BY PartItems
<1>2. Final(q) # {} => Final(s) # {}
  BY <1>1 DEF Final
<1>3. OneOfEach(s) => OneOfEach(q)
  <2>1. CASE q = s
    BY <2>1
  <2>2. CASE q # s
    <3>1. \A i, j \in 1..Len(q) : i = j
      <4>1. CASE q = <<>>
        BY <4>1
      <4>2. ASSUME NEW i \in 1..Len(s), q = <<s[i]>>
            PROVE  Len(q) = 1
        BY <4>2
      <4>3. Len(q) = 1 => \A i, j \in 1..Len(q) : i = j
        OBVIOUS
      <4> QED
        BY <2>2, <4>1, <4>2, <4>3 DEF Part
    <3> QED
      BY <1>1, <3>1 DEF OneOfEach
  <2> QED
    BY <2>1, <2>2
<1> QED
  BY <1>1, <1>2, <1>3

LEMMA PartOfPart ==
  ASSUME NEW s, NEW q, NEW r, Part(s, q), Part(q, r)
  PROVE  Part(s, r)
<1>1. ASSUME NEW i \in 1..Len(s), q = <<s[i]>>
      PROVE  r = q \/ r = <<>>
  <2>1. \A j \in 1..Len(q) : <<q[j]>> = q
    BY <1>1
  <2> QED
    BY <2>1 DEF Part
<1> QED
  BY <1>1 DEF Part

(* Two items at most have one of two ids each.                             *)
LEMMA OneOfEachIsShort ==
  ASSUME NEW s \in Seq(Item), OneOfEach(s)
  PROVE  Len(s) <= 2
<1>1. Len(s) \in Nat
  OBVIOUS
<1> SUFFICES ASSUME Len(s) >= 3
             PROVE  FALSE
  BY <1>1
<1>2. 1 \in 1 .. Len(s) /\ 2 \in 1 .. Len(s) /\ 3 \in 1 .. Len(s)
  BY <1>1
<1> QED
  BY <1>2 DEF OneOfEach

(* What is not taken out is still there.                                   *)
LEMMA CutIsPart ==
  ASSUME NEW s \in Seq(Item), Len(s) <= 2, NEW S \in SUBSET (1 .. Len(s))
  PROVE  /\ Part(s, Without(s, S))
         /\ \A n \in (1 .. Len(s)) \ S :
               \E j \in 1 .. Len(Without(s, S)) : Without(s, S)[j] = s[n]
<1>1. Len(s) \in {0, 1, 2}
  <2>1. Len(s) \in Nat
    OBVIOUS
  <2>2. \A n \in Nat : n <= 2 => n \in {0, 1, 2}
    OBVIOUS
  <2> QED
    BY <2>1, <2>2
<1>2. CASE S = {}
  BY <1>2, WithoutNone DEF Part
<1>3. CASE S = 1 .. Len(s)
  BY <1>3, WithoutAll DEF Part
<1>4. CASE S # {} /\ S # 1 .. Len(s)
  <2>1. PICK k \in {1, 2} : S = {k} /\ Len(s) = 2
    <3>1. Len(s) = 2
      <4>1. Len(s) = 0 => 1 .. Len(s) = {}
        OBVIOUS
      <4>2. Len(s) = 1 => 1 .. Len(s) = {1}
        OBVIOUS
      <4> QED
        BY <1>1, <1>4, <4>1, <4>2
    <3>2. S \subseteq {1, 2} /\ S # {} /\ S # {1, 2}
      <4>1. 1 .. 2 = {1, 2}
        OBVIOUS
      <4> QED
        BY <1>4, <3>1, <4>1
    <3>3. CASE 1 \in S
      <4>1. S = {1}
        BY <3>2, <3>3
      <4> QED
        BY <3>1, <4>1
    <3>4. CASE 1 \notin S
      <4>1. S = {2}
        BY <3>2, <3>4
      <4> QED
        BY <3>1, <4>1
    <3> QED
      BY <3>3, <3>4
  <2>2. Without(s, S) = <<s[3 - k]>> /\ 3 - k \in 1 .. Len(s)
    <3>1. Without(s, {k}) = <<s[3 - k]>>
      BY <2>1, WithoutOneOfTwo
    <3>2. \A j \in {1, 2} : 3 - j \in 1 .. 2
      OBVIOUS
    <3>3. 3 - k \in 1 .. Len(s)
      BY <2>1, <3>2
    <3> QED
      BY <2>1, <3>1, <3>3
  <2>3. \A n \in (1 .. Len(s)) \ S : n = 3 - k
    BY <2>1
  <2>4. Len(<<s[3 - k]>>) = 1 /\ <<s[3 - k]>>[1] = s[3 - k]
    OBVIOUS
  <2> QED
    BY <2>2, <2>3, <2>4 DEF Part
<1> QED
  BY <1>2, <1>3, <1>4

(* A prune leaves a part of every message's items, its own among them.     *)
LEMMA PrunedKeeps ==
  ASSUME NEW l, Short(l), NEW own, NEW p \in Pruned(l, own)
  PROVE  /\ p \in [ThreadMessages -> Seq(Item)]
         /\ \A m \in ThreadMessages : Part(l[m], p[m])
         /\ \A m \in ThreadMessages : \A n \in 1..Len(l[m]) :
               <<m, n>> \in own => \E j \in 1..Len(p[m]) : p[m][j] = l[m][n]
<1> DEFINE S(m, k) == {i \in 1..Len(l[m]) : <<m, i>> \notin k}
<1>1. PICK k \in Kept(l, own) : p = [m \in ThreadMessages |-> Without(l[m], S(m, k))]
  BY DEF Pruned
<1>2. k = Places(l) \/ own \subseteq k
  BY DEF Kept
<1>3. \A m \in ThreadMessages : \A n \in 1..Len(l[m]) : <<m, n>> \in Places(l)
  BY DEF Places
<1>4. \A m \in ThreadMessages : l[m] \in Seq(Item) /\ Len(l[m]) <= 2
  BY DEF Short
<1>5. \A m \in ThreadMessages : S(m, k) \in SUBSET (1 .. Len(l[m]))
  OBVIOUS
<1>6. \A m \in ThreadMessages : \A n \in 1..Len(l[m]) : <<m, n>> \in own => n \notin S(m, k)
  BY <1>2, <1>3
<1> HIDE DEF S
<1>7. \A m \in ThreadMessages : p[m] = Without(l[m], S(m, k))
  BY <1>1
<1>8. \A m \in ThreadMessages : Part(l[m], p[m])
  BY <1>4, <1>5, <1>7, CutIsPart
<1>9. \A m \in ThreadMessages : \A n \in 1..Len(l[m]) :
         <<m, n>> \in own => \E j \in 1..Len(p[m]) : p[m][j] = l[m][n]
  BY <1>4, <1>5, <1>6, <1>7, CutIsPart
<1>10. \A m \in ThreadMessages : p[m] \in Seq(Item)
  BY <1>4, <1>8, PartItems
<1>11. p \in [ThreadMessages -> Seq(Item)]
  BY <1>1, <1>7, <1>10
<1> QED
  BY <1>8, <1>9, <1>11

(* A case of the reducer: a part of what it makes, and no reply vanishes   *)
(* that is not archived.                                                   *)
NoneVanish == \A x \in Turns : Final(listed[x]) # {} \/ x \in archived =>
                                  Final(listed'[x]) # {} \/ x \in archived'

LEMMA ShowKeeps ==
  ASSUME NEW l, Short(l), NEW own, Show(l, own)
  PROVE  /\ listed' \in [ThreadMessages -> Seq(Item)] /\ archived' \subseteq Turns
         /\ \A m \in ThreadMessages : Part(l[m], listed'[m])
         /\ NoneVanish
<1>1. listed' \in Pruned(l, own)
  BY DEF Show
<1>2. archived' = {t \in Turns : /\ Final(listed'[t]) = {}
                                 /\ t \in archived \/ Final(listed[t]) # {}}
  BY DEF Show
<1>3. NoneVanish /\ archived' \subseteq Turns
  BY <1>2 DEF NoneVanish
<1> QED
  BY <1>1, <1>3, PrunedKeeps

LEMMA PutKeeps ==
  ASSUME NEW l, Short(l), NEW m \in ThreadMessages, NEW s \in Seq(Item), Len(s) <= 2,
         NEW own, Put(l, m, s, own)
  PROVE  /\ listed' \in [ThreadMessages -> Seq(Item)] /\ archived' \subseteq Turns
         /\ Part(s, listed'[m])
         /\ \A x \in ThreadMessages \ {m} : Part(l[x], listed'[x])
         /\ \A n \in 1..Len(s) : n \in own => \E j \in 1..Len(listed'[m]) : listed'[m][j] = s[n]
         /\ NoneVanish
<1> DEFINE k == [l EXCEPT ![m] = s]
<1>1. k \in [ThreadMessages -> Seq(Item)] /\ k[m] = s
      /\ \A x \in ThreadMessages \ {m} : k[x] = l[x]
  BY DEF Short
<1>2. Show(k, {m} \X own)
  BY DEF Put
<1>3. Short(k)
  BY <1>1 DEF Short
<1> HIDE DEF k
<1>4. listed' \in Pruned(k, {m} \X own)
  BY <1>2 DEF Show
<1>5. \A n \in 1..Len(s) : n \in own => <<m, n>> \in {m} \X own
  OBVIOUS
<1>6. \A n \in 1..Len(k[m]) : <<m, n>> \in {m} \X own =>
         \E j \in 1..Len(listed'[m]) : listed'[m][j] = k[m][n]
  BY <1>3, <1>4, PrunedKeeps
<1>7. \A n \in 1..Len(s) : n \in own => \E j \in 1..Len(listed'[m]) : listed'[m][j] = s[n]
  BY <1>1, <1>5, <1>6
<1> QED
  BY <1>1, <1>2, <1>3, <1>7, ShowKeeps

(* The first of one.                                                       *)
LEMMA FirstOfOne ==
  ASSUME NEW S \in SUBSET Nat, S # {}, \A i, j \in S : i = j
  PROVE  First(S) \in S
<1>1. PICK x \in S : TRUE
  OBVIOUS
<1>2. \A j \in S : x <= j
  BY <1>1
<1> QED
  BY <1>1, <1>2 DEF First

(* The first item with an id is the only one with it.                      *)
LEMMA FirstItems ==
  ASSUME NEW s \in Seq(Item), OneOfEach(s)
  PROVE  /\ Keyed(s) \subseteq 1 .. Len(s) /\ Final(s) \subseteq 1 .. Len(s)
         /\ Keyed(s) # {} => First(Keyed(s)) \in Keyed(s)
         /\ Final(s) # {} => First(Final(s)) \in Final(s)
         /\ \A i, j \in Keyed(s) : i = j
         /\ \A i, j \in Final(s) : i = j
<1>1. Len(s) \in Nat
  OBVIOUS
<1>2. Keyed(s) \subseteq 1 .. Len(s) /\ Final(s) \subseteq 1 .. Len(s)
  BY DEF Keyed, Final
<1>3. Keyed(s) \in SUBSET Nat /\ Final(s) \in SUBSET Nat
  BY <1>1, <1>2
<1>4. \A i, j \in Keyed(s) : i = j
  BY DEF OneOfEach, Keyed
<1>5. \A i, j \in Final(s) : i = j
  BY DEF OneOfEach, Final
<1>6. Keyed(s) # {} => First(Keyed(s)) \in Keyed(s)
  BY <1>3, <1>4, FirstOfOne
<1>7. Final(s) # {} => First(Final(s)) \in Final(s)
  BY <1>3, <1>5, FirstOfOne
<1> QED
  BY <1>2, <1>4, <1>5, <1>6, <1>7

(* Two positions, and no third.                                            *)
LEMMA TwoItems ==
  ASSUME NEW n \in Nat, NEW i \in 1 .. n, NEW j \in 1 .. n, j # i,
         \A x \in 1 .. n : x = i \/ x = j
  PROVE  n = 2 /\ j \in {1, 2} /\ i = 3 - j
<1>1. ~(n >= 3)
  <2> SUFFICES ASSUME n >= 3
               PROVE  FALSE
    OBVIOUS
  <2>1. 1 \in 1 .. n /\ 2 \in 1 .. n /\ 3 \in 1 .. n
    OBVIOUS
  <2> QED
    BY <2>1
<1>2. n = 2
  BY <1>1
<1> QED
  BY <1>2

LEMMA Items ==
  /\ FromHistory \in Item /\ Streaming \in Item /\ CompleteItem \in Item /\ Optimistic \in Item
  /\ FromHistory.final /\ ~FromHistory.keyed
  /\ ~Streaming.final /\ Streaming.keyed
  /\ CompleteItem.final /\ CompleteItem.keyed
  /\ ~Optimistic.final /\ ~Optimistic.keyed
BY DEF FromHistory, Streaming, CompleteItem, Optimistic, Item

(* appendTurnContent adds an item with the turn's id if there is none.     *)
LEMMA StreamedKeeps ==
  ASSUME NEW s \in Seq(Item), OneOfEach(s)
  PROVE  /\ Streamed(s) \in Seq(Item) /\ OneOfEach(Streamed(s))
         /\ Final(Streamed(s)) = Final(s)
<1>1. CASE Keyed(s) = {}
  <2>1. Streamed(s) = Append(s, Streaming)
    BY <1>1 DEF Streamed
  <2>2. /\ Append(s, Streaming) \in Seq(Item)
        /\ Len(Append(s, Streaming)) = Len(s) + 1
        /\ \A i \in 1 .. Len(s) : Append(s, Streaming)[i] = s[i]
        /\ Append(s, Streaming)[Len(s) + 1] = Streaming
    BY Items, AppendProperties
  <2> DEFINE q == Append(s, Streaming)
  <2> HIDE DEF q
  <2>3. q \in Seq(Item) /\ Len(q) = Len(s) + 1 /\ q[Len(s) + 1] = Streaming
        /\ \A i \in 1 .. Len(s) : q[i] = s[i]
    BY <2>2 DEF q
  <2>4. \A i \in 1 .. Len(s) : ~s[i].keyed
    BY <1>1 DEF Keyed
  <2>5. OneOfEach(q)
    BY <2>3, <2>4, Items DEF OneOfEach
  <2>6. Final(q) = Final(s)
    BY <2>3, Items DEF Final
  <2> QED
    BY <2>1, <2>3, <2>5, <2>6 DEF q
<1>2. CASE Keyed(s) # {}
  <2> DEFINE k == First(Keyed(s))
             q == [s EXCEPT ![k].streaming = TRUE]
  <2>1. k \in 1 .. Len(s)
    BY <1>2, FirstItems
  <2>2. Streamed(s) = q
    BY <1>2 DEF Streamed
  <2> HIDE DEF k
  <2>3. /\ q \in Seq(Item) /\ Len(q) = Len(s)
        /\ \A i \in 1 .. Len(s) : q[i].final = s[i].final /\ q[i].keyed = s[i].keyed
    <3> DEFINE e == [s[k] EXCEPT !.streaming = TRUE]
    <3>1. s[k] \in Item
      BY <2>1, ElementOfSeq
    <3>2. e \in Item /\ e.final = s[k].final /\ e.keyed = s[k].keyed
      BY <3>1 DEF Item
    <3>3. q = [s EXCEPT ![k] = e]
      OBVIOUS
    <3> HIDE DEF e, q
    <3> QED
      BY <2>1, <3>2, <3>3, ExceptSeq
  <2> HIDE DEF q
  <2> QED
    BY <2>2, <2>3 DEF OneOfEach, Final
<1> QED
  BY <1>1, <1>2

(* syncRuntimeToTurns changes no id.                                       *)
LEMMA StilledKeeps ==
  ASSUME NEW s \in Seq(Item), OneOfEach(s)
  PROVE  /\ Stilled(s) \in Seq(Item) /\ OneOfEach(Stilled(s)) /\ Len(Stilled(s)) = Len(s)
         /\ \A i \in 1 .. Len(s) : Stilled(s)[i].final = s[i].final
<1>1. CASE Keyed(s) = {}
  BY <1>1 DEF Stilled
<1>2. CASE Keyed(s) # {}
  <2> DEFINE k == First(Keyed(s))
             q == [s EXCEPT ![k].streaming = FALSE]
  <2>1. k \in 1 .. Len(s)
    BY <1>2, FirstItems
  <2>2. Stilled(s) = q
    BY <1>2 DEF Stilled
  <2> HIDE DEF k
  <2>3. /\ q \in Seq(Item) /\ Len(q) = Len(s)
        /\ \A i \in 1 .. Len(s) : q[i].final = s[i].final /\ q[i].keyed = s[i].keyed
    <3> DEFINE e == [s[k] EXCEPT !.streaming = FALSE]
    <3>1. s[k] \in Item
      BY <2>1, ElementOfSeq
    <3>2. e \in Item /\ e.final = s[k].final /\ e.keyed = s[k].keyed
      BY <3>1 DEF Item
    <3>3. q = [s EXCEPT ![k] = e]
      OBVIOUS
    <3> HIDE DEF e, q
    <3> QED
      BY <2>1, <3>2, <3>3, ExceptSeq
  <2> HIDE DEF q
  <2> QED
    BY <2>2, <2>3 DEF OneOfEach
<1> QED
  BY <1>1, <1>2

(* completeStreamMessage leaves one item, whatever there was.              *)
LEMMA CompletedIsOne ==
  ASSUME NEW s \in Seq(Item), OneOfEach(s)
  PROVE  Completed(s) = <<CompleteItem>>
<1>1. \A i, j \in Keyed(s) : i = j
  BY DEF OneOfEach, Keyed
<1>2. \A i, j \in Final(s) : i = j
  BY DEF OneOfEach, Final
<1>3. \A i \in 1 .. Len(s) : i \in Final(s) \cup Keyed(s)
  BY DEF OneOfEach, Final, Keyed
<1>4. Final(s) \subseteq 1 .. Len(s) /\ Keyed(s) \subseteq 1 .. Len(s) /\ Len(s) \in Nat
  BY DEF Final, Keyed
<1>5. CASE Final(s) # {}
  <2>1. PICK i \in 1 .. Len(s) : i \in Final(s) /\ i = First(Final(s))
    BY <1>2, <1>4, <1>5, FirstOfOne
  <2> DEFINE k == IF Keyed(s) = {} THEN {} ELSE {First(Keyed(s))} \ {i}
             q == [s EXCEPT ![i] = CompleteItem]
  <2>2. Keyed(s) # {} => First(Keyed(s)) \in Keyed(s)
    BY <1>1, <1>4, FirstOfOne
  <2>3. Completed(s) = Without(q, k)
    BY <1>5, <2>1 DEF Completed
  <2>4. q \in Seq(Item) /\ Len(q) = Len(s) /\ q[i] = CompleteItem
    BY <1>4, <2>1, Items
  <2>5. CASE Keyed(s) \subseteq {i}
    <3>1. k = {}
      BY <2>2, <2>5
    <3>2. i = 1 /\ Len(s) = 1
      <4>1. \A j \in 1 .. Len(s) : j = i
        BY <1>2, <1>3, <2>1, <2>5
      <4>2. 1 \in 1 .. Len(s) /\ Len(s) \in 1 .. Len(s)
        BY <1>4, <2>1
      <4> QED
        BY <4>1, <4>2
    <3> HIDE DEF k, q
    <3>3. Completed(s) = q
      BY <2>3, <2>4, <3>1, WithoutNone
    <3>4. q = <<CompleteItem>>
      BY <2>4, <3>2
    <3> QED
      BY <3>3, <3>4
  <2>6. CASE \E j \in Keyed(s) : j # i
    <3>1. PICK j \in 1 .. Len(s) : j \in Keyed(s) /\ j # i
      BY <1>4, <2>6
    <3>2. k = {j}
      BY <1>1, <2>2, <3>1
    <3>3. \A x \in 1 .. Len(s) : x = i \/ x = j
      BY <1>1, <1>2, <1>3, <2>1, <3>1
    <3>4. Len(s) = 2 /\ j \in {1, 2} /\ i = 3 - j
      <4>1. PICK n \in Nat : n = Len(s)
        BY <1>4
      <4>2. i \in 1 .. n /\ j \in 1 .. n /\ \A x \in 1 .. n : x = i \/ x = j
        BY <3>3, <4>1
      <4>3. n = 2 /\ j \in {1, 2} /\ i = 3 - j
        BY <3>1, <4>2, TwoItems
      <4> QED
        BY <4>1, <4>3
    <3> HIDE DEF k, q
    <3>5. Completed(s) = <<q[3 - j]>>
      BY <2>3, <2>4, <3>2, <3>4, WithoutOneOfTwo
    <3> QED
      BY <2>4, <3>4, <3>5
  <2> QED
    BY <2>5, <2>6
<1>6. CASE Final(s) = {} /\ Keyed(s) # {}
  <2> DEFINE k == First(Keyed(s))
  <2>1. k \in Keyed(s)
    BY <1>1, <1>4, <1>6, FirstOfOne
  <2>2. Completed(s) = [s EXCEPT ![k] = CompleteItem]
    BY <1>6 DEF Completed
  <2> HIDE DEF k
  <2>3. k = 1 /\ Len(s) = 1
    <3>1. \A j \in 1 .. Len(s) : j = k
      BY <1>1, <1>3, <1>6, <2>1
    <3> QED
      BY <1>4, <2>1, <3>1
  <2>4. [s EXCEPT ![1] = CompleteItem] = <<CompleteItem>>
    BY <2>3
  <2> QED
    BY <2>2, <2>3, <2>4
<1>7. CASE Final(s) = {} /\ Keyed(s) = {}
  <2>1. s = << >>
    BY <1>3, <1>4, <1>7
  <2> QED
    BY <1>7, <2>1 DEF Completed
<1> QED
  BY <1>5, <1>6, <1>7

(* appendRuntimeMessage lists a message once.                              *)
LEMMA AppendedKeeps ==
  ASSUME NEW s \in Seq(Item), OneOfEach(s)
  PROVE  /\ Appended(s) \in Seq(Item) /\ OneOfEach(Appended(s))
         /\ Final(Appended(s)) # {}
         /\ (\A i \in 1 .. Len(s) : s[i].final) =>
               \A i \in 1 .. Len(Appended(s)) : Appended(s)[i].final
<1>1. CASE Final(s) # {}
  BY <1>1 DEF Appended
<1>2. CASE Final(s) = {}
  <2> DEFINE q == Append(s, FromHistory)
  <2>1. Appended(s) = q
    BY <1>2 DEF Appended
  <2>2. q \in Seq(Item) /\ Len(q) = Len(s) + 1 /\ q[Len(s) + 1] = FromHistory
        /\ \A i \in 1 .. Len(s) : q[i] = s[i]
    BY Items, AppendProperties
  <2> HIDE DEF q
  <2>3. \A i \in 1 .. Len(s) : ~s[i].final
    BY <1>2 DEF Final
  <2>4. OneOfEach(q)
    BY <2>2, <2>3, Items DEF OneOfEach
  <2>5. Len(s) + 1 \in Final(q)
    BY <2>2, Items DEF Final
  <2>6. (\A i \in 1 .. Len(s) : s[i].final) => \A i \in 1 .. Len(q) : q[i].final
    BY <2>2, Items
  <2> QED
    BY <2>1, <2>2, <2>4, <2>5, <2>6
<1> QED
  BY <1>1, <1>2

(* completeUserTurn: the message from the server is the only item.         *)
LEMMA ConfirmedIsOne ==
  ASSUME NEW s \in {<<>>, <<Optimistic>>, <<FromHistory>>}
  PROVE  Confirmed(s) = <<FromHistory>>
<1> DEFINE optimistic == {i \in 1..Len(s) : s[i] = Optimistic}
<1>1. CASE s = <<>>
  BY <1>1 DEF Confirmed, Final
<1>2. CASE s = <<Optimistic>>
  <2>1. Final(s) = {} /\ optimistic = {1}
    BY <1>2, Items DEF Final
  <2>2. First({1}) = 1
    BY DEF First
  <2>3. Confirmed(s) = [s EXCEPT ![1] = FromHistory]
    BY <2>1, <2>2 DEF Confirmed
  <2>4. [s EXCEPT ![1] = FromHistory] = <<FromHistory>>
    BY <1>2
  <2> QED
    BY <2>3, <2>4
<1>3. CASE s = <<FromHistory>>
  <2>1. Final(s) = {1}
    BY <1>3, Items DEF Final
  <2>2. optimistic = {}
    BY <1>3, Items
  <2>3. Confirmed(s) = Without(s, {})
    BY <2>1, <2>2 DEF Confirmed
  <2>4. s \in Seq(Item)
    BY <1>3, Items
  <2> QED
    BY <1>3, <2>3, <2>4, WithoutNone
<1> QED
  BY <1>1, <1>2, <1>3

-----------------------------------------------------------------------------
(* The wire, the log and the list after a step.                            *)

FrameTypes == {"busy", "idle", "delta", "completed", "message"}

(* publish_subscription adds one frame at the end, or none.                *)
LEMMA PublishFacts ==
  ASSUME FeedTypeOK, NEW type \in FrameTypes, NEW t \in Turns, PublishFrame(type, t)
  PROVE  /\ wire' \in Seq(FeedFrame)
         /\ \A i \in 1 .. Len(wire) : i \in 1 .. Len(wire') /\ wire'[i] = wire[i]
         /\ \A i \in 1 .. Len(wire') :
               \/ i \in 1 .. Len(wire) /\ wire'[i] = wire[i]
               \/ i = Len(wire) + 1 /\ wire'[i].type = type /\ wire'[i].turn = t
         /\ conn \in {"acked", "live"} =>
               /\ Len(wire) + 1 \in 1 .. Len(wire')
               /\ wire'[Len(wire) + 1].type = type /\ wire'[Len(wire) + 1].turn = t
         /\ conn \notin {"acked", "live"} => wire' = wire
<1>1. wire \in Seq(FeedFrame) /\ Len(wire) \in Nat
  BY DEF FeedTypeOK
<1>2. CASE conn \notin {"acked", "live"}
  BY <1>1, <1>2 DEF PublishFrame
<1>3. CASE conn \in {"acked", "live"}
  <2> DEFINE f == [type |-> type, turn |-> t]
  <2>1. f \in FeedFrame /\ f.type = type /\ f.turn = t
    BY DEF FeedFrame, FrameTypes
  <2>2. wire' = Append(wire, f)
    BY <1>3 DEF PublishFrame
  <2> HIDE DEF f
  <2>3. /\ wire' \in Seq(FeedFrame) /\ Len(wire') = Len(wire) + 1
        /\ \A i \in 1 .. Len(wire) : wire'[i] = wire[i]
        /\ wire'[Len(wire) + 1] = f
    BY <1>1, <2>1, <2>2, AppendProperties
  <2> QED
    BY <1>1, <1>3, <2>1, <2>3
<1> QED
  BY <1>2, <1>3

(* The next frame is taken off the front.                                  *)
LEMMA ReceiveFacts ==
  ASSUME FeedTypeOK, ReceiveFrame
  PROVE  /\ wire' \in Seq(FeedFrame) /\ 1 \in 1 .. Len(wire) /\ Head(wire) = wire[1]
         /\ wire[1] \in FeedFrame
         /\ \A i \in 1 .. Len(wire') : i + 1 \in 1 .. Len(wire) /\ wire'[i] = wire[i + 1]
         /\ \A i \in 2 .. Len(wire) : i - 1 \in 1 .. Len(wire') /\ wire'[i - 1] = wire[i]
<1>1. wire \in Seq(FeedFrame) /\ wire # <<>> /\ wire' = Tail(wire)
  BY DEF FeedTypeOK, ReceiveFrame
<1>2. /\ wire' \in Seq(FeedFrame) /\ Len(wire') = Len(wire) - 1
      /\ \A i \in 1 .. Len(wire') : wire'[i] = wire[i + 1]
  BY <1>1, HeadTailProperties
<1>3. Len(wire) \in Nat /\ Len(wire) # 0 /\ Head(wire) = wire[1]
  BY <1>1
<1>4. 1 \in 1 .. Len(wire) /\ wire[1] \in FeedFrame
  BY <1>1, <1>3, ElementOfSeq
<1>5. \A i \in 1 .. Len(wire') : i + 1 \in 1 .. Len(wire)
  BY <1>2, <1>3
<1>6. \A i \in 2 .. Len(wire) : i - 1 \in 1 .. Len(wire') /\ i = (i - 1) + 1
  BY <1>2, <1>3
<1> QED
  BY <1>2, <1>3, <1>4, <1>5, <1>6

(* The replay sends the event in front.                                    *)
LEMMA ReplayFacts ==
  ASSUME FeedTypeOK, ReplaySend
  PROVE  /\ replay' \in Seq(Turns) /\ 1 \in 1 .. Len(replay)
         /\ replay[1] \in Turns /\ PublishFrame("completed", replay[1])
         /\ \A i \in 1 .. Len(replay') : i + 1 \in 1 .. Len(replay) /\ replay'[i] = replay[i + 1]
         /\ \A i \in 2 .. Len(replay) : i - 1 \in 1 .. Len(replay') /\ replay'[i - 1] = replay[i]
<1>1. replay \in Seq(Turns) /\ replay # <<>> /\ replay' = Tail(replay)
  BY DEF FeedTypeOK, ReplaySend
<1>2. /\ replay' \in Seq(Turns) /\ Len(replay') = Len(replay) - 1
      /\ \A i \in 1 .. Len(replay') : replay'[i] = replay[i + 1]
  BY <1>1, HeadTailProperties
<1>3. Len(replay) \in Nat /\ Len(replay) # 0 /\ Head(replay) = replay[1]
  BY <1>1
<1>4. 1 \in 1 .. Len(replay) /\ replay[1] \in Turns
  BY <1>1, <1>3, ElementOfSeq
<1>5. \A i \in 1 .. Len(replay') : i + 1 \in 1 .. Len(replay)
  BY <1>2, <1>3
<1>6. \A i \in 2 .. Len(replay) : i - 1 \in 1 .. Len(replay') /\ i = (i - 1) + 1
  BY <1>2, <1>3
<1>7. PublishFrame("completed", replay[1])
  BY <1>3 DEF ReplaySend
<1> QED
  BY <1>2, <1>4, <1>5, <1>6, <1>7

(* A persisted reply joins the log.                                        *)
LEMMA PersistFacts ==
  ASSUME FeedTypeOK, NEW t \in Turns, Persist(t)
  PROVE  log' \in Seq(Turns) /\ Logged' = Logged \cup {t}
<1>1. log \in Seq(Turns) /\ log' = Append(log, t) /\ Len(log) \in Nat
  BY DEF FeedTypeOK, Persist
<1>2. /\ log' \in Seq(Turns) /\ Len(log') = Len(log) + 1
      /\ \A i \in 1 .. Len(log) : log'[i] = log[i]
      /\ log'[Len(log) + 1] = t
  BY <1>1, AppendProperties
<1>3. \A i \in 1 .. Len(log') : i \in 1 .. Len(log) \/ i = Len(log) + 1
  BY <1>1, <1>2
<1>4. \A i \in 1 .. Len(log) : i \in 1 .. Len(log')
  BY <1>1, <1>2
<1>5. Len(log) + 1 \in 1 .. Len(log')
  BY <1>1, <1>2
<1> QED
  BY <1>2, <1>3, <1>4, <1>5 DEF Logged

(* The buffered deltas change what streams, and nothing else.              *)
LEMMA FlushedKeeps ==
  ASSUME FeedTypeOK, Lists
  PROVE  /\ Flushed \in [ThreadMessages -> Seq(Item)]
         /\ \A t \in Turns : /\ OneOfEach(Flushed[t])
                             /\ Final(Flushed[t]) = Final(listed[t])
         /\ \A m \in ThreadMessages : m \notin buffered => Flushed[m] = listed[m]
         /\ \A u \in Users : Flushed[u] = listed[u]
<1>1. \A m \in ThreadMessages : listed[m] \in Seq(Item)
  BY DEF FeedTypeOK
<1>2. buffered \subseteq Turns /\ \A u \in Users : u \notin buffered
  BY FeedAssumption DEF FeedTypeOK
<1>3. \A m \in buffered : OneOfEach(listed[m])
  BY <1>2 DEF Lists
<1>4. \A m \in buffered : Streamed(listed[m]) \in Seq(Item) /\ OneOfEach(Streamed(listed[m]))
                          /\ Final(Streamed(listed[m])) = Final(listed[m])
  BY <1>1, <1>2, <1>3, StreamedKeeps DEF ThreadMessages
<1>5. Flushed \in [ThreadMessages -> Seq(Item)]
  BY <1>1, <1>4 DEF Flushed
<1>6. \A m \in ThreadMessages :
          Flushed[m] = IF m \in buffered THEN Streamed(listed[m]) ELSE listed[m]
  BY DEF Flushed
<1>7. \A t \in Turns : OneOfEach(Flushed[t]) /\ Final(Flushed[t]) = Final(listed[t])
  BY <1>4, <1>6 DEF Lists, ThreadMessages
<1> QED
  BY <1>2, <1>5, <1>6, <1>7 DEF ThreadMessages

(* No message has more than two items.                                     *)
LEMMA ListsAreShort ==
  ASSUME FeedTypeOK, Lists
  PROVE  Short(listed) /\ Short(Flushed)
<1>1. \A t \in Turns : listed[t] \in Seq(Item) /\ OneOfEach(listed[t])
  BY DEF FeedTypeOK, Lists, ThreadMessages
<1>2. \A u \in Users : Len(listed[u]) <= 2
  <2>1. Len(<<>>) <= 2 /\ Len(<<Optimistic>>) <= 2 /\ Len(<<FromHistory>>) <= 2
    OBVIOUS
  <2> QED
    BY <2>1 DEF Lists
<1>3. \A t \in Turns : Flushed[t] \in Seq(Item) /\ OneOfEach(Flushed[t])
  BY FlushedKeeps DEF ThreadMessages
<1>4. Short(listed)
  BY <1>1, <1>2, OneOfEachIsShort DEF FeedTypeOK, Short, ThreadMessages
<1>5. Short(Flushed)
  BY <1>2, <1>3, OneOfEachIsShort, FlushedKeeps DEF Short, ThreadMessages
<1> QED
  BY <1>4, <1>5

(* What a frame does to the list.                                          *)
LEMMA ReceiveListed ==
  ASSUME FeedTypeOK, Lists, ReceiveFrame
  PROVE  LET t == wire[1].turn
             type == wire[1].type
         IN  /\ listed' \in [ThreadMessages -> Seq(Item)] /\ archived' \subseteq Turns
             /\ OneOfEach(listed'[t])
             /\ \A m \in ThreadMessages \ {t} :
                   \/ Part(listed[m], listed'[m])
                   \/ type = "completed" /\ Part(Flushed[m], listed'[m])
             /\ type \in {"busy", "idle", "delta"} =>
                   (Final(listed'[t]) # {} => Final(listed[t]) # {})
             /\ type \in {"idle", "message"} =>
                   ((\A i \in 1 .. Len(listed[t]) : listed[t][i].final) =>
                        \A i \in 1 .. Len(listed'[t]) : listed'[t][i].final)
             /\ type = "message" => Final(listed'[t]) # {} \/ t \in archived'
             /\ type = "completed" => listed'[t] = <<CompleteItem>>
             /\ NoneVanish
<1> DEFINE t == wire[1].turn
           type == wire[1].type
           s == listed[t]
<1>1. Head(wire) = wire[1] /\ wire[1] \in FeedFrame
  BY ReceiveFacts
<1>2. t \in Turns /\ t \in ThreadMessages /\ type \in FrameTypes
  BY <1>1 DEF FeedFrame, FrameTypes, ThreadMessages
<1>3. listed \in [ThreadMessages -> Seq(Item)] /\ s \in Seq(Item) /\ OneOfEach(s)
  BY <1>2 DEF FeedTypeOK, Lists
<1>4. /\ type = "busy" => PutActive(listed, t, Streamed(s))
      /\ type = "idle" => PutActive(listed, t, Stilled(s))
      /\ type = "message" => PutLast(t, Appended(s))
      /\ type = "completed" => \E l \in Pruned(Flushed, {}) : PutActive(l, t, Completed(l[t]))
      /\ type = "delta" => UNCHANGED <<listed, archived>>
  BY <1>1 DEF ReceiveFrame
<1>5. Short(listed) /\ Short(Flushed)
  BY ListsAreShort
<1> HIDE DEF t, type, s
<1>6. CASE type = "busy"
  <2>1. Put(listed, t, Streamed(s), Keyed(Streamed(s)))
    BY <1>4, <1>6 DEF PutActive
  <2>2. Streamed(s) \in Seq(Item) /\ OneOfEach(Streamed(s)) /\ Final(Streamed(s)) = Final(s)
    BY <1>3, StreamedKeeps
  <2>3. Len(Streamed(s)) <= 2
    BY <2>2, OneOfEachIsShort
  <2>4. /\ listed' \in [ThreadMessages -> Seq(Item)] /\ archived' \subseteq Turns
        /\ Part(Streamed(s), listed'[t]) /\ NoneVanish
        /\ \A x \in ThreadMessages \ {t} : Part(listed[x], listed'[x])
    BY <1>2, <1>5, <2>1, <2>2, <2>3, PutKeeps
  <2>5. OneOfEach(listed'[t]) /\ (Final(listed'[t]) # {} => Final(s) # {})
    BY <2>2, <2>4, PartKeeps
  <2> QED
    BY <1>6, <2>4, <2>5 DEF t, type, s
<1>7. CASE type = "idle"
  <2>1. Put(listed, t, Stilled(s), Keyed(Stilled(s)))
    BY <1>4, <1>7 DEF PutActive
  <2>2. /\ Stilled(s) \in Seq(Item) /\ OneOfEach(Stilled(s)) /\ Len(Stilled(s)) = Len(s)
        /\ \A i \in 1 .. Len(s) : Stilled(s)[i].final = s[i].final
    BY <1>3, StilledKeeps
  <2>3. Final(Stilled(s)) # {} => Final(s) # {}
    BY <2>2 DEF Final
  <2>4. Len(Stilled(s)) <= 2
    BY <2>2, OneOfEachIsShort
  <2>5. /\ listed' \in [ThreadMessages -> Seq(Item)] /\ archived' \subseteq Turns
        /\ Part(Stilled(s), listed'[t]) /\ NoneVanish
        /\ \A x \in ThreadMessages \ {t} : Part(listed[x], listed'[x])
    BY <1>2, <1>5, <2>1, <2>2, <2>4, PutKeeps
  <2>6. OneOfEach(listed'[t]) /\ (Final(listed'[t]) # {} => Final(s) # {})
    BY <2>2, <2>3, <2>5, PartKeeps
  <2>7. (\A i \in 1 .. Len(s) : s[i].final) =>
             \A i \in 1 .. Len(listed'[t]) : listed'[t][i].final
    BY <2>2, <2>5, PartKeeps
  <2> QED
    BY <1>7, <2>5, <2>6, <2>7 DEF t, type, s
<1>8. CASE type = "message"
  <2> DEFINE q == Appended(s)
  <2>1. Put(listed, t, q, Added(t, q))
    BY <1>4, <1>8 DEF PutLast
  <2>2. /\ q \in Seq(Item) /\ OneOfEach(q) /\ Final(q) # {}
        /\ (\A i \in 1 .. Len(s) : s[i].final) => \A i \in 1 .. Len(q) : q[i].final
    BY <1>3, AppendedKeeps
  <2>3. Final(s) = {} => Len(s) + 1 \in 1 .. Len(q) /\ Len(s) + 1 \in Added(t, q)
                         /\ q[Len(s) + 1].final
    <3> SUFFICES ASSUME Final(s) = {}
                 PROVE  Len(s) + 1 \in 1 .. Len(q) /\ Len(s) + 1 \in Added(t, q)
                        /\ q[Len(s) + 1].final
      OBVIOUS
    <3>1. q = Append(s, FromHistory)
      BY DEF Appended
    <3>2. Len(q) = Len(s) + 1 /\ q[Len(s) + 1] = FromHistory /\ Len(s) \in Nat
      BY <1>3, <3>1, Items, AppendProperties
    <3> HIDE DEF q
    <3>3. Len(s) + 1 \in Added(t, q)
      BY <3>2 DEF Added, s
    <3> QED
      BY <3>2, <3>3, Items
  <2> HIDE DEF q
  <2>4. Len(q) <= 2
    BY <2>2, OneOfEachIsShort
  <2>5. /\ listed' \in [ThreadMessages -> Seq(Item)] /\ archived' \subseteq Turns
        /\ Part(q, listed'[t]) /\ NoneVanish
        /\ \A x \in ThreadMessages \ {t} : Part(listed[x], listed'[x])
        /\ \A n \in 1..Len(q) : n \in Added(t, q) =>
              \E j \in 1..Len(listed'[t]) : listed'[t][j] = q[n]
    BY <1>2, <1>5, <2>1, <2>2, <2>4, PutKeeps
  <2>6. OneOfEach(listed'[t])
    BY <2>2, <2>5, PartKeeps
  <2>7. (\A i \in 1 .. Len(s) : s[i].final) =>
             \A i \in 1 .. Len(listed'[t]) : listed'[t][i].final
    BY <2>2, <2>5, PartKeeps
  <2>8. Final(listed'[t]) # {} \/ t \in archived'
    <3>1. CASE Final(s) = {}
      <4>1. \E j \in 1..Len(listed'[t]) : listed'[t][j].final
        BY <2>3, <2>5, <3>1
      <4> QED
        BY <4>1 DEF Final
    <3>2. CASE Final(s) # {}
      BY <1>2, <2>5, <3>2 DEF NoneVanish, s
    <3> QED
      BY <3>1, <3>2
  <2> QED
    BY <1>8, <2>5, <2>6, <2>7, <2>8 DEF t, type, s
<1>9. CASE type = "completed"
  <2>1. PICK l \in Pruned(Flushed, {}) : PutActive(l, t, Completed(l[t]))
    BY <1>4, <1>9
  <2>2. /\ l \in [ThreadMessages -> Seq(Item)]
        /\ \A m \in ThreadMessages : Part(Flushed[m], l[m])
    BY <1>5, PrunedKeeps
  <2>3. Short(l)
    <3> SUFFICES ASSUME NEW m \in ThreadMessages
                 PROVE  Len(l[m]) <= 2
      BY <2>2 DEF Short
    <3>1. Part(Flushed[m], l[m]) /\ Len(Flushed[m]) <= 2
      BY <1>5, <2>2 DEF Short
    <3>2. \A x : Len(<<x>>) <= 2
      OBVIOUS
    <3>3. Len(<<>>) <= 2
      OBVIOUS
    <3> QED
      BY <3>1, <3>2, <3>3 DEF Part
  <2>4. OneOfEach(l[t])
    <3>1. Flushed[t] \in Seq(Item) /\ OneOfEach(Flushed[t])
      BY <1>2, FlushedKeeps
    <3> QED
      BY <1>2, <2>2, <3>1, PartKeeps
  <2>5. Completed(l[t]) = <<CompleteItem>>
    BY <1>2, <2>2, <2>4, CompletedIsOne
  <2>6. /\ <<CompleteItem>> \in Seq(Item) /\ OneOfEach(<<CompleteItem>>)
        /\ Len(<<CompleteItem>>) = 1 /\ <<CompleteItem>>[1] = CompleteItem
    BY Items DEF OneOfEach
  <2>7. 1 \in Keyed(<<CompleteItem>>)
    BY Items DEF Keyed
  <2>8. Put(l, t, <<CompleteItem>>, Keyed(<<CompleteItem>>))
    BY <2>1, <2>5 DEF PutActive
  <2> DEFINE q == <<CompleteItem>>
  <2>9. Len(q) <= 2 /\ q \in Seq(Item) /\ Put(l, t, q, Keyed(q))
    BY <2>6, <2>8
  <2>10. 1 \in 1..Len(q) /\ 1 \in Keyed(q) /\ \A i \in 1..Len(q) : <<q[i]>> = q
    BY <2>6, <2>7
  <2> HIDE DEF q
  <2>11. /\ listed' \in [ThreadMessages -> Seq(Item)] /\ archived' \subseteq Turns
         /\ Part(q, listed'[t]) /\ NoneVanish
         /\ \A x \in ThreadMessages \ {t} : Part(l[x], listed'[x])
         /\ \A n \in 1..Len(q) : n \in Keyed(q) =>
               \E j \in 1..Len(listed'[t]) : listed'[t][j] = q[n]
    BY <1>2, <2>3, <2>9, PutKeeps
  <2>12. listed'[t] = q
    <3>1. listed'[t] # <<>>
      BY <2>10, <2>11
    <3> QED
      BY <2>10, <2>11, <3>1 DEF Part
  <2>13. \A x \in ThreadMessages \ {t} : Part(Flushed[x], listed'[x])
    BY <2>2, <2>11, PartOfPart
  <2>14. OneOfEach(listed'[t])
    BY <2>6, <2>12 DEF q
  <2> QED
    BY <1>9, <2>11, <2>12, <2>13, <2>14 DEF t, type, q
<1>10. CASE type = "delta"
  <2>1. listed' = listed /\ archived' = archived
    BY <1>4, <1>10
  <2> QED
    BY <1>2, <1>3, <1>10, <2>1 DEF t, type, s, Part, NoneVanish, FeedTypeOK, Final
<1> QED
  BY <1>2, <1>6, <1>7, <1>8, <1>9, <1>10 DEF FrameTypes

(* What the buffer's timer does to the list.                               *)
LEMMA FlushListed ==
  ASSUME FeedTypeOK, Lists, FlushDeltas
  PROVE  /\ listed' \in [ThreadMessages -> Seq(Item)] /\ archived' \subseteq Turns
         /\ \A m \in ThreadMessages : Part(Flushed[m], listed'[m])
         /\ NoneVanish
<1>1. Short(Flushed) /\ Show(Flushed, {})
  BY ListsAreShort DEF FlushDeltas
<1> QED
  BY <1>1, ShowKeeps

(* What a request does to the list of its message and of the others.       *)
LEMMA SendListed ==
  ASSUME FeedTypeOK, Lists, NEW u \in Users, Send(u) \/ PostDone(u)
  PROVE  /\ listed' \in [ThreadMessages -> Seq(Item)] /\ archived' \subseteq Turns
         /\ listed'[u] \in {<<>>, <<Optimistic>>, <<FromHistory>>}
         /\ \A m \in ThreadMessages \ {u} : Part(listed[m], listed'[m])
         /\ NoneVanish
<1> DEFINE q == IF Send(u) THEN Append(listed[u], Optimistic) ELSE Confirmed(listed[u])
<1>1. u \in ThreadMessages /\ Short(listed)
  BY ListsAreShort DEF ThreadMessages
<1>2. PutLast(u, q)
  BY DEF Send, PostDone
<1>3. q \in {<<Optimistic>>, <<FromHistory>>}
  <2>1. CASE Send(u)
    <3>1. listed[u] = <<>>
      BY <2>1 DEF Send, Lists
    <3>2. Append(<<>>, Optimistic) = <<Optimistic>>
      OBVIOUS
    <3> QED
      BY <2>1, <3>1, <3>2
  <2>2. CASE ~Send(u)
    BY <2>2, ConfirmedIsOne DEF Lists
  <2> QED
    BY <2>1, <2>2
<1> HIDE DEF q
<1>4. q \in Seq(Item) /\ Len(q) = 1 /\ \A i \in 1..Len(q) : <<q[i]>> = q
  <2>1. \A x \in Item : /\ <<x>> \in Seq(Item) /\ Len(<<x>>) = 1
                        /\ \A i \in 1..Len(<<x>>) : <<<<x>>[i]>> = <<x>>
    OBVIOUS
  <2>2. PICK x \in Item : q = <<x>>
    BY <1>3, Items
  <2> QED
    BY <2>1, <2>2
<1>5. Put(listed, u, q, Added(u, q)) /\ Len(q) <= 2
  BY <1>2, <1>4 DEF PutLast
<1>6. /\ listed' \in [ThreadMessages -> Seq(Item)] /\ archived' \subseteq Turns
      /\ Part(q, listed'[u]) /\ NoneVanish
      /\ \A x \in ThreadMessages \ {u} : Part(listed[x], listed'[x])
  BY <1>1, <1>4, <1>5, PutKeeps
<1>7. listed'[u] \in {<<>>, <<Optimistic>>, <<FromHistory>>}
  BY <1>3, <1>4, <1>6 DEF Part
<1> QED
  BY <1>6, <1>7

-----------------------------------------------------------------------------
(* The steps that publish, those of the list, and the others.              *)

CoreStep(t) == Start(t) \/ Delta(t) \/ Finish(t) \/ Interrupt(t) \/ Announce(t) \/ DeliverMessage(t)

CorePhases == {"running", "idle", "stopped", "cutoff", "announced", "done"}

CoreEffect(t, type, p) ==
    /\ PublishFrame(type, t)
    /\ phase' = [phase EXCEPT ![t] = p]
    /\ UNCHANGED <<log, stored, socket, client, responses, feedBudget>>
    /\ deltas' \in [Turns -> 0 .. MaxDeltas]
    /\ \/ phase[t] \in {"persisted", "announced"} /\ p \in {"cutoff", "announced", "done"}
       \/ phase[t] \in {"new", "running", "idle"} /\ p \in {"running", "idle", "stopped"}
    /\ p \in {"announced", "done"} /\ phase[t] # "announced" => type = "completed"
    /\ type \in {"completed", "message"} => phase[t] \in {"persisted", "announced"}
    /\ type \in {"busy", "delta"} => phase[t] \in {"new", "running"}

(* What a turn does: one phase changes, one frame may go out.              *)
LEMMA CoreFacts ==
  ASSUME FeedTypeOK, NEW t \in Turns, CoreStep(t)
  PROVE  \E type \in FrameTypes, p \in CorePhases : CoreEffect(t, type, p)
<1>1. CASE Start(t)
  <2>1. CoreEffect(t, "busy", "running")
    BY <1>1 DEF Start, TurnStep, CoreEffect, FeedTypeOK
  <2> QED
    BY <2>1 DEF FrameTypes, CorePhases
<1>2. CASE Delta(t)
  <2>1. deltas' \in [Turns -> 0 .. MaxDeltas]
    BY <1>2, FeedAssumption DEF Delta, FeedTypeOK
  <2>2. CoreEffect(t, "delta", "running")
    BY <1>2, <2>1 DEF Delta, TurnStep, CoreEffect
  <2> QED
    BY <2>2 DEF FrameTypes, CorePhases
<1>3. CASE Finish(t)
  <2>1. CoreEffect(t, "idle", "idle")
    BY <1>3 DEF Finish, TurnStep, CoreEffect, FeedTypeOK
  <2> QED
    BY <2>1 DEF FrameTypes, CorePhases
<1>4. CASE Interrupt(t)
  <2>1. CoreEffect(t, "idle", "stopped") \/ CoreEffect(t, "idle", "cutoff")
          \/ CoreEffect(t, "idle", "done")
    BY <1>4 DEF Interrupt, TurnStep, CoreEffect, FeedTypeOK
  <2> QED
    BY <2>1 DEF FrameTypes, CorePhases
<1>5. CASE Announce(t)
  <2>1. CoreEffect(t, "completed", "announced")
    BY <1>5 DEF Announce, TurnStep, CoreEffect, FeedTypeOK
  <2> QED
    BY <2>1 DEF FrameTypes, CorePhases
<1>6. CASE DeliverMessage(t)
  <2>1. CoreEffect(t, "message", "done")
    BY <1>6 DEF DeliverMessage, TurnStep, CoreEffect, FeedTypeOK
  <2> QED
    BY <2>1 DEF FrameTypes, CorePhases
<1> QED
  BY <1>1, <1>2, <1>3, <1>4, <1>5, <1>6 DEF CoreStep

LEMMA FeedSteps ==
  ASSUME FeedNext
  PROVE  \/ \E t \in Turns : CoreStep(t) \/ Persist(t)
         \/ Connect \/ Subscribe \/ List \/ ReplaySend \/ Drop \/ CoreRestart
         \/ ReceiveFrame \/ FlushDeltas
         \/ \E u \in Users : Send(u) \/ Store(u) \/ PostDone(u) \/ PostFailed(u)
         \/ Fetch
         \/ \E r \in responses : Hydrate(r)
BY DEF FeedNext, CoreStep

(* Only these steps change the list.                                       *)
LEMMA ListSteps ==
  ASSUME FeedTypeOK, FeedNext
  PROVE  \/ UNCHANGED <<listed, posts>> \/ ReceiveFrame \/ FlushDeltas
         \/ \E u \in Users : Send(u) \/ Store(u) \/ PostDone(u) \/ PostFailed(u)
         \/ \E r \in responses : Hydrate(r)
<1>1. ASSUME NEW t \in Turns, CoreStep(t)
      PROVE  UNCHANGED <<listed, posts>>
  BY <1>1, CoreFacts DEF CoreEffect, client
<1>2. ASSUME NEW t \in Turns, Persist(t)
      PROVE  UNCHANGED <<listed, posts>>
  BY <1>2 DEF Persist, TurnStep, client
<1>3. Connect \/ Subscribe \/ List \/ ReplaySend \/ Drop \/ CoreRestart \/ Fetch =>
         UNCHANGED <<listed, posts>>
  BY DEF Connect, Subscribe, List, ReplaySend, Drop, CoreRestart, Lose, Fetch, client
<1> QED
  BY <1>1, <1>2, <1>3, FeedSteps

-----------------------------------------------------------------------------
(* The parts of the invariant, each kept by every step.                    *)

LEMMA FeedKeepsType ==
  ASSUME FeedTypeOK, Lists, FeedNext
  PROVE  FeedTypeOK'
<1>1. ASSUME NEW t \in Turns, CoreStep(t)
      PROVE  FeedTypeOK'
  <2>1. PICK type \in FrameTypes, p \in CorePhases : CoreEffect(t, type, p)
    BY <1>1, CoreFacts
  <2>2. wire' \in Seq(FeedFrame)
    BY <2>1, PublishFacts DEF CoreEffect
  <2> QED
    BY <2>1, <2>2 DEF CoreEffect, CorePhases, FeedTypeOK, socket, client, feedBudget
<1>2. ASSUME NEW t \in Turns, Persist(t)
      PROVE  FeedTypeOK'
  <2>1. log' \in Seq(Turns)
    BY <1>2, PersistFacts
  <2> QED
    BY <1>2, <2>1 DEF FeedTypeOK, Persist, TurnStep, socket, client, feedBudget
<1>3. CASE Connect \/ Subscribe
  BY <1>3 DEF Connect, Subscribe, FeedTypeOK, server, client, feedBudget
<1>4. CASE List
  BY <1>4 DEF List, DueEvents, FeedTypeOK, server, client, feedBudget
<1>5. CASE ReplaySend
  <2>1. replay' \in Seq(Turns) /\ replay[1] \in Turns /\ PublishFrame("completed", replay[1])
    BY <1>5, ReplayFacts
  <2>2. wire' \in Seq(FeedFrame)
    BY <2>1, PublishFacts DEF FrameTypes
  <2> QED
    BY <1>5, <2>1, <2>2 DEF ReplaySend, FeedTypeOK, server, client, feedBudget
<1>6. CASE Drop \/ CoreRestart
  <2>1. Lose /\ UNCHANGED <<deltas, log, stored>>
    BY <1>6 DEF Drop, CoreRestart, server
  <2>2. phase' \in [Turns -> {"new", "running", "idle", "stopped", "persisted",
                             "announced", "done", "cutoff"}]
    BY <1>6 DEF Drop, CoreRestart, server, FeedTypeOK
  <2>3. drops' \in 0 .. MaxDrops
    BY <2>1, FeedAssumption DEF Lose, FeedTypeOK
  <2>4. <<>> \in Seq(Turns) /\ <<>> \in Seq(FeedFrame)
    OBVIOUS
  <2> QED
    BY <2>1, <2>2, <2>3, <2>4 DEF Lose, FeedTypeOK, client
<1>7. CASE ReceiveFrame
  <2>1. /\ Head(wire) = wire[1] /\ wire[1] \in FeedFrame /\ wire' \in Seq(FeedFrame)
    BY <1>7, ReceiveFacts
  <2>2. wire[1].turn \in Turns
    BY <2>1 DEF FeedFrame
  <2>3. listed' \in [ThreadMessages -> Seq(Item)] /\ archived' \subseteq Turns
    BY <1>7, ReceiveListed
  <2>4. buffered' \subseteq Turns /\ overwritten' \subseteq ThreadMessages
    BY <1>7, <2>1, <2>2 DEF ReceiveFrame, FeedTypeOK
  <2> QED
    BY <1>7, <2>1, <2>3, <2>4 DEF ReceiveFrame, FeedTypeOK, server, socket, feedBudget
<1>8. CASE FlushDeltas
  <2>1. listed' \in [ThreadMessages -> Seq(Item)] /\ archived' \subseteq Turns
    BY <1>8, FlushListed
  <2> QED
    BY <1>8, <2>1 DEF FlushDeltas, FeedTypeOK, server, socket, feedBudget
<1>9. ASSUME NEW u \in Users, Send(u) \/ PostDone(u)
      PROVE  FeedTypeOK'
  <2>1. listed' \in [ThreadMessages -> Seq(Item)] /\ archived' \subseteq Turns
    BY <1>9, SendListed
  <2>2. posts' \in [Users -> {"new", "sent", "stored", "failed", "done"}]
        /\ overwritten' \subseteq overwritten
    BY <1>9 DEF Send, PostDone, FeedTypeOK
  <2>3. UNCHANGED <<server, socket, wire, buffered, responses, feedBudget>>
    BY <1>9 DEF Send, PostDone
  <2> QED
    BY <2>1, <2>2, <2>3 DEF FeedTypeOK, server, socket, feedBudget
<1>10. ASSUME NEW u \in Users, Store(u) \/ PostFailed(u)
       PROVE  FeedTypeOK'
  BY <1>10 DEF Store, PostFailed, FeedTypeOK, server, socket, feedBudget
<1>11. CASE Fetch
  <2>1. Logged \subseteq Turns
    BY DEF Logged, FeedTypeOK
  <2>2. responses' \subseteq SUBSET ThreadMessages
    BY <1>11, <2>1 DEF Fetch, FeedTypeOK, ThreadMessages
  <2>3. fetches' \in 0 .. MaxFetches
    BY <1>11, FeedAssumption DEF Fetch, FeedTypeOK
  <2> QED
    BY <1>11, <2>2, <2>3 DEF Fetch, FeedTypeOK, server, socket, client
<1>12. ASSUME NEW r \in responses, Hydrate(r)
       PROVE  FeedTypeOK'
  <2>1. Logged \subseteq Turns
    BY DEF Logged, FeedTypeOK
  <2>2. overwritten' \subseteq ThreadMessages
    BY <1>12, <2>1 DEF Hydrate, FeedTypeOK, ThreadMessages
  <2>3. <<FromHistory>> \in Seq(Item) /\ <<>> \in Seq(Item)
    BY Items
  <2>4. listed' \in [ThreadMessages -> Seq(Item)]
    BY <1>12, <2>3 DEF Hydrate
  <2> QED
    BY <1>12, <2>2, <2>4 DEF Hydrate, FeedTypeOK, server, socket, feedBudget
<1> QED
  BY <1>1, <1>2, <1>3, <1>4, <1>5, <1>6, <1>7, <1>8, <1>9, <1>10, <1>11, <1>12, FeedSteps

(* A step that takes items off the lists keeps them in form.               *)
LEMMA PartsOfLists ==
  ASSUME Lists, \A x \in Turns : OneOfEach(listed'[x]),
         \A u \in Users : Part(listed[u], listed'[u]),
         \A u \in Users : posts'[u] = "new" => posts[u] = "new"
  PROVE  Lists'
<1>1. \A u \in Users : \A i \in 1..Len(listed[u]) : <<listed[u][i]>> = listed[u]
  <2>1. \A i \in 1..Len(<<>>) : FALSE
    OBVIOUS
  <2>2. \A x : \A i \in 1..Len(<<x>>) : <<<<x>>[i]>> = <<x>>
    OBVIOUS
  <2> QED
    BY <2>1, <2>2 DEF Lists
<1>2. \A u \in Users : listed'[u] = listed[u] \/ listed'[u] = <<>>
  BY <1>1 DEF Part
<1> QED
  BY <1>2 DEF Lists, OneOfEach

LEMMA FeedKeepsLists ==
  ASSUME FeedTypeOK, Lists, OnlyLogged, FeedNext
  PROVE  Lists'
<1>1. CASE UNCHANGED <<listed, posts>>
  BY <1>1 DEF Lists, OneOfEach
<1>2. CASE ReceiveFrame
  <2> DEFINE t == wire[1].turn
  <2>1. t \in Turns /\ t \in ThreadMessages
    BY <1>2, ReceiveFacts DEF FeedFrame, ThreadMessages
  <2>2. /\ OneOfEach(listed'[t])
        /\ \A m \in ThreadMessages \ {t} :
              Part(Flushed[m], listed'[m]) \/ Part(listed[m], listed'[m])
    BY <1>2, ReceiveListed
  <2> HIDE DEF t
  <2>3. \A x \in Turns : OneOfEach(listed'[x])
    <3>1. \A x \in Turns : listed[x] \in Seq(Item) /\ OneOfEach(listed[x])
      BY DEF FeedTypeOK, Lists, ThreadMessages
    <3>2. \A x \in Turns : Flushed[x] \in Seq(Item) /\ OneOfEach(Flushed[x])
      BY FlushedKeeps DEF ThreadMessages
    <3>3. \A x \in Turns \ {t} :
             Part(Flushed[x], listed'[x]) \/ Part(listed[x], listed'[x])
      BY <2>2 DEF ThreadMessages
    <3>4. \A x \in Turns \ {t} : OneOfEach(listed'[x])
      BY <3>1, <3>2, <3>3, PartKeeps
    <3> QED
      BY <2>2, <3>4
  <2>4. \A u \in Users : Part(listed[u], listed'[u])
    BY <2>1, <2>2, FlushedKeeps, FeedAssumption DEF ThreadMessages
  <2>5. posts' = posts
    BY <1>2 DEF ReceiveFrame
  <2> QED
    BY <2>3, <2>4, <2>5, PartsOfLists
<1>3. CASE FlushDeltas
  <2>1. \A m \in ThreadMessages : Part(Flushed[m], listed'[m])
    BY <1>3, FlushListed
  <2>2. \A x \in Turns : OneOfEach(listed'[x])
    BY <2>1, PartKeeps, FlushedKeeps DEF ThreadMessages
  <2>3. \A u \in Users : Part(listed[u], listed'[u])
    BY <2>1, FlushedKeeps DEF ThreadMessages
  <2>4. posts' = posts
    BY <1>3 DEF FlushDeltas
  <2> QED
    BY <2>2, <2>3, <2>4, PartsOfLists
<1>4. ASSUME NEW u \in Users, Send(u) \/ PostDone(u)
      PROVE  Lists'
  <2>1. /\ listed'[u] \in {<<>>, <<Optimistic>>, <<FromHistory>>}
        /\ \A m \in ThreadMessages \ {u} : Part(listed[m], listed'[m])
    BY <1>4, SendListed
  <2>2. u \in ThreadMessages /\ u \notin Turns
    BY FeedAssumption DEF ThreadMessages
  <2>3. \A x \in Turns : OneOfEach(listed'[x])
    BY <2>1, <2>2, PartKeeps DEF FeedTypeOK, Lists, ThreadMessages
  <2>4. posts'[u] # "new" /\ \A v \in Users \ {u} : posts'[v] = posts[v]
    BY <1>4 DEF Send, PostDone, FeedTypeOK
  <2>5. \A v \in Users \ {u} : Part(listed[v], listed'[v])
    BY <2>1 DEF ThreadMessages
  <2>6. \A v \in Users \ {u} : listed'[v] \in {listed[v], <<>>}
    <3>1. \A i \in 1..Len(<<>>) : FALSE
      OBVIOUS
    <3>2. \A x : \A i \in 1..Len(<<x>>) : <<<<x>>[i]>> = <<x>>
      OBVIOUS
    <3> QED
      BY <2>5, <3>1, <3>2 DEF Part, Lists
  <2> QED
    BY <2>1, <2>3, <2>4, <2>6 DEF Lists, OneOfEach
<1>5. ASSUME NEW u \in Users, Store(u) \/ PostFailed(u)
      PROVE  Lists'
  <2>1. listed' = listed /\ \A v \in Users : posts'[v] = "new" => posts[v] = "new"
    BY <1>5 DEF Store, PostFailed, FeedTypeOK
  <2> QED
    BY <2>1 DEF Lists, OneOfEach
<1>6. ASSUME NEW r \in responses, Hydrate(r)
      PROVE  Lists'
  <2>1. \A m \in ThreadMessages : listed'[m] = IF m \in r THEN <<FromHistory>> ELSE <<>>
    BY <1>6 DEF Hydrate
  <2>2. OneOfEach(<<FromHistory>>) /\ OneOfEach(<<>>)
    BY Items DEF OneOfEach
  <2>3. \A u \in Users : posts[u] = "new" => u \notin r
    <3>1. Logged \subseteq Turns
      BY DEF FeedTypeOK, Logged
    <3>2. r \subseteq Logged \cup stored /\ \A u \in stored : posts[u] # "new"
      BY DEF OnlyLogged
    <3> QED
      BY <3>1, <3>2, FeedAssumption
  <2>4. posts' = posts
    BY <1>6 DEF Hydrate
  <2>5. \A t \in Turns : OneOfEach(listed'[t])
    BY <2>1, <2>2 DEF ThreadMessages
  <2> QED
    BY <2>1, <2>3, <2>4, <2>5 DEF Lists, OneOfEach, ThreadMessages
<1> QED
  BY <1>1, <1>2, <1>3, <1>4, <1>5, <1>6, ListSteps

(* What is shown, sent and fetched stays within the log and the rows.      *)
LEMMA FeedKeepsOnlyLogged ==
  ASSUME FeedTypeOK, Lists, OnlyLogged, FeedNext
  PROVE  OnlyLogged'
<1>1. Logged \subseteq Turns
  BY DEF Logged, FeedTypeOK
<1>2. ASSUME NEW t \in Turns, CoreStep(t)
      PROVE  OnlyLogged'
  <2>1. PICK type \in FrameTypes, p \in CorePhases : CoreEffect(t, type, p)
    BY <1>2, CoreFacts
  <2>2. Logged' = Logged /\ UNCHANGED <<stored, replay, listed, posts, responses>>
    BY <2>1 DEF CoreEffect, Logged, socket, client
  <2>3. phase' = [phase EXCEPT ![t] = p] /\ phase \in [Turns -> {"new", "running", "idle",
                       "stopped", "persisted", "announced", "done", "cutoff"}]
    BY <2>1 DEF CoreEffect, FeedTypeOK
  <2>4. phase[t] \in {"persisted", "announced", "done", "cutoff"} <=>
           p \in {"persisted", "announced", "done", "cutoff"}
    BY <2>1 DEF CoreEffect
  <2>5. \A x \in Turns : x \in Logged' <=> phase'[x] \in {"persisted", "announced", "done", "cutoff"}
    BY <2>2, <2>3, <2>4 DEF OnlyLogged
  <2>6. type \in {"completed", "message"} => t \in Logged
    BY <2>1 DEF CoreEffect, OnlyLogged
  <2>7. \A i \in 1 .. Len(wire') :
           wire'[i].type \in {"completed", "message"} => wire'[i].turn \in Logged
    BY <2>1, <2>6, PublishFacts DEF CoreEffect, OnlyLogged
  <2> QED
    BY <2>2, <2>5, <2>7 DEF OnlyLogged, Final
<1>3. ASSUME NEW t \in Turns, Persist(t)
      PROVE  OnlyLogged'
  <2>1. Logged' = Logged \cup {t} /\ phase' = [phase EXCEPT ![t] = "persisted"]
        /\ UNCHANGED <<stored, replay, wire, listed, posts, responses>>
    BY <1>3, PersistFacts DEF Persist, TurnStep, socket, client
  <2>2. \A x \in Turns : x \in Logged' <=> phase'[x] \in {"persisted", "announced", "done", "cutoff"}
    BY <2>1 DEF OnlyLogged, FeedTypeOK
  <2> QED
    BY <2>1, <2>2 DEF OnlyLogged, Final
<1>4. CASE Connect \/ Subscribe \/ FlushDeltas
  <2>1. Logged' = Logged /\ UNCHANGED <<phase, stored, replay, wire, posts, responses>>
    BY <1>4 DEF Connect, Subscribe, FlushDeltas, server, socket, client, Logged
  <2>2. \A t \in Turns : Final(listed'[t]) # {} => Final(listed[t]) # {}
    <3>1. CASE FlushDeltas
      BY <3>1, FlushListed, FlushedKeeps, PartKeeps DEF ThreadMessages
    <3>2. CASE Connect \/ Subscribe
      BY <3>2 DEF Connect, Subscribe, client, Final
    <3> QED
      BY <1>4, <3>1, <3>2
  <2> QED
    BY <2>1, <2>2 DEF OnlyLogged, Final
<1>5. CASE List
  <2>1. Logged' = Logged /\ UNCHANGED <<phase, stored, listed, wire, posts, responses>>
    BY <1>5 DEF List, server, client, Logged
  <2>2. \A i \in 1 .. Len(replay') : replay'[i] \in Logged
    BY <1>5 DEF List, DueEvents, Logged
  <2> QED
    BY <2>1, <2>2 DEF OnlyLogged, Final
<1>6. CASE ReplaySend
  <2>1. Logged' = Logged /\ UNCHANGED <<phase, stored, listed, posts, responses>>
    BY <1>6 DEF ReplaySend, server, client, Logged
  <2>2. \A i \in 1 .. Len(replay') : replay'[i] \in Logged
    BY <1>6, ReplayFacts DEF OnlyLogged
  <2>3. replay[1] \in Logged /\ replay[1] \in Turns /\ PublishFrame("completed", replay[1])
    BY <1>6, ReplayFacts DEF OnlyLogged
  <2>4. \A i \in 1 .. Len(wire') :
           wire'[i].type \in {"completed", "message"} => wire'[i].turn \in Logged
    BY <2>3, PublishFacts DEF FrameTypes, OnlyLogged
  <2> QED
    BY <2>1, <2>2, <2>4 DEF OnlyLogged, Final
<1>7. CASE Drop \/ CoreRestart
  <2>1. Logged' = Logged /\ replay' = <<>> /\ wire' = <<>>
        /\ UNCHANGED <<stored, listed, posts, responses>>
    BY <1>7 DEF Drop, CoreRestart, Lose, server, client, Logged
  <2>2. \A t \in Turns : phase'[t] \in {"persisted", "announced", "done", "cutoff"} <=>
                         phase[t] \in {"persisted", "announced", "done", "cutoff"}
    BY <1>7 DEF Drop, CoreRestart, server, FeedTypeOK
  <2>3. \A i \in 1 .. Len(<<>>) : FALSE
    OBVIOUS
  <2> QED
    BY <2>1, <2>2, <2>3 DEF OnlyLogged, Final
<1>8. CASE ReceiveFrame
  <2> DEFINE t == wire[1].turn
             type == wire[1].type
  <2>1. Logged' = Logged /\ UNCHANGED <<phase, stored, replay, posts, responses>>
    BY <1>8 DEF ReceiveFrame, server, socket, Logged
  <2>2. 1 \in 1 .. Len(wire) /\ wire[1] \in FeedFrame
    BY <1>8, ReceiveFacts
  <2>3. type \in {"completed", "message"} => t \in Logged
    BY <2>2 DEF OnlyLogged
  <2>4. t \in Turns /\ type \in FrameTypes
    BY <2>2 DEF FeedFrame, FrameTypes
  <2>5. type \in {"busy", "idle", "delta"} => (Final(listed'[t]) # {} => Final(listed[t]) # {})
    BY <1>8, ReceiveListed
  <2>6. \A m \in ThreadMessages \ {t} :
           Part(Flushed[m], listed'[m]) \/ Part(listed[m], listed'[m])
    BY <1>8, ReceiveListed
  <2> HIDE DEF t, type
  <2>7. Final(listed'[t]) # {} => t \in Logged
    BY <2>3, <2>4, <2>5 DEF OnlyLogged, FrameTypes
  <2>8. \A x \in Turns : Final(listed'[x]) # {} => x \in Logged
    <3>1. \A x \in Turns \ {t} : Final(listed'[x]) # {} => Final(listed[x]) # {}
      BY <2>6, FlushedKeeps, PartKeeps DEF FeedTypeOK, ThreadMessages
    <3> QED
      BY <2>7, <3>1 DEF OnlyLogged
  <2>9. \A i \in 1 .. Len(wire') :
           wire'[i].type \in {"completed", "message"} => wire'[i].turn \in Logged
    BY <1>8, ReceiveFacts DEF OnlyLogged
  <2> QED
    BY <2>1, <2>8, <2>9 DEF OnlyLogged, Final
<1>9. ASSUME NEW u \in Users, Send(u) \/ Store(u) \/ PostDone(u) \/ PostFailed(u)
      PROVE  OnlyLogged'
  <2>1. Logged' = Logged /\ UNCHANGED <<phase, replay, wire, responses>>
    BY <1>9 DEF Send, Store, PostDone, PostFailed, server, socket, Logged
  <2>2. \A t \in Turns : Final(listed'[t]) # {} => Final(listed[t]) # {}
    <3>1. CASE Send(u) \/ PostDone(u)
      <4>1. \A t \in Turns : Part(listed[t], listed'[t])
        BY <3>1, SendListed, FeedAssumption DEF ThreadMessages
      <4> QED
        BY <4>1, PartKeeps DEF FeedTypeOK, ThreadMessages
    <3>2. CASE Store(u) \/ PostFailed(u)
      BY <3>2 DEF Store, PostFailed, Final
    <3> QED
      BY <1>9, <3>1, <3>2
  <2>3. stored \subseteq stored' /\ \A v \in stored' : posts'[v] # "new"
    BY <1>9 DEF Send, Store, PostDone, PostFailed, server, OnlyLogged, FeedTypeOK
  <2> QED
    BY <2>1, <2>2, <2>3 DEF OnlyLogged, Final
<1>10. CASE Fetch
  <2>1. Logged' = Logged /\ UNCHANGED <<phase, stored, replay, wire, listed, posts>>
    BY <1>10 DEF Fetch, server, socket, client, Logged
  <2>2. responses' = responses \cup {Logged \cup stored}
    BY <1>10 DEF Fetch
  <2> QED
    BY <2>1, <2>2 DEF OnlyLogged, Final
<1>11. ASSUME NEW r \in responses, Hydrate(r)
       PROVE  OnlyLogged'
  <2>1. Logged' = Logged /\ UNCHANGED <<phase, stored, replay, wire, posts>>
        /\ responses' \subseteq responses
    BY <1>11 DEF Hydrate, server, socket, Logged
  <2>2. \A t \in Turns : t \in r => t \in Logged
    BY FeedAssumption DEF OnlyLogged, FeedTypeOK
  <2>3. Final(<<>>) = {}
    BY DEF Final
  <2>4. \A t \in Turns : Final(listed'[t]) # {} => t \in Logged
    BY <1>11, <2>2, <2>3 DEF Hydrate, ThreadMessages
  <2> QED
    BY <2>1, <2>4 DEF OnlyLogged, Final
<1> QED
  BY <1>2, <1>3, <1>4, <1>5, <1>6, <1>7, <1>8, <1>9, <1>10, <1>11, FeedSteps

LEMMA FeedKeepsOrder ==
  ASSUME FeedTypeOK, OnlyLogged, InOrder, FeedNext
  PROVE  InOrder'
<1>1. ASSUME NEW t \in Turns, NEW type \in FrameTypes, PublishFrame(type, t),
             type \in {"busy", "delta"} => t \notin Logged
      PROVE  \A i, j \in 1 .. Len(wire') :
                i < j /\ wire'[i].type = "completed" /\ wire'[j].turn = wire'[i].turn =>
                   wire'[j].type \notin {"busy", "delta"}
  <2> SUFFICES ASSUME NEW i \in 1 .. Len(wire'), NEW j \in 1 .. Len(wire'), i < j,
                      wire'[i].type = "completed", wire'[j].turn = wire'[i].turn
               PROVE  wire'[j].type \notin {"busy", "delta"}
    OBVIOUS
  <2>1. Len(wire) \in Nat
    BY DEF FeedTypeOK
  <2>2. \A k \in 1 .. Len(wire') :
           \/ k \in 1 .. Len(wire) /\ wire'[k] = wire[k]
           \/ k = Len(wire) + 1 /\ wire'[k].type = type /\ wire'[k].turn = t
    BY <1>1, PublishFacts
  <2>3. i \in 1 .. Len(wire) /\ wire'[i] = wire[i]
    BY <2>1, <2>2
  <2>4. wire[i].turn \in Logged
    BY <2>3 DEF OnlyLogged
  <2>5. CASE j \in 1 .. Len(wire) /\ wire'[j] = wire[j]
    BY <2>3, <2>5 DEF InOrder
  <2>6. CASE wire'[j].type = type /\ wire'[j].turn = t
    BY <1>1, <2>3, <2>4, <2>6
  <2> QED
    BY <2>2, <2>5, <2>6
<1>2. ASSUME NEW t \in Turns, CoreStep(t)
      PROVE  InOrder'
  <2>1. PICK type \in FrameTypes, p \in CorePhases : CoreEffect(t, type, p)
    BY <1>2, CoreFacts
  <2>2. PublishFrame(type, t) /\ UNCHANGED <<conn, replay>>
    BY <2>1 DEF CoreEffect, socket
  <2>3. type \in {"busy", "delta"} => t \notin Logged
    BY <2>1 DEF CoreEffect, OnlyLogged
  <2>4. conn \notin {"acked", "live"} => wire' = wire
    BY <2>2, PublishFacts
  <2> QED
    BY <1>1, <2>2, <2>3, <2>4 DEF InOrder
<1>3. CASE ReplaySend
  <2>1. replay[1] \in Turns /\ PublishFrame("completed", replay[1]) /\ conn = "live" /\ conn' = conn
    BY <1>3, ReplayFacts DEF ReplaySend
  <2>2. "completed" \in FrameTypes
    BY DEF FrameTypes
  <2> QED
    BY <1>1, <2>1, <2>2 DEF InOrder
<1>4. CASE ReceiveFrame
  <2>1. \A i \in 1 .. Len(wire') : i + 1 \in 1 .. Len(wire) /\ wire'[i] = wire[i + 1]
    BY <1>4, ReceiveFacts
  <2>2. \A i, j \in 1 .. Len(wire') : i < j => i + 1 < j + 1
    OBVIOUS
  <2>3. UNCHANGED <<conn, replay>>
    BY <1>4 DEF ReceiveFrame, socket
  <2>4. conn \notin {"acked", "live"} => FALSE
    <3>1. wire # <<>>
      BY <1>4 DEF ReceiveFrame
    <3> QED
      BY <3>1 DEF InOrder
  <2> QED
    BY <2>1, <2>2, <2>3, <2>4 DEF InOrder
<1>5. CASE Drop \/ CoreRestart
  <2>1. conn' = "down" /\ replay' = <<>> /\ wire' = <<>>
    BY <1>5 DEF Drop, CoreRestart, Lose
  <2> QED
    BY <2>1 DEF InOrder
<1>6. CASE Connect \/ Subscribe \/ List
  BY <1>6 DEF Connect, Subscribe, List, InOrder
<1>7. ASSUME UNCHANGED <<conn, replay, wire>>
      PROVE  InOrder'
  BY <1>7 DEF InOrder
<1>8. \A t \in Turns : Persist(t) => UNCHANGED <<conn, replay, wire>>
  BY DEF Persist, TurnStep, socket
<1>9. /\ FlushDeltas \/ Fetch => UNCHANGED <<conn, replay, wire>>
      /\ \A u \in Users : Send(u) \/ Store(u) \/ PostDone(u) \/ PostFailed(u) =>
            UNCHANGED <<conn, replay, wire>>
      /\ \A r \in responses : Hydrate(r) => UNCHANGED <<conn, replay, wire>>
  BY DEF FlushDeltas, Fetch, Send, Store, PostDone, PostFailed, Hydrate, socket
<1> QED
  BY <1>2, <1>3, <1>4, <1>5, <1>6, <1>7, <1>8, <1>9, FeedSteps

(* A step that publishes takes no reply from the client.                   *)
LEMMA PublishKeepsCaught ==
  ASSUME FeedTypeOK, NEW t \in Turns, NEW type \in FrameTypes, PublishFrame(type, t),
         UNCHANGED <<listed, buffered, overwritten, archived>>,
         NEW x \in Turns, type \in {"busy", "delta"} => x # t
  PROVE  Caught(x) => Caught(x)'
<1> SUFFICES ASSUME Caught(x)
             PROVE  Caught(x)'
  OBVIOUS
<1>1. \A i \in 1 .. Len(wire') : wire'[i].turn = x => wire'[i].type \notin {"busy", "delta"}
  BY PublishFacts DEF Caught
<1> QED
  BY <1>1 DEF Caught, Final

(* What is on the wire stays on it.                                        *)
LEMMA PublishKeepsComing ==
  ASSUME FeedTypeOK, NEW t \in Turns, NEW type \in FrameTypes, PublishFrame(type, t),
         NEW x \in Turns, NEW i \in 1 .. Len(wire),
         wire[i].type = "completed", wire[i].turn = x
  PROVE  Coming(x)'
<1>1. i \in 1 .. Len(wire') /\ wire'[i] = wire[i]
  BY PublishFacts
<1> QED
  BY <1>1 DEF Coming

LEMMA FeedKeepsCaughtUp ==
  ASSUME FeedTypeOK, Lists, OnlyLogged, InOrder, CaughtUp, FeedNext
  PROVE  CaughtUp'
<1> DEFINE Reached(x) == phase[x] \in {"announced", "done"}
<1>1. ASSUME NEW t \in Turns, CoreStep(t)
      PROVE  CaughtUp'
  <2>1. PICK type \in FrameTypes, p \in CorePhases : CoreEffect(t, type, p)
    BY <1>1, CoreFacts
  <2>2. PublishFrame(type, t) /\ UNCHANGED <<conn, replay, listed, buffered, overwritten, archived>>
        /\ phase' = [phase EXCEPT ![t] = p]
    BY <2>1 DEF CoreEffect, socket, client
  <2> SUFFICES ASSUME conn = "live", NEW x \in Turns, Reached(x)'
               PROVE  Coming(x)' \/ Caught(x)'
    BY <2>2 DEF CaughtUp
  <2>3. CASE Reached(x)
    <3>1. type \in {"busy", "delta"} => x # t
      BY <2>1, <2>3 DEF CoreEffect
    <3>2. CASE Caught(x)
      BY <2>2, <3>1, <3>2, PublishKeepsCaught
    <3>3. CASE \E i \in 1 .. Len(replay) : replay[i] = x
      BY <2>2, <3>3 DEF Coming
    <3>4. CASE \E i \in 1 .. Len(wire) : wire[i].type = "completed" /\ wire[i].turn = x
      BY <2>2, <3>4, PublishKeepsComing
    <3> QED
      BY <2>3, <3>2, <3>3, <3>4 DEF CaughtUp, Coming
  <2>4. CASE ~Reached(x)
    <3>1. x = t /\ p \in {"announced", "done"} /\ phase[t] # "announced"
      BY <2>2, <2>4 DEF FeedTypeOK
    <3>2. type = "completed"
      BY <2>1, <3>1 DEF CoreEffect
    <3>3. Len(wire) + 1 \in 1 .. Len(wire') /\ wire'[Len(wire) + 1].type = type
          /\ wire'[Len(wire) + 1].turn = t
      BY <2>2, PublishFacts
    <3> QED
      BY <3>1, <3>2, <3>3 DEF Coming
  <2> QED
    BY <2>3, <2>4
<1>2. ASSUME UNCHANGED <<conn, replay, wire, listed, buffered, overwritten, archived>>,
             \A x \in Turns : Reached(x)' => Reached(x)
      PROVE  CaughtUp'
  BY <1>2 DEF CaughtUp, Coming, Caught, Final
<1>3. ASSUME NEW t \in Turns, Persist(t)
      PROVE  CaughtUp'
  <2>1. UNCHANGED <<conn, replay, wire, listed, buffered, overwritten, archived>>
    BY <1>3 DEF Persist, TurnStep, socket, client
  <2>2. \A x \in Turns : Reached(x)' => Reached(x)
    BY <1>3 DEF Persist, TurnStep, FeedTypeOK
  <2> QED
    BY <1>2, <2>1, <2>2
<1>4. CASE Connect \/ Subscribe \/ Drop \/ CoreRestart
  <2>1. conn' # "live"
    BY <1>4 DEF Connect, Subscribe, Drop, CoreRestart, Lose
  <2> QED
    BY <2>1 DEF CaughtUp
<1>5. CASE List
  <2>1. replay' = log /\ UNCHANGED phase
    BY <1>5 DEF List, DueEvents, server
  <2>2. \A x \in Turns : Reached(x) => \E i \in 1 .. Len(log) : log[i] = x
    BY DEF OnlyLogged, Logged
  <2> QED
    BY <2>1, <2>2 DEF CaughtUp, Coming
<1>6. CASE ReplaySend
  <2>1. replay[1] \in Turns /\ PublishFrame("completed", replay[1])
        /\ \A i \in 2 .. Len(replay) : i - 1 \in 1 .. Len(replay') /\ replay'[i - 1] = replay[i]
    BY <1>6, ReplayFacts
  <2>2. conn = "live" /\ UNCHANGED <<phase, conn, listed, buffered, overwritten, archived>>
    BY <1>6 DEF ReplaySend, server, client
  <2>3. "completed" \in FrameTypes
    BY DEF FrameTypes
  <2> SUFFICES ASSUME NEW x \in Turns, Reached(x)
               PROVE  Coming(x)' \/ Caught(x)'
    BY <2>2 DEF CaughtUp
  <2>4. CASE Caught(x)
    BY <2>1, <2>2, <2>3, <2>4, PublishKeepsCaught
  <2>5. CASE \E i \in 1 .. Len(replay) : replay[i] = x
    <3>1. PICK i \in 1 .. Len(replay) : replay[i] = x
      BY <2>5
    <3>2. CASE i = 1
      <4>1. Len(wire) + 1 \in 1 .. Len(wire') /\ wire'[Len(wire) + 1].type = "completed"
            /\ wire'[Len(wire) + 1].turn = replay[1]
        BY <2>1, <2>2, <2>3, PublishFacts
      <4> QED
        BY <3>1, <3>2, <4>1 DEF Coming
    <3>3. CASE i # 1
      <4>1. i \in 2 .. Len(replay)
        BY <3>1, <3>3
      <4> QED
        BY <2>1, <3>1, <4>1 DEF Coming
    <3> QED
      BY <3>2, <3>3
  <2>6. CASE \E i \in 1 .. Len(wire) : wire[i].type = "completed" /\ wire[i].turn = x
    BY <2>1, <2>3, <2>6, PublishKeepsComing
  <2> QED
    BY <2>2, <2>4, <2>5, <2>6 DEF CaughtUp, Coming
<1>7. CASE ReceiveFrame
  <2> DEFINE t == wire[1].turn
             type == wire[1].type
  <2>1. UNCHANGED <<phase, conn, replay>>
    BY <1>7 DEF ReceiveFrame, server, socket
  <2>2. wire[1] \in FeedFrame /\ 1 \in 1 .. Len(wire) /\ Head(wire) = wire[1]
    BY <1>7, ReceiveFacts
  <2>3. /\ \A i \in 1 .. Len(wire') : i + 1 \in 1 .. Len(wire) /\ wire'[i] = wire[i + 1]
        /\ \A i \in 2 .. Len(wire) : i - 1 \in 1 .. Len(wire') /\ wire'[i - 1] = wire[i]
    BY <1>7, ReceiveFacts
  <2>4. t \in Turns /\ type \in FrameTypes
    BY <2>2 DEF FeedFrame, FrameTypes
  <2>5. /\ buffered' = CASE type = "delta" -> buffered \cup {t}
                         [] type = "completed" -> {}
                         [] OTHER -> buffered
        /\ overwritten' = IF type \in {"completed", "message"}
                          THEN overwritten \ {t} ELSE overwritten
    BY <1>7, <2>2 DEF ReceiveFrame
  <2>6. /\ \A m \in ThreadMessages \ {t} :
              \/ Part(listed[m], listed'[m])
              \/ type = "completed" /\ Part(Flushed[m], listed'[m])
        /\ type \in {"idle", "message"} =>
              ((\A i \in 1 .. Len(listed[t]) : listed[t][i].final) =>
                   \A i \in 1 .. Len(listed'[t]) : listed'[t][i].final)
        /\ type = "message" => Final(listed'[t]) # {} \/ t \in archived'
        /\ type = "completed" => listed'[t] = <<CompleteItem>>
        /\ NoneVanish
    BY <1>7, ReceiveListed
  <2> SUFFICES ASSUME conn = "live", NEW x \in Turns, Reached(x)
               PROVE  Coming(x)' \/ Caught(x)'
    BY <2>1 DEF CaughtUp
  <2>7. CASE \E i \in 1 .. Len(replay) : replay[i] = x
    BY <2>1, <2>7 DEF Coming
  <2>8. CASE \E i \in 2 .. Len(wire) : wire[i].type = "completed" /\ wire[i].turn = x
    BY <2>3, <2>8 DEF Coming
  <2>9. CASE type = "completed" /\ t = x
    <3>1. \A i \in 1 .. Len(wire') : wire'[i].turn = x => wire'[i].type \notin {"busy", "delta"}
      <4> SUFFICES ASSUME NEW i \in 1 .. Len(wire'), wire'[i].turn = x
                   PROVE  wire'[i].type \notin {"busy", "delta"}
        OBVIOUS
      <4>1. i + 1 \in 1 .. Len(wire) /\ wire'[i] = wire[i + 1] /\ 1 < i + 1
        BY <2>3
      <4> QED
        BY <2>2, <2>9, <4>1 DEF InOrder
    <3>2. x \notin buffered' /\ listed'[x] = <<CompleteItem>>
      BY <2>5, <2>6, <2>9
    <3>3. Final(<<CompleteItem>>) = {1} /\ \A i \in 1 .. Len(<<CompleteItem>>) : <<CompleteItem>>[i].final
      BY Items DEF Final
    <3> QED
      BY <3>1, <3>2, <3>3 DEF Caught, Final
  <2>10. CASE Caught(x)
    <3>1. \A i \in 1 .. Len(wire') : wire'[i].turn = x => wire'[i].type \notin {"busy", "delta"}
      BY <2>3, <2>10 DEF Caught
    <3>2. t = x => type \in {"idle", "message", "completed"}
      BY <2>2, <2>4, <2>10 DEF Caught, FrameTypes
    <3> HIDE DEF t, type
    <3>3. x \notin buffered'
      BY <2>5, <2>10, <3>2 DEF Caught
    <3>4. CASE t # x
      <4>1. Part(listed[x], listed'[x])
        BY <2>6, <2>10, <3>4, FlushedKeeps DEF Caught, ThreadMessages
      <4>2. \A i \in 1 .. Len(listed'[x]) : listed'[x][i].final
        BY <2>10, <4>1, PartKeeps DEF Caught, FeedTypeOK, ThreadMessages
      <4>3. x \in overwritten => x \in overwritten'
        BY <2>5, <3>4
      <4> QED
        BY <2>6, <2>10, <3>1, <3>3, <4>2, <4>3 DEF Caught, NoneVanish, Final
    <3>5. CASE t = x /\ type = "idle"
      <4>1. \A i \in 1 .. Len(listed'[x]) : listed'[x][i].final
        BY <2>6, <2>10, <3>5 DEF Caught
      <4>2. overwritten' = overwritten
        BY <2>5, <3>5
      <4> QED
        BY <2>6, <2>10, <3>1, <3>3, <4>1, <4>2 DEF Caught, NoneVanish, Final
    <3>6. CASE t = x /\ type = "message"
      <4>1. /\ Final(listed'[x]) # {} \/ x \in archived'
            /\ \A i \in 1 .. Len(listed'[x]) : listed'[x][i].final
        BY <2>6, <2>10, <3>6 DEF Caught
      <4> QED
        BY <3>1, <3>3, <4>1 DEF Caught, Final
    <3> QED
      BY <2>9, <3>2, <3>4, <3>5, <3>6 DEF t, type
  <2>11. CASE \E i \in 1 .. Len(wire) : wire[i].type = "completed" /\ wire[i].turn = x
    <3>1. PICK i \in 1 .. Len(wire) : wire[i].type = "completed" /\ wire[i].turn = x
      BY <2>11
    <3>2. i = 1 \/ i \in 2 .. Len(wire)
      BY <3>1
    <3> QED
      BY <2>8, <2>9, <3>1, <3>2
  <2> QED
    BY <2>7, <2>10, <2>11 DEF CaughtUp, Coming
<1>8. CASE FlushDeltas
  <2>1. UNCHANGED <<phase, conn, replay, wire, overwritten>> /\ buffered' = {}
    BY <1>8 DEF FlushDeltas, server, socket
  <2>2. (\A m \in ThreadMessages : Part(Flushed[m], listed'[m])) /\ NoneVanish
    BY <1>8, FlushListed
  <2>3. \A x \in Turns : Coming(x) => Coming(x)'
    BY <2>1 DEF Coming
  <2>4. ASSUME NEW x \in Turns, Caught(x)
        PROVE  Caught(x)'
    <3>1. Part(listed[x], listed'[x])
      BY <2>2, <2>4, FlushedKeeps DEF Caught, ThreadMessages
    <3>2. \A i \in 1 .. Len(listed'[x]) : listed'[x][i].final
      BY <2>4, <3>1, PartKeeps DEF Caught, FeedTypeOK, ThreadMessages
    <3> QED
      BY <2>1, <2>2, <2>4, <3>2 DEF Caught, NoneVanish, Final
  <2> QED
    BY <2>1, <2>3, <2>4 DEF CaughtUp
<1>9. ASSUME NEW u \in Users, Send(u) \/ Store(u) \/ PostDone(u) \/ PostFailed(u)
      PROVE  CaughtUp'
  <2>1. UNCHANGED <<phase, conn, replay, wire, buffered>>
    BY <1>9 DEF Send, Store, PostDone, PostFailed, server, socket
  <2>2. (\A x \in Turns : Part(listed[x], listed'[x])) /\ NoneVanish
    <3>1. CASE Send(u) \/ PostDone(u)
      BY <3>1, SendListed, FeedAssumption DEF ThreadMessages
    <3>2. CASE Store(u) \/ PostFailed(u)
      BY <3>2 DEF Store, PostFailed, Part, NoneVanish, Final
    <3> QED
      BY <1>9, <3>1, <3>2
  <2>3. \A x \in Turns : x \in overwritten => x \in overwritten'
    BY <1>9, FeedAssumption DEF Send, Store, PostDone, PostFailed
  <2>4. \A x \in Turns : Coming(x) => Coming(x)'
    BY <2>1 DEF Coming
  <2>5. ASSUME NEW x \in Turns, Caught(x)
        PROVE  Caught(x)'
    <3>1. \A i \in 1 .. Len(listed'[x]) : listed'[x][i].final
      BY <2>2, <2>5, PartKeeps DEF Caught, FeedTypeOK, ThreadMessages
    <3> QED
      BY <2>1, <2>2, <2>3, <2>5, <3>1 DEF Caught, NoneVanish, Final
  <2> QED
    BY <2>1, <2>4, <2>5 DEF CaughtUp
<1>10. CASE Fetch
  BY <1>2, <1>10 DEF Fetch, server, socket, client
<1>11. ASSUME NEW r \in responses, Hydrate(r)
       PROVE  CaughtUp'
  <2>1. UNCHANGED <<phase, conn, replay, wire, buffered>>
    BY <1>11 DEF Hydrate, server, socket
  <2>2. \A x \in Turns : Coming(x) => Coming(x)'
    BY <2>1 DEF Coming
  <2>3. \A x \in Turns : listed'[x] = IF x \in r THEN <<FromHistory>> ELSE <<>>
    BY <1>11 DEF Hydrate, ThreadMessages
  <2>4. \A x \in Turns : \A i \in 1 .. Len(listed'[x]) : listed'[x][i].final
    BY <2>3, Items
  <2>5. \A x \in Turns : x \in r => Final(listed'[x]) # {}
    <3>1. Final(<<FromHistory>>) = {1}
      BY Items DEF Final
    <3> QED
      BY <2>3, <3>1
  <2>6. \A x \in Turns :
           Caught(x) /\ Reached(x) /\ x \notin r => x \in overwritten' \cup archived'
    BY <1>11 DEF Hydrate, Caught, OnlyLogged
  <2>7. \A x \in Turns : Caught(x) /\ Reached(x) => Caught(x)'
    BY <2>1, <2>4, <2>5, <2>6 DEF Caught, Final
  <2> QED
    BY <2>1, <2>2, <2>7 DEF CaughtUp
<1> QED
  BY <1>1, <1>3, <1>4, <1>5, <1>6, <1>7, <1>8, <1>9, <1>10, <1>11, FeedSteps

-----------------------------------------------------------------------------
LEMMA FeedInitOK == FeedInit => FeedInv
<1> SUFFICES ASSUME FeedInit
             PROVE  FeedInv
  OBVIOUS
<1>1. FeedTypeOK
  <2>1. <<>> \in Seq(Turns) /\ <<>> \in Seq(FeedFrame) /\ <<>> \in Seq(Item)
    OBVIOUS
  <2> QED
    BY <2>1, FeedAssumption DEF FeedInit, FeedTypeOK
<1>2. Lists
  BY DEF FeedInit, Lists, OneOfEach, ThreadMessages
<1>3. OnlyLogged
  <2>1. Logged = {} /\ Final(<<>>) = {}
    BY DEF FeedInit, Logged, Final
  <2> QED
    BY <2>1 DEF FeedInit, OnlyLogged, ThreadMessages
<1>4. InOrder /\ CaughtUp
  BY DEF FeedInit, InOrder, CaughtUp
<1> QED
  BY <1>1, <1>2, <1>3, <1>4 DEF FeedInv

LEMMA FeedStep == FeedInv /\ [FeedNext]_feed => FeedInv'
<1> SUFFICES ASSUME FeedInv, [FeedNext]_feed
             PROVE  FeedInv'
  OBVIOUS
<1>1. CASE FeedNext
  BY <1>1, FeedKeepsType, FeedKeepsLists, FeedKeepsOnlyLogged, FeedKeepsOrder,
     FeedKeepsCaughtUp DEF FeedInv
<1>2. CASE UNCHANGED feed
  <2>1. FeedTypeOK'
    BY <1>2 DEF FeedInv, feed, FeedTypeOK
  <2>2. Lists'
    BY <1>2 DEF FeedInv, feed, Lists, OneOfEach
  <2>3. OnlyLogged'
    BY <1>2 DEF FeedInv, feed, OnlyLogged, Logged, Final
  <2>4. InOrder'
    BY <1>2 DEF FeedInv, feed, InOrder
  <2>5. CaughtUp'
    BY <1>2 DEF FeedInv, feed, CaughtUp, Coming, Caught, Final
  <2> QED
    BY <2>1, <2>2, <2>3, <2>4, <2>5 DEF FeedInv
<1> QED
  BY <1>1, <1>2 DEF feed

(* The client's list and everything under way to it stay consistent with   *)
(* the log: the inductive invariant of the feed.                           *)
THEOREM FeedInvariant == FeedSpec => []FeedInv
<1> QED
  BY FeedInitOK, FeedStep, PTL DEF FeedSpec

(* completeStreamMessage and appendRuntimeMessage list a reply once        *)
(* whatever frames and events repeat it, and a client with nothing under   *)
(* way lists every reply there is, unless pruneTurns or a late history     *)
(* response took it off the list or its turn was cut off unannounced.      *)
THEOREM TheListIsExact == FeedSpec => []ListIsExact
<1>1. ASSUME FeedInv
      PROVE  ListIsExact
  <2> USE <1>1 DEF FeedInv
  <2>1. \A m \in ThreadMessages : listed[m] \in Seq(Item) /\ Len(listed[m]) \in Nat
    BY DEF FeedTypeOK
  <2>2. \A m \in ThreadMessages : \A i, j \in Final(listed[m]) : i = j
    <3>1. \A t \in Turns : \A i, j \in Final(listed[t]) : i = j
      BY DEF Lists, OneOfEach, Final
    <3>2. \A u \in Users : \A i, j \in 1 .. Len(listed[u]) : i = j
      <4>1. \A u \in Users : Len(listed[u]) \in {0, 1}
        BY DEF Lists
      <4>2. \A n \in {0, 1} : \A i, j \in 1 .. n : i = j
        OBVIOUS
      <4> QED
        BY <4>1, <4>2
    <3>3. \A u \in Users : \A i, j \in Final(listed[u]) : i = j
      BY <3>2 DEF Final
    <3> QED
      BY <3>1, <3>3 DEF ThreadMessages
  <2>3. \A m \in ThreadMessages : Cardinality(Final(listed[m])) <= 1
    <3> SUFFICES ASSUME NEW m \in ThreadMessages
                 PROVE  Cardinality(Final(listed[m])) <= 1
      OBVIOUS
    <3>1. CASE Final(listed[m]) = {}
      <4>1. Cardinality({}) = 0
        BY FS_EmptySet
      <4> QED
        BY <3>1, <4>1
    <3>2. CASE Final(listed[m]) # {}
      <4>1. PICK i \in Final(listed[m]) : TRUE
        BY <3>2
      <4>2. Final(listed[m]) = {i}
        BY <2>2, <4>1
      <4>3. Cardinality({i}) = 1
        BY FS_Singleton
      <4> QED
        BY <4>2, <4>3
    <3> QED
      BY <3>1, <3>2
  <2>4. ASSUME Settled, NEW t \in Turns, phase[t] \in {"announced", "done"}
        PROVE  Caught(t)
    <3>1. conn = "live" /\ Len(replay) = 0 /\ Len(wire) = 0
      BY <2>4 DEF Settled
    <3>2. ~Coming(t)
      BY <3>1 DEF Coming
    <3> QED
      BY <2>4, <3>1, <3>2 DEF CaughtUp
  <2>5. ASSUME Settled, NEW t \in Turns, phase[t] \notin {"persisted", "cutoff"}
        PROVE  Len(listed[t]) <= 1
    <3>1. OneOfEach(listed[t]) /\ Len(listed[t]) \in Nat
      BY <2>1 DEF Lists, ThreadMessages
    <3>2. (\A i \in 1 .. Len(listed[t]) : listed[t][i].final)
            \/ (\A i \in 1 .. Len(listed[t]) : listed[t][i].keyed)
      <4>1. CASE phase[t] \in {"announced", "done"}
        BY <2>4, <2>5, <4>1 DEF Caught
      <4>2. CASE phase[t] \notin {"announced", "done"}
        <5>1. t \notin Logged
          BY <2>5, <4>2 DEF OnlyLogged
        <5>2. Final(listed[t]) = {}
          BY <5>1 DEF OnlyLogged
        <5> QED
          BY <3>1, <5>2 DEF OneOfEach, Final
      <4> QED
        BY <4>1, <4>2
    <3>3. \A i, j \in 1 .. Len(listed[t]) : i = j
      BY <3>1, <3>2 DEF OneOfEach
    <3>4. SUFFICES ASSUME Len(listed[t]) >= 2
                   PROVE  FALSE
      BY <3>1
    <3>5. 1 \in 1 .. Len(listed[t]) /\ 2 \in 1 .. Len(listed[t])
      BY <3>1, <3>4
    <3> QED
      BY <3>3, <3>5
  <2>6. ListedOnce
    BY <2>3, <2>5 DEF ListedOnce
  <2>7. NothingMissed
    <3> SUFFICES ASSUME Settled, NEW t \in Logged
                 PROVE  \/ Final(listed[t]) # {}
                        \/ t \in overwritten \cup archived
                        \/ phase[t] \in {"persisted", "cutoff"}
      BY DEF NothingMissed
    <3>1. t \in Turns
      BY DEF Logged, FeedTypeOK
    <3>2. phase[t] \in {"persisted", "announced", "done", "cutoff"}
      BY <3>1 DEF OnlyLogged
    <3>3. CASE phase[t] \in {"announced", "done"}
      BY <2>4, <3>1, <3>3 DEF Caught
    <3> QED
      BY <3>2, <3>3
  <2> QED
    BY <2>6, <2>7 DEF ListIsExact
<1> QED
  BY <1>1, FeedInvariant, PTL

(***************************************************************************)
(* The shared endpoint.                                                    *)
(*                                                                         *)
(* A step of the endpoint is a step of one component while the other one   *)
(* stands still, so every behaviour is a behaviour of both, and the        *)
(* theorems of ToolCallProofs and DeliveryProofs apply.  These modules     *)
(* extend ToolCall and Delivery; what their instances define is shown to   *)
(* be what the instances of SharedEndpoint define.                         *)
(***************************************************************************)

TCP == INSTANCE ToolCallProofs WITH
         Calls <- SharedCalls, Conns <- SharedConns, SingleProvider <- FALSE,
         pc <- tcPc, pending <- tcPending, sent <- tcSent, frames <- tcFrames,
         runs <- executions

DVP == INSTANCE DeliveryProofs WITH
         Messages <- SharedMessages, Addressed <- SharedAddressed,
         Queueable <- SharedQueueable, Readers <- SharedLoops,
         MaxAttempts <- SharedAttempts, MaxCrashes <- SharedCrashes,
         pc <- pc2, attempt <- attempt2, linked <- linked2, outbox <- outbox2,
         count <- count2, due <- due2, snapshot <- snapshot2, sending <- sending2,
         taken <- taken2, inbox <- inbox2, okResult <- okResult2,
         badResult <- badResult2, shown <- shown2, reported <- reported2,
         orphans <- orphans2, crashes <- crashes2

-----------------------------------------------------------------------------
(* Both instances of ToolCall start in the same states. *)
LEMMA SameCallInit == TC!Init <=> TCP!Init
BY Zenon DEF TC!Init, TCP!Init

(* They take the same steps. *)
LEMMA SameCallNext == TC!Next <=> TCP!Next
BY Zenon DEF TC!scores, TCP!scores, TC!coreVars, TCP!coreVars, TC!wireVars, TCP!wireVars,
             TC!providerVars, TCP!providerVars, TC!Frame, TCP!Frame, TC!Rank, TCP!Rank, TC!Oldest,
             TCP!Oldest, TC!ScoreSuccess, TCP!ScoreSuccess, TC!ScoreFailure, TCP!ScoreFailure,
             TC!RejectCall, TCP!RejectCall, TC!NoTransport, TCP!NoTransport, TC!DispatchTarget,
             TCP!DispatchTarget, TC!SendFrame, TCP!SendFrame, TC!SendFails, TCP!SendFails,
             TC!NotDispatched, TCP!NotDispatched, TC!Dispatched, TCP!Dispatched, TC!Resume,
             TCP!Resume, TC!TimeoutWith, TCP!TimeoutWith, TC!CallTimeout, TCP!CallTimeout,
             TC!CancelCaller, TCP!CancelCaller, TC!CompleteFuture, TCP!CompleteFuture, TC!Consume,
             TCP!Consume, TC!HandleProgress, TCP!HandleProgress, TC!NotifyCallResult,
             TCP!NotifyCallResult, TC!NotifyCallError, TCP!NotifyCallError,
             TC!NotifyCallCancelled, TCP!NotifyCallCancelled, TC!ReceiveRequest,
             TCP!ReceiveRequest, TC!Report, TCP!Report, TC!ArgumentsUnreadable,
             TCP!ArgumentsUnreadable, TC!SendAccepted, TCP!SendAccepted, TC!SendProgress,
             TCP!SendProgress, TC!ExecuteTool, TCP!ExecuteTool, TC!ToolSucceeds, TCP!ToolSucceeds,
             TC!ToolFails, TCP!ToolFails, TC!WithdrawCall, TCP!WithdrawCall, TC!Connect,
             TCP!Connect, TC!BindEndpoint, TCP!BindEndpoint, TC!StopTasks, TCP!StopTasks,
             TC!LinkDown, TCP!LinkDown, TC!CloseConnection, TCP!CloseConnection, TC!ReadLoopEnds,
             TCP!ReadLoopEnds, TC!CoreRestart, TCP!CoreRestart, TC!Send, TCP!Send, TC!Settle,
             TCP!Settle, TC!Router, TCP!Router, TC!Gateway, TCP!Gateway, TC!Provider,
             TCP!Provider, TC!Network, TCP!Network, TC!Next, TCP!Next

(* Their invariants say the same. *)
LEMMA SameCallInvariants ==
  /\ TC!SuccessIsReal <=> TCP!SuccessIsReal
  /\ TC!RetryIsSafe <=> TCP!RetryIsSafe
  /\ TC!NoLeakedFuture <=> TCP!NoLeakedFuture
  /\ TC!EveryAnswerScored <=> TCP!EveryAnswerScored
BY Zenon DEF TC!SuccessIsReal, TCP!SuccessIsReal, TC!NotStarted, TCP!NotStarted, TC!RetryIsSafe,
             TCP!RetryIsSafe, TC!NoLeakedFuture, TCP!NoLeakedFuture, TC!EveryAnswerScored,
             TCP!EveryAnswerScored

(* Both instances of Delivery start in the same states. *)
LEMMA SameOutboxInit == DV!Init <=> DVP!Init
BY Zenon DEF DV!Init, DVP!Init

(* They take the same steps. *)
LEMMA SameOutboxNext == DV!Next <=> DVP!Next
BY Zenon DEF DV!rows, DVP!rows, DV!drainVars, DVP!drainVars, DV!providerVars, DVP!providerVars,
             DV!history, DVP!history, DV!SetAttempt, DVP!SetAttempt, DV!Enqueue, DVP!Enqueue,
             DV!FailureStatus, DVP!FailureStatus, DV!TransportTakes, DVP!TransportTakes,
             DV!StartDeliver, DVP!StartDeliver, DV!DeliverTaken, DVP!DeliverTaken, DV!RecordSent,
             DVP!RecordSent, DV!RecordUnsent, DVP!RecordUnsent, DV!Idle, DVP!Idle, DV!Due,
             DVP!Due, DV!MarkInflight, DVP!MarkInflight, DV!StartDrain, DVP!StartDrain,
             DV!DrainTaken, DVP!DrainTaken, DV!DrainSent, DVP!DrainSent, DV!DrainUnsent,
             DVP!DrainUnsent, DV!HandleSuccess, DVP!HandleSuccess, DV!HandleFailure,
             DVP!HandleFailure, DV!BackoffElapses, DVP!BackoffElapses, DV!SurfaceShows,
             DVP!SurfaceShows, DV!SurfaceRefuses, DVP!SurfaceRefuses, DV!LoseResult,
             DVP!LoseResult, DV!Crash, DVP!Crash, DV!Deliver, DVP!Deliver, DV!Drain, DVP!Drain,
             DV!HandleResult, DVP!HandleResult, DV!Provider, DVP!Provider, DV!Next, DVP!Next

(* Their invariants say the same. *)
LEMMA SameOutboxInvariants ==
  /\ DV!DeliveredIsReal <=> DVP!DeliveredIsReal
  /\ DV!RetryBudget <=> DVP!RetryBudget
  /\ DV!StrandedOnlyByCrash <=> DVP!StrandedOnlyByCrash
BY Zenon DEF DV!Cardinality, DVP!Cardinality,
             DV!DeliveredIsReal, DVP!DeliveredIsReal, DV!RetryBudget, DVP!RetryBudget,
             DV!StrandedOnlyByCrash, DVP!StrandedOnlyByCrash

-----------------------------------------------------------------------------
(* The tool calls of a shared endpoint behave as ToolCall says: a step of   *)
(* the outbox leaves them alone.                                            *)
LEMMA CallsBehave == SharedSpec => TCP!Spec
<1>1. SharedInit => TCP!Init
  BY SameCallInit DEF SharedInit
<1>2. [SharedNext]_<<tool, shared>> => [TCP!Next]_TCP!vars
  <2> SUFFICES ASSUME [SharedNext]_<<tool, shared>>
               PROVE  [TCP!Next]_TCP!vars
    OBVIOUS
  <2>1. CASE CallStep
    BY <2>1, SameCallNext DEF CallStep
  <2>2. CASE UNCHANGED tool
    BY <2>2 DEF tool, TCP!vars, TCP!coreVars, TCP!scores, TCP!wireVars, TCP!providerVars
  <2> QED
    BY <2>1, <2>2 DEF SharedNext, OutboxStep
<1> QED
  BY <1>1, <1>2, PTL DEF SharedSpec, TCP!Spec

(* Its outbox behaves as Delivery says: a step of a call leaves it alone.   *)
LEMMA OutboxBehaves == SharedSpec => DVP!Spec
<1>1. SharedInit => DVP!Init
  BY SameOutboxInit DEF SharedInit
<1>2. [SharedNext]_<<tool, shared>> => [DVP!Next]_DVP!vars
  <2> SUFFICES ASSUME [SharedNext]_<<tool, shared>>
               PROVE  [DVP!Next]_DVP!vars
    OBVIOUS
  <2>1. CASE OutboxStep
    BY <2>1, SameOutboxNext DEF OutboxStep
  <2>2. CASE UNCHANGED shared
    BY <2>2 DEF shared, DVP!vars, DVP!rows, DVP!drainVars, DVP!providerVars, DVP!history
  <2> QED
    BY <2>1, <2>2 DEF SharedNext, CallStep
<1> QED
  BY <1>1, <1>2, PTL DEF SharedSpec, DVP!Spec

-----------------------------------------------------------------------------
(* SharedIsSafe holds for any number of provider processes and receive     *)
(* loops: NotifyCallResult of one process, or the drain of a loop of a dead *)
(* connection, never makes the others' answers untrue.                      *)
THEOREM SharedEndpointIsSafe == SharedSpec => []SharedIsSafe
<1>1. TCP!Spec => []TCP!SuccessIsReal
  BY TCP!SuccessFollowsRun
<1>2. TCP!Spec => []TCP!RetryIsSafe
  BY TCP!RetryAfterRefusal
<1>3. TCP!Spec => []TCP!NoLeakedFuture
  BY TCP!FuturesAreCleared
<1>4. TCP!Spec => []TCP!EveryAnswerScored
  BY TCP!AnswersAreScored
<1>5. DVP!DeliveryAssumption
  BY SharedAssumption DEF DVP!IsFiniteSet, IsFiniteSet
<1>6. DVP!Spec => []DVP!DeliveredIsReal
  BY <1>5, DVP!DeliveredWasShown
<1>7. DVP!Spec => []DVP!RetryBudget
  BY <1>5, DVP!AttemptsStayInBudget
<1>8. DVP!Spec => []DVP!StrandedOnlyByCrash
  BY <1>5, DVP!OnlyCrashStrands
<1>9. /\ TCP!SuccessIsReal /\ TCP!RetryIsSafe /\ TCP!NoLeakedFuture /\ TCP!EveryAnswerScored
      /\ DVP!DeliveredIsReal /\ DVP!RetryBudget /\ DVP!StrandedOnlyByCrash
      => SharedIsSafe
  BY SameCallInvariants, SameOutboxInvariants DEF SharedIsSafe
<1> QED
  BY <1>1, <1>2, <1>3, <1>4, <1>6, <1>7, <1>8, <1>9, CallsBehave, OutboxBehaves, PTL
=============================================================================
