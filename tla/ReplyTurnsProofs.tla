-------------------------- MODULE ReplyTurnsProofs --------------------------
(***************************************************************************)
(* Theorems about ReplyTurns for every set of messages, any number of      *)
(* turns, commands, trims and tool rounds and any number of checkpoints    *)
(* kept: a command that names a turn is held for that turn, and only a     *)
(* stop that has lost its turn reaches another; replays are neither lost   *)
(* nor made twice; a turn is told its own end; only an escaped             *)
(* cancellation strands the queue.  They are parts of one inductive        *)
(* invariant, whose other parts say where the handler task is (Handler),   *)
(* where the history comes from (History), what a command can meet         *)
(* (Commands) and where replays wait (Replays).  First what the operators  *)
(* do: how inputs are counted as they move, what _create_reply_checkpoint  *)
(* keeps and what restoring, failing, finalizing and trimming leave of the *)
(* history; then one lemma per part of the invariant goes through the      *)
(* actions.                                                                *)
(***************************************************************************)
EXTENDS ReplyTurns, FiniteSetTheorems, SequenceTheorems, WellFoundedInduction,
        TLAPS

-----------------------------------------------------------------------------
(* Natural numbers, lists of inputs, positions and checkpoints.            *)

(* A set of natural numbers that is not empty has a least element. *)
LEMMA LeastNatural ==
  ASSUME NEW S \in SUBSET Nat, S # {}
  PROVE  \E n \in S : \A k \in S : n <= k
<1> DEFINE R == OpToRel(<, Nat)
<1>1. IsWellFoundedOn(R, Nat)
  BY NatLessThanWellFounded
<1>2. \A i, j \in Nat : i < j => <<i, j>> \in R
  BY DEF OpToRel
<1> HIDE DEF R
<1>3. PICK n \in S : \A k \in S : ~ (<<k, n>> \in R)
  BY <1>1, WFMin
<1>4. \A k \in S : ~(k < n)
  BY <1>2, <1>3
<1> QED
  BY <1>3, <1>4

(* The positions of message m in a list of inputs. *)
Where(s, m) == {i \in DOMAIN s : s[i].msg = m}
Count(s, m) == Cardinality(Where(s, m))

(* The positions are finitely many. *)
LEMMA WhereFinite ==
  ASSUME NEW s \in Seq(Input), NEW m
  PROVE  IsFiniteSet(Where(s, m)) /\ Count(s, m) \in Nat
         /\ Where(s, m) \subseteq 1 .. Len(s)
<1>1. Where(s, m) \subseteq 1 .. Len(s)
  BY DEF Where
<1>2. IsFiniteSet(1 .. Len(s))
  BY FS_Interval
<1> QED
  BY <1>1, <1>2, FS_Subset, FS_CardinalityType DEF Count

(* Lists put behind each other have their inputs added up. *)
LEMMA CountConcat ==
  ASSUME NEW s \in Seq(Input), NEW t \in Seq(Input), NEW m
  PROVE  Count(s \o t, m) = Count(s, m) + Count(t, m)
<1> DEFINE A == Where(s, m)
           B == Where(t, m)
           C == {i \in (Len(s) + 1) .. (Len(s) + Len(t)) : t[i - Len(s)].msg = m}
           f == [i \in B |-> i + Len(s)]
<1>1. Where(s \o t, m) = A \cup C
  BY ConcatProperties DEF Where
<1>2. A \cap C = {}
  BY DEF Where
<1>3. f \in Bijection(B, C)
  <2>1. B \subseteq 1 .. Len(t) /\ Len(s) \in Nat /\ Len(t) \in Nat
        /\ DOMAIN t = 1 .. Len(t)
    BY WhereFinite, LenProperties
  <2>2. f \in [B -> C]
    BY <2>1 DEF Where
  <2>3. \A i, j \in B : f[i] = f[j] => i = j
    BY <2>1
  <2>4. ASSUME NEW j \in C PROVE \E i \in B : f[i] = j
    <3>1. j - Len(s) \in B
      BY <2>1 DEF Where
    <3>2. f[j - Len(s)] = j
      BY <2>1, <3>1
    <3> QED
      BY <3>1, <3>2
  <2> HIDE DEF f, B, C
  <2> QED
    BY <2>2, <2>3, <2>4 DEF Bijection, Injection, Surjection, IsInjective
<1>4. IsFiniteSet(A) /\ IsFiniteSet(B) /\ Cardinality(A) \in Nat /\ Cardinality(B) \in Nat
  BY WhereFinite DEF Count
<1>5. IsFiniteSet(C) /\ Cardinality(C) = Cardinality(B)
  BY <1>3, <1>4, FS_Bijection DEF ExistsBijection
<1> HIDE DEF A, B, C, f
<1>6. Cardinality(A \cup C) = Cardinality(A) + Cardinality(C)
  <2>1. Cardinality(A \cup C) = Cardinality(A) + Cardinality(C) - Cardinality(A \cap C)
    BY <1>4, <1>5, FS_Union
  <2>2. Cardinality(A \cap C) = 0
    BY <1>2, FS_EmptySet
  <2> QED
    BY <1>4, <1>5, <2>1, <2>2
<1> QED
  BY <1>1, <1>5, <1>6 DEF Count, A, B

(* One input. *)
LEMMA CountOne ==
  ASSUME NEW e \in Input, NEW m
  PROVE  Count(<<e>>, m) = IF e.msg = m THEN 1 ELSE 0
<1>1. Where(<<e>>, m) = IF e.msg = m THEN {1} ELSE {}
  BY DEF Where
<1> QED
  BY <1>1, FS_Singleton, FS_EmptySet DEF Count

(* No input. *)
LEMMA CountNone ==
  ASSUME NEW m
  PROVE  Count(<<>>, m) = 0
<1>1. Where(<<>>, m) = {}
  BY DEF Where
<1> QED
  BY <1>1, FS_EmptySet DEF Count

(* One more input. *)
LEMMA CountAppend ==
  ASSUME NEW s \in Seq(Input), NEW e \in Input, NEW m
  PROVE  Count(Append(s, e), m) = Count(s, m) + Count(<<e>>, m)
<1>1. <<e>> \in Seq(Input) /\ Append(s, e) = s \o <<e>>
  BY AppendIsConcat
<1> QED
  BY <1>1, CountConcat

(* What TakePayload moves from the queue to the turns. *)
LEMMA CountTail ==
  ASSUME NEW s \in Seq(Input), s # <<>>, NEW m
  PROVE  Count(s, m) = Count(<<Head(s)>>, m) + Count(Tail(s), m)
<1>1. Head(s) \in Input /\ Tail(s) \in Seq(Input) /\ <<Head(s)>> \in Seq(Input)
  BY HeadTailProperties
<1>2. s = <<Head(s)>> \o Tail(s)
  BY <1>1, HeadTailProperties, ConcatProperties, SeqEqual
<1>3. Count(<<Head(s)>> \o Tail(s), m) = Count(<<Head(s)>>, m) + Count(Tail(s), m)
  BY <1>1, CountConcat
<1> QED
  BY <1>2, <1>3

(* _create_reply_checkpoint keeps at most MaxCheckpoints. *)
LEMMA NewestBound ==
  ASSUME NEW S \in SUBSET [id : Nat, len : Nat], IsFiniteSet(S),
         \A c, d \in S : c.id = d.id => c = d
  PROVE  /\ Newest(S) \subseteq S
         /\ IsFiniteSet(Newest(S))
         /\ Cardinality(Newest(S)) <= MaxCheckpoints
<1>1. Newest(S) \subseteq S
  BY DEF Newest
<1>2. IsFiniteSet(Newest(S)) /\ Cardinality(Newest(S)) \in Nat
  BY <1>1, FS_Subset, FS_CardinalityType
<1>3. CASE Newest(S) = {}
  BY <1>3, <1>1, <1>2, FS_EmptySet, ReplyTurnsAssumption
<1>4. CASE Newest(S) # {}
  <2> DEFINE ids == {c.id : c \in Newest(S)}
  <2>1. ids \in SUBSET Nat /\ ids # {}
    BY <1>1, <1>4
  <2>2. PICK c \in Newest(S) : \A d \in Newest(S) : c.id <= d.id
    <3>1. PICK n \in ids : \A k \in ids : n <= k
      BY <2>1, LeastNatural
    <3> QED
      BY <3>1
  <2> DEFINE above == {d \in S : d.id > c.id}
  <2>3. Newest(S) \ {c} \subseteq above
    BY <1>1, <2>2
  <2>4. IsFiniteSet(above) /\ Cardinality(above) \in Nat
    BY FS_Subset, FS_CardinalityType
  <2>5. Cardinality(above) < MaxCheckpoints
    BY DEF Newest
  <2> HIDE DEF above
  <2>6. Cardinality(Newest(S) \ {c}) <= Cardinality(above)
    BY <2>3, <2>4, FS_Subset
  <2>7. Cardinality(Newest(S) \ {c}) = Cardinality(Newest(S)) - 1
    BY <1>2, FS_RemoveElement
  <2> QED
    BY <1>1, <1>2, <2>4, <2>5, <2>6, <2>7, ReplyTurnsAssumption
<1> QED
  BY <1>3, <1>4

(* trim_history: the k-th position that stays is there. *)
LEMMA KeptPosition ==
  ASSUME NEW n \in Nat, NEW gone \in SUBSET (1 .. n),
         NEW k \in 1 .. (n - Cardinality(gone))
  PROVE  \E i \in (1 .. n) \ gone : Cardinality({j \in 1 .. i : j \notin gone}) = k
<1> DEFINE K(i) == {j \in 1 .. i : j \notin gone}
<1>1. ASSUME NEW i \in Nat PROVE IsFiniteSet(K(i)) /\ Cardinality(K(i)) \in Nat
  <2>1. IsFiniteSet(1 .. i)
    BY FS_Interval
  <2> QED
    BY <2>1, FS_Subset, FS_CardinalityType
<1>2. IsFiniteSet(gone) /\ Cardinality(gone) \in Nat
      /\ Cardinality(K(n)) = n - Cardinality(gone)
  <2>1. IsFiniteSet(1 .. n) /\ Cardinality(1 .. n) = n
    BY FS_Interval
  <2>2. IsFiniteSet(gone) /\ Cardinality(gone) \in Nat
    BY <2>1, FS_Subset, FS_CardinalityType
  <2>3. Cardinality((1 .. n) \ gone) = Cardinality(1 .. n) - Cardinality((1 .. n) \cap gone)
    BY <2>1, FS_Difference
  <2>4. K(n) = (1 .. n) \ gone /\ (1 .. n) \cap gone = gone
    OBVIOUS
  <2> QED
    BY <2>1, <2>2, <2>3, <2>4
<1> DEFINE Enough == {i \in 1 .. n : k <= Cardinality(K(i))}
<1>3. PICK i \in Enough : \A j \in Enough : i <= j
  <2>1. k <= Cardinality(K(n)) /\ n > 0
    BY <1>2
  <2>2. n \in Enough /\ Enough \in SUBSET Nat
    BY <2>1
  <2> QED
    BY <2>2, LeastNatural
<1>4. Cardinality(K(i - 1)) < k
  <2>1. CASE i = 1
    <3>1. K(i - 1) = {}
      BY <2>1
    <3> QED
      BY <3>1, FS_EmptySet
  <2>2. CASE i > 1
    <3>1. i - 1 \in 1 .. n /\ i - 1 \notin Enough
      BY <1>3, <2>2
    <3>2. Cardinality(K(i - 1)) \in Nat
      BY <1>1, <3>1
    <3> QED
      BY <3>1, <3>2
  <2> QED
    BY <2>1, <2>2
<1>5. i \notin gone /\ Cardinality(K(i)) = Cardinality(K(i - 1)) + 1
  <2>1. IsFiniteSet(K(i - 1)) /\ Cardinality(K(i - 1)) \in Nat
    BY <1>1
  <2>2. CASE i \in gone
    <3>1. K(i) = K(i - 1)
      BY <2>2
    <3> QED
      BY <1>3, <1>4, <3>1, <2>1
  <2>3. CASE i \notin gone
    <3>1. K(i) = K(i - 1) \cup {i} /\ i \notin K(i - 1)
      BY <2>3
    <3> HIDE DEF K
    <3> QED
      BY <2>1, <2>3, <3>1, FS_AddElement
  <2> QED
    BY <2>2, <2>3
<1>6. Cardinality(K(i)) = k
  <2>1. Cardinality(K(i - 1)) \in Nat /\ k <= Cardinality(K(i))
    BY <1>1, <1>3
  <2> HIDE DEF K
  <2> QED
    BY <2>1, <1>4, <1>5
<1> QED
  BY <1>3, <1>5, <1>6

-----------------------------------------------------------------------------
(* The inductive invariant.                                                *)

(* Before its checkpoint is made, a turn has left nothing behind. *)
Early == {"created", "starting", "indexed"}
Entry == [turn : Nat, role : {"user", "tool", "assistant"}]

(* Where the handler task is, and what it has told of its turn. *)
Handler ==
  /\ worker = "busy" <=> phase # "none"
  /\ phase # "none" => turn > 0
  /\ phase \in Early \cup {"streaming", "replied", "publishing"} => outcome[turn] = ""
  /\ phase = "failing" => outcome[turn] = "failed"
  /\ phase \in {"replied", "publishing", "persisting"} => turn \in modelEnded
  /\ cancelled => phase # "none" /\ ctl \in {"cancelling", "closing"} /\ awaited = turn

(* Checkpoints and entries of the history belong to turns; one id, one checkpoint. *)
History ==
  /\ IsFiniteSet(checkpoints)
  /\ \A c \in checkpoints : c.id \in 1 .. turn /\ (phase \in Early => c.id # turn)
  /\ \A c, d \in checkpoints : c.id = d.id => c = d
  /\ \A i \in DOMAIN chat : chat[i].turn \in 1 .. turn
     /\ (phase \in Early => chat[i].turn # turn)

(* What a reply-control command can meet. *)
Commands ==
  /\ ActiveTurnIsRunning
  /\ PendingIsServable
  /\ activeTurn # 0 => activeTurn \in CheckpointIds
  /\ phase \in {"streaming", "replied"} => activeTurn = turn
  /\ ctl = "cancelling" /\ pending # Nothing => awaited = turn
  /\ phase \in {"publishing", "persisting"} => lastFinish # "replayed"

(* Where an input waits that is about to be submitted again. *)
Replays ==
  /\ replay # <<>> => /\ phase = "ending" /\ ctl = "cancelling"
                      /\ awaited = turn /\ named = turn
  /\ ctlReplay # <<>> => ctl = "replaying"
  /\ phase \in InTry \cup {"created"} => turn \notin replayed

(* Inductive: OutcomeIsOwn needs Handler, History and Commands, ReplayedOnce needs
   Commands and Replays. *)
IInv ==
  /\ TypeOK /\ Handler /\ History /\ Commands /\ Replays
  /\ StrandedOnlyByEscape /\ OutcomeIsOwn /\ ReplayedOnce

-----------------------------------------------------------------------------
(* The steps, and what they leave of the history.                          *)

(* A step is one of the actions. *)
LEMMA StepCases ==
  ASSUME Next
  PROVE
    \/ BeginTurn
    \/ TakeIndex
    \/ ActivateTurn
    \/ AppendReply
    \/ CompleteTurn
    \/ EndStream
    \/ PersistMessage
    \/ FailTurn
    \/ EmitError
    \/ InterruptTurn
    \/ CancelEscapes
    \/ EndInterrupted
    \/ TakePayload
    \/ TakeStop
    \/ CancelCurrent
    \/ NothingToCancel
    \/ CancelReturns
    \/ SubmitReplay
    \/ PutStop
    \/ WorkerJoined
    \/ TrimHistory
    \/ ToolRound
    \/ \E m \in Messages : SubmitMessage(m)
    \/ \E action \in Actions,
       cp \in CheckpointIds \cup {activeTurn} : AcceptCommand(action, cp)
    \/ RegenerateEnded
    \/ \E cp \in CheckpointIds : RollbackEnded(cp)
    \/ Shutdown
BY DEF Next, TurnStep, CancelStep, WorkerStep, ControlStep

(* A checkpoint that is kept has a length. *)
LEMMA LengthIsThere ==
  ASSUME TypeOK, NEW id \in CheckpointIds
  PROVE  LengthAt(id) \in Nat
<1>1. \E c \in checkpoints : c.id = id
  BY DEF CheckpointIds
<1>2. (CHOOSE c \in checkpoints : c.id = id) \in checkpoints
  BY <1>1
<1> QED
  BY <1>2 DEF LengthAt, TypeOK

(* The history only lost entries, the checkpoints only lost members. *)
Shrunk ==
  /\ chat' \in Seq(Entry)
  /\ \A i \in DOMAIN chat' : \E j \in DOMAIN chat : chat'[i] = chat[j]
  /\ checkpoints' \subseteq checkpoints

(* Restoring a checkpoint only removes: RestoreReplyCheckpoint. *)
LEMMA RestoreShrinks ==
  ASSUME TypeOK, NEW id \in CheckpointIds, RestoreReplyCheckpoint(id)
  PROVE  Shrunk
<1>1. LengthAt(id) \in Nat /\ chat \in Seq(Entry)
  BY LengthIsThere DEF TypeOK, Entry
<1>2. checkpoints' \subseteq checkpoints
  BY DEF RestoreReplyCheckpoint
<1>3. CASE LengthAt(id) < Len(chat)
  <2>1. chat' = SubSeq(chat, 1, LengthAt(id))
    BY <1>3 DEF RestoreReplyCheckpoint, RestoredChat
  <2>2. \A i \in 1 .. LengthAt(id) : i \in DOMAIN chat /\ chat[i] \in Entry
    BY <1>1, <1>3
  <2>3. /\ chat' \in Seq(Entry)
        /\ Len(chat') = LengthAt(id)
        /\ \A i \in 1 .. LengthAt(id) : chat'[i] = chat[i]
    BY <1>1, <2>1, <2>2, SubSeqProperties
  <2> QED
    BY <1>1, <1>2, <2>2, <2>3 DEF Shrunk
<1>4. CASE ~(LengthAt(id) < Len(chat))
  BY <1>1, <1>2, <1>4 DEF RestoreReplyCheckpoint, RestoredChat, Shrunk
<1> QED
  BY <1>3, <1>4

(* So does a turn that is interrupted or fails; what its command was is gone. *)
LEMMA FinalizeShrinks ==
  ASSUME TypeOK, PendingIsServable, NEW t, FinalizeReplyControl(t)
  PROVE  /\ Shrunk
         /\ lastFinish' \in Reasons
         /\ \/ Finalizes(t) /\ activeTurn' = 0 /\ pending' = Nothing
            \/ ~Finalizes(t) /\ UNCHANGED <<chat, checkpoints, activeTurn, pending>>
<1>1. CASE ~Finalizes(t) /\ UNCHANGED <<chat, checkpoints, activeTurn, pending,
           lastFinish>>
  BY <1>1 DEF TypeOK, Shrunk, Entry
<1>2. CASE /\ Finalizes(t)
              /\ pending.action \in {"append_guidance", "regenerate", "rollback"}
           /\ RestoreReplyCheckpoint(pending.cp) /\ lastFinish' = FinishReason(t)
  <2>1. pending.cp \in CheckpointIds
    BY <1>2 DEF PendingIsServable, Nothing
  <2>2. Shrunk
    BY <1>2, <2>1, RestoreShrinks
  <2>3. lastFinish' \in Reasons
    BY <1>2 DEF FinishReason, Reasons
  <2> QED
    BY <1>2, <2>2, <2>3 DEF RestoreReplyCheckpoint
<1>3. CASE /\ Finalizes(t) /\ pending.action \in {"none", "stop"}
           /\ activeTurn' = 0 /\ pending' = Nothing /\ lastFinish' = FinishReason(t)
           /\ UNCHANGED <<chat, checkpoints>>
  <2>1. lastFinish' \in Reasons
    BY <1>3 DEF FinishReason, Reasons
  <2> QED
    BY <1>3, <2>1 DEF TypeOK, Shrunk, Entry
<1> QED
  BY <1>1, <1>2, <1>3 DEF FinalizeReplyControl

(* So does MarkReplyTurnFailed. *)
LEMMA FailureShrinks ==
  ASSUME TypeOK, NEW t, MarkReplyTurnFailed(t)
  PROVE  /\ Shrunk
         /\ lastFinish' \in Reasons
         /\ \/ Finalizes(t) /\ activeTurn' = 0 /\ pending' = Nothing
            \/ ~Finalizes(t) /\ UNCHANGED <<chat, checkpoints, activeTurn, pending>>
<1>1. CASE ~Finalizes(t) /\ UNCHANGED <<chat, checkpoints, activeTurn, pending,
           lastFinish>>
  BY <1>1 DEF TypeOK, Shrunk, Entry
<1>2. CASE Finalizes(t) /\ t \in CheckpointIds /\ RestoreReplyCheckpoint(t)
           /\ lastFinish' = "failed"
  BY <1>2, RestoreShrinks DEF RestoreReplyCheckpoint, Reasons
<1>3. CASE /\ Finalizes(t) /\ activeTurn' = 0 /\ pending' = Nothing
              /\ lastFinish' = "failed"
           /\ UNCHANGED <<chat, checkpoints>>
  BY <1>3 DEF TypeOK, Shrunk, Entry, Reasons
<1> QED
  BY <1>1, <1>2, <1>3 DEF MarkReplyTurnFailed

(* So does trim_history, whichever positions it keeps. *)
LEMMA TrimShrinks ==
  ASSUME TypeOK, TrimHistory
  PROVE  Shrunk
<1> DEFINE n == Len(chat)
<1>1. n \in Nat /\ chat \in Seq(Entry) /\ DOMAIN chat = 1 .. n
      /\ \A i \in 1 .. n : chat[i] \in Entry
  <2>1. chat \in Seq(Entry)
    BY DEF TypeOK, Entry
  <2> QED
    BY <2>1, LenProperties
<1>2. PICK gone \in SUBSET (1 .. n) :
        LET Position(k) == CHOOSE i \in (1 .. n) \ gone :
                             Cardinality({j \in (1 .. i) : j \notin gone}) = k
        IN  chat' = [k \in 1 .. (n - Cardinality(gone)) |-> chat[Position(k)]]
  BY DEF TrimHistory
<1> DEFINE Position(k) == CHOOSE i \in (1 .. n) \ gone :
                            Cardinality({j \in (1 .. i) : j \notin gone}) = k
           kept == n - Cardinality(gone)
<1>3. chat' = [k \in 1 .. kept |-> chat[Position(k)]]
  BY <1>2
<1>4. kept \in Nat
  <2>1. IsFiniteSet(1 .. n) /\ Cardinality(1 .. n) = n
    BY SMTT(30), <1>1, FS_Interval
  <2>2. Cardinality(gone) \in Nat /\ Cardinality(gone) <= n
    BY <2>1, FS_Subset, FS_CardinalityType
  <2> QED
    BY <1>1, <2>2
<1>5. ASSUME NEW k \in 1 .. kept PROVE Position(k) \in 1 .. n
  <2>1. \E i \in (1 .. n) \ gone : Cardinality({j \in (1 .. i) : j \notin gone}) = k
    <3>1. n \in Nat /\ k \in 1 .. (n - Cardinality(gone))
      BY <1>1
    <3> HIDE DEF n
    <3> QED
      BY SMTT(30), <3>1, KeptPosition
  <2> QED
    BY <2>1
<1> HIDE DEF Position, kept, n
<1>6. \A k \in 1 .. kept : chat'[k] = chat[Position(k)]
  BY <1>3
<1>7. chat' \in [1 .. kept -> Entry]
  BY <1>1, <1>3, <1>5
<1>8. chat' \in Seq(Entry) /\ DOMAIN chat' = 1 .. kept
  BY <1>3, <1>4, <1>7, SeqDef
<1>9. checkpoints' = checkpoints
  BY DEF TrimHistory
<1> QED
  BY <1>1, <1>5, <1>6, <1>8, <1>9 DEF Shrunk

(* The checkpoints after one more was made. *)
LEMMA CreateFacts ==
  ASSUME TypeOK, Handler, History, phase = "indexed", CreateReplyCheckpoint
  PROVE  /\ checkpoints' \subseteq checkpoints \cup {[id |-> turn, len |-> index]}
         /\ [id |-> turn, len |-> index] \in checkpoints'
         /\ IsFiniteSet(checkpoints')
         /\ Cardinality(checkpoints') <= MaxCheckpoints
         /\ \A c, d \in checkpoints' : c.id = d.id => c = d
<1> DEFINE new == [id |-> turn, len |-> index]
           S == checkpoints \cup {new}
<1>1. turn \in Nat /\ new \in [id : Nat, len : Nat]
  BY LenProperties DEF TypeOK, turn
<1>2. S \in SUBSET [id : Nat, len : Nat]
  BY <1>1 DEF TypeOK
<1>3. IsFiniteSet(S)
  BY FS_AddElement DEF History
<1>4. \A c \in checkpoints : c.id < new.id
  BY <1>1 DEF History, Early
<1>5. \A c, d \in S : c.id = d.id => c = d
  BY <1>1, <1>4 DEF History, TypeOK
<1>6. checkpoints' = Newest(S)
  BY DEF CreateReplyCheckpoint
<1>7. new \in Newest(S)
  <2>1. {d \in S : d.id > new.id} = {}
    BY <1>1, <1>4, <1>2
  <2> QED
    BY <2>1, FS_EmptySet, ReplyTurnsAssumption DEF Newest
<1>8. /\ Newest(S) \subseteq S
      /\ IsFiniteSet(Newest(S))
      /\ Cardinality(Newest(S)) <= MaxCheckpoints
  <2> HIDE DEF S
  <2> QED
    BY <1>2, <1>3, <1>5, NewestBound
<1> QED
  BY <1>5, <1>6, <1>7, <1>8

(* Fewer checkpoints are still checkpoints, each with its own id. *)
LEMMA ShrunkCheckpoints ==
  ASSUME TypeOK, History, Shrunk
  PROVE  /\ checkpoints' \subseteq [id : Nat, len : Nat]
         /\ IsFiniteSet(checkpoints')
         /\ Cardinality(checkpoints') <= MaxCheckpoints
         /\ \A c, d \in checkpoints' : c.id = d.id => c = d
<1>1. IsFiniteSet(checkpoints) /\ checkpoints' \subseteq checkpoints
  BY DEF History, Shrunk
<1>2. IsFiniteSet(checkpoints') /\ Cardinality(checkpoints') <= Cardinality(checkpoints)
  BY <1>1, FS_Subset
<1>3. Cardinality(checkpoints) \in Nat /\ Cardinality(checkpoints') \in Nat
  BY <1>1, <1>2, FS_CardinalityType
<1>4. Cardinality(checkpoints) <= MaxCheckpoints
  BY DEF TypeOK
<1>5. Cardinality(checkpoints') <= MaxCheckpoints
  BY <1>2, <1>3, <1>4, ReplyTurnsAssumption
<1> QED
  BY <1>1, <1>2, <1>5 DEF TypeOK, History

(* What finalize_reply_control returns. *)
LEMMA FinalizeReturns ==
  ASSUME TypeOK, NEW t \in 0 .. turn
  PROVE  /\ ReplayInput(t) \in Seq(Input)
         /\ Replayed(t) \subseteq 1 .. turn
         /\ FinishReason(t) \in Reasons
<1>1. turn \in Nat
  BY LenProperties DEF TypeOK, turn
<1>2. Finalizes(t) => t \in 1 .. turn
  BY <1>1 DEF TypeOK, Finalizes
<1>3. Finalizes(t) => inputs[t] \in Input
  BY <1>2, ElementOfSeq DEF TypeOK, turn
<1>4. ReplayInput(t) \in Seq(Input)
  <2>1. CASE Finalizes(t) /\ pending.action \in {"append_guidance", "regenerate"}
    <3> DEFINE e == [msg |-> inputs[t].msg,
                     guided |-> inputs[t].guided \/ pending.action = "append_guidance"]
    <3>1. inputs[t].msg \in Messages
      BY <1>3, <2>1 DEF Input
    <3>2. (inputs[t].guided \/ pending.action = "append_guidance") \in BOOLEAN
      OBVIOUS
    <3>3. e \in Input
      BY <3>1, <3>2 DEF Input
    <3> HIDE DEF e
    <3>4. <<e>> \in Seq(Input)
      BY <3>3
    <3> QED
      BY <2>1, <3>4 DEF ReplayInput, e
  <2>2. CASE ~(Finalizes(t) /\ pending.action \in {"append_guidance", "regenerate"})
    BY <2>2 DEF ReplayInput
  <2> QED
    BY <2>1, <2>2
<1>5. Replayed(t) \subseteq 1 .. turn
  <2>1. CASE Finalizes(t)
    BY <1>2, <2>1 DEF Replayed, TypeOK
  <2>2. CASE ~Finalizes(t)
    BY <2>2 DEF Replayed, ReplayInput, TypeOK
  <2> QED
    BY <2>1, <2>2
<1>6. FinishReason(t) \in Reasons
  BY DEF FinishReason, Reasons, TypeOK
<1> QED
  BY <1>4, <1>5, <1>6

(* The types under names, so that a step only shows those that it changes. *)
Inputs      == Seq(Input)
Outcomes    == Seq(Reasons)
Histories   == Seq(Entry)
Checkpoints == {S \in SUBSET [id : Nat, len : Nat] : Cardinality(S) <= MaxCheckpoints}
Orders      == [action : Actions \cup {"none"}, cp : Nat]
Controls    == {"idle", "emitting", "cancelling", "replaying", "closing", "joining",
  "closed"}
Tallies     == [Messages -> Nat]

Typed ==
  /\ submitted \subseteq Messages
  /\ queue \in Inputs /\ replay \in Inputs /\ ctlReplay \in Inputs /\ inputs \in Inputs
  /\ worker \in {"none", "idle", "busy"}
  /\ phase \in Phases
  /\ cancelled \in BOOLEAN
  /\ index \in Nat
  /\ outcome \in Outcomes /\ Len(outcome) = turn
  /\ modelEnded \subseteq 1 .. turn /\ replayed \subseteq 1 .. turn
  /\ chat \in Histories
  /\ checkpoints \in Checkpoints
  /\ activeTurn \in 0 .. turn /\ latestReplay \in 0 .. turn
  /\ named \in 0 .. turn /\ awaited \in 0 .. turn
  /\ pending \in Orders
  /\ lastFinish \in Reasons
  /\ ctl \in Controls
  /\ regenerated \in Tallies
  /\ commands \in 0 .. MaxCommands
  /\ trims \in 0 .. MaxTrims
  /\ toolRounds \in 0 .. MaxToolRounds

(* The names say the same as TypeOK. *)
LEMMA TypedIsTypeOK ==
  (TypeOK <=> Typed) /\ (TypeOK' <=> Typed')
<1>1. TypeOK <=> Typed
  BY DEF TypeOK, Typed, turn, Inputs, Outcomes, Histories, Entry, Checkpoints, Orders,
     Controls,
         Tallies
<1>2. TypeOK' <=> Typed'
  BY DEF TypeOK, Typed, turn, Inputs, Outcomes, Histories, Entry, Checkpoints, Orders,
     Controls,
         Tallies
<1> QED
  BY <1>1, <1>2

(* A turn is told a finish_reason. *)
LEMMA OutcomeGiven ==
  ASSUME NEW s \in Outcomes, NEW t, NEW r \in Reasons
  PROVE  [s EXCEPT ![t] = r] \in Outcomes /\ Len([s EXCEPT ![t] = r]) = Len(s)
<1>1. CASE t \in 1 .. Len(s)
  BY <1>1, ExceptSeq DEF Outcomes
<1>2. CASE t \notin 1 .. Len(s)
  <2>1. [s EXCEPT ![t] = r] = s
    BY <1>2 DEF Outcomes
  <2> QED
    BY <2>1
<1> QED
  BY <1>1, <1>2

(* Turns are only added. *)
LEMMA TurnFacts ==
  ASSUME TypeOK
  PROVE  turn \in Nat /\ (inputs' = inputs => turn' = turn)
BY LenProperties DEF TypeOK, turn

(* The turn a handler task works on is there. *)
LEMMA RunningTurn ==
  ASSUME TypeOK, Handler, phase # "none"
  PROVE  turn \in 1 .. turn /\ turn \in DOMAIN outcome /\ turn \in DOMAIN inputs
<1>1. turn \in Nat /\ turn > 0
  BY TurnFacts DEF Handler
<1>2. turn \in 1 .. turn
  BY <1>1
<1>3. DOMAIN outcome = 1 .. turn /\ DOMAIN inputs = 1 .. turn
  BY LenProperties DEF TypeOK, turn
<1> QED
  BY <1>2, <1>3

(* TakePayload makes one turn. *)
LEMMA TakeFacts ==
  ASSUME TypeOK, TakePayload
  PROVE  /\ Head(queue) \in Input
         /\ turn' = turn + 1
         /\ outcome'[turn + 1] = ""
         /\ DOMAIN outcome = 1 .. turn /\ DOMAIN outcome' = 1 .. turn + 1
         /\ \A t \in 1 .. turn : outcome'[t] = outcome[t] /\ inputs'[t] = inputs[t]
<1>1. Head(queue) \in Input
  BY HeadTailProperties DEF TypeOK, TakePayload
<1>0. inputs \in Seq(Input) /\ inputs' = Append(inputs, Head(queue))
  BY DEF TypeOK, TakePayload
<1>2. turn' = turn + 1 /\ \A t \in 1 .. turn : inputs'[t] = inputs[t]
  BY <1>0, <1>1, AppendProperties DEF turn
<1>3. outcome \in Seq(Reasons) /\ Len(outcome) = turn /\ outcome' = Append(outcome, "")
  BY DEF TypeOK, TakePayload, turn
<1>4. "" \in Reasons
  BY DEF Reasons
<1>5. /\ outcome' \in Seq(Reasons) /\ Len(outcome') = turn + 1 /\ outcome'[turn + 1] = ""
      /\ \A t \in 1 .. turn : outcome'[t] = outcome[t]
  <2> DEFINE e == ""
             S == Reasons
  <2>1. outcome \in Seq(S) /\ e \in S /\ outcome' = Append(outcome, e)
    BY <1>3, <1>4
  <2> HIDE DEF e, S
  <2>2. /\ outcome' \in Seq(S) /\ Len(outcome') = Len(outcome) + 1
        /\ \A t \in 1 .. Len(outcome) : outcome'[t] = outcome[t]
        /\ outcome'[Len(outcome) + 1] = e
    BY <2>1, AppendProperties
  <2> QED
    BY <1>3, <2>2 DEF e, S
<1>6. DOMAIN outcome = 1 .. turn /\ DOMAIN outcome' = 1 .. turn + 1
  BY <1>3, <1>5, LenProperties
<1> QED
  BY <1>1, <1>2, <1>5, <1>6


-----------------------------------------------------------------------------
(* Every action keeps the types. *)
LEMMA TypeStep ==
  ASSUME TypeOK, Handler, History, Commands, [Next]_vars
  PROVE  TypeOK'
<1>a. turn \in Nat
  BY TurnFacts
<1>b. inputs' = inputs => turn' = turn
  BY TurnFacts
<1>c. Typed
  BY TypedIsTypeOK
<1> SUFFICES Typed'
  BY TypedIsTypeOK
<1> USE <1>c DEF Typed, actorVars, brainVars, controlVars, counters
<1>1. CASE BeginTurn
  BY <1>1, <1>a, <1>b DEF BeginTurn, Phases
<1>2. CASE TakeIndex
  <2>1. index' \in Nat
    BY <1>2 DEF TakeIndex, Histories
  <2> QED
    BY <1>2, <1>b, <2>1 DEF TakeIndex, Phases
<1>3. CASE ActivateTurn
  <2>1. turn \in Nat /\ turn > 0 /\ index \in Nat
    BY <1>3, TurnFacts DEF ActivateTurn, Running, Handler
  <2>2. checkpoints' \in Checkpoints
    <3>1. /\ checkpoints' \subseteq checkpoints \cup {[id |-> turn, len |-> index]}
          /\ Cardinality(checkpoints') <= MaxCheckpoints
      BY <1>3, CreateFacts DEF ActivateTurn, Running
    <3> QED
      BY <2>1, <3>1 DEF Checkpoints
  <2>3. chat' \in Histories
    BY <1>3, <2>1 DEF ActivateTurn, Histories, Entry
  <2>4. pending' \in Orders
    BY <1>3 DEF ActivateTurn, Orders, Nothing
  <2>5. activeTurn' \in 0 .. turn
    BY <1>3, <2>1 DEF ActivateTurn
  <2> QED
    BY <1>3, <1>b, <2>2, <2>3, <2>4, <2>5 DEF ActivateTurn, Phases
<1>4. CASE AppendReply
  <2>1. chat' \in Histories
    <3>1. chat \in Histories /\ turn \in Nat
      BY <1>a DEF Histories, Entry
    <3>2. [turn |-> turn, role |-> "assistant"] \in Entry
      BY <3>1 DEF Entry
    <3> QED
      BY <1>4, <3>1, <3>2 DEF AppendReply, Histories
  <2>2. modelEnded' \subseteq 1 .. turn
    <3>1. phase = "streaming"
      BY <1>4 DEF AppendReply, Running
    <3>2. turn > 0
      BY <3>1 DEF Handler
    <3>3. turn \in 1 .. turn
      BY <1>a, <3>2
    <3> QED
      BY <1>4, <3>3 DEF AppendReply
  <2> QED
    BY <1>4, <1>b, <2>1, <2>2 DEF AppendReply, Phases
<1>5. CASE CompleteTurn
  <2>1. pending' \in Orders /\ lastFinish' \in Reasons
    BY <1>5 DEF CompleteTurn, Orders, Nothing, Reasons
  <2> QED
    BY <1>5, <1>a, <1>b, <2>1 DEF CompleteTurn, Phases
<1>6. CASE EndStream
  <2>1. outcome' \in Outcomes /\ Len(outcome') = turn
    BY <1>6, OutcomeGiven DEF EndStream, Reasons
  <2> QED
    BY <1>6, <1>b, <2>1 DEF EndStream, Phases
<1>7. CASE PersistMessage
  <2>1. replay' \in Inputs
    BY <1>7 DEF PersistMessage, HandlerDone, Inputs
  <2> QED
    BY <1>7, <1>b, <2>1 DEF PersistMessage, HandlerDone, Phases
<1>8. CASE FailTurn
  <2>1. Shrunk /\ lastFinish' \in Reasons /\ activeTurn' \in 0 .. turn
        /\ pending' \in Orders
    <3>1. MarkReplyTurnFailed(turn)
      BY <1>8 DEF FailTurn
    <3>2. Nothing \in Orders
      BY DEF Nothing, Orders
    <3> QED
      BY <3>1, <3>2, <1>a, FailureShrinks
  <2>2. chat' \in Histories /\ checkpoints' \in Checkpoints
    BY <2>1, ShrunkCheckpoints DEF Shrunk, Histories, Checkpoints
  <2>3. outcome' \in Outcomes /\ Len(outcome') = turn
    BY <1>8, OutcomeGiven DEF FailTurn, Reasons
  <2> QED
    BY <1>8, <1>b, <2>1, <2>2, <2>3 DEF FailTurn, Phases
<1>9. CASE EmitError
  <2>1. replay' \in Inputs
    BY <1>9 DEF EmitError, HandlerDone, Inputs
  <2> QED
    BY <1>9, <1>b, <2>1 DEF EmitError, HandlerDone, Phases
<1>10. CASE InterruptTurn
  <2>1. Shrunk /\ lastFinish' \in Reasons /\ activeTurn' \in 0 .. turn
        /\ pending' \in Orders
    <3>1. FinalizeReplyControl(turn) /\ PendingIsServable
      BY <1>10 DEF InterruptTurn, Commands
    <3>2. Nothing \in Orders
      BY DEF Nothing, Orders
    <3> QED
      BY <3>1, <3>2, <1>a, FinalizeShrinks
  <2>2. chat' \in Histories /\ checkpoints' \in Checkpoints
    BY <2>1, ShrunkCheckpoints DEF Shrunk, Histories, Checkpoints
  <2>3. turn \in 0 .. turn
    BY <1>a
  <2>4. replay' \in Inputs /\ replayed' \subseteq 1 .. turn
        /\ FinishReason(turn) \in Reasons
    BY <1>10, <2>3, FinalizeReturns DEF InterruptTurn, Inputs
  <2>5. outcome' \in Outcomes /\ Len(outcome') = turn
    BY <1>10, <2>4, OutcomeGiven DEF InterruptTurn
  <2> QED
    BY <1>10, <1>b, <2>1, <2>2, <2>4, <2>5 DEF InterruptTurn, Phases
<1>11. CASE CancelEscapes
  BY <1>11, <1>a, <1>b DEF CancelEscapes, Phases
<1>12. CASE EndInterrupted
  <2>1. queue' \in Inputs /\ replay' \in Inputs
    BY <1>12 DEF EndInterrupted, HandlerDone, Inputs
  <2> QED
    BY <1>12, <1>b, <2>1 DEF EndInterrupted, HandlerDone, Phases
<1>13. CASE TakePayload
  <2>1. Head(queue) \in Input /\ queue' \in Inputs
    BY <1>13, HeadTailProperties DEF TakePayload, Inputs
  <2>2. inputs' \in Inputs /\ turn' = turn + 1
    BY ZenonT(30), <1>13, <2>1, AppendProperties DEF TakePayload, Inputs, turn
  <2>3. "" \in Reasons
    BY DEF Reasons
  <2>4. outcome' \in Outcomes /\ Len(outcome') = turn + 1
    BY <1>13, <2>3, AppendProperties DEF TakePayload, Outcomes
  <2>5. \A t : (t \in 0 .. turn => t \in 0 .. (turn + 1))
        /\ (t \in 1 .. turn => t \in 1 .. (turn + 1))
    BY <1>a
  <2>6. modelEnded' \subseteq 1 .. turn' /\ replayed' \subseteq 1 .. turn'
    BY <1>13, <2>2, <2>5 DEF TakePayload
  <2> QED
    BY <1>13, <2>1, <2>2, <2>4, <2>5, <2>6 DEF TakePayload, Phases
<1>14. CASE TakeStop
  BY <1>14, <1>a, <1>b DEF TakeStop, Phases
<1>15. CASE CancelCurrent
  BY <1>15, <1>a, <1>b DEF CancelCurrent, Controls
<1>16. CASE NothingToCancel
  <2>1. Shrunk /\ lastFinish' \in Reasons /\ activeTurn' \in 0 .. turn
        /\ pending' \in Orders
    <3>1. FinalizeReplyControl(named) /\ PendingIsServable
      BY <1>16 DEF NothingToCancel, Commands
    <3>2. Nothing \in Orders
      BY DEF Nothing, Orders
    <3> QED
      BY <3>1, <3>2, <1>a, FinalizeShrinks
  <2>2. chat' \in Histories /\ checkpoints' \in Checkpoints
    BY <2>1, ShrunkCheckpoints DEF Shrunk, Histories, Checkpoints
  <2>3. ctlReplay' \in Inputs /\ replayed' \subseteq 1 .. turn
    BY <1>16, FinalizeReturns DEF NothingToCancel, Inputs
  <2> QED
    BY <1>16, <1>b, <2>1, <2>2, <2>3 DEF NothingToCancel, Controls
<1>17. CASE CancelReturns
  BY <1>17, <1>a, <1>b DEF CancelReturns, Controls
<1>18. CASE SubmitReplay
  <2>1. queue' \in Inputs /\ ctlReplay' \in Inputs
    <3>1. CASE ctlReplay = <<>>
      BY <1>18, <3>1 DEF SubmitReplay, Inputs
    <3>2. CASE ctlReplay # <<>>
      <4>1. queue' = queue \o ctlReplay /\ ctlReplay' = <<>>
        BY <1>18, <3>2 DEF SubmitReplay, Enqueue
      <4> QED
        BY <4>1 DEF Inputs
    <3> QED
      BY <3>1, <3>2
  <2>2. worker' \in {"none", "idle", "busy"}
    BY <1>18 DEF SubmitReplay, Enqueue
  <2> QED
    BY <1>18, <1>b, <2>1, <2>2 DEF SubmitReplay, Controls
<1>19. CASE PutStop
  <2>1. queue' \in Inputs
    BY <1>19 DEF PutStop, Enqueue, Inputs
  <2>2. worker' \in {"none", "idle", "busy"}
    BY <1>19 DEF PutStop, Enqueue
  <2> QED
    BY <1>19, <1>b, <2>1, <2>2 DEF PutStop, Controls
<1>20. CASE WorkerJoined
  BY <1>20, <1>a, <1>b DEF WorkerJoined, Controls
<1>21. CASE TrimHistory
  <2>1. chat' \in Histories
    BY <1>21, TrimShrinks DEF Shrunk, Histories
  <2>2. trims' \in 0 .. MaxTrims
    BY <1>21, ReplyTurnsAssumption DEF TrimHistory
  <2> QED
    BY <1>21, <1>b, <2>1, <2>2 DEF TrimHistory
<1>22. CASE ToolRound
  <2>1. chat' \in Histories
    BY <1>22, <1>a DEF ToolRound, Histories, Entry
  <2>2. toolRounds' \in 0 .. MaxToolRounds
    BY <1>22, ReplyTurnsAssumption DEF ToolRound
  <2> QED
    BY <1>22, <1>b, <2>1, <2>2 DEF ToolRound
<1>23. ASSUME NEW m \in Messages, SubmitMessage(m)
      PROVE  Typed'
  <2>1. [msg |-> m, guided |-> FALSE] \in Input
    BY <1>23 DEF Input
  <2>2. queue' \in Inputs
    BY <1>23, <2>1 DEF SubmitMessage, Enqueue, Inputs
  <2>3. worker' \in {"none", "idle", "busy"}
    BY <1>23 DEF SubmitMessage, Enqueue
  <2> QED
    BY <1>23, <1>b, <2>2, <2>3 DEF SubmitMessage
<1>24. ASSUME NEW action \in Actions, NEW cp \in CheckpointIds \cup {activeTurn},
              AcceptCommand(action, cp)
      PROVE  Typed'
  <2>1. cp \in Nat
    BY <1>24, <1>a DEF CheckpointIds, Checkpoints
  <2>2. pending' \in Orders
    BY <1>24, <2>1 DEF AcceptCommand, Orders
  <2>3. commands' \in 0 .. MaxCommands
    BY <1>24, ReplyTurnsAssumption DEF AcceptCommand, Command
  <2> QED
    BY <1>24, <1>b, <2>2, <2>3 DEF AcceptCommand, Command, Controls
<1>25. CASE RegenerateEnded
  <2>1. Shrunk
    BY <1>25, RestoreShrinks DEF RegenerateEnded
  <2>2. chat' \in Histories /\ checkpoints' \in Checkpoints
    BY <2>1, ShrunkCheckpoints DEF Shrunk, Histories, Checkpoints
  <2>3. pending' \in Orders /\ activeTurn' \in 0 .. turn
    BY <1>25, <1>a DEF RegenerateEnded, RestoreReplyCheckpoint, Orders, Nothing
  <2>4. commands' \in 0 .. MaxCommands
    BY <1>25, ReplyTurnsAssumption DEF RegenerateEnded, Command
  <2>5. latestReplay \in 1 .. turn
    BY <1>25 DEF RegenerateEnded, CheckpointIds, History
  <2>6. inputs[latestReplay] \in Input
    BY <2>5, ElementOfSeq DEF Inputs, turn
  <2>7. ctlReplay' \in Inputs
    BY <1>25, <2>6 DEF RegenerateEnded, Inputs
  <2>8. regenerated' \in Tallies
    BY <1>25, <2>6 DEF RegenerateEnded, Tallies, Input
  <2> QED
    BY <1>25, <1>b, <2>2, <2>3, <2>4, <2>7, <2>8 DEF RegenerateEnded, Command, Controls
<1>26. ASSUME NEW cp \in CheckpointIds, RollbackEnded(cp)
      PROVE  Typed'
  <2>1. Shrunk
    BY <1>26, RestoreShrinks DEF RollbackEnded
  <2>2. chat' \in Histories /\ checkpoints' \in Checkpoints
    BY <2>1, ShrunkCheckpoints DEF Shrunk, Histories, Checkpoints
  <2>3. pending' \in Orders /\ activeTurn' \in 0 .. turn
    BY <1>26, <1>a DEF RollbackEnded, RestoreReplyCheckpoint, Orders, Nothing
  <2>4. commands' \in 0 .. MaxCommands /\ lastFinish' \in Reasons
    <3>1. commands' \in 0 .. MaxCommands
      BY <1>26, ReplyTurnsAssumption DEF RollbackEnded, Command
    <3>2. lastFinish' \in Reasons
      BY <1>26 DEF RollbackEnded, Reasons
    <3> QED
      BY <3>1, <3>2
  <2> QED
    BY <1>26, <1>b, <2>2, <2>3, <2>4 DEF RollbackEnded, Command
<1>27. CASE Shutdown
  BY <1>27, <1>a, <1>b DEF Shutdown, Controls
<1>28. CASE UNCHANGED vars
  BY <1>28, <1>b DEF vars
<1> QED
  BY StepCases, <1>1, <1>2, <1>3, <1>4, <1>5, <1>6, <1>7, <1>8, <1>9, <1>10, <1>11, <1>12,
     <1>13, <1>14, <1>15, <1>16, <1>17, <1>18, <1>19, <1>20, <1>21, <1>22, <1>23, <1>24,
     <1>25, <1>26, <1>27, <1>28

(* Every action keeps where the handler task is. *)
LEMMA HandlerStep ==
  ASSUME TypeOK, Handler, Commands, [Next]_vars
  PROVE  Handler'
<1>a. turn \in Nat
  BY TurnFacts
<1>b. inputs' = inputs => turn' = turn
  BY TurnFacts
<1> USE DEF Handler, Early, actorVars, brainVars, controlVars, counters
<1>1. CASE BeginTurn
  BY <1>1, <1>b DEF BeginTurn, Running
<1>2. CASE TakeIndex
  BY <1>2, <1>b DEF TakeIndex, Running
<1>3. CASE ActivateTurn
  BY <1>3, <1>b DEF ActivateTurn, Running, CreateReplyCheckpoint
<1>4. CASE AppendReply
  BY <1>4, <1>b DEF AppendReply, Running
<1>5. CASE CompleteTurn
  BY <1>5, <1>b DEF CompleteTurn, Running
<1>6. CASE EndStream
  BY <1>6, <1>b DEF EndStream, Running
<1>7. CASE PersistMessage
  BY <1>7, <1>b DEF PersistMessage, Running, HandlerDone
<1>8. CASE FailTurn
  <2>1. turn \in DOMAIN outcome
    BY <1>8, RunningTurn DEF FailTurn, InTry
  <2>2. outcome'[turn] = "failed"
    BY <1>8, <2>1 DEF FailTurn
  <2> QED
    BY <1>8, <1>b, <2>2 DEF FailTurn, InTry
<1>9. CASE EmitError
  BY <1>9, <1>b DEF EmitError, Running, HandlerDone
<1>10. CASE InterruptTurn
  BY <1>10, <1>b DEF InterruptTurn, InTry
<1>11. CASE CancelEscapes
  BY <1>11, <1>b DEF CancelEscapes
<1>12. CASE EndInterrupted
  BY <1>12, <1>b DEF EndInterrupted, HandlerDone
<1>13. CASE TakePayload
  <2>1. turn' = turn + 1 /\ outcome'[turn + 1] = ""
    BY <1>13, TakeFacts
  <2>2. phase = "none" /\ ~cancelled
    BY <1>13 DEF TakePayload
  <2>3. phase' = "created" /\ worker' = "busy" /\ ~cancelled'
    BY <1>13, <2>2 DEF TakePayload
  <2>4. turn' > 0
    <3>1. turn' = turn + 1
      BY <2>1
    <3> HIDE DEF Handler
    <3> QED
      BY ONLY <1>a, <3>1
  <2>5. outcome'[turn'] = ""
    BY <2>1
  <2> QED
    BY <2>3, <2>4, <2>5
<1>14. CASE TakeStop
  BY <1>14, <1>b DEF TakeStop
<1>15. CASE CancelCurrent
  BY <1>15, <1>b DEF CancelCurrent
<1>16. CASE NothingToCancel
  BY <1>16, <1>b DEF NothingToCancel
<1>17. CASE CancelReturns
  BY <1>17, <1>b DEF CancelReturns, HandlerGone
<1>18. CASE SubmitReplay
  BY <1>18, <1>b DEF SubmitReplay, Enqueue
<1>19. CASE PutStop
  BY <1>19, <1>b DEF PutStop, Enqueue, HandlerGone
<1>20. CASE WorkerJoined
  BY <1>20, <1>b DEF WorkerJoined
<1>21. CASE TrimHistory
  BY <1>21, <1>b DEF TrimHistory, Running
<1>22. CASE ToolRound
  BY <1>22, <1>b DEF ToolRound, Running
<1>23. ASSUME NEW m \in Messages, SubmitMessage(m)
      PROVE  Handler'
  BY <1>23, <1>b DEF SubmitMessage, Enqueue
<1>24. ASSUME NEW action \in Actions, NEW cp \in CheckpointIds \cup {activeTurn},
              AcceptCommand(action, cp)
      PROVE  Handler'
  BY <1>24, <1>b DEF AcceptCommand, Command
<1>25. CASE RegenerateEnded
  BY <1>25, <1>b DEF RegenerateEnded, Command, RestoreReplyCheckpoint
<1>26. ASSUME NEW cp \in CheckpointIds, RollbackEnded(cp)
      PROVE  Handler'
  BY <1>26, <1>b DEF RollbackEnded, Command, RestoreReplyCheckpoint
<1>27. CASE Shutdown
  BY <1>27, <1>b DEF Shutdown
<1>28. CASE UNCHANGED vars
  BY <1>28, <1>b DEF vars
<1> QED
  BY StepCases, <1>1, <1>2, <1>3, <1>4, <1>5, <1>6, <1>7, <1>8, <1>9, <1>10, <1>11, <1>12,
     <1>13, <1>14, <1>15, <1>16, <1>17, <1>18, <1>19, <1>20, <1>21, <1>22, <1>23, <1>24,
     <1>25, <1>26, <1>27, <1>28

(* What only shrinks stays within the turns there are. *)
LEMMA ShrunkHistory ==
  ASSUME TypeOK, History, Shrunk, inputs' = inputs, phase' \in Early => phase \in Early
  PROVE  History'
<1>1. turn' = turn
  BY TurnFacts
<1>2. IsFiniteSet(checkpoints') /\ \A c, d \in checkpoints' : c.id = d.id => c = d
  BY ShrunkCheckpoints
<1>3. \A c \in checkpoints' : c.id \in 1 .. turn /\ (phase' \in Early => c.id # turn)
  BY DEF History, Shrunk
<1>4. \A i \in DOMAIN chat' : chat'[i].turn \in 1 .. turn
      /\ (phase' \in Early => chat'[i].turn # turn)
  BY DEF History, Shrunk
<1> QED
  BY <1>1, <1>2, <1>3, <1>4 DEF History

(* An entry of the running turn joins the history. *)
LEMMA AppendedHistory ==
  ASSUME TypeOK, History, turn \in 1 .. turn, NEW e \in Entry, e.turn = turn,
         chat' = Append(chat, e)
  PROVE  /\ \A i \in DOMAIN chat' : chat'[i].turn \in 1 .. turn
         /\ \A i \in DOMAIN chat' : chat'[i] = e
            \/ \E j \in DOMAIN chat : chat'[i] = chat[j]
<1>1. chat \in Seq(Entry)
  BY DEF TypeOK, Entry
<1>2. \A i \in DOMAIN chat' : chat'[i] = e \/ (i \in DOMAIN chat /\ chat'[i] = chat[i])
  BY <1>1, AppendProperties
<1> QED
  BY <1>2 DEF History

(* Every action keeps where the history and the checkpoints come from. *)
LEMMA HistoryStep ==
  ASSUME TypeOK, Handler, History, Commands, [Next]_vars
  PROVE  History'
<1>a. turn \in Nat
  BY TurnFacts
<1>b. inputs' = inputs => turn' = turn
  BY TurnFacts
<1>1. CASE \/ BeginTurn \/ TakeIndex \/ CompleteTurn \/ EndStream \/ PersistMessage
      \/ EmitError \/ CancelEscapes \/ EndInterrupted \/ TakeStop \/ CancelCurrent
      \/ CancelReturns \/ SubmitReplay \/ PutStop \/ WorkerJoined \/ Shutdown
  <2>1. UNCHANGED <<inputs, chat, checkpoints>> /\ (phase' \in Early => phase \in Early)
    BY <1>1
    DEF BeginTurn, TakeIndex, CompleteTurn, EndStream, PersistMessage,
           EmitError, CancelEscapes, EndInterrupted, TakeStop, CancelCurrent,
           CancelReturns, SubmitReplay, PutStop, WorkerJoined, Shutdown, Running,
           HandlerDone, Enqueue, Early, actorVars, brainVars,
        controlVars, counters
  <2> QED
    BY <1>b, <2>1 DEF History
<1>2. CASE ActivateTurn
  <2>1. phase' \notin Early /\ inputs' = inputs /\ phase = "indexed"
        /\ CreateReplyCheckpoint
    BY <1>2 DEF ActivateTurn, Running, Early
  <2>2. turn \in 1 .. turn
    BY <2>1, RunningTurn
  <2>3. \E e : e.turn = turn /\ chat' = Append(chat, e) /\ e \in Entry
    BY <1>2, <1>a DEF ActivateTurn, Entry
  <2>4. \A i \in DOMAIN chat' : chat'[i].turn \in 1 .. turn
    BY <2>2, <2>3, AppendedHistory
  <2>5. /\ checkpoints' \subseteq checkpoints \cup {[id |-> turn, len |-> index]}
        /\ IsFiniteSet(checkpoints')
        /\ \A c, d \in checkpoints' : c.id = d.id => c = d
    BY <2>1, CreateFacts
  <2>6. \A c \in checkpoints' : c.id \in 1 .. turn
    BY <2>2, <2>5 DEF History
  <2> QED
    BY <1>b, <2>1, <2>4, <2>5, <2>6 DEF History
<1>3. CASE AppendReply
  <2>1. phase \notin Early /\ phase' \notin Early /\ checkpoints' = checkpoints
        /\ inputs' = inputs
    BY <1>3 DEF AppendReply, Running, Early, actorVars
  <2>2. turn \in 1 .. turn
    BY <1>3, RunningTurn DEF AppendReply, Running
  <2>3. chat' = chat \/ \E e : e.turn = turn /\ chat' = Append(chat, e) /\ e \in Entry
    BY <1>3, <1>a DEF AppendReply, Entry
  <2>4. \A i \in DOMAIN chat' : chat'[i].turn \in 1 .. turn
    BY <2>2, <2>3, AppendedHistory DEF History
  <2> QED
    BY <1>b, <2>1, <2>4 DEF History
<1>4. CASE FailTurn
  <2>1. MarkReplyTurnFailed(turn) /\ inputs' = inputs /\ phase' = "failing"
    BY <1>4 DEF FailTurn, actorVars
  <2>2. Shrunk
    BY <2>1, FailureShrinks
  <2> QED
    BY <2>1, <2>2, ShrunkHistory DEF Early
<1>5. CASE InterruptTurn
  <2>1. FinalizeReplyControl(turn) /\ PendingIsServable /\ inputs' = inputs
        /\ phase' = "ending"
    BY <1>5 DEF InterruptTurn, Commands
  <2>2. Shrunk
    BY <2>1, FinalizeShrinks
  <2> QED
    BY <2>1, <2>2, ShrunkHistory DEF Early
<1>6. CASE TakePayload
  <2>1. turn' = turn + 1 /\ checkpoints' = checkpoints /\ chat' = chat
    BY <1>6, TakeFacts DEF TakePayload, brainVars
  <2>2. \A t \in 1 .. turn : t \in 1 .. (turn + 1) /\ t # turn + 1
    BY <1>a
  <2> QED
    BY <2>1, <2>2 DEF History
<1>7. CASE NothingToCancel
  <2>1. FinalizeReplyControl(named) /\ PendingIsServable /\ inputs' = inputs
        /\ phase' = phase
    BY <1>7 DEF NothingToCancel, Commands, actorVars
  <2>2. Shrunk
    BY <2>1, FinalizeShrinks
  <2> QED
    BY <2>1, <2>2, ShrunkHistory DEF Early
<1>8. CASE TrimHistory
  <2>1. TrimHistory /\ inputs' = inputs /\ phase' = phase
    BY <1>8 DEF TrimHistory, actorVars
  <2>2. Shrunk
    BY <2>1, TrimShrinks
  <2> QED
    BY <2>1, <2>2, ShrunkHistory DEF Early
<1>9. CASE ToolRound
  <2>1. phase \notin Early /\ phase' \notin Early /\ checkpoints' = checkpoints
        /\ inputs' = inputs
    BY <1>9 DEF ToolRound, Running, Early, actorVars
  <2>2. turn \in 1 .. turn
    BY <1>9, RunningTurn DEF ToolRound, Running
  <2>3. \E e : e.turn = turn /\ chat' = Append(chat, e) /\ e \in Entry
    BY <1>9, <1>a DEF ToolRound, Entry
  <2>4. \A i \in DOMAIN chat' : chat'[i].turn \in 1 .. turn
    BY <2>2, <2>3, AppendedHistory
  <2> QED
    BY <1>b, <2>1, <2>4 DEF History
<1>10. ASSUME NEW m \in Messages, SubmitMessage(m)
      PROVE  History'
  <2>1. UNCHANGED <<inputs, chat, checkpoints>> /\ (phase' \in Early => phase \in Early)
    BY <1>10 DEF SubmitMessage, Enqueue, Early, actorVars, brainVars, controlVars,
       counters
  <2> QED
    BY <1>b, <2>1 DEF History
<1>11. ASSUME NEW action \in Actions, NEW cp \in CheckpointIds \cup {activeTurn},
              AcceptCommand(action, cp)
      PROVE  History'
  <2>1. UNCHANGED <<inputs, chat, checkpoints>> /\ (phase' \in Early => phase \in Early)
    BY <1>11 DEF AcceptCommand, Command, Early, actorVars, brainVars, controlVars,
       counters
  <2> QED
    BY <1>b, <2>1 DEF History
<1>12. CASE RegenerateEnded
  <2>1. /\ RestoreReplyCheckpoint(latestReplay) /\ latestReplay \in CheckpointIds
        /\ inputs' = inputs /\ phase' = phase
    BY <1>12 DEF RegenerateEnded, actorVars
  <2>2. Shrunk
    BY <2>1, RestoreShrinks
  <2> QED
    BY <2>1, <2>2, ShrunkHistory DEF Early
<1>13. ASSUME NEW cp \in CheckpointIds, RollbackEnded(cp)
      PROVE  History'
  <2>1. RestoreReplyCheckpoint(cp) /\ cp \in CheckpointIds /\ inputs' = inputs
        /\ phase' = phase
    BY <1>13 DEF RollbackEnded, actorVars
  <2>2. Shrunk
    BY <2>1, RestoreShrinks
  <2> QED
    BY <2>1, <2>2, ShrunkHistory DEF Early
<1>14. CASE UNCHANGED vars
  BY <1>14, <1>b DEF History, vars, actorVars, brainVars, controlVars, counters
<1> QED
  BY StepCases, <1>1, <1>2, <1>3, <1>4, <1>5, <1>6, <1>7, <1>8, <1>9, <1>10, <1>11, <1>12,
     <1>13, <1>14

(* Every action keeps what a command can meet. *)
LEMMA CommandsStep ==
  ASSUME TypeOK, Handler, History, Commands, [Next]_vars
  PROVE  Commands'
<1>a. turn \in Nat
  BY TurnFacts
<1>b. inputs' = inputs => turn' = turn
  BY TurnFacts
<1>c. checkpoints' = checkpoints => CheckpointIds' = CheckpointIds
  BY DEF CheckpointIds
<1> USE DEF Commands, ActiveTurnIsRunning, PendingIsServable, actorVars, brainVars,
        controlVars, counters
<1>1. CASE BeginTurn
  BY <1>1, <1>b, <1>c DEF BeginTurn, Running, Running
<1>2. CASE TakeIndex
  BY <1>2, <1>b, <1>c DEF TakeIndex, Running, Running
<1>3. CASE ActivateTurn
  <2>1. [id |-> turn, len |-> index] \in checkpoints'
    BY <1>3, CreateFacts DEF ActivateTurn, Running
  <2>2. turn \in CheckpointIds'
    BY <2>1 DEF CheckpointIds
  <2>3. activeTurn' = turn /\ pending' = Nothing /\ phase' = "streaming"
    BY <1>3 DEF ActivateTurn
  <2>4. inputs' = inputs
    BY <1>3 DEF ActivateTurn
  <2> QED
    BY <1>b, <2>2, <2>3, <2>4
<1>4. CASE AppendReply
  BY <1>4, <1>b, <1>c DEF AppendReply, Running
<1>5. CASE CompleteTurn
  BY <1>5 DEF CompleteTurn
<1>6. CASE EndStream
  BY <1>6, <1>b, <1>c DEF EndStream, Running, Running
<1>7. CASE PersistMessage
  BY <1>7, <1>b, <1>c DEF PersistMessage, Running, HandlerDone, Running
<1>8. CASE FailTurn
  <2>1. /\ MarkReplyTurnFailed(turn) /\ phase' = "failing" /\ ctl' = ctl /\ named' = named
        /\ awaited' = awaited
    BY <1>8 DEF FailTurn
  <2>2. activeTurn' = 0 /\ pending' = Nothing
    BY <2>1, FailureShrinks DEF Finalizes
  <2> QED
    BY <1>a, <2>1, <2>2
<1>9. CASE EmitError
  BY <1>9, <1>b, <1>c DEF EmitError, Running, HandlerDone, Running
<1>10. CASE InterruptTurn
  <2>1. /\ FinalizeReplyControl(turn) /\ phase' = "ending" /\ ctl' = ctl /\ named' = named
        /\ awaited' = awaited
    BY <1>10 DEF InterruptTurn
  <2>2. activeTurn' = 0 /\ pending' = Nothing
    BY <2>1, FinalizeShrinks DEF Finalizes
  <2> QED
    BY <1>a, <2>1, <2>2
<1>11. CASE CancelEscapes
  BY <1>11, <1>b, <1>c DEF CancelEscapes
<1>12. CASE EndInterrupted
  BY <1>12, <1>b, <1>c DEF EndInterrupted, HandlerDone
<1>13. CASE TakePayload
  <2>1. activeTurn = 0 /\ pending = Nothing
    BY <1>13 DEF TakePayload, Handler
  <2>2. activeTurn' = 0 /\ pending' = Nothing /\ phase' = "created"
    BY <1>13, <2>1 DEF TakePayload
  <2> QED
    BY <2>2
<1>14. CASE TakeStop
  BY <1>14, <1>b, <1>c DEF TakeStop
<1>15. CASE CancelCurrent
  BY <1>15, <1>b, <1>c DEF CancelCurrent
<1>16. CASE NothingToCancel
  <2>1. activeTurn = 0 /\ pending = Nothing /\ phase = "none"
    BY <1>16 DEF NothingToCancel
  <2>2. activeTurn' = 0 /\ pending' = Nothing
    BY <1>16, <2>1, FinalizeShrinks DEF NothingToCancel, Finalizes
  <2> QED
    BY <1>16, <1>a, <2>1, <2>2 DEF NothingToCancel
<1>17. CASE CancelReturns
  BY <1>17, <1>b, <1>c DEF CancelReturns, HandlerGone
<1>18. CASE SubmitReplay
  BY <1>18, <1>b, <1>c DEF SubmitReplay, Enqueue
<1>19. CASE PutStop
  BY <1>19, <1>b, <1>c DEF PutStop, Enqueue, HandlerGone
<1>20. CASE WorkerJoined
  BY <1>20, <1>b, <1>c DEF WorkerJoined
<1>21. CASE TrimHistory
  BY <1>21, <1>b, <1>c DEF TrimHistory, Running
<1>22. CASE ToolRound
  BY <1>22, <1>b, <1>c DEF ToolRound, Running
<1>23. ASSUME NEW m \in Messages, SubmitMessage(m)
      PROVE  Commands'
  BY <1>23, <1>b, <1>c DEF SubmitMessage, Enqueue
<1>24. ASSUME NEW action \in Actions, NEW cp \in CheckpointIds \cup {activeTurn},
              AcceptCommand(action, cp)
      PROVE  Commands'
  <2>1. cp \in CheckpointIds
    BY <1>24 DEF AcceptCommand
  <2> QED
    BY <1>24, <1>b, <1>c, <2>1 DEF AcceptCommand, Command
<1>25. CASE RegenerateEnded
  <2>1. /\ activeTurn = 0 /\ activeTurn' = 0 /\ pending' = Nothing
        /\ phase' = phase /\ inputs' = inputs /\ lastFinish' = lastFinish
    BY <1>25 DEF RegenerateEnded, RestoreReplyCheckpoint
  <2> QED
    BY <1>b, <2>1
<1>26. ASSUME NEW cp \in CheckpointIds, RollbackEnded(cp)
      PROVE  Commands'
  <2>1. /\ activeTurn = 0 /\ activeTurn' = 0 /\ pending' = Nothing
        /\ phase' = phase /\ inputs' = inputs /\ lastFinish' = "rolled_back"
    BY <1>26 DEF RollbackEnded, RestoreReplyCheckpoint
  <2> QED
    BY <1>b, <2>1
<1>27. CASE Shutdown
  BY <1>27, <1>b, <1>c DEF Shutdown
<1>28. CASE UNCHANGED vars
  BY <1>28, <1>b, <1>c DEF vars
<1> QED
  BY StepCases, <1>1, <1>2, <1>3, <1>4, <1>5, <1>6, <1>7, <1>8, <1>9, <1>10, <1>11, <1>12,
     <1>13, <1>14, <1>15, <1>16, <1>17, <1>18, <1>19, <1>20, <1>21, <1>22, <1>23, <1>24,
     <1>25, <1>26, <1>27, <1>28

(* Every action keeps where replays wait. *)
LEMMA ReplaysStep ==
  ASSUME TypeOK, Handler, Commands, Replays, [Next]_vars
  PROVE  Replays'
<1>a. turn \in Nat
  BY TurnFacts
<1>b. inputs' = inputs => turn' = turn
  BY TurnFacts
<1> USE DEF Replays, actorVars, brainVars, controlVars, counters
<1>1. CASE BeginTurn
  BY <1>1, <1>b DEF BeginTurn, Running, InTry, Phases
<1>2. CASE TakeIndex
  BY <1>2, <1>b DEF TakeIndex, Running, InTry, Phases
<1>3. CASE ActivateTurn
  BY <1>3, <1>b DEF ActivateTurn, Running, InTry, Phases
<1>4. CASE AppendReply
  BY <1>4, <1>b DEF AppendReply, Running, InTry, Phases
<1>5. CASE CompleteTurn
  BY <1>5, <1>b DEF CompleteTurn, Running, InTry, Phases
<1>6. CASE EndStream
  BY <1>6, <1>b DEF EndStream, Running, InTry, Phases
<1>7. CASE PersistMessage
  BY <1>7, <1>b DEF PersistMessage, HandlerDone, Running, InTry
<1>8. CASE FailTurn
  BY <1>8, <1>b DEF FailTurn, InTry, Phases
<1>9. CASE EmitError
  BY <1>9, <1>b DEF EmitError, HandlerDone, Running, InTry
<1>10. CASE InterruptTurn
  <2>1. replay' # <<>> => ctl = "cancelling" /\ named = turn
    <3>1. replay' # <<>> => pending # Nothing /\ activeTurn = turn
      BY <1>10 DEF InterruptTurn, ReplayInput, Finalizes, Nothing
    <3>2. ctl \in {"cancelling", "closing"}
      BY <1>10 DEF InterruptTurn, Handler
    <3> QED
      BY <3>1, <3>2 DEF Commands, PendingIsServable
  <2>2. cancelled /\ awaited = turn
    BY <1>10 DEF InterruptTurn, Handler
  <2> QED
    BY <1>10, <1>b, <2>1, <2>2 DEF InterruptTurn, InTry, Phases
<1>11. CASE CancelEscapes
  BY <1>11, <1>b DEF CancelEscapes, InTry, Phases
<1>12. CASE EndInterrupted
  BY <1>12, <1>b DEF EndInterrupted, HandlerDone, Running, InTry
<1>13. CASE TakePayload
  <2>1. turn' = turn + 1
    BY <1>13, TakeFacts
  <2>2. turn + 1 \notin replayed
    BY <1>a DEF TypeOK
  <2>3. phase = "none"
    BY <1>13 DEF TakePayload, Handler
  <2> QED
    BY <1>13, <2>1, <2>2, <2>3 DEF TakePayload
<1>14. CASE TakeStop
  BY <1>14, <1>b DEF TakeStop
<1>15. CASE CancelCurrent
  BY <1>15, <1>b DEF CancelCurrent
<1>16. CASE NothingToCancel
  <2>1. phase \notin InTry \cup {"created"} /\ replay = <<>>
    BY <1>16 DEF NothingToCancel, InTry
  <2> QED
    BY <1>16, <1>b, <2>1 DEF NothingToCancel
<1>17. CASE CancelReturns
  BY <1>17, <1>b DEF CancelReturns, HandlerGone
<1>18. CASE SubmitReplay
  BY <1>18, <1>b DEF SubmitReplay, Enqueue
<1>19. CASE PutStop
  BY <1>19, <1>b DEF PutStop, Enqueue, HandlerGone
<1>20. CASE WorkerJoined
  BY <1>20, <1>b DEF WorkerJoined
<1>21. CASE TrimHistory
  BY <1>21, <1>b DEF TrimHistory, Running
<1>22. CASE ToolRound
  BY <1>22, <1>b DEF ToolRound, Running
<1>23. ASSUME NEW m \in Messages, SubmitMessage(m)
      PROVE  Replays'
  BY <1>23, <1>b DEF SubmitMessage, Enqueue
<1>24. ASSUME NEW action \in Actions, NEW cp \in CheckpointIds \cup {activeTurn},
              AcceptCommand(action, cp)
      PROVE  Replays'
  BY <1>24, <1>b DEF AcceptCommand, Command
<1>25. CASE RegenerateEnded
  BY <1>25, <1>b DEF RegenerateEnded, Command, RestoreReplyCheckpoint
<1>26. ASSUME NEW cp \in CheckpointIds, RollbackEnded(cp)
      PROVE  Replays'
  BY <1>26, <1>b DEF RollbackEnded, Command, RestoreReplyCheckpoint
<1>27. CASE Shutdown
  BY <1>27, <1>b DEF Shutdown
<1>28. CASE UNCHANGED vars
  BY <1>28, <1>b DEF vars
<1> QED
  BY StepCases, <1>1, <1>2, <1>3, <1>4, <1>5, <1>6, <1>7, <1>8, <1>9, <1>10, <1>11, <1>12,
     <1>13, <1>14, <1>15, <1>16, <1>17, <1>18, <1>19, <1>20, <1>21, <1>22, <1>23, <1>24,
     <1>25, <1>26, <1>27, <1>28

(* Every action keeps who strands the queue. *)
LEMMA StrandedStep ==
  ASSUME TypeOK, Handler, StrandedOnlyByEscape, [Next]_vars
  PROVE  StrandedOnlyByEscape'
<1>a. turn \in Nat
  BY TurnFacts
<1>b. inputs' = inputs => turn' = turn
  BY TurnFacts
<1> USE DEF StrandedOnlyByEscape, actorVars, brainVars, controlVars, counters
<1>1. CASE BeginTurn
  BY <1>1, <1>b DEF BeginTurn, Running
<1>2. CASE TakeIndex
  BY <1>2, <1>b DEF TakeIndex, Running
<1>3. CASE ActivateTurn
  BY <1>3, <1>b DEF ActivateTurn, Running, CreateReplyCheckpoint
<1>4. CASE AppendReply
  BY <1>4, <1>b DEF AppendReply, Running
<1>5. CASE CompleteTurn
  BY <1>5, <1>b DEF CompleteTurn, Running
<1>6. CASE EndStream
  <2>1. worker = "busy" /\ worker' = worker
    BY <1>6 DEF EndStream, Running, Handler, InTry
  <2> QED
    BY <2>1
<1>7. CASE PersistMessage
  BY <1>7, <1>b DEF PersistMessage, Running, HandlerDone
<1>8. CASE FailTurn
  <2>1. worker = "busy" /\ worker' = worker
    BY <1>8 DEF FailTurn, Running, Handler, InTry
  <2> QED
    BY <2>1
<1>9. CASE EmitError
  BY <1>9, <1>b DEF EmitError, Running, HandlerDone
<1>10. CASE InterruptTurn
  <2>1. worker = "busy" /\ worker' = worker
    BY <1>10 DEF InterruptTurn, Running, Handler, InTry
  <2> QED
    BY <2>1
<1>11. CASE CancelEscapes
  <2>1. turn > 0 /\ outcome[turn] \in {"", "failed"}
    BY <1>11 DEF CancelEscapes, Handler, Early
  <2> QED
    BY <1>11, <1>b, <2>1 DEF CancelEscapes
<1>12. CASE EndInterrupted
  BY <1>12, <1>b DEF EndInterrupted, HandlerDone
<1>13. CASE TakePayload
  BY <1>13 DEF TakePayload
<1>14. CASE TakeStop
  BY <1>14, <1>b DEF TakeStop
<1>15. CASE CancelCurrent
  BY <1>15, <1>b DEF CancelCurrent
<1>16. CASE NothingToCancel
  BY <1>16, <1>b DEF NothingToCancel
<1>17. CASE CancelReturns
  BY <1>17, <1>b DEF CancelReturns
<1>18. CASE SubmitReplay
  <2>1. \/ queue' = queue /\ worker' = worker
        \/ worker' # "none"
    BY <1>18 DEF SubmitReplay, Enqueue
  <2> QED
    BY <1>18, <1>b, <2>1 DEF SubmitReplay
<1>19. CASE PutStop
  BY <1>19, <1>b DEF PutStop, Enqueue
<1>20. CASE WorkerJoined
  BY <1>20, <1>b DEF WorkerJoined
<1>21. CASE TrimHistory
  BY <1>21, <1>b DEF TrimHistory, Running
<1>22. CASE ToolRound
  BY <1>22, <1>b DEF ToolRound, Running
<1>23. ASSUME NEW m \in Messages, SubmitMessage(m)
      PROVE  StrandedOnlyByEscape'
  BY <1>23, <1>b DEF SubmitMessage, Enqueue
<1>24. ASSUME NEW action \in Actions, NEW cp \in CheckpointIds \cup {activeTurn},
              AcceptCommand(action, cp)
      PROVE  StrandedOnlyByEscape'
  BY <1>24, <1>b DEF AcceptCommand, Command
<1>25. CASE RegenerateEnded
  BY <1>25, <1>b DEF RegenerateEnded, Command, RestoreReplyCheckpoint
<1>26. ASSUME NEW cp \in CheckpointIds, RollbackEnded(cp)
      PROVE  StrandedOnlyByEscape'
  BY <1>26, <1>b DEF RollbackEnded, Command, RestoreReplyCheckpoint
<1>27. CASE Shutdown
  BY <1>27, <1>b DEF Shutdown
<1>28. CASE UNCHANGED vars
  BY <1>28, <1>b DEF vars
<1> QED
  BY StepCases, <1>1, <1>2, <1>3, <1>4, <1>5, <1>6, <1>7, <1>8, <1>9, <1>10, <1>11, <1>12,
     <1>13, <1>14, <1>15, <1>16, <1>17, <1>18, <1>19, <1>20, <1>21, <1>22, <1>23, <1>24,
     <1>25, <1>26, <1>27, <1>28

(* What leaves the outcomes alone and adds nothing of a turn that was told   *)
(* its end.                                                                 *)
LEMMA OutcomeKept ==
  ASSUME TypeOK, OutcomeIsOwn, outcome' = outcome, modelEnded \subseteq modelEnded',
         replayed \subseteq replayed',
         \A i \in DOMAIN chat' : \/ outcome[chat'[i].turn] = ""
                                 \/ \E j \in DOMAIN chat : chat'[i] = chat[j]
  PROVE  OutcomeIsOwn'
BY DEF OutcomeIsOwn

(* What tells turn t a finish_reason and adds nothing to the history. *)
LEMMA OutcomeTold ==
  ASSUME TypeOK, OutcomeIsOwn, NEW t \in DOMAIN outcome, NEW r \in Reasons,
         outcome' = [outcome EXCEPT ![t] = r], modelEnded' = modelEnded,
         replayed \subseteq replayed',
         \/ \A i \in DOMAIN chat : chat[i].turn # t
         \/ (r = "completed" => t \in modelEnded) /\ (r = "replayed" => t \in replayed'),
         \A i \in DOMAIN chat' : \E j \in DOMAIN chat : chat'[i] = chat[j]
  PROVE  OutcomeIsOwn'
<1>1. DOMAIN outcome' = DOMAIN outcome
  BY DEF TypeOK
<1>2. outcome'[t] = r /\ \A u \in DOMAIN outcome : u # t => outcome'[u] = outcome[u]
  BY DEF TypeOK
<1> QED
  BY <1>1, <1>2 DEF OutcomeIsOwn

(* A turn that was replayed stays one. *)
LEMMA ReplayedGrows ==
  ASSUME [Next]_vars
  PROVE  replayed \subseteq replayed'
<1>1. CASE InterruptTurn \/ NothingToCancel
  BY <1>1 DEF InterruptTurn, NothingToCancel, Replayed
<1>2. CASE ~(InterruptTurn \/ NothingToCancel)
  BY <1>2, StepCases
  DEF BeginTurn, TakeIndex, ActivateTurn, AppendReply, CompleteTurn, EndStream,
      PersistMessage, FailTurn, EmitError, CancelEscapes, EndInterrupted,
      TakePayload, TakeStop, CancelCurrent, CancelReturns, SubmitReplay, PutStop,
      WorkerJoined, TrimHistory, ToolRound, SubmitMessage, AcceptCommand,
      RegenerateEnded, RollbackEnded, Shutdown, vars
<1> QED
  BY <1>1, <1>2

(* Every action keeps that a turn in the history is told its own end. *)
LEMMA OutcomeStep ==
  ASSUME TypeOK, Handler, History, Commands, OutcomeIsOwn, [Next]_vars
  PROVE  OutcomeIsOwn'
<1>a. turn \in Nat
  BY TurnFacts
<1>b. inputs' = inputs => turn' = turn
  BY TurnFacts
<1>c. replayed \subseteq replayed'
  BY ReplayedGrows
<1>1. CASE \/ BeginTurn \/ TakeIndex \/ CompleteTurn \/ PersistMessage \/ EmitError
      \/ CancelEscapes \/ EndInterrupted \/ TakeStop \/ CancelCurrent \/ CancelReturns
      \/ SubmitReplay \/ PutStop \/ WorkerJoined \/ Shutdown
  <2>1. outcome' = outcome /\ modelEnded' = modelEnded /\ chat' = chat
    BY <1>1
    DEF BeginTurn, TakeIndex, CompleteTurn, PersistMessage, EmitError,
           CancelEscapes, EndInterrupted, TakeStop, CancelCurrent, CancelReturns,
           SubmitReplay, PutStop, WorkerJoined, Shutdown, Running, HandlerDone,
           Enqueue, brainVars
  <2> QED
    BY <2>1, <1>c, OutcomeKept
<1>2. CASE ActivateTurn
  <2>1. outcome' = outcome /\ modelEnded \subseteq modelEnded' /\ outcome[turn] = ""
    BY <1>2 DEF ActivateTurn, Running, Handler, Early
  <2>2. turn \in 1 .. turn
    BY <1>2, RunningTurn DEF ActivateTurn, Running
  <2>3. \E e : e.turn = turn /\ chat' = Append(chat, e) /\ e \in Entry
    BY <1>2, <1>a DEF ActivateTurn, Entry
  <2>4. \A i \in DOMAIN chat' : chat'[i].turn = turn
        \/ \E j \in DOMAIN chat : chat'[i] = chat[j]
    BY <2>2, <2>3, AppendedHistory
  <2> QED
    BY <2>1, <2>4, <1>c, OutcomeKept
<1>3. CASE AppendReply
  <2>1. outcome' = outcome /\ modelEnded \subseteq modelEnded' /\ outcome[turn] = ""
    BY <1>3 DEF AppendReply, Running, Handler, Early
  <2>2. turn \in 1 .. turn
    BY <1>3, RunningTurn DEF AppendReply, Running
  <2>3. chat' = chat \/ \E e : e.turn = turn /\ chat' = Append(chat, e) /\ e \in Entry
    BY <1>3, <1>a DEF AppendReply, Entry
  <2>4. \A i \in DOMAIN chat' : chat'[i].turn = turn
        \/ \E j \in DOMAIN chat : chat'[i] = chat[j]
    BY <2>2, <2>3, AppendedHistory
  <2> QED
    BY <2>1, <2>4, <1>c, OutcomeKept
<1>4. CASE EndStream
  <2>1. turn \in DOMAIN outcome /\ turn \in modelEnded
    BY <1>4, RunningTurn DEF EndStream, Running, Handler
  <2>2. /\ outcome' = [outcome EXCEPT ![turn] = "completed"] /\ modelEnded' = modelEnded
           /\ chat' = chat
        /\ "completed" \in Reasons
    BY <1>4 DEF EndStream, brainVars, Reasons
  <2> QED
    BY <2>1, <2>2, <1>c, OutcomeTold
<1>5. CASE FailTurn
  <2>1. MarkReplyTurnFailed(turn) /\ inputs' = inputs /\ phase' = "failing"
    BY <1>5 DEF FailTurn, actorVars
  <2>2. Shrunk
    BY <2>1, FailureShrinks
  <2>3. turn \in DOMAIN outcome
    BY <1>5, RunningTurn DEF FailTurn, InTry
  <2>4. /\ outcome' = [outcome EXCEPT ![turn] = "failed"] /\ modelEnded' = modelEnded
        /\ "failed" \in Reasons
    BY <1>5 DEF FailTurn, Reasons
  <2> QED
    BY <2>2, <2>3, <2>4, <1>c, OutcomeTold DEF Shrunk
<1>6. CASE InterruptTurn
  <2>1. FinalizeReplyControl(turn) /\ PendingIsServable /\ inputs' = inputs
        /\ phase' = "ending"
    BY <1>6 DEF InterruptTurn, Commands
  <2>2. Shrunk
    BY <2>1, FinalizeShrinks
  <2>3. turn \in DOMAIN outcome
    BY <1>6, RunningTurn DEF InterruptTurn, InTry
  <2>4. FinishReason(turn) \in Reasons
    <3>1. turn \in 0 .. turn
      BY <1>a
    <3> QED
      BY <3>1, FinalizeReturns
  <2>5. outcome' = [outcome EXCEPT ![turn] = FinishReason(turn)] /\ modelEnded' = modelEnded
    BY <1>6 DEF InterruptTurn
  <2>6. replayed' = Replayed(turn)
    BY <1>6 DEF InterruptTurn
  <2>7. \/ \A i \in DOMAIN chat : chat[i].turn # turn
        \/ /\ FinishReason(turn) = "completed" => turn \in modelEnded
           /\ FinishReason(turn) = "replayed" => turn \in replayed'
    <3>1. CASE phase \in {"streaming", "replied"}
      <4>1. Finalizes(turn)
        BY <1>a, <3>1, <1>6, RunningTurn DEF Finalizes, Commands
      <4>2. FinishReason(turn) # "completed"
        BY <4>1 DEF FinishReason
      <4>3. FinishReason(turn) = "replayed" => ReplayInput(turn) # <<>>
        BY <4>1 DEF FinishReason, ReplayInput
      <4> QED
        BY <2>6, <4>2, <4>3 DEF Replayed
    <3>2. CASE phase \in Early
      BY <3>2 DEF History
    <3>3. CASE phase \in {"publishing", "persisting"}
      <4>1. turn \in modelEnded
        BY <3>3 DEF Handler
      <4>2. ~Finalizes(turn)
        BY <3>3 DEF Finalizes, Commands, ActiveTurnIsRunning
      <4>3. FinishReason(turn) # "replayed"
        BY <3>3, <4>2 DEF FinishReason, Commands
      <4> QED
        BY <4>1, <4>3
    <3> QED
      BY <1>6, <3>1, <3>2, <3>3 DEF InterruptTurn, InTry, Phases, Early
  <2> QED
    BY <1>c, <2>2, <2>3, <2>4, <2>5, <2>7, OutcomeTold DEF Shrunk
<1>7. CASE TakePayload
  <2>1. /\ DOMAIN outcome = 1 .. turn /\ DOMAIN outcome' = 1 .. turn + 1
        /\ outcome'[turn + 1] = "" /\ \A t \in 1 .. turn : outcome'[t] = outcome[t]
    BY <1>7, TakeFacts
  <2>2. modelEnded' = modelEnded /\ chat' = chat
    BY <1>7 DEF TakePayload, brainVars
  <2>3. \A t \in 1 .. turn + 1 : t \in 1 .. turn \/ t = turn + 1
    BY <1>a
  <2> QED
    BY <1>c, <2>1, <2>2, <2>3 DEF OutcomeIsOwn
<1>8. CASE NothingToCancel
  <2>1. FinalizeReplyControl(named) /\ PendingIsServable /\ inputs' = inputs
        /\ phase' = phase
    BY <1>8 DEF NothingToCancel, Commands, actorVars
  <2>2. Shrunk
    BY <2>1, FinalizeShrinks
  <2>3. outcome' = outcome /\ modelEnded' = modelEnded
    BY <1>8 DEF NothingToCancel, brainVars
  <2> QED
    BY <2>2, <2>3, <1>c, OutcomeKept DEF Shrunk
<1>9. CASE TrimHistory
  <2>1. TrimHistory /\ inputs' = inputs /\ phase' = phase
    BY <1>9 DEF TrimHistory, actorVars
  <2>2. Shrunk
    BY <2>1, TrimShrinks
  <2>3. outcome' = outcome /\ modelEnded' = modelEnded
    BY <1>9 DEF TrimHistory, brainVars
  <2> QED
    BY <2>2, <2>3, <1>c, OutcomeKept DEF Shrunk
<1>10. CASE ToolRound
  <2>1. outcome' = outcome /\ modelEnded \subseteq modelEnded' /\ outcome[turn] = ""
    BY <1>10 DEF ToolRound, Running, Handler, Early
  <2>2. turn \in 1 .. turn
    BY <1>10, RunningTurn DEF ToolRound, Running
  <2>3. \E e : e.turn = turn /\ chat' = Append(chat, e) /\ e \in Entry
    BY <1>10, <1>a DEF ToolRound, Entry
  <2>4. \A i \in DOMAIN chat' : chat'[i].turn = turn
        \/ \E j \in DOMAIN chat : chat'[i] = chat[j]
    BY <2>2, <2>3, AppendedHistory
  <2> QED
    BY <2>1, <2>4, <1>c, OutcomeKept
<1>11. ASSUME NEW m \in Messages, SubmitMessage(m)
      PROVE  OutcomeIsOwn'
  <2>1. outcome' = outcome /\ modelEnded' = modelEnded /\ chat' = chat
    BY <1>11 DEF SubmitMessage, Enqueue, brainVars
  <2> QED
    BY <2>1, <1>c, OutcomeKept
<1>12. ASSUME NEW action \in Actions, NEW cp \in CheckpointIds \cup {activeTurn},
              AcceptCommand(action, cp)
      PROVE  OutcomeIsOwn'
  <2>1. outcome' = outcome /\ modelEnded' = modelEnded /\ chat' = chat
    BY <1>12 DEF AcceptCommand, Command, brainVars
  <2> QED
    BY <2>1, <1>c, OutcomeKept
<1>13. CASE RegenerateEnded
  <2>1. /\ RestoreReplyCheckpoint(latestReplay) /\ latestReplay \in CheckpointIds
        /\ inputs' = inputs /\ phase' = phase
    BY <1>13 DEF RegenerateEnded, actorVars
  <2>2. Shrunk
    BY <2>1, RestoreShrinks
  <2>3. outcome' = outcome /\ modelEnded' = modelEnded
    BY <1>13 DEF RegenerateEnded, brainVars
  <2> QED
    BY <2>2, <2>3, <1>c, OutcomeKept DEF Shrunk
<1>14. ASSUME NEW cp \in CheckpointIds, RollbackEnded(cp)
      PROVE  OutcomeIsOwn'
  <2>1. RestoreReplyCheckpoint(cp) /\ cp \in CheckpointIds /\ inputs' = inputs
        /\ phase' = phase
    BY <1>14 DEF RollbackEnded, actorVars
  <2>2. Shrunk
    BY <2>1, RestoreShrinks
  <2>3. outcome' = outcome /\ modelEnded' = modelEnded
    BY <1>14 DEF RollbackEnded, brainVars
  <2> QED
    BY <2>2, <2>3, <1>c, OutcomeKept DEF Shrunk
<1>15. CASE UNCHANGED vars
  <2>1. outcome' = outcome /\ modelEnded' = modelEnded /\ chat' = chat
    BY <1>15 DEF vars, brainVars
  <2> QED
    BY <2>1, <1>c, OutcomeKept
<1> QED
  BY StepCases, <1>1, <1>2, <1>3, <1>4, <1>5, <1>6, <1>7, <1>8, <1>9, <1>10, <1>11, <1>12,
     <1>13, <1>14, <1>15

(* The two sides of ReplayedOnce. *)
Sum(m)  == Count(inputs, m) + Count(queue, m) + Count(replay, m) + Count(ctlReplay, m)
From(m) == {t \in replayed : inputs[t].msg = m}
Made(m) == (IF m \in submitted THEN 1 ELSE 0) + Cardinality(From(m)) + regenerated[m]

(* ReplayedOnce compares them. *)
LEMMA OnceIs ==
  /\ ReplayedOnce <=> \A m \in Messages : Sum(m) = Made(m)
  /\ ReplayedOnce' <=> \A m \in Messages : (Sum(m) = Made(m))'
<1>1. ReplayedOnce <=> \A m \in Messages : Sum(m) = Made(m)
  BY DEF ReplayedOnce, Copies, Sum, Made, From, Count, Where
<1>2. ReplayedOnce' <=> \A m \in Messages : (Sum(m) = Made(m))'
  BY DEF ReplayedOnce, Copies, Sum, Made, From, Count, Where
<1> QED
  BY <1>1, <1>2

(* Both sides are numbers. *)
LEMMA OnceTypes ==
  ASSUME TypeOK, NEW m \in Messages
  PROVE  /\ Count(inputs, m) \in Nat /\ Count(queue, m) \in Nat
         /\ Count(replay, m) \in Nat /\ Count(ctlReplay, m) \in Nat
         /\ IsFiniteSet(From(m)) /\ Cardinality(From(m)) \in Nat
         /\ From(m) \subseteq 1 .. turn
         /\ regenerated[m] \in Nat
<1>1. /\ inputs \in Seq(Input) /\ queue \in Seq(Input) /\ replay \in Seq(Input)
      /\ ctlReplay \in Seq(Input)
  BY DEF TypeOK
<1>2. From(m) \subseteq 1 .. turn /\ regenerated[m] \in Nat
  BY DEF TypeOK, From
<1>3. IsFiniteSet(1 .. turn)
  BY TurnFacts, FS_Interval
<1>4. IsFiniteSet(From(m)) /\ Cardinality(From(m)) \in Nat
  BY <1>2, <1>3, FS_Subset, FS_CardinalityType
<1> QED
  BY <1>1, <1>2, <1>4, WhereFinite

(* Inputs only move between the places where they wait. *)
LEMMA OnceMoved ==
  ASSUME TypeOK, TypeOK', ReplayedOnce, UNCHANGED <<submitted, replayed, regenerated,
         inputs>>,
         \A m \in Messages :
           Count(queue', m) + Count(replay', m) + Count(ctlReplay', m)
             = Count(queue, m) + Count(replay, m) + Count(ctlReplay, m)
  PROVE  ReplayedOnce'
<1> SUFFICES ASSUME NEW m \in Messages PROVE (Sum(m) = Made(m))'
  BY OnceIs
<1>1. Sum(m) = Made(m)
  BY OnceIs
<1>2. /\ Count(inputs, m) \in Nat /\ Count(queue, m) \in Nat
      /\ Count(replay, m) \in Nat /\ Count(ctlReplay, m) \in Nat
  BY OnceTypes
<1>3. /\ Count(inputs', m) \in Nat /\ Count(queue', m) \in Nat
      /\ Count(replay', m) \in Nat /\ Count(ctlReplay', m) \in Nat
  BY WhereFinite DEF TypeOK
<1>4. Made(m)' = Made(m)
  BY DEF Made, From
<1>5. Count(inputs', m) = Count(inputs, m)
  OBVIOUS
<1>6. Sum(m)' = Count(inputs', m) + Count(queue', m) + Count(replay', m)
      + Count(ctlReplay', m)
  BY DEF Sum, Count, Where
<1>7. Sum(m)' = Sum(m)
  <2>1. Sum(m) = Count(inputs, m) + Count(queue, m) + Count(replay, m)
        + Count(ctlReplay, m)
    BY DEF Sum
  <2>2. Count(queue', m) + Count(replay', m) + Count(ctlReplay', m)
             = Count(queue, m) + Count(replay, m) + Count(ctlReplay, m)
    OBVIOUS
  <2> QED
    BY <1>2, <1>3, <1>5, <1>6, <2>1, <2>2
<1> QED
  BY <1>1, <1>4, <1>7

(* One more input for message m0, in the lists and in what was asked for. *)
LEMMA OnceAdded ==
  ASSUME TypeOK, TypeOK', ReplayedOnce, inputs' = inputs, NEW m0,
         \A m \in Messages :
           /\ Count(queue', m) + Count(replay', m) + Count(ctlReplay', m)
                = Count(queue, m) + Count(replay, m) + Count(ctlReplay, m)
                  + (IF m = m0 THEN 1 ELSE 0)
           /\ Made(m)' = Made(m) + (IF m = m0 THEN 1 ELSE 0)
  PROVE  ReplayedOnce'
<1> SUFFICES ASSUME NEW m \in Messages PROVE (Sum(m) = Made(m))'
  BY OnceIs
<1> DEFINE d == IF m = m0 THEN 1 ELSE 0
<1>0. d \in Nat
  OBVIOUS
<1> HIDE DEF d
<1>1. Sum(m) = Made(m)
  BY OnceIs
<1>2. /\ Count(inputs, m) \in Nat /\ Count(queue, m) \in Nat
      /\ Count(replay, m) \in Nat /\ Count(ctlReplay, m) \in Nat
  BY OnceTypes
<1>3. /\ Count(inputs', m) \in Nat /\ Count(queue', m) \in Nat
      /\ Count(replay', m) \in Nat /\ Count(ctlReplay', m) \in Nat
  BY WhereFinite DEF TypeOK
<1>4. Made(m)' = Made(m) + d
  BY DEF d
<1>5. Count(inputs', m) = Count(inputs, m)
  OBVIOUS
<1>6. Sum(m)' = Count(inputs', m) + Count(queue', m) + Count(replay', m)
      + Count(ctlReplay', m)
  BY DEF Sum, Count, Where
<1>7. Sum(m)' = Sum(m) + d
  <2>1. Sum(m) = Count(inputs, m) + Count(queue, m) + Count(replay, m)
        + Count(ctlReplay, m)
    BY DEF Sum
  <2>2. Count(queue', m) + Count(replay', m) + Count(ctlReplay', m)
          = Count(queue, m) + Count(replay, m) + Count(ctlReplay, m) + d
    BY DEF d
  <2>3. /\ Sum(m)' = Count(inputs, m) + Count(queue', m) + Count(replay', m)
           + Count(ctlReplay', m)
    BY <1>5, <1>6
  <2> QED
    BY ONLY <1>0, <1>2, <1>3, <2>1, <2>2, <2>3
<1> QED
  BY <1>1, <1>4, <1>7

(* Every action keeps the balance of the inputs. *)
LEMMA OnceStep ==
  ASSUME TypeOK, TypeOK', Handler, History, Commands, Replays, ReplayedOnce, [Next]_vars
  PROVE  ReplayedOnce'
<1>a. turn \in Nat
  BY TurnFacts
<1>b. inputs' = inputs => turn' = turn
  BY TurnFacts
<1>d. queue \in Seq(Input) /\ replay \in Seq(Input) /\ ctlReplay \in Seq(Input)
  BY DEF TypeOK
<1>1. CASE \/ BeginTurn \/ TakeIndex \/ ActivateTurn \/ AppendReply \/ CompleteTurn
      \/ EndStream \/ PersistMessage \/ FailTurn \/ EmitError \/ CancelEscapes
      \/ TakeStop \/ CancelCurrent \/ CancelReturns \/ WorkerJoined \/ TrimHistory
      \/ ToolRound \/ Shutdown
  <2>1. UNCHANGED <<submitted, replayed, regenerated, inputs, queue, replay, ctlReplay>>
    BY <1>1
    DEF BeginTurn, TakeIndex, ActivateTurn, AppendReply, CompleteTurn,
           EndStream, PersistMessage, FailTurn, EmitError, CancelEscapes, TakeStop,
           CancelCurrent, CancelReturns, WorkerJoined, TrimHistory, ToolRound,
           Shutdown, Running, CreateReplyCheckpoint, HandlerDone, Replays,
        actorVars, brainVars, controlVars, counters
  <2> QED
    BY <2>1, OnceMoved
<1>2. CASE InterruptTurn
  <2>1. /\ UNCHANGED <<submitted, inputs, queue, ctlReplay, regenerated>>
        /\ replay' = ReplayInput(turn) /\ replayed' = Replayed(turn)
    BY <1>2 DEF InterruptTurn, controlVars, counters
  <2>2. replay = <<>> /\ turn \notin replayed
    BY <1>2 DEF InterruptTurn, InTry, Replays
  <2>3. turn \in 1 .. Len(inputs) /\ inputs[turn] \in Input
    <3>1. turn \in 1 .. Len(inputs)
      BY <1>2, RunningTurn DEF InterruptTurn, InTry, turn
    <3> QED
      BY <3>1, ElementOfSeq DEF TypeOK
  <2>4. CASE ReplayInput(turn) = <<>>
    <3>1. UNCHANGED <<submitted, replayed, regenerated, inputs, queue, replay, ctlReplay>>
      BY <2>1, <2>2, <2>4 DEF Replayed
    <3> QED
      BY <3>1, OnceMoved
  <2>5. CASE ReplayInput(turn) # <<>>
    <3>1. PICK e : ReplayInput(turn) = <<e>> /\ e \in Input /\ e.msg = inputs[turn].msg
      <4> DEFINE f == [msg    |-> inputs[turn].msg,
                       guided |-> inputs[turn].guided
                         \/ pending.action = "append_guidance"]
      <4>1. ReplayInput(turn) = <<f>> /\ f.msg = inputs[turn].msg
        BY <2>5 DEF ReplayInput
      <4>2. f.msg \in Messages /\ f.guided \in BOOLEAN
        BY <2>3 DEF Input
      <4>3. f \in Input
        BY <4>2 DEF Input
      <4> QED
        BY <4>1, <4>3
    <3>2. replay' = <<e>> /\ replayed' = replayed \cup {turn}
      BY <2>1, <2>5, <3>1 DEF Replayed
    <3>3. ASSUME NEW n \in Messages
          PROVE  /\ Count(queue', n) + Count(replay', n) + Count(ctlReplay', n)
                      = Count(queue, n) + Count(replay, n) + Count(ctlReplay, n)
                        + (IF n = e.msg THEN 1 ELSE 0)
                 /\ Made(n)' = Made(n) + (IF n = e.msg THEN 1 ELSE 0)
      <4>1. Count(replay', n) = IF n = e.msg THEN 1 ELSE 0
        BY <3>1, <3>2, CountOne
      <4>2. Count(replay, n) = 0
        BY <2>2, CountNone
      <4>3. Count(ctlReplay', n) = Count(ctlReplay, n)
            /\ Count(queue', n) = Count(queue, n)
        BY <2>1
      <4>4. From(n)' = IF n = e.msg THEN From(n) \cup {turn} ELSE From(n)
        <5> HIDE DEF turn
        <5>1. inputs' = inputs /\ turn' = turn
          BY <2>1, <1>b
        <5> QED
          BY <3>1, <3>2, <5>1 DEF From
      <4>5. turn \notin From(n)
        BY <2>2 DEF From
      <4>6. Cardinality(From(n)') = Cardinality(From(n)) + (IF n = e.msg THEN 1 ELSE 0)
        <5>1. IsFiniteSet(From(n)) /\ Cardinality(From(n)) \in Nat
          BY OnceTypes
        <5>2. Cardinality(From(n) \cup {turn}) = Cardinality(From(n)) + 1
          BY <4>5, <5>1, FS_AddElement
        <5> QED
          BY <4>4, <5>1, <5>2
      <4>7. Made(n)' = Made(n) + (IF n = e.msg THEN 1 ELSE 0)
        BY <2>1, <4>6, OnceTypes DEF Made
      <4> QED
        BY <4>1, <4>2, <4>3, <4>7, OnceTypes
    <3> QED
      BY <2>1, <3>3, OnceAdded
  <2> QED
    BY <2>4, <2>5
<1>3. CASE EndInterrupted
  <2>1. UNCHANGED <<submitted, replayed, regenerated, inputs, ctlReplay>>
        /\ replay' = <<>>
    BY <1>3 DEF EndInterrupted, HandlerDone, controlVars, counters
  <2>2. queue' = queue \o replay
    <3>1. CASE ctl \in {"closing", "joining"}
      <4>1. replay = <<>> /\ queue' = queue
        BY <1>3, <3>1 DEF EndInterrupted, Replays
      <4> QED
        BY <1>d, <4>1
    <3>2. CASE ctl \notin {"closing", "joining"}
      BY <1>3, <3>2 DEF EndInterrupted
    <3> QED
      BY <3>1, <3>2
  <2>3. ASSUME NEW m \in Messages
        PROVE  Count(queue', m) + Count(replay', m) = Count(queue, m) + Count(replay, m)
    <3>1. Count(queue', m) = Count(queue, m) + Count(replay, m)
      BY <1>d, <2>2, CountConcat
    <3>2. Count(replay', m) = 0
      BY <2>1, CountNone
    <3> QED
      BY <3>1, <3>2, OnceTypes
  <2>4. \A m \in Messages :
          Count(queue', m) + Count(replay', m) + Count(ctlReplay', m)
            = Count(queue, m) + Count(replay, m) + Count(ctlReplay, m)
    BY <2>1, <2>3
  <2> QED
    BY <2>1, <2>4, OnceMoved
<1>4. CASE TakePayload
  <2> DEFINE e == Head(queue)
  <2>1. /\ queue \in Seq(Input) /\ queue # <<>> /\ inputs \in Seq(Input) /\ e \in Input
        /\ queue' = Tail(queue) /\ inputs' = Append(inputs, e)
        /\ UNCHANGED <<submitted, replayed, regenerated, replay, ctlReplay>>
    BY <1>4, TakeFacts DEF TakePayload, TypeOK, controlVars, counters
  <2>2. SUFFICES ASSUME NEW m \in Messages PROVE (Sum(m) = Made(m))'
    BY OnceIs
  <2>3. Count(inputs', m) = Count(inputs, m) + Count(<<e>>, m)
    BY <2>1, CountAppend
  <2>4. Count(queue, m) = Count(<<e>>, m) + Count(queue', m)
    BY <2>1, CountTail
  <2>5. Count(<<e>>, m) \in Nat /\ Count(queue', m) \in Nat
    <3>1. <<e>> \in Seq(Input) /\ Tail(queue) \in Seq(Input)
      BY <2>1, HeadTailProperties
    <3> QED
      BY <2>1, <3>1, WhereFinite
  <2> HIDE DEF e
  <2>6. From(m)' = From(m)
    <3>1. replayed \subseteq 1 .. turn
      BY DEF TypeOK
    <3>2. \A t \in 1 .. turn : inputs'[t] = inputs[t]
      BY <1>4, TakeFacts
    <3> QED
      BY <2>1, <3>1, <3>2 DEF From
  <2>7. Made(m)' = Made(m)
    BY <2>1, <2>6 DEF Made
  <2>8. Sum(m) = Made(m)
    BY OnceIs
  <2>9. Sum(m)' = Count(inputs', m) + Count(queue', m) + Count(replay, m)
        + Count(ctlReplay, m)
    BY <2>1 DEF Sum, Count, Where
  <2>10. Sum(m) = Count(inputs, m) + Count(queue, m) + Count(replay, m)
         + Count(ctlReplay, m)
    BY DEF Sum
  <2>11. Sum(m)' = Sum(m)
    BY <2>3, <2>4, <2>5, <2>9, <2>10, OnceTypes
  <2> QED
    BY <2>7, <2>8, <2>11
<1>5. CASE NothingToCancel
  <2>1. activeTurn = 0 /\ ctlReplay = <<>>
    BY <1>5 DEF NothingToCancel, Commands, ActiveTurnIsRunning, Replays
  <2>2. ReplayInput(named) = <<>> /\ Replayed(named) = replayed
    BY <2>1 DEF ReplayInput, Replayed, Finalizes
  <2>3. UNCHANGED <<submitted, replayed, regenerated, inputs, queue, replay, ctlReplay>>
    BY <1>5, <2>1, <2>2 DEF NothingToCancel, actorVars, counters
  <2> QED
    BY <2>3, OnceMoved
<1>6. CASE SubmitReplay
  <2>1. UNCHANGED <<submitted, replayed, regenerated, inputs, replay>>
        /\ ctlReplay' = <<>>
    BY <1>6 DEF SubmitReplay, counters
  <2>2. queue' = queue \o ctlReplay
    <3>1. CASE ctlReplay = <<>>
      BY <1>6, <3>1 DEF SubmitReplay, TypeOK
    <3>2. CASE ctlReplay # <<>>
      BY <1>6, <3>2 DEF SubmitReplay, Enqueue
    <3> QED
      BY <3>1, <3>2
  <2>3. ASSUME NEW m \in Messages
        PROVE  Count(queue', m) + Count(replay', m) + Count(ctlReplay', m)
                 = Count(queue, m) + Count(replay, m) + Count(ctlReplay, m)
    <3>1. Count(queue', m) = Count(queue, m) + Count(ctlReplay, m)
      BY <1>d, <2>2, CountConcat
    <3>2. Count(ctlReplay', m) = 0 /\ Count(replay', m) = Count(replay, m)
      BY <2>1, CountNone
    <3> QED
      BY <3>1, <3>2, OnceTypes
  <2> QED
    BY <2>1, <2>3, OnceMoved
<1>7. CASE PutStop
  <2>1. queue' = queue
    BY <1>7 DEF PutStop, Enqueue, TypeOK
  <2>2. UNCHANGED <<submitted, replayed, regenerated, inputs, replay, ctlReplay>>
    BY <1>7 DEF PutStop, counters
  <2> QED
    BY <2>1, <2>2, OnceMoved
<1>8. ASSUME NEW m \in Messages, SubmitMessage(m)
      PROVE  ReplayedOnce'
  <2> DEFINE e == [msg |-> m, guided |-> FALSE]
  <2>1. UNCHANGED <<replayed, regenerated, inputs, replay, ctlReplay>>
    BY <1>8 DEF SubmitMessage, controlVars, counters
  <2>2. queue' = queue \o <<e>> /\ submitted' = submitted \cup {m} /\ m \notin submitted
    BY <1>8 DEF SubmitMessage, Enqueue
  <2>3. e \in Input /\ e.msg = m /\ <<e>> \in Seq(Input)
    BY <1>8 DEF Input
  <2>4. ASSUME NEW n \in Messages
        PROVE  /\ Count(queue', n) + Count(replay', n) + Count(ctlReplay', n)
                    = Count(queue, n) + Count(replay, n) + Count(ctlReplay, n)
                      + (IF n = m THEN 1 ELSE 0)
               /\ Made(n)' = Made(n) + (IF n = m THEN 1 ELSE 0)
    <3> HIDE DEF e
    <3>1. Count(queue', n) = Count(queue, n) + Count(<<e>>, n)
      BY ZenonT(30), <1>d, <2>2, <2>3, CountConcat
    <3>2. Count(<<e>>, n) = IF n = m THEN 1 ELSE 0
      BY <2>3, CountOne
    <3>3. Count(replay', n) = Count(replay, n)
          /\ Count(ctlReplay', n) = Count(ctlReplay, n)
      BY <2>1
    <3>4. From(n)' = From(n)
      BY <2>1 DEF From
    <3>5. Made(n)' = Made(n) + (IF n = m THEN 1 ELSE 0)
      BY SMTT(30), <2>1, <2>2, <3>4, OnceTypes DEF Made
    <3> QED
      BY <3>1, <3>2, <3>3, <3>5, OnceTypes
  <2> QED
    BY <2>1, <2>4, OnceAdded
<1>9. ASSUME NEW action \in Actions, NEW cp \in CheckpointIds \cup {activeTurn},
             AcceptCommand(action, cp)
      PROVE  ReplayedOnce'
  <2>1. UNCHANGED <<submitted, replayed, regenerated, inputs, queue, replay, ctlReplay>>
    BY <1>9 DEF AcceptCommand, Command, actorVars, brainVars, controlVars, counters
  <2> QED
    BY <2>1, OnceMoved
<1>10. CASE RegenerateEnded
  <2> DEFINE e == inputs[latestReplay]
  <2>1. UNCHANGED <<submitted, replayed, inputs, queue, replay>> /\ ctlReplay' = <<e>>
    BY <1>10 DEF RegenerateEnded, actorVars
  <2>2. ctlReplay = <<>>
    BY <1>10 DEF RegenerateEnded, Command, Replays
  <2>3. e \in Input
    <3>1. latestReplay \in 1 .. Len(inputs)
      BY <1>10 DEF RegenerateEnded, CheckpointIds, History, turn
    <3> QED
      BY <3>1, ElementOfSeq DEF TypeOK
  <2>4. regenerated' = [regenerated EXCEPT ![e.msg] = regenerated[e.msg] + 1]
        /\ e.msg \in Messages
    BY <1>10, <2>3 DEF RegenerateEnded, Input
  <2> HIDE DEF e
  <2>5. ASSUME NEW n \in Messages
        PROVE  /\ Count(queue', n) + Count(replay', n) + Count(ctlReplay', n)
                    = Count(queue, n) + Count(replay, n) + Count(ctlReplay, n)
                      + (IF n = e.msg THEN 1 ELSE 0)
               /\ Made(n)' = Made(n) + (IF n = e.msg THEN 1 ELSE 0)
    <3>1. Count(ctlReplay', n) = IF n = e.msg THEN 1 ELSE 0
      BY <2>1, <2>3, CountOne
    <3>2. Count(ctlReplay, n) = 0
      BY <2>2, CountNone
    <3>3. Count(replay', n) = Count(replay, n) /\ Count(queue', n) = Count(queue, n)
      BY <2>1
    <3>4. From(n)' = From(n)
      BY <2>1 DEF From
    <3>5. regenerated'[n] = regenerated[n] + (IF n = e.msg THEN 1 ELSE 0)
      <4>1. regenerated \in [Messages -> Nat]
        BY DEF TypeOK
      <4>2. regenerated'[n] = IF n = e.msg THEN regenerated[n] + 1 ELSE regenerated[n]
        BY ONLY <2>4, <4>1, n \in Messages
      <4>3. regenerated[n] \in Nat
        BY <4>1
      <4> QED
        BY <4>2, <4>3
    <3>6. Made(n)' = Made(n) + (IF n = e.msg THEN 1 ELSE 0)
      BY <2>1, <3>4, <3>5, OnceTypes DEF Made
    <3> QED
      BY <3>1, <3>2, <3>3, <3>6, OnceTypes
  <2> QED
    BY <2>1, <2>5, OnceAdded
<1>11. ASSUME NEW cp \in CheckpointIds, RollbackEnded(cp)
      PROVE  ReplayedOnce'
  <2>1. UNCHANGED <<submitted, replayed, regenerated, inputs, queue, replay, ctlReplay>>
    BY <1>11 DEF RollbackEnded, Command, RestoreReplyCheckpoint, actorVars, brainVars,
       controlVars, counters
  <2> QED
    BY <2>1, OnceMoved
<1>12. CASE UNCHANGED vars
  <2>1. UNCHANGED <<submitted, replayed, regenerated, inputs, queue, replay, ctlReplay>>
    BY <1>12 DEF vars, actorVars, brainVars, controlVars, counters
  <2> QED
    BY <2>1, OnceMoved
<1> QED
  BY StepCases, <1>1, <1>2, <1>3, <1>4, <1>5, <1>6, <1>7, <1>8, <1>9, <1>10, <1>11, <1>12

(* The inductive invariant holds at the start. *)
LEMMA InvInit ==
  ASSUME Init
  PROVE  IInv
<1>q. queue = <<>> /\ replay = <<>> /\ ctlReplay = <<>> /\ inputs = <<>>
  BY DEF Init
<1>h. outcome = <<>> /\ chat = <<>> /\ checkpoints = {} /\ pending = Nothing
  BY DEF Init
<1>n. /\ submitted = {} /\ modelEnded = {} /\ replayed = {} /\ index = 0 /\ latestReplay = 0
      /\ activeTurn = 0 /\ named = 0 /\ awaited = 0
  BY DEF Init
<1>c. /\ regenerated = [m \in Messages |-> 0] /\ commands = 0 /\ trims = 0
         /\ toolRounds = 0
  BY DEF Init
<1>p. /\ worker = "none" /\ phase = "none" /\ ctl = "idle" /\ cancelled = FALSE
         /\ lastFinish = ""
  BY DEF Init
<1>1. turn = 0
  BY <1>q DEF turn
<1>2. TypeOK
  <2>1. queue \in Inputs /\ replay \in Inputs /\ ctlReplay \in Inputs /\ inputs \in Inputs
    BY <1>q DEF Inputs
  <2>2. outcome \in Outcomes /\ Len(outcome) = turn
    BY <1>1, <1>h DEF Outcomes
  <2>3. chat \in Histories
    BY <1>h DEF Histories
  <2>4. checkpoints \in Checkpoints
    BY <1>h, FS_EmptySet, ReplyTurnsAssumption DEF Checkpoints
  <2>5. pending \in Orders /\ ctl \in Controls /\ regenerated \in Tallies
    BY <1>h, <1>p, <1>c DEF Orders, Nothing, Controls, Tallies
  <2>6. phase \in Phases /\ lastFinish \in Reasons
    BY <1>p DEF Phases, Reasons
  <2>7. commands \in 0 .. MaxCommands /\ trims \in 0 .. MaxTrims
        /\ toolRounds \in 0 .. MaxToolRounds
    BY <1>c, ReplyTurnsAssumption
  <2>8. Typed
    <3>1. /\ submitted \subseteq Messages /\ modelEnded \subseteq 1 .. turn
          /\ replayed \subseteq 1 .. turn /\ index \in Nat
      BY <1>n
    <3>2. /\ activeTurn \in 0 .. turn /\ latestReplay \in 0 .. turn
          /\ named \in 0 .. turn /\ awaited \in 0 .. turn
      BY <1>1, <1>n
    <3>3. worker \in {"none", "idle", "busy"} /\ cancelled \in BOOLEAN
      BY <1>p
    <3> QED
      BY <2>1, <2>2, <2>3, <2>4, <2>5, <2>6, <2>7, <3>1, <3>2, <3>3 DEF Typed
  <2> QED
    BY <2>8, TypedIsTypeOK
<1>3. Handler /\ Replays
  BY <1>p, <1>q DEF Handler, Replays, Early, InTry
<1>e. DOMAIN chat = {} /\ DOMAIN outcome = {}
  BY <1>h
<1>4. History
  BY <1>e, <1>h, FS_EmptySet DEF History
<1>5. Commands
  BY <1>h, <1>n, <1>p DEF Commands, ActiveTurnIsRunning, PendingIsServable, Nothing
<1>6. StrandedOnlyByEscape /\ OutcomeIsOwn
  BY <1>e, <1>q DEF StrandedOnlyByEscape, OutcomeIsOwn
<1>7. ReplayedOnce
  <2>1. SUFFICES ASSUME NEW m \in Messages PROVE Sum(m) = Made(m)
    BY OnceIs
  <2>2. From(m) = {}
    BY <1>n DEF From
  <2> QED
    <3>1. Sum(m) = 0
      BY <1>q, CountNone DEF Sum
    <3>2. Made(m) = 0
      BY <1>n, <1>c, <2>2, FS_EmptySet DEF Made
    <3> QED
      BY <3>1, <3>2
<1> QED
  BY <1>2, <1>3, <1>4, <1>5, <1>6, <1>7 DEF IInv

(* Every step keeps it. *)
LEMMA InvStep ==
  ASSUME IInv, [Next]_vars
  PROVE  IInv'
<1> USE DEF IInv
<1>1. TypeOK'
  BY TypeStep
<1> QED
  BY <1>1, HandlerStep, HistoryStep, CommandsStep, ReplaysStep, StrandedStep,
     OutcomeStep, OnceStep

-----------------------------------------------------------------------------
(* The inductive invariant holds in every reachable state. *)
THEOREM InductiveInvariant == Spec => []IInv
BY InvInit, InvStep, PTL DEF Spec

(* A command is applied to the turn it was accepted for or to none, and    *)
(* its checkpoint is there; the cancellation that goes with it may reach   *)
(* the next turn, which is then stopped, but nothing of it is replayed and *)
(* nothing rolled back: request_reply_control, finalize_reply_control      *)
(* (brain.py) and _handle_reply_control_event (app.py).                    *)
THEOREM OnlyTheStopGoesAstray == Spec => []OnlyTheStopStrays
<1>1. ASSUME IInv
      PROVE  OnlyTheStopStrays
  <2>1. StrayCancelOnlyStops
    BY <1>1 DEF IInv, Commands, PendingIsServable, ActiveTurnIsRunning, Replays,
       StrayCancelOnlyStops
  <2> QED
    BY <1>1, <2>1 DEF IInv, Commands, OnlyTheStopStrays
<1> QED
  BY <1>1, InductiveInvariant, PTL

(* No replay is lost or made twice, whoever submits it: the handler of the *)
(* interrupted turn or brain_processor (app.py).                           *)
THEOREM ReplaysAreExact == Spec => []ReplayedOnce
<1>1. IInv => ReplayedOnce
  BY DEF IInv
<1> QED
  BY <1>1, InductiveInvariant, PTL

(* A turn that entered the history is told its own end: completed only if  *)
(* its model call ended, with or without content, and replayed only if it  *)
(* is; any other turn left nothing in the history: stream_end of           *)
(* _process_session_execution (app.py) and finalize_reply_control.         *)
THEOREM OutcomesAreOwn == Spec => []OutcomeIsOwn
<1>1. IInv => OutcomeIsOwn
  BY DEF IInv
<1> QED
  BY <1>1, InductiveInvariant, PTL

(* Only a cancellation that leaves the handler leaves the queue without a  *)
(* worker: SessionActor._run (session_actor.py).                           *)
THEOREM OnlyEscapesStrand == Spec => []StrandedOnlyByEscape
<1>1. IInv => StrandedOnlyByEscape
  BY DEF IInv
<1> QED
  BY <1>1, InductiveInvariant, PTL
=============================================================================
