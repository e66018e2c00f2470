--------------------------- MODULE DeliveryProofs ---------------------------
(***************************************************************************)
(* Theorems about Delivery for every set of messages and receive loops,    *)
(* every max_attempts and any number of crashes.  What the provider's      *)
(* surface shows at most once needs that one loop at a time drains the     *)
(* outbox (OneLoop); the rest does not.                                    *)
(***************************************************************************)
EXTENDS Delivery, FiniteSetTheorems, TLAPS

(* The endpoint has one receive loop. *)
OneLoop == \A q, r \in Readers : q = r

(* A success report on its way, or recorded, follows an external send. *)
Honest ==
  \A m \in Messages :
     /\ okResult[m] > 0 => shown[m] > 0
     /\ attempt[m] = "delivered" => shown[m] > 0

(* A drain has one row in its hands, and a row in state sending is in some  *)
(* drain's hands or was when Core died.                                     *)
InHand ==
  /\ \A r \in Readers : \A m, n \in sending[r] : m = n
  /\ StrandedOnlyByCrash

(* The message will not be given to the transport again unless a failure of *)
(* it is reported.                                                          *)
Quiet(m) ==
  /\ pc[m] \notin {"idle", "sending"}
  /\ outbox[m] \notin {"pending", "retry"}
  /\ \A r \in Readers : m \in sending[r] => taken[r] = TRUE

(* With one loop, of each message one copy is under way, reported failed or *)
(* shown, and then the message is quiet; the lists of the drain agree with  *)
(* the rows.                                                                *)
Once ==
  \A m \in Messages :
     /\ inbox[m] + badResult[m] + shown[m] <= 1
     /\ inbox[m] + badResult[m] + shown[m] > 0 => Quiet(m)
     /\ attempt[m] # "none" => pc[m] = "done"
     /\ pc[m] # "done" => outbox[m] = "none"
     /\ \A r \in Readers :
          /\ m \in snapshot[r] => outbox[m] \in {"pending", "retry"}
          /\ m \in sending[r] => outbox[m] = "sending" /\ attempt[m] # "delivered"

(* Only queueable messages have a row. *)
OnlyQueueable ==
  \A m \in Messages : linked[m] \/ outbox[m] # "none" => m \in Queueable

(* With one loop, of a message given up no copy is under way, and neither   *)
(* deliver() nor a drain will send one.                                     *)
GivenUp ==
  \A m \in Messages : Outcome(m) = "given_up" =>
     /\ pc[m] = "done"
     /\ outbox[m] \notin {"pending", "retry", "sending"}
     /\ inbox[m] + badResult[m] + shown[m] = 0

(* The loops that have m in what is left of their list_due. *)
Listing(m) == {r \in Readers : m \in snapshot[r]}

(* A row that list_due returns has attempts left, and every loop that still *)
(* has it in its list may take it once more.                                *)
Budget ==
  \A m \in Messages :
     /\ outbox[m] \in {"pending", "retry"} => count[m] < MaxAttempts
     /\ count[m] + Cardinality(Listing(m)) < MaxAttempts + Cardinality(Readers)

IInv == TypeOK /\ Honest /\ InHand /\ (OneLoop => Once /\ OnlyQueueable /\ GivenUp)

-----------------------------------------------------------------------------
(* A step is one of the actions. *)
LEMMA StepCases ==
  ASSUME Next
  PROVE  \/ \E m \in Messages : StartDeliver(m)
         \/ \E m \in Messages : DeliverTaken(m)
         \/ \E m \in Messages : RecordSent(m)
         \/ \E m \in Messages : RecordUnsent(m)
         \/ \E m \in Messages : SurfaceShows(m)
         \/ \E m \in Messages : SurfaceRefuses(m)
         \/ \E m \in Messages : LoseResult(m)
         \/ \E m \in Messages : BackoffElapses(m)
         \/ \E r \in Readers : StartDrain(r)
         \/ \E r \in Readers, m \in Messages : DrainTaken(r, m)
         \/ \E r \in Readers, m \in Messages : DrainSent(r, m)
         \/ \E r \in Readers, m \in Messages : DrainUnsent(r, m)
         \/ \E r \in Readers, m \in Messages : HandleSuccess(r, m)
         \/ \E r \in Readers, m \in Messages : HandleFailure(r, m)
         \/ Crash
BY DEF Next, Deliver, Provider, Drain, HandleResult

(* Taking the next row of a list keeps the types. *)
LEMMA InflightTypes ==
  ASSUME TypeOK, NEW r \in Readers, NEW rest \in SUBSET Messages,
         NEW box \in [Messages -> OutboxStatus], MarkInflight(r, rest, box)
  PROVE  /\ snapshot' \in [Readers -> SUBSET Messages]
         /\ sending' \in [Readers -> SUBSET Messages]
         /\ taken' \in [Readers -> BOOLEAN]
         /\ outbox' \in [Messages -> OutboxStatus]
         /\ count' \in [Messages -> Nat]
<1>1. CASE rest = {} /\ snapshot' = [snapshot EXCEPT ![r] = {}]
               /\ sending' = [sending EXCEPT ![r] = {}]
               /\ outbox' = box /\ UNCHANGED <<count, taken>>
  BY <1>1 DEF TypeOK
<1>2. ASSUME NEW m \in rest,
             snapshot' = [snapshot EXCEPT ![r] = rest \ {m}],
             sending' = [sending EXCEPT ![r] = {m}],
             taken' = [taken EXCEPT ![r] = FALSE],
             outbox' = [box EXCEPT ![m] = "sending"],
             count' = [count EXCEPT ![m] = @ + 1]
      PROVE  /\ snapshot' \in [Readers -> SUBSET Messages]
             /\ sending' \in [Readers -> SUBSET Messages]
             /\ taken' \in [Readers -> BOOLEAN]
             /\ outbox' \in [Messages -> OutboxStatus]
             /\ count' \in [Messages -> Nat]
  BY <1>2 DEF TypeOK, OutboxStatus
<1> QED
  BY <1>1, <1>2 DEF MarkInflight

(* A fresh outbox row is typed. *)
LEMMA EnqueueTypes ==
  ASSUME TypeOK, NEW m \in Messages, Enqueue(m)
  PROVE  /\ outbox' \in [Messages -> OutboxStatus]
         /\ count' \in [Messages -> Nat]
         /\ due' \in [Messages -> BOOLEAN]
         /\ linked' \in [Messages -> BOOLEAN]
<1>1. outbox' \in [Messages -> OutboxStatus] /\ count' \in [Messages -> Nat]
  BY DEF TypeOK, Enqueue, OutboxStatus
<1>2. due' \in [Messages -> BOOLEAN]
  BY DEF TypeOK, Enqueue
<1>3. linked' \in [Messages -> BOOLEAN]
  BY DEF TypeOK, Enqueue
<1> QED
  BY <1>1, <1>2, <1>3

(* Every action keeps the types. *)
LEMMA TypeStep ==
  ASSUME TypeOK, [Next]_vars
  PROVE  TypeOK'
<1> USE DEF TypeOK, AttemptStatus, OutboxStatus, rows, drainVars, providerVars, history
<1>1. ASSUME NEW m \in Messages, StartDeliver(m)
       PROVE  TypeOK'
  BY <1>1 DEF StartDeliver
<1>2. ASSUME NEW m \in Messages, DeliverTaken(m)
       PROVE  TypeOK'
  BY <1>2 DEF DeliverTaken, TransportTakes
<1>3. ASSUME NEW m \in Messages, RecordSent(m)
       PROVE  TypeOK'
  BY <1>3 DEF RecordSent, SetAttempt
<1>4. ASSUME NEW m \in Messages, RecordUnsent(m)
       PROVE  TypeOK'
  <2>1. CASE m \in Queueable
    <3>1. Enqueue(m)
      BY <1>4, <2>1 DEF RecordUnsent
    <3>2. attempt' \in [Messages -> AttemptStatus] /\ pc' \in [Messages -> {"idle", "sending", "taken", "done", "lost"}]
      BY <1>4 DEF RecordUnsent, SetAttempt
    <3> QED
      BY <1>4, <3>1, <3>2, EnqueueTypes DEF RecordUnsent
  <2>2. CASE m \notin Queueable
    BY <1>4, <2>2 DEF RecordUnsent, SetAttempt
  <2> QED
    BY <2>1, <2>2
<1>5. ASSUME NEW m \in Messages, SurfaceShows(m)
       PROVE  TypeOK'
  BY <1>5 DEF SurfaceShows
<1>6. ASSUME NEW m \in Messages, SurfaceRefuses(m)
       PROVE  TypeOK'
  BY <1>6 DEF SurfaceRefuses
<1>7. ASSUME NEW m \in Messages, LoseResult(m)
       PROVE  TypeOK'
  BY <1>7 DEF LoseResult
<1>8. ASSUME NEW m \in Messages, BackoffElapses(m)
       PROVE  TypeOK'
  BY <1>8 DEF BackoffElapses
<1>9. ASSUME NEW r \in Readers, StartDrain(r)
       PROVE  TypeOK'
  <2>1. Due \subseteq Messages
    BY DEF Due
  <2>2. MarkInflight(r, Due, outbox)
    BY <1>9 DEF StartDrain
  <2>3. /\ snapshot' \in [Readers -> SUBSET Messages]
        /\ sending' \in [Readers -> SUBSET Messages]
        /\ taken' \in [Readers -> BOOLEAN]
        /\ outbox' \in [Messages -> OutboxStatus]
        /\ count' \in [Messages -> Nat]
    BY <2>1, <2>2, InflightTypes
  <2> QED
    BY <1>9, <2>3 DEF StartDrain
<1>10. ASSUME NEW r \in Readers, NEW m \in Messages, DrainTaken(r, m)
       PROVE  TypeOK'
  BY <1>10 DEF DrainTaken, TransportTakes
<1>11. ASSUME NEW r \in Readers, NEW m \in Messages, DrainSent(r, m)
       PROVE  TypeOK'
  <2>1. [outbox EXCEPT ![m] = "sent"] \in [Messages -> OutboxStatus]
    BY DEF FailureStatus
  <2>2. MarkInflight(r, snapshot[r], [outbox EXCEPT ![m] = "sent"])
    BY <1>11 DEF DrainSent
  <2>3. /\ snapshot' \in [Readers -> SUBSET Messages]
        /\ sending' \in [Readers -> SUBSET Messages]
        /\ taken' \in [Readers -> BOOLEAN]
        /\ outbox' \in [Messages -> OutboxStatus]
        /\ count' \in [Messages -> Nat]
    BY <2>1, <2>2, InflightTypes
  <2> QED
    BY <1>11, <2>3 DEF DrainSent, SetAttempt
<1>12. ASSUME NEW r \in Readers, NEW m \in Messages, DrainUnsent(r, m)
       PROVE  TypeOK'
  <2>1. [outbox EXCEPT ![m] = FailureStatus(m)] \in [Messages -> OutboxStatus]
    BY DEF FailureStatus
  <2>2. MarkInflight(r, snapshot[r], [outbox EXCEPT ![m] = FailureStatus(m)])
    BY <1>12 DEF DrainUnsent
  <2>3. /\ snapshot' \in [Readers -> SUBSET Messages]
        /\ sending' \in [Readers -> SUBSET Messages]
        /\ taken' \in [Readers -> BOOLEAN]
        /\ outbox' \in [Messages -> OutboxStatus]
        /\ count' \in [Messages -> Nat]
    BY <2>1, <2>2, InflightTypes
  <2> QED
    BY <1>12, <2>3 DEF DrainUnsent, SetAttempt, FailureStatus
<1>13. ASSUME NEW r \in Readers, NEW m \in Messages, HandleSuccess(r, m)
       PROVE  TypeOK'
  BY <1>13 DEF HandleSuccess, SetAttempt, Idle
<1>14. ASSUME NEW r \in Readers, NEW m \in Messages, HandleFailure(r, m)
       PROVE  TypeOK'
  <2>1. CASE attempt[m] = "none"
    BY <1>14, <2>1 DEF HandleFailure
  <2>2. CASE attempt[m] # "none" /\ m \notin Queueable
    BY <1>14, <2>2 DEF HandleFailure, SetAttempt
  <2>3. CASE attempt[m] # "none" /\ m \in Queueable /\ ~linked[m]
    <3>1. Enqueue(m)
      BY <1>14, <2>3 DEF HandleFailure
    <3>2. attempt' \in [Messages -> AttemptStatus]
      BY <1>14, <2>3 DEF HandleFailure, SetAttempt
    <3>3. badResult' \in [Messages -> Nat] /\ reported' \in [Messages -> Nat]
      BY <1>14 DEF HandleFailure
    <3> QED
      BY <1>14, <3>1, <3>2, <3>3, EnqueueTypes DEF HandleFailure
  <2>4. CASE attempt[m] # "none" /\ m \in Queueable /\ linked[m]
    <3>1. FailureStatus(m) \in AttemptStatus \cap OutboxStatus
      BY DEF FailureStatus
    <3>2. attempt' \in [Messages -> AttemptStatus] /\ outbox' \in [Messages -> OutboxStatus]
      BY <1>14, <2>4, <3>1 DEF HandleFailure, SetAttempt
    <3>3. badResult' \in [Messages -> Nat] /\ reported' \in [Messages -> Nat]
      BY <1>14 DEF HandleFailure
    <3>4. due' \in [Messages -> BOOLEAN]
      BY <1>14, <2>4 DEF HandleFailure
    <3> QED
      BY <1>14, <2>4, <3>2, <3>3, <3>4 DEF HandleFailure
  <2> QED
    BY <2>1, <2>2, <2>3, <2>4
<1>15. CASE Crash
  <2>1. crashes' \in 0 .. MaxCrashes
    BY <1>15, DeliveryAssumption DEF Crash
  <2>2. orphans' \subseteq Messages
    BY <1>15 DEF Crash
  <2> QED
    BY <1>15, <2>1, <2>2 DEF Crash
<1>16. CASE UNCHANGED vars
  BY <1>16 DEF vars, rows, drainVars, providerVars, history
<1> QED
  BY StepCases, <1>1, <1>2, <1>3, <1>4, <1>5, <1>6, <1>7, <1>8, <1>9, <1>10, <1>11, <1>12, <1>13, <1>14, <1>15, <1>16

(* A success is recorded from a report, and reported from a send. *)
LEMMA HonestStep ==
  ASSUME TypeOK, Honest, [Next]_vars
  PROVE  Honest'
<1> USE DEF TypeOK, Honest, rows, drainVars, providerVars, history
<1>1. ASSUME NEW m \in Messages, StartDeliver(m)
       PROVE  Honest'
  BY <1>1 DEF StartDeliver
<1>2. ASSUME NEW m \in Messages, DeliverTaken(m)
       PROVE  Honest'
  BY <1>2 DEF DeliverTaken, TransportTakes
<1>3. ASSUME NEW m \in Messages, RecordSent(m)
       PROVE  Honest'
  BY <1>3 DEF RecordSent, SetAttempt
<1>4. ASSUME NEW m \in Messages, RecordUnsent(m)
       PROVE  Honest'
  BY <1>4 DEF RecordUnsent, SetAttempt, Enqueue
<1>5. ASSUME NEW m \in Messages, SurfaceShows(m)
       PROVE  Honest'
  BY <1>5 DEF SurfaceShows
<1>6. ASSUME NEW m \in Messages, SurfaceRefuses(m)
       PROVE  Honest'
  BY <1>6 DEF SurfaceRefuses
<1>7. ASSUME NEW m \in Messages, LoseResult(m)
       PROVE  Honest'
  BY <1>7 DEF LoseResult
<1>8. ASSUME NEW m \in Messages, BackoffElapses(m)
       PROVE  Honest'
  BY <1>8 DEF BackoffElapses
<1>9. ASSUME NEW r \in Readers, StartDrain(r)
       PROVE  Honest'
  BY <1>9 DEF StartDrain, MarkInflight, Due, Idle
<1>10. ASSUME NEW r \in Readers, NEW m \in Messages, DrainTaken(r, m)
       PROVE  Honest'
  BY <1>10 DEF DrainTaken, TransportTakes
<1>11. ASSUME NEW r \in Readers, NEW m \in Messages, DrainSent(r, m)
       PROVE  Honest'
  BY <1>11 DEF DrainSent, SetAttempt, MarkInflight
<1>12. ASSUME NEW r \in Readers, NEW m \in Messages, DrainUnsent(r, m)
       PROVE  Honest'
  BY <1>12 DEF DrainUnsent, SetAttempt, FailureStatus, MarkInflight
<1>13. ASSUME NEW r \in Readers, NEW m \in Messages, HandleSuccess(r, m)
       PROVE  Honest'
  BY <1>13 DEF HandleSuccess, SetAttempt, Idle
<1>14. ASSUME NEW r \in Readers, NEW m \in Messages, HandleFailure(r, m)
       PROVE  Honest'
  BY <1>14 DEF HandleFailure, SetAttempt, Enqueue, FailureStatus, Idle
<1>15. CASE Crash
  BY <1>15 DEF Crash
<1>16. CASE UNCHANGED vars
  BY <1>16 DEF vars, rows, drainVars, providerVars, history
<1> QED
  BY StepCases, <1>1, <1>2, <1>3, <1>4, <1>5, <1>6, <1>7, <1>8, <1>9, <1>10, <1>11, <1>12, <1>13, <1>14, <1>15, <1>16

(* A drain writes the row it has in hand before it takes the next one. *)
LEMMA InHandStep ==
  ASSUME TypeOK, InHand, [Next]_vars
  PROVE  InHand'
<1> USE DEF TypeOK, InHand, StrandedOnlyByCrash, rows, drainVars, providerVars, history
<1>1. ASSUME NEW m \in Messages, StartDeliver(m)
       PROVE  InHand'
  BY <1>1 DEF StartDeliver
<1>2. ASSUME NEW m \in Messages, DeliverTaken(m)
       PROVE  InHand'
  BY <1>2 DEF DeliverTaken, TransportTakes
<1>3. ASSUME NEW m \in Messages, RecordSent(m)
       PROVE  InHand'
  BY <1>3 DEF RecordSent, SetAttempt
<1>4. ASSUME NEW m \in Messages, RecordUnsent(m)
       PROVE  InHand'
  BY <1>4 DEF RecordUnsent, SetAttempt, Enqueue
<1>5. ASSUME NEW m \in Messages, SurfaceShows(m)
       PROVE  InHand'
  BY <1>5 DEF SurfaceShows
<1>6. ASSUME NEW m \in Messages, SurfaceRefuses(m)
       PROVE  InHand'
  BY <1>6 DEF SurfaceRefuses
<1>7. ASSUME NEW m \in Messages, LoseResult(m)
       PROVE  InHand'
  BY <1>7 DEF LoseResult
<1>8. ASSUME NEW m \in Messages, BackoffElapses(m)
       PROVE  InHand'
  BY <1>8 DEF BackoffElapses
<1>9. ASSUME NEW r \in Readers, StartDrain(r)
       PROVE  InHand'
  BY <1>9 DEF StartDrain, MarkInflight, Due, Idle
<1>10. ASSUME NEW r \in Readers, NEW m \in Messages, DrainTaken(r, m)
       PROVE  InHand'
  BY <1>10 DEF DrainTaken, TransportTakes
<1>11. ASSUME NEW r \in Readers, NEW m \in Messages, DrainSent(r, m)
       PROVE  InHand'
  BY SMTT(30), <1>11 DEF DrainSent, SetAttempt, MarkInflight
<1>12. ASSUME NEW r \in Readers, NEW m \in Messages, DrainUnsent(r, m)
       PROVE  InHand'
  <2>1. FailureStatus(m) # "sending"
    BY DEF FailureStatus
  <2> QED
    BY SMTT(30), <1>12, <2>1 DEF DrainUnsent, MarkInflight
<1>13. ASSUME NEW r \in Readers, NEW m \in Messages, HandleSuccess(r, m)
       PROVE  InHand'
  BY <1>13 DEF HandleSuccess, SetAttempt, Idle
<1>14. ASSUME NEW r \in Readers, NEW m \in Messages, HandleFailure(r, m)
       PROVE  InHand'
  BY <1>14 DEF HandleFailure, SetAttempt, Enqueue, FailureStatus, Idle
<1>15. CASE Crash
  BY <1>15 DEF Crash
<1>16. CASE UNCHANGED vars
  BY <1>16 DEF vars, rows, drainVars, providerVars, history
<1> QED
  BY StepCases, <1>1, <1>2, <1>3, <1>4, <1>5, <1>6, <1>7, <1>8, <1>9, <1>10, <1>11, <1>12, <1>13, <1>14, <1>15, <1>16

(* With one loop nothing is sent while a copy is out. *)
LEMMA OnceStep ==
  ASSUME OneLoop, TypeOK, Honest, InHand, Once, [Next]_vars
  PROVE  Once'
<1> USE DEF OneLoop, TypeOK, Honest, InHand, Once, Quiet, rows, drainVars, providerVars, history
<1>1. ASSUME NEW m \in Messages, StartDeliver(m)
       PROVE  Once'
  BY <1>1 DEF StartDeliver
<1>2. ASSUME NEW m \in Messages, DeliverTaken(m)
       PROVE  Once'
  BY <1>2 DEF DeliverTaken, TransportTakes
<1>3. ASSUME NEW m \in Messages, RecordSent(m)
       PROVE  Once'
  BY <1>3 DEF RecordSent, SetAttempt
<1>4. ASSUME NEW m \in Messages, RecordUnsent(m)
       PROVE  Once'
  BY <1>4 DEF RecordUnsent, SetAttempt, Enqueue
<1>5. ASSUME NEW m \in Messages, SurfaceShows(m)
       PROVE  Once'
  BY <1>5 DEF SurfaceShows
<1>6. ASSUME NEW m \in Messages, SurfaceRefuses(m)
       PROVE  Once'
  BY <1>6 DEF SurfaceRefuses
<1>7. ASSUME NEW m \in Messages, LoseResult(m)
       PROVE  Once'
  <2>1. CASE badResult' = badResult
    BY <1>7, <2>1 DEF LoseResult
  <2>2. CASE badResult[m] > 0 /\ badResult' = [badResult EXCEPT ![m] = @ - 1]
    BY <1>7, <2>2 DEF LoseResult
  <2> QED
    BY <1>7, <2>1, <2>2 DEF LoseResult
<1>8. ASSUME NEW m \in Messages, BackoffElapses(m)
       PROVE  Once'
  BY <1>8 DEF BackoffElapses
<1>9. ASSUME NEW r \in Readers, StartDrain(r)
       PROVE  Once'
  BY <1>9 DEF StartDrain, MarkInflight, Due, Idle
<1>10. ASSUME NEW r \in Readers, NEW m \in Messages, DrainTaken(r, m)
       PROVE  Once'
  BY <1>10 DEF DrainTaken, TransportTakes
<1>11. ASSUME NEW r \in Readers, NEW m \in Messages, DrainSent(r, m)
       PROVE  Once'
  BY <1>11 DEF DrainSent, SetAttempt, MarkInflight
<1>12. ASSUME NEW r \in Readers, NEW m \in Messages, DrainUnsent(r, m)
       PROVE  Once'
  BY <1>12 DEF DrainUnsent, SetAttempt, FailureStatus, MarkInflight
<1>13. ASSUME NEW r \in Readers, NEW m \in Messages, HandleSuccess(r, m)
       PROVE  Once'
  BY <1>13 DEF HandleSuccess, SetAttempt, Idle
<1>14. ASSUME NEW r \in Readers, NEW m \in Messages, HandleFailure(r, m)
       PROVE  Once'
  BY <1>14 DEF HandleFailure, SetAttempt, Enqueue, FailureStatus, Idle
<1>15. CASE Crash
  BY <1>15 DEF Crash
<1>16. CASE UNCHANGED vars
  BY <1>16 DEF vars, rows, drainVars, providerVars, history
<1> QED
  BY StepCases, <1>1, <1>2, <1>3, <1>4, <1>5, <1>6, <1>7, <1>8, <1>9, <1>10, <1>11, <1>12, <1>13, <1>14, <1>15, <1>16

(* With one loop no action changes an attempt that is delivered: it is      *)
(* quiet, in no drain's hands, and no failure of it can still be reported.  *)
LEMMA FinalStep ==
  ASSUME OneLoop, TypeOK, Honest, InHand, Once, [Next]_vars,
         NEW n \in Messages, attempt[n] = "delivered"
  PROVE  attempt'[n] = "delivered"
<1> USE DEF OneLoop, TypeOK, Honest, Once, Quiet, rows
<1>1. ASSUME NEW m \in Messages, StartDeliver(m) \/ DeliverTaken(m) \/ SurfaceShows(m)
                                   \/ SurfaceRefuses(m) \/ LoseResult(m) \/ BackoffElapses(m)
       PROVE  attempt'[n] = "delivered"
  BY <1>1 DEF StartDeliver, DeliverTaken, SurfaceShows, SurfaceRefuses, LoseResult, BackoffElapses
<1>2. ASSUME NEW m \in Messages, RecordSent(m) \/ RecordUnsent(m)
       PROVE  attempt'[n] = "delivered"
  BY <1>2 DEF RecordSent, RecordUnsent, SetAttempt
<1>3. ASSUME NEW r \in Readers, StartDrain(r)
       PROVE  attempt'[n] = "delivered"
  BY <1>3 DEF StartDrain
<1>4. ASSUME NEW r \in Readers, NEW m \in Messages,
             DrainTaken(r, m) \/ DrainSent(r, m) \/ DrainUnsent(r, m)
       PROVE  attempt'[n] = "delivered"
  BY <1>4 DEF DrainTaken, DrainSent, DrainUnsent, SetAttempt
<1>5. ASSUME NEW r \in Readers, NEW m \in Messages, HandleSuccess(r, m)
       PROVE  attempt'[n] = "delivered"
  BY <1>5 DEF HandleSuccess, SetAttempt
<1>6. ASSUME NEW r \in Readers, NEW m \in Messages, HandleFailure(r, m)
       PROVE  attempt'[n] = "delivered"
  <2>1. m # n
    BY <1>6 DEF HandleFailure
  <2> QED
    BY <1>6, <2>1 DEF HandleFailure, SetAttempt
<1>7. CASE Crash
  BY <1>7 DEF Crash
<1>8. CASE UNCHANGED vars
  BY <1>8 DEF vars
<1> QED
  BY StepCases, <1>1, <1>2, <1>3, <1>4, <1>5, <1>6, <1>7, <1>8

(* With one loop there is one copy of a message: under way, reported failed *)
(* or shown, and none while it may still be sent.                           *)
LEMMA OneCopyOfMessage ==
  ASSUME TypeOK, Honest, Once, NEW m \in Messages
  PROVE  /\ inbox[m] > 0 => badResult[m] = 0 /\ shown[m] = 0
         /\ badResult[m] > 0 => badResult[m] = 1 /\ inbox[m] = 0 /\ shown[m] = 0
         /\ badResult[m] > 0 => attempt[m] # "delivered"
         /\ okResult[m] > 0 => shown[m] = 1
         /\ ~Quiet(m) => inbox[m] = 0 /\ badResult[m] = 0 /\ shown[m] = 0
<1>1. /\ inbox[m] \in Nat /\ badResult[m] \in Nat /\ shown[m] \in Nat /\ okResult[m] \in Nat
  BY DEF TypeOK
<1>2. /\ inbox[m] + badResult[m] + shown[m] <= 1
      /\ inbox[m] + badResult[m] + shown[m] > 0 => Quiet(m)
  BY DEF Once
<1>3. /\ okResult[m] > 0 => shown[m] > 0
      /\ attempt[m] = "delivered" => shown[m] > 0
  BY DEF Honest
<1> QED
  BY <1>1, <1>2, <1>3

(* Of a message given up there is none. *)
LEMMA NoCopyOfGivenUp ==
  ASSUME TypeOK, Honest, Once, GivenUp, NEW m \in Messages, Outcome(m) = "given_up"
  PROVE  /\ pc[m] = "done"
         /\ outbox[m] \notin {"pending", "retry", "sending"}
         /\ inbox[m] = 0 /\ badResult[m] = 0 /\ shown[m] = 0 /\ okResult[m] = 0
         /\ \A r \in Readers : m \notin snapshot[r] /\ m \notin sending[r]
<1>1. /\ inbox[m] \in Nat /\ badResult[m] \in Nat /\ shown[m] \in Nat /\ okResult[m] \in Nat
  BY DEF TypeOK
<1>2. /\ pc[m] = "done"
      /\ outbox[m] \notin {"pending", "retry", "sending"}
      /\ inbox[m] + badResult[m] + shown[m] = 0
  BY DEF GivenUp
<1>3. okResult[m] > 0 => shown[m] > 0
  BY DEF Honest
<1>4. \A r \in Readers : m \notin snapshot[r] /\ m \notin sending[r]
  BY <1>2 DEF Once
<1> QED
  BY <1>1, <1>2, <1>3, <1>4

(* With one loop a drain takes only rows there are. *)
LEMMA OnlyQueueableStep ==
  ASSUME OneLoop, TypeOK, Once, OnlyQueueable, [Next]_vars
  PROVE  OnlyQueueable'
<1> USE DEF OneLoop, TypeOK, Once, OnlyQueueable, rows, drainVars, providerVars, history
<1>1. ASSUME NEW m \in Messages, StartDeliver(m) \/ DeliverTaken(m) \/ RecordSent(m)
                \/ SurfaceShows(m) \/ SurfaceRefuses(m) \/ LoseResult(m) \/ BackoffElapses(m)
      PROVE  OnlyQueueable'
  BY <1>1 DEF StartDeliver, DeliverTaken, RecordSent, SurfaceShows, SurfaceRefuses, LoseResult,
              BackoffElapses
<1>2. ASSUME NEW m \in Messages, RecordUnsent(m) PROVE OnlyQueueable'
  BY <1>2 DEF RecordUnsent, Enqueue
<1>3. ASSUME NEW r \in Readers, StartDrain(r) PROVE OnlyQueueable'
  BY <1>3 DEF StartDrain, MarkInflight, Due
<1>4. ASSUME NEW r \in Readers, NEW m \in Messages, DrainTaken(r, m) PROVE OnlyQueueable'
  BY <1>4 DEF DrainTaken
<1>5. ASSUME NEW r \in Readers, NEW m \in Messages, DrainSent(r, m) PROVE OnlyQueueable'
  BY <1>5 DEF DrainSent, MarkInflight
<1>6. ASSUME NEW r \in Readers, NEW m \in Messages, DrainUnsent(r, m) PROVE OnlyQueueable'
  BY <1>6 DEF DrainUnsent, MarkInflight
<1>7. ASSUME NEW r \in Readers, NEW m \in Messages, HandleSuccess(r, m) PROVE OnlyQueueable'
  BY <1>7 DEF HandleSuccess
<1>8. ASSUME NEW r \in Readers, NEW m \in Messages, HandleFailure(r, m) PROVE OnlyQueueable'
  BY <1>8 DEF HandleFailure, Enqueue
<1>9. CASE Crash
  BY <1>9 DEF Crash
<1>10. CASE UNCHANGED vars
  BY <1>10 DEF vars
<1> QED
  BY StepCases, <1>1, <1>2, <1>3, <1>4, <1>5, <1>6, <1>7, <1>8, <1>9, <1>10

(* What is given up is given up when the row has no attempts left, or its   *)
(* failure was reported, and stays quiet.                                   *)
LEMMA GivenUpStep ==
  ASSUME OneLoop, TypeOK, Honest, InHand, Once, OnlyQueueable, GivenUp, [Next]_vars
  PROVE  GivenUp'
<1> SUFFICES ASSUME NEW n \in Messages, attempt'[n] \in {"dead_letter", "failed"}
             PROVE  /\ pc'[n] = "done"
                    /\ outbox'[n] \notin {"pending", "retry", "sending"}
                    /\ inbox'[n] + badResult'[n] + shown'[n] = 0
  BY DEF GivenUp, Outcome
<1> DEFINE Still == /\ pc'[n] = "done"
                    /\ outbox'[n] \notin {"pending", "retry", "sending"}
                    /\ inbox'[n] + badResult'[n] + shown'[n] = 0
<1> USE DEF OneLoop, TypeOK, rows, drainVars, providerVars, history
<1>g. attempt[n] \in {"dead_letter", "failed"} =>
        /\ pc[n] = "done"
        /\ outbox[n] \notin {"pending", "retry", "sending"}
        /\ inbox[n] = 0 /\ badResult[n] = 0 /\ shown[n] = 0
        /\ okResult[n] = 0
        /\ \A r \in Readers : n \notin snapshot[r] /\ n \notin sending[r]
  BY NoCopyOfGivenUp DEF Outcome
<1>1. ASSUME NEW m \in Messages, StartDeliver(m) PROVE Still
  BY <1>1, <1>g DEF StartDeliver
<1>2. ASSUME NEW m \in Messages, DeliverTaken(m) PROVE Still
  BY <1>2, <1>g DEF DeliverTaken, TransportTakes
<1>3. ASSUME NEW m \in Messages, RecordSent(m) PROVE Still
  BY <1>3, <1>g DEF RecordSent, SetAttempt
<1>4. ASSUME NEW m \in Messages, RecordUnsent(m) PROVE Still
  BY <1>4, <1>g DEF RecordUnsent, SetAttempt, Enqueue
<1>5. ASSUME NEW m \in Messages, SurfaceShows(m) PROVE Still
  BY <1>5, <1>g DEF SurfaceShows
<1>6. ASSUME NEW m \in Messages, SurfaceRefuses(m) PROVE Still
  BY <1>6, <1>g DEF SurfaceRefuses
<1>7. ASSUME NEW m \in Messages, LoseResult(m) PROVE Still
  BY <1>7, <1>g DEF LoseResult
<1>8. ASSUME NEW m \in Messages, BackoffElapses(m) PROVE Still
  BY <1>8, <1>g DEF BackoffElapses
<1>9. ASSUME NEW r \in Readers, StartDrain(r) PROVE Still
  BY <1>9, <1>g DEF StartDrain, MarkInflight, Due
<1>10. ASSUME NEW r \in Readers, NEW m \in Messages, DrainTaken(r, m) PROVE Still
  BY <1>10, <1>g DEF DrainTaken, TransportTakes
<1>11. ASSUME NEW r \in Readers, NEW m \in Messages, DrainSent(r, m) PROVE Still
  <2>1. n # m /\ attempt[n] \in {"dead_letter", "failed"}
    BY <1>11 DEF DrainSent, SetAttempt
  <2> QED
    BY <1>11, <2>1, <1>g DEF DrainSent, MarkInflight
<1>12. ASSUME NEW r \in Readers, NEW m \in Messages, DrainUnsent(r, m) PROVE Still
  <2>1. CASE n # m
    <3>1. attempt[n] \in {"dead_letter", "failed"}
      BY <1>12, <2>1 DEF DrainUnsent, SetAttempt
    <3> QED
      BY <1>12, <2>1, <3>1, <1>g DEF DrainUnsent, MarkInflight
  <2>2. CASE n = m
    <3>1. FailureStatus(n) = "dead_letter"
      BY <1>12, <2>2 DEF DrainUnsent, SetAttempt, FailureStatus
    <3>2. n \notin snapshot[r] /\ pc[n] = "done" /\ ~Quiet(n)
      BY <1>12, <2>2 DEF DrainUnsent, Once, Quiet
    <3>3. inbox[n] + badResult[n] + shown[n] = 0
      BY <3>2, OneCopyOfMessage
    <3>4. outbox'[n] = "dead_letter"
      BY <1>12, <2>2, <3>1, <3>2 DEF DrainUnsent, MarkInflight
    <3> QED
      BY <1>12, <3>2, <3>3, <3>4 DEF DrainUnsent
  <2> QED
    BY <2>1, <2>2
<1>13. ASSUME NEW r \in Readers, NEW m \in Messages, HandleSuccess(r, m) PROVE Still
  BY <1>13, <1>g DEF HandleSuccess, SetAttempt
<1>14. ASSUME NEW r \in Readers, NEW m \in Messages, HandleFailure(r, m) PROVE Still
  <2>1. CASE n # m
    <3>1. attempt[n] \in {"dead_letter", "failed"}
      BY <1>14, <2>1 DEF HandleFailure, SetAttempt
    <3>2. outbox'[n] = outbox[n]
      BY <1>14, <2>1 DEF HandleFailure, Enqueue
    <3> QED
      BY <1>14, <2>1, <3>1, <3>2, <1>g DEF HandleFailure
  <2>2. CASE n = m
    <3>1. /\ inbox[n] = 0 /\ badResult[n] = 1 /\ shown[n] = 0
          /\ outbox[n] \notin {"pending", "retry"}
          /\ \A q \in Readers : n \notin sending[q]
      <4>1. badResult[n] > 0 /\ Idle(r)
        BY <1>14, <2>2 DEF HandleFailure
      <4>2. inbox[n] = 0 /\ badResult[n] = 1 /\ shown[n] = 0 /\ Quiet(n)
        BY <4>1, OneCopyOfMessage
      <4> QED
        BY <4>1, <4>2 DEF Quiet, Idle
    <3>2. inbox'[n] + badResult'[n] + shown'[n] = 0
      BY <1>14, <2>2, <3>1 DEF HandleFailure
    <3>3. attempt[n] # "none" /\ pc'[n] = "done"
      BY <1>14, <2>2 DEF HandleFailure, Once
    <3>4. outbox'[n] \notin {"pending", "retry", "sending"}
      BY <1>14, <2>2, <3>1, <3>3 DEF HandleFailure, SetAttempt, Enqueue, FailureStatus, OnlyQueueable
    <3> QED
      BY <3>2, <3>3, <3>4
  <2> QED
    BY <2>1, <2>2
<1>15. CASE Crash
  BY <1>15, <1>g DEF Crash
<1>16. CASE UNCHANGED vars
  BY <1>16, <1>g DEF vars
<1> QED
  BY StepCases, <1>1, <1>2, <1>3, <1>4, <1>5, <1>6, <1>7, <1>8, <1>9, <1>10, <1>11, <1>12, <1>13, <1>14, <1>15, <1>16

-----------------------------------------------------------------------------
(* The loops that list a message can be counted. *)
LEMMA ListingCount ==
  ASSUME NEW m
  PROVE  /\ IsFiniteSet(Listing(m))
         /\ Cardinality(Listing(m)) \in Nat
         /\ Cardinality(Readers) \in Nat
         /\ Cardinality(Listing(m)) <= Cardinality(Readers)
<1>1. Listing(m) \subseteq Readers
  BY DEF Listing
<1> QED
  BY <1>1, DeliveryAssumption, FS_Subset, FS_CardinalityType

(* A loop that lists nothing new adds to no count, and one that takes a row *)
(* off its list takes one from the count of that row.                       *)
LEMMA ListingShrinks ==
  ASSUME TypeOK, TypeOK', NEW m \in Messages, NEW r \in Readers,
         \A q \in Readers \ {r} : snapshot'[q] \subseteq snapshot[q],
         m \in snapshot'[r] => m \in snapshot[r]
  PROVE  /\ Cardinality(Listing(m)') \in Nat
         /\ Cardinality(Listing(m)') <= Cardinality(Listing(m))
         /\ m \in snapshot[r] /\ m \notin snapshot'[r] =>
              Cardinality(Listing(m)') + 1 <= Cardinality(Listing(m))
<1>1. Listing(m)' \subseteq Listing(m)
  BY DEF Listing
<1>2. /\ Cardinality(Listing(m)') \in Nat
      /\ Cardinality(Listing(m)') <= Cardinality(Listing(m))
  BY <1>1, ListingCount, FS_Subset, FS_CardinalityType
<1>3. ASSUME m \in snapshot[r], m \notin snapshot'[r]
      PROVE  Cardinality(Listing(m)') + 1 <= Cardinality(Listing(m))
  <2>1. r \in Listing(m) /\ Listing(m)' \subseteq Listing(m) \ {r}
    BY <1>1, <1>3 DEF Listing
  <2>2. /\ IsFiniteSet(Listing(m) \ {r})
        /\ Cardinality(Listing(m) \ {r}) = Cardinality(Listing(m)) - 1
    BY <2>1, ListingCount, FS_RemoveElement
  <2>3. Cardinality(Listing(m)') <= Cardinality(Listing(m) \ {r})
    BY <2>1, <2>2, FS_Subset
  <2> QED
    BY <2>2, <2>3, <1>2, ListingCount
<1> QED
  BY <1>2, <1>3

(* A loop whose list is new does not list the row it takes first. *)
LEMMA ListingMissesOne ==
  ASSUME TypeOK', NEW m \in Messages, NEW r \in Readers, m \notin snapshot'[r]
  PROVE  /\ Cardinality(Listing(m)') \in Nat
         /\ Cardinality(Listing(m)') < Cardinality(Readers)
<1>1. Listing(m)' \subseteq Readers \ {r}
  BY DEF Listing
<1>2. IsFiniteSet(Readers \ {r}) /\ Cardinality(Readers \ {r}) = Cardinality(Readers) - 1
  BY DeliveryAssumption, FS_RemoveElement
<1>3. /\ Cardinality(Listing(m)') \in Nat
      /\ Cardinality(Listing(m)') <= Cardinality(Readers \ {r})
  BY <1>1, <1>2, FS_Subset, FS_CardinalityType
<1> QED
  BY <1>2, <1>3, ListingCount

(* Listings count no more than there are loops, after the step too. *)
LEMMA ListingCountNext ==
  ASSUME NEW m
  PROVE  /\ Cardinality(Listing(m)') \in Nat
         /\ Cardinality(Listing(m)') <= Cardinality(Readers)
<1>1. Listing(m)' \subseteq Readers
  BY DEF Listing
<1> QED
  BY <1>1, DeliveryAssumption, FS_Subset, FS_CardinalityType

(* Taking the next row of a list keeps the budget, if the rows of the list  *)
(* have attempts left or were on the list already.                          *)
LEMMA InflightBudget ==
  ASSUME TypeOK, TypeOK', Budget, NEW r \in Readers, NEW rest \in SUBSET Messages,
         NEW box \in [Messages -> OutboxStatus], MarkInflight(r, rest, box),
         \A m \in Messages : box[m] \in {"pending", "retry"} => count[m] < MaxAttempts,
         \A m \in rest : m \in snapshot[r] \/ count[m] < MaxAttempts
  PROVE  Budget'
<1> SUFFICES ASSUME NEW n \in Messages
             PROVE  /\ outbox'[n] \in {"pending", "retry"} => count'[n] < MaxAttempts
                    /\ count'[n] + Cardinality(Listing(n)') < MaxAttempts + Cardinality(Readers)
  BY DEF Budget
<1>c. /\ MaxAttempts \in Nat /\ Cardinality(Readers) \in Nat
      /\ count[n] \in Nat /\ count'[n] \in Nat
      /\ Cardinality(Listing(n)) \in Nat /\ Cardinality(Listing(n)') \in Nat
      /\ Cardinality(Listing(n)) <= Cardinality(Readers)
      /\ Cardinality(Listing(n)') <= Cardinality(Readers)
      /\ count[n] + Cardinality(Listing(n)) < MaxAttempts + Cardinality(Readers)
  BY ListingCount, ListingCountNext, DeliveryAssumption DEF TypeOK, Budget
<1>1. CASE rest = {} /\ snapshot' = [snapshot EXCEPT ![r] = {}]
               /\ outbox' = box /\ UNCHANGED count
  <2>1. Cardinality(Listing(n)') <= Cardinality(Listing(n))
    <3>1. \A q \in Readers \ {r} : snapshot'[q] \subseteq snapshot[q]
      BY <1>1 DEF TypeOK
    <3>2. n \in snapshot'[r] => n \in snapshot[r]
      BY <1>1 DEF TypeOK
    <3> QED
      BY <3>1, <3>2, ListingShrinks
  <2> QED
    BY <1>1, <1>c, <2>1
<1>2. ASSUME NEW m \in rest,
             snapshot' = [snapshot EXCEPT ![r] = rest \ {m}],
             outbox' = [box EXCEPT ![m] = "sending"],
             count' = [count EXCEPT ![m] = @ + 1]
      PROVE  /\ outbox'[n] \in {"pending", "retry"} => count'[n] < MaxAttempts
             /\ count'[n] + Cardinality(Listing(n)') < MaxAttempts + Cardinality(Readers)
  <2>0. /\ count'[n] = IF n = m THEN count[n] + 1 ELSE count[n]
        /\ outbox'[n] = IF n = m THEN "sending" ELSE box[n]
        /\ snapshot'[r] = rest \ {m}
        /\ \A q \in Readers \ {r} : snapshot'[q] = snapshot[q]
    BY <1>2 DEF TypeOK
  <2>1. outbox'[n] \in {"pending", "retry"} => count'[n] < MaxAttempts
    BY <2>0
  <2>2. CASE n \in snapshot'[r] /\ n \notin snapshot[r]
    <3>1. n # m /\ count[n] < MaxAttempts
      BY <2>0, <2>2
    <3> QED
      BY <2>0, <2>1, <3>1, <1>c
  <2>3. CASE n \in snapshot'[r] => n \in snapshot[r]
    <3>1. /\ Cardinality(Listing(n)') <= Cardinality(Listing(n))
          /\ n \in snapshot[r] /\ n \notin snapshot'[r] =>
               Cardinality(Listing(n)') + 1 <= Cardinality(Listing(n))
      BY <2>0, <2>3, ListingShrinks
    <3>2. CASE n # m
      BY <2>0, <2>1, <3>1, <3>2, <1>c
    <3>3. CASE n = m /\ n \in snapshot[r]
      <4>1. n \notin snapshot'[r]
        BY <2>0, <3>3
      <4>2. Cardinality(Listing(n)') + 1 <= Cardinality(Listing(n))
        BY <3>1, <3>3, <4>1
      <4> QED
        BY <2>0, <2>1, <3>3, <4>2, <1>c
    <3>4. CASE n = m /\ n \notin snapshot[r]
      <4>1. count[n] < MaxAttempts
        BY <3>4
      <4>2. Cardinality(Listing(n)') < Cardinality(Readers)
        BY <2>0, <3>4, ListingMissesOne
      <4> QED
        BY <2>0, <2>1, <3>4, <4>1, <4>2, <1>c
    <3> QED
      BY <3>2, <3>3, <3>4
  <2> QED
    BY <2>2, <2>3
<1> QED
  BY <1>1, <1>2 DEF MarkInflight

(* A step that leaves lists and counts alone keeps the budget, if the rows  *)
(* it makes due have attempts left.                                         *)
LEMMA SameBudget ==
  ASSUME Budget, UNCHANGED <<snapshot, count>>,
         \A m \in Messages : outbox'[m] \in {"pending", "retry"} =>
            outbox[m] \in {"pending", "retry"} \/ count[m] < MaxAttempts
  PROVE  Budget'
BY DEF Budget, Listing

(* A fresh row has made no attempt. *)
LEMMA EnqueueBudget ==
  ASSUME TypeOK, TypeOK', Budget, NEW m \in Messages, Enqueue(m), UNCHANGED snapshot
  PROVE  Budget'
<1> SUFFICES ASSUME NEW n \in Messages
             PROVE  /\ outbox'[n] \in {"pending", "retry"} => count'[n] < MaxAttempts
                    /\ count'[n] + Cardinality(Listing(n)') < MaxAttempts + Cardinality(Readers)
  BY DEF Budget
<1>1. CASE n = m
  <2>1. count'[n] = 0
    BY <1>1 DEF Enqueue, TypeOK
  <2> QED
    BY <2>1, ListingCountNext, ListingCount, DeliveryAssumption
<1>2. CASE n # m
  <2>1. count'[n] = count[n] /\ outbox'[n] = outbox[n] /\ Listing(n)' = Listing(n)
    BY <1>2 DEF Enqueue, TypeOK, Listing
  <2> QED
    BY <2>1 DEF Budget
<1> QED
  BY <1>1, <1>2

(* Every loop takes a row at most once per list_due, and list_due returns   *)
(* no row without attempts left.                                            *)
LEMMA BudgetStep ==
  ASSUME TypeOK, TypeOK', Budget, [Next]_vars
  PROVE  Budget'
<1>1. ASSUME NEW m \in Messages, StartDeliver(m) \/ DeliverTaken(m) \/ RecordSent(m)
                \/ SurfaceShows(m) \/ SurfaceRefuses(m) \/ LoseResult(m) \/ BackoffElapses(m)
      PROVE  Budget'
  <2>1. UNCHANGED <<snapshot, count, outbox>>
    BY <1>1 DEF StartDeliver, DeliverTaken, RecordSent, SurfaceShows, SurfaceRefuses, LoseResult,
                BackoffElapses, rows, drainVars
  <2> QED
    BY <2>1, SameBudget
<1>2. ASSUME NEW m \in Messages, RecordUnsent(m)
      PROVE  Budget'
  <2>1. CASE m \in Queueable
    BY <1>2, <2>1, EnqueueBudget DEF RecordUnsent, drainVars
  <2>2. CASE m \notin Queueable
    <3>1. UNCHANGED <<snapshot, count, outbox>>
      BY <1>2, <2>2 DEF RecordUnsent, drainVars
    <3> QED
      BY <3>1, SameBudget
  <2> QED
    BY <2>1, <2>2
<1>3. ASSUME NEW r \in Readers, StartDrain(r)
      PROVE  Budget'
  <2>1. Due \in SUBSET Messages /\ \A m \in Due : count[m] < MaxAttempts
    BY DEF Due, Budget
  <2>2. outbox \in [Messages -> OutboxStatus]
    BY DEF TypeOK
  <2>3. MarkInflight(r, Due, outbox)
    BY <1>3 DEF StartDrain
  <2>4. \A m \in Messages : outbox[m] \in {"pending", "retry"} => count[m] < MaxAttempts
    BY DEF Budget
  <2> QED
    BY <2>1, <2>2, <2>3, <2>4, InflightBudget
<1>4. ASSUME NEW r \in Readers, NEW m \in Messages, DrainTaken(r, m)
      PROVE  Budget'
  <2>1. UNCHANGED <<snapshot, count, outbox>>
    BY <1>4 DEF DrainTaken, rows
  <2> QED
    BY <2>1, SameBudget
<1>5. ASSUME NEW r \in Readers, NEW m \in Messages, DrainSent(r, m)
      PROVE  Budget'
  <2> DEFINE box == [outbox EXCEPT ![m] = "sent"]
  <2>1. box \in [Messages -> OutboxStatus] /\ snapshot[r] \in SUBSET Messages
    BY DEF TypeOK, OutboxStatus
  <2>2. \A n \in Messages : box[n] \in {"pending", "retry"} => count[n] < MaxAttempts
    BY DEF TypeOK, Budget
  <2>3. MarkInflight(r, snapshot[r], box)
    BY <1>5 DEF DrainSent
  <2> HIDE DEF box
  <2> QED
    BY <2>1, <2>2, <2>3, InflightBudget
<1>6. ASSUME NEW r \in Readers, NEW m \in Messages, DrainUnsent(r, m)
      PROVE  Budget'
  <2> DEFINE box == [outbox EXCEPT ![m] = FailureStatus(m)]
  <2>1. box \in [Messages -> OutboxStatus] /\ snapshot[r] \in SUBSET Messages
    BY DEF TypeOK, OutboxStatus, FailureStatus
  <2>2. \A n \in Messages : box[n] \in {"pending", "retry"} => count[n] < MaxAttempts
    BY DeliveryAssumption DEF TypeOK, Budget, FailureStatus
  <2>3. MarkInflight(r, snapshot[r], box)
    BY <1>6 DEF DrainUnsent
  <2> HIDE DEF box
  <2> QED
    BY <2>1, <2>2, <2>3, InflightBudget
<1>7. ASSUME NEW r \in Readers, NEW m \in Messages, HandleSuccess(r, m)
      PROVE  Budget'
  <2>1. UNCHANGED <<snapshot, count>>
    BY <1>7 DEF HandleSuccess, drainVars
  <2>2. \A n \in Messages : outbox'[n] = outbox[n] \/ outbox'[n] = "sent"
    BY <1>7 DEF HandleSuccess, TypeOK
  <2> QED
    BY <2>1, <2>2, SameBudget
<1>8. ASSUME NEW r \in Readers, NEW m \in Messages, HandleFailure(r, m)
      PROVE  Budget'
  <2>1. UNCHANGED snapshot
    BY <1>8 DEF HandleFailure, drainVars
  <2>2. CASE attempt[m] = "none" \/ m \notin Queueable
    <3>1. UNCHANGED <<outbox, count>>
      BY <1>8, <2>2 DEF HandleFailure, rows
    <3> QED
      BY <2>1, <3>1, SameBudget
  <2>3. CASE attempt[m] # "none" /\ m \in Queueable /\ ~linked[m]
    <3>1. Enqueue(m)
      BY <1>8, <2>3 DEF HandleFailure
    <3> QED
      BY <2>1, <3>1, EnqueueBudget
  <2>4. CASE attempt[m] # "none" /\ m \in Queueable /\ linked[m]
    <3>1. outbox' = [outbox EXCEPT ![m] = FailureStatus(m)] /\ UNCHANGED count
      BY <1>8, <2>4 DEF HandleFailure
    <3>2. FailureStatus(m) \in {"pending", "retry"} => count[m] < MaxAttempts
      BY DeliveryAssumption DEF FailureStatus, TypeOK
    <3>3. \A n \in Messages : outbox'[n] \in {"pending", "retry"} =>
             outbox[n] \in {"pending", "retry"} \/ count[n] < MaxAttempts
      BY <3>1, <3>2 DEF TypeOK
    <3> QED
      BY <2>1, <3>1, <3>3, SameBudget
  <2> QED
    BY <2>2, <2>3, <2>4
<1>9. CASE Crash
  <2> SUFFICES ASSUME NEW n \in Messages
               PROVE  /\ outbox'[n] \in {"pending", "retry"} => count'[n] < MaxAttempts
                      /\ count'[n] + Cardinality(Listing(n)') < MaxAttempts + Cardinality(Readers)
    BY DEF Budget
  <2>1. UNCHANGED <<outbox, count>>
    BY <1>9 DEF Crash, rows
  <2>2. Listing(n)' \subseteq Listing(n)
    BY <1>9 DEF Crash, Listing
  <2>3. Cardinality(Listing(n)') <= Cardinality(Listing(n))
    BY <2>2, ListingCount, FS_Subset
  <2>4. /\ MaxAttempts \in Nat /\ count[n] \in Nat
        /\ Cardinality(Listing(n)) \in Nat /\ Cardinality(Listing(n)') \in Nat
        /\ Cardinality(Readers) \in Nat
        /\ outbox[n] \in {"pending", "retry"} => count[n] < MaxAttempts
        /\ count[n] + Cardinality(Listing(n)) < MaxAttempts + Cardinality(Readers)
    BY DeliveryAssumption, ListingCount, ListingCountNext DEF TypeOK, Budget
  <2> QED
    BY <2>1, <2>3, <2>4
<1>10. CASE UNCHANGED vars
  <2>1. UNCHANGED <<snapshot, count, outbox>>
    BY <1>10 DEF vars, rows, drainVars
  <2> QED
    BY <2>1, SameBudget
<1> QED
  BY StepCases, <1>1, <1>2, <1>3, <1>4, <1>5, <1>6, <1>7, <1>8, <1>9, <1>10

-----------------------------------------------------------------------------
(* IInv is an inductive invariant of Delivery: what deliver(), the drains,  *)
(* the reports and a crash each preserve.                                   *)
THEOREM InductiveInvariant == Spec => []IInv
<1>1. Init => IInv
  BY DeliveryAssumption DEF Init, IInv, TypeOK, Honest, InHand, StrandedOnlyByCrash, Once, Quiet,
                            OnlyQueueable, GivenUp, Outcome, AttemptStatus, OutboxStatus
<1>2. IInv /\ [Next]_vars => IInv'
  <2> SUFFICES ASSUME IInv, [Next]_vars
               PROVE  IInv'
    OBVIOUS
  <2>1. TypeOK' /\ Honest' /\ InHand'
    BY TypeStep, HonestStep, InHandStep DEF IInv
  <2>2. OneLoop => Once' /\ OnlyQueueable' /\ GivenUp'
    BY OnceStep, OnlyQueueableStep, GivenUpStep DEF IInv
  <2> QED
    BY <2>1, <2>2 DEF IInv, OneLoop
<1> QED
  BY <1>1, <1>2, PTL DEF Spec

(* Delivery keeps its types: the statuses that deliver(), reschedule_failure *)
(* and the handlers write are those the rows know.                          *)
THEOREM TypeCorrect == Spec => []TypeOK
<1>1. IInv => TypeOK
  BY DEF IInv
<1> QED
  BY <1>1, InductiveInvariant, PTL

(* handle_delivery_result and the drain never record delivered without an   *)
(* external send that succeeded, with any number of receive loops.          *)
THEOREM DeliveredWasShown == Spec => []DeliveredIsReal
<1>1. IInv => DeliveredIsReal
  BY DEF IInv, Honest, DeliveredIsReal
<1> QED
  BY <1>1, InductiveInvariant, PTL

(* A row that mark_inflight set to sending is written back by the drain     *)
(* that has it, or was stranded by a crash, with any number of loops.       *)
THEOREM OnlyCrashStrands == Spec => []StrandedOnlyByCrash
<1>1. IInv => StrandedOnlyByCrash
  BY DEF IInv, InHand
<1> QED
  BY <1>1, InductiveInvariant, PTL

(* With one receive loop the external surface shows a message at most once, *)
(* for any number of messages, attempts and crashes.                        *)
THEOREM ShownOnce == ASSUME OneLoop PROVE Spec => []ShownAtMostOnce
<1>1. IInv => ShownAtMostOnce
  BY DEF IInv, Once, ShownAtMostOnce, TypeOK
<1> QED
  BY <1>1, InductiveInvariant, PTL

(* With one receive loop nothing takes a delivered attempt back: no late    *)
(* drain and no late failure report.                                        *)
THEOREM DeliveredStays == ASSUME OneLoop PROVE Spec => DeliveredIsFinal
<1>1. IInv /\ [Next]_vars =>
        [\A m \in Messages : attempt[m] = "delivered" => attempt'[m] = "delivered"]_vars
  BY FinalStep DEF IInv
<1> QED
  BY <1>1, InductiveInvariant, PTL DEF Spec, DeliveredIsFinal

(* What the rows say of the messages. *)
Told == [m \in Messages |-> Outcome(m)]

(* Writing the status of a message whose outcome is open is a step of the   *)
(* contract, if the status tells the truth.                                 *)
LEMMA StatusWritten ==
  ASSUME TypeOK, UNCHANGED shown, NEW m \in Messages, NEW s \in AttemptStatus,
         Outcome(m) = "open", attempt' = [attempt EXCEPT ![m] = s],
         s = "delivered" => shown[m] = 1,
         s \in {"dead_letter", "failed"} => shown[m] = 0
  PROVE  [Contract!Next]_Contract!vars
<1> DEFINE v == IF s = "delivered" THEN "shown"
                ELSE IF s \in {"dead_letter", "failed"} THEN "given_up" ELSE "open"
<1>1. \A n \in Messages : attempt'[n] = IF n = m THEN s ELSE attempt[n]
  BY DEF TypeOK
<1>2. Told' = [Told EXCEPT ![m] = v]
  BY <1>1 DEF Told, Outcome
<1>3. CASE v = "open"
  <2>1. Told' = Told
    BY <1>2, <1>3 DEF Told
  <2> QED
    BY <2>1 DEF Contract!vars, Told
<1>4. CASE v # "open"
  <2>1. v \in {"shown", "given_up"}
    BY <1>4
  <2>2. v = "shown" => shown[m] = 1
    OBVIOUS
  <2>3. v = "given_up" => shown[m] = 0
    OBVIOUS
  <2>4. Told[m] = "open"
    BY DEF Told
  <2> HIDE DEF v
  <2>5. Contract!Close(m, v)
    BY <1>2, <2>1, <2>2, <2>3, <2>4 DEF Contract!Close, Told
  <2> QED
    BY <2>1, <2>5 DEF Contract!Next
<1> QED
  BY <1>3, <1>4

(* A step that writes no status and shows nothing leaves the contract alone. *)
LEMMA NothingTold ==
  ASSUME UNCHANGED <<attempt, shown>>
  PROVE  [Contract!Next]_Contract!vars
BY DEF Contract!vars, Outcome

(* A step of Delivery is a step of the contract or leaves it alone. *)
LEMMA ContractStep ==
  ASSUME OneLoop, IInv, [Next]_vars
  PROVE  [Contract!Next]_Contract!vars
<1> USE DEF rows, drainVars, providerVars, history
<1>t. TypeOK /\ Honest /\ Once /\ GivenUp
  BY DEF IInv
<1>1. ASSUME NEW m \in Messages, StartDeliver(m) \/ DeliverTaken(m) \/ SurfaceRefuses(m)
                \/ LoseResult(m) \/ BackoffElapses(m)
      PROVE  [Contract!Next]_Contract!vars
  BY <1>1, NothingTold DEF StartDeliver, DeliverTaken, SurfaceRefuses, LoseResult, BackoffElapses
<1>2. ASSUME NEW m \in Messages, SurfaceShows(m) PROVE [Contract!Next]_Contract!vars
  <2>1. shown[m] = 0
    BY <1>2, <1>t, OneCopyOfMessage DEF SurfaceShows
  <2>2. Told[m] # "given_up"
    BY <1>2, <1>t, NoCopyOfGivenUp DEF SurfaceShows, Told
  <2>3. shown' = [shown EXCEPT ![m] = 1]
    BY <1>2, <1>t, <2>1 DEF SurfaceShows, TypeOK
  <2>4. Told' = Told
    BY <1>2 DEF SurfaceShows, Told, Outcome
  <2>5. Contract!Run(m)
    BY <2>1, <2>2, <2>3, <2>4 DEF Contract!Run, Told
  <2> QED
    BY <2>5 DEF Contract!Next
<1>3. ASSUME NEW m \in Messages, RecordSent(m) \/ RecordUnsent(m)
      PROVE  [Contract!Next]_Contract!vars
  <2>1. Outcome(m) = "open"
    BY <1>3, <1>t DEF RecordSent, RecordUnsent, Once, Outcome
  <2>2. PICK s \in {"dispatched", "sent", "queued"} : SetAttempt(m, s)
    BY <1>3 DEF RecordSent, RecordUnsent
  <2>3. UNCHANGED shown
    BY <1>3 DEF RecordSent, RecordUnsent
  <2> QED
    BY <1>t, <2>1, <2>2, <2>3, StatusWritten DEF SetAttempt, AttemptStatus
<1>4. ASSUME NEW r \in Readers, StartDrain(r) PROVE [Contract!Next]_Contract!vars
  BY <1>4, NothingTold DEF StartDrain
<1>5. ASSUME NEW r \in Readers, NEW m \in Messages, DrainTaken(r, m)
      PROVE  [Contract!Next]_Contract!vars
  BY <1>5, NothingTold DEF DrainTaken
<1>6. ASSUME NEW r \in Readers, NEW m \in Messages, DrainSent(r, m) \/ DrainUnsent(r, m)
      PROVE  [Contract!Next]_Contract!vars
  <2>1. Outcome(m) = "open"
    BY <1>6, <1>t DEF DrainSent, DrainUnsent, Once, GivenUp, Outcome
  <2>2. CASE DrainSent(r, m)
    <3>1. SetAttempt(m, "dispatched") /\ UNCHANGED shown
      BY <2>2 DEF DrainSent
    <3> QED
      BY <1>t, <2>1, <3>1, StatusWritten DEF SetAttempt, AttemptStatus
  <2>3. CASE DrainUnsent(r, m)
    <3>1. SetAttempt(m, FailureStatus(m)) /\ UNCHANGED shown
      BY <2>3 DEF DrainUnsent
    <3>2. FailureStatus(m) \in {"dead_letter", "retry"}
      BY DEF FailureStatus
    <3>3. shown[m] = 0
      <4>1. ~Quiet(m)
        BY <2>3 DEF DrainUnsent, Quiet
      <4> QED
        BY <1>t, <4>1, OneCopyOfMessage
    <3> QED
      BY <1>t, <2>1, <3>1, <3>2, <3>3, StatusWritten DEF SetAttempt, AttemptStatus
  <2> QED
    BY <1>6, <2>2, <2>3
<1>7. ASSUME NEW r \in Readers, NEW m \in Messages, HandleSuccess(r, m)
      PROVE  [Contract!Next]_Contract!vars
  <2>1. UNCHANGED shown
    BY <1>7 DEF HandleSuccess
  <2>2. shown[m] = 1 /\ Outcome(m) # "given_up"
    BY <1>7, <1>t, OneCopyOfMessage, NoCopyOfGivenUp DEF HandleSuccess
  <2>3. CASE attempt[m] = "none" \/ attempt[m] = "delivered"
    <3>1. attempt' = attempt
      BY <1>7, <1>t, <2>3 DEF HandleSuccess, SetAttempt, TypeOK
    <3> QED
      BY <2>1, <3>1, NothingTold
  <2>4. CASE attempt[m] # "none" /\ attempt[m] # "delivered"
    <3>1. SetAttempt(m, "delivered")
      BY <1>7, <2>4 DEF HandleSuccess
    <3>2. Outcome(m) = "open"
      BY <2>2, <2>4 DEF Outcome
    <3> QED
      BY <1>t, <2>1, <2>2, <3>1, <3>2, StatusWritten DEF SetAttempt, AttemptStatus
  <2> QED
    BY <2>3, <2>4
<1>8. ASSUME NEW r \in Readers, NEW m \in Messages, HandleFailure(r, m)
      PROVE  [Contract!Next]_Contract!vars
  <2>1. UNCHANGED shown
    BY <1>8 DEF HandleFailure
  <2>2. shown[m] = 0 /\ Outcome(m) = "open"
    <3>1. badResult[m] > 0
      BY <1>8 DEF HandleFailure
    <3>2. shown[m] = 0 /\ attempt[m] # "delivered"
      BY <1>t, <3>1, OneCopyOfMessage
    <3>3. Outcome(m) # "given_up"
      BY <1>t, <3>1, NoCopyOfGivenUp
    <3> QED
      BY <3>2, <3>3 DEF Outcome
  <2>3. CASE attempt[m] = "none"
    <3>1. attempt' = attempt
      BY <1>8, <2>3 DEF HandleFailure
    <3> QED
      BY <2>1, <3>1, NothingTold
  <2>4. CASE attempt[m] # "none"
    <3>1. PICK s \in {"failed", "retry", "dead_letter"} : SetAttempt(m, s)
      BY <1>8, <2>4 DEF HandleFailure, FailureStatus
    <3> QED
      BY <1>t, <2>1, <2>2, <3>1, StatusWritten DEF SetAttempt, AttemptStatus
  <2> QED
    BY <2>3, <2>4
<1>9. CASE Crash
  BY <1>9, NothingTold DEF Crash
<1>10. CASE UNCHANGED vars
  BY <1>10, NothingTold DEF vars
<1> QED
  BY StepCases, <1>1, <1>2, <1>3, <1>4, <1>5, <1>6, <1>7, <1>8, <1>9, <1>10

(* With one receive loop the attempt rows keep the promise of               *)
(* EffectContract: a message is shown once at most, delivered means that it *)
(* was, dead_letter and failed that it was not and never will be, and       *)
(* neither is taken back.                                                   *)
THEOREM ContractImplemented == ASSUME OneLoop PROVE Spec => KeepsContract
<1>1. Init => Contract!Init
  BY DEF Init, Contract!Init, Outcome
<1>2. IInv /\ [Next]_vars => [Contract!Next]_Contract!vars
  BY ContractStep
<1> QED
  BY <1>1, <1>2, InductiveInvariant, PTL DEF Spec, KeepsContract, Contract!Spec

(* However many loops drain at once and however long they are held up, a    *)
(* row makes no more attempts than max_attempts and one for each further    *)
(* loop.                                                                    *)
THEOREM AttemptsStayInBudget == Spec => []RetryBudget
<1>1. Init => Budget
  <2> SUFFICES ASSUME Init, NEW m \in Messages
               PROVE  /\ outbox[m] \in {"pending", "retry"} => count[m] < MaxAttempts
                      /\ count[m] + Cardinality(Listing(m)) < MaxAttempts + Cardinality(Readers)
    BY DEF Budget
  <2>1. outbox[m] = "none" /\ count[m] = 0
    BY DEF Init
  <2> QED
    BY <2>1, ListingCount, DeliveryAssumption
<1>2. TypeOK /\ TypeOK' /\ Budget /\ [Next]_vars => Budget'
  BY BudgetStep
<1>3. TypeOK /\ Budget => RetryBudget
  <2> SUFFICES ASSUME TypeOK, Budget, NEW m \in Messages
               PROVE  count[m] + 1 <= MaxAttempts + Cardinality(Readers)
    BY DEF RetryBudget
  <2>1. /\ MaxAttempts \in Nat /\ count[m] \in Nat
        /\ Cardinality(Listing(m)) \in Nat
        /\ Cardinality(Readers) \in Nat
        /\ count[m] + Cardinality(Listing(m)) < MaxAttempts + Cardinality(Readers)
    BY DeliveryAssumption, ListingCount DEF TypeOK, Budget
  <2> QED
    BY <2>1
<1> QED
  BY <1>1, <1>2, <1>3, TypeCorrect, PTL DEF Spec
=============================================================================
