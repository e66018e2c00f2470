------------------------------ MODULE Delivery ------------------------------
(***************************************************************************)
(* Durable delivery of messages to one endpoint: DeliveryService, the      *)
(* EndpointOutbox and DeliveryAttempt rows it keeps, the receive loops of  *)
(* the endpoint's connections that drain the outbox and handle results,    *)
(* and the provider that sends a message to an external surface and        *)
(* reports how that went.                                                  *)
(*                                                                         *)
(* deliver() and drain_endpoint_outbox() await the transport, and every    *)
(* other coroutine may run there; between two awaits a coroutine is one    *)
(* step.  A receive loop handles one frame after another, so a loop that   *)
(* is draining handles no result.  A message has at most one outbox row:   *)
(* the row is created either by deliver(), together with the attempt, or   *)
(* by the first failure result of an attempt that has none.                *)
(***************************************************************************)
EXTENDS Naturals, FiniteSets

CONSTANTS
  Messages,     \* the deliveries, one delivery_id each
  Addressed,    \* those with a target_address
  Queueable,    \* those whose offline_policy keeps them in the outbox
  Readers,      \* Core's receive loops of the endpoint's connections: the
                \* live one, and those of dead connections still in a drain
  MaxAttempts,  \* max_attempts of drain_endpoint_outbox
  MaxCrashes    \* bound: how often Core dies

ASSUME DeliveryAssumption ==
  /\ Addressed \subseteq Messages
  /\ Queueable \subseteq Messages
  /\ IsFiniteSet(Readers)
  /\ MaxAttempts \in Nat \ {0}
  /\ MaxCrashes \in Nat

VARIABLES
  pc,        \* pc[m]: the coroutine of deliver()
  attempt,   \* attempt[m]: DeliveryAttempt.status, or "none"
  linked,    \* linked[m]: the attempt names an outbox row
  outbox,    \* outbox[m]: EndpointOutbox.status, or "none"
  count,     \* count[m]: EndpointOutbox.attempt_count
  due,       \* due[m]: available_at has passed
  snapshot,  \* snapshot[r]: rows of list_due that drain r has still to take
  sending,   \* sending[r]: {m} while drain r is in the transport with m
  taken,     \* taken[r]: a socket took the frame of that message
  inbox,     \* inbox[m]: frames of m that the provider has not handled
  okResult,  \* okResult[m]: delivery.result frames on their way, successes
  badResult, \* badResult[m]: and failures
  shown,     \* shown[m]: times the external surface showed m (history)
  reported,  \* reported[m]: failure results Core handled (history)
  orphans,   \* rows whose drain died with Core (history)
  crashes    \* how often Core died

rows         == <<attempt, linked, outbox, count, due>>
drainVars    == <<snapshot, sending, taken>>
providerVars == <<inbox, okResult, badResult, shown>>
history      == <<reported, orphans, crashes>>
vars         == <<pc, rows, drainVars, providerVars, history>>

AttemptStatus == {"none", "queued", "dispatched", "sent", "delivered",
                  "retry", "dead_letter", "failed"}
OutboxStatus  == {"none", "pending", "sending", "sent", "retry", "dead_letter"}

Init ==
  /\ pc = [m \in Messages |-> "idle"]
  /\ attempt = [m \in Messages |-> "none"]
  /\ linked = [m \in Messages |-> FALSE]
  /\ outbox = [m \in Messages |-> "none"]
  /\ count = [m \in Messages |-> 0]
  /\ due = [m \in Messages |-> FALSE]
  /\ snapshot = [r \in Readers |-> {}]
  /\ sending = [r \in Readers |-> {}]
  /\ taken = [r \in Readers |-> FALSE]
  /\ inbox = [m \in Messages |-> 0]
  /\ okResult = [m \in Messages |-> 0]
  /\ badResult = [m \in Messages |-> 0]
  /\ shown = [m \in Messages |-> 0]
  /\ reported = [m \in Messages |-> 0]
  /\ orphans = {}
  /\ crashes = 0

-----------------------------------------------------------------------------
(* The rows. *)

SetAttempt(m, status) == attempt' = [attempt EXCEPT ![m] = status]

(* EndpointOutboxRepository.create: available at once. *)
Enqueue(m) ==
  /\ outbox' = [outbox EXCEPT ![m] = "pending"]
  /\ count' = [count EXCEPT ![m] = 0]
  /\ due' = [due EXCEPT ![m] = TRUE]
  /\ linked' = [linked EXCEPT ![m] = TRUE]

(* reschedule_failure: the status it gives the row, and the attempt too. *)
FailureStatus(m) == IF count[m] >= MaxAttempts THEN "dead_letter" ELSE "retry"

(* send_to_endpoint: some socket takes the frame.  One provider process     *)
(* serves the endpoint, so at most one of its sockets has a live connection *)
(* behind it; if none has, the frame is lost.                               *)
TransportTakes(m) ==
  \/ inbox' = [inbox EXCEPT ![m] = @ + 1]
  \/ UNCHANGED inbox

-----------------------------------------------------------------------------
(* DeliveryService.deliver. *)

StartDeliver(m) ==
  /\ pc[m] = "idle"
  /\ pc' = [pc EXCEPT ![m] = "sending"]
  /\ UNCHANGED <<rows, drainVars, providerVars, history>>

(* The frame leaves while deliver() still waits for the transport. *)
DeliverTaken(m) ==
  /\ pc[m] = "sending"
  /\ pc' = [pc EXCEPT ![m] = "taken"]
  /\ TransportTakes(m)
  /\ UNCHANGED <<rows, drainVars, okResult, badResult, shown, history>>

(* deliver() resumes: the attempt is recorded only now. *)
RecordSent(m) ==
  /\ pc[m] = "taken"
  /\ pc' = [pc EXCEPT ![m] = "done"]
  /\ SetAttempt(m, IF m \in Addressed THEN "dispatched" ELSE "sent")
  /\ UNCHANGED <<linked, outbox, count, due, drainVars, providerVars, history>>

(* No socket took the frame. *)
RecordUnsent(m) ==
  /\ pc[m] = "sending"
  /\ pc' = [pc EXCEPT ![m] = "done"]
  /\ SetAttempt(m, "queued")
  /\ IF m \in Queueable THEN Enqueue(m) ELSE UNCHANGED <<linked, outbox, count, due>>
  /\ UNCHANGED <<drainVars, providerVars, history>>

-----------------------------------------------------------------------------
(* A receive loop: drain_endpoint_outbox after endpoint.ready, a capability *)
(* snapshot or a heartbeat, and handle_delivery_result.                     *)

Idle(r) == snapshot[r] = {} /\ sending[r] = {}

(* Slips: list_due forgets rows to retry; it returns rows that were sent. *)
DueNotRetried == {m \in Messages : outbox[m] = "pending" /\ due[m]}
DueWithSent == {m \in Messages : outbox[m] \in {"pending", "retry", "sent"} /\ due[m]}

Due == {m \in Messages : outbox[m] \in {"pending", "retry"} /\ due[m]}

(* mark_inflight of the next row of the list, which does not look at the    *)
(* status the row has by now; box holds what the step did to the rows so    *)
(* far.  With nothing left in the list the drain ends.                      *)
MarkInflight(r, rest, box) ==
  \/ /\ rest = {}
     /\ snapshot' = [snapshot EXCEPT ![r] = {}]
     /\ sending' = [sending EXCEPT ![r] = {}]
     /\ outbox' = box
     /\ UNCHANGED <<count, taken>>
  \/ \E m \in rest :
        /\ snapshot' = [snapshot EXCEPT ![r] = rest \ {m}]
        /\ sending' = [sending EXCEPT ![r] = {m}]
        /\ taken' = [taken EXCEPT ![r] = FALSE]
        /\ outbox' = [box EXCEPT ![m] = "sending"]
        /\ count' = [count EXCEPT ![m] = @ + 1]

(* list_due, and at once the first row of it. *)
StartDrain(r) ==
  /\ Idle(r)
  /\ Due # {}
  /\ MarkInflight(r, Due, outbox)
  /\ UNCHANGED <<pc, attempt, linked, due, providerVars, history>>

DrainTaken(r, m) ==
  /\ m \in sending[r]
  /\ ~taken[r]
  /\ taken' = [taken EXCEPT ![r] = TRUE]
  /\ TransportTakes(m)
  /\ UNCHANGED <<pc, rows, snapshot, sending, okResult, badResult, shown, history>>

(* Slip: a frame taken by a socket counts as delivered. *)
DrainSentAsDelivered(r, m) ==
  /\ m \in sending[r]
  /\ taken[r]
  /\ SetAttempt(m, "delivered")
  /\ MarkInflight(r, snapshot[r], [outbox EXCEPT ![m] = "sent"])
  /\ UNCHANGED <<pc, linked, due, providerVars, history>>

(* mark_sent, the attempt is dispatched whatever it was, and the next row. *)
DrainSent(r, m) ==
  /\ m \in sending[r]
  /\ taken[r]
  /\ SetAttempt(m, "dispatched")
  /\ MarkInflight(r, snapshot[r], [outbox EXCEPT ![m] = "sent"])
  /\ UNCHANGED <<pc, linked, due, providerVars, history>>

(* Slip: the attempt is told of the failure, the row is not. *)
DrainUnsentKeepsRow(r, m) ==
  /\ m \in sending[r]
  /\ ~taken[r]
  /\ SetAttempt(m, FailureStatus(m))
  /\ MarkInflight(r, snapshot[r], outbox)
  /\ UNCHANGED <<pc, linked, due, providerVars, history>>

(* Slip: the attempt is given up at the first failure, the row is not. *)
DrainUnsentGivesUp(r, m) ==
  /\ m \in sending[r]
  /\ ~taken[r]
  /\ SetAttempt(m, "dead_letter")
  /\ due' = [due EXCEPT ![m] = FALSE]
  /\ MarkInflight(r, snapshot[r], [outbox EXCEPT ![m] = FailureStatus(m)])
  /\ UNCHANGED <<pc, linked, providerVars, history>>

(* No socket took the frame, or the transport raised. *)
DrainUnsent(r, m) ==
  /\ m \in sending[r]
  /\ ~taken[r]
  /\ SetAttempt(m, FailureStatus(m))
  /\ due' = [due EXCEPT ![m] = FALSE]
  /\ MarkInflight(r, snapshot[r], [outbox EXCEPT ![m] = FailureStatus(m)])
  /\ UNCHANGED <<pc, linked, providerVars, history>>

(* delivery.result with a success status. *)
HandleSuccess(r, m) ==
  /\ Idle(r)
  /\ okResult[m] > 0
  /\ okResult' = [okResult EXCEPT ![m] = @ - 1]
  /\ IF attempt[m] = "none"
       THEN UNCHANGED <<attempt, outbox>>
       ELSE /\ SetAttempt(m, "delivered")
            /\ outbox' = IF linked[m] THEN [outbox EXCEPT ![m] = "sent"] ELSE outbox
  /\ UNCHANGED <<pc, linked, count, due, drainVars, inbox, badResult, shown, history>>

(* delivery.result with a failure status, or delivery.error. *)
HandleFailure(r, m) ==
  /\ Idle(r)
  /\ badResult[m] > 0
  /\ badResult' = [badResult EXCEPT ![m] = @ - 1]
  /\ reported' = [reported EXCEPT ![m] = @ + 1]
  /\ \/ /\ attempt[m] = "none"
        /\ UNCHANGED rows
     \/ /\ attempt[m] # "none" /\ m \notin Queueable
        /\ SetAttempt(m, "failed")
        /\ UNCHANGED <<linked, outbox, count, due>>
     \/ /\ attempt[m] # "none" /\ m \in Queueable /\ ~linked[m]
        /\ Enqueue(m)
        /\ SetAttempt(m, "retry")
     \/ /\ attempt[m] # "none" /\ m \in Queueable /\ linked[m]
        /\ outbox' = [outbox EXCEPT ![m] = FailureStatus(m)]
        /\ due' = [due EXCEPT ![m] = FALSE]
        /\ SetAttempt(m, FailureStatus(m))
        /\ UNCHANGED <<linked, count>>
  /\ UNCHANGED <<pc, drainVars, inbox, okResult, shown, orphans, crashes>>

(* The backoff of a retry row is over. *)
BackoffElapses(m) ==
  /\ outbox[m] = "retry"
  /\ ~due[m]
  /\ due' = [due EXCEPT ![m] = TRUE]
  /\ UNCHANGED <<pc, attempt, linked, outbox, count, drainVars, providerVars, history>>

-----------------------------------------------------------------------------
(* The provider: one external send and one report per frame. *)

SurfaceShows(m) ==
  /\ inbox[m] > 0
  /\ inbox' = [inbox EXCEPT ![m] = @ - 1]
  /\ shown' = [shown EXCEPT ![m] = @ + 1]
  /\ okResult' = [okResult EXCEPT ![m] = @ + 1]
  /\ UNCHANGED <<pc, rows, drainVars, badResult, history>>

SurfaceRefuses(m) ==
  /\ inbox[m] > 0
  /\ inbox' = [inbox EXCEPT ![m] = @ - 1]
  /\ badResult' = [badResult EXCEPT ![m] = @ + 1]
  /\ UNCHANGED <<pc, rows, drainVars, okResult, shown, history>>

(* A report is lost with its connection. *)
LoseResult(m) ==
  /\ \/ /\ okResult[m] > 0
        /\ okResult' = [okResult EXCEPT ![m] = @ - 1]
        /\ UNCHANGED badResult
     \/ /\ badResult[m] > 0
        /\ badResult' = [badResult EXCEPT ![m] = @ - 1]
        /\ UNCHANGED okResult
  /\ UNCHANGED <<pc, rows, drainVars, inbox, shown, history>>

(* Core dies in its awaits; the rows are what is left. *)
Crash ==
  /\ crashes < MaxCrashes
  /\ crashes' = crashes + 1
  /\ pc' = [m \in Messages |-> IF pc[m] \in {"sending", "taken"} THEN "lost" ELSE pc[m]]
  /\ orphans' = orphans \cup UNION {sending[r] : r \in Readers}
  /\ snapshot' = [r \in Readers |-> {}]
  /\ sending' = [r \in Readers |-> {}]
  /\ taken' = [r \in Readers |-> FALSE]
  /\ UNCHANGED <<rows, providerVars, reported>>

-----------------------------------------------------------------------------
Deliver(m) == StartDeliver(m) \/ DeliverTaken(m) \/ RecordSent(m) \/ RecordUnsent(m)

Drain(r) ==
  \/ StartDrain(r)
  \/ \E m \in Messages :
        DrainTaken(r, m) \/ DrainSent(r, m) \/ DrainUnsent(r, m)

HandleResult(r) == \E m \in Messages : HandleSuccess(r, m) \/ HandleFailure(r, m)

Provider(m) == SurfaceShows(m) \/ SurfaceRefuses(m) \/ LoseResult(m)

Next ==
  \/ \E m \in Messages : Deliver(m) \/ Provider(m) \/ BackoffElapses(m)
  \/ \E r \in Readers : Drain(r) \/ HandleResult(r)
  \/ Crash

Spec == Init /\ [][Next]_vars

(* A connected endpoint sends heartbeats, each of which drains; an await of *)
(* the transport ends; the clock advances.  Results need not come.          *)
FairSpec ==
  /\ Spec
  /\ \A r \in Readers : WF_vars(Drain(r))
  /\ \A m \in Messages : WF_vars(BackoffElapses(m))

-----------------------------------------------------------------------------
(* Types of the rows, the drains and the provider; crashes stay in bounds. *)
TypeOK ==
  /\ pc \in [Messages -> {"idle", "sending", "taken", "done", "lost"}]
  /\ attempt \in [Messages -> AttemptStatus]
  /\ linked \in [Messages -> BOOLEAN]
  /\ outbox \in [Messages -> OutboxStatus]
  /\ count \in [Messages -> Nat]
  /\ due \in [Messages -> BOOLEAN]
  /\ snapshot \in [Readers -> SUBSET Messages]
  /\ sending \in [Readers -> SUBSET Messages]
  /\ taken \in [Readers -> BOOLEAN]
  /\ inbox \in [Messages -> Nat]
  /\ okResult \in [Messages -> Nat]
  /\ badResult \in [Messages -> Nat]
  /\ shown \in [Messages -> Nat]
  /\ reported \in [Messages -> Nat]
  /\ orphans \subseteq Messages
  /\ crashes \in 0 .. MaxCrashes

(* Two-phase delivery: an attempt says delivered only if the provider's     *)
(* external send succeeded, whatever drains, retries and crashes did.       *)
DeliveredIsReal ==
  \A m \in Messages : attempt[m] = "delivered" => shown[m] > 0

(* attempt_count never runs away: max_attempts, and one more for every      *)
(* other loop that had the row in its list_due when it died.                *)
RetryBudget ==
  \A m \in Messages : count[m] + 1 <= MaxAttempts + Cardinality(Readers)

(* list_due never returns a row in state sending, so such a row must be in  *)
(* some drain's hands.  Only a drain that died with Core leaves one behind. *)
StrandedOnlyByCrash ==
  \A m \in Messages : outbox[m] = "sending" =>
     m \in orphans \/ \E r \in Readers : m \in sending[r]

(* With one receive loop the external surface shows a message at most once, *)
(* retries and crashes included: a frame goes out again only after the one  *)
(* before it was reported failed or was taken by no socket.                 *)
ShownAtMostOnce ==
  \A m \in Messages : shown[m] <= 1

(* With one receive loop a delivered attempt stays delivered: nothing late  *)
(* sends the message again or takes the status back.                        *)
DeliveredIsFinal ==
  [][\A m \in Messages : attempt[m] = "delivered" => attempt'[m] = "delivered"]_vars

(* What the attempt row says of the message in the end: it was shown, or it *)
(* was not and never will be.                                               *)
Outcome(m) ==
  IF attempt[m] = "delivered" THEN "shown"
  ELSE IF attempt[m] \in {"dead_letter", "failed"} THEN "given_up"
  ELSE "open"

Contract ==
  INSTANCE EffectContract WITH
    Effects <- Messages, Verdicts <- {"shown", "given_up"}, NoVerdict <- "open",
    NeedsRun <- {"shown"}, NotStarted <- {"given_up"},
    verdict <- [m \in Messages |-> Outcome(m)], ran <- shown

(* Delivery with one receive loop implements EffectContract: a message is   *)
(* shown at most once, its attempt says delivered only when it was, nothing *)
(* takes a final status back, and what is a dead letter or failed is never  *)
(* shown, whatever drains, late reports and crashes did.                    *)
KeepsContract == Contract!Spec

(* While Core lives, what is in the outbox is sent or ends as dead letter.  *)
OutboxDrains ==
  \A m \in Messages :
     outbox[m] \in {"pending", "retry", "sending"} ~> outbox[m] \in {"sent", "dead_letter"}

(* A failure the provider reported of a queueable message is requeued.  The *)
(* code loses it when the report comes before deliver() recorded the        *)
(* attempt.                                                                 *)
FailureRequeued ==
  \A m \in Queueable : reported[m] > 0 /\ pc[m] = "done" => outbox[m] # "none"
=============================================================================
