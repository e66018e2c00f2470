---------------------------- MODULE Interaction ----------------------------
(***************************************************************************)
(* Questions a tool asks the user in the middle of a turn: confirmations   *)
(* and human input of core/event_bus.py, the approval and operation rows   *)
(* that core/app.py keeps for a confirmation, and the ways an answer comes *)
(* in: HTTP routes, inbound events, the command line, an approval decided  *)
(* over HTTP.                                                              *)
(*                                                                         *)
(* One coroutine asks each request.  It registers the request and then     *)
(* awaits twice: the subscribers that show the question (publishing) and   *)
(* the future (waiting).  An answer completes the future and creates a     *)
(* task that records the decision.                                         *)
(***************************************************************************)
CONSTANTS
    Requests,       \* request ids
    Session,        \* Session[r]: the session that asks r
    Confirms,       \* the confirmations among Requests; the rest ask for text
    Recorded,       \* sessions with session and thread rows
    CliSession,     \* the session of the command line
    none

ASSUME InteractionAssumption ==
    /\ Confirms \subseteq Requests
    /\ none \notin Requests

VARIABLES
    at,             \* at[r]: where the coroutine that asks r is
    pending,        \* the keys of _pending_requests
    bySession,      \* _pending_request_by_session
    future,         \* future[r]: "open" or the answer it was completed with
    outcome,        \* outcome[r]: what the coroutine returned
    response,       \* response[r]: the task that handles the answer to r
    context,        \* the requests in _confirm_approval_requests
    approval,       \* approval[r]: status of the Approval row
    operation,      \* operation[r]: status of the Operation row
    consent,        \* history: requests the user has been heard to accept
    byHttp          \* history: requests whose approval was decided over HTTP

interactionVars == <<at, pending, bySession, future, outcome, response, context,
                     approval, operation, consent, byHttp>>
decisionRows == <<approval, operation, byHttp>>

Sessions == {Session[r] : r \in Requests}
Answers  == {"yes", "no"}
Ended    == {"returned", "cancelled", "raised"}

Kind(r) == IF r \in Confirms THEN "confirm" ELSE "human_input"

InteractionTypeOK ==
    /\ at \in [Requests -> {"idle", "publishing", "waiting"} \cup Ended]
    /\ pending \subseteq Requests
    /\ bySession \in [Sessions -> Requests \cup {none}]
    /\ future \in [Requests -> Answers \cup {"open"}]
    /\ outcome \in [Requests -> Answers \cup {"none", "timed_out"}]
    /\ response \in [Requests -> [stage : {"none", "queued", "emitting", "done"},
                                  answer : Answers]]
    /\ context \subseteq Confirms
    /\ approval \in [Requests -> {"none", "pending", "approved", "rejected"}]
    /\ operation \in [Requests -> {"none", "waiting_approval", "succeeded",
                                   "queued", "rejected"}]
    /\ consent \subseteq Requests
    /\ byHttp \subseteq Requests

InteractionInit ==
    /\ at = [r \in Requests |-> "idle"]
    /\ pending = {}
    /\ bySession = [s \in Sessions |-> none]
    /\ future = [r \in Requests |-> "open"]
    /\ outcome = [r \in Requests |-> "none"]
    /\ response = [r \in Requests |-> [stage |-> "none", answer |-> "no"]]
    /\ context = {}
    /\ approval = [r \in Requests |-> "none"]
    /\ operation = [r \in Requests |-> "none"]
    /\ consent = {}
    /\ byHttp = {}

\* _find_pending_request: the open requests of kind k among sessions S.  The
\* code takes the oldest; a session has at most one, and which of several
\* sessions asked first is left open.
Open(k, S) == {r \in pending : /\ Kind(r) = k
                               /\ Session[r] \in S
                               /\ future[r] = "open"}

-----------------------------------------------------------------------------
(* Asking.                                                                 *)

\* The session's entry blocks a new request while its future is open.
Blocked(s) == /\ bySession[s] # none
              /\ bySession[s] \in pending
              /\ future[bySession[s]] = "open"

\* _register_pending_request refuses: the tool gets a RuntimeError.
AskRefused(r) ==
    /\ at[r] = "idle"
    /\ Blocked(Session[r])
    /\ at' = [at EXCEPT ![r] = "raised"]
    /\ UNCHANGED <<pending, bySession, future, outcome, response, context,
                   consent, decisionRows>>

\* An answered entry that its coroutine has not cleared yet makes room.
Register(r) ==
    /\ ~Blocked(Session[r])
    /\ pending' = (pending \ {bySession[Session[r]]}) \cup {r}
    /\ bySession' = [bySession EXCEPT ![Session[r]] = r]

\* _ensure_confirm_approval_context: rows for a confirmation of a known session.
OpenApproval(r) ==
    IF r \in Confirms /\ Session[r] \in Recorded
    THEN /\ operation' = [operation EXCEPT ![r] = "waiting_approval"]
         /\ approval' = [approval EXCEPT ![r] = "pending"]
         /\ context' = context \cup {r}
    ELSE UNCHANGED <<operation, approval, context>>

\* request_confirmation / request_human_input up to the first await: the
\* subscriber's rows are written before anyone can answer.
Ask(r) ==
    /\ at[r] = "idle"
    /\ Register(r)
    /\ OpenApproval(r)
    /\ at' = [at EXCEPT ![r] = "publishing"]
    /\ UNCHANGED <<future, outcome, response, consent, byHttp>>

Published(r) ==
    /\ at[r] = "publishing"
    /\ at' = [at EXCEPT ![r] = "waiting"]
    /\ UNCHANGED <<pending, bySession, future, outcome, response, context,
                   consent, decisionRows>>

\* The turn is cancelled while the question is being shown: this await is
\* outside the try, so the entry and its open future stay.
CancelPublishing(r) ==
    /\ at[r] = "publishing"
    /\ at' = [at EXCEPT ![r] = "cancelled"]
    /\ UNCHANGED <<pending, bySession, future, outcome, response, context,
                   consent, decisionRows>>

-----------------------------------------------------------------------------
(* The two ways out of the wait.                                           *)

\* Bug: the session's entry is dropped without a look at whose it is.
ClearSession(r) ==
    /\ pending' = pending \ {r}
    /\ bySession' = [bySession EXCEPT ![Session[r]] = none]

\* _clear_pending_request: the session's entry goes only with its own request.
Clear(r) ==
    /\ pending' = pending \ {r}
    /\ bySession' = IF r \in pending /\ bySession[Session[r]] = r
                    THEN [bySession EXCEPT ![Session[r]] = none]
                    ELSE bySession

Return(r, result) ==
    /\ at[r] = "waiting"
    /\ at' = [at EXCEPT ![r] = "returned"]
    /\ outcome' = [outcome EXCEPT ![r] = result]
    /\ Clear(r)
    /\ UNCHANGED <<future, response, context, consent, decisionRows>>

Resume(r) == future[r] # "open" /\ Return(r, future[r])

\* Bug: the wait has no timeout.
ExpireIfAnswered(r) ==
    /\ future[r] # "open"
    /\ Return(r, IF r \in Confirms THEN "no" ELSE "timed_out")

\* wait_for gives up; it may do so although the future has just been
\* completed.  A confirmation returns False, the rows are not touched.
Expire(r) == Return(r, IF r \in Confirms THEN "no" ELSE "timed_out")

CancelWaiting(r) ==
    /\ at[r] = "waiting"
    /\ at' = [at EXCEPT ![r] = "cancelled"]
    /\ Clear(r)
    /\ UNCHANGED <<future, outcome, response, context, consent, decisionRows>>

-----------------------------------------------------------------------------
(* Answering.  An answer names a request, or only a session.               *)

\* _resolve_pending_request once it has its entry: an answered one is cleared
\* and the answer refused, an open one completed and its handler started.
Resolve(r, answer) ==
    IF future[r] # "open"
    THEN /\ Clear(r)
         /\ UNCHANGED <<future, response>>
    ELSE /\ future' = [future EXCEPT ![r] = answer]
         /\ response' = [response EXCEPT ![r] = [stage |-> "queued", answer |-> answer]]
         /\ UNCHANGED <<pending, bySession>>

\* What the user said yes to: the request named, or whatever question the
\* session has on display.
Heard(R, answer) ==
    consent' = IF answer = "yes" THEN consent \cup R ELSE consent

\* confirm-response and human-input-response routes, CONFIRM_RESPONSE events:
\* with the request's id.
AnswerNamed(r, answer) ==
    /\ r \in pending
    /\ Resolve(r, answer)
    /\ Heard({r}, answer)
    /\ UNCHANGED <<at, outcome, context, decisionRows>>

\* Bug: the request is looked up without the session.
AnswersAny(k, s) == Open(k, Sessions)

\* resolve_confirmation / submit_human_input_response without a request id.
AnswersTo(k, s) == Open(k, {s})

AnswerSession(k, s, answer) ==
    /\ \E r \in AnswersTo(k, s) : Resolve(r, answer)
    /\ Heard({r \in Requests : Session[r] = s /\ Kind(r) = k /\ at[r] # "idle"}, answer)
    /\ UNCHANGED <<at, outcome, context, decisionRows>>

\* _consume_user_text: a line typed at the command line answers the oldest
\* open confirmation if that is its own session's, else its own session's
\* question, and is an ordinary message otherwise.
CliAnswer(answer) ==
    LET oldest == Open("confirm", Sessions)
    IN  \/ /\ \E r \in oldest : Session[r] = CliSession
           /\ AnswerSession("confirm", CliSession, answer)
        \/ /\ oldest = {} \/ \E r \in oldest : Session[r] # CliSession
           /\ AnswerSession("human_input", CliSession, answer)

-----------------------------------------------------------------------------
(* Recording the decision.                                                 *)

\* _apply_confirm_approval_decision: a decided approval is left alone, the
\* operation follows the answer either way.
ApplyDecision(r, answer) ==
    IF r \in context
    THEN /\ approval' = [approval EXCEPT ![r] =
                IF @ # "pending" THEN @
                ELSE IF answer = "yes" THEN "approved" ELSE "rejected"]
         /\ operation' = [operation EXCEPT ![r] =
                IF answer = "yes" THEN "succeeded" ELSE "rejected"]
    ELSE UNCHANGED <<approval, operation>>

\* _handle_confirm_response / _handle_human_input_response up to its awaits.
HandleResponse(r) ==
    /\ response[r].stage = "queued"
    /\ response' = [response EXCEPT ![r].stage = "emitting"]
    /\ ApplyDecision(r, response[r].answer)
    /\ UNCHANGED <<at, pending, bySession, future, outcome, context, consent, byHttp>>

ResponseDone(r) ==
    /\ response[r].stage = "emitting"
    /\ response' = [response EXCEPT ![r].stage = "done"]
    /\ context' = context \ {r}
    /\ UNCHANGED <<at, pending, bySession, future, outcome, consent, decisionRows>>

\* POST /approvals/{approval_id}/decision: decides again what was decided, and
\* does not reach the coroutine that waits.
DecideApproval(r, answer) ==
    /\ approval[r] # "none"
    /\ approval' = [approval EXCEPT ![r] = IF answer = "yes" THEN "approved" ELSE "rejected"]
    /\ operation' = [operation EXCEPT ![r] = IF answer = "yes" THEN "queued" ELSE "rejected"]
    /\ byHttp' = byHttp \cup {r}
    /\ UNCHANGED <<at, pending, bySession, future, outcome, response, context, consent>>

-----------------------------------------------------------------------------
InteractionNext ==
    \/ \E r \in Requests :
         \/ Ask(r) \/ AskRefused(r) \/ Published(r) \/ CancelPublishing(r)
         \/ Resume(r) \/ Expire(r) \/ CancelWaiting(r)
         \/ HandleResponse(r) \/ ResponseDone(r)
    \/ \E r \in Requests, answer \in Answers :
         AnswerNamed(r, answer) \/ DecideApproval(r, answer)
    \/ \E k \in {"confirm", "human_input"}, s \in Sessions, answer \in Answers :
         AnswerSession(k, s, answer)
    \/ \E answer \in Answers : CliAnswer(answer)

InteractionSpec == InteractionInit /\ [][InteractionNext]_interactionVars

\* The event loop runs every ready coroutine, and the timer of wait_for fires.
AskerStep(r)  == Published(r) \/ Resume(r) \/ Expire(r)
AnswerStep(r) == HandleResponse(r) \/ ResponseDone(r)

InteractionFair ==
    /\ InteractionSpec
    /\ \A r \in Requests :
         WF_interactionVars(AskerStep(r)) /\ WF_interactionVars(AnswerStep(r))

-----------------------------------------------------------------------------
(* Properties.                                                             *)

\* A tool that is told "yes" was told so by the user: an accepting answer came
\* for this request, or for its session while it was on display.  Neither a
\* timeout nor an answer meant for another session or kind of question counts.
ConsentIsReal == \A r \in Requests : outcome[r] = "yes" => r \in consent

\* A question that is still waited for can be answered: it is registered, by
\* id and as its session's request.  A coroutine that ends late never removes
\* the registration of a later request of its session.
WaitingIsAnswerable ==
    \A r \in Requests : at[r] \in {"publishing", "waiting"} /\ future[r] = "open" =>
        r \in pending /\ bySession[Session[r]] = r

\* A session is blocked for further questions only by one that is being asked,
\* or by one whose turn was cancelled while it was being shown: neither an
\* answer nor a timeout leaves an open entry behind.
BlockedOnlyByOpen ==
    \A s \in Sessions : Blocked(s) =>
        \/ at[bySession[s]] \in {"publishing", "waiting"}
        \/ at[bySession[s]] = "cancelled" /\ outcome[bySession[s]] = "none"

\* Both, for every question and session, and the type.
QuestionsAreServed == InteractionTypeOK /\ WaitingIsAnswerable /\ BlockedOnlyByOpen

\* The rows of a confirmation tell what the user answered: the approval is
\* pending until the answer is handled and then says the same as the operation
\* and as the future, unless somebody decided the approval over HTTP.
RowsFollowAnswer ==
    \A r \in Confirms \ byHttp : approval[r] # "none" =>
        <<approval[r], operation[r]>> =
            IF response[r].stage \in {"none", "queued"} THEN <<"pending", "waiting_approval">>
            ELSE IF future[r] = "yes" THEN <<"approved", "succeeded">>
            ELSE <<"rejected", "rejected">>

\* An answer is taken for what it is, by the tool that asked and in the rows.
AnswersAreKept == ConsentIsReal /\ RowsFollowAnswer

\* Every question that is asked comes to an end, and every answer that was
\* taken is recorded.
QuestionEnds ==
    \A r \in Requests :
        (at[r] # "idle" \/ response[r].stage # "none") ~>
            (at[r] \in Ended /\ response[r].stage \in {"none", "done"})
=============================================================================
