--------------------------- MODULE SessionProofs ----------------------------
(***************************************************************************)
(* Theorems about what a session asks its user, what it remembers and what *)
(* versions its conversation has, for every set of requests, sessions,     *)
(* saves, records and keys and any bounds: who asks can be answered, and   *)
(* an answer reaches the one it is for (Interaction); what the user asked  *)
(* to remember is kept, and coroutines that wait for embeddings leave the  *)
(* store consistent (Memory); the history is a tree, a reply follows its   *)
(* question, and a key has one turn (Branches).                            *)
(***************************************************************************)
EXTENDS Interaction, Memory, Branches, FiniteSetTheorems, SequenceTheorems,
        WellFoundedInduction, TLAPS

(***************************************************************************)
(* Questions to the user.                                                  *)
(***************************************************************************)

(* A request nobody has asked yet has left no trace. *)
Unasked ==
    \A r \in Requests :
       /\ at[r] = "idle" => r \notin pending /\ future[r] = "open" /\ approval[r] = "none"
       /\ at[r] \in {"idle", "publishing", "waiting"} => outcome[r] = "none"

(* A future is completed together with the task that handles the answer,   *)
(* and nothing completes it again.                                         *)
OneAnswer ==
    \A r \in Requests :
       /\ future[r] = "open" <=> response[r].stage = "none"
       /\ future[r] # "open" => response[r].answer = future[r]

(* An accepting answer was given, by the user, to the question it completed. *)
Consented ==
    \A r \in Requests :
       (future[r] = "yes" \/ outcome[r] = "yes") => r \in consent

(* The handler of an answer finds the rows of its question.                *)
RowsAtHand ==
    \A r \in Requests :
       approval[r] # "none" /\ response[r].stage \in {"none", "queued"} => r \in context

(* An entry with an open future is of a request that is still asked, or    *)
(* was cancelled while it was shown.                                       *)
EntriesAreAsked ==
    \A r \in pending : future[r] = "open" =>
       \/ at[r] \in {"publishing", "waiting"}
       \/ at[r] = "cancelled" /\ outcome[r] = "none"

QuestionInv ==
    /\ InteractionTypeOK /\ Unasked /\ OneAnswer /\ Consented
    /\ RowsAtHand /\ RowsFollowAnswer
    /\ EntriesAreAsked /\ WaitingIsAnswerable

(* Answer is taken for r, and every request in R hears it.                 *)
TakesAnswer(r, answer, R) ==
    /\ r \in pending /\ r \in R
    /\ Resolve(r, answer)
    /\ Heard(R, answer)
    /\ UNCHANGED <<at, outcome, context, decisionRows>>

-----------------------------------------------------------------------------
(* What a step can be: the ways an answer comes in are one case.           *)
LEMMA QuestionSteps ==
  ASSUME InteractionTypeOK, Unasked, InteractionNext
  PROVE  \/ \E r \in Requests : Ask(r)
         \/ \E r \in Requests : AskRefused(r)
         \/ \E r \in Requests : Published(r)
         \/ \E r \in Requests : CancelPublishing(r)
         \/ \E r \in Requests : Resume(r)
         \/ \E r \in Requests : Expire(r)
         \/ \E r \in Requests : CancelWaiting(r)
         \/ \E r \in Requests : HandleResponse(r)
         \/ \E r \in Requests : ResponseDone(r)
         \/ \E r \in Requests, answer \in Answers : DecideApproval(r, answer)
         \/ \E r \in Requests, answer \in Answers,
            R \in SUBSET Requests : TakesAnswer(r, answer, R)
<1>1. ASSUME NEW r \in Requests, NEW answer \in Answers, AnswerNamed(r, answer)
      PROVE  \E q \in Requests, R \in SUBSET Requests : TakesAnswer(q, answer, R)
  <2>1. TakesAnswer(r, answer, {r})
    BY <1>1 DEF AnswerNamed, TakesAnswer
  <2> QED
    BY <2>1
<1>2. ASSUME NEW k, NEW s, NEW answer \in Answers, AnswerSession(k, s, answer)
      PROVE  \E q \in Requests, R \in SUBSET Requests : TakesAnswer(q, answer, R)
  <2> DEFINE R == {r \in Requests : Session[r] = s /\ Kind(r) = k /\ at[r] # "idle"}
  <2>1. PICK q \in AnswersTo(k, s) : Resolve(q, answer)
    BY <1>2 DEF AnswerSession
  <2>2. q \in pending /\ q \in R /\ q \in Requests
    BY <2>1 DEF AnswersTo, Open, InteractionTypeOK, Unasked
  <2>3. Heard(R, answer) /\ UNCHANGED <<at, outcome, context, decisionRows>>
    BY <1>2 DEF AnswerSession
  <2>4. TakesAnswer(q, answer, R)
    BY <2>1, <2>2, <2>3 DEF TakesAnswer
  <2>5. R \in SUBSET Requests
    OBVIOUS
  <2> QED
    BY <2>2, <2>4, <2>5
<1>3. ASSUME NEW answer \in Answers, CliAnswer(answer)
      PROVE  \E q \in Requests, R \in SUBSET Requests : TakesAnswer(q, answer, R)
  BY <1>2, <1>3 DEF CliAnswer
<1> QED
  BY <1>1, <1>2, <1>3 DEF InteractionNext

(* Every action keeps every variable in its set.                           *)
LEMMA QuestionTypeStep ==
  ASSUME InteractionTypeOK, Unasked, [InteractionNext]_interactionVars
  PROVE  InteractionTypeOK'
<1> USE DEF InteractionTypeOK, Answers, Ended, Sessions, decisionRows
<1>1. ASSUME NEW r \in Requests, Ask(r) PROVE InteractionTypeOK'
  <2>1. /\ at' \in [Requests -> {"idle", "publishing", "waiting"} \cup Ended]
        /\ UNCHANGED <<future, outcome, response, consent, byHttp>>
    BY <1>1 DEF Ask
  <2>2. pending' \subseteq Requests /\ bySession' \in [Sessions -> Requests \cup {none}]
    BY <1>1 DEF Ask, Register
  <2>3. context' \subseteq Confirms
    BY <1>1 DEF Ask, OpenApproval
  <2>4. approval' \in [Requests -> {"none", "pending", "approved", "rejected"}]
    BY <1>1 DEF Ask, OpenApproval
  <2>5. operation' \in [Requests -> {"none", "waiting_approval", "succeeded", "queued",
        "rejected"}]
    BY <1>1 DEF Ask, OpenApproval
  <2> QED
    BY <2>1, <2>2, <2>3, <2>4, <2>5
<1>2. ASSUME NEW r \in Requests, AskRefused(r) PROVE InteractionTypeOK'
  BY <1>2 DEF AskRefused
<1>3. ASSUME NEW r \in Requests, Published(r) PROVE InteractionTypeOK'
  BY <1>3 DEF Published
<1>4. ASSUME NEW r \in Requests, CancelPublishing(r) PROVE InteractionTypeOK'
  BY <1>4 DEF CancelPublishing
<1>5. ASSUME NEW r \in Requests, Resume(r) PROVE InteractionTypeOK'
  BY <1>5 DEF Resume, Return, Clear
<1>6. ASSUME NEW r \in Requests, Expire(r) PROVE InteractionTypeOK'
  BY <1>6 DEF Expire, Return, Clear
<1>7. ASSUME NEW r \in Requests, CancelWaiting(r) PROVE InteractionTypeOK'
  BY <1>7 DEF CancelWaiting, Clear
<1>8. ASSUME NEW r \in Requests, HandleResponse(r) PROVE InteractionTypeOK'
  <2>1. UNCHANGED <<at, pending, bySession, future, outcome, context, consent, byHttp>>
    BY <1>8 DEF HandleResponse
  <2>2. response' = [response EXCEPT ![r] = [response[r] EXCEPT !.stage = "emitting"]]
    BY <1>8 DEF HandleResponse
  <2>3. [response[r] EXCEPT !.stage = "emitting"]
           \in [stage : {"none", "queued", "emitting", "done"}, answer : Answers]
    OBVIOUS
  <2>4. response' \in [Requests -> [stage : {"none", "queued", "emitting", "done"},
        answer : Answers]]
    BY <2>2, <2>3
  <2>5. approval' \in [Requests -> {"none", "pending", "approved", "rejected"}]
    BY <1>8 DEF HandleResponse, ApplyDecision
  <2>6. operation' \in [Requests -> {"none", "waiting_approval", "succeeded", "queued",
        "rejected"}]
    BY <1>8 DEF HandleResponse, ApplyDecision
  <2> QED
    BY <2>1, <2>4, <2>5, <2>6
<1>9. ASSUME NEW r \in Requests, ResponseDone(r) PROVE InteractionTypeOK'
  BY <1>9 DEF ResponseDone
<1>10. ASSUME NEW r \in Requests, NEW answer \in Answers,
              DecideApproval(r, answer) PROVE InteractionTypeOK'
  BY <1>10 DEF DecideApproval
<1>11. ASSUME NEW r \in Requests, NEW answer \in Answers, NEW R \in SUBSET Requests,
              TakesAnswer(r, answer, R) PROVE InteractionTypeOK'
  <2>1. UNCHANGED <<at, outcome, context, decisionRows>> /\ consent' \subseteq Requests
    BY <1>11 DEF TakesAnswer, Heard
  <2>2. CASE future[r] # "open"
    <3>1. Clear(r) /\ UNCHANGED <<future, response>>
      BY <1>11, <2>2 DEF TakesAnswer, Resolve
    <3>2. pending' \subseteq Requests
      BY <3>1 DEF Clear
    <3>3. bySession' \in [Sessions -> Requests \cup {none}]
      BY <3>1 DEF Clear
    <3> QED
      BY <2>1, <3>1, <3>2, <3>3
  <2>3. CASE future[r] = "open"
    <3>1. /\ future' = [future EXCEPT ![r] = answer]
          /\ response' = [response EXCEPT ![r] = [stage |-> "queued", answer |-> answer]]
          /\ UNCHANGED <<pending, bySession>>
      BY <1>11, <2>3 DEF TakesAnswer, Resolve
    <3>2. future' \in [Requests -> Answers \cup {"open"}]
      BY <3>1
    <3>3. response' \in [Requests -> [stage : {"none", "queued", "emitting", "done"},
                                      answer : Answers]]
      BY <3>1
    <3> QED
      BY <2>1, <3>1, <3>2, <3>3
  <2> QED
    BY <2>2, <2>3
<1>12. CASE UNCHANGED interactionVars
  BY <1>12 DEF interactionVars
<1> QED
  BY QuestionSteps, <1>1, <1>2, <1>3, <1>4, <1>5, <1>6, <1>7, <1>8, <1>9, <1>10, <1>11, <1>12

(* A request leaves traces only once it was asked.                         *)
LEMMA UnaskedStep ==
  ASSUME InteractionTypeOK, Unasked, OneAnswer, [InteractionNext]_interactionVars
  PROVE  Unasked'
<1> USE DEF InteractionTypeOK, Unasked, OneAnswer, Answers, decisionRows
<1>1. ASSUME NEW r \in Requests, Ask(r) PROVE Unasked'
  BY <1>1 DEF Ask, Register, OpenApproval
<1>2. ASSUME NEW r \in Requests, AskRefused(r) PROVE Unasked'
  BY <1>2 DEF AskRefused
<1>3. ASSUME NEW r \in Requests, Published(r) PROVE Unasked'
  BY <1>3 DEF Published
<1>4. ASSUME NEW r \in Requests, CancelPublishing(r) PROVE Unasked'
  BY <1>4 DEF CancelPublishing
<1>5. ASSUME NEW r \in Requests, Resume(r) PROVE Unasked'
  BY <1>5 DEF Resume, Return, Clear
<1>6. ASSUME NEW r \in Requests, Expire(r) PROVE Unasked'
  BY <1>6 DEF Expire, Return, Clear
<1>7. ASSUME NEW r \in Requests, CancelWaiting(r) PROVE Unasked'
  BY <1>7 DEF CancelWaiting, Clear
<1>8. ASSUME NEW r \in Requests, HandleResponse(r) PROVE Unasked'
  BY <1>8 DEF HandleResponse, ApplyDecision
<1>9. ASSUME NEW r \in Requests, ResponseDone(r) PROVE Unasked'
  BY <1>9 DEF ResponseDone
<1>10. ASSUME NEW r \in Requests, NEW answer \in Answers, DecideApproval(r, answer) PROVE Unasked'
  BY <1>10 DEF DecideApproval
<1>11. ASSUME NEW r \in Requests, NEW answer \in Answers, NEW R \in SUBSET Requests,
              TakesAnswer(r, answer, R) PROVE Unasked'
  BY <1>11 DEF TakesAnswer, Resolve, Clear, Heard
<1>12. CASE UNCHANGED interactionVars
  BY <1>12 DEF interactionVars
<1> QED
  BY QuestionSteps, <1>1, <1>2, <1>3, <1>4, <1>5, <1>6, <1>7, <1>8, <1>9, <1>10, <1>11, <1>12

(* Resolve completes open futures only, and queues the handler with them.  *)
LEMMA OneAnswerStep ==
  ASSUME InteractionTypeOK, Unasked, OneAnswer, [InteractionNext]_interactionVars
  PROVE  OneAnswer'
<1> USE DEF InteractionTypeOK, OneAnswer, Answers, decisionRows
<1>1. ASSUME NEW r \in Requests, Ask(r) PROVE OneAnswer'
  BY <1>1 DEF Ask, Register, OpenApproval
<1>2. ASSUME NEW r \in Requests, AskRefused(r) PROVE OneAnswer'
  BY <1>2 DEF AskRefused
<1>3. ASSUME NEW r \in Requests, Published(r) PROVE OneAnswer'
  BY <1>3 DEF Published
<1>4. ASSUME NEW r \in Requests, CancelPublishing(r) PROVE OneAnswer'
  BY <1>4 DEF CancelPublishing
<1>5. ASSUME NEW r \in Requests, Resume(r) PROVE OneAnswer'
  BY <1>5 DEF Resume, Return, Clear
<1>6. ASSUME NEW r \in Requests, Expire(r) PROVE OneAnswer'
  BY <1>6 DEF Expire, Return, Clear
<1>7. ASSUME NEW r \in Requests, CancelWaiting(r) PROVE OneAnswer'
  BY <1>7 DEF CancelWaiting, Clear
<1>8. ASSUME NEW r \in Requests, HandleResponse(r) PROVE OneAnswer'
  BY <1>8 DEF HandleResponse, ApplyDecision
<1>9. ASSUME NEW r \in Requests, ResponseDone(r) PROVE OneAnswer'
  BY <1>9 DEF ResponseDone
<1>10. ASSUME NEW r \in Requests, NEW answer \in Answers,
              DecideApproval(r, answer) PROVE OneAnswer'
  BY <1>10 DEF DecideApproval
<1>11. ASSUME NEW r \in Requests, NEW answer \in Answers, NEW R \in SUBSET Requests,
              TakesAnswer(r, answer, R) PROVE OneAnswer'
  BY <1>11 DEF TakesAnswer, Resolve, Clear, Heard
<1>12. CASE UNCHANGED interactionVars
  BY <1>12 DEF interactionVars
<1> QED
  BY QuestionSteps, <1>1, <1>2, <1>3, <1>4, <1>5, <1>6, <1>7, <1>8, <1>9, <1>10, <1>11, <1>12

(* Only an accepting answer that was heard completes a future with yes.    *)
LEMMA ConsentedStep ==
  ASSUME InteractionTypeOK, Unasked, Consented, [InteractionNext]_interactionVars
  PROVE  Consented'
<1> USE DEF InteractionTypeOK, Consented, Answers, decisionRows
<1>1. ASSUME NEW r \in Requests, Ask(r) PROVE Consented'
  BY <1>1 DEF Ask, Register, OpenApproval
<1>2. ASSUME NEW r \in Requests, AskRefused(r) PROVE Consented'
  BY <1>2 DEF AskRefused
<1>3. ASSUME NEW r \in Requests, Published(r) PROVE Consented'
  BY <1>3 DEF Published
<1>4. ASSUME NEW r \in Requests, CancelPublishing(r) PROVE Consented'
  BY <1>4 DEF CancelPublishing
<1>5. ASSUME NEW r \in Requests, Resume(r) PROVE Consented'
  BY <1>5 DEF Resume, Return, Clear
<1>6. ASSUME NEW r \in Requests, Expire(r) PROVE Consented'
  BY <1>6 DEF Expire, Return, Clear
<1>7. ASSUME NEW r \in Requests, CancelWaiting(r) PROVE Consented'
  BY <1>7 DEF CancelWaiting, Clear
<1>8. ASSUME NEW r \in Requests, HandleResponse(r) PROVE Consented'
  BY <1>8 DEF HandleResponse, ApplyDecision
<1>9. ASSUME NEW r \in Requests, ResponseDone(r) PROVE Consented'
  BY <1>9 DEF ResponseDone
<1>10. ASSUME NEW r \in Requests, NEW answer \in Answers,
              DecideApproval(r, answer) PROVE Consented'
  BY <1>10 DEF DecideApproval
<1>11. ASSUME NEW r \in Requests, NEW answer \in Answers, NEW R \in SUBSET Requests,
              TakesAnswer(r, answer, R) PROVE Consented'
  BY <1>11 DEF TakesAnswer, Resolve, Clear, Heard
<1>12. CASE UNCHANGED interactionVars
  BY <1>12 DEF interactionVars
<1> QED
  BY QuestionSteps, <1>1, <1>2, <1>3, <1>4, <1>5, <1>6, <1>7, <1>8, <1>9, <1>10, <1>11, <1>12

(* The rows wait for the handler, and the handler finds them.              *)
LEMMA RowsStep ==
  ASSUME InteractionTypeOK, Unasked, OneAnswer, RowsAtHand, RowsFollowAnswer,
         [InteractionNext]_interactionVars
  PROVE  RowsAtHand' /\ RowsFollowAnswer'
<1> USE DEF InteractionTypeOK, Unasked, OneAnswer, RowsAtHand, RowsFollowAnswer, Answers,
        decisionRows
<1>1. ASSUME NEW r \in Requests, Ask(r) PROVE RowsAtHand' /\ RowsFollowAnswer'
  <2>1. /\ future[r] = "open" /\ response[r].stage = "none"
        /\ UNCHANGED <<future, response, byHttp>>
    BY <1>1 DEF Ask
  <2>2. CASE r \in Confirms /\ Session[r] \in Recorded
    <3>1. /\ approval' = [approval EXCEPT ![r] = "pending"]
          /\ operation' = [operation EXCEPT ![r] = "waiting_approval"]
          /\ context' = context \cup {r}
      BY <1>1, <2>2 DEF Ask, OpenApproval
    <3>2. RowsAtHand'
      BY <2>1, <3>1
    <3>3. ASSUME NEW q \in Confirms \ byHttp, q # r
          PROVE  approval'[q] = approval[q] /\ operation'[q] = operation[q]
      BY <3>1, <3>3, InteractionAssumption
    <3>4. approval'[r] = "pending" /\ operation'[r] = "waiting_approval"
      BY <3>1
    <3>5. RowsFollowAnswer'
      BY <2>1, <3>3, <3>4
    <3> QED
      BY <3>2, <3>5
  <2>3. CASE ~(r \in Confirms /\ Session[r] \in Recorded)
    <3>1. UNCHANGED <<approval, operation, context>>
      BY <1>1, <2>3 DEF Ask, OpenApproval
    <3> QED
      BY <2>1, <3>1
  <2> QED
    BY <2>2, <2>3
<1>2. ASSUME NEW r \in Requests, AskRefused(r) PROVE RowsAtHand' /\ RowsFollowAnswer'
  BY <1>2 DEF AskRefused
<1>3. ASSUME NEW r \in Requests, Published(r) PROVE RowsAtHand' /\ RowsFollowAnswer'
  BY <1>3 DEF Published
<1>4. ASSUME NEW r \in Requests, CancelPublishing(r) PROVE RowsAtHand' /\ RowsFollowAnswer'
  BY <1>4 DEF CancelPublishing
<1>5. ASSUME NEW r \in Requests, Resume(r) PROVE RowsAtHand' /\ RowsFollowAnswer'
  BY <1>5 DEF Resume, Return, Clear
<1>6. ASSUME NEW r \in Requests, Expire(r) PROVE RowsAtHand' /\ RowsFollowAnswer'
  BY <1>6 DEF Expire, Return, Clear
<1>7. ASSUME NEW r \in Requests, CancelWaiting(r) PROVE RowsAtHand' /\ RowsFollowAnswer'
  BY <1>7 DEF CancelWaiting, Clear
<1>8. ASSUME NEW r \in Requests, HandleResponse(r) PROVE RowsAtHand' /\ RowsFollowAnswer'
  <2>1. /\ response[r].stage = "queued" /\ future[r] # "open" /\ response[r].answer = future[r]
        /\ \A q \in Requests \ {r} : response'[q] = response[q]
        /\ response'[r].stage = "emitting"
        /\ UNCHANGED <<future, context, byHttp>>
    BY <1>8 DEF HandleResponse
  <2>2. ApplyDecision(r, future[r])
    BY <1>8, <2>1 DEF HandleResponse
  <2>3. /\ \A q \in Requests \ {r} : approval'[q] = approval[q] /\ operation'[q] = operation[q]
        /\ approval[r] = "none" => approval'[r] = "none"
        /\ approval[r] # "none" => r \in context
    BY <2>1, <2>2 DEF ApplyDecision
  <2>4. RowsAtHand'
    BY <2>1, <2>3
  <2>5. ASSUME r \in Confirms \ byHttp, approval'[r] # "none"
        PROVE  <<approval'[r], operation'[r]>> =
                 IF future[r] = "yes" THEN <<"approved", "succeeded">> ELSE <<"rejected",
                   "rejected">>
    <3>1. approval[r] = "pending" /\ r \in context
      BY <2>1, <2>3, <2>5
    <3>2. /\ approval' = [approval EXCEPT ![r] =
                            IF future[r] = "yes" THEN "approved" ELSE "rejected"]
          /\ operation' = [operation EXCEPT ![r] =
                             IF future[r] = "yes" THEN "succeeded" ELSE "rejected"]
      BY <2>2, <3>1 DEF ApplyDecision
    <3> QED
      BY <3>2
  <2>6. RowsFollowAnswer'
    BY <2>1, <2>3, <2>5, InteractionAssumption
  <2> QED
    BY <2>4, <2>6
<1>9. ASSUME NEW r \in Requests, ResponseDone(r) PROVE RowsAtHand' /\ RowsFollowAnswer'
  BY <1>9 DEF ResponseDone
<1>10. ASSUME NEW r \in Requests, NEW answer \in Answers,
              DecideApproval(r, answer) PROVE RowsAtHand' /\ RowsFollowAnswer'
  BY <1>10 DEF DecideApproval
<1>11. ASSUME NEW r \in Requests, NEW answer \in Answers, NEW R \in SUBSET Requests,
              TakesAnswer(r, answer, R) PROVE RowsAtHand' /\ RowsFollowAnswer'
  <2>1. UNCHANGED <<context, approval, operation, byHttp>>
    BY <1>11 DEF TakesAnswer
  <2>2. CASE future[r] # "open"
    BY <1>11, <2>1, <2>2 DEF TakesAnswer, Resolve
  <2>3. CASE future[r] = "open"
    <3>1. /\ response[r].stage = "none" /\ response'[r].stage = "queued"
          /\ \A q \in Requests \ {r} : response'[q] = response[q] /\ future'[q] = future[q]
      BY <1>11, <2>3 DEF TakesAnswer, Resolve
    <3>2. RowsAtHand'
      BY <2>1, <3>1
    <3>3. RowsFollowAnswer'
      BY <2>1, <3>1, InteractionAssumption
    <3> QED
      BY <3>2, <3>3
  <2> QED
    BY <2>2, <2>3
<1>12. CASE UNCHANGED interactionVars
  BY <1>12 DEF interactionVars
<1> QED
  BY QuestionSteps, <1>1, <1>2, <1>3, <1>4, <1>5, <1>6, <1>7, <1>8, <1>9, <1>10, <1>11, <1>12

(* An entry goes when its coroutine ends, except in the await outside the  *)
(* try.                                                                    *)
LEMMA EntriesStep ==
  ASSUME InteractionTypeOK, Unasked, EntriesAreAsked, [InteractionNext]_interactionVars
  PROVE  EntriesAreAsked'
<1> USE DEF InteractionTypeOK, Unasked, EntriesAreAsked, decisionRows
<1>1. ASSUME NEW r \in Requests, Ask(r) PROVE EntriesAreAsked'
  BY <1>1 DEF Ask, Register, OpenApproval
<1>2. ASSUME NEW r \in Requests, AskRefused(r) PROVE EntriesAreAsked'
  BY <1>2 DEF AskRefused
<1>3. ASSUME NEW r \in Requests, Published(r) PROVE EntriesAreAsked'
  BY <1>3 DEF Published
<1>4. ASSUME NEW r \in Requests, CancelPublishing(r) PROVE EntriesAreAsked'
  BY <1>4 DEF CancelPublishing
<1>5. ASSUME NEW r \in Requests, Resume(r) PROVE EntriesAreAsked'
  BY <1>5 DEF Resume, Return, Clear
<1>6. ASSUME NEW r \in Requests, Expire(r) PROVE EntriesAreAsked'
  BY <1>6 DEF Expire, Return, Clear
<1>7. ASSUME NEW r \in Requests, CancelWaiting(r) PROVE EntriesAreAsked'
  BY <1>7 DEF CancelWaiting, Clear
<1>8. ASSUME NEW r \in Requests, HandleResponse(r) PROVE EntriesAreAsked'
  BY <1>8 DEF HandleResponse, ApplyDecision
<1>9. ASSUME NEW r \in Requests, ResponseDone(r) PROVE EntriesAreAsked'
  BY <1>9 DEF ResponseDone
<1>10. ASSUME NEW r \in Requests, NEW answer \in Answers,
              DecideApproval(r, answer) PROVE EntriesAreAsked'
  BY <1>10 DEF DecideApproval
<1>11. ASSUME NEW r \in Requests, NEW answer \in Answers, NEW R \in SUBSET Requests,
              TakesAnswer(r, answer, R) PROVE EntriesAreAsked'
  BY <1>11 DEF TakesAnswer, Resolve, Clear, Heard
<1>12. CASE UNCHANGED interactionVars
  BY <1>12 DEF interactionVars
<1> QED
  BY QuestionSteps, <1>1, <1>2, <1>3, <1>4, <1>5, <1>6, <1>7, <1>8, <1>9, <1>10, <1>11, <1>12

(* A session with an open question takes no other.                         *)
LEMMA WaitingStep ==
  ASSUME InteractionTypeOK, Unasked, WaitingIsAnswerable, [InteractionNext]_interactionVars
  PROVE  WaitingIsAnswerable'
<1> USE DEF InteractionTypeOK, Unasked, WaitingIsAnswerable, Blocked, Sessions, decisionRows
<1>1. ASSUME NEW r \in Requests, Ask(r) PROVE WaitingIsAnswerable'
  BY <1>1, InteractionAssumption DEF Ask, Register, OpenApproval
<1>2. ASSUME NEW r \in Requests, AskRefused(r) PROVE WaitingIsAnswerable'
  BY <1>2 DEF AskRefused
<1>3. ASSUME NEW r \in Requests, Published(r) PROVE WaitingIsAnswerable'
  BY <1>3 DEF Published
<1>4. ASSUME NEW r \in Requests, CancelPublishing(r) PROVE WaitingIsAnswerable'
  BY <1>4 DEF CancelPublishing
<1>5. ASSUME NEW r \in Requests, Resume(r) PROVE WaitingIsAnswerable'
  BY <1>5 DEF Resume, Return, Clear
<1>6. ASSUME NEW r \in Requests, Expire(r) PROVE WaitingIsAnswerable'
  BY <1>6 DEF Expire, Return, Clear
<1>7. ASSUME NEW r \in Requests, CancelWaiting(r) PROVE WaitingIsAnswerable'
  BY <1>7 DEF CancelWaiting, Clear
<1>8. ASSUME NEW r \in Requests, HandleResponse(r) PROVE WaitingIsAnswerable'
  BY <1>8 DEF HandleResponse, ApplyDecision
<1>9. ASSUME NEW r \in Requests, ResponseDone(r) PROVE WaitingIsAnswerable'
  BY <1>9 DEF ResponseDone
<1>10. ASSUME NEW r \in Requests, NEW answer \in Answers,
              DecideApproval(r, answer) PROVE WaitingIsAnswerable'
  BY <1>10 DEF DecideApproval
<1>11. ASSUME NEW r \in Requests, NEW answer \in Answers, NEW R \in SUBSET Requests,
              TakesAnswer(r, answer, R) PROVE WaitingIsAnswerable'
  BY <1>11 DEF TakesAnswer, Resolve, Clear, Heard
<1>12. CASE UNCHANGED interactionVars
  BY <1>12 DEF interactionVars
<1> QED
  BY QuestionSteps, <1>1, <1>2, <1>3, <1>4, <1>5, <1>6, <1>7, <1>8, <1>9, <1>10, <1>11, <1>12

-----------------------------------------------------------------------------
(* QuestionInv is an inductive invariant of Interaction: what asking, showing,    *)
(* answering, giving up and recording each preserve.                       *)
THEOREM InteractionInvariant == InteractionSpec => []QuestionInv
<1>1. InteractionInit => QuestionInv
  <2> SUFFICES ASSUME InteractionInit
               PROVE  QuestionInv
    OBVIOUS
  <2>1. InteractionTypeOK
    BY DEF InteractionInit, InteractionTypeOK, Answers, Ended, Sessions
  <2>2. Unasked /\ Consented /\ EntriesAreAsked /\ WaitingIsAnswerable
    BY DEF InteractionInit, Unasked, Consented, EntriesAreAsked, WaitingIsAnswerable
  <2>3. OneAnswer
    BY DEF InteractionInit, OneAnswer
  <2>4. RowsAtHand /\ RowsFollowAnswer
    BY InteractionAssumption DEF InteractionInit, RowsAtHand, RowsFollowAnswer
  <2> QED
    BY <2>1, <2>2, <2>3, <2>4 DEF QuestionInv
<1>2. QuestionInv /\ [InteractionNext]_interactionVars => QuestionInv'
  BY QuestionTypeStep, UnaskedStep, OneAnswerStep, ConsentedStep, RowsStep, EntriesStep, WaitingStep
  DEF QuestionInv
<1> QED
  BY <1>1, <1>2, PTL DEF InteractionSpec

(* request_confirmation returns True only on an answer the user gave to it, *)
(* and _apply_confirm_approval_decision writes into the rows what that      *)
(* answer was, for any number of requests and sessions.                     *)
THEOREM AnswersReachTheirQuestion == InteractionSpec => []AnswersAreKept
<1>1. QuestionInv => AnswersAreKept
  BY DEF QuestionInv, AnswersAreKept, ConsentIsReal, Consented
<1> QED
  BY <1>1, InteractionInvariant, PTL

(* Whoever waits in request_confirmation or request_human_input is found by *)
(* id and by session, and only a question under way, or one cancelled while *)
(* it was shown, makes _register_pending_request refuse another.            *)
THEOREM QuestionsStayServed == InteractionSpec => []QuestionsAreServed
<1>1. QuestionInv => BlockedOnlyByOpen
  BY DEF QuestionInv, EntriesAreAsked, BlockedOnlyByOpen, Blocked
<1>2. QuestionInv => QuestionsAreServed
  BY <1>1 DEF QuestionInv, QuestionsAreServed
<1> QED
  BY <1>2, InteractionInvariant, PTL

-----------------------------------------------------------------------------
(***************************************************************************)
(* The memory of the user.                                                 *)
(***************************************************************************)
(* What coroutines have in their hands was in the store when they looked.  *)
LookedUp ==
    /\ pendingEpisodes \subseteq store
    /\ batch \subseteq store \cup held
    /\ \A a \in Actors : upsert[a].sources \subseteq store \cup held

(* A save writes through exactly the episode it added or found.            *)
WritesItsOwn ==
    \A s \in Saves :
       /\ place[s] = "through" => saved[s] \in Saves /\ upsert[s] = Remembered(saved[s])
       /\ place[s] # "through" => upsert[s] = NoUpsert
       /\ told[s] = "saved" => saved[s] \in Saves

(* An episode that was asked for is somewhere from the moment it is added. *)
Somewhere ==
    \A s \in Explicit : saved[s] \in Saves =>
       saved[s] \in derived \cup removed \cup covered \cup (store \cap pendingEpisodes)

IsProfile(l) == IsActive(l) /\ long[l].kind = "profile"
OneProfile == ~revived => \A l, m \in Longs : IsProfile(l) /\ IsProfile(m) => l = m

Edge(e, S) == e \subseteq S /\ e \subseteq Ids /\ Cardinality(e) = 2
EdgesJoin == \A e \in edges : Edge(e, store \cup held)

MemoryInv ==
    MemoryTypeOK /\ LookedUp /\ WritesItsOwn /\ Somewhere /\ OneProfile /\ EdgesJoin

-----------------------------------------------------------------------------
(* Two different records make an edge.                                     *)
LEMMA EdgeOfTwo ==
  ASSUME NEW S, NEW x \in S, NEW y \in S, x # y, x \in Ids, y \in Ids
  PROVE  Edge({x, y}, S)
<1>1. {x, y} = {x} \cup {y}
  OBVIOUS
<1>2. IsFiniteSet({x}) /\ Cardinality({x}) = 1
  BY FS_Singleton
<1>3. Cardinality({x} \cup {y}) = 2
  BY <1>2, FS_AddElement
<1> QED
  BY <1>1, <1>3 DEF Edge

(* link_semantic_edges joins the record to others of the store.            *)
LEMMA SemanticEdgesJoin ==
  ASSUME store \subseteq Ids, NEW id \in Ids, NEW linked \in SemanticEdges(id), NEW S,
         id \in S, store \subseteq S
  PROVE  \A e \in linked : Edge(e, S)
<1>1. ASSUME NEW e \in linked PROVE \E o \in store \ {id} : e = {id, o}
  BY <1>1 DEF SemanticEdges
<1> QED
  BY <1>1, EdgeOfTwo

(* An upsert is joined to its sources.                                     *)
LEMMA SourceEdgesJoin ==
  ASSUME NEW l \in Longs, NEW u \in Upserts, NEW S, l \in S, u.sources \subseteq S
  PROVE  \A e \in SourceEdges(l, u) : Edge(e, S)
<1>1. u.sources \subseteq Saves
  BY DEF Upserts
<1>2. ASSUME NEW s \in u.sources PROVE Edge({l, s}, S)
  BY <1>1, MemoryAssumption, EdgeOfTwo DEF Ids
<1> QED
  BY <1>2 DEF SourceEdges

(* An edge stays one in a larger set.                                      *)
LEMMA EdgeIn ==
  ASSUME NEW e, NEW S, NEW T, Edge(e, S), S \subseteq T
  PROVE  Edge(e, T)
BY DEF Edge

(* apply_profile_upsert and apply_fact_upsert: whatever happened during the *)
(* embedding, a profile stays the only one and edges join what is there.   *)
LEMMA WriteKeeps ==
  ASSUME MemoryTypeOK, OneProfile, EdgesJoin, NEW u \in Upserts, Write(u),
         u.sources \subseteq store \cup held
  PROVE  /\ store \subseteq store' /\ store' \subseteq Ids
         /\ long' \in [Longs -> LongRecords]
         /\ \A e \in edges' : Edge(e, store' \cup held)
         /\ ~revived => \A l, m \in Longs : IsProfile(l)' /\ IsProfile(m)' => l = m
<1>1. PICK old \in Matches(u) :
        IF old # absent /\ long[old].value = u.value THEN Update(old, u)
        ELSE \E l \in Longs \ (store \cup removed) : Insert(l, u, old)
  BY DEF Write
<1>2. old \in Existing(u) \cup {absent} /\ Existing(u) \subseteq Longs \cap store
  BY DEF Matches, Existing, IsActive
<1>3. store \subseteq Ids /\ long \in [Longs -> LongRecords]
  BY DEF MemoryTypeOK
<1>4. u.sources \in SUBSET Saves /\ u.kind \in {"profile", "fact"}
      /\ u.value \in Values \cup {absent}
  BY DEF Upserts
<1>5. CASE old # absent /\ long[old].value = u.value
  <2>1. Update(old, u) /\ old \in Longs /\ old \in store
    BY <1>1, <1>2, <1>5
  <2>2. store' = store /\ long' = [long EXCEPT ![old].sources = @ \cup u.sources]
    BY <2>1 DEF Update
  <2>3. long' \in [Longs -> LongRecords]
    BY <1>3, <1>4, <2>1, <2>2 DEF LongRecords
  <2>4. \A l \in Longs : IsProfile(l)' <=> IsProfile(l)
    BY <1>3, <2>2 DEF IsProfile, IsActive, LongRecords
  <2>5. PICK linked \in SemanticEdges(old) : edges' = edges \cup linked \cup SourceEdges(old, u)
    BY <2>1 DEF Update
  <2>6. old \in Ids
    BY <2>1 DEF Ids
  <2>7. \A e \in linked : Edge(e, store \cup held)
    BY <1>3, <2>1, <2>6, SemanticEdgesJoin
  <2>8. \A e \in SourceEdges(old, u) : Edge(e, store \cup held)
    BY <2>1, SourceEdgesJoin
  <2>9. \A e \in edges' : Edge(e, store' \cup held)
    BY <2>2, <2>5, <2>7, <2>8 DEF EdgesJoin
  <2> QED
    BY <1>3, <2>2, <2>3, <2>4, <2>9 DEF OneProfile
<1>6. CASE ~(old # absent /\ long[old].value = u.value)
  <2>1. PICK l \in Longs \ (store \cup removed) : Insert(l, u, old)
    BY <1>1, <1>6
  <2>2. store' = store \cup {l} /\ l \in Ids
    BY <2>1 DEF Insert, Ids
  <2>3. \A x \in Longs : long'[x] =
           IF x = l THEN [kind |-> u.kind, value |-> u.value, active |-> TRUE,
                          sources |-> u.sources]
           ELSE IF x = old THEN [long[x] EXCEPT !.active = FALSE] ELSE long[x]
    BY <2>1 DEF Insert
  <2>4. long' \in [Longs -> LongRecords]
    <3>1. ASSUME NEW x \in Longs PROVE long'[x] \in LongRecords
      <4>1. CASE x = l
        <5>1. [kind |-> u.kind, value |-> u.value, active |-> TRUE, sources |-> u.sources]
              \in LongRecords
          BY <1>4 DEF LongRecords
        <5> QED
          BY <2>3, <4>1, <5>1
      <4>2. CASE x # l /\ x = old
        <5>1. [long[x] EXCEPT !.active = FALSE] \in LongRecords
          BY <1>3 DEF LongRecords
        <5> QED
          BY <2>3, <4>2, <5>1
      <4>3. CASE x # l /\ x # old
        BY <1>3, <2>3, <4>3
      <4> QED
        BY <4>1, <4>2, <4>3
    <3>2. long' = [x \in Longs |-> long'[x]]
      BY <2>1 DEF Insert
    <3> QED
      BY <3>1, <3>2
  <2>5. PICK linked \in SemanticEdges(l) :
           edges' = edges \cup linked \cup SourceEdges(l, u)
                          \cup (IF old = absent THEN {} ELSE {{l, old}})
    BY <2>1 DEF Insert
  <2>6. \A e \in linked : Edge(e, store' \cup held)
    BY <1>3, <2>2, SemanticEdgesJoin
  <2>7. \A e \in SourceEdges(l, u) : Edge(e, store' \cup held)
    BY <2>1, <2>2, SourceEdgesJoin
  <2>8. old # absent => Edge({l, old}, store' \cup held)
    BY <1>2, <1>3, <2>1, <2>2, EdgeOfTwo
  <2>9. \A e \in edges : Edge(e, store' \cup held)
    BY <2>2, EdgeIn DEF EdgesJoin
  <2>10. \A e \in edges' : Edge(e, store' \cup held)
    BY <2>5, <2>6, <2>7, <2>8, <2>9
  <2>11. ASSUME ~revived, NEW x \in Longs, NEW y \in Longs, IsProfile(x)', IsProfile(y)'
         PROVE  x = y
    <3>1. ASSUME NEW z \in Longs, IsProfile(z)', z # l
          PROVE  IsProfile(z) /\ z # old
      BY <1>3, <2>2, <2>3, <3>1 DEF IsProfile, IsActive, LongRecords
    <3>2. ASSUME NEW z \in Longs, IsProfile(z)', z # l, IsProfile(l)'
          PROVE  FALSE
      <4>1. u.kind = "profile"
        <5>1. long'[l] = [kind |-> u.kind, value |-> u.value, active |-> TRUE,
                          sources |-> u.sources]
          BY <2>1, <2>3
        <5>2. long'[l].kind = u.kind
          BY <5>1
        <5> QED
          BY <3>2, <5>2 DEF IsProfile
      <4>2. z \in Existing(u) /\ z # old
        BY <3>1, <3>2, <4>1 DEF Existing, IsProfile
      <4>3. old \in Existing(u)
        BY <4>1, <4>2 DEF Matches
      <4>4. IsProfile(old) /\ old \in Longs
        BY <4>1, <4>3 DEF Existing, IsProfile
      <4> QED
        BY <2>11, <3>1, <3>2, <4>2, <4>4 DEF OneProfile
    <3> QED
      BY <2>1, <2>11, <3>1, <3>2 DEF OneProfile
  <2> QED
    BY <1>3, <2>1, <2>2, <2>4, <2>10, <2>11
<1> QED
  BY <1>5, <1>6

-----------------------------------------------------------------------------
(* A step that brings no profile and no operator leaves at most one.       *)
LEMMA FewerProfiles ==
  ASSUME OneProfile, revived => revived',
         \A l \in Longs : IsProfile(l)' => IsProfile(l)
  PROVE  OneProfile'
BY DEF OneProfile

(* delete_records: the edges of the records go with them.                  *)
LEMMA DeleteKeeps ==
  ASSUME EdgesJoin, OneProfile, NEW ids, Delete(ids), long' = long, revived => revived'
  PROVE  EdgesJoin' /\ OneProfile'
<1>1. /\ store' = store \ ids /\ held \subseteq held'
      /\ edges' = {e \in edges : e \cap ids = {}}
  BY DEF Delete
<1>2. ASSUME NEW e \in edges' PROVE Edge(e, store' \cup held')
  <2>1. Edge(e, store \cup held) /\ e \cap ids = {}
    BY <1>1, <1>2 DEF EdgesJoin
  <2> QED
    BY <1>1, <2>1 DEF Edge
<1>3. \A l \in Longs : IsProfile(l)' => IsProfile(l)
  BY <1>1 DEF IsProfile, IsActive
<1>4. EdgesJoin'
  BY <1>2 DEF EdgesJoin
<1> QED
  BY <1>3, <1>4, FewerProfiles

(* The end of a consolidation: edges go with the batch, two records that   *)
(* are alike become one.                                                   *)
LEMMA FinishKeeps ==
  ASSUME MemoryInv, Finish
  PROVE  /\ store' \subseteq store /\ long' \in [Longs -> LongRecords]
         /\ EdgesJoin' /\ OneProfile'
<1>1. PICK linked \in (IF place[keeper] = "upserts" THEN Links ELSE {{}}),
           pair \in Alike, merged \in BOOLEAN :
        /\ long' = IF pair = <<>> \/ ~merged THEN long
                   ELSE [long EXCEPT ![pair[1]].sources = @ \cup long[pair[2]].sources,
                                     ![pair[2]].active = FALSE]
        /\ edges' = {e \in edges \cup linked : store' = store \/ e \cap batch = {}}
                    \cup (IF pair = <<>> THEN {} ELSE {{pair[1], pair[2]}})
  BY DEF Finish
<1>2. /\ store' = store \/ store' = store \ batch
      /\ held \subseteq held' /\ revived' = revived
  BY DEF Finish, Settle
<1>3. /\ store \subseteq Ids /\ batch \subseteq Saves /\ batch \subseteq store \cup held
      /\ long \in [Longs -> LongRecords]
  BY DEF MemoryInv, MemoryTypeOK, LookedUp
<1>4. pair # <<>> => /\ pair[1] \in Longs /\ pair[2] \in Longs /\ pair[1] # pair[2]
                     /\ IsActive(pair[1]) /\ IsActive(pair[2])
  BY DEF Alike
<1>5. long' \in [Longs -> LongRecords] /\ \A l \in Longs : IsProfile(l)' => IsProfile(l)
  <2>1. CASE pair = <<>> \/ ~merged
    BY <1>1, <1>2, <1>3, <2>1 DEF IsProfile, IsActive
  <2>2. CASE pair # <<>> /\ merged
    <3> DEFINE p == pair[1]
               q == pair[2]
               one == [long EXCEPT ![p].sources = @ \cup long[q].sources]
    <3>1. p \in Longs /\ q \in Longs /\ p # q
      BY <1>4, <2>2
    <3>2. long' = [one EXCEPT ![q].active = FALSE]
      BY <1>1, <2>2
    <3> HIDE DEF p, q
    <3>3. one \in [Longs -> LongRecords]
      BY <1>3, <3>1 DEF LongRecords
    <3>4. \A l \in Longs : one[l].active = long[l].active /\ one[l].kind = long[l].kind
      BY <1>3, <3>1 DEF LongRecords
    <3> HIDE DEF one
    <3>5. long' \in [Longs -> LongRecords]
      BY <3>1, <3>2, <3>3 DEF LongRecords
    <3>6. \A l \in Longs : (long'[l].active => one[l].active) /\ long'[l].kind = one[l].kind
      BY <3>1, <3>2, <3>3 DEF LongRecords
    <3> QED
      BY <1>2, <3>4, <3>5, <3>6 DEF IsProfile, IsActive
  <2> QED
    BY <2>1, <2>2
<1>6. ASSUME NEW e \in edges' PROVE Edge(e, store' \cup held')
  <2>1. CASE pair # <<>> /\ e = {pair[1], pair[2]}
    <3>1. pair[1] \in store' \cup held' /\ pair[2] \in store' \cup held'
      BY <1>2, <1>3, <1>4, <2>1, MemoryAssumption DEF IsActive
    <3>2. pair[1] \in Ids /\ pair[2] \in Ids /\ pair[1] # pair[2]
      BY <1>4, <2>1 DEF Ids
    <3> QED
      BY <2>1, <3>1, <3>2, EdgeOfTwo
  <2>2. CASE e \in edges /\ (store' = store \/ e \cap batch = {})
    <3>1. Edge(e, store \cup held)
      BY <2>2 DEF MemoryInv, EdgesJoin
    <3> QED
      BY <1>2, <2>2, <3>1 DEF Edge
  <2>3. CASE e \in linked /\ (store' = store \/ e \cap batch = {})
    <3>1. PICK r \in batch, q \in batch : e = {r, q} /\ r # q
      BY <2>3 DEF Links
    <3>2. store' = store
      BY <2>3, <3>1
    <3>3. r \in store' \cup held' /\ q \in store' \cup held' /\ r \in Ids /\ q \in Ids
      BY <1>2, <1>3, <3>1, <3>2 DEF Ids
    <3> QED
      BY <3>1, <3>3, EdgeOfTwo
  <2> QED
    BY <1>1, <1>6, <2>1, <2>2, <2>3
<1>7. EdgesJoin'
  BY <1>6 DEF EdgesJoin
<1>8. OneProfile'
  BY <1>2, <1>5, FewerProfiles DEF MemoryInv
<1> QED
  BY <1>2, <1>5, <1>7, <1>8

-----------------------------------------------------------------------------
(* What a step can be, one line per action.                                *)
LEMMA MemorySteps ==
  ASSUME [MemoryNext]_memory
  PROVE  \/ \E s \in Saves : SaveAgain(s)
         \/ \E s \in Saves : SaveNew(s)
         \/ \E s \in Saves : AddEpisode(s)
         \/ \E s \in Saves : NoEmbedding(s)
         \/ \E s \in Saves : SaveWritten(s)
         \/ \E s \in Saves : SaveUnwritten(s)
         \/ \E id \in Ids : delete_record(id)
         \/ clear_all
         \/ \E l \in Longs : update_record_status(l)
         \/ Beat \/ KeeperFails \/ PatchCame \/ TakeUpsert \/ KeeperWrites \/ KeeperSkips
         \/ ExplicitFallback \/ Finish
         \/ UNCHANGED memory
BY DEF MemoryNext, Save, run_housekeeping

(* Records and edges, whatever happened while a coroutine waited.          *)
LEMMA RecordsStep ==
  ASSUME MemoryInv, [MemoryNext]_memory
  PROVE  /\ store' \subseteq Ids /\ long' \in [Longs -> LongRecords]
         /\ EdgesJoin' /\ OneProfile'
<1> DEFINE Sound == /\ store \subseteq Ids /\ long \in [Longs -> LongRecords]
                    /\ EdgesJoin /\ OneProfile
<1>1. Sound /\ MemoryTypeOK
  BY DEF MemoryInv, MemoryTypeOK
<1>2. ASSUME UNCHANGED <<store, long, edges, held, revived>> PROVE Sound'
  BY <1>1, <1>2 DEF EdgesJoin, OneProfile, IsProfile, IsActive
<1>3. ASSUME NEW a \in Actors, Write(upsert[a]), UNCHANGED <<held, revived>> PROVE Sound'
  <2>1. upsert[a] \in Upserts /\ upsert[a].sources \subseteq store \cup held
    BY <1>1 DEF MemoryInv, MemoryTypeOK, LookedUp
  <2>2. /\ store' \subseteq Ids /\ long' \in [Longs -> LongRecords]
        /\ \A e \in edges' : Edge(e, store' \cup held)
        /\ ~revived => \A l, m \in Longs : IsProfile(l)' /\ IsProfile(m)' => l = m
    BY <1>1, <1>3, <2>1, WriteKeeps
  <2> QED
    BY <1>3, <2>2 DEF EdgesJoin, OneProfile
<1>4. ASSUME NEW s \in Saves, SaveAgain(s) PROVE Sound'
  BY <1>2, <1>4 DEF SaveAgain, history
<1>5. ASSUME NEW s \in Saves, SaveNew(s) PROVE Sound'
  BY <1>2, <1>5 DEF SaveNew, history, records
<1>6. ASSUME NEW s \in Saves, AddEpisode(s) PROVE Sound'
  <2>1. store' = store \cup {s} /\ UNCHANGED <<long, held, revived>> /\ s \in Ids
    BY <1>6 DEF AddEpisode, history, Ids
  <2>2. PICK linked \in SemanticEdges(s) : edges' = edges \cup linked
    BY <1>6 DEF AddEpisode
  <2>3. \A e \in linked : Edge(e, store' \cup held')
    BY <1>1, <2>1, SemanticEdgesJoin
  <2>4. \A e \in edges : Edge(e, store' \cup held')
    BY <1>1, <2>1, EdgeIn DEF EdgesJoin
  <2>5. \A l \in Longs : IsProfile(l)' => IsProfile(l)
    BY <2>1, MemoryAssumption DEF IsProfile, IsActive
  <2>6. OneProfile'
    BY <1>1, <2>1, <2>5, FewerProfiles
  <2> QED
    BY <1>1, <2>1, <2>2, <2>3, <2>4, <2>6 DEF EdgesJoin
<1>7. ASSUME NEW s \in Saves, NoEmbedding(s) PROVE Sound'
  BY <1>2, <1>7 DEF NoEmbedding, history, records
<1>8. ASSUME NEW s \in Saves, SaveWritten(s) PROVE Sound'
  BY <1>3, <1>8 DEF SaveWritten, SaveReturns, Actors
<1>9. ASSUME NEW s \in Saves, SaveUnwritten(s) PROVE Sound'
  BY <1>2, <1>9 DEF SaveUnwritten, SaveReturns
<1>10. ASSUME NEW ids, Delete(ids), long' = long, revived' = revived PROVE Sound'
  <2>1. store' \subseteq store
    BY <1>10 DEF Delete
  <2> QED
    BY <1>1, <1>10, <2>1, DeleteKeeps
<1>11. ASSUME NEW id \in Ids, delete_record(id) PROVE Sound'
  BY <1>10, <1>11 DEF delete_record
<1>12. ASSUME clear_all PROVE Sound'
  BY <1>10, <1>12 DEF clear_all
<1>13. ASSUME NEW l \in Longs, update_record_status(l) PROVE Sound'
  <2>1. /\ UNCHANGED <<store, edges, held>> /\ long' = [long EXCEPT ![l].active = ~@]
        /\ revived' = (revived \/ ~long[l].active)
    BY <1>13 DEF update_record_status
  <2>2. long' \in [Longs -> LongRecords]
    BY <1>1, <2>1 DEF LongRecords
  <2>3. \A x \in Longs : x # l => long'[x] = long[x]
    BY <1>1, <2>1
  <2>4. long'[l].active <=> ~long[l].active
    BY <1>1, <2>1 DEF LongRecords
  <2>5. ASSUME ~revived' PROVE OneProfile'
    <3>1. ~revived /\ ~long'[l].active
      BY <2>1, <2>4, <2>5
    <3>2. \A x \in Longs : IsProfile(x)' => IsProfile(x)
      BY <2>1, <2>3, <3>1 DEF IsProfile, IsActive
    <3> QED
      BY <1>1, <3>1, <3>2, FewerProfiles
  <2>6. OneProfile'
    BY <2>5 DEF OneProfile
  <2> QED
    BY <1>1, <2>1, <2>2, <2>6 DEF EdgesJoin
<1>14. ASSUME Beat PROVE Sound'
  BY <1>10, <1>14 DEF Beat
<1>15. ASSUME KeeperFails PROVE Sound'
  BY <1>2, <1>15 DEF KeeperFails, history, records
<1>16. ASSUME PatchCame PROVE Sound'
  BY <1>2, <1>16 DEF PatchCame, history, records
<1>17. ASSUME TakeUpsert PROVE Sound'
  BY <1>2, <1>17 DEF TakeUpsert, history, records
<1>18. ASSUME KeeperWrites PROVE Sound'
  BY <1>3, <1>18 DEF KeeperWrites, Actors
<1>19. ASSUME KeeperSkips PROVE Sound'
  BY <1>2, <1>19 DEF KeeperSkips, history, records
<1>20. ASSUME ExplicitFallback PROVE Sound'
  <2>1. UNCHANGED <<store, long, held, revived>>
    BY <1>20 DEF ExplicitFallback, history
  <2>2. PICK linked \in Links : edges' = edges \cup linked
    BY <1>20 DEF ExplicitFallback
  <2>3. batch \subseteq store \cup held /\ batch \subseteq Ids
    BY DEF MemoryInv, LookedUp, MemoryTypeOK, Ids
  <2>4. \A e \in linked : \E r, q \in batch : e = {r, q} /\ r # q
    BY DEF Links
  <2>5. \A e \in linked : Edge(e, store \cup held)
    BY <2>3, <2>4, EdgeOfTwo
  <2>6. EdgesJoin'
    BY <1>1, <2>1, <2>2, <2>5 DEF EdgesJoin
  <2>7. OneProfile'
    BY <1>1, <2>1, FewerProfiles DEF IsProfile, IsActive
  <2> QED
    BY <1>1, <2>1, <2>6, <2>7
<1>21. ASSUME Finish PROVE Sound'
  BY <1>1, <1>21, FinishKeeps
<1>22. ASSUME UNCHANGED memory PROVE Sound'
  BY <1>2, <1>22 DEF memory, records, history
<1> HIDE DEF Sound
<1>23. Sound'
  BY MemorySteps, <1>4, <1>5, <1>6, <1>7, <1>8, <1>9, <1>11, <1>12, <1>13, <1>14, <1>15,
     <1>16, <1>17, <1>18, <1>19, <1>20, <1>21, <1>22
<1> QED
  BY <1>23 DEF Sound

(* apply_explicit_memory_record makes an upsert.                           *)
LEMMA RememberedIsUpsert ==
  ASSUME NEW r \in Saves
  PROVE  Remembered(r) \in Upserts /\ Remembered(r).sources = {r}
<1>1. Text[r] \in Values
  BY MemoryAssumption
<1> QED
  BY <1>1 DEF Remembered, Upserts

(* A patch is made of upserts.                                             *)
LEMMA PatchIsUpserts ==
  ASSUME NEW p \in Patches
  PROVE  p \subseteq Upserts
BY DEF Patches

(* The type.                                                               *)
LEMMA MemoryTypeStep ==
  ASSUME MemoryInv, [MemoryNext]_memory
  PROVE  MemoryTypeOK'
<1> DEFINE Stages == {"idle", "episode", "through", "done", "patch", "upserts", "fallback"}
           Rest ==
             /\ pendingEpisodes \subseteq Saves /\ explicit \subseteq Saves
             /\ place \in [Actors -> Stages]
             /\ upsert \in [Actors -> Upserts]
             /\ saved \in [Saves -> Saves \cup {absent}]
             /\ told \in [Saves -> {"none", "saved", "failed"}]
             /\ batch \subseteq Saves /\ todo \subseteq Upserts /\ applied \in BOOLEAN
             /\ derived \subseteq Saves /\ covered \subseteq Saves
             /\ removed \subseteq Ids /\ held \subseteq Ids
             /\ revived \in BOOLEAN
             /\ removals \in 0..MaxRemovals
<1>1. Rest /\ store \subseteq Ids /\ NoUpsert \in Upserts
      /\ Saves \subseteq Actors /\ keeper \in Actors /\ MaxRemovals \in Nat
  BY MemoryAssumption DEF MemoryInv, MemoryTypeOK, Upserts, NoUpsert, Actors
<1>2. ASSUME NEW s \in Saves, NEW r \in Saves, WriteThrough(s, r),
             UNCHANGED <<patch, history, removals>>
      PROVE  Rest'
  <2>1. Remembered(r) \in Upserts
    BY RememberedIsUpsert
  <2> QED
    BY <1>1, <1>2, <2>1 DEF WriteThrough, patch, history
<1>3. ASSUME NEW s \in Saves, SaveAgain(s) PROVE Rest'
  BY <1>2, <1>3 DEF SaveAgain, Twins
<1>4. ASSUME NEW s \in Saves, SaveNew(s) PROVE Rest'
  BY <1>1, <1>4 DEF SaveNew, records, saves, patch, history
<1>5. ASSUME NEW s \in Saves, AddEpisode(s) PROVE Rest'
  BY <1>2, <1>5 DEF AddEpisode
<1>6. ASSUME NEW s \in Saves, NoEmbedding(s) PROVE Rest'
  BY <1>1, <1>6 DEF NoEmbedding, records, patch, history
<1>7. \A a \in Actors : upsert[a].sources \subseteq Saves
  BY <1>1 DEF Upserts
<1>8. ASSUME NEW s \in Saves, SaveWritten(s) PROVE Rest'
  BY <1>1, <1>7, <1>8 DEF SaveWritten, SaveReturns, patch
<1>9. ASSUME NEW s \in Saves, SaveUnwritten(s) PROVE Rest'
  BY <1>1, <1>9 DEF SaveUnwritten, SaveReturns, patch
<1>10. ASSUME NEW ids \in SUBSET Ids, Delete(ids)
       PROVE  pendingEpisodes' \subseteq Saves /\ held' \subseteq Ids
  BY <1>1, <1>10 DEF Delete
<1>11. ASSUME NEW ids \in SUBSET Ids, Operator(ids)
       PROVE  /\ removed' \subseteq Ids /\ removals' \in 0..MaxRemovals
              /\ UNCHANGED <<explicit, place, upsert, saves, patch, derived, covered>>
  BY <1>1, <1>11 DEF Operator
<1>12. ASSUME NEW ids \in SUBSET Ids, Delete(ids), Operator(ids), UNCHANGED revived
       PROVE  Rest'
  BY <1>1, <1>10, <1>11, <1>12 DEF saves, patch
<1>13. ASSUME NEW id \in Ids, delete_record(id) PROVE Rest'
  BY <1>12, <1>13 DEF delete_record
<1>14. ASSUME clear_all PROVE Rest'
  BY <1>1, <1>12, <1>14 DEF clear_all
<1>15. ASSUME NEW l \in Longs, update_record_status(l) PROVE Rest'
  <2>1. Operator({}) /\ UNCHANGED <<pendingEpisodes, held>>
        /\ revived' = (revived \/ ~long[l].active)
    BY <1>15 DEF update_record_status
  <2>2. revived' \in BOOLEAN
    BY <2>1
  <2> QED
    BY <1>1, <1>11, <2>1, <2>2 DEF saves, patch
<1>16. ASSUME Beat PROVE Rest'
  <2>1. PICK aged \in Aged :
          /\ Delete(aged)
          /\ removed' = removed \cup aged
          /\ removals' = removals + Cardinality(aged)
    BY <1>16 DEF Beat
  <2>2. aged = {} \/ (removals < MaxRemovals /\ \E id \in store : aged = {id})
    BY DEF Aged
  <2>3. aged \in SUBSET Ids
    BY <1>1, <2>2
  <2>4. removals' \in 0..MaxRemovals
    <3>1. Cardinality(aged) = 0 \/ (removals < MaxRemovals /\ Cardinality(aged) = 1)
      BY <2>2, FS_EmptySet, FS_Singleton
    <3> QED
      BY <1>1, <2>1, <3>1
  <2>5. pendingEpisodes' \subseteq Saves /\ held' \subseteq Ids
    BY <1>10, <2>1, <2>3
  <2> QED
    BY <1>1, <1>16, <2>1, <2>3, <2>4, <2>5 DEF Beat, saves
<1>17. ASSUME KeeperFails PROVE Rest'
  BY <1>1, <1>17 DEF KeeperFails, records, saves, history
<1>18. ASSUME PatchCame PROVE Rest'
  <2>1. todo' \subseteq Upserts
    BY <1>18, PatchIsUpserts DEF PatchCame
  <2> QED
    BY <1>1, <1>18, <2>1 DEF PatchCame, records, saves, history
<1>19. ASSUME TakeUpsert PROVE Rest'
  <2>1. PICK u \in todo, sources \in SUBSET Saves :
          /\ todo' = todo \ {u}
          /\ upsert' = [upsert EXCEPT ![keeper] =
                           IF sources = {} THEN NoUpsert ELSE [u EXCEPT !.sources = sources]]
    <3>1. PICK u \in todo :
            LET sources == IF place[keeper] = "upserts" THEN u.sources \cap store
                           ELSE u.sources \cap store \cap explicit
            IN  /\ todo' = todo \ {u}
                /\ upsert' = [upsert EXCEPT ![keeper] =
                              IF sources = {} THEN NoUpsert ELSE [u EXCEPT !.sources = sources]]
      BY <1>19 DEF TakeUpsert
    <3>2. u.sources \subseteq Saves
      BY <1>1 DEF Upserts
    <3> QED
      BY <3>1, <3>2
  <2>2. [u EXCEPT !.sources = sources] \in Upserts
    BY <1>1 DEF Upserts
  <2> QED
    BY <1>1, <1>19, <2>1, <2>2 DEF TakeUpsert, records, saves, history
<1>20. ASSUME KeeperWrites PROVE Rest'
  BY <1>1, <1>7, <1>20 DEF KeeperWrites, saves
<1>21. ASSUME KeeperSkips PROVE Rest'
  BY <1>1, <1>21 DEF KeeperSkips, records, saves, patch, history
<1>22. ASSUME ExplicitFallback PROVE Rest'
  <2>1. todo' \subseteq Upserts
    BY <1>1, <1>22, RememberedIsUpsert DEF ExplicitFallback
  <2> QED
    BY <1>1, <1>22, <2>1 DEF ExplicitFallback, saves, history
<1>23. ASSUME Finish PROVE Rest'
  <2>1. Settle
    BY <1>23 DEF Finish
  <2>2. batch \subseteq Ids
    BY <1>1 DEF Ids
  <2>3. CASE applied \/ batch \cap explicit = {}
    BY <1>1, <1>23, <2>1, <2>2, <2>3 DEF Settle, Finish, saves
  <2>4. CASE ~(applied \/ batch \cap explicit = {})
    BY <1>1, <1>23, <2>1, <2>2, <2>4 DEF Settle, Finish, saves
  <2> QED
    BY <2>3, <2>4
<1>24. ASSUME UNCHANGED memory PROVE Rest'
  BY <1>1, <1>24 DEF memory, records, saves, patch, history
<1> HIDE DEF Rest
<1>25. Rest'
  BY MemorySteps, <1>3, <1>4, <1>5, <1>6, <1>8, <1>9, <1>13, <1>14, <1>15, <1>16,
     <1>17, <1>18, <1>19, <1>20, <1>21, <1>22, <1>23, <1>24
<1>26. \A e \in edges' : e \subseteq Ids /\ Cardinality(e) = 2
  BY RecordsStep DEF EdgesJoin, Edge
<1> QED
  BY <1>25, <1>26, RecordsStep DEF Rest, MemoryTypeOK

(* Sources and batches were looked up in the store, and what is deleted    *)
(* while a coroutine has it in its hands is known to be held.              *)
LEMMA LookedUpStep ==
  ASSUME MemoryInv, [MemoryNext]_memory
  PROVE  LookedUp'
<1> DEFINE Hands == UNION {upsert[a].sources : a \in Actors}
<1>1. /\ pendingEpisodes \subseteq store /\ batch \subseteq store \cup held
      /\ \A a \in Actors : upsert[a].sources \subseteq store \cup held
      /\ upsert \in [Actors -> Upserts] /\ store \subseteq Ids
      /\ Saves \subseteq Actors /\ keeper \in Actors /\ keeper \notin Saves
      /\ NoUpsert.sources = {}
  BY MemoryAssumption DEF MemoryInv, LookedUp, MemoryTypeOK, NoUpsert, Actors
<1>2. ASSUME store \subseteq store', held \subseteq held', pendingEpisodes' \subseteq store',
             batch' \in {batch, {}},
             \A a \in Actors : \/ upsert'[a] = upsert[a]
                               \/ upsert'[a].sources \subseteq store'
      PROVE  LookedUp'
  BY <1>1, <1>2 DEF LookedUp
<1>3. ASSUME NEW s \in Saves, NEW r \in Saves, WriteThrough(s, r), r \in store',
             store \subseteq store', UNCHANGED <<patch, history>>
      PROVE  LookedUp'
  <2>1. Remembered(r).sources = {r}
    BY RememberedIsUpsert
  <2>2. \A a \in Actors : \/ upsert'[a] = upsert[a]
                          \/ upsert'[a].sources \subseteq store'
    BY <1>1, <1>3, <2>1 DEF WriteThrough
  <2>3. pendingEpisodes' \subseteq store'
    BY <1>1, <1>3 DEF WriteThrough
  <2> QED
    BY <1>2, <1>3, <2>2, <2>3 DEF patch, history
<1>4. ASSUME NEW s \in Saves, SaveAgain(s) PROVE LookedUp'
  BY <1>3, <1>4 DEF SaveAgain, Twins
<1>5. ASSUME NEW s \in Saves, SaveNew(s) PROVE LookedUp'
  BY <1>1, <1>2, <1>5 DEF SaveNew, records, patch, history
<1>6. ASSUME NEW s \in Saves, AddEpisode(s) PROVE LookedUp'
  BY <1>3, <1>6 DEF AddEpisode
<1>7. ASSUME NEW s \in Saves, NoEmbedding(s) PROVE LookedUp'
  BY <1>1, <1>2, <1>7 DEF NoEmbedding, records, patch, history
<1>8. ASSUME NEW a \in Actors, Write(upsert[a]) PROVE store \subseteq store'
  <2>1. upsert[a] \in Upserts /\ upsert[a].sources \subseteq store \cup held
    BY <1>1
  <2> QED
    BY <1>8, <2>1, WriteKeeps DEF MemoryInv
<1>9. ASSUME NEW s \in Saves, SaveReturns(s)
      PROVE  /\ UNCHANGED <<held, batch>>
             /\ \A a \in Actors : \/ upsert'[a] = upsert[a]
                                  \/ upsert'[a].sources \subseteq store'
  BY <1>1, <1>9 DEF SaveReturns, patch
<1>10. ASSUME NEW s \in Saves, SaveWritten(s) PROVE LookedUp'
  <2>1. store \subseteq store' /\ SaveReturns(s)
        /\ pendingEpisodes' = pendingEpisodes \ {saved[s]}
    BY <1>1, <1>8, <1>10 DEF SaveWritten
  <2> QED
    BY <1>1, <1>2, <1>9, <2>1
<1>11. ASSUME NEW s \in Saves, SaveUnwritten(s) PROVE LookedUp'
  BY <1>1, <1>2, <1>9, <1>11 DEF SaveUnwritten
<1>12. ASSUME NEW ids, Delete(ids), UNCHANGED upsert, batch' \in {batch, pendingEpisodes'}
       PROVE  LookedUp'
  <2>1. /\ store' = store \ ids /\ pendingEpisodes' = pendingEpisodes \ ids
        /\ held' = held \cup (ids \cap store \cap InUse)
    BY <1>12 DEF Delete
  <2>2. batch \subseteq InUse /\ \A a \in Actors : upsert[a].sources \subseteq InUse
    BY DEF InUse
  <2>3. \A x : x \in InUse /\ x \in store \cup held => x \in store' \cup held'
    BY <2>1
  <2> HIDE DEF InUse
  <2>4. pendingEpisodes' \subseteq store'
    BY <1>1, <2>1
  <2>5. batch' \subseteq store' \cup held'
    BY <1>1, <1>12, <2>2, <2>3, <2>4
  <2>6. \A a \in Actors : upsert'[a].sources \subseteq store' \cup held'
    BY <1>1, <1>12, <2>2, <2>3
  <2> QED
    BY <2>4, <2>5, <2>6 DEF LookedUp
<1>13. ASSUME NEW id \in Ids, delete_record(id) PROVE LookedUp'
  BY <1>12, <1>13 DEF delete_record, Operator, patch
<1>14. ASSUME clear_all PROVE LookedUp'
  BY <1>12, <1>14 DEF clear_all, Operator, patch
<1>15. ASSUME NEW l \in Longs, update_record_status(l) PROVE LookedUp'
  BY <1>1, <1>2, <1>15 DEF update_record_status, Operator, patch
<1>16. ASSUME Beat PROVE LookedUp'
  BY <1>12, <1>16 DEF Beat
<1>17. ASSUME KeeperFails PROVE LookedUp'
  BY <1>1, <1>2, <1>17 DEF KeeperFails, records, history
<1>18. ASSUME PatchCame PROVE LookedUp'
  BY <1>1, <1>2, <1>18 DEF PatchCame, records, history
<1>19. ASSUME TakeUpsert PROVE LookedUp'
  <2>1. PICK u \in todo, sources \in SUBSET store :
           upsert' = [upsert EXCEPT ![keeper] =
                         IF sources = {} THEN NoUpsert ELSE [u EXCEPT !.sources = sources]]
    <3>1. PICK u \in todo :
            LET sources == IF place[keeper] = "upserts" THEN u.sources \cap store
                           ELSE u.sources \cap store \cap explicit
            IN  upsert' = [upsert EXCEPT ![keeper] =
                              IF sources = {} THEN NoUpsert ELSE [u EXCEPT !.sources = sources]]
      BY <1>19 DEF TakeUpsert
    <3> QED
      BY <3>1
  <2>2. u \in Upserts
    BY DEF MemoryInv, MemoryTypeOK
  <2>3. [u EXCEPT !.sources = sources].sources = sources
    BY <2>2 DEF Upserts
  <2>4. \A a \in Actors : \/ upsert'[a] = upsert[a]
                          \/ upsert'[a].sources \subseteq store
    BY <1>1, <2>1, <2>3
  <2> QED
    BY <1>1, <1>2, <1>19, <2>4 DEF TakeUpsert, records, history
<1>20. ASSUME KeeperWrites PROVE LookedUp'
  <2>1. store \subseteq store'
    BY <1>1, <1>8, <1>20 DEF KeeperWrites
  <2> QED
    BY <1>1, <1>2, <1>20, <2>1 DEF KeeperWrites
<1>21. ASSUME KeeperSkips PROVE LookedUp'
  BY <1>1, <1>2, <1>21 DEF KeeperSkips, records, patch, history
<1>22. ASSUME ExplicitFallback PROVE LookedUp'
  BY <1>1, <1>2, <1>22 DEF ExplicitFallback, history
<1>23. ASSUME Finish PROVE LookedUp'
  <2>1. Settle /\ batch' = {} /\ upsert' = upsert /\ upsert[keeper] = NoUpsert
    BY <1>23 DEF Finish, Idle
  <2>2. CASE applied \/ batch \cap explicit = {}
    <3>1. /\ store' = store \ batch /\ pendingEpisodes' = pendingEpisodes \ batch
          /\ held' = held \cup (batch \cap UNION {upsert[s].sources : s \in Saves})
      BY <2>1, <2>2 DEF Settle
    <3>2. ASSUME NEW a \in Actors PROVE upsert[a].sources \subseteq store' \cup held'
      <4>1. CASE a = keeper
        BY <1>1, <2>1, <4>1
      <4>2. CASE a \in Saves
        BY <1>1, <3>1, <4>2
      <4> QED
        BY <4>1, <4>2 DEF Actors
    <3> QED
      BY <1>1, <2>1, <3>1, <3>2 DEF LookedUp
  <2>3. CASE ~(applied \/ batch \cap explicit = {})
    BY <1>1, <1>2, <2>1, <2>3 DEF Settle
  <2> QED
    BY <2>2, <2>3
<1>24. ASSUME UNCHANGED memory PROVE LookedUp'
  BY <1>1, <1>2, <1>24 DEF memory, records, patch, history
<1> QED
  BY MemorySteps, <1>4, <1>5, <1>6, <1>7, <1>10, <1>11, <1>13, <1>14, <1>15, <1>16,
     <1>17, <1>18, <1>19, <1>20, <1>21, <1>22, <1>23, <1>24

(* A save has an upsert while it writes through, for the episode it saved. *)
LEMMA WritesItsOwnStep ==
  ASSUME MemoryInv, [MemoryNext]_memory
  PROVE  WritesItsOwn'
<1>1. /\ place \in [Actors -> {"idle", "episode", "through", "done", "patch", "upserts",
                               "fallback"}]
      /\ upsert \in [Actors -> Upserts] /\ saved \in [Saves -> Saves \cup {absent}]
      /\ told \in [Saves -> {"none", "saved", "failed"}]
      /\ Saves \subseteq Actors /\ keeper \in Actors /\ keeper \notin Saves
  BY MemoryAssumption DEF MemoryInv, MemoryTypeOK, Actors
<1> DEFINE Own(s) ==
             /\ place[s] = "through" => saved[s] \in Saves /\ upsert[s] = Remembered(saved[s])
             /\ place[s] # "through" => upsert[s] = NoUpsert
             /\ told[s] = "saved" => saved[s] \in Saves
<1>2. \A s \in Saves : Own(s)
  BY DEF MemoryInv, WritesItsOwn
<1>3. ASSUME UNCHANGED saves,
             \A s \in Saves : place'[s] = place[s] /\ upsert'[s] = upsert[s]
      PROVE  WritesItsOwn'
  BY <1>2, <1>3 DEF WritesItsOwn, Remembered, saves
<1>4. ASSUME NEW s \in Saves, Own(s)', \A t \in Saves : t # s =>
                /\ place'[t] = place[t] /\ upsert'[t] = upsert[t]
                /\ saved'[t] = saved[t] /\ told'[t] = told[t]
      PROVE  WritesItsOwn'
  BY <1>2, <1>4 DEF WritesItsOwn, Remembered
<1>5. ASSUME NEW s \in Saves, NEW r \in Saves, WriteThrough(s, r), place[s] # "through"
      PROVE  WritesItsOwn'
  <2>1. /\ saved' = [saved EXCEPT ![s] = r]
        /\ \/ /\ place' = [place EXCEPT ![s] = "through"]
              /\ upsert' = [upsert EXCEPT ![s] = Remembered(r)]
              /\ told' = told
           \/ /\ place' = [place EXCEPT ![s] = "done"]
              /\ told' = [told EXCEPT ![s] = "saved"]
              /\ upsert' = upsert
    BY <1>5 DEF WriteThrough
  <2>2. saved'[s] = r
    BY <1>1, <2>1
  <2>3. Own(s)'
    BY <1>1, <1>2, <1>5, <2>1, <2>2
  <2> QED
    BY <1>1, <1>4, <2>1, <2>3
<1>6. ASSUME NEW s \in Saves, SaveAgain(s) PROVE WritesItsOwn'
  BY <1>5, <1>6 DEF SaveAgain, Twins
<1>7. ASSUME NEW s \in Saves, SaveNew(s) PROVE WritesItsOwn'
  BY <1>1, <1>2, <1>4, <1>7 DEF SaveNew, saves
<1>8. ASSUME NEW s \in Saves, AddEpisode(s) PROVE WritesItsOwn'
  BY <1>5, <1>8 DEF AddEpisode
<1>9. ASSUME NEW s \in Saves, NoEmbedding(s) PROVE WritesItsOwn'
  BY <1>1, <1>2, <1>4, <1>9 DEF NoEmbedding
<1>10. ASSUME NEW s \in Saves, SaveReturns(s), place[s] = "through" PROVE WritesItsOwn'
  BY <1>1, <1>2, <1>4, <1>10 DEF SaveReturns
<1>11. ASSUME NEW s \in Saves, SaveWritten(s) PROVE WritesItsOwn'
  BY <1>10, <1>11 DEF SaveWritten
<1>12. ASSUME NEW s \in Saves, SaveUnwritten(s) PROVE WritesItsOwn'
  BY <1>10, <1>12 DEF SaveUnwritten
<1>13. ASSUME NEW id \in Ids, delete_record(id) PROVE WritesItsOwn'
  BY <1>3, <1>13 DEF delete_record, Operator
<1>14. ASSUME clear_all PROVE WritesItsOwn'
  BY <1>3, <1>14 DEF clear_all, Operator
<1>15. ASSUME NEW l \in Longs, update_record_status(l) PROVE WritesItsOwn'
  BY <1>3, <1>15 DEF update_record_status, Operator
<1>16. ASSUME Beat PROVE WritesItsOwn'
  BY <1>1, <1>3, <1>16 DEF Beat
<1>17. ASSUME KeeperFails PROVE WritesItsOwn'
  BY <1>1, <1>3, <1>17 DEF KeeperFails
<1>18. ASSUME PatchCame PROVE WritesItsOwn'
  BY <1>1, <1>3, <1>18 DEF PatchCame
<1>19. ASSUME TakeUpsert PROVE WritesItsOwn'
  <2>1. \A s \in Saves : upsert'[s] = upsert[s]
    BY <1>1, <1>19 DEF TakeUpsert
  <2> QED
    BY <1>3, <1>19, <2>1 DEF TakeUpsert
<1>20. ASSUME KeeperWrites PROVE WritesItsOwn'
  BY <1>1, <1>3, <1>20 DEF KeeperWrites
<1>21. ASSUME KeeperSkips PROVE WritesItsOwn'
  BY <1>1, <1>3, <1>21 DEF KeeperSkips
<1>22. ASSUME ExplicitFallback PROVE WritesItsOwn'
  BY <1>1, <1>3, <1>22 DEF ExplicitFallback
<1>23. ASSUME Finish PROVE WritesItsOwn'
  BY <1>1, <1>3, <1>23 DEF Finish
<1>24. ASSUME UNCHANGED memory PROVE WritesItsOwn'
  BY <1>3, <1>24 DEF memory
<1> QED
  BY MemorySteps, <1>6, <1>7, <1>8, <1>9, <1>11, <1>12, <1>13, <1>14, <1>15, <1>16,
     <1>17, <1>18, <1>19, <1>20, <1>21, <1>22, <1>23, <1>24

(* What was asked for stays somewhere, whoever deletes and whatever fails. *)
LEMMA SomewhereStep ==
  ASSUME MemoryInv, [MemoryNext]_memory
  PROVE  Somewhere'
<1>1. /\ saved \in [Saves -> Saves \cup {absent}] /\ absent \notin Saves
      /\ Explicit \subseteq Saves /\ pendingEpisodes \subseteq store
  BY MemoryAssumption DEF MemoryInv, MemoryTypeOK, LookedUp
<1> DEFINE There == derived \cup removed \cup covered \cup (store \cap pendingEpisodes)
<1>2. \A s \in Explicit : saved[s] \in Saves => saved[s] \in There
  BY DEF MemoryInv, Somewhere
<1>3. ASSUME saved' = saved, There \subseteq There' PROVE Somewhere'
  BY <1>2, <1>3 DEF Somewhere
<1>4. ASSUME UNCHANGED <<saves, history>>, store \subseteq store',
             pendingEpisodes \subseteq pendingEpisodes'
      PROVE  Somewhere'
  BY <1>3, <1>4 DEF saves, history
<1>5. ASSUME NEW s \in Saves, NEW r \in Saves, WriteThrough(s, r), r \in store',
             store \subseteq store', UNCHANGED history
      PROVE  Somewhere'
  <2>1. pendingEpisodes' = pendingEpisodes \cup {r} /\ saved' = [saved EXCEPT ![s] = r]
    BY <1>5 DEF WriteThrough
  <2>2. There \subseteq There' /\ r \in There'
    BY <1>5, <2>1 DEF history
  <2> QED
    BY <1>1, <1>2, <2>1, <2>2 DEF Somewhere
<1>6. ASSUME NEW s \in Saves, SaveAgain(s) PROVE Somewhere'
  BY <1>5, <1>6 DEF SaveAgain, Twins
<1>7. ASSUME NEW s \in Saves, SaveNew(s) PROVE Somewhere'
  BY <1>4, <1>7 DEF SaveNew, records
<1>8. ASSUME NEW s \in Saves, AddEpisode(s) PROVE Somewhere'
  BY <1>5, <1>8 DEF AddEpisode
<1>9. ASSUME NEW s \in Saves, NoEmbedding(s) PROVE Somewhere'
  BY <1>3, <1>9 DEF NoEmbedding, records, history
<1>10. ASSUME NEW a \in Actors, Write(upsert[a]) PROVE store \subseteq store'
  <2>1. upsert[a] \in Upserts /\ upsert[a].sources \subseteq store \cup held
    BY DEF MemoryInv, LookedUp, MemoryTypeOK
  <2> QED
    BY <1>10, <2>1, WriteKeeps DEF MemoryInv
<1>11. ASSUME NEW s \in Saves, SaveWritten(s) PROVE Somewhere'
  <2>1. s \in Actors /\ saved[s] \in Saves /\ upsert[s] = Remembered(saved[s])
    BY <1>11 DEF SaveWritten, MemoryInv, WritesItsOwn, Actors
  <2>2. upsert[s].sources = {saved[s]}
    BY <2>1, RememberedIsUpsert
  <2>3. store \subseteq store'
    BY <1>10, <1>11, <2>1 DEF SaveWritten
  <2>4. /\ pendingEpisodes' = pendingEpisodes \ {saved[s]}
        /\ derived' = derived \cup {saved[s]}
        /\ UNCHANGED <<saved, removed, covered>>
    BY <1>11, <2>2 DEF SaveWritten, SaveReturns
  <2> QED
    BY <1>3, <2>3, <2>4
<1>12. ASSUME NEW s \in Saves, SaveUnwritten(s) PROVE Somewhere'
  BY <1>3, <1>12 DEF SaveUnwritten, SaveReturns
<1>13. ASSUME NEW ids, Delete(ids), removed' = removed \cup ids,
              UNCHANGED <<saved, derived, covered>>
       PROVE  Somewhere'
  BY <1>3, <1>13 DEF Delete
<1>14. ASSUME NEW id \in Ids, delete_record(id) PROVE Somewhere'
  BY <1>13, <1>14 DEF delete_record, Operator, saves
<1>15. ASSUME clear_all PROVE Somewhere'
  BY <1>13, <1>15 DEF clear_all, Operator, saves
<1>16. ASSUME NEW l \in Longs, update_record_status(l) PROVE Somewhere'
  BY <1>3, <1>16 DEF update_record_status, Operator, saves
<1>17. ASSUME Beat PROVE Somewhere'
  BY <1>13, <1>17 DEF Beat, saves
<1>18. ASSUME KeeperFails PROVE Somewhere'
  BY <1>4, <1>18 DEF KeeperFails, records
<1>19. ASSUME PatchCame PROVE Somewhere'
  BY <1>4, <1>19 DEF PatchCame, records
<1>20. ASSUME TakeUpsert PROVE Somewhere'
  BY <1>4, <1>20 DEF TakeUpsert, records
<1>21. ASSUME KeeperWrites PROVE Somewhere'
  <2>1. store \subseteq store'
    BY <1>10, <1>21 DEF KeeperWrites, Actors
  <2> QED
    BY <1>3, <1>21, <2>1 DEF KeeperWrites, saves
<1>22. ASSUME KeeperSkips PROVE Somewhere'
  BY <1>4, <1>22 DEF KeeperSkips, records
<1>23. ASSUME ExplicitFallback PROVE Somewhere'
  BY <1>4, <1>23 DEF ExplicitFallback
<1>24. ASSUME Finish PROVE Somewhere'
  <2>1. Settle /\ UNCHANGED <<saved, derived, removed>>
    BY <1>24 DEF Finish, saves
  <2>2. There \subseteq There'
    BY <2>1 DEF Settle
  <2> QED
    BY <1>3, <2>1, <2>2
<1>25. ASSUME UNCHANGED memory PROVE Somewhere'
  BY <1>4, <1>25 DEF memory, records
<1> QED
  BY MemorySteps, <1>6, <1>7, <1>8, <1>9, <1>11, <1>12, <1>14, <1>15, <1>16, <1>17,
     <1>18, <1>19, <1>20, <1>21, <1>22, <1>23, <1>24, <1>25

(* An inductive invariant of Memory: what coroutines have in their hands   *)
(* was in the store or is known to be deleted, an episode that was asked   *)
(* for is somewhere from the moment it is added, a profile is the only one *)
(* and edges join records.                                                 *)
THEOREM MemoryInvariant == MemorySpec => []MemoryInv
<1>1. MemoryInit => MemoryInv
  <2> SUFFICES ASSUME MemoryInit PROVE MemoryInv
    OBVIOUS
  <2>1. MemoryTypeOK
    <3>1. Blank \in LongRecords /\ NoUpsert \in Upserts
      BY DEF LongRecords, Blank, Upserts, NoUpsert
    <3>2. 0 \in 0..MaxRemovals
      BY MemoryAssumption
    <3>3. long \in [Longs -> LongRecords] /\ upsert \in [Actors -> Upserts]
      BY <3>1 DEF MemoryInit
    <3>4. /\ place \in [Actors -> {"idle", "episode", "through", "done", "patch", "upserts",
                                   "fallback"}]
          /\ saved \in [Saves -> Saves \cup {absent}]
          /\ told \in [Saves -> {"none", "saved", "failed"}]
      BY DEF MemoryInit
    <3> QED
      BY <3>2, <3>3, <3>4 DEF MemoryInit, MemoryTypeOK
  <2>2. LookedUp
    BY DEF MemoryInit, LookedUp, NoUpsert
  <2>3. WritesItsOwn /\ Somewhere
    BY MemoryAssumption DEF MemoryInit, WritesItsOwn, Somewhere, Actors
  <2>4. OneProfile /\ EdgesJoin
    BY DEF MemoryInit, OneProfile, IsProfile, IsActive, EdgesJoin
  <2> QED
    BY <2>1, <2>2, <2>3, <2>4 DEF MemoryInv
<1>2. MemoryInv /\ [MemoryNext]_memory => MemoryInv'
  BY MemoryTypeStep, LookedUpStep, WritesItsOwnStep, SomewhereStep, RecordsStep DEF MemoryInv
<1> QED
  BY <1>1, <1>2, PTL DEF MemorySpec

(* When save_memory says that an explicit memory is saved, it is in a      *)
(* profile or a fact, or waits for the consolidation, whatever embeddings  *)
(* and patches failed, for any number of saves that run at the same time.  *)
THEOREM ExplicitMemoriesAreKept == MemorySpec => []ExplicitKept
<1>1. MemoryInv => ExplicitKept
  BY MemoryAssumption DEF MemoryInv, WritesItsOwn, Somewhere, ExplicitKept
<1> QED
  BY <1>1, MemoryInvariant, PTL

(* apply_profile_upsert asks for the active profile after the embedding,   *)
(* and delete_records removes the edges of what it deletes: coroutines     *)
(* that wait for embeddings leave one profile of the key, and edges        *)
(* between records, for any number of saves and upserts.                   *)
THEOREM TheStoreIsSound == MemorySpec => []StoreIsSound
<1>1. MemoryInv => ProfileIsOne
  <2> SUFFICES ASSUME MemoryInv, ~revived
               PROVE  Cardinality({l \in Longs : IsActive(l) /\ long[l].kind = "profile"}) <= 1
    BY DEF ProfileIsOne
  <2> DEFINE P == {l \in Longs : IsActive(l) /\ long[l].kind = "profile"}
  <2>1. \A l, m \in P : l = m
    BY DEF MemoryInv, OneProfile, IsProfile
  <2>2. P = {} \/ \E l : P = {l}
    BY <2>1
  <2> HIDE DEF P
  <2>3. Cardinality(P) = 0 \/ Cardinality(P) = 1
    BY <2>2, FS_EmptySet, FS_Singleton
  <2>4. Cardinality(P) <= 1
    BY <2>3
  <2> QED
    BY <2>4 DEF P
<1>2. MemoryInv => EdgesFollowRecords
  BY DEF MemoryInv, EdgesJoin, Edge, EdgesFollowRecords
<1>3. MemoryInv => StoreIsSound
  BY <1>1, <1>2 DEF StoreIsSound, MemoryInv
<1> QED
  BY <1>3, MemoryInvariant, PTL

-----------------------------------------------------------------------------
(***************************************************************************)
(* The versions of a conversation.  The visible history (Path) and the     *)
(* lineage of a branch (Lineage) are recursive functions.  The first part  *)
(* says what they compute: rows and branches point to older ones, so what  *)
(* holds for the oldest, and for each once it holds for all the older,     *)
(* holds for all (OldestFirst). The second is the inductive invariant      *)
(* VersionInv, kept by five kinds of step: a message is attached           *)
(* (AttachStep), an edit opens a branch (EditStep), the default branch is  *)
(* created (EnsureStep), the thread moves to another version (MoveStep),   *)
(* the versions stay as they are (QuietStep).                              *)
(***************************************************************************)

-----------------------------------------------------------------------------
(* Histories and lineages.  Path and Lineage are recursive functions; the  *)
(* lemmas say what they compute for rows and branches that point to older  *)
(* ones, by the least row or branch for which it would fail.               *)

(* A set of natural numbers that is not empty has a least element.         *)
LEMMA LeastNatural ==
  ASSUME NEW S \in SUBSET Nat, S # {}
  PROVE  \E n \in S : \A k \in S : n <= k
<1> DEFINE R == OpToRel(<, Nat)
<1>1. IsWellFoundedOn(R, Nat)
  BY NatLessThanWellFounded
<1>2. \A i, j \in Nat : i < j => <<i, j>> \in R
  BY DEF OpToRel
<1> HIDE DEF R
<1>3. PICK n \in S : \A k \in S : ~ (<<k, n>> \in R)
  BY <1>1, WFMin
<1>4. \A k \in S : ~(k < n)
  BY <1>2, <1>3
<1> QED
  BY <1>3, <1>4

(* What holds for none, and for each once it holds for all the older ones, *)
(* holds for all up to n.                                                  *)
LEMMA OldestFirst ==
  ASSUME NEW n \in Nat, NEW S, 0 \in S,
         \A k \in 1..n : (0..(k - 1) \subseteq S) => k \in S
  PROVE  0..n \subseteq S
<1> DEFINE Bad == {k \in 0..n : k \notin S}
<1> SUFFICES ASSUME Bad # {}
             PROVE  FALSE
  OBVIOUS
<1>1. Bad \in SUBSET Nat
  OBVIOUS
<1> HIDE DEF Bad
<1>2. PICK k \in Bad : \A j \in Bad : k <= j
  BY <1>1, LeastNatural
<1>3. k \in 0..n /\ k \notin S
  BY <1>2 DEF Bad
<1>4. k \in 1..n
  BY <1>3
<1>5. ASSUME NEW j \in 0..(k - 1)
      PROVE  j \in S
  <2>1. j \in 0..n /\ ~(k <= j)
    BY <1>4
  <2> QED
    BY <1>2, <2>1 DEF Bad
<1> QED
  BY <1>3, <1>4, <1>5

(* The rows rs are a tree: each points to an older one, or to none.        *)
Tree(rs) == Len(rs) \in Nat /\ \A i \in 1..Len(rs) : rs[i].parent \in 0..(i - 1)

(* Path, for any rows.                                                     *)
Climb(rs) ==
    CHOOSE f : f = [x \in (0..Len(rs)) \X SUBSET (1..Len(rs)) |->
                      IF x[1] = 0 \/ x[1] \in x[2] THEN << >>
                      ELSE Append(f[<<rs[x[1]].parent, x[2] \cup {x[1]}>>], x[1])]

History(rs, m) == Climb(rs)[<<m, {}>>]

LEMMA PathIsHistory ==
  ASSUME NEW m
  PROVE  Path(m) = History(messages, m) /\ Path(m)' = History(messages', m)
<1>1. Path(m) = History(messages, m)
  BY DEF Path, History, Climb, Rows
<1>2. Path(m)' = History(messages', m)
  BY DEF Path, History, Climb, Rows
<1> QED
  BY <1>1, <1>2

(* The recursion ends: up to every row there is such a function.           *)
LEMMA ClimbUpTo ==
  ASSUME NEW rs, Tree(rs), NEW n \in 0..Len(rs)
  PROVE  \E f : f = [x \in (0..n) \X SUBSET (1..Len(rs)) |->
                       IF x[1] = 0 \/ x[1] \in x[2] THEN << >>
                       ELSE Append(f[<<rs[x[1]].parent, x[2] \cup {x[1]}>>], x[1])]
<1> DEFINE Sets == SUBSET (1..Len(rs))
           Is(f, k) == f = [x \in (0..k) \X Sets |->
                              IF x[1] = 0 \/ x[1] \in x[2] THEN << >>
                              ELSE Append(f[<<rs[x[1]].parent, x[2] \cup {x[1]}>>], x[1])]
           Holds == {k \in 0..Len(rs) : \E f : Is(f, k)}
<1>1. Len(rs) \in Nat /\ \A i \in 1..Len(rs) : rs[i].parent \in 0..(i - 1)
  BY DEF Tree
<1>2. 0 \in Holds
  <2> DEFINE g == [x \in (0..0) \X Sets |-> << >>]
  <2>1. g = [x \in (0..0) \X Sets |->
               IF x[1] = 0 \/ x[1] \in x[2] THEN << >>
               ELSE Append(g[<<rs[x[1]].parent, x[2] \cup {x[1]}>>], x[1])]
    OBVIOUS
  <2>2. \E f : Is(f, 0)
    BY <2>1
  <2> HIDE DEF Is
  <2> QED
    BY <1>1, <2>2
<1>3. ASSUME NEW k \in 1..Len(rs), 0..(k - 1) \subseteq Holds
      PROVE  k \in Holds
  <2>1. k \in Nat /\ k - 1 \in Holds
    <3>1. k \in Nat /\ k - 1 \in 0..(k - 1)
      BY <1>1
    <3> HIDE DEF Holds
    <3> QED
      BY <1>3, <3>1
  <2>2. PICK f : Is(f, k - 1)
    BY <2>1
  <2> DEFINE g == [x \in (0..k) \X Sets |->
                     IF x[1] = 0 \/ x[1] \in x[2] THEN << >>
                     ELSE Append(f[<<rs[x[1]].parent, x[2] \cup {x[1]}>>], x[1])]
  <2>3. ASSUME NEW x \in (0..(k - 1)) \X Sets
        PROVE  g[x] = f[x]
    <3>1. x \in (0..k) \X Sets
      BY <2>1
    <3> QED
      BY <2>2, <3>1
  <2>4. ASSUME NEW x \in (0..k) \X Sets, x[1] # 0
        PROVE  <<rs[x[1]].parent, x[2] \cup {x[1]}>> \in (0..(k - 1)) \X Sets
    <3>1. x[1] \in 1..Len(rs) /\ x[1] <= k /\ x[2] \in Sets
      BY <2>1, <2>4, <1>1
    <3>2. rs[x[1]].parent \in 0..(k - 1)
      BY <3>1, <1>1, <2>1
    <3> QED
      BY <3>1, <3>2
  <2>5. g = [x \in (0..k) \X Sets |->
              IF x[1] = 0 \/ x[1] \in x[2] THEN << >>
              ELSE Append(g[<<rs[x[1]].parent, x[2] \cup {x[1]}>>], x[1])]
    <3> SUFFICES ASSUME NEW x \in (0..k) \X Sets
                 PROVE  g[x] = IF x[1] = 0 \/ x[1] \in x[2] THEN << >>
                          ELSE Append(g[<<rs[x[1]].parent, x[2] \cup {x[1]}>>], x[1])
      OBVIOUS
    <3>1. CASE x[1] = 0
      BY <3>1
    <3>2. CASE x[1] # 0
      <4>1. g[<<rs[x[1]].parent, x[2] \cup {x[1]}>>] = f[<<rs[x[1]].parent, x[2] \cup {x[1]}>>]
        BY <2>3, <2>4, <3>2
      <4> QED
        BY <4>1
    <3> QED
      BY <3>1, <3>2
  <2>6. \E h : Is(h, k)
    BY <2>5
  <2> HIDE DEF Is
  <2> QED
    BY <1>1, <2>6
<1>4. n \in Holds
  <2> HIDE DEF Holds
  <2> QED
    BY <1>1, <1>2, <1>3, OldestFirst
<1>5. \E f : Is(f, n)
  <2> HIDE DEF Is
  <2> QED
    BY <1>4
<1> QED
  BY <1>5

(* Path in steps: nothing above no row, and the row behind the history of  *)
(* its parent.  No row stands in the way, since parents are older.         *)
LEMMA ClimbStep ==
  ASSUME NEW rs, Tree(rs), NEW m \in 0..Len(rs), NEW S \in SUBSET (1..Len(rs))
  PROVE  Climb(rs)[<<m, S>>] =
           IF m = 0 \/ m \in S THEN << >>
           ELSE Append(Climb(rs)[<<rs[m].parent, S \cup {m}>>], m)
<1> DEFINE D == (0..Len(rs)) \X SUBSET (1..Len(rs))
           Is(f) == f = [x \in D |-> IF x[1] = 0 \/ x[1] \in x[2] THEN << >>
                           ELSE Append(f[<<rs[x[1]].parent, x[2] \cup {x[1]}>>], x[1])]
<1>1. \E f : Is(f)
  <2>1. Len(rs) \in 0..Len(rs)
    BY DEF Tree
  <2> QED
    BY ZenonT(30), <2>1, ClimbUpTo
<1>2. Is(CHOOSE f : Is(f))
  <2> HIDE DEF Is
  <2> QED
    BY <1>1
<1>3. Climb(rs) = CHOOSE f : Is(f)
  BY DEF Climb
<1>4. Is(Climb(rs))
  <2> HIDE DEF Is
  <2> QED
    BY <1>2, <1>3
<1>5. <<m, S>> \in D
  OBVIOUS
<1>6. Climb(rs) = [x \in D |-> IF x[1] = 0 \/ x[1] \in x[2] THEN << >>
                     ELSE Append(Climb(rs)[<<rs[x[1]].parent, x[2] \cup {x[1]}>>], x[1])]
  BY <1>4
<1> HIDE DEF D
<1> QED
  BY <1>5, <1>6

(* Rows that are newer do not matter.                                      *)
LEMMA SeenAbove ==
  ASSUME NEW rs, Tree(rs), NEW m \in 0..Len(rs), NEW S \in SUBSET (1..Len(rs)),
         \A s \in S : s > m
  PROVE  Climb(rs)[<<m, S>>] = Climb(rs)[<<m, {}>>]
<1> DEFINE Above(k) == {T \in SUBSET (1..Len(rs)) : \A s \in T : s > k}
           Good(k) == \A T, U \in Above(k) : Climb(rs)[<<k, T>>] = Climb(rs)[<<k, U>>]
           Holds == {k \in 0..Len(rs) : Good(k)}
<1>1. Len(rs) \in Nat /\ \A i \in 1..Len(rs) : rs[i].parent \in 0..(i - 1)
  BY DEF Tree
<1>2. 0 \in Holds
  <2>1. ASSUME NEW T \in Above(0)
        PROVE  Climb(rs)[<<0, T>>] = << >>
    <3>1. T \in SUBSET (1..Len(rs)) /\ 0 \in 0..Len(rs)
      BY <1>1
    <3> QED
      BY <3>1, ClimbStep
  <2>2. Good(0)
    BY <2>1
  <2> QED
    BY <1>1, <2>2
<1>3. ASSUME NEW k \in 1..Len(rs), 0..(k - 1) \subseteq Holds
      PROVE  k \in Holds
  <2> DEFINE p == rs[k].parent
  <2>1. k \in Nat /\ k \in 0..Len(rs) /\ k # 0 /\ p \in 0..(k - 1)
    BY <1>1
  <2>2. ASSUME NEW T \in Above(k)
        PROVE  /\ Climb(rs)[<<k, T>>] = Append(Climb(rs)[<<p, T \cup {k}>>], k)
               /\ T \cup {k} \in Above(p)
    <3>1. T \in SUBSET (1..Len(rs)) /\ k \notin T
      BY <2>1
    <3>2. Climb(rs)[<<k, T>>] = Append(Climb(rs)[<<p, T \cup {k}>>], k)
      BY <2>1, <3>1, ClimbStep
    <3>3. \A s \in T \cup {k} : s > p
      BY <2>1, <1>1
    <3> QED
      BY <3>1, <3>2, <3>3
  <2>3. Good(p)
    <3>1. p \in Holds
      <4> HIDE DEF Holds
      <4> QED
        BY <1>3, <2>1
    <3> QED
      BY <3>1
  <2>4. ASSUME NEW T \in Above(k), NEW U \in Above(k)
        PROVE  Climb(rs)[<<k, T>>] = Climb(rs)[<<k, U>>]
    <3>1. Climb(rs)[<<p, T \cup {k}>>] = Climb(rs)[<<p, U \cup {k}>>]
      <4> HIDE DEF Above
      <4> QED
        BY <2>2, <2>3
    <3> QED
      BY <2>2, <3>1
  <2> QED
    BY <2>1, <2>4
<1>4. m \in Holds
  <2> HIDE DEF Holds
  <2> QED
    BY <1>1, <1>2, <1>3, OldestFirst
<1>5. S \in Above(m) /\ {} \in Above(m)
  OBVIOUS
<1> QED
  BY <1>4, <1>5

(* Path in steps: nothing above no row, and a row behind the history of    *)
(* its parent.                                                             *)
LEMMA HistoryStep ==
  ASSUME NEW rs, Tree(rs)
  PROVE  /\ History(rs, 0) = << >>
         /\ \A m \in 1..Len(rs) : History(rs, m) = Append(History(rs, rs[m].parent), m)
<1>1. Len(rs) \in Nat /\ \A i \in 1..Len(rs) : rs[i].parent \in 0..(i - 1)
  BY DEF Tree
<1>2. History(rs, 0) = << >>
  <2>1. 0 \in 0..Len(rs) /\ {} \in SUBSET (1..Len(rs))
    BY <1>1
  <2> QED
    BY <2>1, ClimbStep DEF History
<1>3. ASSUME NEW m \in 1..Len(rs)
      PROVE  History(rs, m) = Append(History(rs, rs[m].parent), m)
  <2> DEFINE p == rs[m].parent
  <2>1. p \in 0..Len(rs) /\ p < m /\ m \in 0..Len(rs) /\ m # 0
    BY <1>1
  <2>2. Climb(rs)[<<m, {}>>] = Append(Climb(rs)[<<p, {} \cup {m}>>], m)
    BY <2>1, ClimbStep
  <2>3. Climb(rs)[<<p, {m}>>] = Climb(rs)[<<p, {}>>]
    <3>1. \A s \in {m} : s > p
      BY <2>1, <1>1
    <3> QED
      BY <2>1, <3>1, SeenAbove
  <2>4. {} \cup {m} = {m}
    OBVIOUS
  <2> QED
    BY <2>2, <2>3, <2>4 DEF History
<1> QED
  BY <1>2, <1>3

-----------------------------------------------------------------------------
(* What a history holds.                                                   *)

On(rs, m) == {History(rs, m)[i] : i \in 1..Len(History(rs, m))}

LEMMA OnPathIsOn ==
  ASSUME NEW m
  PROVE  OnPath(m) = On(messages, m) /\ OnPath(m)' = On(messages', m)
<1>1. OnPath(m) = On(messages, m)
  BY PathIsHistory DEF OnPath, On
<1>2. OnPath(m)' = On(messages', m)
  BY PathIsHistory DEF OnPath, On
<1> QED
  BY <1>1, <1>2

LEMMA RangeOfAppend ==
  ASSUME NEW s \in Seq(Nat), NEW e \in Nat
  PROVE  {Append(s, e)[i] : i \in 1..Len(Append(s, e))} = {s[i] : i \in 1..Len(s)} \cup {e}
<1> DEFINE t == Append(s, e)
           L == {t[i] : i \in 1..Len(t)}
           R == {s[i] : i \in 1..Len(s)} \cup {e}
<1>1. Len(s) \in Nat /\ Len(t) = Len(s) + 1
  OBVIOUS
<1>2. t[Len(s) + 1] = e /\ \A i \in 1..Len(s) : t[i] = s[i]
  OBVIOUS
<1> HIDE DEF t
<1>3. ASSUME NEW x \in L PROVE x \in R
  BY <1>1, <1>2
<1>4. ASSUME NEW x \in R PROVE x \in L
  <2>1. CASE x = e
    BY <1>1, <1>2, <2>1
  <2>2. CASE x # e
    <3>1. PICK i \in 1..Len(s) : x = s[i]
      BY <2>2
    <3>2. i \in 1..Len(t) /\ x = t[i]
      BY <1>1, <1>2, <3>1
    <3> QED
      BY <3>2
  <2> QED
    BY <2>1, <2>2
<1> QED
  BY <1>3, <1>4 DEF t

(* A history is a sequence of rows that ends at its own.                   *)
LEMMA HistoryBelow ==
  ASSUME NEW rs, Tree(rs), NEW m \in 0..Len(rs)
  PROVE  History(rs, m) \in Seq(Nat) /\ On(rs, m) \subseteq 1..m
<1> DEFINE Good(k) == History(rs, k) \in Seq(Nat) /\ On(rs, k) \subseteq 1..k
           Holds == {k \in 0..Len(rs) : Good(k)}
<1>1. Len(rs) \in Nat /\ \A i \in 1..Len(rs) : rs[i].parent \in 0..(i - 1)
  BY DEF Tree
<1>2. Good(0)
  <2>1. History(rs, 0) = << >>
    BY HistoryStep
  <2>2. << >> \in Seq(Nat) /\ 1..Len(<< >>) = {}
    OBVIOUS
  <2>3. On(rs, 0) = {}
    BY <2>1, <2>2 DEF On
  <2> QED
    BY <2>1, <2>2, <2>3
<1>3. ASSUME NEW k \in 1..Len(rs), Good(rs[k].parent)
      PROVE  Good(k)
  <2> DEFINE p == rs[k].parent
  <2>1. k \in Nat /\ p \in 0..(k - 1)
    BY <1>1
  <2>2. History(rs, k) = Append(History(rs, p), k)
    BY HistoryStep
  <2>3. History(rs, p) \in Seq(Nat)
    BY <1>3
  <2>4. On(rs, k) = On(rs, p) \cup {k}
    BY SMTT(30), <2>1, <2>2, <2>3, RangeOfAppend DEF On
  <2>5. On(rs, k) \subseteq 1..k
    BY <1>3, <2>1, <2>4
  <2>6. History(rs, k) \in Seq(Nat)
    BY <2>1, <2>2, <2>3, AppendProperties
  <2> QED
    BY <2>5, <2>6
<1>4. 0..Len(rs) \subseteq Holds
  <2> HIDE DEF Good
  <2>1. 0 \in Holds
    BY <1>1, <1>2
  <2>2. ASSUME NEW k \in 1..Len(rs), 0..(k - 1) \subseteq Holds
        PROVE  k \in Holds
    <3>1. rs[k].parent \in Holds /\ k \in 0..Len(rs)
      BY <1>1, <2>2
    <3> QED
      BY <1>3, <3>1
  <2> HIDE DEF Holds
  <2> QED
    BY <1>1, <2>1, <2>2, OldestFirst
<1> HIDE DEF Good
<1>5. Good(m)
  BY <1>4
<1> QED
  BY <1>5 DEF Good

LEMMA OnStep ==
  ASSUME NEW rs, Tree(rs)
  PROVE  /\ On(rs, 0) = {}
         /\ \A m \in 1..Len(rs) : On(rs, m) = On(rs, rs[m].parent) \cup {m}
         /\ \A m \in 0..Len(rs) : On(rs, m) \subseteq 1..m
<1>1. Len(rs) \in Nat /\ \A i \in 1..Len(rs) : rs[i].parent \in 0..(i - 1)
  BY DEF Tree
<1>2. On(rs, 0) = {}
  BY HistoryStep DEF On
<1>3. ASSUME NEW m \in 1..Len(rs)
      PROVE  On(rs, m) = On(rs, rs[m].parent) \cup {m}
  <2> DEFINE p == rs[m].parent
  <2>1. m \in Nat /\ p \in 0..Len(rs)
    BY <1>1
  <2>2. History(rs, m) = Append(History(rs, p), m)
    BY HistoryStep
  <2>3. History(rs, p) \in Seq(Nat)
    BY <2>1, HistoryBelow
  <2> QED
    BY <2>1, <2>2, <2>3, RangeOfAppend DEF On
<1> QED
  BY <1>2, <1>3, HistoryBelow

(* The rows ss are those of rs, and newer ones.                            *)
Extends(rs, ss) ==
    Len(rs) <= Len(ss) /\ \A i \in 1..Len(rs) : ss[i].parent = rs[i].parent

(* What is written later leaves a history as it is.                        *)
LEMMA HistoryStable ==
  ASSUME NEW rs, NEW ss, Tree(rs), Tree(ss), Extends(rs, ss), NEW m \in 0..Len(rs)
  PROVE  History(ss, m) = History(rs, m) /\ On(ss, m) = On(rs, m)
<1> DEFINE Good(k) == History(ss, k) = History(rs, k)
           Holds == {k \in 0..Len(rs) : Good(k)}
<1>1. Len(rs) \in Nat /\ \A i \in 1..Len(rs) : rs[i].parent \in 0..(i - 1)
  BY DEF Tree
<1>2. Good(0)
  BY HistoryStep
<1>3. ASSUME NEW k \in 1..Len(rs), Good(rs[k].parent)
      PROVE  Good(k)
  <2>1. k \in 1..Len(ss) /\ ss[k].parent = rs[k].parent
    BY <1>1 DEF Extends, Tree
  <2>2. History(rs, k) = Append(History(rs, rs[k].parent), k)
    BY HistoryStep
  <2>3. History(ss, k) = Append(History(ss, ss[k].parent), k)
    BY <2>1, HistoryStep
  <2> QED
    BY <1>3, <2>1, <2>2, <2>3
<1>4. 0..Len(rs) \subseteq Holds
  <2> HIDE DEF Good
  <2>1. 0 \in Holds
    BY <1>1, <1>2
  <2>2. ASSUME NEW k \in 1..Len(rs), 0..(k - 1) \subseteq Holds
        PROVE  k \in Holds
    <3>1. rs[k].parent \in Holds /\ k \in 0..Len(rs)
      BY <1>1, <2>2
    <3> QED
      BY <1>3, <3>1
  <2> HIDE DEF Holds
  <2> QED
    BY <1>1, <2>1, <2>2, OldestFirst
<1> HIDE DEF Good
<1>5. Good(m)
  BY <1>4
<1> QED
  BY <1>5 DEF Good, On

-----------------------------------------------------------------------------
(* What a lineage holds.                                                   *)

(* The branches bs descend from older ones.                                *)
Descends(bs) == Len(bs) \in Nat /\ \A b \in 1..Len(bs) : bs[b].parent \in 0..(b - 1)

(* Lineage, for any branches.                                              *)
Ancestors(bs, b) ==
    (CHOOSE f : f = [x \in 0..Len(bs) |->
                       IF x = 0 THEN {} ELSE {x} \cup f[bs[x].parent]])[b]

LEMMA LineageIsAncestors ==
  ASSUME NEW b
  PROVE  Lineage(b) = Ancestors(branches, b) /\ Lineage(b)' = Ancestors(branches', b)
<1>1. Lineage(b) = Ancestors(branches, b)
  BY DEF Lineage, Ancestors
<1>2. Lineage(b)' = Ancestors(branches', b)
  BY DEF Lineage, Ancestors
<1> QED
  BY <1>1, <1>2

(* The recursion ends: up to every branch there is such a function.        *)
LEMMA AncestorsUpTo ==
  ASSUME NEW bs, Descends(bs), NEW n \in 0..Len(bs)
  PROVE  \E f : f = [x \in 0..n |-> IF x = 0 THEN {} ELSE {x} \cup f[bs[x].parent]]
<1> DEFINE Is(f, k) == f = [x \in 0..k |-> IF x = 0 THEN {} ELSE {x} \cup f[bs[x].parent]]
           Holds == {k \in 0..Len(bs) : \E f : Is(f, k)}
<1>1. Len(bs) \in Nat /\ \A b \in 1..Len(bs) : bs[b].parent \in 0..(b - 1)
  BY DEF Descends
<1>2. 0 \in Holds
  <2> DEFINE g == [x \in 0..0 |-> {}]
  <2>1. g = [x \in 0..0 |-> IF x = 0 THEN {} ELSE {x} \cup g[bs[x].parent]]
    OBVIOUS
  <2>2. \E f : Is(f, 0)
    BY <2>1
  <2> HIDE DEF Is
  <2> QED
    BY <1>1, <2>2
<1>3. ASSUME NEW k \in 1..Len(bs), 0..(k - 1) \subseteq Holds
      PROVE  k \in Holds
  <2>1. k \in Nat /\ k - 1 \in Holds
    <3>1. k \in Nat /\ k - 1 \in 0..(k - 1)
      BY <1>1
    <3> HIDE DEF Holds
    <3> QED
      BY <1>3, <3>1
  <2>2. PICK f : Is(f, k - 1)
    BY <2>1
  <2> DEFINE g == [x \in 0..k |-> IF x = 0 THEN {} ELSE {x} \cup f[bs[x].parent]]
  <2>3. ASSUME NEW x \in 0..(k - 1)
        PROVE  g[x] = f[x]
    <3>1. x \in 0..k
      BY <2>1
    <3> QED
      BY <2>2, <3>1
  <2>4. ASSUME NEW x \in 0..k, x # 0
        PROVE  bs[x].parent \in 0..(k - 1)
    BY <2>1, <2>4, <1>1
  <2>5. g = [x \in 0..k |-> IF x = 0 THEN {} ELSE {x} \cup g[bs[x].parent]]
    <3> SUFFICES ASSUME NEW x \in 0..k
                 PROVE  g[x] = IF x = 0 THEN {} ELSE {x} \cup g[bs[x].parent]
      OBVIOUS
    <3>1. CASE x = 0
      BY <3>1
    <3>2. CASE x # 0
      <4>1. g[bs[x].parent] = f[bs[x].parent]
        BY <2>3, <2>4, <3>2
      <4> QED
        BY <3>2, <4>1
    <3> QED
      BY <3>1, <3>2
  <2>6. \E h : Is(h, k)
    BY <2>5
  <2> HIDE DEF Is
  <2> QED
    BY <1>1, <2>6
<1>4. n \in Holds
  <2> HIDE DEF Holds
  <2> QED
    BY <1>1, <1>2, <1>3, OldestFirst
<1>5. \E f : Is(f, n)
  <2> HIDE DEF Is
  <2> QED
    BY <1>4
<1> QED
  BY <1>5

LEMMA LineageStep ==
  ASSUME NEW bs, Descends(bs)
  PROVE  /\ Ancestors(bs, 0) = {}
         /\ \A b \in 1..Len(bs) : Ancestors(bs, b) = {b} \cup Ancestors(bs, bs[b].parent)
<1> DEFINE Is(f) == f = [x \in 0..Len(bs) |-> IF x = 0 THEN {} ELSE {x} \cup f[bs[x].parent]]
           F == CHOOSE f : Is(f)
<1>1. \E f : Is(f)
  <2>1. Len(bs) \in 0..Len(bs)
    BY DEF Descends
  <2> QED
    BY <2>1, AncestorsUpTo
<1>2. Is(F)
  <2> HIDE DEF Is
  <2> QED
    BY <1>1
<1>3. ASSUME NEW b
      PROVE  Ancestors(bs, b) = F[b]
  BY DEF Ancestors
<1>4. F = [x \in 0..Len(bs) |-> IF x = 0 THEN {} ELSE {x} \cup F[bs[x].parent]]
  BY <1>2
<1> HIDE DEF F
<1>5. ASSUME NEW b \in 1..Len(bs)
      PROVE  F[b] = {b} \cup F[bs[b].parent]
  <2>1. b \in 0..Len(bs) /\ b # 0
    BY DEF Descends
  <2> QED
    BY <1>4, <2>1
<1>6. F[0] = {}
  <2>1. 0 \in 0..Len(bs)
    BY DEF Descends
  <2> QED
    BY <1>4, <2>1
<1> QED
  BY <1>3, <1>5, <1>6

(* A lineage does not change while its branches do not.                    *)
LEMMA LineageStable ==
  ASSUME NEW bs, NEW cs, Descends(bs), Descends(cs), Len(bs) <= Len(cs),
         \A x \in 1..Len(bs) : cs[x].parent = bs[x].parent,
         NEW b \in 0..Len(bs)
  PROVE  Ancestors(cs, b) = Ancestors(bs, b)
<1> DEFINE Good(k) == Ancestors(cs, k) = Ancestors(bs, k)
           Holds == {k \in 0..Len(bs) : Good(k)}
<1>1. /\ Len(bs) \in Nat /\ Len(cs) \in Nat
      /\ \A x \in 1..Len(bs) : bs[x].parent \in 0..(x - 1)
  BY DEF Descends
<1>2. Good(0)
  BY LineageStep
<1>3. ASSUME NEW k \in 1..Len(bs), Good(bs[k].parent)
      PROVE  Good(k)
  <2>1. k \in 1..Len(cs) /\ cs[k].parent = bs[k].parent
    BY <1>1
  <2>2. Ancestors(bs, k) = {k} \cup Ancestors(bs, bs[k].parent)
    BY LineageStep
  <2>3. Ancestors(cs, k) = {k} \cup Ancestors(cs, cs[k].parent)
    BY <2>1, LineageStep
  <2> QED
    BY <1>3, <2>1, <2>2, <2>3
<1>4. 0..Len(bs) \subseteq Holds
  <2> HIDE DEF Good
  <2>1. 0 \in Holds
    BY <1>1, <1>2
  <2>2. ASSUME NEW k \in 1..Len(bs), 0..(k - 1) \subseteq Holds
        PROVE  k \in Holds
    <3>1. bs[k].parent \in Holds /\ k \in 0..Len(bs)
      BY <1>1, <2>2
    <3> QED
      BY <1>3, <3>1
  <2> HIDE DEF Holds
  <2> QED
    BY <1>1, <2>1, <2>2, OldestFirst
<1> HIDE DEF Good
<1>5. Good(b)
  BY <1>4
<1> QED
  BY <1>5 DEF Good

-----------------------------------------------------------------------------
(* The inductive invariant.                                                *)

(* A thread without a branch has nothing but messages that were not        *)
(* attached; afterwards it always has an active branch.                    *)
Fresh ==
    /\ branches = << >> => /\ active = 0 /\ leaf = 0 /\ checkpoints = {} /\ asked = {}
                           /\ \A m \in Rows : messages[m].revisionOf = 0 /\ messages[m].answers = 0
    /\ branches # << >> => active # 0

(* A branch descends from an older one and ends at a row there is; a row   *)
(* names a branch there is.                                                *)
OlderBranches ==
    /\ \A b \in Known : branches[b].parent < b /\ branches[b].leaf <= Len(messages)
    /\ \A m \in Rows : messages[m].branch <= Len(branches)

(* A revision is newer than its original, follows the same message, is on  *)
(* another branch, and no history holds both.                              *)
Revisions ==
    \A e \in Rows : LET m == messages[e].revisionOf IN m # 0 =>
        /\ m < e
        /\ messages[e].parent = messages[m].parent
        /\ messages[e].branch # messages[m].branch
        /\ \A n \in Rows : ~({e, m} \subseteq On(messages, n))

(* A question that waits, and whose version was not left, is in sight.     *)
AskedInSight == \A q \in asked \ moved : q \in On(messages, leaf)

(* One original has a key.                                                 *)
OneRow ==
    \A m, n \in Rows :
        /\ messages[m].key = messages[n].key /\ messages[m].key # noKey
        /\ messages[m].revisionOf = 0 /\ messages[n].revisionOf = 0
        => m = n

(* A question has one reply, newer than itself, and then waits no longer.  *)
OneReply ==
    \A a \in Rows : messages[a].answers # 0 =>
        /\ messages[a].answers < a
        /\ messages[a].answers \notin asked
        /\ \A b \in Rows : messages[b].answers = messages[a].answers => a = b

(* ReplyFollowsQuestion, by On.                                            *)
Follows ==
    \A a \in Rows : LET q == messages[a].answers IN
        q # 0 /\ ~messages[a].strayed => q \in On(messages, a)

(* A pointer of branch b to message m keeps to the branch.                 *)
Fits(rs, bs, b, m) == m = 0 \/ rs[m].branch \in Ancestors(bs, b)

Pointers ==
    /\ active # 0 => Fits(messages, branches, active, leaf)
    /\ \A b \in Known : Fits(messages, branches, b, branches[b].leaf)
    /\ \A c \in checkpoints : Fits(messages, branches, c.branch, c.message)

VersionInv ==
    /\ BranchesTypeOK
    /\ HistoryIsATree
    /\ Fresh
    /\ OlderBranches
    /\ Pointers
    /\ Revisions
    /\ AskedInSight
    /\ Follows
    /\ OneRow
    /\ OneReply

-----------------------------------------------------------------------------
(* What the steps do to the rows and the branches.                         *)

Branch == [parent : 0..MaxBranches, leaf : 0..MaxMessages]

(* Every row of rs is in ss as it was, but for its branch.                 *)
Keeps(rs, ss) ==
    /\ Len(rs) <= Len(ss)
    /\ \A i \in 1..Len(rs) :
         /\ ss[i].key = rs[i].key
         /\ ss[i].parent = rs[i].parent
         /\ ss[i].revisionOf = rs[i].revisionOf
         /\ ss[i].answers = rs[i].answers
         /\ ss[i].strayed = rs[i].strayed

(* The type invariant in the terms of the proofs.                          *)
LEMMA Types ==
  ASSUME BranchesTypeOK
  PROVE  /\ messages \in Seq(Row) /\ Len(messages) \in Nat /\ Len(messages) <= MaxMessages
         /\ branches \in Seq(Branch) /\ Len(branches) \in Nat /\ Len(branches) <= MaxBranches
         /\ active \in 0..Len(branches) /\ leaf \in 0..Len(messages)
         /\ MaxMessages \in Nat /\ MaxBranches \in Nat /\ 1 <= MaxBranches
         /\ noKey \notin Keys
         /\ branches # << >> => Len(branches) # 0
         /\ branches = << >> => Len(branches) = 0
BY BranchesAssumption DEF BranchesTypeOK, Branch

LEMMA RowFields ==
  ASSUME NEW r \in Row
  PROVE  /\ r.role \in {"user", "assistant"} /\ r.key \in Keys \cup {noKey}
         /\ r.branch \in 0..MaxBranches /\ r.parent \in 0..MaxMessages
         /\ r.revisionOf \in 0..MaxMessages /\ r.answers \in 0..MaxMessages
         /\ r.strayed \in BOOLEAN
BY DEF Row

LEMMA BranchFields ==
  ASSUME NEW b \in Branch
  PROVE  b.parent \in 0..MaxBranches /\ b.leaf \in 0..MaxMessages
BY DEF Branch

(* _ensure_default_branch_in_session where there is a branch, and where    *)
(* there is none.                                                          *)
LEMMA EnsuredKnown ==
  ASSUME branches # << >>, NEW rs
  PROVE  /\ Ensured(rs).rows = rs /\ Ensured(rs).known = branches
         /\ Ensured(rs).active = active /\ Ensured(rs).leaf = leaf
BY DEF Ensured

LEMMA EnsuredFirst ==
  ASSUME branches = << >>, BranchesTypeOK, NEW rs \in Seq(Row)
  PROVE  /\ Ensured(rs).rows \in Seq(Row) /\ Len(Ensured(rs).rows) = Len(rs)
         /\ \A i \in 1..Len(rs) : /\ Ensured(rs).rows[i].branch = 1
                                  /\ Ensured(rs).rows[i].key = rs[i].key
                                  /\ Ensured(rs).rows[i].parent = rs[i].parent
                                  /\ Ensured(rs).rows[i].revisionOf = rs[i].revisionOf
                                  /\ Ensured(rs).rows[i].answers = rs[i].answers
                                  /\ Ensured(rs).rows[i].strayed = rs[i].strayed
         /\ Ensured(rs).known = <<[parent |-> 0, leaf |-> Len(rs)]>>
         /\ Ensured(rs).active = 1 /\ Ensured(rs).leaf = Len(rs)
<1> DEFINE ss == [i \in 1..Len(rs) |-> [rs[i] EXCEPT !.branch = 1]]
<1>1. /\ Ensured(rs).rows = ss /\ Ensured(rs).known = <<[parent |-> 0, leaf |-> Len(rs)]>>
      /\ Ensured(rs).active = 1 /\ Ensured(rs).leaf = Len(rs)
  BY DEF Ensured
<1>2. 1 \in 0..MaxBranches
  BY Types
<1> DEFINE r(i) == [rs[i] EXCEPT !.branch = 1]
<1>3. ASSUME NEW i \in 1..Len(rs)
      PROVE  /\ r(i) \in Row /\ r(i).branch = 1 /\ r(i).key = rs[i].key
             /\ r(i).parent = rs[i].parent /\ r(i).revisionOf = rs[i].revisionOf
             /\ r(i).answers = rs[i].answers /\ r(i).strayed = rs[i].strayed
  <2>1. rs[i] \in Row
    OBVIOUS
  <2> QED
    BY <1>2, <2>1 DEF Row
<1>4. Len(rs) \in Nat
  OBVIOUS
<1>5. ss \in [1..Len(rs) -> Row]
  BY <1>3
<1>6. ss \in Seq(Row) /\ Len(ss) = Len(rs)
  BY <1>4, <1>5
<1>7. \A i \in 1..Len(rs) : ss[i] = r(i)
  OBVIOUS
<1> HIDE DEF ss, r
<1> QED
  BY <1>1, <1>3, <1>6, <1>7

LEMMA NewRowIsRow ==
  ASSUME BranchesTypeOK, NEW role \in {"user", "assistant"}, NEW key \in Keys \cup {noKey},
         NEW q \in 0..MaxMessages
  PROVE  /\ NewRow(role, key, q) \in Row
         /\ NewRow(role, key, q).role = role /\ NewRow(role, key, q).key = key
         /\ NewRow(role, key, q).branch = 0 /\ NewRow(role, key, q).parent = 0
         /\ NewRow(role, key, q).revisionOf = 0 /\ NewRow(role, key, q).answers = q
         /\ NewRow(role, key, q).strayed = (q \in moved)
<1>1. 0 \in 0..MaxBranches /\ 0 \in 0..MaxMessages
  BY Types
<1>2. (q \in moved) \in BOOLEAN
  OBVIOUS
<1> QED
  BY <1>1, <1>2 DEF NewRow, Row

(* rs with the row r behind it.                                            *)
LEMMA Appended ==
  ASSUME NEW R, NEW rs \in Seq(R), NEW r \in R
  PROVE  /\ Append(rs, r) \in Seq(R) /\ Len(Append(rs, r)) = Len(rs) + 1
         /\ Append(rs, r)[Len(rs) + 1] = r
         /\ \A i \in 1..Len(rs) : Append(rs, r)[i] = rs[i]
OBVIOUS

(* rs with two fields of its row m assigned, bs with the leaf of branch b. *)
Assign(rs, m, b, p) == [rs EXCEPT ![m].branch = b, ![m].parent = p]

SetLeaf(bs, b, m) == [bs EXCEPT ![b].leaf = m]

(* What they are afterwards.                                               *)
Reassigned(ss, rs, m, b, p) ==
    /\ ss \in Seq(Row) /\ Len(ss) = Len(rs)
    /\ ss[m].key = rs[m].key /\ ss[m].branch = b /\ ss[m].parent = p
    /\ ss[m].revisionOf = rs[m].revisionOf /\ ss[m].answers = rs[m].answers
    /\ ss[m].strayed = rs[m].strayed
    /\ \A i \in 1..Len(rs) : i # m => ss[i] = rs[i]

Extended(cs, bs, b, m) ==
    /\ cs \in Seq(Branch) /\ Len(cs) = Len(bs)
    /\ \A i \in 1..Len(bs) : /\ cs[i].parent = bs[i].parent
                             /\ cs[i].leaf = IF i = b THEN m ELSE bs[i].leaf

LEMMA Assigned ==
  ASSUME NEW rs \in Seq(Row), NEW m \in 1..Len(rs), NEW b \in 0..MaxBranches,
         NEW p \in 0..MaxMessages,
         NEW ss, ss = Assign(rs, m, b, p)
  PROVE  Reassigned(ss, rs, m, b, p)
<1> DEFINE r == [rs[m] EXCEPT !.branch = b, !.parent = p]
<1>1. rs \in [1..Len(rs) -> Row] /\ Len(rs) \in Nat
  OBVIOUS
<1>2. ss = [rs EXCEPT ![m] = r]
  BY <1>1 DEF Assign
<1>3. rs[m] \in Row
  BY <1>1
<1>4. /\ r \in Row /\ r.key = rs[m].key /\ r.branch = b /\ r.parent = p
      /\ r.revisionOf = rs[m].revisionOf /\ r.answers = rs[m].answers
      /\ r.strayed = rs[m].strayed
  BY <1>3 DEF Row
<1> HIDE DEF r
<1>5. [rs EXCEPT ![m] = r] \in [1..Len(rs) -> Row]
  BY <1>1, <1>4
<1>6. [rs EXCEPT ![m] = r] \in Seq(Row) /\ Len([rs EXCEPT ![m] = r]) = Len(rs)
  BY <1>1, <1>5
<1>7. [rs EXCEPT ![m] = r][m] = r /\ \A i \in 1..Len(rs) : i # m => [rs EXCEPT ![m] = r][i] = rs[i]
  BY <1>1
<1> QED
  BY <1>2, <1>4, <1>6, <1>7 DEF Reassigned

LEMMA LeafAssigned ==
  ASSUME NEW bs \in Seq(Branch), NEW b \in 1..Len(bs), NEW m \in 0..MaxMessages,
         NEW cs, cs = SetLeaf(bs, b, m)
  PROVE  Extended(cs, bs, b, m)
<1> DEFINE r == [bs[b] EXCEPT !.leaf = m]
<1>1. bs \in [1..Len(bs) -> Branch] /\ Len(bs) \in Nat
  OBVIOUS
<1>2. cs = [bs EXCEPT ![b] = r]
  BY <1>1 DEF SetLeaf
<1>3. bs[b] \in Branch
  BY <1>1
<1>4. r \in Branch /\ r.parent = bs[b].parent /\ r.leaf = m
  BY <1>3 DEF Branch
<1> HIDE DEF r
<1>5. [bs EXCEPT ![b] = r] \in [1..Len(bs) -> Branch]
  BY <1>1, <1>4
<1>6. [bs EXCEPT ![b] = r] \in Seq(Branch) /\ Len([bs EXCEPT ![b] = r]) = Len(bs)
  BY <1>1, <1>5
<1>7. [bs EXCEPT ![b] = r][b] = r /\ \A i \in 1..Len(bs) : i # b => [bs EXCEPT ![b] = r][i] = bs[i]
  BY <1>1
<1> QED
  BY <1>2, <1>4, <1>6, <1>7 DEF Extended

-----------------------------------------------------------------------------
(* What the operations do, in the terms of the proofs: a row is added,     *)
(* with the thread's leaf as its parent, or the default branch is created. *)

(* The rows and the branches once there is a default branch, of which      *)
(* every row is then part.                                                 *)
Founded ==
    branches = << >> =>
        /\ active' = 1 /\ Len(branches') = 1 /\ branches'[1].parent = 0
        /\ \A i \in 1..Len(messages') : messages'[i].branch = 1

(* What there was stays where it was.                                      *)
Settled ==
    branches # << >> =>
        /\ \A i \in Rows : messages'[i].branch = messages[i].branch
        /\ Len(branches) <= Len(branches')
        /\ \A b \in Known : branches'[b].parent = branches[b].parent

Typed ==
    /\ messages' \in Seq(Row) /\ branches' \in Seq(Branch)
    /\ Len(messages') <= MaxMessages /\ Len(branches') <= MaxBranches
    /\ active' \in 1..Len(branches')

LEMMA AttachEffect ==
  ASSUME BranchesTypeOK, Fresh, Room,
         NEW role \in {"user", "assistant"}, NEW key \in Keys \cup {noKey},
         NEW q \in 0..MaxMessages, Attach(Append(messages, NewRow(role, key, q)))
  PROVE  /\ Typed /\ Founded /\ Settled /\ Keeps(messages, messages')
         /\ Len(messages') = Len(messages) + 1 /\ leaf' = Len(messages) + 1
         /\ LET r == messages'[Len(messages) + 1]
            IN  /\ r.key = key /\ r.branch = active' /\ r.parent = leaf
                /\ r.revisionOf = 0 /\ r.answers = q /\ r.strayed = (q \in moved)
         /\ branches # << >> =>
              /\ active' = active /\ Len(branches') = Len(branches)
              /\ \A b \in Known : branches'[b].leaf = IF b = active THEN Len(messages) + 1
                                                      ELSE branches[b].leaf
         /\ branches = << >> => branches'[1].leaf = Len(messages) + 1
         /\ checkpoints' = checkpoints \cup
              {[kind |-> "auto", branch |-> active', message |-> Len(messages) + 1]}
<1> DEFINE n == Len(messages) + 1
           new == NewRow(role, key, q)
           rs == Append(messages, new)
           e == Ensured(rs)
<1>1. /\ messages \in Seq(Row) /\ Len(messages) \in Nat /\ n <= MaxMessages /\ n \in Nat
      /\ branches \in Seq(Branch) /\ Len(branches) \in Nat /\ Len(branches) <= MaxBranches
      /\ active \in 0..Len(branches) /\ leaf \in 0..Len(messages)
      /\ MaxMessages \in Nat /\ MaxBranches \in Nat /\ 1 <= MaxBranches
      /\ branches # << >> => Len(branches) # 0
  <2>1. Len(messages) < MaxMessages
    BY DEF Room
  <2> QED
    BY <2>1, Types
<1>2. /\ new \in Row /\ new.key = key /\ new.branch = 0 /\ new.parent = 0
      /\ new.revisionOf = 0 /\ new.answers = q /\ new.strayed = (q \in moved)
  BY NewRowIsRow
<1> HIDE DEF new
<1>3. /\ rs \in Seq(Row) /\ Len(rs) = n /\ rs[n] = new
      /\ \A i \in 1..Len(messages) : rs[i] = messages[i]
  BY <1>1, <1>2, Appended
<1>4. /\ messages' = [e.rows EXCEPT ![n].branch = e.active,
                                    ![n].parent = IF e.leaf = n THEN 0 ELSE e.leaf]
      /\ branches' = [e.known EXCEPT ![e.active].leaf = n]
      /\ active' = e.active /\ leaf' = n
      /\ checkpoints' = checkpoints \cup {[kind |-> "auto", branch |-> e.active, message |-> n]}
  BY <1>3 DEF Attach, new
<1> HIDE DEF rs
<1>5. CASE branches = << >>
  <2>1. active = 0 /\ leaf = 0
    BY <1>5 DEF Fresh
  <2>2. /\ e.rows \in Seq(Row) /\ Len(e.rows) = n
        /\ \A i \in 1..n : /\ e.rows[i].branch = 1 /\ e.rows[i].key = rs[i].key
                           /\ e.rows[i].parent = rs[i].parent
                           /\ e.rows[i].revisionOf = rs[i].revisionOf
                           /\ e.rows[i].answers = rs[i].answers
                           /\ e.rows[i].strayed = rs[i].strayed
        /\ e.known = <<[parent |-> 0, leaf |-> n]>>
        /\ e.active = 1 /\ e.leaf = n
    BY <1>3, <1>5, EnsuredFirst
  <2> HIDE DEF e
  <2>3. messages' = Assign(e.rows, n, 1, 0)
    BY <1>4, <2>2 DEF Assign
  <2>4. /\ messages' \in Seq(Row) /\ Len(messages') = n
        /\ messages'[n].key = e.rows[n].key /\ messages'[n].branch = 1
        /\ messages'[n].parent = 0 /\ messages'[n].revisionOf = e.rows[n].revisionOf
        /\ messages'[n].answers = e.rows[n].answers
        /\ messages'[n].strayed = e.rows[n].strayed
        /\ \A i \in 1..n : i # n => messages'[i] = e.rows[i]
    <3>1. n \in 1..Len(e.rows) /\ 1 \in 0..MaxBranches /\ 0 \in 0..MaxMessages
      BY <1>1, <2>2
    <3>2. Reassigned(messages', e.rows, n, 1, 0)
      BY <2>2, <2>3, <3>1, Assigned
    <3> QED
      BY <2>2, <3>2 DEF Reassigned
  <2>5. /\ branches' \in Seq(Branch) /\ Len(branches') = 1
        /\ branches'[1].parent = 0 /\ branches'[1].leaf = n
    <3>1. [parent |-> 0, leaf |-> n] \in Branch
      BY <1>1 DEF Branch
    <3>2. PICK bs : bs = <<[parent |-> 0, leaf |-> n]>>
      OBVIOUS
    <3>3. bs \in Seq(Branch) /\ Len(bs) = 1 /\ bs[1].parent = 0
      BY <3>1, <3>2
    <3>4. branches' = SetLeaf(bs, 1, n)
      BY <1>4, <2>2, <3>2 DEF SetLeaf
    <3>5. 1 \in 1..Len(bs) /\ n \in 0..MaxMessages
      BY <1>1, <3>3
    <3>6. Extended(branches', bs, 1, n)
      BY <3>3, <3>4, <3>5, LeafAssigned
    <3> QED
      BY <3>3, <3>6 DEF Extended
  <2>7. ASSUME NEW i \in 1..n
        PROVE  /\ messages'[i].branch = 1
               /\ messages'[i].key = rs[i].key
               /\ messages'[i].revisionOf = rs[i].revisionOf
               /\ messages'[i].answers = rs[i].answers
               /\ messages'[i].strayed = rs[i].strayed
               /\ i # n => messages'[i].parent = rs[i].parent
    <3>1. CASE i = n
      BY <2>2, <2>4, <3>1
    <3>2. CASE i # n
      BY <2>2, <2>4, <3>2
    <3> QED
      BY <3>1, <3>2
  <2>8. Keeps(messages, messages')
    <3>1. Len(messages) <= Len(messages')
      BY <1>1, <2>4
    <3>2. ASSUME NEW i \in 1..Len(messages)
          PROVE  i \in 1..n /\ i # n /\ rs[i] = messages[i]
      BY <1>1, <1>3
    <3> QED
      BY <2>7, <3>1, <3>2 DEF Keeps
  <2>9. messages'[n].parent = 0
    BY <2>4
  <2>10. n \in 1..n /\ 1 \in 1..1
    BY <1>1
  <2>11. /\ messages'[n].key = key /\ messages'[n].branch = 1 /\ messages'[n].parent = leaf
         /\ messages'[n].revisionOf = 0 /\ messages'[n].answers = q
         /\ messages'[n].strayed = (q \in moved)
    BY <1>2, <1>3, <2>1, <2>7, <2>9, <2>10
  <2>12. active' = 1 /\ leaf' = n
         /\ checkpoints' = checkpoints \cup {[kind |-> "auto", branch |-> active', message |-> n]}
    BY <1>4, <2>2
  <2>13. Typed
    BY <1>1, <2>4, <2>5, <2>10, <2>12 DEF Typed
  <2>14. Founded /\ Settled
    BY <1>5, <2>4, <2>5, <2>7, <2>12 DEF Founded, Settled
  <2> QED
    BY <1>5, <2>4, <2>5, <2>8, <2>11, <2>12, <2>13, <2>14
<1>6. CASE branches # << >>
  <2>1. active # 0
    BY <1>6 DEF Fresh
  <2>2. e.rows = rs /\ e.known = branches /\ e.active = active /\ e.leaf = leaf
    BY <1>6, EnsuredKnown
  <2> HIDE DEF e
  <2>3. (IF leaf = n THEN 0 ELSE leaf) = leaf
    BY <1>1
  <2>4. messages' = Assign(rs, n, active, leaf)
    BY <1>4, <2>2, <2>3 DEF Assign
  <2>5. /\ messages' \in Seq(Row) /\ Len(messages') = n
        /\ messages'[n].key = rs[n].key /\ messages'[n].branch = active
        /\ messages'[n].parent = leaf /\ messages'[n].revisionOf = rs[n].revisionOf
        /\ messages'[n].answers = rs[n].answers /\ messages'[n].strayed = rs[n].strayed
        /\ \A i \in 1..n : i # n => messages'[i] = rs[i]
    <3>1. n \in 1..Len(rs) /\ active \in 0..MaxBranches /\ leaf \in 0..MaxMessages
      BY <1>1, <1>3
    <3>2. Reassigned(messages', rs, n, active, leaf)
      BY <1>3, <2>4, <3>1, Assigned
    <3> QED
      BY <1>3, <3>2 DEF Reassigned
  <2>6. /\ branches' \in Seq(Branch) /\ Len(branches') = Len(branches)
        /\ \A b \in 1..Len(branches) :
             /\ branches'[b].parent = branches[b].parent
             /\ branches'[b].leaf = IF b = active THEN n ELSE branches[b].leaf
    <3>1. active \in 1..Len(branches) /\ n \in 0..MaxMessages
      BY <1>1, <2>1
    <3>2. branches' = SetLeaf(branches, active, n)
      BY <1>4, <2>2 DEF SetLeaf
    <3>3. Extended(branches', branches, active, n)
      BY <1>1, <3>1, <3>2, LeafAssigned
    <3> QED
      BY <3>3 DEF Extended
  <2>7. ASSUME NEW i \in 1..Len(messages)
        PROVE  messages'[i] = messages[i]
    <3>1. i \in 1..n /\ i # n
      BY <1>1
    <3> QED
      BY <1>3, <2>5, <3>1
  <2>8. Keeps(messages, messages')
    BY <1>1, <2>5, <2>7 DEF Keeps
  <2>9. /\ messages'[n].key = key /\ messages'[n].branch = active /\ messages'[n].parent = leaf
        /\ messages'[n].revisionOf = 0 /\ messages'[n].answers = q
        /\ messages'[n].strayed = (q \in moved)
    BY <1>2, <1>3, <2>5
  <2>10. active' = active /\ leaf' = n
         /\ checkpoints' = checkpoints \cup {[kind |-> "auto", branch |-> active', message |-> n]}
    BY <1>4, <2>2
  <2>11. Typed
    BY <1>1, <2>1, <2>5, <2>6, <2>10 DEF Typed
  <2>12. Founded /\ Settled
    <3>1. Founded
      BY <1>6 DEF Founded
    <3>2. Len(branches) <= Len(branches')
      BY <1>1, <2>6
    <3> QED
      BY <2>6, <2>7, <3>1, <3>2 DEF Settled, Rows, Known
  <2>13. \A b \in Known : branches'[b].leaf = IF b = active THEN n ELSE branches[b].leaf
    BY <2>6 DEF Known
  <2> QED
    BY <1>6, <2>5, <2>6, <2>8, <2>9, <2>10, <2>11, <2>12, <2>13
<1> QED
  BY <1>5, <1>6

(* ListBranches and CreateCheckpoint.                                      *)
LEMMA EnsureEffect ==
  ASSUME BranchesTypeOK, Fresh,
         messages' = Ensured(messages).rows, branches' = Ensured(messages).known,
         active' = Ensured(messages).active, leaf' = Ensured(messages).leaf
  PROVE  /\ Typed /\ Founded /\ Settled /\ Keeps(messages, messages')
         /\ Len(messages') = Len(messages)
         /\ branches # << >> => branches' = branches /\ active' = active /\ leaf' = leaf
         /\ branches = << >> => branches'[1].leaf = Len(messages) /\ leaf' = Len(messages)
<1>1. /\ messages \in Seq(Row) /\ Len(messages) \in Nat /\ Len(messages) <= MaxMessages
      /\ branches \in Seq(Branch) /\ Len(branches) \in Nat /\ Len(branches) <= MaxBranches
      /\ active \in 0..Len(branches) /\ MaxMessages \in Nat /\ MaxBranches \in Nat
      /\ 1 <= MaxBranches
      /\ branches # << >> => Len(branches) # 0
  BY Types
<1>2. CASE branches = << >>
  <2>1. /\ messages' \in Seq(Row) /\ Len(messages') = Len(messages)
        /\ \A i \in 1..Len(messages) : /\ messages'[i].branch = 1
                                       /\ messages'[i].key = messages[i].key
                                       /\ messages'[i].parent = messages[i].parent
                                       /\ messages'[i].revisionOf = messages[i].revisionOf
                                       /\ messages'[i].answers = messages[i].answers
                                       /\ messages'[i].strayed = messages[i].strayed
        /\ branches' = <<[parent |-> 0, leaf |-> Len(messages)]>>
        /\ active' = 1 /\ leaf' = Len(messages)
    BY <1>1, <1>2, EnsuredFirst
  <2>2. [parent |-> 0, leaf |-> Len(messages)] \in Branch
    BY <1>1 DEF Branch
  <2>3. /\ branches' \in Seq(Branch) /\ Len(branches') = 1
        /\ branches'[1].parent = 0 /\ branches'[1].leaf = Len(messages)
    BY <2>1, <2>2
  <2>5. Keeps(messages, messages')
    BY <1>1, <2>1 DEF Keeps
  <2>6. Typed
    <3>1. messages' \in Seq(Row) /\ Len(messages') <= MaxMessages
      BY <1>1, <2>1
    <3>2. active' \in 1..Len(branches') /\ Len(branches') <= MaxBranches
      BY <1>1, <2>1, <2>3
    <3> QED
      BY <2>3, <3>1, <3>2 DEF Typed
  <2>7. Founded /\ Settled
    BY <1>2, <2>1, <2>3 DEF Founded, Settled
  <2> QED
    BY <1>2, <2>1, <2>3, <2>5, <2>6, <2>7
<1>3. CASE branches # << >>
  <2>1. messages' = messages /\ branches' = branches /\ active' = active /\ leaf' = leaf
    BY <1>3, EnsuredKnown
  <2>2. active # 0
    BY <1>3 DEF Fresh
  <2>3. Typed
    BY <1>1, <2>1, <2>2 DEF Typed
  <2>4. Keeps(messages, messages')
    BY <1>1, <2>1 DEF Keeps
  <2>5. Founded /\ Settled
    BY <1>1, <1>3, <2>1 DEF Founded, Settled
  <2> QED
    BY <1>3, <2>1, <2>3, <2>4, <2>5
<1> QED
  BY <1>2, <1>3

LEMMA EditEffect ==
  ASSUME BranchesTypeOK, Fresh, OlderBranches, NEW m \in Rows, EditRetry(m)
  PROVE  /\ Typed /\ Settled /\ Keeps(messages, messages')
         /\ Len(messages') = Len(messages) + 1 /\ leaf' = Len(messages) + 1
         /\ active' = Len(branches')
         /\ LET r == messages'[Len(messages) + 1]
            IN  /\ r.key = messages[m].key /\ r.branch = active' /\ r.parent = messages[m].parent
                /\ r.revisionOf = m /\ r.answers = 0
         /\ branches'[active'].parent = messages'[m].branch
         /\ branches'[active'].leaf = Len(messages) + 1
         /\ branches # << >> =>
              /\ Len(branches') = Len(branches) + 1
              /\ \A b \in Known : branches'[b] = branches[b]
         /\ branches = << >> =>
              /\ Len(branches') = 2 /\ branches'[1].parent = 0
              /\ branches'[1].leaf = Len(messages)
              /\ \A i \in Rows : messages'[i].branch = 1
         /\ checkpoints' = checkpoints \cup
              {[kind |-> "auto", branch |-> active', message |-> Len(messages) + 1]}
         /\ asked' = asked \cup {Len(messages) + 1} /\ moved' = moved \cup asked
<1> DEFINE n == Len(messages) + 1
           e == Ensured(messages)
           b == Len(e.known) + 1
           new == [NewRow("user", messages[m].key, 0) EXCEPT
                     !.branch = b, !.parent = messages[m].parent, !.revisionOf = m]
           own == [parent |-> e.rows[m].branch, leaf |-> n]
<1>1. /\ messages \in Seq(Row) /\ Len(messages) \in Nat /\ n <= MaxMessages /\ n \in Nat
      /\ branches \in Seq(Branch) /\ Len(branches) \in Nat
      /\ MaxMessages \in Nat /\ MaxBranches \in Nat /\ m \in 1..Len(messages)
      /\ m \in 0..MaxMessages
  <2>1. Len(messages) < MaxMessages
    BY DEF EditRetry, Room
  <2>2. m \in 1..Len(messages)
    BY DEF Rows
  <2> QED
    BY <2>1, <2>2, Types
<1>2. /\ b <= MaxBranches /\ messages' = Append(e.rows, new) /\ branches' = Append(e.known, own)
      /\ active' = b /\ leaf' = n /\ asked' = asked \cup {n} /\ moved' = moved \cup asked
      /\ checkpoints' = checkpoints \cup {[kind |-> "auto", branch |-> b, message |-> n]}
  BY DEF EditRetry, ParentOfRevision, Moved
<1>3. /\ e.rows \in Seq(Row) /\ Len(e.rows) = Len(messages)
      /\ \A i \in 1..Len(messages) : /\ e.rows[i].key = messages[i].key
                                     /\ e.rows[i].parent = messages[i].parent
                                     /\ e.rows[i].revisionOf = messages[i].revisionOf
                                     /\ e.rows[i].answers = messages[i].answers
                                     /\ e.rows[i].strayed = messages[i].strayed
  <2>1. CASE branches = << >>
    BY <1>1, <2>1, EnsuredFirst
  <2>2. CASE branches # << >>
    BY <1>1, <2>2, EnsuredKnown
  <2> QED
    BY <2>1, <2>2
<1>4. /\ e.known \in Seq(Branch) /\ Len(e.known) \in Nat
      /\ branches # << >> => /\ e.known = branches
                             /\ \A i \in 1..Len(messages) : e.rows[i].branch = messages[i].branch
      /\ branches = << >> => /\ Len(e.known) = 1 /\ e.known[1].parent = 0
                             /\ e.known[1].leaf = Len(messages)
                             /\ \A i \in 1..Len(messages) : e.rows[i].branch = 1
  <2>1. CASE branches = << >>
    <3>1. /\ e.known = <<[parent |-> 0, leaf |-> Len(messages)]>>
          /\ \A i \in 1..Len(messages) : e.rows[i].branch = 1
      BY <1>1, <2>1, EnsuredFirst
    <3>2. [parent |-> 0, leaf |-> Len(messages)] \in Branch
      BY <1>1 DEF Branch
    <3>3. e.known \in Seq(Branch) /\ Len(e.known) = 1
      BY <3>1, <3>2
    <3>4. e.known[1].parent = 0 /\ e.known[1].leaf = Len(messages)
      BY <3>1
    <3> QED
      BY <2>1, <3>1, <3>3, <3>4
  <2>2. CASE branches # << >>
    BY <1>1, <2>2, EnsuredKnown
  <2> QED
    BY <2>1, <2>2
<1> HIDE DEF e
<1>5. new \in Row /\ new.key = messages[m].key /\ new.branch = b
      /\ new.parent = messages[m].parent /\ new.revisionOf = m /\ new.answers = 0
  <2>1. messages[m] \in Row
    BY <1>1
  <2>2. messages[m].key \in Keys \cup {noKey} /\ messages[m].parent \in 0..MaxMessages
    BY <2>1, RowFields
  <2>3. b \in 0..MaxBranches
    BY <1>1, <1>2, <1>4
  <2> DEFINE w == NewRow("user", messages[m].key, 0)
  <2>4. w \in Row /\ w.key = messages[m].key /\ w.answers = 0
    <3>1. "user" \in {"user", "assistant"} /\ 0 \in 0..MaxMessages
      BY <1>1
    <3> HIDE DEF b, new
    <3> QED
      BY ONLY BranchesTypeOK, <2>2, <3>1, NewRowIsRow
  <2> HIDE DEF w
  <2>5. new = [w EXCEPT !.branch = b, !.parent = messages[m].parent, !.revisionOf = m]
    BY DEF w
  <2> HIDE DEF new, b
  <2> QED
    BY <1>1, <2>2, <2>3, <2>4, <2>5 DEF Row
<1>6. own \in Branch /\ own.parent = e.rows[m].branch /\ own.leaf = n
  <2>1. e.rows[m] \in Row
    BY <1>1, <1>3
  <2>2. e.rows[m].branch \in 0..MaxBranches
    BY <2>1, RowFields
  <2> QED
    BY <1>1, <2>2 DEF Branch
<1> HIDE DEF new, own
<1>7. /\ messages' \in Seq(Row) /\ Len(messages') = n /\ messages'[n] = new
      /\ \A i \in 1..Len(messages) : messages'[i] = e.rows[i]
  <2>1. messages' = Append(e.rows, new) /\ e.rows \in Seq(Row) /\ new \in Row
    BY <1>2, <1>3, <1>5
  <2>2. /\ messages' \in Seq(Row) /\ Len(messages') = Len(e.rows) + 1
        /\ messages'[Len(e.rows) + 1] = new
        /\ \A i \in 1..Len(e.rows) : messages'[i] = e.rows[i]
    BY <2>1, Appended
  <2>3. Len(e.rows) = Len(messages)
    BY <1>3
  <2> QED
    BY <2>2, <2>3
<1>8. /\ branches' \in Seq(Branch) /\ Len(branches') = b /\ branches'[b] = own
      /\ \A i \in 1..Len(e.known) : branches'[i] = e.known[i]
  BY <1>2, <1>4, <1>6, Appended
<1>9. Typed
  <2>1. b \in 1..b
    BY <1>4
  <2> QED
    BY <1>1, <1>2, <1>7, <1>8, <2>1 DEF Typed
<1>10. Settled
  <2> SUFFICES ASSUME branches # << >>
               PROVE  /\ \A i \in Rows : messages'[i].branch = messages[i].branch
                      /\ Len(branches) <= Len(branches')
                      /\ \A c \in Known : branches'[c].parent = branches[c].parent
    BY DEF Settled
  <2>1. \A i \in Rows : messages'[i].branch = messages[i].branch
    BY <1>4, <1>7 DEF Rows
  <2>2. e.known = branches
    BY <1>4
  <2>3. Len(branches) <= Len(branches')
    BY <1>1, <1>8, <2>2
  <2>4. \A c \in Known : branches'[c].parent = branches[c].parent
    BY <1>8, <2>2 DEF Known
  <2> QED
    BY <2>1, <2>3, <2>4
<1>11. Keeps(messages, messages')
  BY <1>1, <1>3, <1>7 DEF Keeps
<1>12. branches'[active'].parent = messages'[m].branch /\ branches'[active'].leaf = n
  BY <1>1, <1>2, <1>6, <1>7, <1>8
<1>13. branches # << >> => /\ Len(branches') = Len(branches) + 1
                           /\ \A c \in Known : branches'[c] = branches[c]
  BY <1>4, <1>8 DEF Known
<1>14. branches = << >> => /\ Len(branches') = 2 /\ branches'[1].parent = 0
                           /\ branches'[1].leaf = Len(messages)
                           /\ \A i \in Rows : messages'[i].branch = 1
  <2> SUFFICES ASSUME branches = << >>
               PROVE  /\ Len(branches') = 2 /\ branches'[1].parent = 0
                      /\ branches'[1].leaf = Len(messages)
                      /\ \A i \in Rows : messages'[i].branch = 1
    OBVIOUS
  <2>1. Len(e.known) = 1 /\ e.known[1].parent = 0 /\ e.known[1].leaf = Len(messages)
    BY <1>4
  <2>2. branches'[1] = e.known[1] /\ Len(branches') = 2
    BY <1>8, <2>1
  <2>3. \A i \in Rows : messages'[i].branch = 1
    BY <1>4, <1>7 DEF Rows
  <2> QED
    BY <2>1, <2>2, <2>3
<1>15. /\ messages'[n].key = messages[m].key /\ messages'[n].branch = active'
       /\ messages'[n].parent = messages[m].parent
       /\ messages'[n].revisionOf = m /\ messages'[n].answers = 0
  BY <1>2, <1>5, <1>7
<1>16. active' = Len(branches')
  BY <1>2, <1>8
<1>17. checkpoints' = checkpoints \cup {[kind |-> "auto", branch |-> active', message |-> n]}
  BY <1>2
<1> HIDE DEF b
<1> QED
  BY <1>2, <1>7, <1>9, <1>10, <1>11, <1>12, <1>13, <1>14, <1>15, <1>16, <1>17

-----------------------------------------------------------------------------
(* What a step does to the rows, and the parts of the invariant that are   *)
(* about rows alone.                                                       *)

(* What a new row may be: below a row there is; a revision next to its     *)
(* original; the first of its key; the reply to a question that waits, at  *)
(* the end of the visible history.                                         *)
NewFits(r) ==
    /\ r.parent \in 0..Len(messages)
    /\ r.revisionOf # 0 => /\ r.revisionOf \in Rows
                           /\ r.parent = messages[r.revisionOf].parent
                           /\ r.branch # messages'[r.revisionOf].branch
    /\ (r.revisionOf = 0 /\ r.key # noKey) => \A i \in Rows : messages[i].key # r.key
    /\ r.answers # 0 => /\ r.answers \in asked /\ r.answers \notin asked'
                        /\ r.parent = leaf
                        /\ ~r.strayed => r.answers \notin moved

RowStep ==
    /\ messages' \in Seq(Row) /\ Keeps(messages, messages')
    /\ branches # << >> => \A i \in Rows : messages'[i].branch = messages[i].branch
    /\ \/ Len(messages') = Len(messages) /\ asked' \subseteq asked
       \/ /\ Len(messages') = Len(messages) + 1 /\ NewFits(messages'[Len(messages) + 1])
          /\ asked' \subseteq asked \cup {Len(messages) + 1}

LEMMA IsTree ==
  ASSUME MaxMessages \in Nat, NEW rs \in Seq(Row), \A m \in 1..Len(rs) : rs[m].parent < m
  PROVE  Tree(rs)
<1>1. ASSUME NEW m \in 1..Len(rs)
      PROVE  rs[m].parent \in 0..(m - 1)
  <2>1. rs[m] \in Row
    OBVIOUS
  <2>2. rs[m].parent \in 0..MaxMessages
    BY <2>1, RowFields
  <2> QED
    BY <2>2
<1>2. Len(rs) \in Nat
  OBVIOUS
<1> QED
  BY <1>1, <1>2 DEF Tree

(* The tree grows at its leaves.                                           *)
LEMMA TreeStep ==
  ASSUME BranchesTypeOK, HistoryIsATree, RowStep
  PROVE  /\ Tree(messages) /\ Tree(messages') /\ HistoryIsATree'
         /\ \A m \in 0..Len(messages) : /\ History(messages', m) = History(messages, m)
                                        /\ On(messages', m) = On(messages, m)
         /\ Len(messages') # Len(messages) =>
              On(messages', Len(messages) + 1) =
                On(messages, messages'[Len(messages) + 1].parent) \cup {Len(messages) + 1}
<1> DEFINE n == Len(messages) + 1
<1>1. /\ messages \in Seq(Row) /\ Len(messages) \in Nat /\ MaxMessages \in Nat
      /\ messages' \in Seq(Row) /\ Len(messages') \in Nat
      /\ \A m \in 1..Len(messages) : messages[m].parent < m
  <2>1. messages' \in Seq(Row)
    BY DEF RowStep
  <2>2. Len(messages') \in Nat
    BY <2>1
  <2> QED
    BY <2>1, <2>2, Types DEF HistoryIsATree, Rows
<1>2. Tree(messages)
  BY <1>1, IsTree
<1>3. ASSUME NEW m \in 1..Len(messages')
      PROVE  messages'[m].parent < m
  <2>1. CASE m \in 1..Len(messages)
    BY <1>1, <2>1 DEF RowStep, Keeps
  <2>2. CASE m \notin 1..Len(messages)
    <3>1. m = n /\ Len(messages') = n
      BY <1>1, <2>2 DEF RowStep
    <3>2. NewFits(messages'[n])
      BY <1>1, <3>1 DEF RowStep
    <3>3. messages'[n].parent \in 0..Len(messages)
      BY <3>2 DEF NewFits
    <3> QED
      BY <1>1, <3>1, <3>3
  <2> QED
    BY <2>1, <2>2
<1>4. Tree(messages')
  BY <1>1, <1>3, IsTree
<1>5. HistoryIsATree'
  BY <1>3 DEF HistoryIsATree, Rows
<1>6. Extends(messages, messages')
  BY DEF RowStep, Keeps, Extends
<1>7. ASSUME NEW m \in 0..Len(messages)
      PROVE  History(messages', m) = History(messages, m) /\ On(messages', m) = On(messages, m)
  BY <1>2, <1>4, <1>6, HistoryStable
<1>8. ASSUME Len(messages') # Len(messages)
      PROVE  On(messages', n) = On(messages, messages'[n].parent) \cup {n}
  <2>1. Len(messages') = n /\ NewFits(messages'[n])
    BY <1>8 DEF RowStep
  <2>2. messages'[n].parent \in 0..Len(messages) /\ n \in 1..Len(messages')
    BY <1>1, <2>1 DEF NewFits
  <2>3. On(messages', n) = On(messages', messages'[n].parent) \cup {n}
    BY <1>4, <2>2, OnStep
  <2> QED
    BY <1>7, <2>2, <2>3
<1> QED
  BY <1>2, <1>4, <1>5, <1>7, <1>8

(* A row after the step: one there was, or the new one.                    *)
LEMMA RowsAfter ==
  ASSUME BranchesTypeOK, RowStep, NEW i \in 1..Len(messages')
  PROVE  \/ /\ i \in Rows /\ i \in 1..Len(messages)
            /\ messages'[i].key = messages[i].key
            /\ messages'[i].parent = messages[i].parent
            /\ messages'[i].revisionOf = messages[i].revisionOf
            /\ messages'[i].answers = messages[i].answers
            /\ messages'[i].strayed = messages[i].strayed
            /\ branches # << >> => messages'[i].branch = messages[i].branch
         \/ /\ i = Len(messages) + 1 /\ Len(messages') = Len(messages) + 1
            /\ NewFits(messages'[i])
<1>1. Len(messages) \in Nat
  BY Types
<1>2. CASE i \in 1..Len(messages)
  BY <1>1, <1>2 DEF RowStep, Keeps, Rows
<1>3. CASE i \notin 1..Len(messages)
  <2>1. Len(messages') = Len(messages) + 1 /\ i = Len(messages) + 1
    BY <1>1, <1>3 DEF RowStep
  <2> QED
    BY <1>1, <2>1 DEF RowStep
<1> QED
  BY <1>2, <1>3

LEMMA OneRowStep ==
  ASSUME BranchesTypeOK, OneRow, RowStep
  PROVE  OneRow'
<1> SUFFICES ASSUME NEW a \in 1..Len(messages'), NEW b \in 1..Len(messages'),
                    messages'[a].key = messages'[b].key, messages'[a].key # noKey,
                    messages'[a].revisionOf = 0, messages'[b].revisionOf = 0
             PROVE  a = b
  BY DEF OneRow, Rows
<1>1. CASE a \in Rows /\ b \in Rows
  <2>1. a # Len(messages) + 1 /\ b # Len(messages) + 1
    BY <1>1, Types DEF Rows
  <2> QED
    BY <1>1, <2>1, RowsAfter DEF OneRow
<1>2. CASE a \notin Rows
  <2>1. a = Len(messages) + 1 /\ NewFits(messages'[a])
    BY <1>2, RowsAfter
  <2>2. \A i \in Rows : messages[i].key # messages'[a].key
    BY <2>1 DEF NewFits
  <2>3. CASE b \in Rows
    <3>1. messages'[b].key = messages[b].key
      BY <2>3, Types, RowsAfter DEF Rows
    <3> QED
      BY <2>2, <2>3, <3>1
  <2>4. CASE b \notin Rows
    BY <2>1, <2>4, RowsAfter
  <2> QED
    BY <2>3, <2>4
<1>3. CASE a \in Rows /\ b \notin Rows
  <2>1. NewFits(messages'[b])
    BY <1>3, RowsAfter
  <2>2. \A i \in Rows : messages[i].key # messages'[b].key
    BY <2>1 DEF NewFits
  <2>3. messages'[a].key = messages[a].key
    BY <1>3, Types, RowsAfter DEF Rows
  <2> QED
    BY <1>3, <2>2, <2>3
<1> QED
  BY <1>1, <1>2, <1>3

LEMMA OneReplyStep ==
  ASSUME BranchesTypeOK, OneReply, RowStep
  PROVE  OneReply'
<1> DEFINE n == Len(messages) + 1
           An(i) == messages'[i].answers
<1>1. Len(messages) \in Nat /\ asked \subseteq 1..Len(messages)
  BY Types DEF BranchesTypeOK, Rows
<1>2. asked' \subseteq asked \cup {n}
  BY DEF RowStep
<1>3. ASSUME NEW i \in 1..Len(messages'), An(i) # 0
      PROVE  \/ /\ i \in Rows /\ messages[i].answers = An(i)
                /\ An(i) < i /\ An(i) \notin asked
             \/ /\ i = n /\ Len(messages') = n
                /\ An(i) \in asked /\ An(i) \notin asked'
  <2>1. CASE i \in Rows
    <3>1. messages[i].answers = An(i)
      BY <1>1, <2>1, RowsAfter DEF Rows
    <3> QED
      BY <1>3, <2>1, <3>1 DEF OneReply
  <2>2. CASE i \notin Rows
    <3>1. i = n /\ Len(messages') = n /\ NewFits(messages'[i])
      BY <2>2, RowsAfter
    <3> QED
      BY <1>3, <3>1 DEF NewFits
  <2> QED
    BY <2>1, <2>2
<1>4. ASSUME NEW i \in 1..Len(messages'), An(i) # 0
      PROVE  An(i) < i /\ An(i) \notin asked'
  <2>1. CASE i \in Rows /\ An(i) < i /\ An(i) \notin asked
    <3>1. An(i) # n
      <4>1. An(i) < i /\ i <= Len(messages) /\ i \in Nat
        BY <1>1, <2>1 DEF Rows
      <4>2. messages'[i] \in Row
        BY DEF RowStep
      <4>3. An(i) \in 0..MaxMessages
        BY <4>2, RowFields
      <4> QED
        BY <1>1, <4>1, <4>3, Types
    <3> QED
      BY <1>2, <2>1, <3>1
  <2>2. CASE i = n /\ An(i) \in asked /\ An(i) \notin asked'
    <3> HIDE DEF An
    <3>1. An(i) \in 1..Len(messages)
      BY <1>1, <2>2
    <3>2. An(i) < i
      BY ONLY <1>1, <2>2, <3>1
    <3> QED
      BY <2>2, <3>2
  <2> QED
    BY <1>3, <1>4, <2>1, <2>2
<1>5. ASSUME NEW i \in 1..Len(messages'), NEW j \in 1..Len(messages'),
             An(i) # 0, An(j) = An(i)
      PROVE  i = j
  <2>1. CASE i \in Rows /\ j \in Rows /\ messages[i].answers = An(i) /\ messages[j].answers = An(j)
    BY <1>5, <2>1 DEF OneReply
  <2> HIDE DEF An
  <2> QED
    BY <1>3, <1>5, <2>1
<1> QED
  BY <1>4, <1>5 DEF OneReply, Rows

LEMMA FollowsStep ==
  ASSUME BranchesTypeOK, HistoryIsATree, AskedInSight, Follows, RowStep
  PROVE  Follows'
<1> DEFINE n == Len(messages) + 1
<1>1. Len(messages) \in Nat
  BY Types
<1> SUFFICES ASSUME NEW a \in 1..Len(messages'), messages'[a].answers # 0,
                    ~messages'[a].strayed
             PROVE  messages'[a].answers \in On(messages', a)
  BY DEF Follows, Rows
<1>2. CASE a \in Rows
  <2>1. messages'[a].answers = messages[a].answers /\ messages'[a].strayed = messages[a].strayed
    BY <1>1, <1>2, RowsAfter DEF Rows
  <2>2. messages[a].answers \in On(messages, a)
    BY <1>2, <2>1 DEF Follows
  <2>3. On(messages', a) = On(messages, a)
    BY <1>1, <1>2, TreeStep DEF Rows
  <2> QED
    BY <2>1, <2>2, <2>3
<1>3. CASE a \notin Rows
  <2>1. a = n /\ Len(messages') = n /\ NewFits(messages'[a])
    BY <1>3, RowsAfter
  <2>2. messages'[a].answers \in asked \ moved /\ messages'[a].parent = leaf
    BY <2>1 DEF NewFits
  <2>3. messages'[a].answers \in On(messages, leaf)
    BY <2>2 DEF AskedInSight
  <2>4. On(messages', n) = On(messages, leaf) \cup {n}
    BY <1>1, <2>1, <2>2, TreeStep
  <2> QED
    BY <2>1, <2>3, <2>4
<1> QED
  BY <1>2, <1>3

LEMMA RevisionsStep ==
  ASSUME BranchesTypeOK, HistoryIsATree, Fresh, Revisions, RowStep
  PROVE  Revisions'
<1> DEFINE n == Len(messages) + 1
<1>1. Len(messages) \in Nat
  BY Types
<1> SUFFICES ASSUME NEW e \in 1..Len(messages'), messages'[e].revisionOf # 0
             PROVE  LET m == messages'[e].revisionOf
                    IN  /\ m < e /\ messages'[e].parent = messages'[m].parent
                        /\ messages'[e].branch # messages'[m].branch
                        /\ \A k \in 1..Len(messages') : ~({e, m} \subseteq On(messages', k))
  BY DEF Revisions, Rows
<1> DEFINE m == messages'[e].revisionOf
<1>2. CASE e \in Rows
  <2>1. /\ messages[e].revisionOf = m /\ messages[e].parent = messages'[e].parent
        /\ e \in 1..Len(messages)
    BY <1>1, <1>2, RowsAfter DEF Rows
  <2>2. branches # << >>
    BY <1>2, <2>1 DEF Fresh
  <2>3. /\ m < e /\ messages[e].parent = messages[m].parent
        /\ messages[e].branch # messages[m].branch
        /\ \A k \in Rows : ~({e, m} \subseteq On(messages, k))
    BY <1>2, <2>1 DEF Revisions
  <2>4. m \in 1..Len(messages) /\ m \in Rows
    <3>1. messages[e] \in Row
      BY <2>1, Types
    <3>2. m \in 0..MaxMessages
      BY <2>1, <3>1, RowFields
    <3> QED
      BY <1>1, <2>1, <2>3, <3>2, Types DEF Rows
  <2>5. messages'[m].parent = messages[m].parent /\ messages'[m].branch = messages[m].branch
    <3>1. m \in 1..Len(messages')
      BY <1>1, <2>4 DEF RowStep, Keeps
    <3> QED
      BY <1>1, <2>2, <2>4, <3>1 DEF RowStep, Keeps
  <2>6. messages'[e].branch = messages[e].branch
    BY <1>2, <2>2 DEF RowStep
  <2>7. ASSUME NEW k \in 0..Len(messages)
        PROVE  ~({e, m} \subseteq On(messages, k))
    <3>1. CASE k = 0
      <4>1. On(messages, 0) = {}
        BY TreeStep, OnStep
      <4> QED
        BY <3>1, <4>1
    <3>2. CASE k # 0
      BY <1>1, <2>3, <3>2 DEF Rows
    <3> QED
      BY <3>1, <3>2
  <2>8. ASSUME NEW k \in 1..Len(messages')
        PROVE  ~({e, m} \subseteq On(messages', k))
    <3>1. CASE k \in Rows
      <4>1. k \in 0..Len(messages)
        BY <1>1, <3>1 DEF Rows
      <4> QED
        BY <2>7, <4>1, TreeStep
    <3>2. CASE k \notin Rows
      <4> DEFINE p == messages'[k].parent
      <4>1. k = n /\ Len(messages') = n /\ NewFits(messages'[k])
        BY <3>2, RowsAfter
      <4>2. p \in 0..Len(messages)
        BY <4>1 DEF NewFits
      <4>3. On(messages', k) = On(messages, p) \cup {n}
        BY <1>1, <4>1, TreeStep
      <4>4. e # n /\ m # n
        BY <1>1, <2>1, <2>4
      <4> QED
        BY <2>7, <4>2, <4>3, <4>4
    <3> QED
      BY <3>1, <3>2
  <2> QED
    BY <2>1, <2>3, <2>5, <2>6, <2>8
<1>3. CASE e \notin Rows
  <2>1. e = n /\ Len(messages') = n /\ NewFits(messages'[e])
    BY <1>3, RowsAfter
  <2>2. /\ m \in Rows /\ messages'[e].parent = messages[m].parent
        /\ messages'[e].branch # messages'[m].branch
    BY <2>1 DEF NewFits
  <2>3. m \in 1..Len(messages) /\ m < e
    BY <1>1, <2>1, <2>2 DEF Rows
  <2>4. messages'[m].parent = messages[m].parent
    BY <2>3 DEF RowStep, Keeps
  <2>5. messages[m].parent \in 0..Len(messages) /\ messages[m].parent < m
    BY <1>1, <2>3, TreeStep DEF Tree
  <2>6. ASSUME NEW k \in 1..Len(messages')
        PROVE  ~({e, m} \subseteq On(messages', k))
    <3>1. CASE k \in Rows
      <4>1. k \in 0..Len(messages) /\ k <= Len(messages)
        BY <1>1, <3>1 DEF Rows
      <4>2. On(messages', k) = On(messages, k) /\ On(messages, k) \subseteq 1..k
        BY <4>1, TreeStep, OnStep
      <4>3. e \notin 1..k
        BY <1>1, <2>1, <4>1
      <4> QED
        BY <4>2, <4>3
    <3>2. CASE k \notin Rows
      <4>1. k = n
        BY <3>2, RowsAfter
      <4>2. On(messages', k) = On(messages, messages[m].parent) \cup {n}
        BY <1>1, <2>1, <2>2, <4>1, TreeStep
      <4>3. On(messages, messages[m].parent) \subseteq 1..messages[m].parent
        BY <2>5, TreeStep, OnStep
      <4>4. m \notin 1..messages[m].parent /\ m # n
        BY <1>1, <2>3, <2>5
      <4> QED
        BY <4>2, <4>3, <4>4
    <3> QED
      BY <3>1, <3>2
  <2> QED
    BY <2>2, <2>3, <2>4, <2>6
<1> QED
  BY <1>2, <1>3

(* All that is about rows alone.                                           *)
LEMMA RowsPart ==
  ASSUME VersionInv, RowStep
  PROVE  HistoryIsATree' /\ Revisions' /\ Follows' /\ OneRow' /\ OneReply'
<1>1. HistoryIsATree'
  BY TreeStep DEF VersionInv
<1>2. Revisions'
  BY RevisionsStep DEF VersionInv
<1>3. Follows'
  BY FollowsStep DEF VersionInv
<1>4. OneRow'
  BY OneRowStep DEF VersionInv
<1>5. OneReply'
  BY OneReplyStep DEF VersionInv
<1> QED
  BY <1>1, <1>2, <1>3, <1>4, <1>5

-----------------------------------------------------------------------------
(* What a step does to the branches.                                       *)

LEMMA IsDescent ==
  ASSUME MaxBranches \in Nat, NEW bs \in Seq(Branch), \A b \in 1..Len(bs) : bs[b].parent < b
  PROVE  Descends(bs)
<1>1. ASSUME NEW b \in 1..Len(bs)
      PROVE  bs[b].parent \in 0..(b - 1)
  <2>1. bs[b] \in Branch
    OBVIOUS
  <2>2. bs[b].parent \in 0..MaxBranches
    BY <2>1, BranchFields
  <2> QED
    BY <2>2
<1>2. Len(bs) \in Nat
  OBVIOUS
<1> QED
  BY <1>1, <1>2 DEF Descends

(* A branch is of its own lineage, and so are those it descends from.      *)
LEMMA OwnLineage ==
  ASSUME NEW bs, Descends(bs), NEW b \in 1..Len(bs)
  PROVE  b \in Ancestors(bs, b) /\ Ancestors(bs, bs[b].parent) \subseteq Ancestors(bs, b)
BY LineageStep

(* A pointer that kept to its branch still does.                           *)
LEMMA StillFits ==
  ASSUME BranchesTypeOK, OlderBranches, branches # << >>, Descends(branches'),
         Settled, Keeps(messages, messages'),
         NEW b \in 0..Len(branches), NEW m \in 0..Len(messages), Fits(messages, branches, b, m)
  PROVE  Fits(messages', branches', b, m)
<1>1. CASE m = 0
  BY <1>1 DEF Fits
<1>2. CASE m # 0
  <2>1. Descends(branches)
    BY Types, IsDescent DEF OlderBranches, Known
  <2>2. m \in Rows
    BY <1>2, Types DEF Rows
  <2>3. messages'[m].branch = messages[m].branch
    BY <2>2 DEF Settled
  <2>4. Len(branches) <= Len(branches') /\ \A c \in 1..Len(branches) : branches'[c].parent = branches[c].parent
    BY DEF Settled, Known
  <2>5. Ancestors(branches', b) = Ancestors(branches, b)
    BY <2>1, <2>4, LineageStable
  <2> QED
    BY <1>2, <2>3, <2>5 DEF Fits
<1> QED
  BY <1>1, <1>2

LEMMA LeafThere ==
  ASSUME BranchesTypeOK, OlderBranches, NEW b \in Known
  PROVE  branches[b].leaf \in 0..Len(messages) /\ branches[b].parent \in 0..Len(branches)
<1>1. branches[b] \in Branch /\ b \in 1..Len(branches)
  BY Types DEF Known
<1>2. branches[b].leaf \in 0..MaxMessages /\ branches[b].parent \in 0..MaxBranches
  BY <1>1, BranchFields
<1>3. branches[b].leaf <= Len(messages) /\ branches[b].parent < b
  BY DEF OlderBranches
<1> QED
  BY <1>1, <1>2, <1>3, Types

(* The type, once there is a branch.                                       *)
LEMMA TypeStep ==
  ASSUME BranchesTypeOK, Fresh, Typed, Settled, Len(messages) <= Len(messages'),
         leaf' \in 0..Len(messages'), asked' \subseteq 1..Len(messages'), moved' \subseteq asked',
         \A c \in checkpoints' :
            \/ c \in checkpoints
            \/ c \in [kind : {"auto", "manual"}, branch : 1..Len(branches'), message : 0..Len(messages')]
  PROVE  BranchesTypeOK' /\ Fresh'
<1>1. /\ messages' \in Seq(Row) /\ branches' \in Seq(Branch)
      /\ Len(messages') <= MaxMessages /\ Len(branches') <= MaxBranches
      /\ active' \in 1..Len(branches') /\ Len(branches') \in Nat /\ Len(messages') \in Nat
  BY DEF Typed
<1>2. /\ Len(messages) \in Nat /\ Len(branches) \in Nat
      /\ checkpoints \subseteq [kind : {"auto", "manual"}, branch : 1..Len(branches),
                                message : 0..Len(messages)]
  BY Types DEF BranchesTypeOK, Known
<1>3. checkpoints' \subseteq [kind : {"auto", "manual"}, branch : 1..Len(branches'),
                              message : 0..Len(messages')]
  <2> SUFFICES ASSUME NEW c \in checkpoints'
               PROVE  c \in [kind : {"auto", "manual"}, branch : 1..Len(branches'),
                             message : 0..Len(messages')]
    OBVIOUS
  <2>1. CASE c \in checkpoints
    <3>1. branches # << >>
      BY <2>1 DEF Fresh
    <3>2. Len(branches) <= Len(branches')
      BY <3>1 DEF Settled
    <3>3. 1..Len(branches) \subseteq 1..Len(branches') /\ 0..Len(messages) \subseteq 0..Len(messages')
      BY <1>1, <1>2, <3>2
    <3>4. c \in [kind : {"auto", "manual"}, branch : 1..Len(branches), message : 0..Len(messages)]
      BY <1>2, <2>1
    <3> QED
      BY <3>3, <3>4
  <2> QED
    BY <2>1
<1>4. active' \in 0..Len(branches') /\ active' # 0 /\ branches' # << >>
  <2>1. active' \in 0..Len(branches') /\ active' # 0 /\ Len(branches') # 0
    BY <1>1
  <2> QED
    BY <2>1
<1>5. BranchesTypeOK'
  BY <1>1, <1>3, <1>4 DEF BranchesTypeOK, Branch, Rows, Known
<1>6. Fresh'
  BY <1>4 DEF Fresh
<1> QED
  BY <1>5, <1>6

-----------------------------------------------------------------------------
(* The steps.                                                              *)

(* A message that is attached: a post, a reply, a notice.                  *)
LEMMA AttachStep ==
  ASSUME VersionInv, Room, NEW role \in {"user", "assistant"}, NEW key \in Keys \cup {noKey},
         NEW q \in 0..MaxMessages, Attach(Append(messages, NewRow(role, key, q))),
         q # 0 => q \in asked /\ q \notin asked',
         key # noKey => \A i \in Rows : messages[i].key # key,
         asked' \subseteq asked \cup {Len(messages) + 1}, moved' \subseteq asked',
         asked' \ moved' \subseteq (asked \ moved) \cup {Len(messages) + 1}
  PROVE  VersionInv' /\ Keeps(messages, messages')
<1> DEFINE n == Len(messages) + 1
           r == messages'[n]
<1>1. /\ Typed /\ Founded /\ Settled /\ Keeps(messages, messages')
      /\ Len(messages') = n /\ leaf' = n
      /\ r.key = key /\ r.branch = active' /\ r.parent = leaf
      /\ r.revisionOf = 0 /\ r.answers = q /\ r.strayed = (q \in moved)
      /\ branches = << >> => branches'[1].leaf = n
      /\ checkpoints' = checkpoints \cup {[kind |-> "auto", branch |-> active', message |-> n]}
  BY AttachEffect DEF VersionInv
<1>2. branches # << >> =>
        /\ active' = active /\ Len(branches') = Len(branches)
        /\ \A b \in Known : branches'[b].leaf = IF b = active THEN n ELSE branches[b].leaf
  BY AttachEffect DEF VersionInv
<1>3. /\ Len(messages) \in Nat /\ leaf \in 0..Len(messages) /\ Len(branches) \in Nat
      /\ active \in 0..Len(branches) /\ asked \subseteq 1..Len(messages)
      /\ branches' \in Seq(Branch) /\ Len(branches') \in Nat /\ active' \in 1..Len(branches')
      /\ MaxBranches \in Nat
  BY SMTT(30), <1>1, Types DEF VersionInv, BranchesTypeOK, Rows, Typed
<1>4. RowStep
  <2>1. NewFits(r)
    <3>1. r.answers # 0 => /\ r.answers \in asked /\ r.answers \notin asked'
                           /\ r.parent = leaf
                           /\ ~r.strayed => r.answers \notin moved
      BY <1>1
    <3>2. (r.revisionOf = 0 /\ r.key # noKey) => \A i \in Rows : messages[i].key # r.key
      BY <1>1
    <3> QED
      BY <1>1, <1>3, <3>1, <3>2 DEF NewFits
  <2>2. branches # << >> => \A i \in Rows : messages'[i].branch = messages[i].branch
    BY <1>1 DEF Settled
  <2>3. messages' \in Seq(Row)
    BY <1>1 DEF Typed
  <2> QED
    BY <1>1, <2>1, <2>2, <2>3 DEF RowStep
<1>5. HistoryIsATree' /\ Revisions' /\ Follows' /\ OneRow' /\ OneReply'
  BY <1>4, RowsPart
<1>6. BranchesTypeOK' /\ Fresh'
  <2>1. asked' \subseteq 1..Len(messages')
    <3>1. Len(messages') = Len(messages) + 1 /\ asked' \subseteq asked \cup {Len(messages) + 1}
      BY <1>1
    <3> QED
      BY <1>3, <3>1
  <2>2. [kind |-> "auto", branch |-> active', message |-> n]
          \in [kind : {"auto", "manual"}, branch : 1..Len(branches'), message : 0..Len(messages')]
    BY <1>1, <1>3
  <2>3. Len(messages) <= Len(messages') /\ leaf' \in 0..Len(messages')
    BY <1>1, <1>3
  <2>4. \A c \in checkpoints' : c \in checkpoints \/ c = [kind |-> "auto", branch |-> active', message |-> n]
    BY <1>1
  <2> QED
    BY <1>1, <2>1, <2>2, <2>3, <2>4, TypeStep DEF VersionInv
<1>7. OlderBranches'
  <2>1. ASSUME NEW b \in 1..Len(branches')
        PROVE  branches'[b].parent < b /\ branches'[b].leaf <= Len(messages')
    <3>1. CASE branches = << >>
      <4>1. Len(branches') = 1 /\ branches'[1].parent = 0
        BY <1>1, <3>1 DEF Founded
      <4>2. b = 1
        BY <4>1
      <4> QED
        BY <1>1, <1>3, <3>1, <4>1, <4>2
    <3>2. CASE branches # << >>
      <4>1. b \in Known /\ branches'[b].parent = branches[b].parent
        BY <1>1, <1>2, <3>2 DEF Settled, Known
      <4>2. branches[b].parent < b /\ branches[b].leaf <= Len(messages)
        BY <4>1 DEF VersionInv, OlderBranches
      <4>4. branches[b].leaf \in 0..Len(messages)
        BY <4>1, LeafThere DEF VersionInv
      <4>5. branches'[b].leaf = n \/ branches'[b].leaf = branches[b].leaf
        BY <1>2, <3>2, <4>1
      <4> QED
        BY <1>1, <1>3, <4>1, <4>2, <4>4, <4>5
    <3> QED
      BY <3>1, <3>2
  <2>2. ASSUME NEW m \in 1..Len(messages')
        PROVE  messages'[m].branch <= Len(branches')
    <3>1. CASE branches = << >>
      <4>0. Founded
        BY <1>1
      <4>1. messages'[m].branch = 1 /\ Len(branches') = 1
        BY <3>1, <4>0 DEF Founded
      <4> QED
        BY <4>1
    <3>2. CASE branches # << >> /\ m \in Rows
      BY <1>1, <1>2, <3>2 DEF Settled, VersionInv, OlderBranches
    <3>3. CASE m \notin Rows
      <4>1. m = n
        BY <1>1, <1>3, <3>3 DEF Rows
      <4> QED
        BY <1>1, <1>3, <4>1
    <3> QED
      BY <3>1, <3>2, <3>3
  <2> QED
    BY <2>1, <2>2 DEF OlderBranches, Rows, Known
<1>8. Pointers'
  <2>1. Descends(branches')
    BY <1>3, <1>7, IsDescent DEF OlderBranches, Known
  <2>2. ASSUME NEW b \in 1..Len(branches'), NEW m \in 0..Len(messages'),
               m # 0 => messages'[m].branch = b
        PROVE  Fits(messages', branches', b, m)
    BY <2>1, <2>2, OwnLineage DEF Fits
  <2>3. Fits(messages', branches', active', leaf') /\ n \in 0..Len(messages')
    BY <1>1, <1>3, <2>2
  <2>4. CASE branches = << >>
    <3>1. checkpoints' = {[kind |-> "auto", branch |-> active', message |-> n]} /\ active' = 1
          /\ Len(branches') = 1
      BY <1>1, <2>4 DEF VersionInv, Fresh, Founded
    <3>2. \A b \in 1..Len(branches') : b = active' /\ branches'[b].leaf = leaf'
      BY <1>1, <2>4, <3>1
    <3>3. \A c \in checkpoints' : c.branch = active' /\ c.message = leaf'
      BY <1>1, <3>1
    <3> QED
      BY <2>3, <3>2, <3>3 DEF Pointers, Known
  <2>5. CASE branches # << >>
    <3>1. ASSUME NEW b \in 0..Len(branches), NEW m \in 0..Len(messages),
                 Fits(messages, branches, b, m)
          PROVE  Fits(messages', branches', b, m)
      BY <1>1, <2>1, <2>5, <3>1, StillFits DEF VersionInv
    <3>2. ASSUME NEW b \in Known'
          PROVE  Fits(messages', branches', b, branches'[b].leaf)
      <4>1. b \in Known /\ b \in 0..Len(branches)
        BY <1>2, <1>3, <2>5 DEF Known
      <4>2. CASE b = active
        BY <1>1, <1>2, <2>3, <2>5, <4>1, <4>2
      <4>3. CASE b # active
        <5>1. branches'[b].leaf = branches[b].leaf
          BY <1>2, <2>5, <4>1, <4>3
        <5>2. Fits(messages, branches, b, branches[b].leaf)
          BY <4>1 DEF VersionInv, Pointers
        <5>3. branches[b].leaf \in 0..Len(messages)
          BY <4>1, LeafThere DEF VersionInv
        <5> QED
          BY <3>1, <4>1, <5>1, <5>2, <5>3
      <4> QED
        BY <4>2, <4>3
    <3>3. ASSUME NEW c \in checkpoints'
          PROVE  Fits(messages', branches', c.branch, c.message)
      <4>1. CASE c \in checkpoints
        <5>1. c.branch \in 0..Len(branches) /\ c.message \in 0..Len(messages)
          BY SMTT(30), <1>3, <4>1 DEF VersionInv, BranchesTypeOK, Known
        <5>2. Fits(messages, branches, c.branch, c.message)
          BY <4>1 DEF VersionInv, Pointers
        <5> QED
          BY <3>1, <5>1, <5>2
      <4>2. CASE c \notin checkpoints
        <5>1. c.branch = active' /\ c.message = leaf'
          BY <1>1, <4>2
        <5> QED
          BY <2>3, <5>1
      <4> QED
        BY <4>1, <4>2
    <3> QED
      BY <2>3, <3>2, <3>3 DEF Pointers
  <2> QED
    BY <2>4, <2>5
<1>9. AskedInSight'
  <2>1. On(messages', leaf') = On(messages, leaf) \cup {n}
    BY <1>1, <1>3, <1>4, TreeStep DEF VersionInv
  <2>2. asked \ moved \subseteq On(messages, leaf)
    BY DEF VersionInv, AskedInSight
  <2> QED
    BY <2>1, <2>2 DEF AskedInSight
<1> QED
  BY <1>1, <1>5, <1>6, <1>7, <1>8, <1>9 DEF VersionInv

(* A step that leaves the branches and the pointers: a row that is not     *)
(* attached, a turn that ends or is lost.                                  *)
LEMMA QuietStep ==
  ASSUME VersionInv, RowStep, UNCHANGED <<branches, active, leaf, checkpoints>>,
         Len(messages') <= MaxMessages,
         \A i \in Rows : messages'[i].branch = messages[i].branch,
         \A i \in 1..Len(messages') : i \in Rows \/ /\ messages'[i].branch = 0
                                                    /\ messages'[i].revisionOf = 0
                                                    /\ messages'[i].answers = 0,
         asked' \subseteq asked, moved' \subseteq asked', asked' \ moved' \subseteq asked \ moved
  PROVE  VersionInv' /\ Keeps(messages, messages')
<1>1. /\ Len(messages) \in Nat /\ Len(messages') \in Nat /\ Len(branches) \in Nat
      /\ Len(messages) <= Len(messages') /\ messages' \in Seq(Row)
      /\ leaf \in 0..Len(messages) /\ asked \subseteq 1..Len(messages)
  <2>1. messages' \in Seq(Row) /\ Len(messages) <= Len(messages')
    BY DEF RowStep, Keeps
  <2>2. Len(messages') \in Nat
    BY <2>1
  <2> QED
    BY <2>1, <2>2, Types DEF VersionInv, BranchesTypeOK, Rows
<1>2. HistoryIsATree' /\ Revisions' /\ Follows' /\ OneRow' /\ OneReply'
  BY RowsPart
<1>3. BranchesTypeOK'
  <2>1. 0..Len(messages) \subseteq 0..Len(messages') /\ 1..Len(messages) \subseteq 1..Len(messages')
    BY <1>1
  <2>2. leaf' \in 0..Len(messages') /\ asked' \subseteq Rows' /\ moved' \subseteq asked'
    BY <1>1, <2>1 DEF Rows
  <2>3. checkpoints' \subseteq [kind : {"auto", "manual"}, branch : Known', message : 0..Len(messages')]
    <3> SUFFICES ASSUME NEW c \in checkpoints
                 PROVE  c \in [kind : {"auto", "manual"}, branch : Known, message : 0..Len(messages')]
      BY DEF Known
    <3>1. c \in [kind : {"auto", "manual"}, branch : Known, message : 0..Len(messages)]
      BY DEF VersionInv, BranchesTypeOK
    <3> QED
      BY <2>1, <3>1
  <2>4. /\ branches' \in Seq(Branch) /\ Len(branches') <= MaxBranches
        /\ active' \in 0..Len(branches')
    BY Types DEF VersionInv
  <2> QED
    BY <1>1, <2>2, <2>3, <2>4 DEF BranchesTypeOK, Branch
<1>4. Fresh'
  <2>1. branches' # << >> => active' # 0
    BY DEF VersionInv, Fresh
  <2>2. ASSUME branches' = << >>
        PROVE  /\ active' = 0 /\ leaf' = 0 /\ checkpoints' = {} /\ asked' = {}
               /\ \A m \in Rows' : messages'[m].revisionOf = 0 /\ messages'[m].answers = 0
    <3>1. /\ active = 0 /\ leaf = 0 /\ checkpoints = {} /\ asked = {}
          /\ \A m \in Rows : messages[m].revisionOf = 0 /\ messages[m].answers = 0
      BY <2>2 DEF VersionInv, Fresh
    <3>2. ASSUME NEW m \in Rows'
          PROVE  messages'[m].revisionOf = 0 /\ messages'[m].answers = 0
      BY <3>1 DEF RowStep, Keeps, Rows
    <3> QED
      BY <3>1, <3>2
  <2> QED
    BY <2>1, <2>2 DEF Fresh
<1>5. OlderBranches'
  <2>1. ASSUME NEW b \in Known
        PROVE  branches[b].parent < b /\ branches[b].leaf <= Len(messages')
    <3>1. branches[b].leaf \in 0..Len(messages)
      BY LeafThere DEF VersionInv
    <3> QED
      BY <1>1, <3>1 DEF VersionInv, OlderBranches
  <2>2. ASSUME NEW m \in Rows'
        PROVE  messages'[m].branch <= Len(branches)
    <3>1. CASE m \in Rows
      BY <3>1 DEF VersionInv, OlderBranches
    <3>2. CASE m \notin Rows
      BY <1>1, <3>2 DEF Rows
    <3> QED
      BY <3>1, <3>2
  <2> QED
    BY <2>1, <2>2 DEF OlderBranches, Known
<1>6. Pointers'
  <2>1. ASSUME NEW b, NEW m \in 0..Len(messages), Fits(messages, branches, b, m)
        PROVE  Fits(messages', branches', b, m)
    <3>1. m = 0 \/ m \in Rows
      BY <1>1 DEF Rows
    <3> QED
      BY <2>1, <3>1 DEF Fits
  <2>2. active' # 0 => Fits(messages', branches', active', leaf')
    BY <1>1, <2>1 DEF VersionInv, Pointers
  <2>3. ASSUME NEW b \in Known
        PROVE  Fits(messages', branches', b, branches'[b].leaf)
    <3>1. branches[b].leaf \in 0..Len(messages) /\ Fits(messages, branches, b, branches[b].leaf)
      BY LeafThere DEF VersionInv, Pointers
    <3> QED
      BY <2>1, <3>1
  <2>4. ASSUME NEW c \in checkpoints
        PROVE  Fits(messages', branches', c.branch, c.message)
    <3>1. c.message \in 0..Len(messages) /\ Fits(messages, branches, c.branch, c.message)
      BY DEF VersionInv, Pointers, BranchesTypeOK
    <3> QED
      BY <2>1, <3>1
  <2> QED
    BY <2>2, <2>3, <2>4 DEF Pointers, Known
<1>7. AskedInSight'
  <2>1. On(messages', leaf') = On(messages, leaf)
    BY <1>1, TreeStep DEF VersionInv
  <2> QED
    BY <2>1 DEF VersionInv, AskedInSight
<1> QED
  BY <1>2, <1>3, <1>4, <1>5, <1>6, <1>7 DEF VersionInv, RowStep

(* The default branch is created, or was there; a checkpoint of the        *)
(* thread's leaf, or of its branch's, may be added.                        *)
LEMMA EnsureStep ==
  ASSUME VersionInv,
         messages' = Ensured(messages).rows, branches' = Ensured(messages).known,
         active' = Ensured(messages).active, leaf' = Ensured(messages).leaf,
         UNCHANGED <<asked, moved>>,
         \A c \in checkpoints' :
            \/ c \in checkpoints
            \/ c = [kind |-> "manual", branch |-> active',
                    message |-> IF leaf' # 0 THEN leaf' ELSE branches'[active'].leaf]
  PROVE  VersionInv' /\ Keeps(messages, messages')
<1>1. /\ Typed /\ Founded /\ Settled /\ Keeps(messages, messages')
      /\ Len(messages') = Len(messages)
      /\ branches # << >> => branches' = branches /\ active' = active /\ leaf' = leaf
      /\ branches = << >> => branches'[1].leaf = Len(messages) /\ leaf' = Len(messages)
  BY EnsureEffect DEF VersionInv
<1>2. /\ Len(messages) \in Nat /\ leaf \in 0..Len(messages) /\ Len(branches) \in Nat
      /\ asked \subseteq 1..Len(messages) /\ moved \subseteq asked
      /\ branches' \in Seq(Branch) /\ Len(branches') \in Nat /\ active' \in 1..Len(branches')
      /\ MaxBranches \in Nat
  BY <1>1, Types DEF VersionInv, BranchesTypeOK, Rows, Typed
<1>3. RowStep
  BY <1>1 DEF RowStep, Settled, Typed
<1>4. HistoryIsATree' /\ Revisions' /\ Follows' /\ OneRow' /\ OneReply'
  BY <1>3, RowsPart
<1>5. ASSUME NEW b \in 1..Len(branches')
      PROVE  branches'[b].parent < b /\ branches'[b].leaf \in 0..Len(messages')
  <2>1. CASE branches = << >>
    <3>1. Len(branches') = 1 /\ branches'[1].parent = 0
      BY <1>1, <2>1 DEF Founded
    <3>2. b = 1
      BY <3>1
    <3>3. branches'[1].leaf = Len(messages)
      BY <1>1, <2>1
    <3> QED
      BY <1>1, <1>2, <3>1, <3>2, <3>3
  <2>2. CASE branches # << >>
    <3>1. b \in Known /\ branches' = branches
      BY <1>1, <2>2 DEF Known
    <3>2. branches[b].parent < b /\ branches[b].leaf \in 0..Len(messages)
      BY <3>1, LeafThere DEF VersionInv, OlderBranches
    <3> QED
      BY <1>1, <3>1, <3>2
  <2> QED
    BY <2>1, <2>2
<1>6. leaf' \in 0..Len(messages')
  BY <1>1, <1>2
<1> DEFINE end == IF leaf' # 0 THEN leaf' ELSE branches'[active'].leaf
<1>7. end \in 0..Len(messages')
  BY <1>2, <1>5, <1>6
<1>8. BranchesTypeOK' /\ Fresh'
  <2>1. [kind |-> "manual", branch |-> active', message |-> end]
          \in [kind : {"auto", "manual"}, branch : 1..Len(branches'), message : 0..Len(messages')]
    BY <1>2, <1>7
  <2>2. Len(messages) <= Len(messages') /\ asked' \subseteq 1..Len(messages') /\ moved' \subseteq asked'
    BY <1>1, <1>2
  <2> HIDE DEF end
  <2>3. \A c \in checkpoints' :
           c \in checkpoints \/ c = [kind |-> "manual", branch |-> active', message |-> end]
    BY DEF end
  <2> QED
    BY <1>1, <1>6, <2>1, <2>2, <2>3, TypeStep DEF VersionInv
<1>9. OlderBranches'
  <2>1. ASSUME NEW m \in 1..Len(messages')
        PROVE  messages'[m].branch <= Len(branches')
    <3>1. CASE branches = << >>
      BY <1>1, <3>1 DEF Founded
    <3>2. CASE branches # << >>
      BY <1>1, <3>2 DEF Settled, VersionInv, OlderBranches, Rows
    <3> QED
      BY <3>1, <3>2
  <2> QED
    BY <1>1, <1>2, <1>5, <2>1 DEF OlderBranches, Rows, Known
<1>10. Pointers'
  <2>1. Descends(branches')
    BY <1>2, <1>9, IsDescent DEF OlderBranches, Known
  <2>2. /\ Fits(messages', branches', active', leaf')
        /\ \A b \in 1..Len(branches') : Fits(messages', branches', b, branches'[b].leaf)
        /\ \A c \in checkpoints : Fits(messages', branches', c.branch, c.message)
    <3>1. CASE branches = << >>
      <4>1. active' = 1 /\ Len(branches') = 1 /\ checkpoints = {}
            /\ \A i \in 1..Len(messages') : messages'[i].branch = 1
        BY <1>1, <3>1 DEF VersionInv, Fresh, Founded
      <4>2. 1 \in Ancestors(branches', 1)
        BY <1>2, <2>1, <4>1, OwnLineage
      <4>3. ASSUME NEW m \in 0..Len(messages')
            PROVE  Fits(messages', branches', 1, m)
        BY <1>1, <1>2, <4>1, <4>2 DEF Fits
      <4>4. \A b \in 1..Len(branches') : b = 1
        BY <4>1
      <4> QED
        BY <1>5, <1>6, <4>1, <4>3, <4>4
    <3>2. CASE branches # << >>
      <4>1. ASSUME NEW b \in 0..Len(branches), NEW m \in 0..Len(messages),
                   Fits(messages, branches, b, m)
            PROVE  Fits(messages', branches', b, m)
        BY <1>1, <2>1, <3>2, <4>1, StillFits DEF VersionInv
      <4>2. active \in 0..Len(branches) /\ active # 0
        BY <3>2, Types DEF VersionInv, Fresh
      <4>3. Fits(messages', branches', active', leaf')
        BY <1>1, <1>2, <3>2, <4>1, <4>2 DEF VersionInv, Pointers
      <4>4. ASSUME NEW b \in 1..Len(branches')
            PROVE  Fits(messages', branches', b, branches'[b].leaf)
        <5>1. b \in Known /\ b \in 0..Len(branches) /\ branches' = branches
          BY <1>1, <1>2, <3>2 DEF Known
        <5>2. branches[b].leaf \in 0..Len(messages) /\ Fits(messages, branches, b, branches[b].leaf)
          BY <5>1, LeafThere DEF VersionInv, Pointers
        <5> QED
          BY <4>1, <5>1, <5>2
      <4>5. ASSUME NEW c \in checkpoints
            PROVE  Fits(messages', branches', c.branch, c.message)
        <5>1. c.branch \in 0..Len(branches) /\ c.message \in 0..Len(messages)
          BY SMTT(30), <1>2 DEF VersionInv, BranchesTypeOK, Known
        <5>2. Fits(messages, branches, c.branch, c.message)
          BY DEF VersionInv, Pointers
        <5> QED
          BY <4>1, <5>1, <5>2
      <4> QED
        BY <4>3, <4>4, <4>5
    <3> QED
      BY <3>1, <3>2
  <2>3. Fits(messages', branches', active', end)
    BY <1>2, <2>2
  <2>4. ASSUME NEW c \in checkpoints'
        PROVE  Fits(messages', branches', c.branch, c.message)
    <3>1. CASE c \in checkpoints
      BY <2>2, <3>1
    <3>2. CASE c \notin checkpoints
      <4> HIDE DEF end
      <4>1. c = [kind |-> "manual", branch |-> active', message |-> end]
        BY <3>2 DEF end
      <4>2. c.branch = active' /\ c.message = end
        BY <4>1
      <4> QED
        BY <2>3, <4>2
    <3> QED
      BY <3>1, <3>2
  <2> QED
    BY <2>2, <2>4 DEF Pointers, Known
<1>11. AskedInSight'
  <2>1. CASE branches = << >>
    BY <2>1 DEF VersionInv, Fresh, AskedInSight
  <2>2. CASE branches # << >>
    <3>1. On(messages', leaf') = On(messages, leaf)
      BY <1>1, <1>2, <1>3, <2>2, TreeStep DEF VersionInv
    <3> QED
      BY <3>1 DEF VersionInv, AskedInSight
  <2> QED
    BY <2>1, <2>2
<1> QED
  BY <1>1, <1>4, <1>8, <1>9, <1>10, <1>11 DEF VersionInv

(* Moving to another version, old or new: the rows, the checkpoints and    *)
(* the questions stay, and every question counts as left.                  *)
LEMMA MoveStep ==
  ASSUME VersionInv, branches # << >>, UNCHANGED <<messages, checkpoints, asked>>, Moved,
         Typed, Len(branches) <= Len(branches'), leaf' \in 0..Len(messages),
         \A b \in Known : branches'[b] = branches[b],
         \A b \in Known' \ Known :
            /\ branches'[b].parent \in Known /\ branches'[b].leaf \in 0..Len(messages)
            /\ Fits(messages, branches, branches'[b].parent, branches'[b].leaf),
         active' \in Known => Fits(messages, branches, active', leaf'),
         active' \notin Known => leaf' = branches'[active'].leaf
  PROVE  VersionInv' /\ Keeps(messages, messages')
<1>1. /\ Len(messages) \in Nat /\ Len(branches) \in Nat /\ asked \subseteq 1..Len(messages)
      /\ branches' \in Seq(Branch) /\ Len(branches') \in Nat /\ active' \in 1..Len(branches')
      /\ MaxBranches \in Nat /\ messages \in Seq(Row) /\ moved \subseteq asked
  BY SMTT(30), Types DEF VersionInv, BranchesTypeOK, Rows, Typed
<1>2. Keeps(messages, messages') /\ Settled
  <2>1. Keeps(messages, messages')
    BY <1>1 DEF Keeps
  <2> QED
    BY <1>1, <2>1 DEF Settled
<1>3. RowStep
  BY <1>1, <1>2 DEF RowStep
<1>4. HistoryIsATree' /\ Revisions' /\ Follows' /\ OneRow' /\ OneReply'
  BY <1>3, RowsPart
<1>5. moved' = moved \cup asked /\ moved' = asked'
  BY <1>1 DEF Moved
<1>6. BranchesTypeOK' /\ Fresh'
  <2>1. /\ Len(messages) <= Len(messages') /\ leaf' \in 0..Len(messages')
        /\ asked' \subseteq 1..Len(messages') /\ moved' \subseteq asked'
    BY <1>1, <1>5
  <2>2. \A c \in checkpoints' : c \in checkpoints
    OBVIOUS
  <2> QED
    BY <1>2, <2>1, <2>2, TypeStep DEF VersionInv
<1>7. OlderBranches'
  <2>1. ASSUME NEW b \in Known'
        PROVE  branches'[b].parent < b /\ branches'[b].leaf <= Len(messages)
    <3>1. CASE b \in Known
      BY <3>1 DEF VersionInv, OlderBranches
    <3>2. CASE b \notin Known
      BY <1>1, <3>2 DEF Known
    <3> QED
      BY <3>1, <3>2
  <2>2. ASSUME NEW m \in Rows
        PROVE  messages[m].branch <= Len(branches')
    <3>1. messages[m] \in Row
      BY <1>1 DEF Rows
    <3>2. messages[m].branch \in 0..MaxBranches
      BY <3>1, RowFields
    <3> QED
      BY <1>1, <3>2 DEF VersionInv, OlderBranches
  <2> QED
    BY <2>1, <2>2 DEF OlderBranches, Rows
<1>8. Pointers'
  <2>1. Descends(branches')
    BY <1>1, <1>7, IsDescent DEF OlderBranches, Known
  <2>2. ASSUME NEW b \in Known, NEW m \in 0..Len(messages), Fits(messages, branches, b, m)
        PROVE  Fits(messages', branches', b, m)
    <3>1. b \in 0..Len(branches)
      BY <1>1 DEF Known
    <3> QED
      BY <1>2, <2>1, <2>2, <3>1, StillFits DEF VersionInv
  <2>3. ASSUME NEW b \in Known'
        PROVE  Fits(messages', branches', b, branches'[b].leaf)
    <3>1. CASE b \in Known
      <4>1. branches[b].leaf \in 0..Len(messages) /\ Fits(messages, branches, b, branches[b].leaf)
        BY <3>1, LeafThere DEF VersionInv, Pointers
      <4> QED
        BY <2>2, <3>1, <4>1
    <3>2. CASE b \notin Known
      <4> DEFINE p == branches'[b].parent
      <4>1. /\ p \in Known /\ branches'[b].leaf \in 0..Len(messages)
            /\ Fits(messages, branches, p, branches'[b].leaf)
        BY <3>2
      <4>2. Fits(messages', branches', p, branches'[b].leaf)
        BY <2>2, <4>1
      <4>3. Ancestors(branches', p) \subseteq Ancestors(branches', b)
        BY <2>1, OwnLineage DEF Known
      <4> QED
        BY <4>2, <4>3 DEF Fits
    <3> QED
      BY <3>1, <3>2
  <2>4. Fits(messages', branches', active', leaf')
    <3>1. CASE active' \in Known
      BY <2>2, <3>1
    <3>2. CASE active' \notin Known
      BY <1>1, <2>3, <3>2 DEF Known
    <3> QED
      BY <3>1, <3>2
  <2>5. ASSUME NEW c \in checkpoints
        PROVE  Fits(messages', branches', c.branch, c.message)
    <3>1. c.branch \in Known /\ c.message \in 0..Len(messages)
      BY DEF VersionInv, BranchesTypeOK
    <3>2. Fits(messages, branches, c.branch, c.message)
      BY DEF VersionInv, Pointers
    <3> QED
      BY <2>2, <3>1, <3>2
  <2> QED
    BY <2>3, <2>4, <2>5 DEF Pointers
<1>9. AskedInSight'
  BY <1>5 DEF AskedInSight
<1> QED
  BY <1>2, <1>4, <1>6, <1>7, <1>8, <1>9 DEF VersionInv

(* An edited message.                                                      *)
LEMMA EditStep ==
  ASSUME VersionInv, NEW m \in Rows, EditRetry(m)
  PROVE  VersionInv' /\ Keeps(messages, messages')
<1> DEFINE n == Len(messages) + 1
           r == messages'[n]
<1>1. /\ Typed /\ Settled /\ Keeps(messages, messages')
      /\ Len(messages') = n /\ leaf' = n /\ active' = Len(branches')
      /\ r.key = messages[m].key /\ r.branch = active' /\ r.parent = messages[m].parent
      /\ r.revisionOf = m /\ r.answers = 0
      /\ branches'[active'].parent = messages'[m].branch /\ branches'[active'].leaf = n
      /\ checkpoints' = checkpoints \cup {[kind |-> "auto", branch |-> active', message |-> n]}
      /\ asked' = asked \cup {n} /\ moved' = moved \cup asked
  BY EditEffect DEF VersionInv
<1>2. branches # << >> => /\ Len(branches') = Len(branches) + 1
                          /\ \A b \in Known : branches'[b] = branches[b]
  BY EditEffect DEF VersionInv
<1>3. branches = << >> => /\ Len(branches') = 2 /\ branches'[1].parent = 0
                          /\ branches'[1].leaf = Len(messages)
                          /\ \A i \in Rows : messages'[i].branch = 1
  BY EditEffect DEF VersionInv
<1>4. /\ Len(messages) \in Nat /\ Len(branches) \in Nat /\ asked \subseteq 1..Len(messages)
      /\ branches' \in Seq(Branch) /\ Len(branches') \in Nat /\ active' \in 1..Len(branches')
      /\ MaxBranches \in Nat /\ MaxMessages \in Nat /\ messages \in Seq(Row)
      /\ m \in 1..Len(messages) /\ messages' \in Seq(Row) /\ moved \subseteq asked
  BY <1>1, Types DEF VersionInv, BranchesTypeOK, Rows, Typed
<1>5. ASSUME NEW i \in Rows
      PROVE  /\ messages'[i].branch \in 0..Len(branches') /\ messages'[i].branch < Len(branches')
             /\ branches # << >> => messages'[i].branch \in 0..Len(branches)
  <2>1. CASE branches = << >>
    BY SMTT(30), <1>3, <2>1
  <2>2. CASE branches # << >>
    <3>1. messages'[i].branch = messages[i].branch /\ messages[i].branch <= Len(branches)
      BY <1>1, <2>2 DEF Settled, VersionInv, OlderBranches
    <3>2. messages[i] \in Row
      BY <1>4 DEF Rows
    <3>3. messages[i].branch \in 0..MaxBranches
      BY <3>2, RowFields
    <3> QED
      BY <1>2, <1>4, <2>2, <3>1, <3>3
  <2> QED
    BY <2>1, <2>2
<1>6. messages[m].parent \in 0..Len(messages)
  <2>1. messages[m] \in Row /\ messages[m].parent < m
    BY <1>4 DEF VersionInv, HistoryIsATree, Rows
  <2>2. messages[m].parent \in 0..MaxMessages
    BY <2>1, RowFields
  <2> QED
    BY <1>4, <2>1, <2>2
<1>7. RowStep
  <2>1. NewFits(r)
    <3>1. r.branch # messages'[m].branch
      BY <1>1, <1>4, <1>5
    <3>2. r.revisionOf # 0
      BY <1>1, <1>4
    <3> QED
      BY <1>1, <1>6, <3>1, <3>2 DEF NewFits
  <2>2. branches # << >> => \A i \in Rows : messages'[i].branch = messages[i].branch
    BY <1>1 DEF Settled
  <2> QED
    BY <1>1, <1>4, <2>1, <2>2 DEF RowStep
<1>8. HistoryIsATree' /\ Revisions' /\ Follows' /\ OneRow' /\ OneReply'
  BY <1>7, RowsPart
<1>9. BranchesTypeOK' /\ Fresh'
  <2>1. /\ Len(messages) <= Len(messages') /\ leaf' \in 0..Len(messages')
        /\ asked' \subseteq 1..Len(messages') /\ moved' \subseteq asked'
    <3>1. n \in 1..n /\ 1..Len(messages) \subseteq 1..n /\ n \in 0..n /\ Len(messages) <= n
      BY <1>4
    <3>2. asked' \subseteq 1..n /\ moved' \subseteq asked'
      BY <1>1, <1>4, <3>1
    <3> QED
      BY <1>1, <3>1, <3>2
  <2>2. [kind |-> "auto", branch |-> active', message |-> n]
          \in [kind : {"auto", "manual"}, branch : 1..Len(branches'), message : 0..Len(messages')]
    BY <1>1, <1>4
  <2>3. \A c \in checkpoints' : c \in checkpoints \/ c = [kind |-> "auto", branch |-> active', message |-> n]
    BY <1>1
  <2> QED
    BY <1>1, <2>1, <2>2, <2>3, TypeStep DEF VersionInv
<1>10. OlderBranches'
  <2>1. ASSUME NEW b \in 1..Len(branches')
        PROVE  branches'[b].parent < b /\ branches'[b].leaf <= Len(messages')
    <3>1. CASE b = active'
      BY <1>1, <1>4, <1>5, <3>1
    <3>2. CASE b # active' /\ branches # << >>
      <4>1. b \in Known /\ branches'[b] = branches[b]
        BY <1>1, <1>2, <1>4, <3>2 DEF Known
      <4>2. branches[b].parent < b /\ branches[b].leaf \in 0..Len(messages)
        BY <4>1, LeafThere DEF VersionInv, OlderBranches
      <4> QED
        BY <1>1, <1>4, <4>1, <4>2
    <3>3. CASE b # active' /\ branches = << >>
      <4>1. Len(branches') = 2 /\ b # Len(branches')
        BY <1>1, <1>3, <3>3
      <4>2. b = 1
        BY <4>1
      <4> QED
        BY <1>1, <1>3, <1>4, <3>3, <4>2
    <3> QED
      BY <3>1, <3>2, <3>3
  <2>2. ASSUME NEW i \in 1..Len(messages')
        PROVE  messages'[i].branch <= Len(branches')
    <3>1. CASE i \in Rows
      BY <1>4, <1>5, <3>1
    <3>2. CASE i \notin Rows
      <4>1. i = n
        BY <1>1, <1>4, <3>2 DEF Rows
      <4> QED
        BY <1>1, <1>4, <4>1
    <3> QED
      BY <3>1, <3>2
  <2> QED
    BY <2>1, <2>2 DEF OlderBranches, Rows, Known
<1>11. Pointers'
  <2>1. Descends(branches')
    BY <1>4, <1>10, IsDescent DEF OlderBranches, Known
  <2>2. Fits(messages', branches', active', leaf')
    <3>1. active' \in Ancestors(branches', active')
      BY <1>4, <2>1, OwnLineage
    <3> QED
      BY <1>1, <3>1 DEF Fits
  <2>3. /\ \A b \in 1..Len(branches') : b # active' => Fits(messages', branches', b, branches'[b].leaf)
        /\ \A c \in checkpoints : Fits(messages', branches', c.branch, c.message)
    <3>1. CASE branches = << >>
      <4>1. checkpoints = {} /\ Len(branches') = 2 /\ branches'[1].leaf = Len(messages)
        BY <1>3, <3>1 DEF VersionInv, Fresh
      <4>2. 1 \in Ancestors(branches', 1)
        <5>1. 1 \in 1..Len(branches')
          BY <4>1
        <5> QED
          BY <2>1, <5>1, OwnLineage
      <4>3. messages'[Len(messages)].branch = 1
        BY <1>3, <1>4, <3>1 DEF Rows
      <4>4. Fits(messages', branches', 1, branches'[1].leaf)
        BY <4>1, <4>2, <4>3 DEF Fits
      <4>5. \A b \in 1..Len(branches') : b # active' => b = 1
        BY <1>1, <4>1
      <4> QED
        BY <4>1, <4>4, <4>5
    <3>2. CASE branches # << >>
      <4>1. ASSUME NEW b \in 0..Len(branches), NEW k \in 0..Len(messages),
                   Fits(messages, branches, b, k)
            PROVE  Fits(messages', branches', b, k)
        BY <1>1, <2>1, <3>2, <4>1, StillFits DEF VersionInv
      <4>2. ASSUME NEW b \in 1..Len(branches'), b # active'
            PROVE  Fits(messages', branches', b, branches'[b].leaf)
        <5>1. b \in Known /\ b \in 0..Len(branches) /\ branches'[b] = branches[b]
          BY <1>1, <1>2, <1>4, <3>2, <4>2 DEF Known
        <5>2. branches[b].leaf \in 0..Len(messages) /\ Fits(messages, branches, b, branches[b].leaf)
          BY <5>1, LeafThere DEF VersionInv, Pointers
        <5> QED
          BY <4>1, <5>1, <5>2
      <4>3. ASSUME NEW c \in checkpoints
            PROVE  Fits(messages', branches', c.branch, c.message)
        <5>1. c.branch \in 0..Len(branches) /\ c.message \in 0..Len(messages)
          BY SMTT(30), <1>4 DEF VersionInv, BranchesTypeOK, Known
        <5>2. Fits(messages, branches, c.branch, c.message)
          BY DEF VersionInv, Pointers
        <5> QED
          BY <4>1, <5>1, <5>2
      <4> QED
        BY <4>2, <4>3
    <3> QED
      BY <3>1, <3>2
  <2>4. ASSUME NEW b \in 1..Len(branches')
        PROVE  Fits(messages', branches', b, branches'[b].leaf)
    BY <1>1, <2>2, <2>3
  <2>5. ASSUME NEW c \in checkpoints'
        PROVE  Fits(messages', branches', c.branch, c.message)
    <3>1. CASE c \in checkpoints
      BY <2>3, <3>1
    <3>2. CASE c \notin checkpoints
      <4>1. c.branch = active' /\ c.message = leaf'
        BY <1>1, <3>2
      <4> QED
        BY <2>2, <4>1
    <3> QED
      BY <3>1, <3>2
  <2> QED
    BY <2>2, <2>4, <2>5 DEF Pointers, Known
<1>12. AskedInSight'
  <2>1. asked' \ moved' \subseteq {n}
    BY <1>1
  <2>2. n \in On(messages', leaf')
    BY <1>1, <1>4, <1>7, TreeStep DEF VersionInv
  <2> QED
    BY <2>1, <2>2 DEF AskedInSight
<1> QED
  BY <1>1, <1>8, <1>9, <1>10, <1>11, <1>12 DEF VersionInv

LEMMA InitHolds ==
  ASSUME BranchesInit
  PROVE  VersionInv
<1>1. /\ messages = << >> /\ branches = << >> /\ active = 0 /\ leaf = 0
      /\ checkpoints = {} /\ asked = {} /\ moved = {}
  BY DEF BranchesInit
<1>2. Rows = {} /\ Known = {}
  BY <1>1 DEF Rows, Known
<1>3. BranchesTypeOK
  <2>1. messages \in Seq(Row) /\ Len(messages) = 0
    BY <1>1
  <2>2. branches \in Seq([parent : 0..MaxBranches, leaf : 0..MaxMessages]) /\ Len(branches) = 0
    BY <1>1
  <2> QED
    BY <1>1, <2>1, <2>2, BranchesAssumption DEF BranchesTypeOK
<1>4. Fresh /\ Pointers /\ AskedInSight
  BY <1>1, <1>2 DEF Fresh, Pointers, AskedInSight
<1>5. HistoryIsATree /\ OlderBranches /\ Revisions /\ Follows /\ OneRow /\ OneReply
  BY <1>2 DEF HistoryIsATree, OlderBranches, Revisions, Follows, OneRow, OneReply
<1> QED
  BY <1>3, <1>4, <1>5 DEF VersionInv

(* A row of no branch behind the others, for the rows part.                *)
LEMMA PostFailsStep ==
  ASSUME VersionInv, NEW key \in Keys \cup {noKey}, PostFails(key)
  PROVE  VersionInv' /\ Keeps(messages, messages')
<1> DEFINE n == Len(messages) + 1
           new == NewRow("user", key, 0)
<1>1. /\ messages \in Seq(Row) /\ Len(messages) \in Nat /\ Len(messages) < MaxMessages
      /\ MaxMessages \in Nat
  BY Types DEF VersionInv, PostFails, New, Room
<1>2. "user" \in {"user", "assistant"} /\ 0 \in 0..MaxMessages
  BY <1>1
<1>3. /\ new \in Row /\ new.key = key /\ new.branch = 0 /\ new.parent = 0
      /\ new.revisionOf = 0 /\ new.answers = 0
  BY <1>2, NewRowIsRow DEF VersionInv
<1>4. messages' = Append(messages, new)
  BY DEF PostFails
<1> HIDE DEF new
<1>5. /\ messages' \in Seq(Row) /\ Len(messages') = n /\ messages'[n] = new
      /\ \A i \in 1..Len(messages) : messages'[i] = messages[i]
  BY <1>1, <1>3, <1>4, Appended
<1>6. asked' \subseteq asked /\ moved' = moved \cap asked' /\ asked' \in {asked, {}}
  BY DEF PostFails
<1>7. Keeps(messages, messages')
  BY <1>1, <1>5 DEF Keeps
<1>8. \A i \in Rows : messages'[i] = messages[i]
  BY <1>5 DEF Rows
<1>9. NewFits(new)
  <2>1. key # noKey => \A i \in Rows : messages[i].key # key
    BY DEF PostFails, New
  <2> QED
    BY <1>1, <1>3, <2>1 DEF NewFits
<1>10. RowStep
  BY <1>5, <1>6, <1>7, <1>8, <1>9 DEF RowStep
<1>11. \A i \in 1..Len(messages') : i \in Rows \/ /\ messages'[i].branch = 0
                                                  /\ messages'[i].revisionOf = 0
                                                  /\ messages'[i].answers = 0
  <2> SUFFICES ASSUME NEW i \in 1..Len(messages'), i \notin Rows
               PROVE  i = n
    BY <1>3, <1>5
  <2> QED
    BY <1>1, <1>5 DEF Rows
<1>12. UNCHANGED <<branches, active, leaf, checkpoints>>
  BY DEF PostFails
<1>13. Len(messages') <= MaxMessages
  BY <1>1, <1>5
<1>14. moved' \subseteq asked' /\ asked' \ moved' \subseteq asked \ moved
  BY <1>6
<1> QED
  BY <1>6, <1>8, <1>10, <1>11, <1>12, <1>13, <1>14, QuietStep

(* A turn that ends without a reply, or is lost.                           *)
LEMMA NoRowStep ==
  ASSUME VersionInv, UNCHANGED <<messages, branches, active, leaf, checkpoints>>,
         asked' \subseteq asked, moved' = moved \cap asked'
  PROVE  VersionInv' /\ Keeps(messages, messages')
<1>1. messages \in Seq(Row) /\ Len(messages) \in Nat /\ Len(messages) <= MaxMessages
  BY Types DEF VersionInv
<1>2. Keeps(messages, messages')
  BY <1>1 DEF Keeps
<1>3. RowStep
  BY <1>1, <1>2 DEF RowStep
<1>4. \A i \in 1..Len(messages') : i \in Rows
  BY DEF Rows
<1>5. moved' \subseteq asked' /\ asked' \ moved' \subseteq asked \ moved
  OBVIOUS
<1>6. \A i \in Rows : messages'[i].branch = messages[i].branch
  OBVIOUS
<1> QED
  BY <1>1, <1>3, <1>4, <1>5, <1>6, QuietStep

(* Every step keeps the invariant, every row but for its branch, and every *)
(* checkpoint.                                                             *)
LEMMA NextStep ==
  ASSUME VersionInv, BranchesNext
  PROVE  VersionInv' /\ Keeps(messages, messages') /\ checkpoints \subseteq checkpoints'
<1>1. /\ MaxMessages \in Nat /\ Len(messages) \in Nat /\ noKey \notin Keys
      /\ asked \subseteq Rows /\ moved \subseteq asked
      /\ checkpoints \subseteq [kind : {"auto", "manual"}, branch : Known, message : 0..Len(messages)]
      /\ checkpoints # {} => branches # << >>
      /\ Known # {} => branches # << >>
      /\ branches \in Seq(Branch) /\ Len(branches) \in Nat /\ Len(branches) <= MaxBranches
      /\ messages \in Seq(Row) /\ Len(messages) <= MaxMessages
  BY SMTT(30), Types DEF VersionInv, BranchesTypeOK, Fresh, Known
<1>2. 0 \in 0..MaxMessages /\ noKey \in Keys \cup {noKey}
      /\ \A i \in Rows : i \in 0..MaxMessages /\ i # Len(messages) + 1 /\ i # 0
  BY <1>1 DEF Rows
<1>3. ASSUME NEW key \in Keys \cup {noKey}, PostMessage(key)
      PROVE  VersionInv' /\ Keeps(messages, messages') /\ checkpoints \subseteq checkpoints'
  <2>1. /\ Room /\ Attach(Append(messages, NewRow("user", key, 0)))
        /\ key # noKey => \A i \in Rows : messages[i].key # key
        /\ asked' = asked \cup {Len(messages) + 1} /\ moved' = moved
    BY <1>3 DEF PostMessage, New
  <2>2. checkpoints \subseteq checkpoints'
    BY <2>1 DEF Attach
  <2>3. moved' \subseteq asked' /\ asked' \ moved' \subseteq (asked \ moved) \cup {Len(messages) + 1}
    BY <1>1, <2>1
  <2> QED
    BY <1>2, <2>1, <2>2, <2>3, AttachStep
<1>4. ASSUME NEW key \in Keys \cup {noKey}, PostFails(key)
      PROVE  VersionInv' /\ Keeps(messages, messages') /\ checkpoints \subseteq checkpoints'
  BY <1>4, PostFailsStep DEF PostFails
<1>5. ASSUME NEW q \in asked, Reply(q)
      PROVE  VersionInv' /\ Keeps(messages, messages') /\ checkpoints \subseteq checkpoints'
  <2>1. /\ Room /\ Attach(Append(messages, NewRow("assistant", noKey, q)))
        /\ asked' = asked \ {q} /\ moved' = moved \ {q} /\ q \in 0..MaxMessages
    BY <1>1, <1>2, <1>5 DEF Reply
  <2>2. checkpoints \subseteq checkpoints'
    BY <2>1 DEF Attach
  <2>3. moved' \subseteq asked' /\ asked' \ moved' \subseteq asked \ moved /\ q \notin asked'
    BY <1>1, <2>1
  <2> QED
    BY <1>2, <2>1, <2>2, <2>3, AttachStep
<1>6. ASSUME NEW q \in asked, NoReply(q)
      PROVE  VersionInv' /\ Keeps(messages, messages') /\ checkpoints \subseteq checkpoints'
  <2>1. /\ UNCHANGED <<messages, branches, active, leaf, checkpoints>>
        /\ asked' = asked \ {q} /\ moved' = moved \ {q}
    BY <1>6 DEF NoReply
  <2>2. moved' = moved \cap asked' /\ asked' \subseteq asked
    BY <1>1, <2>1
  <2> QED
    BY <2>1, <2>2, NoRowStep
<1>7. ASSUME Notice
      PROVE  VersionInv' /\ Keeps(messages, messages') /\ checkpoints \subseteq checkpoints'
  <2>1. /\ Room /\ Attach(Append(messages, NewRow("assistant", noKey, 0)))
        /\ asked' = asked /\ moved' = moved
    BY <1>7 DEF Notice
  <2>2. checkpoints \subseteq checkpoints'
    BY <2>1 DEF Attach
  <2>3. moved' \subseteq asked'
    BY <1>1, <2>1
  <2> QED
    BY <1>2, <2>1, <2>2, <2>3, AttachStep
<1>8. ASSUME ListBranches
      PROVE  VersionInv' /\ Keeps(messages, messages') /\ checkpoints \subseteq checkpoints'
  <2>1. /\ messages' = Ensured(messages).rows /\ branches' = Ensured(messages).known
        /\ active' = Ensured(messages).active /\ leaf' = Ensured(messages).leaf
        /\ UNCHANGED <<checkpoints, asked, moved>>
    BY <1>8 DEF ListBranches
  <2> QED
    BY <2>1, EnsureStep
<1>9. ASSUME CreateCheckpoint
      PROVE  VersionInv' /\ Keeps(messages, messages') /\ checkpoints \subseteq checkpoints'
  <2>1. /\ messages' = Ensured(messages).rows /\ branches' = Ensured(messages).known
        /\ active' = Ensured(messages).active /\ leaf' = Ensured(messages).leaf
        /\ UNCHANGED <<asked, moved>>
        /\ checkpoints' = checkpoints \cup
             {[kind |-> "manual", branch |-> Ensured(messages).active,
               message |-> IF Ensured(messages).leaf # 0 THEN Ensured(messages).leaf
                           ELSE Ensured(messages).known[Ensured(messages).active].leaf]}
    BY <1>9 DEF CreateCheckpoint
  <2>2. \A c \in checkpoints' :
           \/ c \in checkpoints
           \/ c = [kind |-> "manual", branch |-> active',
                   message |-> IF leaf' # 0 THEN leaf' ELSE branches'[active'].leaf]
    BY <2>1
  <2> QED
    BY <2>1, <2>2, EnsureStep
<1>10. ASSUME NEW c \in checkpoints, Restore(c)
       PROVE  VersionInv' /\ Keeps(messages, messages') /\ checkpoints \subseteq checkpoints'
  <2>1. /\ active' = c.branch /\ leaf' = c.message /\ Moved
        /\ UNCHANGED <<messages, branches, checkpoints, asked>>
    BY <1>10 DEF Restore
  <2>2. c.branch \in Known /\ c.message \in 0..Len(messages) /\ branches # << >>
    BY <1>1
  <2>3. Fits(messages, branches, c.branch, c.message)
    BY DEF VersionInv, Pointers
  <2>4. Typed
    BY <1>1, <2>1, <2>2 DEF Typed, Known
  <2>5. Known' = Known
    BY <2>1 DEF Known
  <2> QED
    BY <1>1, <2>1, <2>2, <2>3, <2>4, <2>5, MoveStep
<1>11. ASSUME NEW c \in checkpoints, Checkout(c)
       PROVE  VersionInv' /\ Keeps(messages, messages') /\ checkpoints \subseteq checkpoints'
  <2> DEFINE own == [parent |-> c.branch, leaf |-> c.message]
             b == Len(branches) + 1
  <2>1. /\ branches' = Append(branches, own) /\ active' = b /\ leaf' = c.message /\ Moved
        /\ UNCHANGED <<messages, checkpoints, asked>> /\ Len(branches) < MaxBranches
    BY <1>11 DEF Checkout
  <2>2. c.branch \in Known /\ c.message \in 0..Len(messages) /\ branches # << >>
    BY <1>1
  <2>3. Fits(messages, branches, c.branch, c.message)
    BY DEF VersionInv, Pointers
  <2>4. own \in Branch /\ own.parent = c.branch /\ own.leaf = c.message
    BY <1>1, <2>2, Types DEF VersionInv, Branch, Known
  <2> HIDE DEF own
  <2>5. /\ branches' \in Seq(Branch) /\ Len(branches') = b /\ branches'[b] = own
        /\ \A i \in 1..Len(branches) : branches'[i] = branches[i]
    BY <1>1, <2>1, <2>4, Appended
  <2>6. Typed
    <3>1. MaxBranches \in Nat /\ b \in 1..b /\ b <= MaxBranches
      BY <1>1, <2>1, Types DEF VersionInv
    <3> QED
      BY <1>1, <2>1, <2>5, <3>1 DEF Typed
  <2>7. b \notin Known /\ \A i \in Known' \ Known : i = b
    BY <1>1, <2>5 DEF Known
  <2>8. \A i \in Known' \ Known :
          /\ branches'[i].parent \in Known /\ branches'[i].leaf \in 0..Len(messages)
          /\ Fits(messages, branches, branches'[i].parent, branches'[i].leaf)
    BY <2>2, <2>3, <2>4, <2>5, <2>7
  <2>9. Len(branches) <= Len(branches') /\ \A i \in Known : branches'[i] = branches[i]
    BY <1>1, <2>5 DEF Known
  <2>10. active' \notin Known /\ leaf' = branches'[active'].leaf
    BY <2>1, <2>4, <2>5, <2>7
  <2> QED
    BY <2>1, <2>2, <2>6, <2>8, <2>9, <2>10, MoveStep
<1>12. ASSUME NEW b \in Known, Activate(b)
       PROVE  VersionInv' /\ Keeps(messages, messages') /\ checkpoints \subseteq checkpoints'
  <2>1. /\ active' = b /\ leaf' = branches[b].leaf /\ Moved
        /\ UNCHANGED <<messages, branches, checkpoints, asked>>
    BY <1>12 DEF Activate
  <2>2. branches[b].leaf \in 0..Len(messages) /\ branches # << >>
    BY <1>1, LeafThere DEF VersionInv
  <2>3. Fits(messages, branches, b, branches[b].leaf)
    BY DEF VersionInv, Pointers
  <2>4. Typed
    BY <1>1, <2>1 DEF Typed, Known
  <2>5. Known' = Known
    BY <2>1 DEF Known
  <2> QED
    BY <1>1, <2>1, <2>2, <2>3, <2>4, <2>5, MoveStep
<1>13. ASSUME NEW m \in Rows, EditRetry(m)
       PROVE  VersionInv' /\ Keeps(messages, messages') /\ checkpoints \subseteq checkpoints'
  <2>1. checkpoints \subseteq checkpoints'
    BY <1>13 DEF EditRetry
  <2> QED
    BY <1>13, <2>1, EditStep
<1>14. ASSUME Restart
       PROVE  VersionInv' /\ Keeps(messages, messages') /\ checkpoints \subseteq checkpoints'
  <2>1. /\ UNCHANGED <<messages, branches, active, leaf, checkpoints>>
        /\ asked' = {} /\ moved' = {}
    BY <1>14 DEF Restart
  <2>2. moved' = moved \cap asked' /\ asked' \subseteq asked
    BY <2>1
  <2> QED
    BY <2>1, <2>2, NoRowStep
<1> QED
  BY <1>3, <1>4, <1>5, <1>6, <1>7, <1>8, <1>9, <1>10, <1>11, <1>12, <1>13, <1>14 DEF BranchesNext

-----------------------------------------------------------------------------
(* The theorems.                                                           *)

(* The invariant of one conversation's versions, for any keys and bounds.  *)
THEOREM BranchesInvariant == BranchesSpec => []VersionInv
<1>1. BranchesInit => VersionInv
  BY InitHolds
<1>2. VersionInv /\ [BranchesNext]_branchesVars => VersionInv'
  <2> SUFFICES ASSUME VersionInv, [BranchesNext]_branchesVars
               PROVE  VersionInv'
    OBVIOUS
  <2>1. CASE BranchesNext
    BY <2>1, NextStep
  <2>2. CASE UNCHANGED branchesVars
    <3>1. /\ UNCHANGED <<messages, branches, active, leaf, checkpoints>>
          /\ asked' = asked /\ moved' = moved
      BY <2>2 DEF branchesVars
    <3>2. moved' = moved \cap asked' /\ asked' \subseteq asked
      BY <3>1 DEF VersionInv, BranchesTypeOK
    <3> QED
      BY <3>1, <3>2, NoRowStep
  <2> QED
    BY <2>1, <2>2
<1> QED
  BY <1>1, <1>2, PTL DEF BranchesSpec

LEMMA TreeNow ==
  ASSUME VersionInv
  PROVE  /\ Tree(messages) /\ Len(messages) \in Nat
         /\ \A m \in Rows : /\ messages[m].parent \in 0..(m - 1) /\ m \in 1..Len(messages)
                            /\ messages[m].parent \in 0..Len(messages)
<1>1. messages \in Seq(Row) /\ Len(messages) \in Nat /\ MaxMessages \in Nat
  BY Types DEF VersionInv
<1>2. Tree(messages)
  BY <1>1, IsTree DEF VersionInv, HistoryIsATree, Rows
<1>3. ASSUME NEW m \in Rows
      PROVE  /\ messages[m].parent \in 0..(m - 1) /\ m \in 1..Len(messages)
             /\ messages[m].parent \in 0..Len(messages)
  <2>1. m \in 1..Len(messages) /\ messages[m].parent \in 0..(m - 1)
    BY <1>2 DEF Tree, Rows
  <2> QED
    BY <1>1, <2>1
<1> QED
  BY <1>1, <1>2, <1>3

(* Once there is a branch, the thread's leaf is null only where a branch   *)
(* or a checkpoint without a message is.                                   *)
LeafKept == branches # << >> /\ leaf = 0 => EmptyVersion

LEMMA LeafStep ==
  ASSUME VersionInv, LeafKept, [BranchesNext]_branchesVars
  PROVE  LeafKept'
<1>1. Len(messages) \in Nat /\ Len(branches) \in Nat /\ branches \in Seq(Branch)
      /\ messages \in Seq(Row)
  BY Types DEF VersionInv
<1>2. ASSUME UNCHANGED <<branches, leaf, checkpoints>>
      PROVE  LeafKept'
  BY <1>2 DEF LeafKept, EmptyVersion, Known
<1>3. ASSUME NEW r, Attach(Append(messages, r))
      PROVE  LeafKept'
  <2>1. leaf' = Len(Append(messages, r))
    BY <1>3 DEF Attach
  <2>2. leaf' = Len(messages) + 1
    BY <1>1, <2>1
  <2> QED
    BY <1>1, <2>2 DEF LeafKept
<1>4. ASSUME branches' = Ensured(messages).known, leaf' = Ensured(messages).leaf,
             checkpoints \subseteq checkpoints'
      PROVE  LeafKept'
  <2>1. CASE branches = << >>
    <3>1. branches' = <<[parent |-> 0, leaf |-> Len(messages)]>> /\ leaf' = Len(messages)
      BY <1>4, <2>1 DEF Ensured
    <3>2. 1 \in Known' /\ branches'[1].leaf = leaf'
      BY <3>1 DEF Known
    <3> QED
      BY <3>2 DEF LeafKept, EmptyVersion
  <2>2. CASE branches # << >>
    <3>1. branches' = branches /\ leaf' = leaf
      BY <1>4, <2>2 DEF Ensured
    <3> QED
      BY <1>4, <2>2, <3>1 DEF LeafKept, EmptyVersion, Known
  <2> QED
    BY <2>1, <2>2
<1>5. ASSUME NEW c \in checkpoints, Restore(c)
      PROVE  LeafKept'
  BY <1>5 DEF Restore, LeafKept, EmptyVersion
<1>6. ASSUME NEW c \in checkpoints, Checkout(c)
      PROVE  LeafKept'
  BY <1>6 DEF Checkout, LeafKept, EmptyVersion
<1>7. ASSUME NEW b \in Known, Activate(b)
      PROVE  LeafKept'
  BY <1>7 DEF Activate, LeafKept, EmptyVersion, Known
<1>8. ASSUME NEW m \in Rows, EditRetry(m)
      PROVE  LeafKept'
  <2>1. leaf' = Len(messages) + 1
    BY <1>8 DEF EditRetry
  <2> QED
    BY <1>1, <2>1 DEF LeafKept
<1>9. CASE \/ \E key \in Keys \cup {noKey} : PostMessage(key)
           \/ \E q \in asked : Reply(q)
           \/ Notice
  BY <1>3, <1>9 DEF PostMessage, Reply, Notice
<1>10. CASE ListBranches \/ CreateCheckpoint
  BY <1>4, <1>10 DEF ListBranches, CreateCheckpoint
<1>11. CASE \/ \E key \in Keys \cup {noKey} : PostFails(key)
            \/ \E q \in asked : NoReply(q)
            \/ Restart
            \/ UNCHANGED branchesVars
  BY <1>2, <1>11 DEF PostFails, NoReply, Restart, branchesVars
<1> QED
  BY <1>5, <1>6, <1>7, <1>8, <1>9, <1>10, <1>11 DEF BranchesNext

LEMMA LeafIsKept == BranchesSpec => []LeafKept
<1>1. BranchesInit => LeafKept
  BY DEF BranchesInit, LeafKept
<1>2. VersionInv /\ LeafKept /\ [BranchesNext]_branchesVars => LeafKept'
  BY LeafStep
<1> QED
  BY <1>1, <1>2, BranchesInvariant, PTL DEF BranchesSpec

(* What is shown holds no message and a revision of it, while there is a   *)
(* leaf or no empty version.                                               *)
LEMMA ShownOnce ==
  ASSUME VersionInv, LeafKept
  PROVE  OneVersionShown
<1>1. /\ Len(messages) \in Nat /\ leaf \in 0..Len(messages) /\ Tree(messages)
      /\ OnPath(leaf) = On(messages, leaf)
  BY Types, TreeNow, OnPathIsOn DEF VersionInv, BranchesTypeOK
<1>2. CASE leaf # 0
  <2>1. Visible = On(messages, leaf) /\ leaf \in Rows
    BY <1>1, <1>2 DEF Visible, Rows
  <2>2. On(messages, leaf) \subseteq 1..leaf
    BY <1>1, <1>2, OnStep
  <2> SUFFICES ASSUME NEW e \in On(messages, leaf), messages[e].revisionOf \in On(messages, leaf)
               PROVE  FALSE
    BY <2>1 DEF OneVersionShown
  <2>3. e \in Rows /\ messages[e].revisionOf # 0
    BY <1>1, <2>2 DEF Rows
  <2> QED
    BY <2>1, <2>3 DEF VersionInv, Revisions
<1>3. CASE leaf = 0 /\ ~EmptyVersion
  <2>1. branches = << >> /\ Visible = Rows
    BY <1>3 DEF LeafKept, Visible
  <2>2. \A e \in Rows : messages[e].revisionOf = 0
    BY <2>1 DEF VersionInv, Fresh
  <2> QED
    BY <1>1, <2>1, <2>2 DEF OneVersionShown, Rows
<1> QED
  BY <1>2, <1>3 DEF OneVersionShown

(* Every version that has a message is a history of its own branch, an     *)
(* edited message replaces its original there and only there, and what a   *)
(* client is shown is one version, unless an empty version is open, whose  *)
(* null leaf shows every row (restore_checkpoint, checkout_checkpoint,     *)
(* activate_branch, edit_retry, list_messages_for_thread).                 *)
THEOREM VersionsStaySound == BranchesSpec => []VersionsAreSound
<1>1. VersionInv /\ LeafKept => VersionsAreSound
  <2> SUFFICES ASSUME VersionInv, LeafKept
               PROVE  VersionsAreSound
    OBVIOUS
  <2>1. PointersKeepToBranch
    <3>1. \A b, m : Fits(messages, branches, b, m) <=> m = 0 \/ messages[m].branch \in Lineage(b)
      BY LineageIsAncestors DEF Fits
    <3> QED
      BY <3>1 DEF VersionInv, Pointers, PointersKeepToBranch
  <2>2. EditReplaces
    <3> SUFFICES ASSUME NEW e \in Rows, messages[e].revisionOf # 0
                 PROVE  LET m == messages[e].revisionOf
                        IN  /\ OnPath(e) \ {e} = OnPath(m) \ {m}
                            /\ \A n \in Rows : ~({e, m} \subseteq OnPath(n))
                            /\ messages[e].branch # messages[m].branch
      BY DEF EditReplaces
    <3> DEFINE m == messages[e].revisionOf
               p == messages[e].parent
    <3>1. /\ m < e /\ messages[m].parent = p /\ messages[e].branch # messages[m].branch
          /\ \A n \in Rows : ~({e, m} \subseteq On(messages, n))
      BY DEF VersionInv, Revisions
    <3>2. m \in Rows
      <4>1. messages[e] \in Row /\ e \in 1..Len(messages) /\ Len(messages) \in Nat
        BY Types DEF VersionInv, Rows
      <4>2. m \in 0..MaxMessages
        BY <4>1, RowFields
      <4> QED
        BY <3>1, <4>1, <4>2, Types DEF VersionInv, Rows
    <3>3. On(messages, e) = On(messages, p) \cup {e} /\ On(messages, m) = On(messages, p) \cup {m}
      BY <3>1, <3>2, TreeNow, OnStep
    <3>4. On(messages, p) \subseteq 1..p /\ p \in 0..(m - 1) /\ p \in 0..(e - 1)
      BY <3>1, <3>2, TreeNow, OnStep
    <3>5. e \notin On(messages, p) /\ m \notin On(messages, p)
      BY <3>2, <3>4, TreeNow
    <3>6. On(messages, e) \ {e} = On(messages, m) \ {m}
      BY <3>3, <3>5
    <3>7. \A n : OnPath(n) = On(messages, n)
      BY OnPathIsOn
    <3> QED
      BY <3>1, <3>6, <3>7
  <2> QED
    BY <2>1, <2>2, ShownOnce DEF VersionsAreSound, VersionInv
<1> QED
  BY <1>1, BranchesInvariant, LeafIsKept, PTL

(* A reply ends up below its question, unless the user left the version    *)
(* before it came (persist_and_publish_assistant_message attaches it to    *)
(* whatever is active).                                                    *)
THEOREM RepliesFollow == BranchesSpec => []ReplyFollowsQuestion
<1>1. VersionInv => ReplyFollowsQuestion
  <2>1. \A n : OnPath(n) = On(messages, n)
    BY OnPathIsOn
  <2> QED
    BY <2>1 DEF VersionInv, Follows, ReplyFollowsQuestion
<1> QED
  BY <1>1, BranchesInvariant, PTL

(* A message that is delivered again is one message with at most one turn, *)
(* also after a failure or a restart (the check of POST /messages).        *)
THEOREM KeysRunOnce == BranchesSpec => []OneRunPerKey
<1>1. VersionInv => OneRunPerKey
  <2> SUFFICES ASSUME VersionInv, NEW key \in Keys
               PROVE  LET Originals == {m \in Rows : messages[m].key = key /\ messages[m].revisionOf = 0}
                          Replies   == {a \in Rows : messages[a].answers \in Originals}
                      IN  Cardinality(Originals \cap asked) + Cardinality(Replies) <= 1
    BY DEF OneRunPerKey
  <2> DEFINE Originals == {m \in Rows : messages[m].key = key /\ messages[m].revisionOf = 0}
             Replies   == {a \in Rows : messages[a].answers \in Originals}
  <2>1. key # noKey /\ 0 \notin Rows
    BY Types DEF VersionInv, Rows
  <2>2. \A m, n \in Originals : m = n
    BY <2>1 DEF VersionInv, OneRow
  <2>3. \A a \in Replies : messages[a].answers # 0 /\ messages[a].answers \notin asked
    BY <2>1 DEF VersionInv, OneReply
  <2>4. \A a, b \in Replies : a = b
    <3> SUFFICES ASSUME NEW a \in Replies, NEW b \in Replies
                 PROVE  a = b
      OBVIOUS
    <3>1. messages[b].answers = messages[a].answers
      BY <2>2
    <3> QED
      BY <2>3, <3>1 DEF VersionInv, OneReply
  <2>5. Originals \cap asked = {} \/ Replies = {}
    BY <2>2, <2>3
  <2>6. ASSUME NEW S, \A x, y \in S : x = y
        PROVE  Cardinality(S) \in {0, 1} /\ (S = {} => Cardinality(S) = 0)
    <3>1. CASE S = {}
      BY <3>1, FS_EmptySet
    <3>2. CASE S # {}
      <4>1. PICK x \in S : S = {x}
        BY <2>6, <3>2
      <4>2. Cardinality({x}) = 1
        BY FS_Singleton
      <4> QED
        BY <3>2, <4>1, <4>2
    <3> QED
      BY <3>1, <3>2
  <2> HIDE DEF Originals, Replies
  <2>7. \A x, y \in Originals \cap asked : x = y
    BY <2>2
  <2>8. /\ Cardinality(Originals \cap asked) \in {0, 1}
        /\ Originals \cap asked = {} => Cardinality(Originals \cap asked) = 0
        /\ Cardinality(Replies) \in {0, 1} /\ (Replies = {} => Cardinality(Replies) = 0)
    BY <2>4, <2>6, <2>7
  <2>9. Cardinality(Originals \cap asked) + Cardinality(Replies) <= 1
    BY <2>5, <2>8
  <2> QED
    BY <2>9 DEF Originals, Replies
<1> QED
  BY <1>1, BranchesInvariant, PTL

(* No operation changes what an attached message followed, or loses the    *)
(* checkpoint that brings it back.                                         *)
THEOREM HistoriesAreKept == BranchesSpec => NothingRewritten
<1>1. VersionInv /\ VersionInv' /\ [BranchesNext]_branchesVars =>
        [/\ checkpoints \subseteq checkpoints'
         /\ \A c \in checkpoints : Path(c.message)' = Path(c.message)]_branchesVars
  <2> SUFFICES ASSUME VersionInv, VersionInv', BranchesNext
               PROVE  /\ checkpoints \subseteq checkpoints'
                      /\ \A c \in checkpoints : Path(c.message)' = Path(c.message)
    OBVIOUS
  <2>1. Keeps(messages, messages') /\ checkpoints \subseteq checkpoints'
    BY NextStep
  <2>2. Tree(messages)
    BY TreeNow
  <2>3. Tree(messages')
    <3>1. BranchesTypeOK' /\ HistoryIsATree'
      BY DEF VersionInv
    <3>2. messages' \in Seq(Row) /\ MaxMessages \in Nat
      BY <3>1, Types DEF BranchesTypeOK, VersionInv
    <3> QED
      BY <3>1, <3>2, IsTree DEF HistoryIsATree, Rows
  <2>4. Extends(messages, messages')
    BY <2>1 DEF Keeps, Extends
  <2>5. ASSUME NEW c \in checkpoints
        PROVE  Path(c.message)' = Path(c.message)
    <3> DEFINE m == c.message
    <3>1. m \in 0..Len(messages)
      BY DEF VersionInv, BranchesTypeOK
    <3> HIDE DEF m
    <3>2. History(messages', m) = History(messages, m)
      BY <2>2, <2>3, <2>4, <3>1, HistoryStable
    <3>3. Path(m)' = History(messages', m) /\ Path(m) = History(messages, m)
      BY PathIsHistory
    <3> QED
      BY <3>2, <3>3 DEF m
  <2> QED
    BY <2>1, <2>5
<1> QED
  BY <1>1, BranchesInvariant, PTL DEF BranchesSpec, NothingRewritten

=============================================================================
