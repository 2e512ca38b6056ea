----------------------------- MODULE ApiProofs ------------------------------
(***************************************************************************)
(* What a step of a handler does to its record and to the tables, for any  *)
(* sets of prompts, texts and handlers: the lemmas that the proofs about   *)
(* Backpressure and PromptSystem have in common.                           *)
(***************************************************************************)
EXTENDS Api, TLAPS

USE TablesAssumption, ApiAssumption DEF TablesAssumption, ApiAssumption

\* Rows and handlers have their types, and a handler past its check has a prompt.
HandlersOK ==
    /\ request \in [Prompts -> RequestRow]
    /\ job \in [Prompts -> JobRow]
    /\ cache \subseteq Texts
    /\ call \in [Calls -> CallState]
    /\ \A c \in Calls : call[c].pc # "idle" => call[c].prompt \in Prompts

-----------------------------------------------------------------------------
(* Records of handlers                                                     *)

\* What was posted, and what was decided about it.
SameBody(q, r) == q.prompt = r.prompt /\ q.text = r.text
SameDecision(q, r) == q.action = r.action /\ q.notify = r.notify

\* One field of a record is written.
LEMMA FieldUpdates ==
    ASSUME NEW r \in CallState
    PROVE  /\ \A label \in ApiPcs :
                 /\ [r EXCEPT !.pc = label] \in CallState
                 /\ [r EXCEPT !.pc = label].pc = label
                 /\ SameBody([r EXCEPT !.pc = label], r)
                 /\ SameDecision([r EXCEPT !.pc = label], r)
                 /\ [r EXCEPT !.pc = label].reply = r.reply
           /\ \A action \in Actions :
                 /\ [r EXCEPT !.action = action] \in CallState
                 /\ [r EXCEPT !.action = action].action = action
                 /\ [r EXCEPT !.action = action].notify = r.notify
                 /\ SameBody([r EXCEPT !.action = action], r)
                 /\ [r EXCEPT !.action = action].reply = r.reply
           /\ [r EXCEPT !.notify = TRUE] \in CallState
           /\ [r EXCEPT !.notify = TRUE].notify = TRUE
           /\ [r EXCEPT !.notify = TRUE].action = r.action
           /\ [r EXCEPT !.notify = TRUE].pc = r.pc
           /\ SameBody([r EXCEPT !.notify = TRUE], r)
           /\ [r EXCEPT !.notify = TRUE].reply = r.reply
  BY DEF CallState, SameBody, SameDecision

LEMMA FlagUpdates ==
    ASSUME NEW r \in CallState, NEW b \in BOOLEAN
    PROVE  /\ [r EXCEPT !.woken = b] \in CallState
           /\ [r EXCEPT !.woken = b].pc = r.pc
           /\ SameBody([r EXCEPT !.woken = b], r)
           /\ SameDecision([r EXCEPT !.woken = b], r)
           /\ [r EXCEPT !.woken = b].reply = r.reply
           /\ [r EXCEPT !.late = b] \in CallState
           /\ [r EXCEPT !.late = b].pc = r.pc
           /\ SameBody([r EXCEPT !.late = b], r)
           /\ SameDecision([r EXCEPT !.late = b], r)
           /\ [r EXCEPT !.late = b].reply = r.reply
  BY DEF CallState, SameBody, SameDecision

LEMMA ReplyUpdate ==
    ASSUME NEW r \in CallState, NEW reply \in Replies
    PROVE  /\ [r EXCEPT !.reply = reply] \in CallState
           /\ [r EXCEPT !.reply = reply].reply = reply
           /\ [r EXCEPT !.reply = reply].pc = r.pc
           /\ SameBody([r EXCEPT !.reply = reply], r)
           /\ SameDecision([r EXCEPT !.reply = reply], r)
  BY DEF CallState, SameBody, SameDecision


\* A handler that returns ...
LEMMA ReturnedRecord ==
    ASSUME NEW r \in CallState, NEW reply \in Replies
    PROVE  LET q == [r EXCEPT !.pc = "idle", !.woken = FALSE, !.late = FALSE,
                              !.reply = reply]
           IN  /\ q \in CallState /\ q.pc = "idle" /\ q.reply = reply
               /\ SameBody(q, r) /\ SameDecision(q, r)
  <1> DEFINE r1 == [r EXCEPT !.pc = "idle"]
             r2 == [r1 EXCEPT !.woken = FALSE]
             r3 == [r2 EXCEPT !.late = FALSE]
             r4 == [r3 EXCEPT !.reply = reply]
  <1>1. r1 \in CallState /\ r1.pc = "idle" /\ SameBody(r1, r) /\ SameDecision(r1, r)
    BY FieldUpdates DEF ApiPcs
  <1> HIDE DEF r1
  <1>2. r2 \in CallState /\ r2.pc = "idle" /\ SameBody(r2, r) /\ SameDecision(r2, r)
    BY <1>1, FlagUpdates DEF SameBody, SameDecision
  <1> HIDE DEF r2
  <1>3. r3 \in CallState /\ r3.pc = "idle" /\ SameBody(r3, r) /\ SameDecision(r3, r)
    BY <1>2, FlagUpdates DEF SameBody, SameDecision
  <1> HIDE DEF r3
  <1>4. /\ r4 \in CallState /\ r4.pc = "idle" /\ r4.reply = reply
        /\ SameBody(r4, r) /\ SameDecision(r4, r)
    BY <1>3, ReplyUpdate DEF SameBody, SameDecision
  <1> QED BY <1>4 DEF r1, r2, r3, r4

\* ... one that has decided, and one that has enqueued its prompt.
LEMMA DecidedRecord ==
    ASSUME NEW r \in CallState, NEW label \in ApiPcs, NEW a \in Actions
    PROVE  LET q == [r EXCEPT !.action = a, !.pc = label]
           IN  /\ q \in CallState /\ q.pc = label /\ q.action = a
               /\ SameBody(q, r) /\ q.notify = r.notify /\ q.reply = r.reply
  <1> DEFINE r1 == [r EXCEPT !.action = a]
             r2 == [r1 EXCEPT !.pc = label]
  <1>1. /\ r1 \in CallState /\ r1.action = a /\ r1.notify = r.notify
        /\ SameBody(r1, r) /\ r1.reply = r.reply
    BY FieldUpdates
  <1> HIDE DEF r1
  <1>2. /\ r2 \in CallState /\ r2.pc = label /\ r2.action = a
        /\ SameBody(r2, r) /\ r2.notify = r.notify /\ r2.reply = r.reply
    BY <1>1, FieldUpdates DEF SameBody, SameDecision
  <1> QED BY <1>2 DEF r1, r2

LEMMA EnqueuedRecord ==
    ASSUME NEW r \in CallState, NEW label \in ApiPcs
    PROVE  LET q == [r EXCEPT !.pc = label, !.notify = TRUE]
           IN  /\ q \in CallState /\ q.pc = label /\ q.notify = TRUE
               /\ SameBody(q, r) /\ q.action = r.action /\ q.reply = r.reply
  <1> DEFINE r1 == [r EXCEPT !.pc = label]
             r2 == [r1 EXCEPT !.notify = TRUE]
  <1>1. /\ r1 \in CallState /\ r1.pc = label /\ SameBody(r1, r) /\ SameDecision(r1, r)
        /\ r1.reply = r.reply
    BY FieldUpdates
  <1> HIDE DEF r1
  <1>2. /\ r2 \in CallState /\ r2.pc = label /\ r2.notify = TRUE
        /\ SameBody(r2, r) /\ r2.action = r.action /\ r2.reply = r.reply
    BY <1>1, FieldUpdates DEF SameBody, SameDecision
  <1> QED BY <1>2 DEF r1, r2

\* A handler at rest has its type.
LEMMA IdleCallType == IdleCall \in CallState /\ IdleCall.pc = "idle"
  BY DEF IdleCall, CallState, ApiPcs, Actions, Priority, Bare, Replies

\* The record of a handler that has taken a request.
LEMMA SubmittedRecord ==
    ASSUME NEW body \in Submissions
    PROVE  LET q == [IdleCall EXCEPT !.pc = "check", !.prompt = body.prompt,
                                     !.text = body.text, !.priority = body.priority]
           IN  /\ q \in CallState /\ q.pc = "check"
               /\ q.prompt \in Prompts /\ q.text \in Texts
               /\ q.action = "none" /\ ~q.notify /\ q.reply = Bare("none")
  <1> DEFINE r1 == [IdleCall EXCEPT !.pc = "check"]
             r2 == [r1 EXCEPT !.prompt = body.prompt]
             r3 == [r2 EXCEPT !.text = body.text]
             r4 == [r3 EXCEPT !.priority = body.priority]
  <1>0. body.prompt \in Prompts /\ body.text \in Texts /\ body.priority \in Priority
    OBVIOUS
  <1>1. /\ r1 \in CallState /\ r1.pc = "check"
        /\ r1.action = "none" /\ ~r1.notify /\ r1.reply = Bare("none")
    <2>1. "check" \in ApiPcs /\ IdleCall.action = "none" /\ IdleCall.notify = FALSE
          /\ IdleCall.reply = Bare("none")
      BY DEF ApiPcs, Busy, IdleCall
    <2> QED BY <2>1, IdleCallType, FieldUpdates DEF SameDecision
  <1> HIDE DEF r1
  <1>2. /\ r2 \in CallState /\ r2.pc = "check" /\ r2.prompt = body.prompt
        /\ r2.action = "none" /\ ~r2.notify /\ r2.reply = Bare("none")
    BY <1>0, <1>1 DEF CallState
  <1> HIDE DEF r2
  <1>3. /\ r3 \in CallState /\ r3.pc = "check" /\ r3.prompt = body.prompt
        /\ r3.text = body.text
        /\ r3.action = "none" /\ ~r3.notify /\ r3.reply = Bare("none")
    BY <1>0, <1>2 DEF CallState
  <1> HIDE DEF r3
  <1>4. /\ r4 \in CallState /\ r4.pc = "check" /\ r4.prompt = body.prompt
        /\ r4.text = body.text
        /\ r4.action = "none" /\ ~r4.notify /\ r4.reply = Bare("none")
    BY <1>0, <1>3 DEF CallState
  <1> QED BY <1>0, <1>4 DEF r1, r2, r3, r4

\* A notification touches nothing but "woken".
LEMMA WokenCalls ==
    ASSUME call \in [Calls -> CallState], NEW p, call' = Woken(p)
    PROVE  /\ call' \in [Calls -> CallState]
           /\ \A c \in Calls :
                 /\ call'[c].pc = call[c].pc /\ call'[c].reply = call[c].reply
                 /\ SameBody(call'[c], call[c]) /\ SameDecision(call'[c], call[c])
  <1>1. ASSUME NEW c \in Calls
        PROVE  /\ call'[c] \in CallState
               /\ call'[c].pc = call[c].pc /\ call'[c].reply = call[c].reply
               /\ SameBody(call'[c], call[c]) /\ SameDecision(call'[c], call[c])
    <2> DEFINE r == call[c]
    <2>1. r \in CallState
      OBVIOUS
    <2>2. call'[c] = r \/ call'[c] = [r EXCEPT !.woken = TRUE]
      BY DEF Woken
    <2> HIDE DEF r
    <2>3. /\ call'[c] \in CallState /\ call'[c].pc = r.pc /\ call'[c].reply = r.reply
          /\ SameBody(call'[c], r) /\ SameDecision(call'[c], r)
      BY <2>1, <2>2, FlagUpdates DEF SameBody, SameDecision
    <2> QED BY <2>3 DEF r
  <1>2. call' = [c \in Calls |-> call'[c]]
    BY DEF Woken
  <1> QED BY <1>1, <1>2

-----------------------------------------------------------------------------
(* Steps of handlers                                                       *)

\* What a step does when it makes q the record of handler c: it takes a request,
Takes(c, q) ==
    /\ call[c].pc = "idle"
    /\ q.pc = "check" /\ q.prompt \in Prompts /\ q.text \in Texts
    /\ q.action = "none" /\ ~q.notify /\ q.reply = Bare("none")
    /\ UNCHANGED tables

\* is answered without a row,
Refuses(c, q) ==
    /\ call[c].pc # "idle" /\ q.pc = "idle"
    /\ \E code \in {"conflict", "full", "error"} : q.reply = Bare(code)
    /\ SameDecision(q, call[c])
    /\ call[c].pc = "resetJob" => "resetJob" \in ApiFailAt
    /\ UNCHANGED tables

\* is answered with its row,
ShowsRow(c, q) ==
    /\ call[c].pc \in {"reread", "precheck", "poll", "final"} /\ q.pc = "idle"
    /\ q.reply = [code |-> "ok", status |-> Row(c).status, response |-> Row(c).response]
    /\ SameDecision(q, call[c])
    /\ UNCHANGED tables

\* decides what to do about its prompt,
Decides(c, q) ==
    /\ call[c].pc = "check" /\ ~Conflicts(c)
    /\ Row(c).status \in {"absent", "completed", "queued", "failed"}
    /\ q.action = Decision[Row(c).status] /\ q.pc = Branch[Decision[Row(c).status]]
    /\ q.notify = call[c].notify
    /\ UNCHANGED tables

\* goes on, or notices that it is late,
GoesOn(c, q) ==
    /\ \/ /\ call[c].pc = "depth" /\ q.pc = "insert"
          /\ Cardinality(InFlight) < MaxDepth
       \/ call[c].pc = "insert" /\ q.pc = "refetch" /\ Row(c).status # "absent"
       \/ call[c].pc = "refetch" /\ q.pc = "precheck"
       \/ call[c].pc = "precheck" /\ q.pc = "listen"
       \/ call[c].pc = "listen" /\ q.pc \in {"wakeWorkers", "wait"}
       \/ call[c].pc = "wakeWorkers" /\ q.pc = "wait"
       \/ call[c].pc = "wait" /\ q.pc \in {"poll", "final"}
       \/ call[c].pc = "poll" /\ q.pc = "wait"
       \/ call[c].pc \in {"listen", "wakeWorkers", "wait", "poll"} /\ q.pc = call[c].pc
    /\ SameDecision(q, call[c])
    /\ UNCHANGED tables

\* or writes rows.
Inserts(c, q) ==
    /\ call[c].pc = "insert" /\ Row(c).status = "absent" /\ q.pc = "precheck"
    /\ q.action = call[c].action /\ q.notify
    /\ request' = [request EXCEPT ![call[c].prompt] = NewRequest(call[c].text)]
    /\ job' = [job EXCEPT ![call[c].prompt] = NewJob(call[c].priority)]
    /\ UNCHANGED cache

Requeues(c, q) ==
    /\ call[c].pc = "requeueRequest" /\ q.pc = "resetJob"
    /\ SameDecision(q, call[c])
    /\ request' = [request EXCEPT ![call[c].prompt] = QueuedRequest(Row(c))]
    /\ UNCHANGED <<job, cache>>

Resets(c, q) ==
    /\ call[c].pc = "resetJob" /\ q.pc = "precheck"
    /\ q.action = call[c].action /\ q.notify
    /\ job' = [job EXCEPT ![call[c].prompt] = ResetJob(job[call[c].prompt])]
    /\ UNCHANGED <<request, cache>>

\* A busy handler keeps the request it took, and has no reply before it returns.
Handles(c, q) ==
    \/ Takes(c, q)
    \/ SameBody(q, call[c]) /\ (Refuses(c, q) \/ ShowsRow(c, q))
    \/ /\ SameBody(q, call[c]) /\ q.reply = call[c].reply
       /\ Decides(c, q) \/ GoesOn(c, q) \/ Inserts(c, q) \/ Requeues(c, q) \/ Resets(c, q)

\* The replies of a handler.
LEMMA ReplyTypes ==
    ASSUME HandlersOK, NEW c \in Calls, call[c].prompt \in Prompts
    PROVE  /\ \A code \in {"none", "conflict", "full", "error"} : Bare(code) \in Replies
           /\ [code |-> "ok", status |-> Row(c).status, response |-> Row(c).response]
                 \in Replies
  BY DEF HandlersOK, Bare, Replies, Row, RequestRow

\* Every step of a handler is one of these.
LEMMA HandlerEffect ==
    ASSUME HandlersOK, NEW c \in Calls, ApiStep(c)
    PROVE  \E q \in CallState : call' = [call EXCEPT ![c] = q] /\ Handles(c, q)
  <1> DEFINE r == call[c]
             Goal == \E q \in CallState : call' = [call EXCEPT ![c] = q] /\ Handles(c, q)
  <1> SUFFICES Goal
    OBVIOUS
  <1>0. r \in CallState /\ call \in [Calls -> CallState]
    BY DEF HandlersOK
  <1>1. ASSUME NEW q \in CallState, call' = [call EXCEPT ![c] = q], Handles(c, q)
        PROVE  Goal
    BY <1>1
  <1> HIDE DEF Goal
  <1>2. CASE Submit(c)
    <2>1. PICK body \in Submissions :
             call' = [call EXCEPT ![c] =
                 [IdleCall EXCEPT !.pc = "check", !.prompt = body.prompt,
                                  !.text = body.text, !.priority = body.priority]]
      BY <1>2 DEF Submit
    <2> DEFINE q == [IdleCall EXCEPT !.pc = "check", !.prompt = body.prompt,
                                     !.text = body.text, !.priority = body.priority]
    <2>2. /\ q \in CallState /\ q.pc = "check"
          /\ q.prompt \in Prompts /\ q.text \in Texts
          /\ q.action = "none" /\ ~q.notify /\ q.reply = Bare("none")
      BY SubmittedRecord
    <2>3. call' = [call EXCEPT ![c] = q]
      BY <2>1
    <2> HIDE DEF q
    <2>4. Takes(c, q)
      BY <1>2, <2>2 DEF Submit, At, Takes
    <2> QED BY <1>1, <2>2, <2>3, <2>4 DEF Handles
  \* The forms of a busy handler's step.
  <1>3. ASSUME NEW label \in ApiPcs, Proceed(c, label),
               \A q : q.pc = label /\ SameDecision(q, r) => GoesOn(c, q) \/ Requeues(c, q)
        PROVE  Goal
    <2> DEFINE q == [r EXCEPT !.pc = label]
    <2>1. /\ q \in CallState /\ q.pc = label
          /\ SameBody(q, r) /\ SameDecision(q, r) /\ q.reply = r.reply
      BY <1>0, FieldUpdates
    <2>2. call' = [call EXCEPT ![c] = q]
      BY <1>3 DEF Proceed
    <2> HIDE DEF q
    <2> QED BY <1>1, <1>3, <2>1, <2>2 DEF Handles
  <1>4. ASSUME NEW reply \in Replies, Return(c, reply),
               \A q : q.pc = "idle" /\ q.reply = reply /\ SameDecision(q, r) =>
                         Refuses(c, q) \/ ShowsRow(c, q)
        PROVE  Goal
    <2> DEFINE q == [r EXCEPT !.pc = "idle", !.woken = FALSE, !.late = FALSE,
                              !.reply = reply]
    <2>1. /\ q \in CallState /\ q.pc = "idle" /\ q.reply = reply
          /\ SameBody(q, r) /\ SameDecision(q, r)
      BY <1>0, ReturnedRecord
    <2>2. call' = [call EXCEPT ![c] = q]
      BY <1>4 DEF Return
    <2> HIDE DEF q
    <2> QED BY <1>1, <1>4, <2>1, <2>2 DEF Handles
  <1>5. ASSUME call' = [call EXCEPT ![c].pc = "precheck", ![c].notify = TRUE],
               \A q : q.pc = "precheck" /\ q.notify /\ q.action = r.action =>
                         Inserts(c, q) \/ Resets(c, q)
        PROVE  Goal
    <2> DEFINE q == [r EXCEPT !.pc = "precheck", !.notify = TRUE]
    <2>1. /\ q \in CallState /\ q.pc = "precheck" /\ q.notify = TRUE
          /\ SameBody(q, r) /\ q.action = r.action /\ q.reply = r.reply
      <3>1. "precheck" \in ApiPcs
        BY DEF ApiPcs, Busy
      <3> QED BY <1>0, <3>1, EnqueuedRecord
    <2>2. call' = [call EXCEPT ![c] = q]
      BY <1>0, <1>5
    <2> HIDE DEF q
    <2> QED BY <1>1, <1>5, <2>1, <2>2 DEF Handles
  <1>6. "insert" \in ApiPcs /\ "refetch" \in ApiPcs /\ "resetJob" \in ApiPcs
        /\ "precheck" \in ApiPcs /\ "listen" \in ApiPcs /\ "wakeWorkers" \in ApiPcs
        /\ "wait" \in ApiPcs /\ "poll" \in ApiPcs /\ "final" \in ApiPcs
    BY DEF ApiPcs, Busy
  <1>7. Submit(c) \/ (r.pc # "idle" /\ call[c].prompt \in Prompts)
    BY DEF ApiStep, CallStep, Check, Reread, CheckDepth, Insert, Refetch,
           RequeueRequest, ResetItsJob, Precheck, Listen, WakeWorkers, Wait,
           Poll, FinalRead, Deadline, CallLost, At, Busy, HandlersOK
  <1> SUFFICES ASSUME r.pc # "idle", call[c].prompt \in Prompts
               PROVE  Goal
    BY <1>2, <1>7
  <1>8. /\ \A code \in {"conflict", "full", "error"} : Bare(code) \in Replies
        /\ [code |-> "ok", status |-> Row(c).status, response |-> Row(c).response]
              \in Replies
    BY ReplyTypes
  <1>9. ASSUME UNCHANGED tables, ReturnRow(c),
               r.pc \in {"reread", "precheck", "poll", "final"}
        PROVE  Goal
    BY <1>4, <1>8, <1>9 DEF ReturnRow, ShowsRow
  <1>10. CASE Check(c)
    <2>1. CASE Conflicts(c) /\ Return(c, Bare("conflict"))
      BY <1>4, <1>8, <1>10, <2>1 DEF Check, At, Conflicts, Refuses
    <2>2. CASE /\ ~Conflicts(c)
               /\ call' = [call EXCEPT ![c].action = Decision[Row(c).status],
                                       ![c].pc = Branch[Decision[Row(c).status]]]
      <3>1. Row(c).status \in {"absent", "queued", "completed", "failed"}
        BY DEF HandlersOK, Row, RequestRow, RequestStatus
      <3>2. PICK a \in Actions, label \in ApiPcs :
               /\ a = Decision[Row(c).status] /\ label = Branch[Decision[Row(c).status]]
               /\ call' = [call EXCEPT ![c].action = a, ![c].pc = label]
        <4>1. /\ Decision[Row(c).status] \in Actions
              /\ Branch[Decision[Row(c).status]] \in ApiPcs
          BY <3>1 DEF Decision, Branch, Actions, ApiPcs, Busy
        <4> QED BY <2>2, <4>1
      <3> DEFINE q == [r EXCEPT !.action = a, !.pc = label]
      <3>3. call' = [call EXCEPT ![c] = q]
        BY <1>0, <3>2
      <3>4. /\ q \in CallState /\ q.pc = label /\ q.action = a
            /\ SameBody(q, r) /\ q.notify = r.notify /\ q.reply = r.reply
        <4>1. q.pc = label /\ q.action = a /\ q.notify = r.notify /\ q.reply = r.reply
          BY <1>0 DEF CallState
        <4>2. q \in CallState /\ SameBody(q, r)
          BY <1>0, DecidedRecord
        <4> QED BY <4>1, <4>2
      <3> HIDE DEF q
      <3>5. Decides(c, q)
        <4>1. call[c].pc = "check" /\ UNCHANGED tables
          BY <1>10 DEF Check, At
        <4> QED BY <2>2, <3>1, <3>2, <3>4, <4>1 DEF Decides
      <3> QED BY <1>1, <3>3, <3>4, <3>5 DEF Handles
    <2> QED BY <1>10, <2>1, <2>2 DEF Check
  <1>11. CASE Reread(c) \/ FinalRead(c)
    BY <1>9, <1>11 DEF Reread, FinalRead, At
  <1>12. CASE CheckDepth(c)
    <2>1. CASE Return(c, Bare("full"))
      BY <1>4, <1>8, <1>12, <2>1 DEF CheckDepth, At, Refuses
    <2>2. CASE Cardinality(InFlight) < MaxDepth /\ Proceed(c, "insert")
      BY <1>3, <1>6, <1>12, <2>2 DEF CheckDepth, At, GoesOn
    <2> QED BY <1>12, <2>1, <2>2 DEF CheckDepth
  <1>13. CASE Insert(c)
    <2>1. CASE Row(c).status = "absent"
      BY <1>5, <1>13, <2>1 DEF Insert, InsertedJob, At, Inserts
    <2>2. CASE Row(c).status # "absent"
      BY <1>3, <1>6, <1>13, <2>2 DEF Insert, At, GoesOn, tables
    <2> QED BY <2>1, <2>2
  <1>14. CASE Refetch(c)
    BY <1>3, <1>6, <1>14 DEF Refetch, At, GoesOn
  <1>15. CASE RequeueRequest(c)
    <2>1. request' = [request EXCEPT ![call[c].prompt] = QueuedRequest(Row(c))]
      BY <1>15 DEF RequeueRequest, Row
    <2> QED BY <1>3, <1>6, <1>15, <2>1 DEF RequeueRequest, At, Requeues
  <1>16. CASE ResetItsJob(c)
    <2>1. job' = [job EXCEPT ![call[c].prompt] = ResetJob(job[call[c].prompt])]
      BY <1>16 DEF ResetItsJob
    <2> QED BY <1>5, <1>16, <2>1 DEF ResetItsJob, At, Resets
  <1>17. CASE Precheck(c)
    BY <1>3, <1>6, <1>9, <1>17 DEF Precheck, At, GoesOn
  <1>18. CASE Listen(c)
    BY <1>3, <1>6, <1>18 DEF Listen, At, GoesOn
  <1>19. CASE WakeWorkers(c)
    BY <1>3, <1>6, <1>19 DEF WakeWorkers, At, GoesOn
  <1>20. CASE Wait(c)
    BY <1>3, <1>6, <1>20 DEF Wait, At, GoesOn
  <1>21. CASE Poll(c)
    BY <1>3, <1>6, <1>9, <1>21 DEF Poll, At, GoesOn
  <1>22. CASE Deadline(c)
    <2> DEFINE q == [r EXCEPT !.late = TRUE]
    <2>1. /\ q \in CallState /\ q.pc = r.pc
          /\ SameBody(q, r) /\ SameDecision(q, r) /\ q.reply = r.reply
      BY <1>0, FlagUpdates
    <2>2. call' = [call EXCEPT ![c] = q]
      BY <1>22 DEF Deadline
    <2> HIDE DEF q
    <2>3. GoesOn(c, q)
      BY <1>22, <2>1 DEF Deadline, GoesOn
    <2> QED BY <1>1, <2>1, <2>2, <2>3 DEF Handles
  <1>23. CASE CallLost(c)
    <2>1. \A q : q.pc = "idle" /\ q.reply = Bare("error") /\ SameDecision(q, r) => Refuses(c, q)
      BY <1>23 DEF CallLost, Refuses
    <2> QED BY <1>4, <1>8, <1>23, <2>1 DEF CallLost
  <1> QED BY <1>10, <1>11, <1>12, <1>13, <1>14, <1>15, <1>16, <1>17, <1>18, <1>19,
             <1>20, <1>21, <1>22, <1>23, <1>2 DEF ApiStep, CallStep

-----------------------------------------------------------------------------
(* The rows that handlers write                                            *)

\* reset_job writes a job row, whatever the row was.
LEMMA ResetRow ==
    ASSUME NEW r \in JobRow
    PROVE  /\ ResetJob(r) \in JobRow
           /\ ResetJob(r).status = "queued" /\ ResetJob(r).owner = None
           /\ ResetJob(r).attempts = 0 /\ ResetJob(r).lease = "null" /\ ResetJob(r).due
  <1> DEFINE r1 == [r EXCEPT !.status = "queued"]
             r2 == [r1 EXCEPT !.owner = None]
             r3 == [r2 EXCEPT !.attempts = 0]
             r4 == [r3 EXCEPT !.lease = "null"]
             r5 == [r4 EXCEPT !.due = TRUE]
  <1>1. r1 \in JobRow /\ r1.status = "queued"
    BY DEF JobRow, JobStatus
  <1> HIDE DEF r1
  <1>2. r2 \in JobRow /\ r2.status = "queued" /\ r2.owner = None
    BY <1>1 DEF JobRow
  <1> HIDE DEF r2
  <1>3. r3 \in JobRow /\ r3.status = "queued" /\ r3.owner = None /\ r3.attempts = 0
    BY <1>2 DEF JobRow
  <1> HIDE DEF r3
  <1>4. /\ r4 \in JobRow /\ r4.status = "queued" /\ r4.owner = None /\ r4.attempts = 0
        /\ r4.lease = "null"
    BY <1>3 DEF JobRow
  <1> HIDE DEF r4
  <1>5. /\ r5 \in JobRow /\ r5.status = "queued" /\ r5.owner = None /\ r5.attempts = 0
        /\ r5.lease = "null" /\ r5.due = TRUE
    BY <1>4 DEF JobRow
  <1> QED BY <1>5 DEF r1, r2, r3, r4, r5, ResetJob

\* What insert_with_job and update_status write.
LEMMA NewRows ==
    /\ \A t \in Texts \cup {None} :
          /\ NewRequest(t) \in RequestRow
          /\ NewRequest(t).status = "queued" /\ NewRequest(t).text = t
          /\ NewRequest(t).response = None
    /\ \A prio \in Priority :
          /\ NewJob(prio) \in JobRow
          /\ NewJob(prio).status = "queued" /\ NewJob(prio).owner = None
          /\ NewJob(prio).attempts = 0 /\ NewJob(prio).lease = "null" /\ NewJob(prio).due
    /\ \A r \in RequestRow :
          /\ QueuedRequest(r) \in RequestRow
          /\ QueuedRequest(r).status = "queued" /\ QueuedRequest(r).text = r.text
          /\ QueuedRequest(r).response = r.response
  <1>1. \A t \in Texts \cup {None} :
          /\ NewRequest(t) \in RequestRow
          /\ NewRequest(t).status = "queued" /\ NewRequest(t).text = t
          /\ NewRequest(t).response = None
    BY DEF NewRequest, RequestRow, RequestStatus
  <1>2. \A prio \in Priority :
          /\ NewJob(prio) \in JobRow
          /\ NewJob(prio).status = "queued" /\ NewJob(prio).owner = None
          /\ NewJob(prio).attempts = 0 /\ NewJob(prio).lease = "null" /\ NewJob(prio).due
    BY DEF NewJob, JobRow, JobStatus
  <1>3. \A r \in RequestRow :
          /\ QueuedRequest(r) \in RequestRow
          /\ QueuedRequest(r).status = "queued" /\ QueuedRequest(r).text = r.text
          /\ QueuedRequest(r).response = r.response
    BY DEF QueuedRequest, RequestRow, RequestStatus
  <1> QED BY <1>1, <1>2, <1>3

\* The prompt of a busy handler, and what its record says.
LEMMA BusyHandler ==
    ASSUME HandlersOK, NEW c \in Calls, call[c].pc # "idle"
    PROVE  /\ call[c].prompt \in Prompts
           /\ call[c].text \in Texts \cup {None}
           /\ call[c].priority \in Priority
           /\ request[call[c].prompt] \in RequestRow /\ job[call[c].prompt] \in JobRow
  BY DEF HandlersOK, CallState

\* A handler's step changes no other handler's record and keeps the types.
LEMMA HandlersKept ==
    ASSUME HandlersOK, NEW c \in Calls, NEW q \in CallState,
           call' = [call EXCEPT ![c] = q], Handles(c, q)
    PROVE  /\ HandlersOK'
           /\ call'[c] = q
           /\ \A d \in Calls \ {c} : call'[d] = call[d]
  <1>1. call'[c] = q /\ \A d \in Calls \ {c} : call'[d] = call[d]
    BY DEF HandlersOK
  <1>2. call' \in [Calls -> CallState]
    BY DEF HandlersOK
  <1>3. q.pc # "idle" => q.prompt \in Prompts
    BY BusyHandler DEF Handles, Takes, Refuses, ShowsRow, Decides, GoesOn, Inserts,
       Requeues, Resets, SameBody
  <1>4. /\ request' \in [Prompts -> RequestRow]
        /\ job' \in [Prompts -> JobRow]
        /\ cache' \subseteq Texts
    <2>1. CASE UNCHANGED tables
      BY <2>1 DEF tables, HandlersOK
    <2>2. CASE Inserts(c, q)
      BY <2>2, BusyHandler, NewRows DEF Inserts, HandlersOK
    <2>3. CASE Requeues(c, q)
      BY <2>3, BusyHandler, NewRows DEF Requeues, HandlersOK, Row
    <2>4. CASE Resets(c, q)
      BY <2>4, BusyHandler, ResetRow DEF Resets, HandlersOK
    <2> QED BY <2>1, <2>2, <2>3, <2>4 DEF Handles, Takes, Refuses, ShowsRow, Decides, GoesOn
  <1>5. ASSUME NEW d \in Calls, call'[d].pc # "idle" PROVE call'[d].prompt \in Prompts
    BY <1>1, <1>3, <1>5 DEF HandlersOK
  <1> QED BY <1>1, <1>2, <1>4, <1>5 DEF HandlersOK
=============================================================================
