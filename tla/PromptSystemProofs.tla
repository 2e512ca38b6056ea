------------------------- MODULE PromptSystemProofs -------------------------
(***************************************************************************)
(* Proofs about the whole system, for any sets of prompts, workers, texts  *)
(* and handlers: type correctness, that a client is given an answer to its *)
(* own text, and - when no slot is stopped between the transactions that   *)
(* settle a job - that no request is stranded, that what clients were told *)
(* stays true, and that the tables and slots implement PromptQueue.        *)
(***************************************************************************)
EXTENDS PromptSystem, WorkersSafety, ApiProofs

USE TablesAssumption, WorkersAssumption, ApiAssumption, PromptSystemAssumption
    DEF TablesAssumption, WorkersAssumption, ApiAssumption, PromptSystemAssumption

-----------------------------------------------------------------------------
(* The two sides of the system                                             *)

\* The workers take a step, which may wake handlers, or a handler does.
LEMMA SystemSteps ==
    ASSUME [SystemNext]_systemVars
    PROVE  \/ [Next]_vars /\ (UNCHANGED call \/ \E p : call' = Woken(p))
           \/ \E c \in Calls : ApiStep(c) /\ UNCHANGED slot
  BY DEF SystemNext, WorkerSide, Notify, Next, SlotStep, vars, systemVars

\* The workers' side of the types is module Workers', the handlers' ApiProofs'.
LEMMA SystemTypes == SystemTypeOK => TypeOK /\ HandlersOK
  BY DEF SystemTypeOK, TypeOK, TablesTypeOK, HandlersOK

\* How a step of the workers changes a request.
LEMMA WorkersRequests ==
    ASSUME TypeOK, [Next]_vars, NEW p \in Prompts
    PROVE  \/ request'[p] = request[p]
           \/ \E w \in Workers :
                 /\ FinishRequest(w) /\ slot[w].prompt = p
                 /\ request'[p] = CompletedRequest(request[p], slot[w].answer)
           \/ \E w \in Workers :
                 /\ MarkFailed(w) /\ slot[w].prompt = p
                 /\ request'[p] = FailedRequest(request[p])
           \/ \E w \in Workers :
                 /\ Requeue(w) /\ slot[w].prompt = p
                 /\ request'[p] = QueuedRequest(request[p])
           \/ /\ Reap /\ Expired(job[p])
              /\ request'[p] = ReapedRequest(request[p], job[p])
  <1>1. request \in [Prompts -> RequestRow]
    BY DEF TypeOK, TablesTypeOK
  <1>2. ASSUME NEW w \in Workers, FinishRequest(w) \/ MarkFailed(w) \/ Requeue(w)
        PROVE  \/ request'[p] = request[p]
               \/ /\ FinishRequest(w) /\ slot[w].prompt = p
                  /\ request'[p] = CompletedRequest(request[p], slot[w].answer)
               \/ /\ MarkFailed(w) /\ slot[w].prompt = p
                  /\ request'[p] = FailedRequest(request[p])
               \/ /\ Requeue(w) /\ slot[w].prompt = p
                  /\ request'[p] = QueuedRequest(request[p])
    BY <1>1, <1>2 DEF FinishRequest, MarkFailed, Requeue, WriteRequest
  <1>3. CASE Reap
    BY <1>3 DEF Reap
  <1>4. CASE UNCHANGED request
    BY <1>4
  <1> QED BY <1>2, <1>3, <1>4
          DEF Next, SlotStep, Claim, PipelineStep, LookupExact, CountHit, LookupNearest,
              Acquire, CallLLM, StoreAnswer, FinishJob, Defer, MarkDead, Release, Wake,
              NotifyDone, Heartbeat, Accident, DbError, Crash, Stop, Passage, LeaseLapses,
              BackoffElapses, tables, vars

\* Workers neither make a request disappear nor change its text.
LEMMA WorkersKeepRequests ==
    ASSUME TypeOK, [Next]_vars, NEW p \in Prompts
    PROVE  /\ request'[p].text = request[p].text
           /\ request[p].status # "absent" => request'[p].status # "absent"
  <1>1. request[p] \in RequestRow /\ job[p] \in JobRow
    BY DEF TypeOK, TablesTypeOK
  <1>2. \A w \in Workers : slot[w].answer \in Texts \cup {None}
    BY DEF TypeOK, SlotState
  <1> QED BY <1>1, <1>2, WorkersRequests, RequestColumns

\* How a step of a handler changes rows: those of its prompt, by one of three
\* transactions.
LEMMA HandlersRequests ==
    ASSUME HandlersOK, NEW c \in Calls, NEW q \in CallState, Handles(c, q), NEW p \in Prompts
    PROVE  /\ UNCHANGED cache
           /\ \/ request'[p] = request[p] /\ job'[p] = job[p]
              \/ /\ Inserts(c, q) /\ call[c].prompt = p /\ request[p].status = "absent"
                 /\ request'[p] = NewRequest(call[c].text)
                 /\ job'[p] = NewJob(call[c].priority)
              \/ /\ Requeues(c, q) /\ call[c].prompt = p
                 /\ request'[p] = QueuedRequest(request[p]) /\ job'[p] = job[p]
              \/ /\ Resets(c, q) /\ call[c].prompt = p
                 /\ request'[p] = request[p] /\ job'[p] = ResetJob(job[p])
  <1>1. request \in [Prompts -> RequestRow] /\ job \in [Prompts -> JobRow]
    BY DEF HandlersOK
  <1>2. CASE UNCHANGED tables
    BY <1>2 DEF tables
  <1>3. CASE Inserts(c, q)
    BY <1>1, <1>3 DEF Inserts, Row
  <1>4. CASE Requeues(c, q)
    BY <1>1, <1>4 DEF Requeues, Row
  <1>5. CASE Resets(c, q)
    BY <1>1, <1>5 DEF Resets
  <1> QED BY <1>2, <1>3, <1>4, <1>5 DEF Handles, Takes, Refuses, ShowsRow, Decides, GoesOn

-----------------------------------------------------------------------------
(* Type correctness                                                        *)

\* A handler that has taken a request knows its text.
SystemTypeInv ==
    /\ SystemTypeOK
    /\ \A c \in Calls : call[c].pc # "idle" => call[c].text \in Texts

LEMMA SystemTypeInit == SystemInit => SystemTypeInv
  <1> SUFFICES ASSUME SystemInit PROVE SystemTypeInv
    OBVIOUS
  <1>1. NoRequest \in RequestRow /\ NoJob \in JobRow
        /\ NoRequest.status = "absent" /\ NoJob.status = "absent"
    BY DEF NoRequest, NoJob, RequestRow, JobRow, Priority
  <1>2. TablesTypeOK
    BY <1>1 DEF SystemInit, TablesTypeOK, RowsPaired
  <1>3. TypeOK
    BY <1>2, EmptySlots DEF SystemInit, TypeOK, InPipeline, PipelinePcs, RunPcs, HandlerPcs
  <1>4. call \in [Calls -> CallState] /\ \A c \in Calls : call[c].pc = "idle"
    BY IdleCallType DEF SystemInit, ApiInit
  <1> QED BY <1>3, <1>4 DEF SystemTypeInv, SystemTypeOK, Busy

\* What a step of a handler does to its record and to the others'.
LEMMA HandlerStep ==
    ASSUME SystemTypeInv, NEW c \in Calls, ApiStep(c), UNCHANGED slot
    PROVE  \E q \in CallState :
              /\ call' = [call EXCEPT ![c] = q]
              /\ Handles(c, q)
              /\ HandlersOK'
              /\ call'[c] = q
              /\ \A d \in Calls \ {c} : call'[d] = call[d]
  BY SystemTypes, HandlerEffect, HandlersKept DEF SystemTypeInv

\* A handler's step keeps the types.
LEMMA HandlerTypeInv ==
    ASSUME SystemTypeInv, NEW c \in Calls, ApiStep(c), UNCHANGED slot
    PROVE  SystemTypeInv'
  <1>0. TypeOK /\ HandlersOK /\ SystemTypeOK
    BY SystemTypes DEF SystemTypeInv
  <1>1. PICK q \in CallState :
              /\ call' = [call EXCEPT ![c] = q]
              /\ Handles(c, q)
              /\ HandlersOK'
              /\ call'[c] = q
              /\ \A d \in Calls \ {c} : call'[d] = call[d]
    BY HandlerStep
  <1>2. ASSUME NEW p \in Prompts
        PROVE  /\ request'[p].status = "absent" <=> job'[p].status = "absent"
               /\ request'[p].status # "absent" => request'[p].text \in Texts
               /\ request[p].status # "absent" => request'[p].status # "absent"
               /\ Inserts(c, q) /\ call[c].prompt = p => request'[p].status # "absent"
    <2>1. /\ request[p] \in RequestRow /\ job[p] \in JobRow
          /\ request[p].status = "absent" <=> job[p].status = "absent"
          /\ request[p].status # "absent" => request[p].text \in Texts
      BY <1>0 DEF TypeOK, TablesTypeOK, RowsPaired
    <2>2. CASE request'[p] = request[p] /\ job'[p] = job[p] /\ ~(Inserts(c, q) /\ call[c].prompt = p)
      BY <2>1, <2>2
    <2>3. CASE Inserts(c, q) /\ call[c].prompt = p
      <3>1. call[c].text \in Texts /\ call[c].priority \in Priority
        BY <1>0, <2>3, BusyHandler DEF Inserts, SystemTypeInv
      <3>2. request'[p] = NewRequest(call[c].text) /\ job'[p] = NewJob(call[c].priority)
        BY <1>0, <2>3 DEF Inserts, HandlersOK
      <3> QED BY <3>1, <3>2, NewRows
    <2>4. CASE Requeues(c, q) /\ call[c].prompt = p
      <3>1. request'[p] = QueuedRequest(request[p]) /\ job'[p] = job[p]
        BY <1>0, <2>4 DEF Requeues, HandlersOK, Row
      <3>2. request[p].status # "absent"
        BY <1>0, <2>4 DEF Requeues, SystemTypeOK, Busy
      <3> QED BY <2>1, <2>4, <3>1, <3>2, NewRows DEF Requeues, Inserts
    <2>5. CASE Resets(c, q) /\ call[c].prompt = p
      <3>1. job'[p] = ResetJob(job[p]) /\ request'[p] = request[p]
        BY <1>0, <2>5 DEF Resets, HandlersOK
      <3>2. request[p].status # "absent"
        BY <1>0, <2>5 DEF Resets, SystemTypeOK, Busy
      <3> QED BY <2>1, <2>5, <3>1, <3>2, ResetRow DEF Resets, Inserts
    <2> QED BY <1>0, <1>1, <2>2, <2>3, <2>4, <2>5, HandlersRequests
  <1>3. TablesTypeOK'
    BY <1>1, <1>2 DEF HandlersOK, TablesTypeOK, RowsPaired
  <1>4. TypeOK'
    BY <1>0, <1>2, <1>3 DEF TypeOK, InPipeline
  <1>5. ASSUME NEW d \in Calls
        PROVE  /\ call'[d].pc # "idle" => call'[d].prompt \in Prompts /\ call'[d].text \in Texts
               /\ call'[d].pc \in Busy \ {"check", "depth", "insert"} =>
                     request'[call'[d].prompt].status # "absent"
    <2>1. CASE d # c
      <3>1. call'[d] = call[d]
        BY <1>1, <2>1
      <3> QED BY <1>0, <1>2, <3>1 DEF SystemTypeInv, SystemTypeOK, Busy
    <2>2. CASE d = c
      <3>1. CASE Takes(c, q)
        BY <1>1, <2>2, <3>1 DEF Takes
      <3>2. CASE q.pc = "idle"
        BY <1>1, <2>2, <3>2 DEF Busy
      <3>3. CASE ~Takes(c, q) /\ q.pc # "idle"
        <4>1. SameBody(q, call[c]) /\ call[c].pc # "idle"
          BY <1>1, <3>3 DEF Handles, Refuses, ShowsRow, Decides, GoesOn, Inserts, Requeues, Resets
        <4>2. q.prompt \in Prompts /\ q.text \in Texts
          BY <1>0, <4>1 DEF SameBody, SystemTypeInv, SystemTypeOK
        <4>3. \/ q.pc \in {"depth", "insert"}
              \/ Row(c).status # "absent"
              \/ Inserts(c, q)
          <5>1. CASE Decides(c, q)
            BY <5>1 DEF Decides, Decision, Branch
          <5>2. CASE GoesOn(c, q)
            BY <1>0, <5>2 DEF GoesOn, SystemTypeOK, Busy, Row
          <5>3. CASE Requeues(c, q) \/ Resets(c, q)
            BY <1>0, <5>3 DEF Requeues, Resets, SystemTypeOK, Busy, Row
          <5> QED BY <1>1, <3>3, <5>1, <5>2, <5>3 DEF Handles, Refuses, ShowsRow
        <4> QED BY <1>1, <1>2, <2>2, <4>1, <4>2, <4>3 DEF SameBody, Row
      <3> QED BY <3>1, <3>2, <3>3
    <2> QED BY <2>1, <2>2
  <1> QED BY <1>1, <1>4, <1>5 DEF SystemTypeInv, SystemTypeOK, HandlersOK

\* So does a step of the workers, with the notification it sends.
LEMMA WorkersTypeInv ==
    ASSUME SystemTypeInv, [Next]_vars, UNCHANGED call \/ \E p : call' = Woken(p)
    PROVE  /\ SystemTypeInv'
           /\ \A c \in Calls :
                 /\ call'[c].pc = call[c].pc /\ call'[c].reply = call[c].reply
                 /\ SameBody(call'[c], call[c]) /\ SameDecision(call'[c], call[c])
  <1>0. TypeOK /\ SystemTypeOK
    BY SystemTypes DEF SystemTypeInv
  <1>1. /\ call' \in [Calls -> CallState]
        /\ \A c \in Calls :
              /\ call'[c].pc = call[c].pc /\ call'[c].reply = call[c].reply
              /\ SameBody(call'[c], call[c]) /\ SameDecision(call'[c], call[c])
    BY <1>0, WokenCalls DEF SystemTypeOK, SameBody, SameDecision
  <1>2. TypeOK'
    BY <1>0, NextTypeOK
  <1>3. \A p \in Prompts : request[p].status # "absent" => request'[p].status # "absent"
    BY <1>0, WorkersKeepRequests
  <1> QED BY <1>0, <1>1, <1>2, <1>3 DEF SystemTypeInv, SystemTypeOK, SameBody, Busy

LEMMA SystemTypeStep ==
    ASSUME SystemTypeInv, [SystemNext]_systemVars
    PROVE  SystemTypeInv'
  BY SystemSteps, HandlerTypeInv, WorkersTypeInv

LEMMA SystemTypeInvariant == SystemSpec => []SystemTypeInv
  BY SystemTypeInit, SystemTypeStep, PTL DEF SystemSpec

\* Rows, slots and handlers keep their types, and whatever a handler waits for
\* has been inserted, request and job together.
THEOREM SystemTypeCorrect == SystemSpec => []SystemTypeOK
  <1>1. SystemTypeInv => SystemTypeOK
    BY DEF SystemTypeInv
  <1> QED BY <1>1, SystemTypeInvariant, PTL

-----------------------------------------------------------------------------
(* Clients are given answers to their texts                                *)

\* What a handler has decided, by where it is, and what the decision says of
\* the row: past the idempotency check its digest is the caller's, unless the
\* handler was to insert and did not.
TextsMatch ==
    \A c \in Calls :
        /\ call[c].pc = "check" => call[c].action = "none" /\ ~call[c].notify
        /\ call[c].pc \in {"depth", "insert", "refetch"} =>
              call[c].action = "insert_new" /\ ~call[c].notify
        /\ call[c].pc \in {"requeueRequest", "resetJob"} => call[c].action = "reenqueue"
        /\ call[c].pc \in Busy \ {"check", "depth", "insert", "refetch"} /\ ~LostRace(c) =>
              HashOf[request[call[c].prompt].text] = HashOf[call[c].text]
        /\ call[c].pc # "idle" => call[c].reply = Bare("none")

AnswersInv ==
    /\ SystemTypeInv
    /\ TextsAgree /\ AnswersReady /\ AllKept
    /\ TextsMatch
    /\ AnswersItsText

LEMMA AnswersInit == SystemInit => AnswersInv
  <1> SUFFICES ASSUME SystemInit PROVE AnswersInv
    OBVIOUS
  <1>1. TextsAgree /\ AnswersReady
    BY EmptySlots DEF SystemInit, TextsAgree, AnswersReady, InPipeline, PipelinePcs,
                      RunPcs, HandlerPcs
  <1>2. AllKept
    BY DEF SystemInit, AllKept, NoRequest
  <1>3. \A c \in Calls : call[c].pc = "idle" /\ call[c].reply.code = "none"
    BY DEF SystemInit, ApiInit, IdleCall, Bare
  <1>4. TextsMatch /\ AnswersItsText
    BY <1>3 DEF TextsMatch, AnswersItsText, Answered, Busy
  <1> QED BY <1>1, <1>2, <1>4, SystemTypeInit DEF AnswersInv

\* A handler changes no text that a slot or another handler goes by.
LEMMA HandlersKeepTexts ==
    ASSUME HandlersOK, NEW c \in Calls, NEW q \in CallState, Handles(c, q),
           NEW p \in Prompts, request[p].status # "absent"
    PROVE  request'[p].text = request[p].text
  <1>1. request[p] \in RequestRow
    BY DEF HandlersOK
  <1> QED BY <1>1, HandlersRequests, NewRows

\* What the workers rely on is left alone by handlers.
LEMMA HandlersKeepAnswers ==
    ASSUME AnswersInv, NEW c \in Calls, NEW q \in CallState, Handles(c, q), UNCHANGED slot
    PROVE  TextsAgree' /\ AnswersReady' /\ AllKept'
  <1>0. TypeOK /\ HandlersOK
    BY SystemTypes DEF AnswersInv, SystemTypeInv
  <1>1. TextsAgree'
    BY <1>0, HandlersKeepTexts DEF AnswersInv, TextsAgree, TypeOK, InPipeline
  <1>2. ASSUME NEW p \in Prompts, request'[p].status = "completed"
        PROVE  UNCHANGED cache /\ request'[p] = request[p]
    <2>1. /\ request[p] \in RequestRow
          /\ call[c].pc # "idle" => call[c].text \in Texts
      BY <1>0 DEF HandlersOK, AnswersInv, SystemTypeInv
    <2> QED BY <1>0, <1>2, <2>1, HandlersRequests, NewRows DEF Inserts
  <1>3. UNCHANGED cache
    BY DEF Handles, Takes, Refuses, ShowsRow, Decides, GoesOn, Inserts, Requeues, Resets, tables
  <1>4. AnswersReady'
    BY <1>3 DEF AnswersInv, AnswersReady, Kept, Fits, ExactEntries
  <1>5. AllKept'
    BY <1>2, <1>3 DEF AnswersInv, AllKept, Kept, Fits, ExactEntries
  <1> QED BY <1>1, <1>4, <1>5

\* A handler goes on with what its check has found.
LEMMA HandlersKeepMatch ==
    ASSUME AnswersInv, NEW c \in Calls, NEW q \in CallState,
           call'[c] = q, \A d \in Calls \ {c} : call'[d] = call[d],
           Handles(c, q), SystemTypeInv'
    PROVE  TextsMatch'
  <1>0. TypeOK /\ HandlersOK /\ SystemTypeOK /\ SystemTypeInv
    BY SystemTypes DEF AnswersInv, SystemTypeInv
  <1> DEFINE Waiting == Busy \ {"check", "depth", "insert", "refetch"}
             Match(d) ==
               /\ call[d].pc = "check" => call[d].action = "none" /\ ~call[d].notify
               /\ call[d].pc \in {"depth", "insert", "refetch"} =>
                     call[d].action = "insert_new" /\ ~call[d].notify
               /\ call[d].pc \in {"requeueRequest", "resetJob"} =>
                     call[d].action = "reenqueue"
               /\ call[d].pc \in Waiting /\ ~LostRace(d) =>
                     HashOf[request[call[d].prompt].text] = HashOf[call[d].text]
               /\ call[d].pc # "idle" => call[d].reply = Bare("none")
  <1>1. \A d \in Calls : Match(d)
    BY DEF AnswersInv, TextsMatch
  <1>2. ASSUME NEW d \in Calls \ {c} PROVE Match(d)'
    <2>1. call'[d] = call[d]
      OBVIOUS
    <2>2. call[d].pc \in Waiting =>
             request'[call[d].prompt].text = request[call[d].prompt].text
      BY <1>0, HandlersKeepTexts DEF SystemTypeOK, Busy
    <2> QED BY <1>1, <2>1, <2>2 DEF LostRace, Waiting
  <1>3. CASE Takes(c, q)
    <2>1. Match(c)'
      BY <1>3 DEF Takes, Busy
    <2> QED BY <1>2, <2>1 DEF TextsMatch
  <1>4. CASE q.pc = "idle"
    <2>1. Match(c)'
      BY <1>4 DEF Busy
    <2> QED BY <1>2, <2>1 DEF TextsMatch
  <1>5. CASE ~Takes(c, q) /\ q.pc # "idle"
    <2>1. /\ SameBody(q, call[c]) /\ q.reply = call[c].reply /\ call[c].pc # "idle"
          /\ Decides(c, q) \/ GoesOn(c, q) \/ Inserts(c, q) \/ Requeues(c, q) \/ Resets(c, q)
      BY <1>5 DEF Handles, Refuses, ShowsRow, Decides, GoesOn, Inserts, Requeues, Resets
    <2>2. q.reply = Bare("none")
      BY <1>1, <2>1
    <2>3. call[c].prompt \in Prompts
      BY <1>0, <2>1 DEF SystemTypeOK
    <2>4. CASE Decides(c, q)
      <3>1. UNCHANGED tables /\ call[c].action = "none" /\ ~q.notify
        BY <1>1, <2>4 DEF Decides
      <3>2. CASE Row(c).status = "absent"
        <4>1. q.pc = "depth" /\ q.action = "insert_new"
          BY <2>4, <3>2 DEF Decides, Decision, Branch
        <4> QED BY <2>2, <3>1, <4>1, <1>2 DEF TextsMatch, Busy
      <3>3. CASE Row(c).status # "absent"
        <4>1. /\ q.pc \in {"reread", "precheck", "requeueRequest"}
              /\ q.pc = "requeueRequest" => q.action = "reenqueue"
          BY <2>4, <3>3 DEF Decides, Decision, Branch
        <4>2. HashOf[request'[q.prompt].text] = HashOf[q.text]
          BY <2>1, <2>4, <3>1, <3>3 DEF Decides, Conflicts, SameBody, Row, tables
        <4> QED BY <2>2, <4>1, <4>2, <1>2 DEF TextsMatch
      <3> QED BY <3>2, <3>3
    <2>5. CASE GoesOn(c, q)
      <3>1. UNCHANGED tables /\ SameDecision(q, call[c])
        BY <2>5 DEF GoesOn
      <3>2. \/ call[c].pc \in {"depth", "insert"} /\ q.pc \in {"insert", "refetch"}
            \/ call[c].pc = "refetch" /\ q.pc = "precheck"
            \/ call[c].pc \in Waiting \ {"requeueRequest", "resetJob"}
               /\ q.pc \in Waiting \ {"requeueRequest", "resetJob"}
        BY <2>5 DEF GoesOn, Busy
      <3>3. Match(c)'
        BY <1>1, <2>1, <2>2, <3>1, <3>2 DEF SameBody, SameDecision, tables, LostRace, Busy
      <3> QED BY <1>2, <3>3 DEF TextsMatch
    <2>6. CASE Inserts(c, q)
      <3>1. request'[q.prompt].text = q.text /\ q.notify /\ q.pc = "precheck"
        <4>1. call[c].text \in Texts
          BY <1>0, <2>1 DEF SystemTypeInv
        <4>2. request'[call[c].prompt] = NewRequest(call[c].text)
          BY <1>0, <2>3, <2>6 DEF Inserts, HandlersOK
        <4> QED BY <2>1, <2>6, <4>1, <4>2, NewRows DEF Inserts, SameBody
      <3> QED BY <2>2, <3>1, <1>2 DEF TextsMatch, Busy
    <2>7. CASE Requeues(c, q) \/ Resets(c, q)
      <3>1. /\ call[c].pc \in {"requeueRequest", "resetJob"}
            /\ q.pc \in {"resetJob", "precheck"} /\ q.action = call[c].action
        BY <2>7 DEF Requeues, Resets, SameDecision
      <3>2. request'[call[c].prompt].text = request[call[c].prompt].text
        BY <1>0, <2>3, <3>1, HandlersKeepTexts DEF SystemTypeOK, Busy
      <3>3. HashOf[request[call[c].prompt].text] = HashOf[call[c].text] /\ q.action = "reenqueue"
        BY <1>1, <3>1 DEF LostRace, Busy
      <3> QED BY <2>1, <2>2, <3>1, <3>2, <3>3, <1>2 DEF TextsMatch, SameBody
    <2> QED BY <2>1, <2>4, <2>5, <2>6, <2>7
  <1> QED BY <1>3, <1>4, <1>5

\* A handler shows the answer of its row, which is one to its own text.
LEMMA HandlersAnswer ==
    ASSUME AnswersInv, NEW c \in Calls, NEW q \in CallState,
           call'[c] = q, \A d \in Calls \ {c} : call'[d] = call[d], Handles(c, q)
    PROVE  AnswersItsText'
  <1>0. TypeOK /\ HandlersOK /\ SystemTypeOK
    BY SystemTypes DEF AnswersInv, SystemTypeInv
  <1> SUFFICES ASSUME NEW d \in Calls, Answered(d)', ~LostRace(d)'
               PROVE  OwnAnswer(d)'
    BY DEF AnswersItsText
  <1>1. CASE d # c
    BY <1>1 DEF AnswersInv, AnswersItsText, Answered, LostRace, OwnAnswer
  <1>2. CASE d = c
    <2>1. ShowsRow(c, q) /\ SameBody(q, call[c])
      <3>1. q.reply.code = "ok"
        BY <1>2 DEF Answered
      <3>2. call[c].pc # "idle" => call[c].reply.code = "none"
        BY DEF AnswersInv, TextsMatch, Bare
      <3>3. ~Takes(c, q)
        BY <3>1 DEF Takes, Bare
      <3>4. ~Refuses(c, q)
        BY <3>1 DEF Refuses, Bare
      <3>5. Decides(c, q) \/ GoesOn(c, q) \/ Inserts(c, q) \/ Requeues(c, q) \/ Resets(c, q)
               => call[c].pc # "idle"
        BY DEF Decides, GoesOn, Inserts, Requeues, Resets
      <3> QED BY <3>1, <3>2, <3>3, <3>4, <3>5 DEF Handles
    <2> DEFINE p == call[c].prompt
    <2>2. /\ p \in Prompts
          /\ q.reply.status = request[p].status /\ q.reply.response = request[p].response
          /\ request[p].status = "completed"
          /\ q.text = call[c].text
      BY <1>0, <1>2, <2>1 DEF ShowsRow, Answered, Row, SystemTypeOK, SameBody
    <2>3. request[p].text \in Texts
      BY <1>0, <2>2 DEF TypeOK, TablesTypeOK, RowsPaired
    <2>4. HashOf[request[p].text] = HashOf[call[c].text]
      <3>1. ~LostRace(c)
        BY <1>2, <2>1 DEF ShowsRow, SameDecision, LostRace
      <3>2. call[c].pc \in Busy \ {"check", "depth", "insert", "refetch"}
        BY <2>1 DEF ShowsRow, Busy
      <3> QED BY <3>1, <3>2 DEF AnswersInv, TextsMatch
    <2>5. \/ HashOf[request[p].response] = HashOf[request[p].text]
          \/ <<request[p].text, request[p].response>> \in Near
      BY <2>2 DEF AnswersInv, AllKept, Kept, Fits
    <2> HIDE DEF p
    <2> QED BY <1>2, <2>2, <2>3, <2>4, <2>5 DEF OwnAnswer
  <1> QED BY <1>1, <1>2

LEMMA AnswersStep ==
    ASSUME AnswersInv, [SystemNext]_systemVars
    PROVE  AnswersInv'
  <1>0. SystemTypeInv /\ TypeOK /\ SystemTypeOK
    BY SystemTypes DEF AnswersInv, SystemTypeInv
  <1>1. ASSUME NEW c \in Calls, ApiStep(c), UNCHANGED slot PROVE AnswersInv'
    <2>1. SystemTypeInv'
      BY <1>0, <1>1, HandlerTypeInv
    <2>2. PICK q \in CallState :
              /\ call' = [call EXCEPT ![c] = q]
              /\ Handles(c, q)
              /\ HandlersOK'
              /\ call'[c] = q
              /\ \A d \in Calls \ {c} : call'[d] = call[d]
      BY <1>0, <1>1, HandlerStep
    <2> QED BY <1>1, <2>1, <2>2, HandlersKeepAnswers, HandlersKeepMatch, HandlersAnswer
            DEF AnswersInv
  <1>2. ASSUME [Next]_vars, UNCHANGED call \/ \E p : call' = Woken(p) PROVE AnswersInv'
    <2>1. /\ SystemTypeInv'
          /\ \A c \in Calls :
                /\ call'[c].pc = call[c].pc /\ call'[c].reply = call[c].reply
                /\ SameBody(call'[c], call[c]) /\ SameDecision(call'[c], call[c])
      BY <1>0, <1>2, WorkersTypeInv
    <2>2. TextsAgree' /\ AnswersReady' /\ AllKept'
      BY <1>0, <1>2, NextTextsAgree, NextAnswersReady, NextAllKept DEF AnswersInv
    <2>3. TextsMatch'
      <3>1. \A p \in Prompts : request'[p].text = request[p].text
        BY <1>0, <1>2, WorkersKeepRequests
      <3> QED BY <1>0, <2>1, <3>1
              DEF AnswersInv, TextsMatch, LostRace, SameBody, SameDecision, SystemTypeOK, Busy
    <2>4. AnswersItsText'
      BY <2>1 DEF AnswersInv, AnswersItsText, Answered, LostRace, OwnAnswer, SameBody,
                  SameDecision
    <2> QED BY <2>1, <2>2, <2>3, <2>4 DEF AnswersInv
  <1> QED BY <1>1, <1>2, SystemSteps

LEMMA AnswersInvariant == SystemSpec => []AnswersInv
  BY AnswersInit, AnswersStep, PTL DEF SystemSpec

\* Whatever crashes, stalls, failures and races there are, an answer that a
\* client is given is one to its own text - or to one like it, from the cache -
\* unless its handler has lost the race to insert the prompt.
THEOREM AnswersItsTextHolds == SystemSpec => []AnswersItsText
  <1>1. AnswersInv => AnswersItsText
    BY DEF AnswersInv
  <1> QED BY <1>1, AnswersInvariant, PTL

-----------------------------------------------------------------------------
(* The insert race is the only way to another text's answer                *)

\* No two handlers are on their way to insert the same prompt.
NoInsertRace ==
    \A c, d \in Calls :
        /\ c # d
        /\ call[c].pc \in {"depth", "insert"} /\ call[d].pc \in {"depth", "insert"}
        => call[c].prompt # call[d].prompt

\* Then what a handler is to insert is still absent when it does.
NobodyLosesRace ==
    \A c \in Calls :
        /\ call[c].pc \in {"depth", "insert"} => request[call[c].prompt].status = "absent"
        /\ call[c].pc # "refetch"
        /\ LostRace(c) => \/ call[c].pc \in {"depth", "insert"}
                          \/ call[c].pc = "idle" /\ call[c].reply.code # "ok"

\* Workers insert no request.
LEMMA WorkersLeaveAbsent ==
    ASSUME TypeOK, [Next]_vars, NEW p \in Prompts, request[p].status = "absent"
    PROVE  request'[p].status = "absent"
  <1>1. \A w \in Workers :
           FinishRequest(w) \/ MarkFailed(w) \/ Requeue(w) => slot[w].prompt # p
    BY DEF TypeOK, InPipeline, PipelinePcs, RunPcs, HandlerPcs, FinishRequest, MarkFailed,
           Requeue
  <1>2. ~Expired(job[p])
    BY DEF TypeOK, TablesTypeOK, RowsPaired, Expired
  <1> QED BY <1>1, <1>2, WorkersRequests

\* Nor does a handler that is not about to insert that very prompt.
LEMMA HandlersLeaveAbsent ==
    ASSUME SystemTypeInv, NEW c \in Calls, NEW q \in CallState, Handles(c, q),
           NEW p \in Prompts, request[p].status = "absent",
           ~(call[c].pc = "insert" /\ call[c].prompt = p)
    PROVE  request'[p].status = "absent"
  <1>1. HandlersOK /\ SystemTypeOK
    BY SystemTypes DEF SystemTypeInv
  <1>2. ~(Requeues(c, q) /\ call[c].prompt = p) /\ ~(Inserts(c, q) /\ call[c].prompt = p)
    BY <1>1 DEF Requeues, Inserts, SystemTypeOK, Busy
  <1> QED BY <1>1, <1>2, HandlersRequests

LEMMA RaceStep ==
    ASSUME SystemTypeInv, NoInsertRace, NobodyLosesRace, [SystemNext]_systemVars
    PROVE  NobodyLosesRace'
  <1>0. TypeOK /\ HandlersOK /\ SystemTypeOK
    BY SystemTypes DEF SystemTypeInv
  <1>1. ASSUME NEW c \in Calls, ApiStep(c), UNCHANGED slot PROVE NobodyLosesRace'
    <2>1. PICK q \in CallState :
              /\ Handles(c, q)
              /\ call'[c] = q
              /\ \A d \in Calls \ {c} : call'[d] = call[d]
      BY <1>1, HandlerStep
    <2>2. ASSUME NEW d \in Calls \ {c}, call[d].pc \in {"depth", "insert"}
          PROVE  request'[call[d].prompt].status = "absent"
      <3>1. /\ call[d].prompt \in Prompts
            /\ request[call[d].prompt].status = "absent"
        BY <1>0, <2>2 DEF SystemTypeOK, NobodyLosesRace
      <3>2. ~(call[c].pc = "insert" /\ call[c].prompt = call[d].prompt)
        BY <2>2 DEF NoInsertRace
      <3> QED BY <2>1, <3>1, <3>2, HandlersLeaveAbsent
    <2>3. q.pc \in {"depth", "insert"} => request'[q.prompt].status = "absent"
      <3>1. q.pc \in {"depth", "insert"} =>
               /\ UNCHANGED tables /\ SameBody(q, call[c])
               /\ request[call[c].prompt].status = "absent"
        <4>1. CASE SameBody(q, call[c]) /\ Decides(c, q)
          BY <4>1 DEF Decides, Decision, Branch, Row
        <4>2. CASE SameBody(q, call[c]) /\ GoesOn(c, q)
          BY <4>2 DEF GoesOn, NobodyLosesRace
        <4>3. CASE q.pc \notin {"depth", "insert"}
          BY <4>3
        <4> QED BY <2>1, <4>1, <4>2, <4>3
                DEF Handles, Takes, Refuses, ShowsRow, Inserts, Requeues, Resets
      <3> QED BY <3>1 DEF SameBody, tables
    <2>4. /\ q.pc # "refetch"
          /\ q.action = "insert_new" /\ ~q.notify =>
                q.pc \in {"depth", "insert"} \/ (q.pc = "idle" /\ q.reply.code # "ok")
      <3>1. CASE Takes(c, q)
        BY <3>1 DEF Takes
      <3>2. CASE Refuses(c, q)
        BY <3>2 DEF Refuses, Bare
      <3>3. CASE ShowsRow(c, q)
        BY <3>3 DEF ShowsRow, SameDecision, NobodyLosesRace, LostRace
      <3>4. CASE Decides(c, q)
        BY <3>4 DEF Decides, Decision, Branch
      <3>5. CASE GoesOn(c, q)
        BY <3>5 DEF GoesOn, SameDecision, NobodyLosesRace, LostRace, Row
      <3>6. CASE Inserts(c, q) \/ Resets(c, q)
        BY <3>6 DEF Inserts, Resets
      <3>7. CASE Requeues(c, q)
        BY <3>7 DEF Requeues, SameDecision, NobodyLosesRace, LostRace
      <3> QED BY <2>1, <3>1, <3>2, <3>3, <3>4, <3>5, <3>6, <3>7 DEF Handles
    <2> QED BY <2>1, <2>2, <2>3, <2>4 DEF NobodyLosesRace, LostRace
  <1>2. ASSUME [Next]_vars, UNCHANGED call \/ \E p : call' = Woken(p)
        PROVE  NobodyLosesRace'
    <2>1. \A c \in Calls :
              /\ call'[c].pc = call[c].pc /\ call'[c].reply = call[c].reply
              /\ SameBody(call'[c], call[c]) /\ SameDecision(call'[c], call[c])
      BY <1>2, WorkersTypeInv
    <2>2. \A c \in Calls : call[c].pc \in {"depth", "insert"} =>
              request'[call[c].prompt].status = "absent"
      BY <1>0, <1>2, WorkersLeaveAbsent DEF NobodyLosesRace, SystemTypeOK
    <2> QED BY <2>1, <2>2 DEF NobodyLosesRace, LostRace, SameBody, SameDecision
  <1> QED BY <1>1, <1>2, SystemSteps

\* A client is given the answer to another text only if two handlers are between
\* the check and the insert of one prompt at the same time.
THEOREM ForeignAnswersNeedRace ==
    SystemSpec /\ []NoInsertRace => []NoForeignAnswer
  <1>1. SystemInit => NobodyLosesRace
    BY DEF SystemInit, ApiInit, IdleCall, NobodyLosesRace, LostRace
  <1>2. SystemTypeInv /\ NoInsertRace /\ NobodyLosesRace /\ [SystemNext]_systemVars
           => NobodyLosesRace'
    BY RaceStep
  <1>3. AnswersInv /\ NobodyLosesRace => NoForeignAnswer
    BY DEF AnswersInv, TextsMatch, AnswersItsText, NobodyLosesRace, NoForeignAnswer,
           Answered, Bare
  <1> QED BY <1>1, <1>2, <1>3, SystemTypeInvariant, AnswersInvariant, PTL DEF SystemSpec

-----------------------------------------------------------------------------
(* Settling a prompt takes two transactions                                *)

\* What the two tables need: heartbeats in time, nobody stopped between the two
\* transactions that settle a job or enqueue it again, and no slot that cancels
\* its siblings when a transaction of its own fails.
SettlesCleanly ==
    /\ StallAt = {}
    /\ {"finishJob", "markFailed"} \cap (CrashAt \cup DbFailAt) = {}
    /\ "markFailed" \notin BeatAt
    /\ "resetJob" \notin ApiFailAt
    /\ \A w \in Workers :
          Siblings(w) = {} \/ DbFailAt \cap ({"idle"} \cup HandlerPcs) = {}

\* No two handlers enqueue the same prompt again at the same time.
Reenqueueing == {"requeueRequest", "resetJob"}
OneReenqueue ==
    \A c, d \in Calls :
        /\ c # d
        /\ call[c].pc \in Reenqueueing /\ call[d].pc \in Reenqueueing
        => call[c].prompt # call[d].prompt

SlotAt(w, label, p) == slot[w].pc = label /\ slot[w].prompt = p
CallAt(c, label, p) == call[c].pc = label /\ call[c].prompt = p

\* The two rows of a prompt agree, unless somebody is between the transactions.
RowAgrees(p) ==
    /\ request[p].status = "absent" => request[p].response = None
    /\ job[p].status = "queued" => request[p].status = "queued"
    /\ job[p].status = "completed" => request[p].status = "completed"
    /\ job[p].status = "processing" =>
          \/ request[p].status = "queued"
          \/ \E w \in Workers : SlotAt(w, "finishJob", p)
    /\ job[p].status = "dead" =>
          \/ request[p].status = "failed"
          \/ /\ request[p].status = "queued"
             /\ \/ \E w \in Workers : SlotAt(w, "markFailed", p)
                \/ \E c \in Calls : CallAt(c, "resetJob", p)

\* The rows are as a slot's next transaction expects them, ...
SlotAgrees(w) ==
    /\ slot[w].pc \in OwningPcs \ {"finishJob"} => request[slot[w].prompt].status = "queued"
    /\ slot[w].pc = "finishJob" => request[slot[w].prompt].status = "completed"
    /\ slot[w].pc = "requeue" => JobOf(w).status = "queued" /\ ~JobOf(w).due
    /\ slot[w].pc = "markFailed" =>
          /\ JobOf(w).status = "dead"
          /\ request[slot[w].prompt].status = "queued"
          /\ \A v \in Workers \ {w} : ~SlotAt(v, "markFailed", slot[w].prompt)
          /\ \A c \in Calls : ~CallAt(c, "resetJob", slot[w].prompt)
    /\ slot[w].pc = "dying" => Siblings(w) = {}
    /\ slot[w].pc \in {"hit", "store", "finishRequest"} => slot[w].answer \in Texts

\* ... and as a handler's, and as a client was told.
CallAgrees(c) ==
    /\ call[c].pc = "requeueRequest" => request[call[c].prompt].status = "failed"
    /\ call[c].pc = "resetJob" =>
          request[call[c].prompt].status = "queued" /\ job[call[c].prompt].status = "dead"
    /\ Answered(c) /\ call[c].pc = "idle" =>
          /\ call[c].prompt \in Prompts
          /\ request[call[c].prompt].status = "completed"
          /\ request[call[c].prompt].response = call[c].reply.response

SettleInv ==
    /\ LeaseHolder
    /\ \A p \in Prompts : RowAgrees(p)
    /\ \A w \in Workers : SlotAgrees(w)
    /\ \A c \in Calls : CallAgrees(c)

\* The calls at which a slot counts on the rows of its prompt.
Touching == OwningPcs \cup {"requeue", "markFailed"}

\* Slots and handlers that count on rows have a prompt.
LEMMA TouchingBusy ==
    ASSUME SystemTypeInv
    PROVE  /\ TypeOK /\ HandlersOK /\ SystemTypeOK
           /\ \A w \in Workers : slot[w].pc \in Touching =>
                 InPipeline(w) /\ slot[w].prompt \in Prompts
           /\ \A c \in Calls : call[c].pc \in Reenqueueing =>
                 /\ call[c].prompt \in Prompts
                 /\ request[call[c].prompt].status # "absent"
  BY SystemTypes DEF SystemTypeInv, SystemTypeOK, TypeOK, Touching, OwningPcs, Reenqueueing,
                     InPipeline, PipelinePcs, HandlerPcs, Busy

\* What the rows of p say when somebody counts on them.
LEMMA Touchers ==
    ASSUME SystemTypeInv, SettleInv, NEW p \in Prompts
    PROVE  /\ \A w \in Workers : slot[w].prompt = p =>
                 /\ slot[w].pc \in OwningPcs =>
                       /\ job[p].status = "processing" /\ job[p].owner = w
                       /\ job[p].lease = "live"
                 /\ slot[w].pc = "requeue" => job[p].status = "queued" /\ ~job[p].due
                 /\ slot[w].pc = "markFailed" =>
                       job[p].status = "dead" /\ request[p].status = "queued"
           /\ \A c \in Calls : call[c].prompt = p =>
                 /\ call[c].pc = "requeueRequest" =>
                       request[p].status = "failed" /\ job[p].status = "dead"
                 /\ call[c].pc = "resetJob" =>
                       request[p].status = "queued" /\ job[p].status = "dead"
           /\ job[p].status = "processing" => request[p].status \in {"queued", "completed"}
  <1>1. /\ \A w \in Workers : slot[w].prompt = p =>
                 /\ slot[w].pc \in OwningPcs =>
                       /\ job[p].status = "processing" /\ job[p].owner = w
                       /\ job[p].lease = "live"
                 /\ slot[w].pc = "requeue" => job[p].status = "queued" /\ ~job[p].due
                 /\ slot[w].pc = "markFailed" =>
                       job[p].status = "dead" /\ request[p].status = "queued"
    BY DEF SettleInv, LeaseHolder, HoldsLease, JobOf, SlotAgrees
  <1>2. job[p].status = "processing" => request[p].status \in {"queued", "completed"}
    BY DEF SettleInv, RowAgrees, SlotAgrees, SlotAt
  <1>3. request[p].status = "failed" => job[p].status = "dead"
    <2>1. job[p].status \in {"queued", "processing", "completed", "dead", "absent"}
      BY TouchingBusy DEF TypeOK, TablesTypeOK, JobRow, JobStatus
    <2>2. job[p].status = "absent" => request[p].status = "absent"
      BY TouchingBusy DEF TypeOK, TablesTypeOK, RowsPaired
    <2> QED BY <1>2, <2>1, <2>2 DEF SettleInv, RowAgrees
  <1>4. \A c \in Calls : call[c].prompt = p =>
                 /\ call[c].pc = "requeueRequest" => request[p].status = "failed"
                 /\ call[c].pc = "resetJob" =>
                       request[p].status = "queued" /\ job[p].status = "dead"
    BY DEF SettleInv, CallAgrees
  <1> QED BY <1>1, <1>2, <1>3, <1>4

\* A slot at rest, or one that no longer owns its job.
Away == {"idle", "gone", "stopped", "dying", "notify", "wake"}

\* What a slot that stays where it is counts on stays true with the rows of its
\* prompt, if nobody else gets to the calls that settle it.
LEMMA SlotStays ==
    ASSUME NEW w \in Workers, SlotAgrees(w), slot'[w] = slot[w],
           slot[w].pc \in Touching =>
              /\ request'[slot[w].prompt] = request[slot[w].prompt]
              /\ job'[slot[w].prompt].status = job[slot[w].prompt].status
              /\ job'[slot[w].prompt].due = job[slot[w].prompt].due,
           slot[w].pc = "markFailed" =>
              /\ \A v \in Workers \ {w} :
                    slot'[v].pc = "markFailed" => slot'[v].prompt # slot[w].prompt
              /\ \A c \in Calls :
                    call'[c].pc = "resetJob" => call'[c].prompt # slot[w].prompt
    PROVE  SlotAgrees(w)'
  <1>1. /\ slot'[w].pc \in OwningPcs \ {"finishJob"} =>
              request'[slot'[w].prompt].status = "queued"
        /\ slot'[w].pc = "finishJob" => request'[slot'[w].prompt].status = "completed"
    BY DEF SlotAgrees, Touching, OwningPcs, RunPcs
  <1>2. slot'[w].pc = "requeue" =>
           job'[slot'[w].prompt].status = "queued" /\ ~job'[slot'[w].prompt].due
    BY DEF SlotAgrees, Touching, JobOf
  <1>3. slot'[w].pc = "markFailed" =>
           /\ job'[slot'[w].prompt].status = "dead"
           /\ request'[slot'[w].prompt].status = "queued"
           /\ \A v \in Workers \ {w} :
                 ~(slot'[v].pc = "markFailed" /\ slot'[v].prompt = slot'[w].prompt)
           /\ \A c \in Calls :
                 ~(call'[c].pc = "resetJob" /\ call'[c].prompt = slot'[w].prompt)
    BY DEF SlotAgrees, Touching, JobOf
  <1>4. /\ slot'[w].pc = "dying" => Siblings(w) = {}
        /\ slot'[w].pc \in {"hit", "store", "finishRequest"} => slot'[w].answer \in Texts
    BY DEF SlotAgrees
  <1> QED BY <1>1, <1>2, <1>3, <1>4 DEF SlotAgrees, JobOf, SlotAt, CallAt, Siblings

\* The rows of the prompts in P change, the slots in W move and so do the
\* handlers in C; everybody else stays, and counts on other rows.
Settling == {"finishJob", "markFailed"}

OnlyRows(P) ==
    \A p \in Prompts \ P :
        /\ request'[p] = request[p]
        /\ job'[p].status = job[p].status /\ job'[p].due = job[p].due

OnlySlots(W, P) ==
    /\ \A v \in Workers \ W :
          slot'[v] = slot[v] /\ (slot[v].pc \in Touching => slot[v].prompt \notin P)
    /\ \A w \in W :
          /\ slot[w].pc \in Settling => slot[w].prompt \in P
          /\ slot'[w].pc \in Settling => slot'[w].prompt \in P

OnlyCalls(C, P) ==
    /\ \A d \in Calls \ C :
          /\ call'[d].pc = call[d].pc /\ call'[d].prompt = call[d].prompt
          /\ call'[d].reply = call[d].reply
          /\ call[d].pc \in Reenqueueing => call[d].prompt \notin P
    /\ \A c \in C :
          /\ call[c].pc = "resetJob" => call[c].prompt \in P
          /\ call'[c].pc = "resetJob" => call'[c].prompt \in P

\* After such a step it is enough to look at what has changed.
LEMMA OthersAgree ==
    ASSUME SystemTypeInv, SettleInv, LeaseHolder',
           NEW P \in SUBSET Prompts, NEW W \in SUBSET Workers, NEW C \in SUBSET Calls,
           OnlyRows(P), OnlySlots(W, P), OnlyCalls(C, P),
           \A p \in P : request[p].status = "completed" => request'[p] = request[p],
           \A p \in P : RowAgrees(p)',
           \A w \in W : SlotAgrees(w)',
           \A c \in C : CallAgrees(c)'
    PROVE  SettleInv'
  <1>1. ASSUME NEW p \in Prompts \ P PROVE RowAgrees(p)'
    <2>1. RowAgrees(p)
      BY DEF SettleInv
    <2>2. \A v \in Workers, label \in Settling : SlotAt(v, label, p) => SlotAt(v, label, p)'
      BY DEF SlotAt, OnlySlots
    <2>3. \A c \in Calls : CallAt(c, "resetJob", p) => CallAt(c, "resetJob", p)'
      BY DEF CallAt, OnlyCalls
    <2> QED BY <2>1, <2>2, <2>3 DEF RowAgrees, OnlyRows, Settling
  <1>2. ASSUME NEW v \in Workers \ W PROVE SlotAgrees(v)'
    <2>1. /\ SlotAgrees(v) /\ slot'[v] = slot[v]
          /\ slot[v].pc \in Touching => slot[v].prompt \in Prompts \ P
      BY TouchingBusy DEF SettleInv, OnlySlots
    <2>2. ASSUME slot[v].pc = "markFailed"
          PROVE  /\ \A x \in Workers \ {v} :
                       slot'[x].pc = "markFailed" => slot'[x].prompt # slot[v].prompt
                 /\ \A c \in Calls :
                       call'[c].pc = "resetJob" => call'[c].prompt # slot[v].prompt
      <3>1. \A x \in Workers \ {v} : ~SlotAt(x, "markFailed", slot[v].prompt)
        BY <2>1, <2>2 DEF SlotAgrees
      <3>2. \A c \in Calls : ~CallAt(c, "resetJob", slot[v].prompt)
        BY <2>1, <2>2 DEF SlotAgrees
      <3>3. slot[v].prompt \notin P
        BY <2>1, <2>2 DEF Touching
      <3>4. \A x \in Workers \ {v} :
               slot'[x].pc = "markFailed" => slot'[x].prompt # slot[v].prompt
        BY <3>1, <3>3 DEF SlotAt, OnlySlots, Settling
      <3>5. \A c \in Calls : call'[c].pc = "resetJob" => call'[c].prompt # slot[v].prompt
        BY <3>2, <3>3 DEF CallAt, OnlyCalls
      <3> QED BY <3>4, <3>5
    <2>3. slot[v].pc \in Touching =>
              /\ request'[slot[v].prompt] = request[slot[v].prompt]
              /\ job'[slot[v].prompt].status = job[slot[v].prompt].status
              /\ job'[slot[v].prompt].due = job[slot[v].prompt].due
      BY <2>1 DEF OnlyRows
    <2> QED BY <2>1, <2>2, <2>3, SlotStays
  <1>3. ASSUME NEW d \in Calls \ C PROVE CallAgrees(d)'
    <2>1. /\ call'[d].pc = call[d].pc /\ call'[d].prompt = call[d].prompt
          /\ call'[d].reply = call[d].reply
          /\ call[d].pc \in Reenqueueing => call[d].prompt \in Prompts \ P
      BY TouchingBusy DEF OnlyCalls
    <2>2. CallAgrees(d)
      BY DEF SettleInv
    <2>3. \A p \in Prompts : request[p].status = "completed" => request'[p] = request[p]
      BY DEF OnlyRows
    <2> QED BY <2>1, <2>2, <2>3 DEF CallAgrees, Answered, Reenqueueing, OnlyRows
  <1> QED BY <1>1, <1>2, <1>3 DEF SettleInv

\* A slot stays where it is, or moves without anything to do with the rows:
\* away, or to another call before the one that settles the job.
QuietSlot(w) ==
    \/ slot'[w] = slot[w]
    \/ /\ slot[w].pc \notin Settling
       /\ slot'[w].pc \in Away
       /\ slot'[w].pc = "dying" => Siblings(w) = {}
    \/ /\ slot[w].pc \in OwningPcs \ {"finishJob"}
       /\ slot'[w].pc \in OwningPcs \ {"finishJob"}
       /\ slot'[w].prompt = slot[w].prompt
       /\ slot'[w].pc \in {"hit", "store", "finishRequest"} => slot'[w].answer \in Texts

\* A step of quiet slots that writes no status.
LEMMA QuietStep ==
    ASSUME SystemTypeInv, SettleInv, LeaseHolder', OnlyCalls({}, {}), OnlyRows({}),
           \A w \in Workers : QuietSlot(w)
    PROVE  SettleInv'
  <1> DEFINE Moved == {w \in Workers : slot'[w] # slot[w]}
  <1>1. OnlySlots(Moved, {})
    BY DEF OnlySlots, QuietSlot, Settling, Away, OwningPcs, RunPcs
  <1>2. ASSUME NEW w \in Moved PROVE SlotAgrees(w)'
    <2>1. SlotAgrees(w) /\ (slot[w].pc \in Touching => slot[w].prompt \in Prompts)
      BY TouchingBusy DEF SettleInv
    <2>2. CASE slot'[w].pc \in Away /\ (slot'[w].pc = "dying" => Siblings(w) = {})
      <3>1. slot'[w].pc \notin OwningPcs \cup {"requeue", "markFailed", "hit", "store",
                                                "finishRequest", "finishJob"}
        BY <2>2 DEF Away, OwningPcs, RunPcs
      <3> QED BY ONLY <2>2, <3>1 DEF SlotAgrees, Siblings
    <2>3. CASE /\ slot[w].pc \in OwningPcs \ {"finishJob"}
               /\ slot'[w].pc \in OwningPcs \ {"finishJob"}
               /\ slot'[w].prompt = slot[w].prompt
               /\ slot'[w].pc \in {"hit", "store", "finishRequest"} => slot'[w].answer \in Texts
      <3>1. slot'[w].pc \notin {"requeue", "markFailed", "dying", "finishJob"}
        BY <2>3 DEF OwningPcs, RunPcs
      <3> QED BY <2>1, <2>3, <3>1 DEF SlotAgrees, Touching, OnlyRows
    <2> QED BY <2>2, <2>3 DEF QuietSlot
  <1> HIDE DEF Moved
  <1>3. Moved \in SUBSET Workers
    BY DEF Moved
  <1> QED BY <1>1, <1>2, <1>3, OthersAgree

\* What release_lease and extend_lease do to scheduled_at, and what a request
\* looks like that is put back although it is queued.
LEMMA DueColumns ==
    /\ \A r \in JobRow : ~ReleasedJob(r).due /\ ExtendedJob(r).due = r.due
    /\ \A r \in RequestRow :
          /\ r.status = "queued" => QueuedRequest(r) = r
          /\ FailedRequest(r).response = r.response
          /\ QueuedRequest(r).response = r.response
  BY DEF ReleasedJob, ExtendedJob, JobRow, QueuedRequest, FailedRequest, RequestRow

\* Nobody else counts on the rows of a slot that owns its job or fails its
\* request.
LEMMA OnlyToucher ==
    ASSUME SystemTypeInv, SettleInv, NEW w \in Workers,
           slot[w].pc \in OwningPcs \cup {"markFailed"}
    PROVE  /\ \A v \in Workers \ {w} :
                 slot[v].pc \in Touching => slot[v].prompt # slot[w].prompt
           /\ \A c \in Calls :
                 call[c].pc \in Reenqueueing => call[c].prompt # slot[w].prompt
  <1> DEFINE p == slot[w].prompt
  <1>1. p \in Prompts /\ SlotAgrees(w)
    BY TouchingBusy DEF Touching, SettleInv
  <1>2. CASE slot[w].pc \in OwningPcs
    <2>1. job[p].status = "processing" /\ job[p].owner = w
      BY <1>1, <1>2, Touchers
    <2> QED BY <1>1, <2>1, Touchers DEF Touching, Reenqueueing
  <1>3. CASE slot[w].pc = "markFailed"
    <2>1. /\ job[p].status = "dead" /\ request[p].status = "queued"
          /\ \A v \in Workers \ {w} : slot[v].pc = "markFailed" => slot[v].prompt # p
          /\ \A c \in Calls : call[c].pc = "resetJob" => call[c].prompt # p
      BY <1>1, <1>3 DEF SlotAgrees, JobOf, SlotAt, CallAt
    <2> QED BY <1>1, <2>1, Touchers DEF Touching, Reenqueueing
  <1> QED BY <1>2, <1>3

\* The workers leave handlers where they are.
LEMMA CallsStay ==
    ASSUME SystemTypeInv, [Next]_vars, UNCHANGED call \/ \E p : call' = Woken(p),
           NEW P \in SUBSET Prompts,
           \A c \in Calls : call[c].pc \in Reenqueueing => call[c].prompt \notin P
    PROVE  OnlyCalls({}, P)
  BY WorkersTypeInv DEF OnlyCalls, SameBody

\* The calls up to the settling ones write no status.
LEMMA QuietCalls ==
    ASSUME SystemTypeInv, SettleInv, NEW w \in Workers,
           \/ LookupExact(w) \/ CountHit(w) \/ LookupNearest(w) \/ Acquire(w)
           \/ CallLLM(w) \/ StoreAnswer(w) \/ Requeue(w) \/ Wake(w)
    PROVE  OnlyRows({}) /\ \A v \in Workers : QuietSlot(v)
  <1>1. SlotsOK /\ InPipeline(w) /\ SlotAgrees(w) /\ slot[w].text \in Texts /\ cache \subseteq Texts
    BY TouchingBusy
       DEF SettleInv, TypeOK, TablesTypeOK, SlotsOK, LookupExact, CountHit, LookupNearest,
           Acquire, CallLLM, StoreAnswer, Requeue, Wake, InPipeline, PipelinePcs, RunPcs,
           HandlerPcs
  <1>2. OnlyRows({})
    <2>1. CASE Requeue(w)
      <3> DEFINE p == slot[w].prompt
      <3>1. p \in Prompts /\ request[p] \in RequestRow
        BY <1>1, TouchingBusy DEF TypeOK, TablesTypeOK
      <3>2. request[p].status = "queued"
        BY <2>1, <3>1 DEF Requeue, SettleInv, SlotAgrees, RowAgrees, JobOf
      <3>3. UNCHANGED job /\ request' = [request EXCEPT ![p] = request[p]]
        BY <2>1, <3>1, <3>2, DueColumns DEF Requeue, WriteRequest
      <3> QED BY <3>3, TouchingBusy DEF OnlyRows, TypeOK, TablesTypeOK
    <2> QED BY <2>1 DEF OnlyRows, LookupExact, CountHit, LookupNearest, Acquire, CallLLM,
                        StoreAnswer, Wake, tables
  <1>3. QuietSlot(w) /\ \A v \in Workers \ {w} : slot'[v] = slot[v]
    <2>1. ASSUME NEW label \in OwningPcs \ {"finishJob", "hit", "store", "finishRequest"},
                 slot[w].pc \in OwningPcs \ {"finishJob"}, Goto(w, label)
          PROVE  QuietSlot(w) /\ \A v \in Workers \ {w} : slot'[v] = slot[v]
      <3>1. label \in Pcs
        BY DEF OwningPcs, Pcs, PipelinePcs, RunPcs, HandlerPcs
      <3> QED BY <1>1, <2>1, <3>1, GotoMoves DEF QuietSlot
    <2>2. ASSUME NEW label \in {"hit", "store"}, NEW t \in Texts,
                 slot[w].pc \in OwningPcs \ {"finishJob"}, GotoWith(w, label, t)
          PROVE  QuietSlot(w) /\ \A v \in Workers \ {w} : slot'[v] = slot[v]
      <3>1. label \in Pcs /\ label \in OwningPcs \ {"finishJob"}
        BY DEF OwningPcs, Pcs, PipelinePcs, RunPcs
      <3> QED BY <1>1, <2>2, <3>1, GotoWithMoves DEF QuietSlot
    <2>3. CASE LookupExact(w) \/ LookupNearest(w) \/ CallLLM(w) \/ Acquire(w)
      <3>1. /\ \A t \in Texts : ExactEntries(t) \subseteq Texts /\ NearEntries(t) \subseteq Texts
            /\ AfterRetryable(w) \in {"release", "markDead"}
        BY <1>1 DEF ExactEntries, NearEntries, AfterRetryable
      <3>2. {"nearest", "acquire", "llm", "defer", "refused", "release", "markDead", "exact"}
               \subseteq OwningPcs \ {"finishJob", "hit", "store", "finishRequest"}
        BY DEF OwningPcs, RunPcs
      <3>3. CASE LookupExact(w)
        BY <1>1, <2>1, <2>2, <3>1, <3>2, <3>3 DEF LookupExact
      <3>4. CASE LookupNearest(w)
        BY <1>1, <2>1, <2>2, <3>1, <3>2, <3>4 DEF LookupNearest
      <3>5. CASE CallLLM(w)
        BY <1>1, <2>1, <2>2, <3>1, <3>2, <3>5 DEF CallLLM
      <3>6. CASE Acquire(w)
        BY <1>1, <2>1, <3>1, <3>2, <3>6 DEF Acquire
      <3> QED BY <2>3, <3>3, <3>4, <3>5, <3>6
    <2>4. CASE CountHit(w) \/ StoreAnswer(w)
      <3>1. /\ Goto(w, "finishRequest") /\ slot[w].answer \in Texts
            /\ slot[w].pc \in {"hit", "store"}
        BY <1>1, <2>4 DEF CountHit, StoreAnswer, SlotAgrees
      <3>2. "finishRequest" \in Pcs /\ {"hit", "store", "finishRequest"} \subseteq OwningPcs
        BY DEF Pcs, PipelinePcs, OwningPcs, RunPcs
      <3> QED BY <1>1, <3>1, <3>2, GotoMoves DEF QuietSlot
    <2>5. CASE Requeue(w) \/ Wake(w)
      <3>1. /\ slot[w].pc \notin Settling
            /\ Goto(w, "wake") \/ Goto(w, "notify")
        BY <2>5 DEF Requeue, Wake, Settling
      <3>2. {"wake", "notify"} \subseteq Pcs \cap Away
        BY DEF Pcs, PipelinePcs, HandlerPcs, Away
      <3> QED BY <1>1, <3>1, <3>2, GotoMoves DEF QuietSlot
    <2> QED BY <2>3, <2>4, <2>5
  <1> QED BY <1>2, <1>3 DEF QuietSlot

\* Neither do heartbeats and accidents, and they take nobody from the settling
\* calls.
LEMMA QuietAccidents ==
    ASSUME SettlesCleanly, SystemTypeInv, SettleInv, NEW w \in Workers,
           NotifyDone(w) \/ Heartbeat(w) \/ Accident(w)
    PROVE  OnlyRows({}) /\ \A v \in Workers : QuietSlot(v)
  <1>1. /\ TypeOK /\ SlotsOK
        /\ SlotAgrees(w)
    BY TouchingBusy DEF SettleInv, TypeOK, SlotsOK
  <1>2. ASSUME SlotEnds(w), Siblings(w) = {}, slot[w].pc \notin Settling
        PROVE  \A v \in Workers : QuietSlot(v)
    <2>1. slot'[w] = GoneSlot /\ \A v \in Workers \ {w} : slot'[v] = slot[v]
      BY <1>1, <1>2 DEF SlotEnds, SlotsOK
    <2> QED BY <1>2, <2>1, EmptySlots DEF QuietSlot, Away
  <1>3. CASE NotifyDone(w)
    <2>1. OnlyRows({})
      BY <1>3 DEF NotifyDone, OnlyRows, tables
    <2>2. CASE slot[w].pc = "notify" /\ slot' = [slot EXCEPT ![w] = IdleSlot]
      BY <1>1, <2>1, <2>2, EmptySlots DEF QuietSlot, SlotsOK, Settling, Away
    <2>3. CASE slot[w].pc = "dying" /\ SlotEnds(w)
      BY <1>1, <1>2, <2>1, <2>3 DEF SlotAgrees, Settling
    <2> QED BY <1>3, <2>1, <2>2, <2>3 DEF NotifyDone
  <1>4. CASE Heartbeat(w)
    <2>1. CASE HoldsLease(JobOf(w), w)
      <3>1. slot[w].pc \in BeatAt /\ slot[w].prompt \in Prompts /\ JobOf(w) \in JobRow
        BY <1>1, <1>4 DEF Heartbeat, TypeOK, TablesTypeOK, InPipeline, JobOf
      <3>2. UNCHANGED <<request, slot>>
            /\ job' = [job EXCEPT ![slot[w].prompt] = ExtendedJob(JobOf(w))]
        BY <1>4, <2>1 DEF Heartbeat, WriteJob
      <3>3. OnlyRows({})
        BY <1>1, <3>1, <3>2, JobColumns, DueColumns DEF OnlyRows, TypeOK, TablesTypeOK, JobOf
      <3> QED BY <3>2, <3>3 DEF QuietSlot
    <2>2. CASE ~HoldsLease(JobOf(w), w)
      <3>1. slot[w].pc \notin Settling
        BY <1>4, <2>2 DEF Heartbeat, SettlesCleanly, Settling, SettleInv, LeaseHolder,
                          OwningPcs, RunPcs
      <3>2. slot'[w] = IdleSlot /\ \A v \in Workers \ {w} : slot'[v] = slot[v]
        BY <1>1, <1>4, <2>2 DEF Heartbeat, SlotsOK
      <3>3. UNCHANGED <<request, job>>
        BY <1>4, <2>2 DEF Heartbeat
      <3> QED BY <3>1, <3>2, <3>3, EmptySlots DEF OnlyRows, QuietSlot, Away
    <2> QED BY <2>1, <2>2
  <1>5. CASE DbError(w)
    <2>1. OnlyRows({}) /\ slot[w].pc \in DbFailAt /\ slot[w].pc \notin Settling
      BY <1>5 DEF DbError, OnlyRows, tables, SettlesCleanly, Settling
    <2>2. CASE slot[w].pc \in RunPcs /\ Goto(w, "markDead")
      <3>1. "markDead" \in Pcs
        BY DEF Pcs, PipelinePcs, HandlerPcs
      <3> QED BY <1>1, <2>1, <2>2, <3>1, GotoMoves DEF QuietSlot, OwningPcs, RunPcs, Settling
    <2>3. CASE slot[w].pc \in HandlerPcs /\ Goto(w, "dying")
      <3>1. Siblings(w) = {}
        BY <2>1, <2>3 DEF SettlesCleanly
      <3>2. "dying" \in Pcs
        BY DEF Pcs
      <3> QED BY <1>1, <2>1, <2>3, <3>1, <3>2, GotoMoves DEF QuietSlot, Away
    <2>4. CASE slot[w].pc = "idle" /\ SlotEnds(w)
      <3>1. Siblings(w) = {}
        BY <2>1, <2>4 DEF SettlesCleanly
      <3> QED BY <1>2, <2>1, <2>4, <3>1
    <2> QED BY <1>5, <2>1, <2>2, <2>3, <2>4 DEF DbError
  <1>6. CASE Crash(ProcessOf[w])
    <2>1. \A v \in Workers : slot'[v] = slot[v] \/ (slot[v].pc \in CrashAt /\ slot'[v] = GoneSlot)
      BY <1>6 DEF Crash
    <2>2. \A v \in Workers : QuietSlot(v)
      BY <2>1, EmptySlots DEF QuietSlot, SettlesCleanly, Settling, Away
    <2> QED BY <1>6, <2>2 DEF Crash, OnlyRows, tables
  <1>7. CASE Stop(w)
    <2>1. \A v \in Workers : QuietSlot(v)
      BY <1>1, <1>7, EmptySlots DEF Stop, QuietSlot, SlotsOK, Settling, Away
    <2> QED BY <1>7, <2>1 DEF Stop, OnlyRows, tables
  <1> QED BY <1>3, <1>4, <1>5, <1>6, <1>7 DEF Accident

\* What a claim changes.
LEMMA ClaimsDueJob ==
    ASSUME TypeOK, NEW w \in Workers, Claim(w)
    PROVE  \E p \in Prompts :
              /\ job[p].status = "queued" /\ job[p].due
              /\ job'[p].status = "processing"
              /\ \A q \in Prompts \ {p} : job'[q] = job[q]
              /\ slot[w].pc = "idle"
              /\ slot'[w].prompt = p /\ slot'[w].pc = "exact"
              /\ \A v \in Workers \ {w} : slot'[v] = slot[v]
              /\ UNCHANGED request
  <1>1. PICK p \in Prompts :
            /\ FirstInQueue(p)
            /\ job' = [job EXCEPT ![p] = ClaimedJob(job[p], w)]
            /\ slot' = [slot EXCEPT ![w] =
                  [pc |-> "exact", prompt |-> p, text |-> request[p].text,
                   attempt |-> job[p].attempts + 1, answer |-> None]]
            /\ UNCHANGED request /\ slot[w].pc = "idle"
    BY DEF Claim
  <1>2. /\ job \in [Prompts -> JobRow] /\ slot \in [Workers -> SlotState]
        /\ job[p] \in JobRow
    BY DEF TypeOK, TablesTypeOK
  <1>3. job'[p] = ClaimedJob(job[p], w) /\ \A q \in Prompts \ {p} : job'[q] = job[q]
    BY <1>1, <1>2
  <1>4. slot'[w].prompt = p /\ slot'[w].pc = "exact"
    BY <1>1, <1>2
  <1> QED BY <1>1, <1>2, <1>3, <1>4, JobColumns DEF FirstInQueue, Claimable

\* A claim takes a job whose rows nobody counts on.
LEMMA ClaimSettles ==
    ASSUME SystemTypeInv, SettleInv, LeaseHolder', NEW w \in Workers, Claim(w),
           [Next]_vars, UNCHANGED call
    PROVE  SettleInv'
  <1>1. PICK p \in Prompts :
            /\ job[p].status = "queued" /\ job[p].due
            /\ job'[p].status = "processing"
            /\ \A q \in Prompts \ {p} : job'[q] = job[q]
            /\ slot[w].pc = "idle"
            /\ slot'[w].prompt = p /\ slot'[w].pc = "exact"
            /\ \A v \in Workers \ {w} : slot'[v] = slot[v]
            /\ UNCHANGED request
    BY TouchingBusy, ClaimsDueJob
  <1>2. /\ \A v \in Workers : slot[v].pc \in Touching => slot[v].prompt # p
        /\ \A c \in Calls : call[c].pc \in Reenqueueing => call[c].prompt # p
    BY <1>1, Touchers DEF Touching, Reenqueueing
  <1>3. OnlyRows({p}) /\ OnlySlots({w}, {p}) /\ OnlyCalls({}, {p})
    BY <1>1, <1>2, CallsStay DEF OnlyRows, OnlySlots, Settling
  <1>4. request[p].status = "queued"
    BY <1>1 DEF SettleInv, RowAgrees
  <1>5. RowAgrees(p)'
    BY <1>1, <1>4 DEF RowAgrees
  <1>6. SlotAgrees(w)'
    BY <1>1, <1>4 DEF SlotAgrees
  <1> QED BY <1>1, <1>3, <1>4, <1>5, <1>6, OthersAgree

\* Settling a job, in the order of the code: the request's row and then the
\* job's, ...
LEMMA FinishSettles ==
    ASSUME SystemTypeInv, SettleInv, LeaseHolder', NEW w \in Workers,
           FinishRequest(w) \/ FinishJob(w),
           [Next]_vars, UNCHANGED call
    PROVE  SettleInv'
  <1>0. PICK p \in Prompts : slot[w].prompt = p
    BY TouchingBusy DEF FinishRequest, FinishJob, OwningPcs, RunPcs, Touching
  <1>1. /\ SlotsOK /\ slot[w].pc \in OwningPcs /\ SlotAgrees(w)
        /\ job[p] \in JobRow /\ request[p] \in RequestRow
        /\ request \in [Prompts -> RequestRow] /\ job \in [Prompts -> JobRow]
    BY <1>0, TouchingBusy DEF FinishRequest, FinishJob, OwningPcs, RunPcs, Touching, SettleInv,
                        TypeOK, TablesTypeOK, SlotsOK
  <1>2. job[p].status = "processing"
    BY <1>0, <1>1, Touchers
  <1>3. ASSUME NEW label \in {"finishJob", "notify"}, Goto(w, label)
        PROVE  /\ slot'[w].pc = label /\ slot'[w].prompt = p
               /\ OnlySlots({w}, {p}) /\ OnlyCalls({}, {p})
    <2>1. label \in Pcs
      BY DEF Pcs, PipelinePcs, RunPcs
    <2>2. /\ slot'[w].pc = label /\ slot'[w].prompt = p
          /\ \A v \in Workers \ {w} : slot'[v] = slot[v]
      BY <1>0, <1>1, <1>3, <2>1, GotoMoves
    <2> QED BY <1>0, <1>1, <2>2, OnlyToucher, CallsStay DEF OnlySlots, Settling
  <1>4. CASE FinishRequest(w)
    <2>1. /\ slot[w].pc = "finishRequest" /\ UNCHANGED job
          /\ request' = [request EXCEPT ![p] = CompletedRequest(request[p], slot[w].answer)]
          /\ Goto(w, "finishJob")
      BY <1>0, <1>4 DEF FinishRequest, WriteRequest
    <2>2. request[p].status = "queued" /\ slot[w].answer \in Texts
      BY <1>0, <1>1, <2>1 DEF SlotAgrees, OwningPcs, RunPcs
    <2>3. request'[p].status = "completed" /\ OnlyRows({p})
      BY <1>0, <1>1, <2>1, <2>2, RequestColumns DEF OnlyRows
    <2>4. slot'[w].pc = "finishJob" /\ slot'[w].prompt = p
      BY <1>0, <1>3, <2>1
    <2>5. RowAgrees(p)'
      BY <1>0, <1>2, <2>1, <2>3, <2>4 DEF RowAgrees, SlotAt
    <2>6. SlotAgrees(w)'
      BY <2>3, <2>4 DEF SlotAgrees
    <2> QED BY <1>0, <1>1, <1>3, <2>1, <2>2, <2>3, <2>5, <2>6, OthersAgree
  <1>5. CASE FinishJob(w)
    <2>1. /\ slot[w].pc = "finishJob" /\ UNCHANGED request
          /\ job' = [job EXCEPT ![p] = CompletedJob(job[p])]
          /\ Goto(w, "notify")
      BY <1>0, <1>5 DEF FinishJob, WriteJob, JobOf
    <2>2. request[p].status = "completed"
      BY <1>0, <1>1, <2>1 DEF SlotAgrees
    <2>3. job'[p].status = "completed" /\ OnlyRows({p})
      BY <1>0, <1>1, <2>1, JobColumns DEF OnlyRows
    <2>4. slot'[w].pc = "notify"
      BY <1>0, <1>3, <2>1
    <2>5. RowAgrees(p)'
      BY <2>1, <2>2, <2>3 DEF RowAgrees
    <2>6. SlotAgrees(w)'
      BY <2>4 DEF SlotAgrees, OwningPcs, RunPcs
    <2> QED BY <1>0, <1>1, <1>3, <2>1, <2>3, <2>5, <2>6, OthersAgree
  <1> QED BY <1>0, <1>4, <1>5

\* ... putting a job back, ...
LEMMA ReleaseSettles ==
    ASSUME SystemTypeInv, SettleInv, LeaseHolder', NEW w \in Workers,
           Defer(w) \/ Release(w),
           [Next]_vars, UNCHANGED call
    PROVE  SettleInv'
  <1>0. PICK p \in Prompts : slot[w].prompt = p
    BY TouchingBusy DEF Defer, Release, OwningPcs, RunPcs, Touching
  <1>1. /\ SlotsOK /\ slot[w].pc \in OwningPcs \ {"finishJob"} /\ SlotAgrees(w)
        /\ job[p] \in JobRow
        /\ request \in [Prompts -> RequestRow] /\ job \in [Prompts -> JobRow]
    BY <1>0, TouchingBusy DEF Defer, Release, OwningPcs, RunPcs, Touching, SettleInv,
                        TypeOK, TablesTypeOK, SlotsOK
  <1>2. request[p].status = "queued"
    BY <1>0, <1>1 DEF SlotAgrees
  <1>3. MayRelease(JobOf(w), w)
    BY <1>0, <1>1, Touchers DEF MayRelease, JobOf
  <1>4. /\ UNCHANGED request
        /\ job' = [job EXCEPT ![p] = ReleasedJob(job[p])]
        /\ Goto(w, "notify") \/ Goto(w, "requeue")
    BY <1>0, <1>3 DEF Defer, Release, WriteJob, JobOf
  <1>5. job'[p].status = "queued" /\ ~job'[p].due /\ OnlyRows({p})
    BY <1>0, <1>1, <1>4, JobColumns, DueColumns DEF OnlyRows
  <1>6. /\ slot'[w].pc \in {"notify", "requeue"} /\ slot'[w].prompt = p
        /\ \A v \in Workers \ {w} : slot'[v] = slot[v]
    <2>1. {"notify", "requeue"} \subseteq Pcs
      BY DEF Pcs, PipelinePcs, HandlerPcs
    <2> QED BY <1>0, <1>1, <1>4, <2>1, GotoMoves
  <1>7. OnlySlots({w}, {p}) /\ OnlyCalls({}, {p})
    BY <1>0, <1>1, <1>6, OnlyToucher, CallsStay DEF OnlySlots, Settling
  <1>8. RowAgrees(p)'
    BY <1>0, <1>2, <1>4, <1>5 DEF RowAgrees
  <1>9. SlotAgrees(w)'
    BY <1>0, <1>5, <1>6 DEF SlotAgrees, OwningPcs, RunPcs, JobOf
  <1> QED BY <1>0, <1>1, <1>4, <1>5, <1>7, <1>8, <1>9, OthersAgree

\* ... or giving it up: the job's row and then the request's.
LEMMA GiveUpSettles ==
    ASSUME SystemTypeInv, SettleInv, LeaseHolder', NEW w \in Workers,
           MarkDead(w) \/ MarkFailed(w),
           [Next]_vars, UNCHANGED call
    PROVE  SettleInv'
  <1>0. PICK p \in Prompts : slot[w].prompt = p
    BY TouchingBusy DEF MarkDead, MarkFailed, OwningPcs, RunPcs, Touching
  <1>1. /\ SlotsOK /\ slot[w].pc \in OwningPcs \cup {"markFailed"} /\ SlotAgrees(w)
        /\ job[p] \in JobRow /\ request[p] \in RequestRow
        /\ request \in [Prompts -> RequestRow] /\ job \in [Prompts -> JobRow]
    BY <1>0, TouchingBusy DEF MarkDead, MarkFailed, OwningPcs, RunPcs, Touching, SettleInv,
                        TypeOK, TablesTypeOK, SlotsOK
  <1>2. request[p].status = "queued"
    BY <1>0, <1>1 DEF SlotAgrees, MarkDead, MarkFailed, OwningPcs
  <1>3. ASSUME NEW label \in {"markFailed", "notify"}, Goto(w, label)
        PROVE  /\ slot'[w].pc = label /\ slot'[w].prompt = p
               /\ \A v \in Workers \ {w} : slot'[v] = slot[v]
               /\ OnlySlots({w}, {p}) /\ OnlyCalls({}, {p})
    <2>1. label \in Pcs
      BY DEF Pcs, PipelinePcs, HandlerPcs
    <2>2. /\ slot'[w].pc = label /\ slot'[w].prompt = p
          /\ \A v \in Workers \ {w} : slot'[v] = slot[v]
      BY <1>0, <1>1, <1>3, <2>1, GotoMoves
    <2> QED BY <1>0, <1>1, <2>2, OnlyToucher, CallsStay DEF OnlySlots, Settling
  <1>4. CASE MarkDead(w)
    <2>1. /\ slot[w].pc = "markDead" /\ UNCHANGED request
          /\ job' = [job EXCEPT ![p] = DeadJob(job[p])]
          /\ Goto(w, "markFailed")
      BY <1>0, <1>4 DEF MarkDead, WriteJob, JobOf
    <2>2. job'[p].status = "dead" /\ OnlyRows({p})
      BY <1>0, <1>1, <2>1, JobColumns DEF OnlyRows
    <2>3. /\ slot'[w].pc = "markFailed" /\ slot'[w].prompt = p
          /\ \A v \in Workers \ {w} : slot'[v] = slot[v]
      BY <1>0, <1>3, <2>1
    <2>4. RowAgrees(p)'
      BY <1>0, <1>2, <2>1, <2>2, <2>3 DEF RowAgrees, SlotAt
    <2>5. /\ \A v \in Workers \ {w} : slot[v].pc = "markFailed" => slot[v].prompt # p
          /\ \A c \in Calls : call[c].pc = "resetJob" => call[c].prompt # p
      BY <1>0, <1>1, OnlyToucher DEF Touching, Reenqueueing
    <2>6. SlotAgrees(w)'
      BY <1>0, <1>2, <2>1, <2>2, <2>3, <2>5
         DEF SlotAgrees, OwningPcs, RunPcs, JobOf, SlotAt, CallAt
    <2> QED BY <1>0, <1>1, <1>2, <1>3, <2>1, <2>2, <2>4, <2>6, OthersAgree
  <1>5. CASE MarkFailed(w)
    <2>1. /\ slot[w].pc = "markFailed" /\ UNCHANGED job
          /\ request' = [request EXCEPT ![p] = FailedRequest(request[p])]
          /\ Goto(w, "notify")
      BY <1>0, <1>5 DEF MarkFailed, WriteRequest
    <2>2. job[p].status = "dead"
      BY <1>0, <1>1, <2>1 DEF SlotAgrees, JobOf
    <2>3. request'[p].status = "failed" /\ OnlyRows({p})
      BY <1>0, <1>1, <2>1, RequestColumns DEF OnlyRows
    <2>4. slot'[w].pc = "notify"
      BY <1>0, <1>3, <2>1
    <2>5. RowAgrees(p)'
      BY <2>1, <2>2, <2>3 DEF RowAgrees
    <2>6. SlotAgrees(w)'
      BY <2>4 DEF SlotAgrees, OwningPcs, RunPcs
    <2> QED BY <1>0, <1>1, <1>2, <1>3, <2>1, <2>3, <2>5, <2>6, OthersAgree
  <1> QED BY <1>0, <1>4, <1>5

\* Leases and backoffs run out, and the reaper settles what nobody holds.
LEMMA ClocksSettle ==
    ASSUME SettlesCleanly, SystemTypeInv, SettleInv, LeaseHolder',
           (\E p \in Prompts : Passage(p)) \/ Reap,
           [Next]_vars, UNCHANGED call
    PROVE  SettleInv'
  <1>0. request \in [Prompts -> RequestRow] /\ job \in [Prompts -> JobRow] /\ UNCHANGED slot
    BY TouchingBusy DEF TypeOK, TablesTypeOK, Passage, LeaseLapses, BackoffElapses, Reap
  <1>1. CASE \E p \in Prompts : LeaseLapses(p)
    <2>1. OnlyRows({}) /\ \A w \in Workers : QuietSlot(w)
      BY <1>0, <1>1 DEF LeaseLapses, OnlyRows, QuietSlot, JobRow
    <2> QED BY <2>1, CallsStay, QuietStep
  <1>2. ASSUME NEW p \in Prompts, BackoffElapses(p) PROVE SettleInv'
    <2>1. /\ UNCHANGED request /\ job[p].status = "queued"
          /\ \A v \in Workers : slot[v].pc = "requeue" => slot[v].prompt # p
          /\ job' = [job EXCEPT ![p].due = TRUE]
      BY <1>2 DEF BackoffElapses, SettlesCleanly
    <2>2. job'[p].status = "queued" /\ \A q \in Prompts \ {p} : job'[q] = job[q]
      BY <1>0, <2>1 DEF JobRow
    <2>3. /\ \A v \in Workers : slot[v].pc \in Touching => slot[v].prompt # p
          /\ \A c \in Calls : call[c].pc \in Reenqueueing => call[c].prompt # p
      BY <2>1, Touchers DEF Touching, Reenqueueing
    <2>4. OnlyRows({p}) /\ OnlySlots({}, {p}) /\ OnlyCalls({}, {p})
      BY <1>0, <2>1, <2>2, <2>3, CallsStay DEF OnlyRows, OnlySlots
    <2>5. request[p].status = "queued"
      BY <2>1 DEF SettleInv, RowAgrees
    <2>6. RowAgrees(p)'
      BY <2>1, <2>2, <2>5 DEF RowAgrees
    <2> QED BY <2>1, <2>4, <2>6, OthersAgree
  <1>3. CASE Reap
    <2> DEFINE P == {p \in Prompts : Expired(job[p])}
    <2>1. ASSUME NEW p \in P
          PROVE  /\ \A v \in Workers : slot[v].pc \in Touching => slot[v].prompt # p
                 /\ \A c \in Calls : call[c].pc \in Reenqueueing => call[c].prompt # p
                 /\ request[p].status = "queued"
      <3>1. p \in Prompts /\ job[p].status = "processing" /\ job[p].lease = "lapsed"
        BY DEF Expired
      <3>2. /\ \A v \in Workers : slot[v].pc \in Touching => slot[v].prompt # p
            /\ \A c \in Calls : call[c].pc \in Reenqueueing => call[c].prompt # p
        BY <3>1, Touchers DEF Touching, Reenqueueing
      <3>3. request[p].status = "queued"
        BY <3>1, <3>2 DEF SettleInv, RowAgrees, SlotAt, Touching, OwningPcs, RunPcs
      <3> QED BY <3>2, <3>3
    <2>2. ASSUME NEW p \in P PROVE RowAgrees(p)'
      <3>1. /\ p \in Prompts
            /\ job'[p] = ReapedJob(job[p])
            /\ request'[p] = ReapedRequest(request[p], job[p])
        BY <1>3 DEF Reap
      <3>2. \/ job'[p].status = "queued" /\ request'[p].status = "queued"
            \/ job'[p].status = "dead" /\ request'[p].status = "failed"
        BY <1>0, <3>1 DEF ReapedJob, ReapedRequest, QueuedRequest, FailedRequest, JobRow,
                          RequestRow
      <3> QED BY <3>2 DEF RowAgrees
    <2>3. OnlyRows(P)
      BY <1>3 DEF Reap, OnlyRows
    <2>4. OnlySlots({}, P) /\ P \in SUBSET Prompts
      BY <1>0, <2>1 DEF OnlySlots
    <2> HIDE DEF P
    <2>5. OnlyCalls({}, P)
      BY <2>1, <2>4, CallsStay
    <2> QED BY <2>1, <2>2, <2>3, <2>4, <2>5, OthersAgree
  <1> QED BY <1>1, <1>2, <1>3 DEF Passage

\* A step of the workers, with the notification it sends.
LEMMA WorkersSettle ==
    ASSUME SettlesCleanly, SystemTypeInv, SettleInv, [Next]_vars,
           UNCHANGED call \/ \E p : call' = Woken(p),
           (\E w \in Workers : NotifyDone(w)) \/ UNCHANGED call
    PROVE  SettleInv'
  <1>1. LeaseHolder'
    BY TouchingBusy, NextLeaseHolder DEF SettlesCleanly, SettleInv
  <1>2. OnlyCalls({}, {})
    BY CallsStay
  <1>3. ASSUME OnlyRows({}), \A v \in Workers : QuietSlot(v) PROVE SettleInv'
    BY <1>1, <1>2, <1>3, QuietStep
  <1>4. ASSUME NEW w \in Workers, NotifyDone(w) \/ Heartbeat(w) \/ Accident(w) PROVE SettleInv'
    BY <1>3, <1>4, QuietAccidents
  <1>5. ASSUME NEW w \in Workers, PipelineStep(w), UNCHANGED call PROVE SettleInv'
    BY <1>1, <1>3, <1>5, QuietCalls, FinishSettles, ReleaseSettles, GiveUpSettles
       DEF PipelineStep
  <1>6. ASSUME NEW w \in Workers, Claim(w), UNCHANGED call PROVE SettleInv'
    BY <1>1, <1>6, ClaimSettles
  <1>7. ASSUME (\E p \in Prompts : Passage(p)) \/ Reap, UNCHANGED call PROVE SettleInv'
    BY <1>1, <1>7, ClocksSettle
  <1>8. CASE UNCHANGED vars
    BY <1>3, <1>8 DEF vars, OnlyRows, QuietSlot
  <1>9. CASE \E w \in Workers : NotifyDone(w)
    BY <1>4, <1>9
  <1> QED BY <1>4, <1>5, <1>6, <1>7, <1>8, <1>9 DEF Next, SlotStep

\* A handler that writes no row.
LEMMA HandlersReadSettled ==
    ASSUME SettlesCleanly, SystemTypeInv, SettleInv, UNCHANGED slot,
           NEW c \in Calls, NEW q \in CallState,
           call'[c] = q, \A d \in Calls \ {c} : call'[d] = call[d],
           \/ Takes(c, q)
           \/ SameBody(q, call[c]) /\ (Refuses(c, q) \/ ShowsRow(c, q))
           \/ /\ SameBody(q, call[c]) /\ q.reply = call[c].reply
              /\ Decides(c, q) \/ GoesOn(c, q)
    PROVE  SettleInv'
  <1>1. UNCHANGED tables
    BY DEF Takes, Refuses, ShowsRow, Decides, GoesOn
  <1>2. LeaseHolder'
    BY <1>1, LeaseFrame DEF tables, SettleInv
  <1>3. call[c].pc # "resetJob" /\ q.pc # "resetJob"
    BY DEF Takes, Refuses, ShowsRow, Decides, GoesOn, SettlesCleanly, Decision, Branch
  <1>4. q.pc = "requeueRequest" =>
           /\ SameBody(q, call[c])
           /\ request[call[c].prompt].status = "failed"
    BY DEF Takes, Refuses, ShowsRow, Decides, GoesOn, Decision, Branch, Row
  <1>5. q.pc = "idle" => SameBody(q, call[c]) /\ (Refuses(c, q) \/ ShowsRow(c, q))
    BY DEF Takes, Decides, GoesOn, Decision, Branch
  <1>6. CallAgrees(c)'
    <2>1. Refuses(c, q) => q.reply.code # "ok"
      BY DEF Refuses, Bare
    <2>2. ShowsRow(c, q) => /\ q.reply.status = Row(c).status
                            /\ q.reply.response = Row(c).response
                            /\ call[c].prompt \in Prompts
      BY TouchingBusy, BusyHandler DEF ShowsRow
    <2> QED BY <1>1, <1>3, <1>4, <1>5, <2>1, <2>2
            DEF CallAgrees, Answered, SameBody, Row, tables
  <1>7. /\ OnlyRows({}) /\ OnlySlots({}, {}) /\ OnlyCalls({c}, {})
    BY <1>1, <1>3 DEF OnlyRows, OnlySlots, OnlyCalls, tables
  <1> QED BY <1>2, <1>6, <1>7, OthersAgree

\* A handler that inserts a prompt, or enqueues it again in two transactions:
\* nobody counts on rows that are absent, and nobody else on those of a job
\* that was given up, unless another handler is about to do the same.
LEMMA HandlersWriteSettled ==
    ASSUME SystemTypeInv, SettleInv, OneReenqueue, UNCHANGED slot,
           NEW c \in Calls, NEW q \in CallState,
           call'[c] = q, \A d \in Calls \ {c} : call'[d] = call[d],
           SameBody(q, call[c]),
           Inserts(c, q) \/ Requeues(c, q) \/ Resets(c, q)
    PROVE  SettleInv'
  <1>1. PICK p \in Prompts : call[c].prompt = p /\ q.prompt = p
    BY TouchingBusy, BusyHandler DEF Inserts, Requeues, Resets, SameBody
  <1>2. /\ request \in [Prompts -> RequestRow] /\ job \in [Prompts -> JobRow]
        /\ job[p] \in JobRow /\ request[p] \in RequestRow
        /\ request[p].status = "absent" <=> job[p].status = "absent"
        /\ CallAgrees(c) /\ RowAgrees(p)
        /\ call[c].pc # "idle" => call[c].text \in Texts /\ call[c].priority \in Priority
    BY TouchingBusy, BusyHandler
       DEF TypeOK, TablesTypeOK, RowsPaired, SettleInv, SystemTypeInv
  <1>3. /\ \A v \in Workers : slot[v].pc \in Touching => slot[v].prompt # p
        /\ \A d \in Calls \ {c} : call[d].pc \in Reenqueueing => call[d].prompt # p
    <2>1. CASE Inserts(c, q)
      <3>1. request[p].status = "absent" /\ job[p].status = "absent"
        BY <1>1, <1>2, <2>1 DEF Inserts, Row
      <3> QED BY <3>1, Touchers DEF Touching, Reenqueueing
    <2>2. CASE Requeues(c, q) \/ Resets(c, q)
      <3>1. \A d \in Calls \ {c} : call[d].pc \in Reenqueueing => call[d].prompt # p
        BY <1>1, <2>2 DEF OneReenqueue, Requeues, Resets, Reenqueueing
      <3>2. job[p].status = "dead"
        BY <1>1, <2>2, Touchers DEF Requeues, Resets
      <3>3. \A v \in Workers : slot[v].pc = "markFailed" => slot[v].prompt # p
        <4>1. \A v \in Workers : SlotAgrees(v)
          BY DEF SettleInv
        <4>2. CASE Requeues(c, q)
          BY <1>1, <1>2, <4>1, <4>2 DEF Requeues, SlotAgrees, CallAgrees
        <4>3. CASE Resets(c, q)
          BY <1>1, <4>1, <4>3 DEF Resets, SlotAgrees, CallAt
        <4> QED BY <2>2, <4>2, <4>3
      <3> QED BY <3>1, <3>2, <3>3, Touchers DEF Touching
    <2> QED BY <2>1, <2>2
  <1>4. OnlySlots({}, {p}) /\ OnlyCalls({c}, {p})
    BY <1>1, <1>3 DEF OnlySlots, OnlyCalls
  <1>5. /\ OnlyRows({p})
        /\ request[p].status # "completed"
        /\ \A r \in Prompts \ {p} : job'[r] = job[r]
        /\ RowAgrees(p)'
        /\ q.pc \in {"precheck", "resetJob"}
        /\ q.pc = "resetJob" => request'[p].status = "queued" /\ job'[p].status = "dead"
    <2>1. CASE Inserts(c, q)
      <3>1. /\ request'[p] = NewRequest(call[c].text) /\ job'[p] = NewJob(call[c].priority)
            /\ \A r \in Prompts \ {p} : request'[r] = request[r] /\ job'[r] = job[r]
            /\ request[p].status = "absent" /\ call[c].pc # "idle" /\ q.pc = "precheck"
        BY <1>1, <1>2, <2>1 DEF Inserts, Row
      <3>2. request'[p].status = "queued" /\ job'[p].status = "queued"
        BY <1>2, <3>1, NewRows
      <3> QED BY <3>1, <3>2 DEF OnlyRows, RowAgrees
    <2>2. CASE Requeues(c, q)
      <3>1. /\ request'[p] = QueuedRequest(request[p]) /\ job' = job
            /\ \A r \in Prompts \ {p} : request'[r] = request[r]
            /\ request[p].status = "failed" /\ q.pc = "resetJob"
        BY <1>1, <1>2, <2>2 DEF Requeues, Row, CallAgrees
      <3>2. job[p].status = "dead"
        BY <1>1, <2>2, Touchers DEF Requeues
      <3>3. request'[p].status = "queued"
        BY <1>2, <3>1, NewRows
      <3> QED BY <1>1, <3>1, <3>2, <3>3 DEF OnlyRows, RowAgrees, CallAt
    <2>3. CASE Resets(c, q)
      <3>1. /\ job'[p] = ResetJob(job[p]) /\ request' = request
            /\ \A r \in Prompts \ {p} : job'[r] = job[r]
            /\ request[p].status = "queued" /\ q.pc = "precheck"
        BY <1>1, <1>2, <2>3 DEF Resets, CallAgrees
      <3>2. job'[p].status = "queued"
        BY <1>2, <3>1, ResetRow
      <3> QED BY <3>1, <3>2 DEF OnlyRows, RowAgrees
    <2> QED BY <2>1, <2>2, <2>3
  <1>6. LeaseHolder'
    BY <1>3, <1>5, TouchingBusy DEF SettleInv, LeaseHolder, HoldsLease, JobOf, Touching
  <1>7. CallAgrees(c)'
    BY <1>1, <1>5 DEF CallAgrees
  <1> QED BY <1>4, <1>5, <1>6, <1>7, OthersAgree

LEMMA SettleInit == SystemInit => SettleInv
  <1> SUFFICES ASSUME SystemInit PROVE SettleInv
    OBVIOUS
  <1>1. \A w \in Workers : slot[w].pc = "idle"
    BY EmptySlots DEF SystemInit
  <1>2. \A c \in Calls : call[c].pc = "idle" /\ call[c].reply.code = "none"
    BY DEF SystemInit, ApiInit, IdleCall, Bare
  <1>3. \A p \in Prompts : RowAgrees(p)
    BY DEF SystemInit, RowAgrees, NoRequest, NoJob
  <1>4. LeaseHolder /\ \A w \in Workers : SlotAgrees(w)
    BY <1>1 DEF LeaseHolder, SlotAgrees, OwningPcs, RunPcs
  <1>5. \A c \in Calls : CallAgrees(c)
    BY <1>2 DEF CallAgrees, Answered
  <1> QED BY <1>3, <1>4, <1>5 DEF SettleInv

LEMMA SettleStep ==
    ASSUME SettlesCleanly, SystemTypeInv, SettleInv, OneReenqueue, [SystemNext]_systemVars
    PROVE  SettleInv'
  <1>1. ASSUME NEW c \in Calls, ApiStep(c), UNCHANGED slot PROVE SettleInv'
    <2>1. PICK q \in CallState :
              /\ Handles(c, q)
              /\ call'[c] = q
              /\ \A d \in Calls \ {c} : call'[d] = call[d]
      BY <1>1, HandlerStep
    <2>2. CASE SameBody(q, call[c]) /\ (Inserts(c, q) \/ Requeues(c, q) \/ Resets(c, q))
      BY <1>1, <2>1, <2>2, HandlersWriteSettled
    <2>3. CASE \/ Takes(c, q)
               \/ SameBody(q, call[c]) /\ (Refuses(c, q) \/ ShowsRow(c, q))
               \/ /\ SameBody(q, call[c]) /\ q.reply = call[c].reply
                  /\ Decides(c, q) \/ GoesOn(c, q)
      BY <1>1, <2>1, <2>3, HandlersReadSettled
    <2> QED BY <2>1, <2>2, <2>3 DEF Handles
  <1>2. ASSUME [Next]_vars, UNCHANGED call \/ \E p : call' = Woken(p),
               (\E w \in Workers : NotifyDone(w)) \/ UNCHANGED call
        PROVE  SettleInv'
    BY <1>2, WorkersSettle
  <1> QED BY <1>1, <1>2 DEF SystemNext, WorkerSide, Notify, Next, SlotStep, vars, systemVars

LEMMA SettleInvariant ==
    ASSUME SettlesCleanly
    PROVE  SystemSpec /\ []OneReenqueue => [](SystemTypeInv /\ SettleInv)
  <1>1. SystemInit => SystemTypeInv /\ SettleInv
    BY SystemTypeInit, SettleInit
  <1>2. SystemTypeInv /\ SettleInv /\ OneReenqueue /\ [SystemNext]_systemVars
           => (SystemTypeInv /\ SettleInv)'
    BY SystemTypeStep, SettleStep
  <1> QED BY <1>1, <1>2, PTL DEF SystemSpec

\* If heartbeats are in time, nothing stops between the two transactions that
\* settle a job or enqueue it again, and clients do not enqueue a prompt again
\* from two handlers at a time, then a request that its clients wait for has a
\* job that will be worked on, or is about to be failed or enqueued again.
THEOREM NobodyStrandedHolds ==
    ASSUME SettlesCleanly
    PROVE  SystemSpec /\ []OneReenqueue => []NobodyStranded
  <1>1. SystemTypeInv /\ SettleInv => NobodyStranded
    <2> SUFFICES ASSUME SystemTypeInv, SettleInv, NEW p \in Prompts,
                        request[p].status = "queued"
                 PROVE  \/ Served(p)
                        \/ \E c \in Calls : call[c].prompt = p /\ call[c].pc = "resetJob"
      BY DEF NobodyStranded
    <2>1. job[p].status \in {"queued", "processing", "completed", "dead"}
      BY TouchingBusy DEF TypeOK, TablesTypeOK, RowsPaired, JobRow, JobStatus
    <2> QED BY <2>1 DEF SettleInv, RowAgrees, Served, SlotAt, CallAt
  <1> QED BY <1>1, SettleInvariant, PTL

\* Under the same conditions what a client was told stays true: a prompt that
\* was reported completed is completed, with the response that was reported.
THEOREM ReplyStandsHolds ==
    ASSUME SettlesCleanly
    PROVE  SystemSpec /\ []OneReenqueue => []ReplyStands
  <1>1. SettleInv => ReplyStands
    BY DEF SettleInv, CallAgrees, ReplyStands
  <1> QED BY <1>1, SettleInvariant, PTL

-----------------------------------------------------------------------------
(* The tables and slots implement PromptQueue                              *)

HoldingPcs == OwningPcs \cup {"markFailed"}

\* A prompt's holder is the one slot that works on it.
HoldersInv ==
    \A p \in Prompts :
        /\ HolderOf(p) \in Workers \cup {None}
        /\ \A w \in Workers : HolderOf(p) = w <=> WorksOn(w, p)

LEMMA HoldersAre == SystemTypeInv /\ SettleInv => HoldersInv
  <1> SUFFICES ASSUME SystemTypeInv, SettleInv, NEW p \in Prompts
               PROVE  /\ HolderOf(p) \in Workers \cup {None}
                      /\ \A w \in Workers : HolderOf(p) = w <=> WorksOn(w, p)
    BY DEF HoldersInv
  <1>1. \A v, w \in Workers : WorksOn(v, p) /\ WorksOn(w, p) => v = w
    BY OnlyToucher DEF WorksOn, Touching
  <1>2. CASE \E w \in Workers : WorksOn(w, p)
    <2>1. HolderOf(p) \in Workers /\ WorksOn(HolderOf(p), p)
      BY <1>2 DEF HolderOf
    <2> QED BY <1>1, <2>1
  <1>3. CASE ~ \E w \in Workers : WorksOn(w, p)
    BY <1>3 DEF HolderOf
  <1> QED BY <1>2, <1>3

\* What a prompt shows of its rows and slots.
LEMMA Shown ==
    \A p \in Prompts :
        /\ Outcomes[p] = OutcomeOf(request[p].status)
        /\ Answers[p] = request[p].response
        /\ Holders[p] = HolderOf(p)
  BY DEF Outcomes, Answers, Holders

\* A request that keeps its status and response shows the same.
ShowsSame ==
    \A p \in Prompts : /\ request'[p].status = request[p].status
                       /\ request'[p].response = request[p].response

LEMMA SameShown ==
    ASSUME ShowsSame
    PROVE  UNCHANGED <<Outcomes, Answers>>
  BY DEF ShowsSame, Outcomes, Answers

\* Slots that stay keep what they hold.
LEMMA SameHolders ==
    ASSUME HoldersInv, HoldersInv',
           \A w \in Workers, p \in Prompts : WorksOn(w, p)' <=> WorksOn(w, p)
    PROVE  UNCHANGED Holders
  <1>1. ASSUME NEW p \in Prompts PROVE HolderOf(p)' = HolderOf(p)
    BY DEF HoldersInv
  <1> QED BY <1>1 DEF Holders

\* Slots stay, or let go of the prompt they hold, while no request changes.
LEMMA LettingGo ==
    ASSUME HoldersInv, HoldersInv', ShowsSame,
           \A w \in Workers, p \in Prompts : WorksOn(w, p)' => WorksOn(w, p)
    PROVE  Promise!Next
  <1> DEFINE lost == {w \in Workers : \E p \in Prompts : WorksOn(w, p) /\ ~WorksOn(w, p)'}
  <1>1. ASSUME NEW p \in Prompts
        PROVE  HolderOf(p)' = IF HolderOf(p) \in lost THEN None ELSE HolderOf(p)
    <2>1. ASSUME NEW w \in Workers, HolderOf(p) = w, w \in lost PROVE HolderOf(p)' = None
      <3>1. \A q \in Prompts : WorksOn(w, q) => q = p
        BY <2>1 DEF HoldersInv, WorksOn
      <3>2. ~WorksOn(w, p)'
        BY <2>1, <3>1
      <3>3. \A v \in Workers : ~WorksOn(v, p)'
        BY <2>1, <3>2 DEF HoldersInv
      <3> QED BY <3>3 DEF HoldersInv
    <2>2. ASSUME NEW w \in Workers, HolderOf(p) = w, w \notin lost PROVE HolderOf(p)' = w
      BY <2>2 DEF HoldersInv
    <2>3. ASSUME HolderOf(p) = None PROVE HolderOf(p)' = None
      BY <2>3 DEF HoldersInv
    <2> QED BY <2>1, <2>2, <2>3 DEF HoldersInv
  <1> HIDE DEF lost
  <1>2. Holders' = [p \in Prompts |-> IF Holders[p] \in lost THEN None ELSE Holders[p]]
    BY <1>1 DEF Holders
  <1>3. lost \in SUBSET Workers
    BY DEF lost
  <1> QED BY <1>2, <1>3, SameShown DEF Promise!Next, Promise!Drop

\* Quiet slots take no prompt.
LEMMA QuietLetsGo ==
    ASSUME HoldersInv, HoldersInv', OnlyRows({}), \A w \in Workers : QuietSlot(w)
    PROVE  Promise!Next
  <1>1. ASSUME NEW w \in Workers, NEW p \in Prompts, WorksOn(w, p)' PROVE WorksOn(w, p)
    BY <1>1 DEF WorksOn, QuietSlot, Away, OwningPcs, RunPcs
  <1> QED BY <1>1, LettingGo DEF OnlyRows, ShowsSame

LEMMA QueueInit == SystemInit => Promise!Init
  <1> SUFFICES ASSUME SystemInit PROVE Promise!Init
    OBVIOUS
  <1>1. \A p \in Prompts : HolderOf(p) = None
    BY EmptySlots DEF SystemInit, HolderOf, WorksOn, OwningPcs, RunPcs
  <1>2. \A p \in Prompts : OutcomeOf(request[p].status) = "absent" /\ request[p].response = None
    BY DEF SystemInit, NoRequest, OutcomeOf
  <1> QED BY <1>1, <1>2 DEF Promise!Init, Outcomes, Answers, Holders

\* A claim takes a pending prompt that nobody holds.
LEMMA ClaimTakes ==
    ASSUME SystemTypeInv, SettleInv, HoldersInv, HoldersInv', NEW w \in Workers, Claim(w)
    PROVE  Promise!Next
  <1>1. PICK p \in Prompts :
            /\ job[p].status = "queued" /\ job[p].due
            /\ slot'[w].prompt = p /\ slot'[w].pc = "exact"
            /\ \A v \in Workers \ {w} : slot'[v] = slot[v]
            /\ slot[w].pc = "idle"
            /\ UNCHANGED request
    BY TouchingBusy, ClaimsDueJob
  <1>2. OutcomeOf(request[p].status) = "pending"
    BY <1>1 DEF SettleInv, RowAgrees, OutcomeOf
  <1>3. \A v \in Workers : ~WorksOn(v, p)
    BY <1>1, Touchers DEF WorksOn, Touching
  <1>4. \A q \in Prompts : ~WorksOn(w, q)
    BY <1>1 DEF WorksOn, OwningPcs, RunPcs
  <1>5. WorksOn(w, p)' /\ \A q \in Prompts \ {p} : ~WorksOn(w, q)'
    BY <1>1 DEF WorksOn, OwningPcs, RunPcs
  <1>6. \A v \in Workers \ {w}, q \in Prompts : WorksOn(v, q)' <=> WorksOn(v, q)
    BY <1>1 DEF WorksOn
  <1>7. HolderOf(p)' = w /\ \A q \in Prompts \ {p} : HolderOf(q)' = HolderOf(q)
    BY <1>4, <1>5, <1>6 DEF HoldersInv
  <1>8. HolderOf(p) = None /\ \A q \in Prompts : HolderOf(q) # w
    BY <1>3, <1>4 DEF HoldersInv
  <1>9. Holders' = [Holders EXCEPT ![p] = w]
    BY <1>7 DEF Holders
  <1>10. Promise!Take(w, p)
    BY <1>1, <1>2, <1>8, <1>9, SameShown, Shown DEF Promise!Take, ShowsSame
  <1> QED BY <1>10 DEF Promise!Next

\* Writing the answer to the request's row is when a prompt is answered; the
\* slot holds it until the job's row is written too.
LEMMA FinishAnswers ==
    ASSUME SystemTypeInv, SettleInv, HoldersInv, HoldersInv', NEW w \in Workers,
           FinishRequest(w)
    PROVE  Promise!Next
  <1>0. PICK p \in Prompts : slot[w].prompt = p
    BY TouchingBusy DEF FinishRequest, OwningPcs, RunPcs, Touching
  <1>1. /\ SlotsOK /\ SlotAgrees(w) /\ slot[w].pc = "finishRequest"
        /\ request \in [Prompts -> RequestRow]
        /\ request' = [request EXCEPT ![p] = CompletedRequest(request[p], slot[w].answer)]
        /\ Goto(w, "finishJob")
    BY <1>0, TouchingBusy
       DEF FinishRequest, WriteRequest, SettleInv, TypeOK, TablesTypeOK, SlotsOK
  <1>2. request[p].status = "queued" /\ slot[w].answer \in Texts
    BY <1>0, <1>1 DEF SlotAgrees, OwningPcs, RunPcs
  <1>3. /\ request'[p].status = "completed" /\ request'[p].response = slot[w].answer
        /\ \A q \in Prompts \ {p} : request'[q] = request[q]
    BY <1>1, <1>2, RequestColumns
  <1>4. \A v \in Workers, q \in Prompts : WorksOn(v, q)' <=> WorksOn(v, q)
    <2>1. "finishJob" \in Pcs /\ {"finishRequest", "finishJob"} \subseteq OwningPcs
      BY DEF Pcs, PipelinePcs, OwningPcs, RunPcs
    <2> QED BY <1>1, <2>1, GotoMoves DEF WorksOn
  <1>5. HolderOf(p) = w
    BY <1>0, <1>1 DEF HoldersInv, WorksOn, OwningPcs, RunPcs
  <1>6. /\ Outcomes' = [Outcomes EXCEPT ![p] = "completed"]
        /\ Answers' = [Answers EXCEPT ![p] = slot[w].answer]
    BY <1>3 DEF Outcomes, Answers, OutcomeOf
  <1>7. Outcomes[p] = "pending"
    BY <1>2, Shown DEF OutcomeOf
  <1>8. Promise!Answer(w, p)
    BY <1>2, <1>4, <1>5, <1>6, <1>7, SameHolders, Shown DEF Promise!Answer
  <1> QED BY <1>8 DEF Promise!Next

\* Writing the failure to the request's row is when a prompt is given up, by
\* the slot that holds it since it claimed the job.
LEMMA MarkFailedGivesUp ==
    ASSUME SystemTypeInv, SettleInv, HoldersInv, HoldersInv', NEW w \in Workers,
           MarkFailed(w)
    PROVE  Promise!Next
  <1>0. PICK p \in Prompts : slot[w].prompt = p
    BY TouchingBusy DEF MarkFailed, Touching
  <1>1. /\ SlotsOK /\ SlotAgrees(w) /\ slot[w].pc = "markFailed"
        /\ request \in [Prompts -> RequestRow]
        /\ request' = [request EXCEPT ![p] = FailedRequest(request[p])]
        /\ Goto(w, "notify")
    BY <1>0, TouchingBusy
       DEF MarkFailed, WriteRequest, SettleInv, TypeOK, TablesTypeOK, SlotsOK
  <1>2. request[p].status = "queued"
    BY <1>0, <1>1 DEF SlotAgrees
  <1>3. /\ request'[p].status = "failed" /\ request'[p].response = request[p].response
        /\ \A q \in Prompts \ {p} : request'[q] = request[q]
    BY <1>1, RequestColumns, DueColumns
  <1>4. /\ slot'[w].pc = "notify" /\ \A v \in Workers \ {w} : slot'[v] = slot[v]
    <2>1. "notify" \in Pcs
      BY DEF Pcs
    <2> QED BY <1>1, <2>1, GotoMoves
  <1>5. HolderOf(p) = w /\ \A q \in Prompts \ {p} : ~WorksOn(w, q)
    BY <1>0, <1>1 DEF HoldersInv, WorksOn
  <1>6. \A v \in Workers, q \in Prompts : WorksOn(v, q)' <=> WorksOn(v, q) /\ v # w
    BY <1>4 DEF WorksOn, OwningPcs, RunPcs
  <1>7. HolderOf(p)' = None /\ \A q \in Prompts \ {p} : HolderOf(q)' = HolderOf(q)
    BY <1>5, <1>6 DEF HoldersInv
  <1>8. /\ Outcomes' = [Outcomes EXCEPT ![p] = "failed"] /\ UNCHANGED Answers
        /\ Holders' = [Holders EXCEPT ![p] = None]
    BY <1>3, <1>7 DEF Outcomes, Answers, Holders, OutcomeOf
  <1>9. Outcomes[p] = "pending"
    BY <1>2, Shown DEF OutcomeOf
  <1>10. Promise!GiveUp(w, p)
    BY <1>5, <1>8, <1>9, Shown DEF Promise!GiveUp
  <1> QED BY <1>10 DEF Promise!Next

\* The other transactions of a slot that owns its job leave requests alone.
LEMMA OwnerLetsGo ==
    ASSUME SystemTypeInv, HoldersInv, HoldersInv', NEW w \in Workers,
           FinishJob(w) \/ Defer(w) \/ MarkDead(w) \/ Release(w)
    PROVE  Promise!Next
  <1>1. /\ UNCHANGED request /\ slot[w].pc \in OwningPcs
        /\ slot'[w].prompt = slot[w].prompt
        /\ \A v \in Workers \ {w} : slot'[v] = slot[v]
    <2>1. UNCHANGED request /\ slot[w].pc \in OwningPcs
      BY DEF FinishJob, Defer, MarkDead, Release, OwningPcs, RunPcs
    <2> QED BY <2>1, TouchingBusy, PipelineSlot DEF PipelineStep
  <1>2. \A v \in Workers, p \in Prompts : WorksOn(v, p)' => WorksOn(v, p)
    BY <1>1 DEF WorksOn
  <1> QED BY <1>1, <1>2, LettingGo DEF ShowsSame

\* The reaper gives up prompts that nobody holds.
LEMMA ReapExpires ==
    ASSUME SystemTypeInv, SettleInv, HoldersInv, HoldersInv', Reap
    PROVE  Promise!Next
  <1> DEFINE dropped == {p \in Prompts : Expired(job[p]) /\ job[p].attempts >= MaxAttempts}
  <1>1. ASSUME NEW p \in Prompts, Expired(job[p])
        PROVE  /\ \A v \in Workers : ~WorksOn(v, p)
               /\ request[p].status = "queued"
    <2>1. job[p].status = "processing" /\ job[p].lease = "lapsed"
      BY <1>1 DEF Expired
    <2>2. \A v \in Workers : slot[v].pc \in Touching => slot[v].prompt # p
      BY <2>1, Touchers DEF Touching
    <2>3. request[p].status = "queued"
      BY <2>1, <2>2 DEF SettleInv, RowAgrees, SlotAt, Touching, OwningPcs, RunPcs
    <2> QED BY <2>2, <2>3 DEF WorksOn, Touching
  <1>2. ASSUME NEW p \in Prompts
        PROVE  /\ request'[p].response = request[p].response
               /\ request'[p].status = IF p \in dropped THEN "failed" ELSE request[p].status
    <2>1. request[p] \in RequestRow /\ job[p] \in JobRow /\ job[p].attempts \in Nat
      BY TouchingBusy DEF TypeOK, TablesTypeOK, JobRow
    <2>2. request'[p] = IF Expired(job[p]) THEN ReapedRequest(request[p], job[p]) ELSE request[p]
      BY DEF Reap
    <2>3. CASE Expired(job[p]) /\ job[p].attempts < MaxAttempts
      <3>1. request'[p] = request[p]
        BY <1>1, <2>1, <2>2, <2>3, DueColumns DEF ReapedRequest
      <3> QED BY <2>1, <2>3, <3>1
    <2>4. CASE p \in dropped
      <3>1. request'[p] = FailedRequest(request[p])
        BY <2>1, <2>2, <2>4 DEF ReapedRequest
      <3> QED BY <2>1, <2>4, <3>1, RequestColumns, DueColumns
    <2>5. CASE ~Expired(job[p])
      BY <2>2, <2>5
    <2> QED BY <2>1, <2>3, <2>4, <2>5
  <1>3. \A p \in dropped : Outcomes[p] = "pending" /\ Holders[p] = None
    BY <1>1, Shown DEF HoldersInv, OutcomeOf
  <1>4. UNCHANGED Holders
    <2>1. \A v \in Workers, p \in Prompts : WorksOn(v, p)' <=> WorksOn(v, p)
      BY DEF Reap, WorksOn
    <2> QED BY <2>1, SameHolders
  <1>5. dropped \in SUBSET Prompts
    OBVIOUS
  <1> HIDE DEF dropped
  <1>6. /\ UNCHANGED Answers
        /\ Outcomes' = [p \in Prompts |-> IF p \in dropped THEN "failed" ELSE Outcomes[p]]
    BY <1>2 DEF Answers, Outcomes, OutcomeOf
  <1>7. Promise!Expire(dropped)
    BY <1>3, <1>4, <1>6 DEF Promise!Expire
  <1> QED BY <1>5, <1>7 DEF Promise!Next

\* A handler submits a prompt when it inserts it, or puts the request of one
\* that was given up back; the rest of its steps show nothing.
LEMMA HandlerSubmits ==
    ASSUME SystemTypeInv, SettleInv, HoldersInv, HoldersInv', UNCHANGED slot,
           NEW c \in Calls, NEW q \in CallState, Handles(c, q)
    PROVE  Promise!Next
  <1>1. request \in [Prompts -> RequestRow]
    BY TouchingBusy DEF TypeOK, TablesTypeOK
  <1>2. UNCHANGED Holders
    BY SameHolders DEF WorksOn
  <1>3. CASE ShowsSame
    BY <1>3, LettingGo DEF WorksOn
  <1>4. ASSUME NEW p \in Prompts,
               OutcomeOf(request[p].status) \in {"absent", "failed"},
               request'[p].status = "queued", request'[p].response = request[p].response,
               \A r \in Prompts \ {p} : request'[r] = request[r]
        PROVE  Promise!Next
    <2>1. Outcomes' = [Outcomes EXCEPT ![p] = "pending"] /\ UNCHANGED Answers
      BY <1>4 DEF Outcomes, Answers, OutcomeOf
    <2>2. Promise!Submit(p)
      BY <1>2, <1>4, <2>1, Shown DEF Promise!Submit
    <2> QED BY <2>2 DEF Promise!Next
  <1>5. CASE Inserts(c, q)
    <2> DEFINE p == call[c].prompt
    <2>1. /\ p \in Prompts /\ call[c].text \in Texts
          /\ request[p].status = "absent" /\ request[p].response = None
      BY <1>5, TouchingBusy, BusyHandler DEF Inserts, Row, SystemTypeInv, SettleInv, RowAgrees
    <2>2. /\ request'[p] = NewRequest(call[c].text)
          /\ \A r \in Prompts \ {p} : request'[r] = request[r]
      BY <1>1, <1>5, <2>1 DEF Inserts
    <2>3. request'[p].status = "queued" /\ request'[p].response = None
      BY <2>1, <2>2, NewRows
    <2> QED BY <1>4, <2>1, <2>2, <2>3 DEF OutcomeOf
  <1>6. CASE Requeues(c, q)
    <2> DEFINE p == call[c].prompt
    <2>1. p \in Prompts /\ request[p].status = "failed"
      BY <1>6, TouchingBusy, BusyHandler DEF Requeues, SettleInv, CallAgrees
    <2>2. /\ request'[p] = QueuedRequest(request[p])
          /\ \A r \in Prompts \ {p} : request'[r] = request[r]
      BY <1>1, <1>6, <2>1 DEF Requeues, Row
    <2>3. request'[p].status = "queued" /\ request'[p].response = request[p].response
      BY <1>1, <2>1, <2>2, NewRows
    <2> QED BY <1>4, <2>1, <2>2, <2>3 DEF OutcomeOf
  <1>7. CASE UNCHANGED request
    BY <1>3, <1>7 DEF ShowsSame
  <1> QED BY <1>5, <1>6, <1>7
          DEF Handles, Takes, Refuses, ShowsRow, Decides, GoesOn, Resets, tables

LEMMA QueueStep ==
    ASSUME SettlesCleanly, SystemTypeInv, SettleInv, HoldersInv, HoldersInv',
           [SystemNext]_systemVars
    PROVE  [Promise!Next]_(Promise!vars)
  <1>1. ASSUME NEW c \in Calls, ApiStep(c), UNCHANGED slot PROVE Promise!Next
    BY <1>1, HandlerStep, HandlerSubmits
  <1>2. ASSUME [Next]_vars PROVE Promise!Next
    <2>1. ASSUME NEW w \in Workers, PipelineStep(w) PROVE Promise!Next
      BY <2>1, QuietCalls, QuietLetsGo, FinishAnswers, MarkFailedGivesUp, OwnerLetsGo
         DEF PipelineStep
    <2>2. ASSUME NEW w \in Workers, NotifyDone(w) \/ Heartbeat(w) \/ Accident(w)
          PROVE  Promise!Next
      BY <2>2, QuietAccidents, QuietLetsGo
    <2>3. CASE UNCHANGED <<request, slot>>
      BY <2>3, LettingGo DEF ShowsSame, WorksOn
    <2> QED BY <1>2, <2>1, <2>2, <2>3, ClaimTakes, ReapExpires
            DEF Next, SlotStep, Passage, LeaseLapses, BackoffElapses, vars
  <1> QED BY <1>1, <1>2, SystemSteps

\* Under the conditions above the tables and the slots implement the queue that
\* clients are promised: one worker at a time on a prompt, one answer that stays
\* for good, and a prompt that is given up only by whoever holds it, or when
\* nobody does.
THEOREM KeepsPromiseHolds ==
    ASSUME SettlesCleanly
    PROVE  SystemSpec /\ []OneReenqueue => KeepsPromise
  <1> DEFINE Inv == SystemTypeInv /\ SettleInv
  <1>1. Inv => HoldersInv
    BY HoldersAre
  <1>2. Inv /\ HoldersInv /\ HoldersInv' /\ [SystemNext]_systemVars
           => [Promise!Next]_(Promise!vars)
    BY QueueStep
  <1>3. SystemSpec /\ []OneReenqueue => []Inv
    BY SettleInvariant
  <1> HIDE DEF Inv
  <1> QED BY <1>1, <1>2, <1>3, QueueInit, PTL DEF SystemSpec, KeepsPromise, Promise!Spec

\* With one handler at a time there is nothing to ask of the clients.
COROLLARY OneHandlerSettles ==
    ASSUME SettlesCleanly, \A c, d \in Calls : c = d
    PROVE  SystemSpec => KeepsPromise /\ []NobodyStranded /\ []ReplyStands
  <1>1. OneReenqueue
    BY DEF OneReenqueue
  <1> QED BY <1>1, KeepsPromiseHolds, NobodyStrandedHolds, ReplyStandsHolds, PTL
=============================================================================
