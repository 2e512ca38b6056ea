--------------------------- MODULE WorkersProofs ----------------------------
(***************************************************************************)
(* Proofs about Workers, for any set of prompts, workers and texts.        *)
(***************************************************************************)
EXTENDS Workers, TLAPS

USE TablesAssumption, WorkersAssumption DEF TablesAssumption, WorkersAssumption

-----------------------------------------------------------------------------
(* Rows keep their types                                                   *)

\* What the methods of ProcessingJobRepository write is a job row.
LEMMA JobRows ==
    ASSUME NEW r \in JobRow
    PROVE  /\ \A w \in Workers : ClaimedJob(r, w) \in JobRow
           /\ ExtendedJob(r) \in JobRow
           /\ ReleasedJob(r) \in JobRow
           /\ CompletedJob(r) \in JobRow
           /\ DeadJob(r) \in JobRow
           /\ ReapedJob(r) \in JobRow
  <1> USE DEF JobRow, JobStatus
  <1>1. ASSUME NEW w \in Workers PROVE ClaimedJob(r, w) \in JobRow
    <2>1. r.attempts + 1 \in Nat
      OBVIOUS
    <2> QED BY <2>1 DEF ClaimedJob
  <1>2. ExtendedJob(r) \in JobRow
    BY DEF ExtendedJob
  <1>3. ReleasedJob(r) \in JobRow
    BY DEF ReleasedJob
  <1>4. CompletedJob(r) \in JobRow /\ DeadJob(r) \in JobRow
    BY DEF CompletedJob, DeadJob
  <1>5. ReapedJob(r) \in JobRow
    BY DEF ReapedJob
  <1> QED BY <1>1, <1>2, <1>3, <1>4, <1>5

\* What the methods of PromptRequestRepository, and the reaper, write is a
\* request row.
LEMMA RequestRows ==
    ASSUME NEW q \in RequestRow
    PROVE  /\ \A t \in Texts \cup {None} : CompletedRequest(q, t) \in RequestRow
           /\ FailedRequest(q) \in RequestRow
           /\ QueuedRequest(q) \in RequestRow
           /\ \A r \in JobRow : ReapedRequest(q, r) \in RequestRow
  BY DEF CompletedRequest, FailedRequest, QueuedRequest, ReapedRequest,
         RequestRow, RequestStatus

\* The columns that the invariants read, after each of these statements.
LEMMA JobColumns ==
    ASSUME NEW r \in JobRow
    PROVE  /\ \A w \in Workers :
                 /\ ClaimedJob(r, w).status = "processing"
                 /\ ClaimedJob(r, w).owner = w
                 /\ ClaimedJob(r, w).lease = "live"
                 /\ ClaimedJob(r, w).attempts = r.attempts + 1
           /\ ExtendedJob(r).status = r.status
           /\ ExtendedJob(r).owner = r.owner
           /\ ExtendedJob(r).lease = "live"
           /\ ExtendedJob(r).attempts = r.attempts
           /\ ReleasedJob(r).status = "queued"
           /\ ReleasedJob(r).attempts = r.attempts
           /\ ReleasedJob(r).owner = None
           /\ CompletedJob(r).status = "completed"
           /\ CompletedJob(r).owner = r.owner
           /\ CompletedJob(r).attempts = r.attempts
           /\ DeadJob(r).status = "dead"
           /\ DeadJob(r).owner = r.owner
           /\ DeadJob(r).attempts = r.attempts
           /\ ReapedJob(r).attempts = r.attempts
           /\ ReapedJob(r).status \in {"queued", "dead"}
           /\ ReapedJob(r).status = "dead" => r.attempts >= MaxAttempts
           /\ ReapedJob(r).owner \in {None, r.owner}
  BY DEF JobRow, ClaimedJob, ExtendedJob, ReleasedJob, CompletedJob, DeadJob,
         ReapedJob

LEMMA RequestColumns ==
    ASSUME NEW q \in RequestRow
    PROVE  /\ \A t \in Texts \cup {None} :
                 /\ CompletedRequest(q, t).status = "completed"
                 /\ CompletedRequest(q, t).text = q.text
                 /\ CompletedRequest(q, t).response = t
           /\ FailedRequest(q).status = "failed"
           /\ FailedRequest(q).text = q.text
           /\ QueuedRequest(q).status = "queued"
           /\ QueuedRequest(q).text = q.text
           /\ \A r \in JobRow :
                 /\ ReapedRequest(q, r).status \in {"queued", "failed"}
                 /\ ReapedRequest(q, r).text = q.text
  BY DEF RequestRow, CompletedRequest, FailedRequest, QueuedRequest, ReapedRequest

-----------------------------------------------------------------------------
(* How a step moves its slot                                               *)

SlotsOK == slot \in [Workers -> SlotState]

\* Goto changes the slot's pc and nothing else.
LEMMA GotoMoves ==
    ASSUME SlotsOK, NEW w \in Workers, NEW label \in Pcs, Goto(w, label)
    PROVE  /\ SlotsOK'
           /\ \A v \in Workers \ {w} : slot'[v] = slot[v]
           /\ slot'[w].pc = label
           /\ slot'[w].prompt = slot[w].prompt
           /\ slot'[w].text = slot[w].text
           /\ slot'[w].attempt = slot[w].attempt
           /\ slot'[w].answer = slot[w].answer
  BY DEF SlotsOK, SlotState, Goto

\* GotoWith changes the answer as well.
LEMMA GotoWithMoves ==
    ASSUME SlotsOK, NEW w \in Workers, NEW label \in Pcs, NEW t \in Texts,
           GotoWith(w, label, t)
    PROVE  /\ SlotsOK'
           /\ \A v \in Workers \ {w} : slot'[v] = slot[v]
           /\ slot'[w].pc = label
           /\ slot'[w].prompt = slot[w].prompt
           /\ slot'[w].text = slot[w].text
           /\ slot'[w].attempt = slot[w].attempt
           /\ slot'[w].answer = t
  BY DEF SlotsOK, SlotState, GotoWith

\* The slots that hold no job are slots.
LEMMA EmptySlots ==
    /\ IdleSlot \in SlotState /\ GoneSlot \in SlotState /\ StoppedSlot \in SlotState
    /\ IdleSlot.pc = "idle" /\ GoneSlot.pc = "gone" /\ StoppedSlot.pc = "stopped"
  BY DEF IdleSlot, GoneSlot, StoppedSlot, SlotState, Pcs

-----------------------------------------------------------------------------
(* Type correctness                                                        *)

\* TypeOK holds when the workers start on a queue that clients have filled.
LEMMA InitTypeOK == Init => TypeOK
  <1> SUFFICES ASSUME Init PROVE TypeOK
    OBVIOUS
  <1>1. request \in [Prompts -> RequestRow]
    BY DEF Init, NewRequest, RequestRow, RequestStatus
  <1>2. job \in [Prompts -> JobRow]
    BY DEF Init, NewJob, JobRow, JobStatus
  <1>3. RowsPaired
    BY DEF Init, NewRequest, NewJob, RowsPaired
  <1>4. cache \in SUBSET Texts
    BY DEF Init
  <1>5. slot \in [Workers -> SlotState] /\ \A w \in Workers : ~InPipeline(w)
    BY EmptySlots DEF Init, InPipeline, PipelinePcs, RunPcs, HandlerPcs
  <1> QED BY <1>1, <1>2, <1>3, <1>4, <1>5 DEF TypeOK, TablesTypeOK

\* What is known of the slots that run a job.
BusyOK ==
    \A w \in Workers : InPipeline(w) =>
        /\ slot[w].prompt \in Prompts
        /\ request[slot[w].prompt].status # "absent"
        /\ slot[w].text \in Texts

\* A step that moves one slot along its pipeline, or out of it.
LEMMA BusyAfterMove ==
    ASSUME TypeOK, TablesTypeOK', NEW w \in Workers, InPipeline(w), SlotsOK',
           \A v \in Workers \ {w} : slot'[v] = slot[v],
           slot'[w].prompt = slot[w].prompt,
           slot'[w].text = slot[w].text,
           \A p \in Prompts :
               request[p].status # "absent" => request'[p].status # "absent"
    PROVE  TypeOK'
  BY DEF TypeOK, InPipeline, SlotsOK

\* A step that leaves its slots idle, stopped or gone, or where they were.
LEMMA BusyAfterLeave ==
    ASSUME TypeOK, UNCHANGED tables, SlotsOK',
           \A v \in Workers : slot'[v] \in {slot[v], IdleSlot, GoneSlot, StoppedSlot}
    PROVE  TypeOK'
  <1>1. TablesTypeOK'
    BY DEF TypeOK, TablesTypeOK, RowsPaired, tables
  <1>2. ASSUME NEW v \in Workers, InPipeline(v)'
        PROVE  slot'[v] = slot[v]
    BY <1>2, EmptySlots DEF InPipeline, PipelinePcs, RunPcs, HandlerPcs
  <1> QED BY <1>1, <1>2 DEF TypeOK, InPipeline, SlotsOK, tables

\* An UPDATE of one job row, and of one request row.
LEMMA JobWrite ==
    ASSUME TablesTypeOK, NEW p \in Prompts, request[p].status # "absent",
           NEW row \in JobRow, row.status # "absent",
           job' = [job EXCEPT ![p] = row], UNCHANGED <<request, cache>>
    PROVE  TablesTypeOK'
  BY DEF TablesTypeOK, RowsPaired

LEMMA RequestWrite ==
    ASSUME TablesTypeOK, NEW p \in Prompts, request[p].status # "absent",
           NEW row \in RequestRow, row.status # "absent", row.text = request[p].text,
           request' = [request EXCEPT ![p] = row], UNCHANGED <<job, cache>>
    PROVE  /\ TablesTypeOK'
           /\ \A q \in Prompts :
                 request[q].status # "absent" => request'[q].status # "absent"
  BY DEF TablesTypeOK, RowsPaired

\* Every call of the pipeline keeps the types.
LEMMA PipelineTypeOK ==
    ASSUME TypeOK, NEW w \in Workers, PipelineStep(w)
    PROVE  TypeOK'
  <1> USE DEF InPipeline, PipelinePcs, RunPcs, HandlerPcs
  <1> DEFINE p == slot[w].prompt
  <1>1. InPipeline(w)
    BY DEF PipelineStep, LookupExact, CountHit, LookupNearest, Acquire, CallLLM,
           StoreAnswer, FinishRequest, FinishJob, Defer, MarkDead, MarkFailed,
           Release, Requeue, Wake
  <1>2. /\ SlotsOK
        /\ p \in Prompts
        /\ request[p].status # "absent"
        /\ request[p] \in RequestRow
        /\ job[p] \in JobRow
        /\ slot[w].text \in Texts
        /\ slot[w].answer \in Texts \cup {None}
    BY <1>1 DEF TypeOK, TablesTypeOK, SlotsOK, SlotState
  <1>3. {"nearest", "acquire", "hit", "finishRequest", "finishJob", "llm", "defer",
         "refused", "store", "release", "markDead", "markFailed", "notify",
         "requeue", "wake"} \subseteq Pcs
    BY DEF Pcs
  <1>4. CASE LookupExact(w) \/ CountHit(w) \/ LookupNearest(w) \/ Wake(w)
    <2>1. UNCHANGED tables /\ TablesTypeOK'
      BY <1>4 DEF LookupExact, CountHit, LookupNearest, Wake, TypeOK, TablesTypeOK,
                  RowsPaired, tables
    <2>2. \/ \E label \in Pcs : Goto(w, label)
          \/ \E t \in Texts : GotoWith(w, "hit", t)
      BY <1>2, <1>3, <1>4 DEF LookupExact, CountHit, LookupNearest, Wake,
              ExactEntries, NearEntries, TypeOK, TablesTypeOK
    <2> QED BY <1>1, <1>2, <1>3, <2>1, <2>2, GotoMoves, GotoWithMoves, BusyAfterMove DEF tables
  <1>5. CASE Acquire(w) \/ CallLLM(w)
    <2>1. UNCHANGED tables /\ TablesTypeOK'
      BY <1>5 DEF Acquire, CallLLM, TypeOK, TablesTypeOK, RowsPaired, tables
    <2>2. \/ \E label \in Pcs : Goto(w, label)
          \/ \E t \in Texts : GotoWith(w, "store", t)
      BY <1>2, <1>3, <1>5 DEF Acquire, CallLLM, AfterRetryable
    <2> QED BY <1>1, <1>2, <1>3, <2>1, <2>2, GotoMoves, GotoWithMoves, BusyAfterMove DEF tables
  <1>6. CASE StoreAnswer(w)
    <2>1. TablesTypeOK'
      BY <1>2, <1>6 DEF StoreAnswer, Upserted, TypeOK, TablesTypeOK, RowsPaired
    <2> QED BY <1>1, <1>2, <1>3, <1>6, <2>1, GotoMoves, BusyAfterMove DEF StoreAnswer
  <1>7. CASE FinishRequest(w) \/ MarkFailed(w) \/ Requeue(w)
    <2>1. \E row \in RequestRow :
              /\ row.status # "absent"
              /\ row.text = request[p].text
              /\ request' = [request EXCEPT ![p] = row]
      <3>1. \E row \in {CompletedRequest(request[p], slot[w].answer),
                         FailedRequest(request[p]), QueuedRequest(request[p])} :
                request' = [request EXCEPT ![p] = row]
        BY <1>7 DEF FinishRequest, MarkFailed, Requeue, WriteRequest
      <3>2. /\ CompletedRequest(request[p], slot[w].answer) \in RequestRow
            /\ FailedRequest(request[p]) \in RequestRow
            /\ QueuedRequest(request[p]) \in RequestRow
        BY <1>2, RequestRows
      <3>3. /\ CompletedRequest(request[p], slot[w].answer).status # "absent"
            /\ CompletedRequest(request[p], slot[w].answer).text = request[p].text
            /\ FailedRequest(request[p]).status # "absent"
            /\ FailedRequest(request[p]).text = request[p].text
            /\ QueuedRequest(request[p]).status # "absent"
            /\ QueuedRequest(request[p]).text = request[p].text
        BY <1>2, RequestColumns
      <3> QED BY <3>1, <3>2, <3>3
    <2>2. /\ UNCHANGED <<job, cache>>
          /\ \E label \in Pcs : Goto(w, label)
      BY <1>3, <1>7 DEF FinishRequest, MarkFailed, Requeue
    <2>3. /\ TablesTypeOK'
          /\ \A q \in Prompts :
                request[q].status # "absent" => request'[q].status # "absent"
      BY <1>2, <2>1, <2>2, RequestWrite DEF TypeOK
    <2> QED BY <1>1, <1>2, <2>2, <2>3, GotoMoves, BusyAfterMove
  <1>8. CASE FinishJob(w) \/ Defer(w) \/ MarkDead(w) \/ Release(w)
    <2>1. job[p].status # "absent"
      BY <1>2 DEF TypeOK, TablesTypeOK, RowsPaired
    <2>2. \E row \in JobRow : row.status # "absent" /\ job' = [job EXCEPT ![p] = row]
      <3>1. \E row \in {CompletedJob(job[p]), ReleasedJob(job[p]), DeadJob(job[p]),
                         job[p]} :
                job' = [job EXCEPT ![p] = row]
        BY <1>2, <1>8 DEF FinishJob, Defer, MarkDead, Release, WriteJob, JobOf,
                          TypeOK, TablesTypeOK
      <3>2. {CompletedJob(job[p]), ReleasedJob(job[p]), DeadJob(job[p])} \subseteq JobRow
        BY <1>2, JobRows
      <3>3. /\ CompletedJob(job[p]).status # "absent"
            /\ ReleasedJob(job[p]).status # "absent"
            /\ DeadJob(job[p]).status # "absent"
        BY <1>2, JobColumns
      <3> QED BY <1>2, <2>1, <3>1, <3>2, <3>3
    <2>3. /\ UNCHANGED <<request, cache>>
          /\ \E label \in Pcs : Goto(w, label)
      BY <1>3, <1>8 DEF FinishJob, Defer, MarkDead, Release
    <2>4. TablesTypeOK'
      BY <1>2, <2>2, <2>3, JobWrite DEF TypeOK
    <2> QED BY <1>1, <1>2, <2>3, <2>4, GotoMoves, BusyAfterMove
  <1> QED BY <1>4, <1>5, <1>6, <1>7, <1>8 DEF PipelineStep

\* So do the steps that end or interrupt a slot.
LEMMA LeaveTypeOK ==
    ASSUME TypeOK, NEW w \in Workers,
           \/ NotifyDone(w)
           \/ Stop(w)
           \/ Crash(ProcessOf[w])
           \/ DbError(w) /\ slot[w].pc = "idle"
    PROVE  TypeOK'
  <1>1. UNCHANGED tables
    BY DEF NotifyDone, Stop, Crash, DbError
  <1>2. \A v \in Workers : slot'[v] \in {slot[v], IdleSlot, GoneSlot, StoppedSlot}
    BY DEF TypeOK, NotifyDone, Stop, Crash, DbError, SlotEnds, RunPcs, HandlerPcs
  <1>3. SlotsOK'
    <2>1. slot' \in [Workers -> SlotState]
      BY EmptySlots DEF TypeOK, NotifyDone, Stop, Crash, DbError, SlotEnds, RunPcs,
                        HandlerPcs
    <2> QED BY <2>1 DEF SlotsOK
  <1> QED BY <1>1, <1>2, <1>3, BusyAfterLeave

\* Every step keeps the types.
LEMMA NextTypeOK == TypeOK /\ [Next]_vars => TypeOK'
  <1> SUFFICES ASSUME TypeOK, [Next]_vars PROVE TypeOK'
    OBVIOUS
  <1> USE DEF InPipeline, PipelinePcs, RunPcs, HandlerPcs
  <1>1. ASSUME NEW w \in Workers, Claim(w) PROVE TypeOK'
    <2>1. PICK p \in Prompts :
              /\ FirstInQueue(p)
              /\ job' = [job EXCEPT ![p] = ClaimedJob(job[p], w)]
              /\ slot' = [slot EXCEPT ![w] =
                    [pc |-> "exact", prompt |-> p, text |-> request[p].text,
                     attempt |-> job[p].attempts + 1, answer |-> None]]
      BY <1>1 DEF Claim
    <2>2. /\ request[p].status # "absent"
          /\ request[p].text \in Texts
          /\ job[p] \in JobRow
          /\ job[p].attempts + 1 \in Nat
      BY <2>1 DEF FirstInQueue, Claimable, TypeOK, TablesTypeOK, RowsPaired, JobRow
    <2>3. TablesTypeOK'
      BY <1>1, <2>1, <2>2, JobRows, JobColumns, JobWrite DEF Claim, TypeOK
    <2>4. SlotsOK'
      BY <2>1, <2>2 DEF TypeOK, SlotsOK, SlotState, Pcs
    <2> QED BY <1>1, <2>1, <2>2, <2>3, <2>4 DEF Claim, TypeOK, SlotsOK
  <1>2. ASSUME NEW w \in Workers, Heartbeat(w) PROVE TypeOK'
    <2>1. CASE HoldsLease(JobOf(w), w)
      <3>1. /\ slot[w].prompt \in Prompts
            /\ request[slot[w].prompt].status # "absent"
            /\ job[slot[w].prompt] \in JobRow
            /\ job[slot[w].prompt].status # "absent"
        BY <1>2, <2>1 DEF Heartbeat, HoldsLease, JobOf, TypeOK, TablesTypeOK
      <3>2. ExtendedJob(job[slot[w].prompt]) \in JobRow
            /\ ExtendedJob(job[slot[w].prompt]).status # "absent"
        BY <3>1, JobRows, JobColumns
      <3>3. TablesTypeOK'
        BY <1>2, <2>1, <3>1, <3>2, JobWrite DEF Heartbeat, WriteJob, JobOf, TypeOK
      <3> QED BY <1>2, <2>1, <3>3 DEF Heartbeat, TypeOK
    <2>2. CASE ~HoldsLease(JobOf(w), w)
      BY <1>2, <2>2, EmptySlots, BusyAfterLeave
         DEF Heartbeat, TypeOK, SlotsOK, tables
    <2> QED BY <2>1, <2>2
  <1>3. ASSUME NEW w \in Workers, DbError(w) PROVE TypeOK'
    <2>1. CASE slot[w].pc = "idle"
      BY <1>3, <2>1, LeaveTypeOK
    <2>2. CASE slot[w].pc # "idle"
      <3>1. InPipeline(w) /\ UNCHANGED tables /\ \E label \in Pcs : Goto(w, label)
        BY <1>3, <2>2 DEF DbError, Pcs
      <3>2. TablesTypeOK'
        BY <3>1 DEF TypeOK, TablesTypeOK, RowsPaired, tables
      <3> QED BY <3>1, <3>2, GotoMoves, BusyAfterMove DEF TypeOK, SlotsOK, tables
    <2> QED BY <2>1, <2>2
  <1>4. ASSUME NEW p \in Prompts, Passage(p) PROVE TypeOK'
    <2>1. \E row \in JobRow : row.status # "absent" /\ job' = [job EXCEPT ![p] = row]
      <3>1. \E row \in {[job[p] EXCEPT !.lease = "lapsed"], [job[p] EXCEPT !.due = TRUE]} :
                job[p].status # "absent" /\ job' = [job EXCEPT ![p] = row]
        BY <1>4 DEF Passage, LeaseLapses, BackoffElapses
      <3>2. job[p] \in JobRow
        BY DEF TypeOK, TablesTypeOK
      <3>3. /\ [job[p] EXCEPT !.lease = "lapsed"] \in JobRow
            /\ [job[p] EXCEPT !.due = TRUE] \in JobRow
        BY <3>2 DEF JobRow
      <3>4. /\ [job[p] EXCEPT !.lease = "lapsed"].status = job[p].status
            /\ [job[p] EXCEPT !.due = TRUE].status = job[p].status
        BY <3>2 DEF JobRow
      <3> QED BY <3>1, <3>3, <3>4
    <2>2. request[p].status # "absent" /\ UNCHANGED <<request, cache, slot>>
      BY <1>4 DEF Passage, LeaseLapses, BackoffElapses, TypeOK, TablesTypeOK, RowsPaired
    <2>3. TablesTypeOK'
      BY <2>1, <2>2, JobWrite DEF TypeOK
    <2> QED BY <2>2, <2>3 DEF TypeOK
  <1>5. ASSUME Reap PROVE TypeOK'
    <2>1. job' \in [Prompts -> JobRow] /\ request' \in [Prompts -> RequestRow]
      BY <1>5, JobRows, RequestRows DEF Reap, TypeOK, TablesTypeOK
    <2>2. RowsPaired' /\ \A p \in Prompts :
              request[p].status # "absent" => request'[p].status # "absent"
      <3>1. ASSUME NEW p \in Prompts, Expired(job[p])
            PROVE  /\ job'[p].status # "absent"
                   /\ request'[p].status # "absent"
                   /\ request'[p].text = request[p].text
                   /\ request[p].text \in Texts
        <4>1. job[p] \in JobRow /\ request[p] \in RequestRow
          BY DEF TypeOK, TablesTypeOK
        <4>2. job'[p] = ReapedJob(job[p]) /\ request'[p] = ReapedRequest(request[p], job[p])
          BY <1>5, <3>1 DEF Reap
        <4>3. request[p].text \in Texts
          BY <3>1 DEF Expired, TypeOK, TablesTypeOK, RowsPaired
        <4> QED BY <4>1, <4>2, <4>3, JobColumns, RequestColumns
      <3>2. ASSUME NEW p \in Prompts, ~Expired(job[p])
            PROVE  job'[p] = job[p] /\ request'[p] = request[p]
        BY <1>5, <3>2 DEF Reap
      <3> QED BY <3>1, <3>2 DEF TypeOK, TablesTypeOK, RowsPaired
    <2> QED BY <1>5, <2>1, <2>2 DEF Reap, TypeOK, TablesTypeOK
  <1>6. ASSUME UNCHANGED vars PROVE TypeOK'
    BY <1>6 DEF vars, TypeOK, TablesTypeOK, RowsPaired
  <1> QED BY <1>1, <1>2, <1>3, <1>4, <1>5, <1>6, PipelineTypeOK, LeaveTypeOK
          DEF Next, SlotStep, Accident

\* All rows and slots keep their types, and a slot that runs a job knows a
\* prompt whose rows exist.
THEOREM TypeCorrect == Spec => []TypeOK
  BY InitTypeOK, NextTypeOK, PTL DEF Spec
=============================================================================
