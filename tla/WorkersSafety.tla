--------------------------- MODULE WorkersSafety ----------------------------
(***************************************************************************)
(* Safety of Workers, from type correctness and the lemmas of              *)
(* WorkersProofs: exclusive processing when heartbeats are in time, what   *)
(* stale workers cannot do when they are not, and what becomes of the      *)
(* answers - a completed request shows a stored one that fits its text, or *)
(* its own, which the cache then has of another prompt with its digest,    *)
(* and none is paid for again once it is stored.                           *)
(***************************************************************************)
EXTENDS WorkersProofs

USE TablesAssumption, WorkersAssumption DEF TablesAssumption, WorkersAssumption

-----------------------------------------------------------------------------
(* Exclusive processing                                                    *)

\* A slot that owns its job is in the pipeline.
LEMMA OwningIsBusy ==
    ASSUME TypeOK, NEW w \in Workers, slot[w].pc \in OwningPcs
    PROVE  InPipeline(w) /\ slot[w].prompt \in Prompts /\ job[slot[w].prompt] \in JobRow
  BY DEF TypeOK, TablesTypeOK, OwningPcs, InPipeline, PipelinePcs, HandlerPcs

\* Two slots never own the same job.
LEMMA OwnersDiffer ==
    ASSUME TypeOK, LeaseHolder, NEW v \in Workers, NEW w \in Workers,
           slot[v].pc \in OwningPcs, slot[w].pc \in OwningPcs, v # w
    PROVE  slot[v].prompt # slot[w].prompt
  BY DEF LeaseHolder, HoldsLease, JobOf

\* A step that leaves the job table alone and brings no slot to an owning call
\* that was not at one, keeps LeaseHolder.
LEMMA LeaseFrame ==
    ASSUME LeaseHolder, UNCHANGED job,
           \A v \in Workers : slot'[v].pc \in OwningPcs =>
               slot[v].pc \in OwningPcs /\ slot'[v].prompt = slot[v].prompt
    PROVE  LeaseHolder'
  BY DEF LeaseHolder, JobOf, HoldsLease

\* The calls of the pipeline that do not write the job's row.
LEMMA ReadingKeepsLease ==
    ASSUME TypeOK, LeaseHolder, NEW w \in Workers,
           \/ LookupExact(w) \/ CountHit(w) \/ LookupNearest(w) \/ Acquire(w)
           \/ CallLLM(w) \/ StoreAnswer(w) \/ FinishRequest(w) \/ MarkFailed(w)
           \/ Requeue(w) \/ Wake(w)
    PROVE  LeaseHolder'
  <1>1. UNCHANGED job
    BY DEF LookupExact, CountHit, LookupNearest, Acquire, CallLLM, StoreAnswer,
           FinishRequest, MarkFailed, Requeue, Wake, tables
  <1>2. \/ slot[w].pc \in OwningPcs
        \/ slot'[w].pc \notin OwningPcs
    <2>1. \/ slot[w].pc \in RunPcs
          \/ Goto(w, "notify") \/ Goto(w, "wake")
      BY DEF LookupExact, CountHit, LookupNearest, Acquire, CallLLM, StoreAnswer,
             FinishRequest, MarkFailed, Requeue, Wake, RunPcs
    <2>2. \A label \in {"notify", "wake"} : Goto(w, label) => slot'[w].pc = label
      BY DEF Goto, TypeOK, SlotState
    <2> QED BY <2>1, <2>2 DEF OwningPcs, RunPcs
  <1>3. /\ \A v \in Workers \ {w} : slot'[v] = slot[v]
        /\ slot'[w].prompt = slot[w].prompt
    BY DEF LookupExact, CountHit, LookupNearest, Acquire, CallLLM, StoreAnswer,
           FinishRequest, MarkFailed, Requeue, Wake, Goto, GotoWith, TypeOK, SlotState
  <1> QED BY <1>1, <1>2, <1>3, LeaseFrame

\* The calls that let go of the job's row.
LEMMA LettingGoKeepsLease ==
    ASSUME TypeOK, LeaseHolder, NEW w \in Workers,
           FinishJob(w) \/ Defer(w) \/ MarkDead(w) \/ Release(w)
    PROVE  LeaseHolder'
  <1>1. slot[w].pc \in OwningPcs /\ slot'[w].pc \notin OwningPcs
    <2>1. /\ slot[w].pc \in OwningPcs
          /\ Goto(w, "notify") \/ Goto(w, "markFailed") \/ Goto(w, "requeue")
      BY DEF FinishJob, Defer, MarkDead, Release, OwningPcs, RunPcs
    <2>2. \A label \in {"notify", "markFailed", "requeue"} :
              Goto(w, label) => slot'[w].pc = label
      BY DEF Goto, TypeOK, SlotState
    <2> QED BY <2>1, <2>2 DEF OwningPcs, RunPcs
  <1>2. \A v \in Workers \ {w} : slot'[v] = slot[v]
    BY DEF FinishJob, Defer, MarkDead, Release, Goto, TypeOK
  <1>3. \A p \in Prompts \ {slot[w].prompt} : job'[p] = job[p]
    BY DEF FinishJob, Defer, MarkDead, Release, WriteJob, TypeOK, TablesTypeOK
  <1>4. ASSUME NEW v \in Workers, slot'[v].pc \in OwningPcs
        PROVE  HoldsLease(JobOf(v), v)' /\ JobOf(v).lease' = "live"
    <2>1. v # w /\ slot'[v] = slot[v] /\ slot[v].pc \in OwningPcs
      BY <1>1, <1>2, <1>4
    <2>2. job'[slot[v].prompt] = job[slot[v].prompt]
      BY <1>1, <1>3, <2>1, OwnersDiffer, OwningIsBusy
    <2> QED BY <2>1, <2>2 DEF LeaseHolder, HoldsLease, JobOf
  <1> QED BY <1>4 DEF LeaseHolder

\* As long as no slot stalls, every step keeps LeaseHolder.
LEMMA NextLeaseHolder ==
    ASSUME StallAt = {}, TypeOK, LeaseHolder, [Next]_vars
    PROVE  LeaseHolder'
  <1>1. ASSUME NEW w \in Workers, Claim(w) PROVE LeaseHolder'
    <2>1. PICK p \in Prompts :
              /\ FirstInQueue(p)
              /\ job' = [job EXCEPT ![p] = ClaimedJob(job[p], w)]
              /\ slot' = [slot EXCEPT ![w] =
                    [pc |-> "exact", prompt |-> p, text |-> request[p].text,
                     attempt |-> job[p].attempts + 1, answer |-> None]]
      BY <1>1 DEF Claim
    <2>2. job[p] \in JobRow /\ job[p].status = "queued"
      BY <2>1 DEF FirstInQueue, Claimable, TypeOK, TablesTypeOK
    <2>3. /\ job'[p].status = "processing"
          /\ job'[p].owner = w
          /\ job'[p].lease = "live"
      BY <2>1, <2>2, JobColumns DEF TypeOK, TablesTypeOK
    <2>4. slot'[w].prompt = p /\ \A v \in Workers \ {w} : slot'[v] = slot[v]
      BY <2>1 DEF TypeOK
    <2>5. ASSUME NEW v \in Workers \ {w}, slot[v].pc \in OwningPcs
          PROVE  job'[slot[v].prompt] = job[slot[v].prompt]
      <3>1. slot[v].prompt # p
        BY <2>2, <2>5 DEF LeaseHolder, HoldsLease, JobOf
      <3> QED BY <2>1, <2>5, <3>1, OwningIsBusy DEF TypeOK, TablesTypeOK
    <2> QED BY <2>3, <2>4, <2>5 DEF LeaseHolder, HoldsLease, JobOf
  <1>2. ASSUME NEW w \in Workers, Heartbeat(w) PROVE LeaseHolder'
    <2>1. CASE HoldsLease(JobOf(w), w)
      <3>1. slot[w].prompt \in Prompts /\ job[slot[w].prompt] \in JobRow
        BY <1>2 DEF Heartbeat, TypeOK, TablesTypeOK, InPipeline
      <3>2. /\ UNCHANGED slot
            /\ job' = [job EXCEPT ![slot[w].prompt] = ExtendedJob(job[slot[w].prompt])]
        BY <1>2, <2>1 DEF Heartbeat, WriteJob, JobOf
      <3>3. \A p \in Prompts :
                /\ job'[p].status = job[p].status
                /\ job'[p].owner = job[p].owner
                /\ job[p].lease = "live" => job'[p].lease = "live"
        BY <3>1, <3>2, JobColumns DEF TypeOK, TablesTypeOK
      <3> QED BY <3>2, <3>3, OwningIsBusy DEF LeaseHolder, HoldsLease, JobOf
    <2>2. CASE ~HoldsLease(JobOf(w), w)
      <3>1. UNCHANGED job /\ slot' = [slot EXCEPT ![w] = IdleSlot]
        BY <1>2, <2>2 DEF Heartbeat
      <3> QED BY <3>1, LeaseFrame, EmptySlots DEF TypeOK, OwningPcs, RunPcs
    <2> QED BY <2>1, <2>2
  <1>3. ASSUME NEW w \in Workers, NotifyDone(w) \/ Accident(w) PROVE LeaseHolder'
    <2>1. UNCHANGED job
      BY <1>3 DEF NotifyDone, Accident, DbError, Crash, Stop, tables
    <2>2. CASE DbError(w) /\ slot[w].pc # "idle"
      <3>1. \/ slot[w].pc \in OwningPcs /\ Goto(w, "markDead")
            \/ Goto(w, "dying")
        BY <2>2 DEF DbError, OwningPcs
      <3>2. \/ slot[w].pc \in OwningPcs
            \/ slot'[w].pc = "dying"
        BY <3>1 DEF Goto, TypeOK, SlotState
      <3>3. /\ \A v \in Workers \ {w} : slot'[v] = slot[v]
            /\ slot'[w].prompt = slot[w].prompt
        BY <3>1 DEF Goto, TypeOK, SlotState
      <3> QED BY <2>1, <3>2, <3>3, LeaseFrame DEF OwningPcs, RunPcs
    <2>3. CASE ~(DbError(w) /\ slot[w].pc # "idle")
      <3>1. \A v \in Workers : slot'[v] \in {slot[v], IdleSlot, GoneSlot, StoppedSlot}
        BY <1>3, <2>3 DEF TypeOK, NotifyDone, Accident, Stop, Crash, DbError, SlotEnds,
                          RunPcs, HandlerPcs
      <3> QED BY <2>1, <3>1, LeaseFrame, EmptySlots DEF OwningPcs, RunPcs
    <2> QED BY <2>2, <2>3
  <1>4. ASSUME NEW p \in Prompts, Passage(p) PROVE LeaseHolder'
    <2>1. UNCHANGED slot /\ \A q \in Prompts \ {p} : job'[q] = job[q]
      BY <1>4 DEF Passage, LeaseLapses, BackoffElapses, TypeOK, TablesTypeOK
    <2>2. ASSUME NEW v \in Workers, slot[v].pc \in OwningPcs PROVE slot[v].prompt # p
      <3>1. CASE LeaseLapses(p)
        BY <2>2, <3>1, OwningIsBusy
           DEF LeaseLapses, Beating, StalledOwner, LeaseHolder, HoldsLease, JobOf
      <3>2. CASE BackoffElapses(p)
        BY <2>2, <3>2 DEF BackoffElapses, LeaseHolder, HoldsLease, JobOf
      <3> QED BY <1>4, <3>1, <3>2 DEF Passage
    <2> QED BY <2>1, <2>2, OwningIsBusy DEF LeaseHolder, HoldsLease, JobOf
  <1>5. ASSUME Reap PROVE LeaseHolder'
    <2>1. ASSUME NEW v \in Workers, slot[v].pc \in OwningPcs
          PROVE  job'[slot[v].prompt] = job[slot[v].prompt]
      <3>1. ~Expired(job[slot[v].prompt])
        BY <2>1 DEF Expired, LeaseHolder, JobOf
      <3> QED BY <1>5, <2>1, <3>1, OwningIsBusy DEF Reap
    <2> QED BY <1>5, <2>1 DEF Reap, LeaseHolder, HoldsLease, JobOf
  <1>6. ASSUME UNCHANGED vars PROVE LeaseHolder'
    BY <1>6 DEF vars, LeaseHolder, HoldsLease, JobOf
  <1> QED BY <1>1, <1>2, <1>3, <1>4, <1>5, <1>6, ReadingKeepsLease, LettingGoKeepsLease
          DEF Next, SlotStep, PipelineStep

\* When heartbeats are in time, a slot that runs or settles a job holds its
\* lease, whatever crashes, database errors and cancellations happen.
THEOREM LeaseHolderHolds ==
    ASSUME StallAt = {}
    PROVE  Spec => []LeaseHolder
  <1>1. Init => LeaseHolder
    BY EmptySlots DEF Init, LeaseHolder, OwningPcs, RunPcs
  <1>2. TypeOK /\ LeaseHolder /\ [Next]_vars => LeaseHolder'
    BY NextLeaseHolder
  <1> QED BY <1>1, <1>2, TypeCorrect, PTL DEF Spec

\* So no two slots ever run the same job.
OneWorkerPerJob ==
    \A v, w \in Workers :
        slot[v].pc \in OwningPcs /\ slot[w].pc \in OwningPcs /\ v # w
            => slot[v].prompt # slot[w].prompt

\* Exclusive processing, the reason for which claim_next, extend_lease and the
\* reaper compare worker_id, status and locked_until.
COROLLARY ExclusiveProcessing ==
    ASSUME StallAt = {}
    PROVE  Spec => []OneWorkerPerJob
  <1>1. TypeOK /\ LeaseHolder => OneWorkerPerJob
    BY OwnersDiffer DEF OneWorkerPerJob
  <1> QED BY <1>1, LeaseHolderHolds, TypeCorrect, PTL

-----------------------------------------------------------------------------
(* Stale workers                                                           *)

\* Only a claim gives a job a worker or counts an attempt, and only a claim
\* gives a slot a job; every other step leaves them or takes them away.
JobsKept ==
    \A p \in Prompts :
        /\ job'[p].attempts = job[p].attempts
        /\ job'[p].owner \in {job[p].owner, None}

SlotsKept ==
    \A v \in Workers : InPipeline(v)' =>
        /\ InPipeline(v)
        /\ slot'[v].prompt = slot[v].prompt
        /\ slot'[v].attempt = slot[v].attempt

LEMMA PipelineKeeps ==
    ASSUME TypeOK, NEW w \in Workers, PipelineStep(w)
    PROVE  JobsKept /\ SlotsKept
  <1>1. InPipeline(w)
    BY DEF PipelineStep, LookupExact, CountHit, LookupNearest, Acquire, CallLLM,
           StoreAnswer, FinishRequest, FinishJob, Defer, MarkDead, MarkFailed,
           Release, Requeue, Wake, InPipeline, PipelinePcs, RunPcs, HandlerPcs
  <1>2. /\ slot[w].prompt \in Prompts
        /\ job[slot[w].prompt] \in JobRow
    BY <1>1 DEF TypeOK, TablesTypeOK
  <1>3. SlotsKept
    <2>1. \/ \E label \in Pcs : Goto(w, label)
          \/ \E label \in Pcs, t \in Texts : GotoWith(w, label, t)
      BY <1>1 DEF PipelineStep, LookupExact, CountHit, LookupNearest, Acquire, CallLLM,
             StoreAnswer, FinishRequest, FinishJob, Defer, MarkDead, MarkFailed,
             Release, Requeue, Wake, AfterRetryable, Pcs, PipelinePcs, RunPcs, HandlerPcs,
             TypeOK, TablesTypeOK, ExactEntries, NearEntries
    <2> QED BY <1>1, <2>1, GotoMoves, GotoWithMoves DEF SlotsKept, InPipeline, TypeOK, SlotsOK
  <1>4. CASE FinishJob(w) \/ Defer(w) \/ MarkDead(w) \/ Release(w)
    <2>1. \E row \in {CompletedJob(JobOf(w)), ReleasedJob(JobOf(w)), DeadJob(JobOf(w)),
                       JobOf(w)} :
              job' = [job EXCEPT ![slot[w].prompt] = row]
      BY <1>2, <1>4 DEF FinishJob, Defer, MarkDead, Release, WriteJob, JobOf,
                        TypeOK, TablesTypeOK
    <2>2. JobsKept
      BY <1>2, <2>1, JobColumns DEF JobsKept, JobOf, TypeOK, TablesTypeOK
    <2> QED BY <1>3, <2>2
  <1>5. CASE UNCHANGED job
    BY <1>3, <1>5 DEF JobsKept
  <1> QED BY <1>4, <1>5
          DEF PipelineStep, LookupExact, CountHit, LookupNearest, Acquire, CallLLM,
              StoreAnswer, FinishRequest, MarkFailed, Requeue, Wake, tables

LEMMA StepKeeps ==
    ASSUME TypeOK, [Next]_vars, \A w \in Workers : ~Claim(w)
    PROVE  JobsKept /\ SlotsKept
  <1>1. ASSUME NEW w \in Workers, Heartbeat(w) PROVE JobsKept /\ SlotsKept
    <2>1. slot[w].prompt \in Prompts /\ job[slot[w].prompt] \in JobRow
      BY <1>1 DEF Heartbeat, TypeOK, TablesTypeOK, InPipeline
    <2>2. JobsKept
      BY <1>1, <2>1, JobColumns DEF Heartbeat, WriteJob, JobOf, JobsKept, TypeOK, TablesTypeOK
    <2>3. SlotsKept
      BY <1>1, EmptySlots DEF Heartbeat, SlotsKept, InPipeline, PipelinePcs, RunPcs,
                              HandlerPcs, TypeOK
    <2> QED BY <2>2, <2>3
  <1>2. ASSUME NEW w \in Workers, NotifyDone(w) \/ Accident(w)
        PROVE  JobsKept /\ SlotsKept
    <2>1. JobsKept
      BY <1>2 DEF NotifyDone, Accident, DbError, Crash, Stop, tables, JobsKept
    <2>2. CASE DbError(w) /\ slot[w].pc # "idle"
      <3>1. InPipeline(w) /\ \E label \in Pcs : Goto(w, label)
        BY <2>2 DEF DbError, InPipeline, PipelinePcs, RunPcs, HandlerPcs, Pcs
      <3> QED BY <2>1, <3>1, GotoMoves DEF SlotsKept, InPipeline, TypeOK, SlotsOK
    <2>3. CASE ~(DbError(w) /\ slot[w].pc # "idle")
      <3>1. \A v \in Workers : slot'[v] \in {slot[v], IdleSlot, GoneSlot, StoppedSlot}
        BY <1>2, <2>3 DEF TypeOK, NotifyDone, Accident, Stop, Crash, DbError, SlotEnds,
                          RunPcs, HandlerPcs
      <3> QED BY <2>1, <3>1, EmptySlots DEF SlotsKept, InPipeline, PipelinePcs, RunPcs,
                                           HandlerPcs
    <2> QED BY <2>2, <2>3
  <1>3. ASSUME NEW p \in Prompts, Passage(p) PROVE JobsKept /\ SlotsKept
    <2>1. \A q \in Prompts :
              job'[q].attempts = job[q].attempts /\ job'[q].owner = job[q].owner
      BY <1>3 DEF Passage, LeaseLapses, BackoffElapses, TypeOK, TablesTypeOK, JobRow
    <2> QED BY <1>3, <2>1 DEF Passage, LeaseLapses, BackoffElapses, JobsKept, SlotsKept,
                              InPipeline
  <1>4. ASSUME Reap PROVE JobsKept /\ SlotsKept
    <2>1. ASSUME NEW p \in Prompts
          PROVE  job'[p] \in {job[p], ReapedJob(job[p])} /\ job[p] \in JobRow
      BY <1>4 DEF Reap, TypeOK, TablesTypeOK
    <2>2. JobsKept
      BY <2>1, JobColumns DEF JobsKept
    <2> QED BY <1>4, <2>2 DEF Reap, SlotsKept, InPipeline
  <1>5. ASSUME UNCHANGED vars PROVE JobsKept /\ SlotsKept
    BY <1>5 DEF vars, JobsKept, SlotsKept, InPipeline
  <1> QED BY <1>1, <1>2, <1>3, <1>4, <1>5, PipelineKeeps DEF Next, SlotStep

\* The fence: a slot that the job's row names as its worker was given the
\* attempt that the row counts.  A stale slot may share its worker_id with the
\* row only until the job is claimed again.
ClaimFence ==
    \A w \in Workers : InPipeline(w) /\ JobOf(w).owner = w =>
        JobOf(w).attempts = slot[w].attempt

\* A slot never believes to be on a later attempt than its job.
AttemptsCounted ==
    \A w \in Workers : InPipeline(w) => slot[w].attempt <= JobOf(w).attempts

\* What a claim does to the job's row and to the slots.
LEMMA ClaimEffect ==
    ASSUME TypeOK, NEW w \in Workers, Claim(w)
    PROVE  \E p \in Prompts :
              /\ job'[p].owner = w
              /\ job'[p].status = "processing"
              /\ job'[p].attempts = job[p].attempts + 1
              /\ job[p].attempts \in Nat
              /\ job[p].status = "queued"
              /\ slot'[w].prompt = p
              /\ slot'[w].attempt = job[p].attempts + 1
              /\ slot'[w].pc = "exact"
              /\ \A q \in Prompts \ {p} : job'[q] = job[q]
              /\ \A v \in Workers \ {w} : slot'[v] = slot[v]
  <1>1. PICK p \in Prompts :
            /\ FirstInQueue(p)
            /\ job' = [job EXCEPT ![p] = ClaimedJob(job[p], w)]
            /\ slot' = [slot EXCEPT ![w] =
                  [pc |-> "exact", prompt |-> p, text |-> request[p].text,
                   attempt |-> job[p].attempts + 1, answer |-> None]]
    BY DEF Claim
  <1>2. job[p] \in JobRow /\ job[p].status = "queued"
    BY <1>1 DEF FirstInQueue, Claimable, TypeOK, TablesTypeOK
  <1>3. job'[p] = ClaimedJob(job[p], w) /\ \A q \in Prompts \ {p} : job'[q] = job[q]
    BY <1>1 DEF TypeOK, TablesTypeOK
  <1>4. /\ job'[p].owner = w
        /\ job'[p].status = "processing"
        /\ job'[p].attempts = job[p].attempts + 1
    BY <1>2, <1>3, JobColumns
  <1>5. job[p].attempts \in Nat
    BY <1>2 DEF JobRow
  <1>6. /\ slot'[w].prompt = p
        /\ slot'[w].attempt = job[p].attempts + 1
        /\ slot'[w].pc = "exact"
        /\ \A v \in Workers \ {w} : slot'[v] = slot[v]
    BY <1>1 DEF TypeOK
  <1> QED BY <1>2, <1>3, <1>4, <1>5, <1>6

LEMMA NextClaimFence == TypeOK /\ ClaimFence /\ [Next]_vars => ClaimFence'
  <1> SUFFICES ASSUME TypeOK, ClaimFence, [Next]_vars,
                      NEW v \in Workers, InPipeline(v)', JobOf(v)'.owner = v
               PROVE  JobOf(v)'.attempts = slot'[v].attempt
    BY DEF ClaimFence
  <1>1. ASSUME NEW w \in Workers, Claim(w)
        PROVE  JobOf(v)'.attempts = slot'[v].attempt
    <2>1. CASE v = w
      BY <1>1, <2>1, ClaimEffect DEF JobOf
    <2>2. CASE v # w
      <3>1. InPipeline(v) /\ slot'[v] = slot[v] /\ slot[v].prompt \in Prompts
        BY <1>1, <2>2, ClaimEffect DEF InPipeline, TypeOK
      <3>2. job'[slot[v].prompt] = job[slot[v].prompt]
        BY <1>1, <2>2, <3>1, ClaimEffect DEF JobOf
      <3> QED BY <3>1, <3>2 DEF ClaimFence, JobOf
    <2> QED BY <2>1, <2>2
  <1>2. CASE \A w \in Workers : ~Claim(w)
    <2>1. JobsKept /\ SlotsKept
      BY <1>2, StepKeeps
    <2>2. /\ InPipeline(v)
          /\ slot[v].prompt \in Prompts
          /\ slot'[v].prompt = slot[v].prompt
          /\ slot'[v].attempt = slot[v].attempt
      BY <2>1 DEF SlotsKept, TypeOK
    <2> QED BY <2>1, <2>2 DEF JobsKept, ClaimFence, JobOf
  <1> QED BY <1>1, <1>2

LEMMA FenceHolds == Spec => []ClaimFence
  <1>1. Init => ClaimFence
    BY EmptySlots DEF Init, ClaimFence, InPipeline, PipelinePcs, RunPcs, HandlerPcs
  <1> QED BY <1>1, NextClaimFence, TypeCorrect, PTL DEF Spec

\* The body of RequeueByOwner.
PutBackByOwner ==
    \A p \in Prompts :
        job[p].status = "processing" /\ job'[p].status = "queued" =>
          \/ job[p].lease = "lapsed"
          \/ \E w \in Workers :
               /\ job[p].owner = w
               /\ slot[w].prompt = p
               /\ slot[w].attempt = job[p].attempts
               /\ slot[w].pc \in {"defer", "refused", "release"}

LEMMA NextPutBackByOwner == TypeOK /\ ClaimFence /\ [Next]_vars => PutBackByOwner
  <1> SUFFICES ASSUME TypeOK, ClaimFence, [Next]_vars, NEW p \in Prompts,
                      job[p].status = "processing", job'[p].status = "queued",
                      job[p].lease # "lapsed"
               PROVE  \E w \in Workers :
                         /\ job[p].owner = w
                         /\ slot[w].prompt = p
                         /\ slot[w].attempt = job[p].attempts
                         /\ slot[w].pc \in {"defer", "refused", "release"}
    BY DEF PutBackByOwner
  <1>0. job[p] \in JobRow /\ job'[p] # job[p]
    BY DEF TypeOK, TablesTypeOK
  <1>1. ASSUME NEW w \in Workers, Defer(w) \/ Release(w)
        PROVE  /\ job[p].owner = w
               /\ slot[w].prompt = p
               /\ slot[w].attempt = job[p].attempts
               /\ slot[w].pc \in {"defer", "refused", "release"}
    <2>1. slot[w].pc \in {"defer", "refused", "release"} /\ InPipeline(w)
      BY <1>1 DEF Defer, Release, InPipeline, PipelinePcs, RunPcs, HandlerPcs
    <2>2. slot[w].prompt = p /\ job[p].owner = w
      BY <1>0, <1>1, <2>1 DEF Defer, Release, WriteJob, JobOf, MayRelease, TypeOK, TablesTypeOK
    <2> QED BY <2>1, <2>2 DEF ClaimFence, JobOf
  <1>2. ASSUME NEW w \in Workers, FinishJob(w) \/ MarkDead(w) PROVE FALSE
    <2>1. slot[w].prompt \in Prompts /\ job[slot[w].prompt] \in JobRow
      BY <1>2 DEF FinishJob, MarkDead, TypeOK, TablesTypeOK, InPipeline, PipelinePcs,
                  RunPcs, HandlerPcs
    <2>2. job'[p] \in {job[p], CompletedJob(job[p]), DeadJob(job[p])}
      BY <1>2, <2>1 DEF FinishJob, MarkDead, WriteJob, JobOf, TypeOK, TablesTypeOK
    <2> QED BY <1>0, <2>2, JobColumns
  <1>3. ASSUME NEW w \in Workers, Claim(w) PROVE FALSE
    BY <1>0, <1>3, ClaimEffect
  <1>4. ASSUME NEW w \in Workers, Heartbeat(w) PROVE FALSE
    <2>1. job'[p] \in {job[p], ExtendedJob(job[p])}
      BY <1>4 DEF Heartbeat, WriteJob, JobOf, TypeOK, TablesTypeOK
    <2> QED BY <1>0, <2>1, JobColumns
  <1>5. ASSUME NEW q \in Prompts, Passage(q) PROVE FALSE
    BY <1>0, <1>5 DEF Passage, LeaseLapses, BackoffElapses, TypeOK, TablesTypeOK, JobRow
  <1>6. ASSUME Reap PROVE FALSE
    BY <1>0, <1>6 DEF Reap, Expired
  <1>7. ASSUME UNCHANGED job PROVE FALSE
    BY <1>0, <1>7
  <1> QED BY <1>1, <1>2, <1>3, <1>4, <1>5, <1>6, <1>7
          DEF Next, SlotStep, Accident, PipelineStep, LookupExact, CountHit,
              LookupNearest, Acquire, CallLLM, StoreAnswer, FinishRequest, MarkFailed,
              Requeue, Wake, NotifyDone, DbError, Crash, Stop, vars, tables

\* Whatever stalls, crashes and errors there are, a job that is being processed
\* is put back only by the slot that was given this attempt of it, or after its
\* lease has lapsed.
THEOREM RequeueByOwnerHolds == Spec => RequeueByOwner
  <1>1. TypeOK /\ ClaimFence /\ [Next]_vars => [PutBackByOwner]_vars
    BY NextPutBackByOwner
  <1>2. Spec => [][PutBackByOwner]_vars
    BY <1>1, FenceHolds, TypeCorrect, PTL DEF Spec
  <1> QED BY <1>2 DEF RequeueByOwner, PutBackByOwner

-----------------------------------------------------------------------------
(* Settling                                                                *)

\* The step that SettledByOwner allows.
SettledStep ==
    \A p \in Prompts :
        job[p].status = "processing" /\ job'[p].status \in {"completed", "dead"} =>
            \/ job'[p].status = "dead" /\ job[p].lease = "lapsed"
            \/ \E w \in Workers :
                 /\ job[p].owner = w
                 /\ slot[w].prompt = p
                 /\ slot[w].pc \in {"finishJob", "markDead"}

LEMMA NextSettledByOwner == TypeOK /\ LeaseHolder /\ [Next]_vars => SettledStep
  <1> SUFFICES ASSUME TypeOK, LeaseHolder, [Next]_vars, NEW p \in Prompts,
                      job[p].status = "processing",
                      job'[p].status \in {"completed", "dead"}
               PROVE  \/ job'[p].status = "dead" /\ job[p].lease = "lapsed"
                      \/ \E w \in Workers :
                           /\ job[p].owner = w
                           /\ slot[w].prompt = p
                           /\ slot[w].pc \in {"finishJob", "markDead"}
    BY DEF SettledStep
  <1>0. job[p] \in JobRow /\ job'[p] # job[p]
    BY DEF TypeOK, TablesTypeOK
  <1>1. ASSUME NEW w \in Workers, FinishJob(w) \/ MarkDead(w)
        PROVE  /\ job[p].owner = w
               /\ slot[w].prompt = p
               /\ slot[w].pc \in {"finishJob", "markDead"}
    <2>1. slot[w].pc \in {"finishJob", "markDead"}
      BY <1>1 DEF FinishJob, MarkDead
    <2>2. slot[w].prompt = p
      BY <1>0, <1>1 DEF FinishJob, MarkDead, WriteJob, TypeOK, TablesTypeOK
    <2> QED BY <2>1, <2>2 DEF LeaseHolder, HoldsLease, JobOf, OwningPcs, RunPcs
  <1>2. ASSUME NEW w \in Workers, Defer(w) \/ Release(w) PROVE FALSE
    <2>1. job'[p] \in {job[p], ReleasedJob(job[p])}
      BY <1>2 DEF Defer, Release, WriteJob, JobOf, TypeOK, TablesTypeOK
    <2> QED BY <1>0, <2>1, JobColumns
  <1>3. ASSUME NEW w \in Workers, Claim(w) PROVE FALSE
    BY <1>0, <1>3, ClaimEffect
  <1>4. ASSUME NEW w \in Workers, Heartbeat(w) PROVE FALSE
    <2>1. job'[p] \in {job[p], ExtendedJob(job[p])}
      BY <1>4 DEF Heartbeat, WriteJob, JobOf, TypeOK, TablesTypeOK
    <2> QED BY <1>0, <2>1, JobColumns
  <1>5. ASSUME NEW q \in Prompts, Passage(q) PROVE FALSE
    BY <1>0, <1>5 DEF Passage, LeaseLapses, BackoffElapses, TypeOK, TablesTypeOK, JobRow
  <1>6. ASSUME Reap PROVE job'[p].status = "dead" /\ job[p].lease = "lapsed"
    <2>1. Expired(job[p]) /\ job'[p] = ReapedJob(job[p])
      BY <1>0, <1>6 DEF Reap
    <2> QED BY <1>0, <2>1, JobColumns DEF Expired
  <1>7. ASSUME UNCHANGED job PROVE FALSE
    BY <1>0, <1>7
  <1> QED BY <1>1, <1>2, <1>3, <1>4, <1>5, <1>6, <1>7
          DEF Next, SlotStep, Accident, PipelineStep, LookupExact, CountHit,
              LookupNearest, Acquire, CallLLM, StoreAnswer, FinishRequest, MarkFailed,
              Requeue, Wake, NotifyDone, DbError, Crash, Stop, vars, tables

\* mark_completed and mark_dead match a row by its id alone.  As long as
\* heartbeats are in time that does no harm: a job that is being processed is
\* settled only by its own worker, or given up once its lease has lapsed.
THEOREM SettledByOwnerHolds ==
    ASSUME StallAt = {}
    PROVE  Spec => SettledByOwner
  <1>1. TypeOK /\ LeaseHolder /\ [Next]_vars => [SettledStep]_vars
    BY NextSettledByOwner
  <1>2. Spec => [][SettledStep]_vars
    BY <1>1, LeaseHolderHolds, TypeCorrect, PTL DEF Spec
  <1> QED BY <1>2 DEF SettledByOwner, SettledStep

-----------------------------------------------------------------------------
(* Giving up                                                               *)

\* A slot gives a job up only on its last attempt.
LastAttempt ==
    \A w \in Workers : slot[w].pc = "markDead" => slot[w].attempt >= MaxAttempts

LEMMA NextAttemptsCounted ==
    TypeOK /\ AttemptsCounted /\ [Next]_vars => AttemptsCounted'
  <1> SUFFICES ASSUME TypeOK, AttemptsCounted, [Next]_vars,
                      NEW v \in Workers, InPipeline(v)'
               PROVE  slot'[v].attempt <= JobOf(v)'.attempts
    BY DEF AttemptsCounted
  <1>1. ASSUME NEW w \in Workers, Claim(w) PROVE slot'[v].attempt <= JobOf(v)'.attempts
    <2>1. CASE v = w
      BY <1>1, <2>1, ClaimEffect DEF JobOf
    <2>2. CASE v # w
      <3>1. InPipeline(v) /\ slot'[v] = slot[v] /\ slot[v].prompt \in Prompts
            /\ slot[v].attempt \in Nat
        BY <1>1, <2>2, ClaimEffect DEF InPipeline, TypeOK, SlotState
      <3>2. \/ job'[slot[v].prompt] = job[slot[v].prompt]
            \/ /\ job'[slot[v].prompt].attempts = job[slot[v].prompt].attempts + 1
               /\ job[slot[v].prompt].attempts \in Nat
        BY <1>1, <3>1, ClaimEffect
      <3> QED BY <3>1, <3>2 DEF AttemptsCounted, JobOf
    <2> QED BY <2>1, <2>2
  <1>2. CASE \A w \in Workers : ~Claim(w)
    <2>1. JobsKept /\ SlotsKept
      BY <1>2, StepKeeps
    <2>2. /\ InPipeline(v)
          /\ slot[v].prompt \in Prompts
          /\ slot'[v].prompt = slot[v].prompt
          /\ slot'[v].attempt = slot[v].attempt
      BY <2>1 DEF SlotsKept, TypeOK
    <2> QED BY <2>1, <2>2 DEF JobsKept, AttemptsCounted, JobOf
  <1> QED BY <1>1, <1>2

LEMMA NextLastAttempt ==
    ASSUME DbFailAt \cap RunPcs = {}, TypeOK, LastAttempt, [Next]_vars
    PROVE  LastAttempt'
  <1> SUFFICES ASSUME NEW v \in Workers, slot'[v].pc = "markDead"
               PROVE  slot'[v].attempt >= MaxAttempts
    BY DEF LastAttempt
  <1>1. ASSUME NEW w \in Workers, Claim(w) PROVE slot'[v] = slot[v]
    BY <1>1, ClaimEffect
  <1>2. ASSUME NEW w \in Workers, Acquire(w) \/ CallLLM(w)
        PROVE  slot'[v].attempt >= MaxAttempts
    <2>1. CASE v = w
      <3>1. slot[w].attempt \in Nat /\ SlotsOK
        BY DEF TypeOK, SlotState, SlotsOK
      <3>2. \/ \E label \in Pcs \ {"markDead"} : Goto(w, label)
            \/ GotoWith(w, "store", slot[w].text) /\ slot[w].text \in Texts
            \/ Goto(w, "markDead") /\ slot[w].attempt >= MaxAttempts
        BY <1>2, <3>1 DEF Acquire, CallLLM, AfterRetryable, Pcs, PipelinePcs, RunPcs,
                          HandlerPcs, TypeOK, InPipeline
      <3>3. "markDead" \in Pcs /\ "store" \in Pcs
        BY DEF Pcs, PipelinePcs, RunPcs, HandlerPcs
      <3> QED BY <2>1, <3>1, <3>2, <3>3, GotoMoves, GotoWithMoves
    <2>2. CASE v # w
      BY <1>2, <2>2 DEF Acquire, CallLLM, Goto, GotoWith, LastAttempt, TypeOK
    <2> QED BY <2>1, <2>2
  <1>3. ASSUME NEW w \in Workers,
               \/ LookupExact(w) \/ CountHit(w) \/ LookupNearest(w) \/ StoreAnswer(w)
               \/ FinishRequest(w) \/ FinishJob(w) \/ Defer(w) \/ MarkDead(w)
               \/ MarkFailed(w) \/ Release(w) \/ Requeue(w) \/ Wake(w)
        PROVE  slot'[v] = slot[v]
    <2>1. \/ \E label \in Pcs \ {"markDead"} : Goto(w, label)
          \/ \E t \in Texts : GotoWith(w, "hit", t)
      BY <1>3 DEF LookupExact, CountHit, LookupNearest, StoreAnswer, FinishRequest,
                  FinishJob, Defer, MarkDead, MarkFailed, Release, Requeue, Wake, Pcs,
                  PipelinePcs, RunPcs, HandlerPcs, ExactEntries, NearEntries, TypeOK,
                  TablesTypeOK
    <2>2. SlotsOK /\ "hit" \in Pcs
      BY DEF TypeOK, SlotsOK, Pcs, PipelinePcs, RunPcs
    <2>3. slot'[w].pc # "markDead" /\ \A u \in Workers \ {w} : slot'[u] = slot[u]
      BY <2>1, <2>2, GotoMoves, GotoWithMoves
    <2> QED BY <2>3
  <1>4. ASSUME NEW w \in Workers, NotifyDone(w) \/ Heartbeat(w) \/ Accident(w)
        PROVE  slot'[v] = slot[v]
    <2>1. CASE DbError(w) /\ slot[w].pc # "idle"
      <3>1. Goto(w, "dying")
        BY <2>1 DEF DbError
      <3> QED BY <3>1 DEF Goto, TypeOK, SlotState
    <2>2. CASE ~(DbError(w) /\ slot[w].pc # "idle")
      <3>1. slot'[v] \in {slot[v], IdleSlot, GoneSlot, StoppedSlot}
        BY <1>4, <2>2 DEF TypeOK, NotifyDone, Heartbeat, Accident, Stop, Crash, DbError,
                          SlotEnds, RunPcs, HandlerPcs
      <3> QED BY <3>1, EmptySlots
    <2> QED BY <2>1, <2>2
  <1>5. ASSUME UNCHANGED slot PROVE slot'[v] = slot[v]
    BY <1>5
  <1> QED BY <1>1, <1>2, <1>3, <1>4, <1>5
          DEF LastAttempt, Next, SlotStep, PipelineStep, Passage, LeaseLapses,
              BackoffElapses, Reap, vars

LEMMA NextDeadMeansExhausted ==
    TypeOK /\ AttemptsCounted /\ LastAttempt /\ DeadMeansExhausted /\ [Next]_vars
        => DeadMeansExhausted'
  <1> SUFFICES ASSUME TypeOK, AttemptsCounted, LastAttempt, DeadMeansExhausted, [Next]_vars,
                      NEW p \in Prompts, job'[p].status = "dead"
               PROVE  job'[p].attempts >= MaxAttempts
    BY DEF DeadMeansExhausted
  <1>0. job[p] \in JobRow /\ job[p].attempts \in Nat
    BY DEF TypeOK, TablesTypeOK, JobRow
  <1>1. ASSUME NEW w \in Workers, Claim(w) PROVE job'[p] = job[p]
    BY <1>1, ClaimEffect
  <1>2. CASE \A w \in Workers : ~Claim(w)
    <2>1. job'[p].attempts = job[p].attempts
      BY <1>2, StepKeeps DEF JobsKept
    <2>2. ASSUME NEW w \in Workers, MarkDead(w), slot[w].prompt = p
          PROVE  job[p].attempts >= MaxAttempts
      <3>1. InPipeline(w) /\ slot[w].attempt \in Nat /\ slot[w].attempt >= MaxAttempts
        BY <2>2 DEF MarkDead, InPipeline, PipelinePcs, HandlerPcs, TypeOK, SlotState, LastAttempt
      <3> QED BY <1>0, <2>2, <3>1 DEF AttemptsCounted, JobOf
    <2>3. ASSUME NEW w \in Workers, MarkDead(w), slot[w].prompt # p
          PROVE  job'[p] = job[p]
      BY <2>3 DEF MarkDead, WriteJob, TypeOK, TablesTypeOK
    <2>4. ASSUME NEW w \in Workers, FinishJob(w) \/ Defer(w) \/ Release(w)
          PROVE  job'[p] = job[p]
      <3>1. job'[p] \in {job[p], CompletedJob(job[p]), ReleasedJob(job[p])}
        BY <2>4 DEF FinishJob, Defer, Release, WriteJob, JobOf, TypeOK, TablesTypeOK
      <3> QED BY <1>0, <3>1, JobColumns
    <2>5. ASSUME NEW w \in Workers, Heartbeat(w) PROVE job'[p].status = job[p].status
      <3>1. job'[p] \in {job[p], ExtendedJob(job[p])}
        BY <2>5 DEF Heartbeat, WriteJob, JobOf, TypeOK, TablesTypeOK
      <3> QED BY <1>0, <3>1, JobColumns
    <2>6. ASSUME NEW q \in Prompts, Passage(q) PROVE job'[p].status = job[p].status
      BY <2>6 DEF Passage, LeaseLapses, BackoffElapses, TypeOK, TablesTypeOK, JobRow
    <2>7. ASSUME Reap PROVE job'[p] = job[p] \/ job[p].attempts >= MaxAttempts
      <3>1. job'[p] \in {job[p], ReapedJob(job[p])}
        BY <2>7 DEF Reap
      <3> QED BY <1>0, <3>1, JobColumns
    <2>8. \/ job'[p].status = job[p].status
          \/ job[p].attempts >= MaxAttempts
      BY <1>2, <2>2, <2>3, <2>4, <2>5, <2>6, <2>7
         DEF Next, SlotStep, Accident, PipelineStep, LookupExact, CountHit,
             LookupNearest, Acquire, CallLLM, StoreAnswer, FinishRequest, MarkFailed,
             Requeue, Wake, NotifyDone, DbError, Crash, Stop, vars, tables
    <2> QED BY <2>1, <2>8 DEF DeadMeansExhausted
  <1> QED BY <1>1, <1>2 DEF DeadMeansExhausted

\* Unless the database fails under a running pipeline, a job is given up only
\* when all its attempts are used up, even by a stale worker.
THEOREM DeadMeansExhaustedHolds ==
    ASSUME DbFailAt \cap RunPcs = {}
    PROVE  Spec => []DeadMeansExhausted
  <1>1. Init => AttemptsCounted /\ LastAttempt /\ DeadMeansExhausted
    BY EmptySlots DEF Init, AttemptsCounted, LastAttempt, DeadMeansExhausted, NewJob,
                      InPipeline, PipelinePcs, RunPcs, HandlerPcs
  <1>2. TypeOK /\ LastAttempt /\ [Next]_vars => LastAttempt'
    BY NextLastAttempt
  <1> QED BY <1>1, <1>2, NextAttemptsCounted, NextDeadMeansExhausted, TypeCorrect, PTL
          DEF Spec

-----------------------------------------------------------------------------
(* What steps do to texts, answers and the cache                           *)

\* A slot works on the text of its prompt's row.
TextsAgree ==
    \A w \in Workers : InPipeline(w) => slot[w].text = request[slot[w].prompt].text

\* No step changes a request's text.
TextsKept == \A p \in Prompts : request'[p].text = request[p].text

\* No step completes a request.
NoneCompleted ==
    \A p \in Prompts : request'[p].status = "completed" => request'[p] = request[p]

\* A slot is as it was, holds no job any more, or handles a failure.
SlotsLeft ==
    \A v \in Workers :
        \/ slot'[v] = slot[v]
        \/ slot'[v].pc \in {"idle", "gone", "stopped", "dying"}
        \/ /\ InPipeline(v) /\ slot'[v].pc = "markDead"
           /\ slot'[v].prompt = slot[v].prompt /\ slot'[v].text = slot[v].text

\* Steps outside the pipeline: claims, ...
LEMMA ClaimAnswers ==
    ASSUME TypeOK, NEW w \in Workers, Claim(w)
    PROVE  /\ UNCHANGED <<request, cache>>
           /\ \A v \in Workers \ {w} : slot'[v] = slot[v]
           /\ slot'[w].pc = "exact"
           /\ slot'[w].text = request[slot'[w].prompt].text
  BY DEF Claim, TypeOK

\* ... heartbeats, accidents, the reaper and the clock.
LEMMA OthersAnswers ==
    ASSUME TypeOK, [Next]_vars, \A w \in Workers : ~Claim(w) /\ ~PipelineStep(w)
    PROVE  UNCHANGED cache /\ TextsKept /\ NoneCompleted /\ SlotsLeft
  <1>1. ASSUME NEW w \in Workers, Heartbeat(w) \/ NotifyDone(w) \/ Accident(w)
        PROVE  UNCHANGED cache /\ TextsKept /\ NoneCompleted /\ SlotsLeft
    <2>1. UNCHANGED <<request, cache>>
      BY <1>1 DEF Heartbeat, NotifyDone, Accident, DbError, Crash, Stop, tables
    <2>2. CASE DbError(w) /\ slot[w].pc # "idle"
      <3>1. InPipeline(w) /\ (Goto(w, "markDead") \/ Goto(w, "dying"))
        BY <2>2 DEF DbError, InPipeline, PipelinePcs, RunPcs, HandlerPcs
      <3>2. SlotsOK /\ "markDead" \in Pcs /\ "dying" \in Pcs
        BY DEF TypeOK, SlotsOK, Pcs, PipelinePcs, HandlerPcs
      <3> QED BY <2>1, <3>1, <3>2, GotoMoves DEF TextsKept, NoneCompleted, SlotsLeft
    <2>3. CASE ~(DbError(w) /\ slot[w].pc # "idle")
      <3>1. \A v \in Workers : slot'[v] \in {slot[v], IdleSlot, GoneSlot, StoppedSlot}
        BY <1>1, <2>3 DEF TypeOK, Heartbeat, NotifyDone, Accident, Stop, Crash, DbError,
                          SlotEnds, RunPcs, HandlerPcs
      <3> QED BY <2>1, <3>1, EmptySlots DEF TextsKept, NoneCompleted, SlotsLeft
    <2> QED BY <2>2, <2>3
  <1>2. ASSUME NEW p \in Prompts, Passage(p)
        PROVE  UNCHANGED cache /\ TextsKept /\ NoneCompleted /\ SlotsLeft
    BY <1>2 DEF Passage, LeaseLapses, BackoffElapses, TextsKept, NoneCompleted, SlotsLeft
  <1>3. ASSUME Reap
        PROVE  UNCHANGED cache /\ TextsKept /\ NoneCompleted /\ SlotsLeft
    <2>1. ASSUME NEW p \in Prompts
          PROVE  /\ request'[p].text = request[p].text
                 /\ request'[p].status = "completed" => request'[p] = request[p]
      <3>1. request[p] \in RequestRow /\ job[p] \in JobRow
        BY DEF TypeOK, TablesTypeOK
      <3>2. request'[p] \in {request[p], ReapedRequest(request[p], job[p])}
        BY <1>3 DEF Reap
      <3> QED BY <3>1, <3>2, RequestColumns
    <2> QED BY <1>3, <2>1 DEF Reap, TextsKept, NoneCompleted, SlotsLeft
  <1>4. ASSUME UNCHANGED vars
        PROVE  UNCHANGED cache /\ TextsKept /\ NoneCompleted /\ SlotsLeft
    BY <1>4 DEF vars, TextsKept, NoneCompleted, SlotsLeft
  <1> QED BY <1>1, <1>2, <1>3, <1>4 DEF Next, SlotStep

\* A call of the pipeline keeps the slot's prompt and text.
LEMMA PipelineSlot ==
    ASSUME TypeOK, NEW w \in Workers, PipelineStep(w)
    PROVE  /\ InPipeline(w)
           /\ \A v \in Workers \ {w} : slot'[v] = slot[v]
           /\ slot'[w].prompt = slot[w].prompt /\ slot'[w].text = slot[w].text
  <1>1. InPipeline(w)
    BY DEF PipelineStep, LookupExact, CountHit, LookupNearest, Acquire, CallLLM,
           StoreAnswer, FinishRequest, FinishJob, Defer, MarkDead, MarkFailed,
           Release, Requeue, Wake, InPipeline, PipelinePcs, RunPcs, HandlerPcs
  <1>2. \/ \E label \in Pcs : Goto(w, label)
        \/ \E label \in Pcs, t \in Texts : GotoWith(w, label, t)
    BY <1>1 DEF PipelineStep, LookupExact, CountHit, LookupNearest, Acquire, CallLLM,
           StoreAnswer, FinishRequest, FinishJob, Defer, MarkDead, MarkFailed,
           Release, Requeue, Wake, AfterRetryable, Pcs, PipelinePcs, RunPcs, HandlerPcs,
           TypeOK, TablesTypeOK, ExactEntries, NearEntries
  <1>3. SlotsOK
    BY DEF TypeOK, SlotsOK
  <1> QED BY <1>1, <1>2, <1>3, GotoMoves, GotoWithMoves

\* Only FinishRequest completes a request, and with the slot's answer.
LEMMA PipelineRequests ==
    ASSUME TypeOK, NEW w \in Workers, PipelineStep(w)
    PROVE  /\ TextsKept
           /\ \/ NoneCompleted
              \/ /\ FinishRequest(w)
                 /\ \A p \in Prompts \ {slot[w].prompt} : request'[p] = request[p]
                 /\ request'[slot[w].prompt].response = slot[w].answer
  <1>1. InPipeline(w)
    BY PipelineSlot
  <1>2. /\ slot[w].prompt \in Prompts
        /\ request[slot[w].prompt] \in RequestRow
        /\ slot[w].answer \in Texts \cup {None}
    BY <1>1 DEF TypeOK, TablesTypeOK, SlotState
  <1>3. CASE FinishRequest(w)
    <2>1. request' = [request EXCEPT ![slot[w].prompt] =
                         CompletedRequest(request[slot[w].prompt], slot[w].answer)]
      BY <1>3 DEF FinishRequest, WriteRequest
    <2>2. /\ \A p \in Prompts \ {slot[w].prompt} : request'[p] = request[p]
          /\ request'[slot[w].prompt] =
                CompletedRequest(request[slot[w].prompt], slot[w].answer)
      BY <1>2, <2>1 DEF TypeOK, TablesTypeOK
    <2> QED BY <1>2, <1>3, <2>2, RequestColumns DEF TextsKept
  <1>4. CASE MarkFailed(w) \/ Requeue(w)
    <2>1. \E row \in {FailedRequest(request[slot[w].prompt]),
                      QueuedRequest(request[slot[w].prompt])} :
             request' = [request EXCEPT ![slot[w].prompt] = row]
      BY <1>4 DEF MarkFailed, Requeue, WriteRequest
    <2> QED BY <1>2, <2>1, RequestColumns DEF TextsKept, NoneCompleted, TypeOK, TablesTypeOK
  <1>5. CASE UNCHANGED request
    BY <1>5 DEF TextsKept, NoneCompleted
  <1> QED BY <1>3, <1>4, <1>5
          DEF PipelineStep, LookupExact, CountHit, LookupNearest, Acquire, CallLLM,
              StoreAnswer, FinishJob, Defer, MarkDead, Release, Wake, tables

\* The cache changes only by upsert, which adds at most the slot's text and
\* leaves an entry with its digest.
LEMMA PipelineCache ==
    ASSUME TypeOK, NEW w \in Workers, PipelineStep(w)
    PROVE  \/ UNCHANGED cache
           \/ /\ StoreAnswer(w)
              /\ cache' \subseteq cache \cup {slot[w].text} /\ cache \subseteq cache'
  BY DEF PipelineStep, LookupExact, CountHit, LookupNearest, Acquire, CallLLM,
         StoreAnswer, FinishRequest, FinishJob, Defer, MarkDead, MarkFailed,
         Release, Requeue, Wake, Upserted, tables

\* The texts of slots and rows agree at all times.
LEMMA NextTextsAgree == TypeOK /\ TextsAgree /\ [Next]_vars => TextsAgree'
  <1> SUFFICES ASSUME TypeOK, TextsAgree, [Next]_vars PROVE TextsAgree'
    OBVIOUS
  <1>1. \A v \in Workers : InPipeline(v) => slot[v].prompt \in Prompts
    BY DEF TypeOK
  <1>2. ASSUME NEW w \in Workers, Claim(w) PROVE TextsAgree'
    BY <1>2, ClaimAnswers DEF TextsAgree, InPipeline
  <1>3. ASSUME NEW w \in Workers, PipelineStep(w) PROVE TextsAgree'
    BY <1>1, <1>3, PipelineSlot, PipelineRequests DEF TextsAgree, TextsKept, InPipeline
  <1>4. CASE \A w \in Workers : ~Claim(w) /\ ~PipelineStep(w)
    <2>1. TextsKept /\ SlotsLeft
      BY <1>4, OthersAnswers
    <2> QED BY <1>1, <2>1 DEF TextsAgree, TextsKept, SlotsLeft, InPipeline, PipelinePcs,
                              RunPcs, HandlerPcs
  <1> QED BY <1>2, <1>3, <1>4

\* TextsAgree holds of every behaviour.
LEMMA TextsAgreeHolds == Spec => []TextsAgree
  <1>1. Init => TextsAgree
    BY EmptySlots DEF Init, TextsAgree, InPipeline, PipelinePcs, RunPcs, HandlerPcs
  <1> QED BY <1>1, NextTextsAgree, TypeCorrect, PTL DEF Spec

-----------------------------------------------------------------------------
(* Answers are kept                                                        *)

\* An answer to text t: it is stored and fits t, or it is t's own, and t's
\* digest has an entry.
Kept(t, answer) ==
    \/ answer \in cache /\ Fits(t, answer)
    \/ answer = t /\ ExactEntries(t) # {}

\* What completed requests show is kept in this sense.  Together with Sourced
\* this is AnswerKept.
AllKept ==
    \A p \in Prompts :
        request[p].status = "completed" => Kept(request[p].text, request[p].response)

\* The cache has answers to the texts of the request table only.
Sourced == \A u \in cache : \E q \in Prompts : request[q].text = u

\* A slot is about to hand out an answer that is kept.
AnswersReady ==
    \A w \in Workers :
        /\ slot[w].pc \in {"hit", "finishRequest"} => Kept(slot[w].text, slot[w].answer)
        /\ slot[w].pc = "store" => slot[w].answer = slot[w].text

\* A larger cache keeps what was kept.
LEMMA KeptStays ==
    ASSUME NEW t, NEW answer, Kept(t, answer), cache \subseteq cache'
    PROVE  Kept(t, answer)'
  BY DEF Kept, Fits, ExactEntries

\* Every step leaves slots with answers that are kept.
LEMMA NextAnswersReady ==
    TypeOK /\ AnswersReady /\ [Next]_vars => AnswersReady'
  <1> SUFFICES ASSUME TypeOK, AnswersReady, [Next]_vars PROVE AnswersReady'
    OBVIOUS
  <1> DEFINE Ready(v) == /\ slot[v].pc \in {"hit", "finishRequest"} =>
                               Kept(slot[v].text, slot[v].answer)
                         /\ slot[v].pc = "store" => slot[v].answer = slot[v].text
  <1>1. ASSUME NEW v \in Workers, slot'[v] = slot[v], cache \subseteq cache'
        PROVE  Ready(v)'
    BY <1>1, KeptStays DEF AnswersReady
  <1>2. ASSUME NEW w \in Workers, Claim(w) PROVE AnswersReady'
    BY <1>1, <1>2, ClaimAnswers DEF AnswersReady
  <1>3. ASSUME NEW w \in Workers, PipelineStep(w) PROVE AnswersReady'
    <2>1. cache \subseteq cache' /\ \A v \in Workers \ {w} : slot'[v] = slot[v]
      BY <1>3, PipelineCache, PipelineSlot
    <2>2. SlotsOK /\ slot[w].text \in Texts /\ InPipeline(w) /\ cache \subseteq Texts
      BY <1>3, PipelineSlot DEF TypeOK, SlotsOK, TablesTypeOK
    <2>3. {"hit", "nearest", "acquire", "defer", "llm", "store", "finishRequest", "finishJob",
           "refused", "markDead", "markFailed", "release", "requeue", "wake", "notify"}
              \subseteq Pcs
      BY DEF Pcs, PipelinePcs, RunPcs, HandlerPcs
    <2>4. Ready(w)'
      <3>1. CASE LookupExact(w) \/ LookupNearest(w)
        <4>1. cache' = cache
          BY <3>1 DEF LookupExact, LookupNearest, tables
        <4>2. \/ Goto(w, "nearest") \/ Goto(w, "acquire")
              \/ \E t \in cache : GotoWith(w, "hit", t) /\ Kept(slot[w].text, t)
          BY <3>1 DEF LookupExact, LookupNearest, ExactEntries, NearEntries, Kept, Fits
        <4>3. ASSUME NEW t \in cache, GotoWith(w, "hit", t), Kept(slot[w].text, t)
              PROVE  Ready(w)'
          <5>1. slot'[w].pc = "hit" /\ slot'[w].text = slot[w].text /\ slot'[w].answer = t
            BY <2>2, <2>3, <4>3, GotoWithMoves
          <5>2. Kept(slot[w].text, t)'
            BY <4>1, <4>3, <5>1 DEF Kept, Fits, ExactEntries
          <5> QED BY <5>1, <5>2 DEF Kept, Fits, ExactEntries
        <4> QED BY <2>2, <2>3, <4>2, <4>3, GotoMoves
      <3>2. CASE CountHit(w)
        <4>1. /\ slot'[w].pc = "finishRequest" /\ slot[w].pc = "hit"
              /\ slot'[w].text = slot[w].text /\ slot'[w].answer = slot[w].answer
          BY <2>2, <2>3, <3>2, GotoMoves DEF CountHit
        <4> QED BY <2>1, <4>1, KeptStays DEF AnswersReady
      <3>3. CASE StoreAnswer(w)
        <4>1. /\ slot'[w].pc = "finishRequest" /\ slot[w].pc = "store"
              /\ slot'[w].text = slot[w].text /\ slot'[w].answer = slot[w].answer
          BY <2>2, <2>3, <3>3, GotoMoves DEF StoreAnswer
        <4>2. slot[w].answer = slot[w].text
          BY <4>1 DEF AnswersReady
        <4>3. ExactEntries(slot[w].text)' # {}
          BY <3>3, <4>1 DEF StoreAnswer, Upserted, ExactEntries
        <4> QED BY <4>1, <4>2, <4>3 DEF Kept, ExactEntries
      <3>4. CASE CallLLM(w)
        <4>1. \/ GotoWith(w, "store", slot[w].text)
              \/ \E label \in {"release", "markDead", "refused"} : Goto(w, label)
          BY <3>4 DEF CallLLM, AfterRetryable
        <4> QED BY <2>2, <2>3, <4>1, GotoMoves, GotoWithMoves
      <3>5. CASE \/ Acquire(w) \/ FinishRequest(w) \/ FinishJob(w) \/ Defer(w) \/ MarkDead(w)
                 \/ MarkFailed(w) \/ Release(w) \/ Requeue(w) \/ Wake(w)
        <4>1. \E label \in Pcs \ {"hit", "finishRequest", "store"} : Goto(w, label)
          BY <2>3, <3>5 DEF Acquire, AfterRetryable, FinishRequest, FinishJob, Defer, MarkDead,
                            MarkFailed, Release, Requeue, Wake
        <4> QED BY <2>2, <4>1, GotoMoves
      <3> QED BY <1>3, <3>1, <3>2, <3>3, <3>4, <3>5 DEF PipelineStep
    <2> QED BY <1>1, <2>1, <2>4 DEF AnswersReady
  <1>4. CASE \A w \in Workers : ~Claim(w) /\ ~PipelineStep(w)
    <2>1. UNCHANGED cache /\ SlotsLeft
      BY <1>4, OthersAnswers
    <2> QED BY <1>1, <2>1 DEF AnswersReady, SlotsLeft
  <1> QED BY <1>2, <1>3, <1>4

\* Every step keeps what completed requests show.
LEMMA NextAllKept ==
    TypeOK /\ TextsAgree /\ AnswersReady /\ AllKept /\ [Next]_vars => AllKept'
  <1> SUFFICES ASSUME TypeOK, TextsAgree, AnswersReady, AllKept, [Next]_vars,
                      NEW p \in Prompts, request'[p].status = "completed"
               PROVE  Kept(request[p].text, request[p].response)'
    BY DEF AllKept
  <1>1. ASSUME request'[p] = request[p], cache \subseteq cache'
        PROVE  Kept(request[p].text, request[p].response)'
    BY <1>1 DEF AllKept, Kept, Fits, ExactEntries
  <1>2. ASSUME NEW w \in Workers, Claim(w) PROVE Kept(request[p].text, request[p].response)'
    BY <1>1, <1>2, ClaimAnswers
  <1>3. ASSUME NEW w \in Workers, PipelineStep(w)
        PROVE  Kept(request[p].text, request[p].response)'
    <2>1. cache \subseteq cache'
      BY <1>3, PipelineCache
    <2>2. CASE NoneCompleted
      BY <1>1, <2>1, <2>2 DEF NoneCompleted
    <2>3. CASE /\ FinishRequest(w)
               /\ \A q \in Prompts \ {slot[w].prompt} : request'[q] = request[q]
               /\ request'[slot[w].prompt].response = slot[w].answer
      <3>1. CASE p # slot[w].prompt
        BY <1>1, <2>1, <2>3, <3>1
      <3>2. CASE p = slot[w].prompt
        <4>1. Kept(slot[w].text, slot[w].answer) /\ InPipeline(w)
          BY <2>3 DEF FinishRequest, AnswersReady, InPipeline, PipelinePcs, RunPcs
        <4>2. request'[p].text = slot[w].text
          BY <1>3, <3>2, <4>1, PipelineRequests DEF TextsAgree, TextsKept
        <4>3. cache' = cache
          BY <2>3 DEF FinishRequest
        <4> QED BY <2>3, <3>2, <4>1, <4>2, <4>3 DEF Kept, Fits, ExactEntries
      <3> QED BY <3>1, <3>2
    <2> QED BY <1>3, <2>2, <2>3, PipelineRequests
  <1>4. CASE \A w \in Workers : ~Claim(w) /\ ~PipelineStep(w)
    BY <1>1, <1>4, OthersAnswers DEF NoneCompleted
  <1> QED BY <1>2, <1>3, <1>4

\* No step stores anything but the answer to a request's text.
LEMMA NextSourced == TypeOK /\ TextsAgree /\ Sourced /\ [Next]_vars => Sourced'
  <1> SUFFICES ASSUME TypeOK, TextsAgree, Sourced, [Next]_vars PROVE Sourced'
    OBVIOUS
  <1>1. ASSUME TextsKept, UNCHANGED cache PROVE Sourced'
    BY <1>1 DEF Sourced, TextsKept
  <1>2. ASSUME NEW w \in Workers, Claim(w) PROVE Sourced'
    BY <1>1, <1>2, ClaimAnswers DEF TextsKept
  <1>3. ASSUME NEW w \in Workers, PipelineStep(w) PROVE Sourced'
    <2>1. TextsKept /\ InPipeline(w) /\ slot[w].prompt \in Prompts
      BY <1>3, PipelineRequests, PipelineSlot DEF TypeOK
    <2>2. cache' \subseteq cache \cup {slot[w].text}
      BY <1>3, PipelineCache
    <2>3. request[slot[w].prompt].text = slot[w].text
      BY <2>1 DEF TextsAgree
    <2> QED BY <2>1, <2>2, <2>3 DEF Sourced, TextsKept
  <1>4. CASE \A w \in Workers : ~Claim(w) /\ ~PipelineStep(w)
    BY <1>1, <1>4, OthersAnswers
  <1> QED BY <1>2, <1>3, <1>4

\* The digest's entry is of another prompt if the answer itself is not stored.
LEMMA KeptIsAnswerKept == AllKept /\ Sourced => AnswerKept
  <1> SUFFICES ASSUME AllKept, Sourced, NEW p \in Prompts, request[p].status = "completed",
                      ~(/\ request[p].response \in cache
                        /\ Fits(request[p].text, request[p].response))
               PROVE  /\ request[p].response = request[p].text
                      /\ \E q \in Prompts \ {p} :
                            request[q].text \in ExactEntries(request[p].text)
    BY DEF AnswerKept
  <1>1. request[p].response = request[p].text /\ ExactEntries(request[p].text) # {}
    BY DEF AllKept, Kept
  <1>2. request[p].text \notin cache
    BY <1>1 DEF Fits
  <1>3. PICK u \in cache : u \in ExactEntries(request[p].text)
    BY <1>1 DEF ExactEntries
  <1>4. PICK q \in Prompts : request[q].text = u
    BY <1>3 DEF Sourced
  <1> QED BY <1>1, <1>2, <1>3, <1>4

\* A completed request shows a stored answer that fits its text, or the answer
\* to its own text that upsert dropped, because the cache has that of another
\* prompt with the same digest by then - however late, crashed or cancelled
\* slots are.  No response gets lost otherwise, and none answers another text.
THEOREM AnswerKeptHolds == Spec => []AnswerKept
  <1>1. Init => AnswersReady /\ AllKept /\ Sourced
    BY EmptySlots DEF Init, AnswersReady, AllKept, Sourced, NewRequest
  <1> QED BY <1>1, NextAnswersReady, NextAllKept, NextSourced, KeptIsAnswerKept,
             TextsAgreeHolds, TypeCorrect, PTL DEF Spec

-----------------------------------------------------------------------------
(* Answers are paid for once                                               *)

\* The calls of PaidOnce.
Paying == {"nearest", "acquire", "llm", "store"}

\* Every step keeps PaidOnce: an answer appears under a slot that is past its
\* own look-up only by the store of another slot, which has another prompt.
LEMMA NextPaidOnce ==
    TypeOK /\ TextsAgree /\ LeaseHolder /\ PaidOnce /\ [Next]_vars => PaidOnce'
  <1> SUFFICES ASSUME TypeOK, TextsAgree, LeaseHolder, PaidOnce, [Next]_vars,
                      NEW v \in Workers, slot'[v].pc \in Paying,
                      ExactEntries(slot[v].text)' # {}
               PROVE  \E q \in Prompts \ {slot'[v].prompt} :
                         HashOf[request'[q].text] = HashOf[slot'[v].text]
    BY DEF PaidOnce, Paying
  <1>1. ASSUME UNCHANGED cache, TextsKept, slot[v].pc \in Paying,
               slot'[v].prompt = slot[v].prompt, slot'[v].text = slot[v].text
        PROVE  \E q \in Prompts \ {slot'[v].prompt} :
                  HashOf[request'[q].text] = HashOf[slot'[v].text]
    <2>1. ExactEntries(slot[v].text) # {}
      BY <1>1 DEF ExactEntries
    <2> QED BY <1>1, <2>1 DEF PaidOnce, Paying, TextsKept
  <1>2. ASSUME NEW w \in Workers, Claim(w)
        PROVE  \E q \in Prompts \ {slot'[v].prompt} :
                  HashOf[request'[q].text] = HashOf[slot'[v].text]
    BY <1>1, <1>2, ClaimAnswers DEF Paying, TextsKept
  <1>3. ASSUME NEW w \in Workers, PipelineStep(w)
        PROVE  \E q \in Prompts \ {slot'[v].prompt} :
                  HashOf[request'[q].text] = HashOf[slot'[v].text]
    <2>1. /\ TextsKept /\ InPipeline(w)
          /\ slot'[v].prompt = slot[v].prompt /\ slot'[v].text = slot[v].text
          /\ v # w => slot'[v] = slot[v]
      BY <1>3, PipelineSlot, PipelineRequests
    <2>2. CASE UNCHANGED cache
      <3>1. CASE slot[v].pc \in Paying
        BY <1>1, <2>1, <2>2, <3>1
      <3>2. CASE slot[v].pc \notin Paying
        <4>1. v = w
          BY <2>1, <3>2
        <4>2. SlotsOK
          BY DEF TypeOK, SlotsOK
        <4>3. {"hit", "nearest", "finishRequest", "finishJob", "refused", "markFailed",
               "requeue", "wake", "notify"} \subseteq Pcs
          BY DEF Pcs, PipelinePcs, RunPcs, HandlerPcs
        <4>4. \/ Goto(w, "nearest") /\ ExactEntries(slot[w].text) = {}
              \/ \E label \in Pcs \ Paying : Goto(w, label)
              \/ \E t \in Texts : GotoWith(w, "hit", t)
          BY <1>3, <3>2, <4>1, <4>3
             DEF PipelineStep, LookupExact, CountHit, LookupNearest, Acquire, CallLLM,
                 StoreAnswer, FinishRequest, FinishJob, Defer, MarkDead, MarkFailed,
                 Release, Requeue, Wake, Paying, ExactEntries, TypeOK, TablesTypeOK
        <4>5. Goto(w, "nearest") /\ ExactEntries(slot[w].text) = {}
          BY <4>1, <4>2, <4>3, <4>4, GotoMoves, GotoWithMoves DEF Paying
        <4> QED BY <2>1, <2>2, <4>1, <4>5 DEF ExactEntries
      <3> QED BY <3>1, <3>2
    <2>3. CASE /\ StoreAnswer(w)
               /\ cache' \subseteq cache \cup {slot[w].text} /\ cache \subseteq cache'
      <3>1. SlotsOK /\ "finishRequest" \in Pcs /\ slot[w].prompt \in Prompts
        BY <2>1 DEF TypeOK, SlotsOK, Pcs, PipelinePcs, RunPcs
      <3>2. v # w
        <4>1. slot'[w].pc = "finishRequest"
          BY <2>3, <3>1, GotoMoves DEF StoreAnswer
        <4> QED BY <4>1 DEF Paying
      <3>3. slot[v].pc \in Paying
        BY <2>1, <3>2
      <3>4. CASE ExactEntries(slot[v].text) # {}
        <4>1. \E q \in Prompts \ {slot[v].prompt} :
                 HashOf[request[q].text] = HashOf[slot[v].text]
          BY <3>3, <3>4 DEF PaidOnce, Paying
        <4> QED BY <2>1, <4>1 DEF TextsKept
      <3>5. CASE ExactEntries(slot[v].text) = {}
        <4>1. HashOf[slot[w].text] = HashOf[slot'[v].text]
          BY <2>1, <2>3, <3>5 DEF ExactEntries
        <4>2. slot[w].prompt # slot[v].prompt
          BY <2>3, <3>2, <3>3, OwnersDiffer DEF StoreAnswer, Paying, OwningPcs, RunPcs
        <4>3. request'[slot[w].prompt].text = slot[w].text
          BY <2>1, <3>1 DEF TextsKept, TextsAgree
        <4> QED BY <2>1, <3>1, <4>1, <4>2, <4>3
      <3> QED BY <3>4, <3>5
    <2> QED BY <1>3, <2>2, <2>3, PipelineCache
  <1>4. CASE \A w \in Workers : ~Claim(w) /\ ~PipelineStep(w)
    <2>1. UNCHANGED cache /\ TextsKept /\ SlotsLeft
      BY <1>4, OthersAnswers
    <2>2. slot'[v] = slot[v]
      BY <2>1 DEF SlotsLeft, Paying
    <2> QED BY <1>1, <2>1, <2>2
  <1> QED BY <1>2, <1>3, <1>4

\* When heartbeats are in time, no prompt's answer is paid for again once it is
\* stored, whatever crashes, database errors and cancellations happen.
THEOREM PaidOnceHolds ==
    ASSUME StallAt = {}
    PROVE  Spec => []PaidOnce
  <1>1. Init => PaidOnce
    BY EmptySlots DEF Init, PaidOnce
  <1> QED BY <1>1, NextPaidOnce, TextsAgreeHolds, LeaseHolderHolds, TypeCorrect, PTL
          DEF Spec
=============================================================================
