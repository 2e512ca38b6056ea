------------------------------ MODULE Workers -------------------------------
(***************************************************************************)
(* The worker side: slots that claim jobs and run PromptPipeline.execute   *)
(* on them, their heartbeats, and the reaper.  Every await of the program  *)
(* that reaches PostgreSQL, Redis or the LLM ends a step, so a slot's pc   *)
(* names the call it is about to make and other slots run in between.      *)
(*                                                                         *)
(* What the environment may do to a slot is given by four sets of pcs, so  *)
(* that a run or a theorem can say which accidents it allows:              *)
(*   CrashAt   the process is killed while the slot is at this call,       *)
(*   StallAt   the slot is so slow at this call (a blocked event loop, a   *)
(*             slow database, a late heartbeat) that a timer of its job    *)
(*             runs out under it: the lease, or the backoff of a retry,    *)
(*   BeatAt    the heartbeat fires while the slot is at this call,         *)
(*   DbFailAt  the PostgreSQL call raises; its transaction rolled back.    *)
(* LLM failures, Redis failures and rate-limit denials are always allowed. *)
(***************************************************************************)
EXTENDS Tables

CONSTANTS
    PromptText,      \* the text each prompt id was submitted with
    PromptPriority,  \* and its priority
    ProcessOf,       \* the process each slot runs in
    Mortal,          \* the processes that may be killed or shut down
    CrashAt, StallAt, BeatAt, DbFailAt,
    AttemptCap       \* bound: a job is not deferred again after this many claims

\* The calls of PromptPipeline._run, in order ...
RunPcs == {"exact", "hit", "nearest", "acquire", "defer", "llm", "store",
           "finishRequest", "finishJob"}

\* ... those of PromptPipeline._handle_failure ...
HandlerPcs == {"refused", "markDead", "markFailed", "release", "requeue", "wake"}

\* ... during all of which the heartbeat task runs.
PipelinePcs == RunPcs \cup HandlerPcs

\* "idle" is JobClaimer.next_job, "notify" the finally block of _worker_loop,
\* "dying" the same block with an exception on its way out.  A slot that no
\* longer exists has "stopped" if its loop returned and is "gone" otherwise.
Pcs == PipelinePcs \cup {"idle", "notify", "dying", "stopped", "gone"}

\* The calls that are PostgreSQL transactions and whose failure is not caught
\* on the spot.
DbPcs == {"idle", "exact", "hit", "nearest", "defer", "store",
          "finishRequest", "finishJob", "refused", "markDead", "markFailed",
          "release", "requeue"}

ASSUME WorkersAssumption ==
    /\ PromptText \in [Prompts -> Texts]
    /\ PromptPriority \in [Prompts -> Priority]
    /\ DOMAIN ProcessOf = Workers
    /\ CrashAt \subseteq Pcs
    /\ StallAt \subseteq PipelinePcs
    /\ BeatAt \subseteq PipelinePcs
    /\ DbFailAt \subseteq DbPcs
    /\ AttemptCap \in Nat

VARIABLE slot    \* by worker_id: where the slot is and the job it was given

vars == <<request, job, cache, slot>>

-----------------------------------------------------------------------------
(* A slot's local state: the prompt, and of the (job, request) pair that    *)
(* claim_next returned, the columns the pipeline reads.                     *)

SlotState ==
    [pc: Pcs, prompt: Prompts \cup {None}, text: Texts \cup {None},
     attempt: Nat, answer: Texts \cup {None}]

IdleSlot ==
    [pc |-> "idle", prompt |-> None, text |-> None, attempt |-> 0,
     answer |-> None]

GoneSlot == [IdleSlot EXCEPT !.pc = "gone"]
StoppedSlot == [IdleSlot EXCEPT !.pc = "stopped"]

InPipeline(w) == slot[w].pc \in PipelinePcs

Goto(w, label) == slot' = [slot EXCEPT ![w].pc = label]

GotoWith(w, label, text) ==
    slot' = [slot EXCEPT ![w].pc = label, ![w].answer = text]

\* The job row of the slot's prompt, and the UPDATE of it.
JobOf(w) == job[slot[w].prompt]
WriteJob(w, row) == job' = [job EXCEPT ![slot[w].prompt] = row]
WriteRequest(w, row) == request' = [request EXCEPT ![slot[w].prompt] = row]

-----------------------------------------------------------------------------
(* JobClaimer                                                              *)

Claim(w) ==
    /\ slot[w].pc = "idle"
    /\ \E p \in Prompts :
        /\ FirstInQueue(p)
        /\ job' = [job EXCEPT ![p] = ClaimedJob(@, w)]
        /\ slot' = [slot EXCEPT ![w] =
              [pc |-> "exact", prompt |-> p, text |-> request[p].text,
               attempt |-> job[p].attempts + 1, answer |-> None]]
    /\ UNCHANGED <<request, cache>>

-----------------------------------------------------------------------------
(* PromptPipeline._run                                                     *)

\* Mutant of LookupExact: the exact tier is skipped.
LookupExactSkipped(w) ==
    /\ slot[w].pc = "exact"
    /\ Goto(w, "nearest")
    /\ UNCHANGED tables

\* Tier 1 of SemanticCacheService.lookup.
LookupExact(w) ==
    /\ slot[w].pc = "exact"
    /\ \/ \E t \in ExactEntries(slot[w].text) : GotoWith(w, "hit", t)
       \/ /\ ExactEntries(slot[w].text) = {}
          /\ Goto(w, "nearest")
    /\ UNCHANGED tables

\* increment_hit_count: a transaction of its own, though nothing reads it.
CountHit(w) ==
    /\ slot[w].pc = "hit"
    /\ Goto(w, "finishRequest")
    /\ UNCHANGED tables

\* Tier 2.  The HNSW index is approximate, so the one row it returns may be
\* below the threshold although another one is above it.
LookupNearest(w) ==
    /\ slot[w].pc = "nearest"
    /\ \/ \E t \in NearEntries(slot[w].text) : GotoWith(w, "hit", t)
       \/ Goto(w, "acquire")
    /\ UNCHANGED tables

\* Mutant of AfterRetryable: one attempt too few.
AfterRetryableEarly(w) ==
    IF slot[w].attempt + 1 < MaxAttempts THEN "release" ELSE "markDead"

\* Where _handle_failure goes on a retryable error: job.can_retry() is asked of
\* the row as it was claimed.
AfterRetryable(w) ==
    IF slot[w].attempt < MaxAttempts THEN "release" ELSE "markDead"

\* IRateLimiter.try_acquire: granted, denied, or RedisUnavailableError.
Acquire(w) ==
    /\ slot[w].pc = "acquire"
    /\ \/ Goto(w, "llm")
       \/ slot[w].attempt < AttemptCap /\ Goto(w, "defer")
       \/ Goto(w, AfterRetryable(w))
    /\ UNCHANGED tables

\* ILLMProvider.complete: an answer, LLMRandomFailureError, or
\* RateLimitExceededError from the provider's own guard.
CallLLM(w) ==
    /\ slot[w].pc = "llm"
    /\ \/ GotoWith(w, "store", slot[w].text)
       \/ Goto(w, AfterRetryable(w))
       \/ slot[w].attempt < AttemptCap /\ Goto(w, "refused")
    /\ UNCHANGED tables

StoreAnswer(w) ==
    /\ slot[w].pc = "store"
    /\ cache' = Upserted(slot[w].text)
    /\ Goto(w, "finishRequest")
    /\ UNCHANGED <<request, job>>

\* _finish: two transactions, the request's row first.
FinishRequest(w) ==
    /\ slot[w].pc = "finishRequest"
    /\ WriteRequest(w, CompletedRequest(request[slot[w].prompt], slot[w].answer))
    /\ Goto(w, "finishJob")
    /\ UNCHANGED <<job, cache>>

FinishJob(w) ==
    /\ slot[w].pc = "finishJob"
    /\ WriteJob(w, CompletedJob(JobOf(w)))
    /\ Goto(w, "notify")
    /\ UNCHANGED <<request, cache>>

\* A rate-limit deferral, from _run or from _handle_failure; the result of
\* release_lease is ignored.
Defer(w) ==
    /\ slot[w].pc \in {"defer", "refused"}
    /\ WriteJob(w, IF MayRelease(JobOf(w), w) THEN ReleasedJob(JobOf(w))
                                             ELSE JobOf(w))
    /\ Goto(w, "notify")
    /\ UNCHANGED <<request, cache>>

-----------------------------------------------------------------------------
(* PromptPipeline._handle_failure                                          *)

\* Giving up: the job's row first, then the request's.
MarkDead(w) ==
    /\ slot[w].pc = "markDead"
    /\ WriteJob(w, DeadJob(JobOf(w)))
    /\ Goto(w, "markFailed")
    /\ UNCHANGED <<request, cache>>

MarkFailed(w) ==
    /\ slot[w].pc = "markFailed"
    /\ WriteRequest(w, FailedRequest(request[slot[w].prompt]))
    /\ Goto(w, "notify")
    /\ UNCHANGED <<job, cache>>

\* Retrying: release_lease, then the request's row unless the lease was gone.
Release(w) ==
    /\ slot[w].pc = "release"
    /\ \/ /\ MayRelease(JobOf(w), w)
          /\ WriteJob(w, ReleasedJob(JobOf(w)))
          /\ Goto(w, "requeue")
       \/ /\ ~MayRelease(JobOf(w), w)
          /\ Goto(w, "notify")
          /\ UNCHANGED job
    /\ UNCHANGED <<request, cache>>

Requeue(w) ==
    /\ slot[w].pc = "requeue"
    /\ WriteRequest(w, QueuedRequest(request[slot[w].prompt]))
    /\ Goto(w, "wake")
    /\ UNCHANGED <<job, cache>>

\* NOTIFY job_queued; its failure is swallowed, and idle slots poll anyway.
Wake(w) ==
    /\ slot[w].pc = "wake"
    /\ Goto(w, "notify")
    /\ UNCHANGED tables

-----------------------------------------------------------------------------
(* WorkerPool._worker_loop                                                 *)

Siblings(w) == {v \in Workers \ {w} : ProcessOf[v] = ProcessOf[w]}

\* An exception leaves _worker_loop, and the TaskGroup cancels the other slots
\* of the process, once.  _worker_loop swallows the cancellation of a running
\* pipeline and goes on; elsewhere it ends the slot or is swallowed as well,
\* depending on the await it hits.
SlotEnds(w) ==
    \/ /\ \E v \in Siblings(w) : slot[v].pc = "gone"
       /\ slot' = [slot EXCEPT ![w] = GoneSlot]
    \/ /\ \A v \in Siblings(w) : slot[v].pc # "gone"
       /\ \E ended \in SUBSET {v \in Siblings(w) :
                               slot[v].pc \in {"idle", "notify", "dying"}} :
            slot' = [v \in Workers |->
                IF v \in ended \cup {w} THEN GoneSlot
                ELSE IF v \in Siblings(w) /\ InPipeline(v) THEN IdleSlot
                ELSE slot[v]]

\* The finally block: stop the heartbeat, NOTIFY prompt_done_<id> (failures
\* swallowed), then take the next job or let the exception end the slot.
NotifyDone(w) ==
    /\ \/ slot[w].pc = "notify" /\ slot' = [slot EXCEPT ![w] = IdleSlot]
       \/ slot[w].pc = "dying" /\ SlotEnds(w)
    /\ UNCHANGED tables

\* The loop observes the shutdown event, between jobs.
Stop(w) ==
    /\ slot[w].pc = "idle"
    /\ ProcessOf[w] \in Mortal
    /\ slot' = [slot EXCEPT ![w] = StoppedSlot]
    /\ UNCHANGED tables

\* HeartbeatManager._run: extend_lease, and cancel the pipeline task if it
\* matched no row.  A cancelled pipeline sends no notification.
Heartbeat(w) ==
    /\ slot[w].pc \in BeatAt
    /\ \/ /\ HoldsLease(JobOf(w), w)
          /\ WriteJob(w, ExtendedJob(JobOf(w)))
          /\ UNCHANGED slot
       \/ /\ ~HoldsLease(JobOf(w), w)
          /\ slot' = [slot EXCEPT ![w] = IdleSlot]
          /\ UNCHANGED job
    /\ UNCHANGED <<request, cache>>

\* A database error reaches execute() as a plain SQLAlchemy exception, which
\* is_retryable does not know: raised in _run it goes to the non-retryable
\* branch, raised in _handle_failure or in claim_next it ends the slot.
DbError(w) ==
    /\ slot[w].pc \in DbFailAt
    /\ \/ slot[w].pc \in RunPcs /\ Goto(w, "markDead")
       \/ slot[w].pc \in HandlerPcs /\ Goto(w, "dying")
       \/ slot[w].pc = "idle" /\ SlotEnds(w)
    /\ UNCHANGED tables

\* SIGKILL, OOM, power: all slots of the process are gone, the rows are as they
\* are.  A process started later has new worker ids.
Crash(m) ==
    /\ m \in Mortal
    /\ \A w \in Workers : ProcessOf[w] = m => slot[w].pc \in CrashAt
    /\ slot' = [w \in Workers |-> IF ProcessOf[w] = m THEN GoneSlot ELSE slot[w]]
    /\ UNCHANGED tables

-----------------------------------------------------------------------------
(* Time and the reaper                                                     *)

\* The slot whose heartbeat keeps the job's lease live.
Beating(p) ==
    \E w \in Workers : job[p].owner = w /\ slot[w].prompt = p /\ InPipeline(w)

StalledOwner(p) ==
    \E w \in Workers :
        job[p].owner = w /\ slot[w].prompt = p /\ slot[w].pc \in StallAt

\* locked_until passes.
LeaseLapses(p) ==
    /\ job[p].status = "processing"
    /\ job[p].lease = "live"
    /\ ~Beating(p) \/ StalledOwner(p)
    /\ job' = [job EXCEPT ![p].lease = "lapsed"]
    /\ UNCHANGED <<request, cache, slot>>

\* scheduled_at passes; a backoff is at least a second, so the slot that
\* released the job has written the request's row by then unless it stalls.
BackoffElapses(p) ==
    /\ job[p].status = "queued"
    /\ ~job[p].due
    /\ \A w \in Workers :
          slot[w].prompt = p /\ slot[w].pc = "requeue" => "requeue" \in StallAt
    /\ job' = [job EXCEPT ![p].due = TRUE]
    /\ UNCHANGED <<request, cache, slot>>

\* reap_expired_leases: one transaction over both tables and all expired rows.
Reap ==
    /\ \E p \in Prompts : Expired(job[p])
    /\ job' = [p \in Prompts |->
                  IF Expired(job[p]) THEN ReapedJob(job[p]) ELSE job[p]]
    /\ request' = [p \in Prompts |->
                  IF Expired(job[p]) THEN ReapedRequest(request[p], job[p])
                                     ELSE request[p]]
    /\ UNCHANGED <<cache, slot>>

-----------------------------------------------------------------------------
(* The worker side on its own, started on a queue that clients have filled. *)

Init ==
    /\ request = [p \in Prompts |-> NewRequest(PromptText[p])]
    /\ job = [p \in Prompts |-> NewJob(PromptPriority[p])]
    /\ cache = {}
    /\ slot = [w \in Workers |-> IdleSlot]

\* What a slot does when it is scheduled.
PipelineStep(w) ==
    \/ LookupExact(w) \/ CountHit(w) \/ LookupNearest(w) \/ Acquire(w)
    \/ CallLLM(w) \/ StoreAnswer(w) \/ FinishRequest(w) \/ FinishJob(w)
    \/ Defer(w) \/ MarkDead(w) \/ MarkFailed(w) \/ Release(w) \/ Requeue(w)
    \/ Wake(w)

SlotStep(w) == Claim(w) \/ PipelineStep(w) \/ NotifyDone(w)

Accident(w) == DbError(w) \/ Crash(ProcessOf[w]) \/ Stop(w)

Passage(p) == LeaseLapses(p) \/ BackoffElapses(p)

Next ==
    \/ \E w \in Workers : SlotStep(w) \/ Heartbeat(w) \/ Accident(w)
    \/ \E p \in Prompts : Passage(p)
    \/ Reap

Spec == Init /\ [][Next]_vars

\* Slots are coroutines of event loops that keep running, clocks advance, and
\* some surviving process has a reaper that runs every reaper_interval.
Fairness ==
    /\ \A w \in Workers : WF_vars(SlotStep(w))
    /\ \A p \in Prompts : WF_vars(Passage(p))
    /\ WF_vars(Reap)

FairSpec == Spec /\ Fairness

-----------------------------------------------------------------------------
(* Properties                                                              *)

\* Every row and every slot has its type, and a slot that is running a job
\* knows which one (the rows as claim_next returned them).
TypeOK ==
    /\ TablesTypeOK
    /\ slot \in [Workers -> SlotState]
    /\ \A w \in Workers : InPipeline(w) =>
          /\ slot[w].prompt \in Prompts
          /\ request[slot[w].prompt].status # "absent"
          /\ slot[w].text \in Texts

\* release_lease compares worker_id, so a stale worker never puts back a job
\* that somebody else is processing: a job goes from processing to queued only
\* by its own worker, on the attempt that worker was given, or once its lease
\* has lapsed.
RequeueByOwner ==
    [][\A p \in Prompts :
          job[p].status = "processing" /\ job'[p].status = "queued" =>
            \/ job[p].lease = "lapsed"
            \/ \E w \in Workers :
                 /\ job[p].owner = w
                 /\ slot[w].prompt = p
                 /\ slot[w].attempt = job[p].attempts
                 /\ slot[w].pc \in {"defer", "refused", "release"}]_vars

\* The answer to text a is one to text t, or to a similar text.
Fits(t, a) == HashOf[a] = HashOf[t] \/ <<t, a>> \in Near

\* The conflict rule of upsert drops the answer of a slot whose digest has an
\* entry by now, and the slot shows it to its client nevertheless.  That is the
\* only way for a completed request to show what the cache does not have: it
\* shows a stored answer that fits its text, or the answer to its own text, and
\* then the cache has that of another prompt with the same digest.
AnswerKept ==
    \A p \in Prompts : request[p].status = "completed" =>
        \/ /\ request[p].response \in cache
           /\ Fits(request[p].text, request[p].response)
        \/ /\ request[p].response = request[p].text
           /\ \E q \in Prompts \ {p} :
                 request[q].text \in ExactEntries(request[p].text)

\* The calls a slot makes while it believes that the job is its own.
OwningPcs == RunPcs \cup {"refused", "markDead", "release"}

\* As long as heartbeats are in time, a slot that runs or settles a job holds
\* its lease: whatever crashes and failures there are, no other slot runs the
\* same job and the reaper leaves it alone.
LeaseHolder ==
    \A w \in Workers : slot[w].pc \in OwningPcs =>
        HoldsLease(JobOf(w), w) /\ JobOf(w).lease = "live"

\* An answer that was stored is not paid for again, whatever crashes and
\* retries the job goes through: a slot only gets as far as the rate limiter
\* and the LLM with the text's answer already stored if another prompt has a
\* text with the same digest.  (An answer that was paid for and not yet stored
\* is lost in a crash, and is paid for again.)
PaidOnce ==
    \A w \in Workers :
        /\ slot[w].pc \in {"nearest", "acquire", "llm", "store"}
        /\ ExactEntries(slot[w].text) # {}
        => \E q \in Prompts \ {slot[w].prompt} :
              HashOf[request[q].text] = HashOf[slot[w].text]

\* A job is given up only when its attempts are used up.
DeadMeansExhausted ==
    \A p \in Prompts : job[p].status = "dead" => job[p].attempts >= MaxAttempts

\* Some worker will claim p's job or is working on it, or is about to fail its
\* request.
Served(p) ==
    \/ job[p].status \in {"queued", "processing"}
    \/ \E w \in Workers : slot[w].prompt = p /\ slot[w].pc = "markFailed"

\* No request that its client is told to wait for is left with a job that is
\* finished.
NoStranded == \A p \in Prompts : request[p].status = "queued" => Served(p)

\* A job that is being processed is completed or given up only by its own
\* worker, or given up by the reaper once its lease has lapsed.
SettledByOwner ==
    [][\A p \in Prompts :
          job[p].status = "processing" /\ job'[p].status \in {"completed", "dead"} =>
            \/ job'[p].status = "dead" /\ job[p].lease = "lapsed"
            \/ \E w \in Workers :
                 /\ job[p].owner = w
                 /\ slot[w].prompt = p
                 /\ slot[w].pc \in {"finishJob", "markDead"}]_vars

\* Every prompt is eventually settled, in both tables, for good.
Settled(p) == Terminal(p) /\ job[p].status \in {"completed", "dead"}
EverySettled == \A p \in Prompts : <>[]Settled(p)

-----------------------------------------------------------------------------
(* The abstract queue                                                      *)

\* A slot works on p until it has let go of the job's row, or has failed the
\* request of a job it gave up.
WorksOn(w, p) == slot[w].prompt = p /\ slot[w].pc \in OwningPcs \cup {"markFailed"}

HolderOf(p) ==
    IF \E w \in Workers : WorksOn(w, p)
    THEN CHOOSE w \in Workers : WorksOn(w, p) ELSE None

OutcomeOf(status) == IF status = "queued" THEN "pending" ELSE status

\* What the tables and the slots show of each prompt.
Outcomes == [p \in Prompts |-> OutcomeOf(request[p].status)]
Answers == [p \in Prompts |-> request[p].response]
Holders == [p \in Prompts |-> HolderOf(p)]

Promise == INSTANCE PromptQueue WITH
    outcome <- Outcomes, answer <- Answers, holder <- Holders

\* The tables and the slots implement the queue that clients are promised.
KeepsPromise == Promise!Spec
=============================================================================
