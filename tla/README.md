# TLA+ models of the distributed LLM request system

This directory holds TLA+ models of the request system in `src/`, the TLC
configurations that check them on small instances, and TLAPS proofs of the
results that matter most. Line references are to the Python sources.

## 1. The system

Clients post prompts to an HTTP API. The API stores a request row and a job row
and waits for the result. Worker processes, each with several coroutines
("slots"), claim jobs from the table, look for an answer in a semantic cache,
call a rate-limited LLM if there is none, and write the result back. Processes
share nothing but PostgreSQL (three tables, LISTEN/NOTIFY) and one Redis key.

| Component | State | Operations | Interacts by |
|---|---|---|---|
| Tables and repositories (`db/repositories`, `models`) | `prompt_requests`, `processing_jobs`, `semantic_cache` | one transaction per method: `claim_next`, `extend_lease`, `release_lease`, `mark_completed`, `mark_dead`, `mark_failed`, `update_status`, `reap_expired_leases`, `upsert`, ... | shared by all processes |
| Worker slot (`worker/pool.py`, `worker/claimer.py`) | the job and request as claimed | claim, run the pipeline in a sub-task, stop the heartbeat, NOTIFY the waiting client | TaskGroup of the process |
| Pipeline (`services/prompt_pipeline.py`, `services/cache.py`) | none of its own | `_run`, `_finish`, `_handle_failure` | tables, Redis, LLM |
| Heartbeat (`worker/heartbeat.py`) | a task per running job | `extend_lease` every 5 s; cancels the pipeline when it matched no row | tables, cancellation |
| Reaper (`worker/reaper.py`) | none | every 5 s, jobs whose lease has expired go back to the queue, or are given up | tables |
| Rate limits (`services/ratelimit.py`, `services/llm_mock.py`) | a hash in Redis; a deque per process | `try_acquire` | Redis, shared by all processes |
| API (`services/prompt_processor.py`, `services/idempotency.py`, `db/listen_notify.py`, `api/`) | a call's local variables | `submit_and_wait`, `get_result` | tables, LISTEN/NOTIFY |
| Process lifecycle (`worker/__main__.py`, `worker/shutdown.py`) | the shutdown event, the TaskGroup's tasks | start, SIGTERM, cancellation | gather of pool and reaper |
| Health check (`api/health_checker.py`) | none | `GET /health` | reads `last_heartbeat_at` |
| Configuration (`config.py`) | the settings | read at start | constants of all the others |

What is hard here: a prompt is settled by *two* transactions (the request's row
and the job's), a heartbeat runs beside every await of the pipeline and may
cancel it, a slot may be so late that the reaper has handed its job to another
slot, and processes are killed anywhere. Correctness means: one slot at a time
runs a job; a slot that lost its job does not disturb the new owner; no request
waits for a job that nobody will run; an answer that was stored is used again;
a job is retried as often as promised and then given up; every prompt is
eventually settled; the LLM is not called faster than promised; the queue does
not grow past its limit by more than the calls in progress explain; after
SIGTERM the slots end, and nothing of them is left behind.

## 2. The modules

| Module | What it is |
|---|---|
| `Tables` | the rows, and what each repository method writes, as operators from a row to the row after the UPDATE |
| `Workers` | slots, pipeline, heartbeat, reaper, crashes and passing time (extends `Tables`) |
| `Api` | handlers of `POST /process`: `submit_and_wait` step by step (extends `Tables`) |
| `PromptSystem` | `Api` and `Workers` over the same tables, with the worker's NOTIFY as their joint step |
| `PromptQueue` | abstract specification: what clients are promised of a prompt |
| `Backpressure` | `Api` over many prompts, with only what it can notice of the workers: how far the depth check holds |
| `LeaseTiming` | one job's lease, heartbeat and reaper with clocks: what the settings must satisfy |
| `WorkerProcess` | the tasks of one worker process, their cancellation and its end |
| `RateLimiter` | token bucket and sliding window |
| `MC...` | values of the constants of the module after which each is named, for TLC |
| `WorkersProofs`, `WorkersSafety` | TLAPS proofs about `Workers`: types; leases, requeues, settling, attempts and answers |
| `ApiProofs` | TLAPS lemmas about `Api`: what a step of a handler does to its record, its reply and the rows |
| `PromptSystemProofs` | TLAPS proofs about `PromptSystem`, from those of both sides, and the refinement of `PromptQueue` |
| `LeaseTimingProofs`, `WorkerProcessProofs`, `BackpressureProofs`, `RateLimiterProofs` | TLAPS proofs about the module each is named after |

### Tables

A request and its job are one to one, so both tables are functions of the
prompt id. Columns that no decision reads are left out. `locked_until` becomes
`lease`: `null`, `live` or `lapsed`; `scheduled_at <= now` becomes `due`. A
response is named by the text it answers, so the cache is a set of texts: the
provider's reply (`llm_mock.py`) depends on nothing else, and the answers to two
spellings of one text are told apart.
Embeddings appear only as the relation `Near` ("similarity above the
threshold"); nothing about it is assumed, not even symmetry.

### Workers

A slot's `pc` names the call it is about to make; every awaited call to
PostgreSQL, Redis or the LLM is one step, so other slots, heartbeats, the
reaper, the clock and accidents interleave at every await.

| pc | Call | Action |
|---|---|---|
| `idle` | `JobClaimer.next_job` / `claim_next` | `Claim`, `Stop` |
| `exact`, `hit`, `nearest` | `SemanticCacheService.lookup` | `LookupExact`, `CountHit`, `LookupNearest` |
| `acquire`, `defer` | rate limit, deferral | `Acquire`, `Defer` |
| `llm`, `store` | LLM call, cache store | `CallLLM`, `StoreAnswer` |
| `finishRequest`, `finishJob` | `_finish` | `FinishRequest`, `FinishJob` |
| `refused` | deferral in `_handle_failure` | `Defer` |
| `markDead`, `markFailed` | giving up | `MarkDead`, `MarkFailed` |
| `release`, `requeue`, `wake` | retry with backoff | `Release`, `Requeue`, `Wake` |
| `notify`, `dying` | `finally` block of `_worker_loop` | `NotifyDone` |
| `stopped`, `gone` | loop returned; slot or process lost | |

The accidents are constants, so that each run and each theorem says what it
allows: `CrashAt`, `StallAt`, `BeatAt` and `DbFailAt` are the sets of pcs at
which a process may be killed, a slot may be late (its lease, or the backoff of
the job it released, runs out under it), a heartbeat may fire, and a database
call may raise. LLM failures, Redis failures and rate-limit denials are always
possible. `LeaseLapses` is possible for a job nobody beats for, and for one
whose slot is at a pc of `StallAt`.

`SlotEnds` models the TaskGroup of a process: the exception of one slot cancels
its siblings once; a sibling that is awaiting its pipeline swallows the
cancellation and goes on with its loop, others end or swallow it as well,
depending on the await it hits.

A crashed slot is not replaced: a restarted process has new worker ids, and in
these models the other slots stand for it.

### Api

A handler's `pc` names the await it is about to make. The idempotency check
chooses one of four branches; all but `RETURN_EXISTING` meet again at the
pre-check.

| pc | Code | Action |
|---|---|---|
| `idle` | the handler takes a request | `Submit` |
| `check` | `IdempotencyService.check` | `Check` |
| `reread` | `RETURN_EXISTING` | `Reread` |
| `depth`, `insert`, `refetch` | backpressure, `insert_with_job`, the lost race | `CheckDepth`, `Insert`, `Refetch` |
| `requeueRequest`, `resetJob` | `REENQUEUE`: `update_status`, `reset_job` | `RequeueRequest`, `ResetItsJob` |
| `precheck`, `listen`, `wakeWorkers` | pre-check, entering `prepared_listener`, NOTIFY `job_queued` | `Precheck`, `Listen`, `WakeWorkers` |
| `wait`, `poll`, `final` | the loop until the deadline, and the read after it | `Wait`, `Poll`, `FinalRead` |

Beside the request's body a handler keeps `action` (the decision), `notify`
(`should_notify`), `woken` (the listener's future has its result), `late` (the
deadline has passed, `Deadline`) and the last `reply`. `Wait` does not need `woken`,
as the wait ends by itself after a second: that a lost notification delays a
handler and does no more is part of `EveryCallReplied`. `CallLost` is a statement
that raises or an API process that is killed, at the pcs of `ApiFailAt`: the
client gets an error and what was committed stays. `GET /result` reads one row
and has no state.

### PromptSystem

The system starts with empty tables. `Notify` is the one step of both sides: a
worker's `NOTIFY prompt_done_<id>` sets `woken` in the handlers that are
listening, or, if `NotifyFails`, is lost in the `except` of `_notify_done`.

### PromptQueue

A prompt is absent, pending, completed or failed. A client may submit an absent
or a failed one; one worker at a time holds it; it is answered or given up once
per submission, a completed one keeps its outcome and answer for good; a worker
may drop it at any moment. `KeepsPromise` (in `Workers`, checked on
`PromptSystem`) is this specification under the mapping: `outcome` and `answer`
from the request's row, `holder` the slot that has not yet let go of the job.

### RateLimiter

Tokens are measured by the time it takes to refill them: the bucket gains a unit
per tick and a call takes `Cost` units. The script takes the time from its
caller, so each process's clock is ahead of the slowest by `Skew`. The key
expires `Ttl` ticks after it was last written and then comes back full. An
observer may open a window at any time and adds up what is granted and called
from then on, so an invariant about it speaks of every window.

### LeaseTiming

`Workers` takes it as a parameter whether heartbeats are in time (`StallAt`).
This module derives it. A call reads its host's clock when it is made and takes
effect when it returns, as `claim_next`, `extend_lease` and `reap_expired_leases`
do, which compute their times before their transactions; so what is left of a
lease is shorter than `lease_seconds` by the length of the call and by the
disagreement of the clocks. Three bounds describe the environment: a database
call or a wake-up is at most `Delay` late, at most `Missable` heartbeats (or
rounds of the reaper) fail in a row, and clocks differ by at most `Spread`. One
job is enough, since neither heartbeats nor the reaper decide anything by
looking at two. `Timely` is the relation between the settings and these bounds
under which everything else holds:

    Delay + (Missable + 1) * (Interval + 2 * Delay) + Spread <= Lease

With the defaults (lease 15 s, heartbeat 5 s) and delays of a second this leaves
room for one missed heartbeat, and for two only if nothing is ever late.
`WorkerStatus` is the worker line of `GET /health`.

### WorkerProcess

One process from `asyncio.gather(pool.run(), reaper.run())` to its end. A slot is
at the await it is suspended in, because that is where a cancellation hits it:
`AfterCancel` says for each await where the slot goes on. `Abort` is the
TaskGroup's one cancellation of the siblings of a slot that failed; `LeaseLost`
is the heartbeat's of the pipeline. `main` is `gather` until that raises, then
`closing` (the `finally` block), then `exited`. The jobs are in `Workers`, whose
`SlotEnds` is the same cancellation seen from the tables.

### Backpressure

`Api`'s handlers as they are, any number of prompt ids, and in place of `Workers`
the one action `WorkersWrite`: any row's status may become any of `JobWrites` or
`RequestWrites`, and any caller may be woken. Every action of `Workers` is one or
two such steps, so what holds here holds of the composed system. `finished` is a
history variable: jobs that were finished once and have come back (re-enqueued,
or released by a late slot) are not what the depth check admitted.

## 3. The runs

Passing runs:

| Run | Instance | Accidents | Shows |
|---|---|---|---|
| `workers_stale` | 3 slots in 2 processes, 1 prompt | all, everywhere | `TypeOK`; `RequeueByOwner`: a slot that lost its job never puts it back under its new owner |
| `workers_settle` | 2 slots, 3 prompts (two spellings of one text and a text similar to one of them), one process survives | crashes except at `markFailed`, LLM and Redis failures, deferrals, heartbeats except between `mark_dead` and `mark_failed`; no late slots | `LeaseHolder`: a slot that runs a job holds its live lease, so runs it alone; `PaidOnce`: a stored answer is not paid for again for its prompt; `AnswerKept`: a completed request shows a stored answer that fits its text, or its own, which the conflict rule of `upsert` dropped because the cache has that of another prompt with the same digest; `DeadMeansExhausted`: no job is given up before its attempts are used up; `EverySettled`: every prompt is settled in both tables for good |
| `lease_timing` | 1 job, 2 slots on hosts whose clocks differ | late and failed calls, crashes at any time | `LeaseKept`: a running slot owns the job and the reaper does not find it expired; `ReclaimedInTime`: a crashed slot's job is taken back within the lease, the reaper's longest silence and the clocks' disagreement; `BusyIsRunning`: the health check does not report a busy worker as idle |
| `worker_process` | 3 slots | any await raises or is cancelled; SIGTERM at any time | `TypeOK`: no heartbeat outlives its job; `NothingLeftBehind`: connections are closed only when no slot uses them; `ShutdownDrains`: after SIGTERM the slots end; `FailureSurfaces`: and, if one failed, so does the process |
| `backpressure` | 2 calls at a time, 3 prompts, a queue of one | anything the workers may write, at any time | `DepthBound`: admission exceeds the limit by less than the number of calls |
| `ratelimit` | 2 processes with clocks one tick apart, bucket of 2 calls | key expiry | `RateBound`, `GuardBound` |
| `system_calls` | 2 handlers, 1 slot, one prompt id posted with two texts | no late slots; any other accident anywhere, on both sides | `SystemTypeOK`: among others, rows are inserted in pairs and a handler past its check waits for a row that exists; `AnswersItsText`: a client gets an answer to its own text, except through the insert race |
| `system_promise` | 1 handler serving clients one after the other, 2 slots, 1 prompt posted with two texts of one digest | no late slots; nothing between the two transactions that settle or re-enqueue a prompt | `NobodyStranded`: no request waits for a finished job; `ReplyStands`: what a client was told stays true; `KeepsPromise`: the refinement; `EveryCallReplied`: a call returns once its prompt is settled, even if it is never notified, and once its deadline has passed, even if all workers are gone |

Runs that exhibit a disagreement between the code and its documentation
(`findings` in `PROJECT.json` has the quotes):

| Run | What happens |
|---|---|
| `bug_beat_strands` | a heartbeat between `mark_dead` and `mark_failed` cancels the slot's own failure handling: request `queued`, job `dead`, forever. A crash there does the same (set `CrashAt <- Everywhere`, `BeatAt <- BeatNotBetween`) |
| `bug_stale_settles` | `mark_completed`/`mark_dead` match by id alone: a slot that lost its lease settles the job of the new owner |
| `bug_raced_text` | two calls post one prompt id with different texts; the loser of the insert race skips the digest comparison and is given the answer to the other text instead of 409 |
| `bug_fail_fast` | a slot fails while its sibling is in `heartbeat.stop()`, awaits its pipeline or waits for a notification: at each of these the sibling swallows the TaskGroup's only cancellation (which one TLC shows may differ from run to run), goes on claiming jobs, and the process never exits |

Related observations, found while modelling, that have no run of their own:

- After a crash between the two transactions of `_finish` the reaper takes a
  completed request back to `queued` or `failed`, until the retry finds the
  answer in the cache (`system_promise` with `CrashAt <- Everywhere` violates
  `ReplyStands`).
- Of two prompts with one digest that miss the cache at the same time, one has its
  answer dropped by `ON CONFLICT DO NOTHING` (`semantic_cache.py:109`) and shown to
  its client nevertheless; `workers_settle` with `response \in cache` in place of
  `AnswerKept` shows it. The next prompt with that digest is given the other answer.
- A worker that is killed after the LLM has answered and before `cache.store` has
  committed takes the answer with it, and the next attempt calls the LLM again for
  the same prompt (`CrashAt = {"store"}`). `src/README.md:132` and `:155` promise one
  call ("only one LLM call ever"); `:160` has a crash "after LLM but before write"
  and says that the job is reprocessed. `PaidOnce` is about *stored* answers only.
- `update_status(QUEUED)` after `release_lease` (`prompt_pipeline.py:214`) matches the
  request by id alone. If it is late by a whole backoff (`StallAt = {"requeue"}`), the
  next attempt may have completed the prompt, which goes back to `queued`, or used up
  the last attempt, and then the request is queued with a dead job forever:
  `bug_beat_strands` with this `StallAt` and `BeatAt <- Nowhere` violates `NoStranded`.
- Two calls may both see a failed prompt; the second takes it back to `queued` after
  the first one's attempt has completed and its client was told so. Re-enqueueing
  goes by the status read in an earlier transaction (`prompt_processor.py:144`);
  `system_promise` with two handlers violates `ReplyStands`, and
  `src/README.md:93` says that a prompt "always returns the same result".
- A SQLAlchemy error in `_run` is of no class in `RETRYABLE_ERRORS`, so the job is dead
  at its first attempt (`workers_settle` with `DbFailAt <- AnyDbCall` violates
  `DeadMeansExhausted`); `src/ARCHITECTURE.md:366` says that it becomes a
  `DatabaseUnavailableError` and is retried, but nothing raises that class.
- A deferral by the rate limiter costs an attempt, since `claim_next` counts
  every claim: `attempt_count` may pass `max_attempts` (`src/README.md:137`).
- A Redis failure on a job's last attempt gives the job up
  (`prompt_pipeline.py:184`); `src/README.md:161` says that all jobs re-queue.
- `claim_next` raising ends the slot, and with it possibly the process
  (`worker_process`); `src/README.md:162` says "Workers retry with backoff".
- SIGTERM ends the slots but not the process, as `gather` waits for the reaper,
  whose loop does not look at the event; `ShutdownHandler`'s `grace_seconds` is
  only logged. The process ends when Docker kills it, or by itself if a slot had
  failed (`FailureSurfaces`).
- A claim that is cancelled after its commit leaves a claimed job to the reaper.
- `src/ARCHITECTURE.md:433` asks for a lease longer than three heartbeat
  intervals; the defaults are equal. By `Timely` "3 missed beats = lease expiry"
  (`:434`) is optimistic: with delays of a second the second missed heartbeat may
  be too late.
- `src/README.md:135` and `:160` promise that a crashed job is reclaimed within
  `LEASE_SECONDS`; `ReclaimedInTime` adds the reaper's silence, at least its
  interval and the delays.
- A full bucket and its refill together exceed 300 calls in a minute
  (`src/README.md:151`); `RateBound` is the bound that holds.
- A crash of the API between `update_status` and `reset_job` leaves a queued
  request with a dead job; later calls await it until their deadlines.
- `prompt_done` is also sent after a deferral or a retry (`pool.py:139`). The
  future then has its result for the rest of the call, so the handler's loop no
  longer pauses between polls.
- What clients enqueue again is not subject to the depth check.

### Bounds

- Two slots are enough for a stale slot and a new owner; `workers_stale` has
  three in two processes so that a TaskGroup cancellation hits a sibling while a
  slot of the other process takes the job over.
- `MaxAttempts = 2` has a first, a last and (with deferrals) a surplus attempt.
- `AttemptCap = 3` bounds deferrals, which the code does not bound: a job is not
  deferred again after its third claim. For `EverySettled` it stands for the
  assumption that the rate limiter lets a job through eventually.
- The texts: `hello` and `HELLO` share a digest, `hi` is similar to `hello`, and `bye`
  is unrelated. `workers_settle` has the first three: two prompts conflict in the
  cache, and the third may be given the answer of one of them by similarity, or the
  other way round. `system_promise` has the two with one digest, so that a client may
  be given an answer to the other spelling, as `normalize` intends; `system_calls`
  has two unrelated ones.
- `MaxTime = 7` in `ratelimit` lets the bucket be drained, refilled, and its key
  expire (`Ttl = 5`) and return within one observed window.
- `system_calls` has two handlers because every race between calls is between
  two; they are interchangeable, so the run reduces by their symmetry (it checks
  invariants only). `MaxAttempts = 1` there makes prompts fail, and so be
  re-enqueued, after one attempt. `system_promise` has two attempts and one
  handler that serves any number of clients in turn: with two handlers at a time
  `ReplyStands` is false (see above).
- `MaxDepth = 1` makes the queue full as soon as a prompt is in flight. In
  `backpressure` a third prompt is there for the call that must be refused.
  `JobWrites` and `RequestWrites` there are the statuses that `Api` tells apart.
- `lease_timing` has the smallest settings that are `Timely` with a delay, a
  missed heartbeat and clocks that disagree, each of one tick: lease 8, intervals
  1. Time is not bounded: `VIEW Ages` identifies states that differ by a shift of
  time, or in the age of what is not used any more, which no action and no property
  can tell apart. The same run with the default settings (15, 5, 5, 30), `Delay = 1`,
  `Missable = 1` and `Spread = 0` passes as well (2.2 million states, too long to
  be one of the runs). `InTime` stops time before a bound is passed, so deadlock *is* checked
  there: it would mean that the bounds contradict each other.
- Three slots in `worker_process`: one that fails, one that is cancelled, one that
  swallows the cancellation.

Deadlock is not checked elsewhere: when every prompt is settled or every process
is gone, the system may stop.

### Fairness

`FairSpec` assumes weak fairness of each slot's steps (coroutines of event loops
that keep running; an LLM call ends), of the passage of time (leases and
backoffs run out) and of the reaper, which every process runs every
`reaper_interval` seconds. Nothing is assumed of heartbeats, crashes or
failures. `Mortal` leaves one process alive, as an operator who restarts what
was killed does in the long run (`docker-compose.yml` states no restart policy).
Crashes and heartbeats at `markFailed` are excluded because they strand a
request (see above).

`FairSystemSpec` assumes that a handler's coroutine keeps running, and nothing else:
not of the workers, nor that deadlines pass. So `EveryCallReplied` cannot hold because
the deadline ends every wait: the polls alone must find a settled row, and a call
whose prompt is not settled returns when its deadline has passed.

`WorkerProcess` assumes that every await of a slot ends, since PostgreSQL, Redis
and the provider answer or fail, and that the event loop runs what is ready: the
TaskGroup's cancellation, `gather`'s result and `main`'s end. Nothing is assumed
of signals and heartbeats.

## 4. The proofs

TLAPS proves, for any sets of prompts, slots, processes and texts, any number of
attempts and any accidents unless stated:

- `WorkersProofs!TypeCorrect`: `Spec => []TypeOK`. `TypeOK` is inductive; it
  includes that a slot in the pipeline has a prompt whose rows exist.
- `WorkersSafety!LeaseHolderHolds`: if `StallAt = {}` (heartbeats in time), a slot
  at a call that runs or settles a job holds the job's live lease. `LeaseHolder`
  is inductive together with `TypeOK`. For another slot's step the argument is
  that two slots that own jobs own different ones, because `worker_id` is one of
  them; for `Reap` it is that a live lease is not expired; for `LeaseLapses` that
  the owner is beating.
- `WorkersSafety!ExclusiveProcessing`: hence no two slots run or settle a job.
- `WorkersSafety!RequeueByOwnerHolds`: with late heartbeats anywhere, a job goes
  from processing to queued only by its owner on the attempt the owner was
  given, or after its lease has lapsed. The invariant behind it relates the slot
  to the row: a slot whose `worker_id` is in a row that is being processed was
  given that row at that attempt (`ClaimFence`). Comparing `worker_id` alone is
  enough only because a slot that abandons a job and claims the same one again
  has forgotten its older attempt.
- `WorkersSafety!DeadMeansExhaustedHolds`: if the database calls of `_run` do not
  fail, a dead job has used its attempts, late heartbeats included. The slot
  decides on the count it claimed with and `mark_dead` matches any row, so the
  invariant adds that a row's count is never below that of a slot working on it
  (`AttemptsCounted`) and that a slot at `markDead` has made its last attempt
  (`LastAttempt`).
- `WorkersSafety!SettledByOwnerHolds`: if `StallAt = {}`, a job that is being
  processed is settled only by its own worker, or given up once its lease has
  lapsed. `mark_completed` and `mark_dead` match a row by its id alone, and
  `bug_stale_settles` shows what a late slot does with that; by this theorem it
  takes a late slot.
- `WorkersSafety!AnswerKeptHolds`: with any accidents, a completed request shows a
  stored answer that fits its text, or the answer to its own text that `upsert`
  dropped, and then the cache has that of another prompt with the same digest. The
  invariant behind it: a slot works on its request's own text (`TextsAgree`); one that
  is past the lookup with an answer has a fitting one of the cache, or, past
  `upsert`, its own and an entry with its digest (`AnswersReady`); what completed
  requests show stays so, since nothing is ever removed from the cache (`AllKept`);
  and the cache has only answers to texts of requests (`Sourced`), which makes the
  entry in the dropped answer's place another prompt's.
- `WorkersSafety!PaidOnceHolds` (of stored answers; see section 3): if
  `StallAt = {}`, a slot is on its way to the
  LLM with a text whose answer is stored only if another prompt has a text with
  the same digest. It needs `LeaseHolder`: nobody else can store an answer for
  the prompt the slot owns.
- `LeaseTimingProofs!LeaseIsKept`, `CrashIsReclaimed`, `BusyIsReported`: for all
  settings and bounds that are `Timely`, the properties of `lease_timing`. The
  invariant is `TypeOK`, that no timer is later than `InTime` allows (`ClocksOK`),
  that a row being processed has a holder that runs it or was killed (`HolderOK`),
  and, if `Timely`, how old the lease may be after so many failures (`LeasesOK`:
  `Fresh` for a slot that runs, `Left` for one that was killed, `Watched` for the
  reaper). `LeaseIsKept` is what justifies the assumption `StallAt = {}` of the
  theorems above.
- `WorkerProcessProofs!ProcessTypeCorrect`, `ProcessEndsClean`: for any number of
  slots. A slot that has ended stays so (`EndsAreFinal`).
- `BackpressureProofs!DepthIsBounded`: for any finite numbers of prompts and calls
  and any limit. `DepthBound` alone is not inductive, as a call that has passed
  the check may still add a job; what is inductive is that the jobs admitted *and*
  the calls between check and insert are at most the limit and the other calls
  (`Committed`), given that rows come in pairs and only prompts with rows are
  enqueued again (`RowsThere`). What a handler's step does is taken from
  `ApiProofs!HandlerEffect`, which sums up the branches of `ApiStep` as
  eight kinds of steps, each with its effect on the handler's record and the rows.
- `RateLimiterProofs!LimiterTypeCorrect`: types, an accurate bucket and at most one
  grant per slot.
- `RateLimiterProofs!GuardBoundHolds`: the provider's own guard lets at most `Limit`
  calls through in any window. What is inductive (`GuardKept`): the deque has at most
  `Limit` entries, and as long as the observer's window is no longer than the guard's,
  the calls counted in it are the last ones the deque remembers; the loop that drops
  stale entries stops before the first of them (`LoopEnds`).
- `RateLimiterProofs!RateBoundHolds`: grants in any window are at most
  `Capacity + (now - start) + Spread`. The invariant bounds grants *plus what the
  bucket could still grant*; it needs `TtlAssumption` (an idle bucket is full
  before its key expires), without which expiry would mint tokens.

Of the composed system, `PromptSystemProofs` proves:

- `SystemTypeCorrect`: `SystemSpec => []SystemTypeOK`. Each side's types are kept by
  its own steps (`WorkersProofs!NextTypeOK`, `ApiProofs!HandlersKept`); what is new is
  that neither side makes a row disappear that the other counts on.
- `AnswersItsTextHolds`: with any accidents on both sides, a client is given an
  answer to its own text or one like it, unless its handler lost the insert race. The
  invariant says what a handler knows of its row by where it is: past the
  idempotency check the digests are equal, unless it was to insert and did not
  (`TextsMatch`); it is inductive with `TextsAgree`, `AnswersReady` and `AllKept`
  of the workers, since no handler changes a text or completes a request.
- `ForeignAnswersNeedRace`: if no two handlers are between check and insert of one
  prompt at a time (`NoInsertRace`), nobody is given the answer to another text, so
  the race of `bug_raced_text` is the only way to it.
- `NobodyStrandedHolds`, `ReplyStandsHolds`, `KeepsPromiseHolds`: no request waits for a
  finished job, what a client was told stays true, and the system implements
  `PromptQueue` (see below).
- `OneHandlerSettles`: all three with one handler at a time, nothing asked of clients.

The last four have two premises, each of which is needed: a run or an observation
of section 3 shows what happens without it.

- `SettlesCleanly` is about the accidents: heartbeats are in time (`StallAt = {}`);
  nothing crashes and no statement raises at `finishJob`, `markFailed` or `resetJob`,
  the second halves of what takes two transactions; no heartbeat fires at
  `markFailed`; and a slot that has siblings in its process is not ended by a
  database error, since the TaskGroup would cancel them wherever they are. Anything
  else may go wrong anywhere. `system_promise` meets it.
- `OneReenqueue`, a condition on behaviours: no two handlers enqueue the same prompt
  again at the same time. Posting a prompt from many handlers is allowed.

The inductive invariant behind them, `SettleInv`, relates the two rows of a prompt
to whoever is between the transactions. A job that is queued, or completed, has a
request that says the same; a job being processed has a queued request, or a slot at
`finishJob`; a dead job has a failed request, or a queued one with a slot at
`markFailed` or a handler at `resetJob` (`RowAgrees`). The rest says what each slot and
each handler counts on (`SlotAgrees`, `CallAgrees`). `NobodyStranded` alone is not
inductive: a slot at `markFailed` may fail the request only because nobody else is
about to fail it or to reset its job. Most steps touch one prompt, so one lemma
(`OthersAgree`) carries what everybody else counts on over any step that writes the
rows of some prompts, moves some slots and some handlers; each action then shows the
agreement of what it changed. TLC checked `SettleInv` before it was proved, on
`system_promise`, on `system_calls` and with two handlers under the constraint
`OneReenqueue` (1.95 million states).

For the refinement `HoldersInv` says that `HolderOf(p)` is the one slot that works on
`p`. Claiming is `Take`; `mark_completed` of the *request* is `Answer` and `mark_failed`
of it is `GiveUp`; the reaper's second UPDATE is `Expire`, of prompts that nobody
holds; `insert_with_job` and the `update_status` of a re-enqueue are `Submit`; every
other step changes no outcome and no answer, and is the `Drop` of the slots that let
go, if any.

The constants' assumptions only give types and ranges (`LeaseTimingAssumption`:
clocks within `Spread`; `BackpressureAssumption`: finite sets and at least one
call), except `TtlAssumption`, which the defaults meet: 300 tokens at 5 per
second refill in 60 s, `EXPIRE` is 120 s. `Timely` is no assumption but a premise
of the properties.

Only model-checked: `EverySettled`, `EveryCallReplied`, `ShutdownDrains` and
`FailureSurfaces`, which are liveness under fairness and out of the prover's reach.
Every safety property of the passing runs is proved, from the premises named above.

## 5. What is not modelled

- The HTTP layer of `api/` (routing, validation, the wording of replies): a reply is
  a row's status and response, 409, 429 or 500.
- `resolved_prompt_id`, a pure hash of user and text for clients that send no id.
  Prompt ids are given; two users share one only if the seed `user:text` is the
  same, which a `:` in a user id makes possible.
- Embeddings (floating-point vectors; the relation `Near` stands for them), metrics,
  logging, migrations, response formatting, and of the health check the probes of
  PostgreSQL and Redis: they keep no state that another part reads.
- Reading the environment into `config.py`: the settings are constants, any value.
- Time as a quantity in `Workers` and `Api`; `LeaseTiming` has it, for one job.
- Unused code: `insert` of both repositories, the job repository's `mark_failed`,
  `ListenNotify.listen`/`unlisten`, and the tests' `InMemoryTokenBucketLimiter`.

## 6. Plan

Done: the modules of section 2, the runs of section 3 and the proofs of section 4.
What is left to prove: that `Workers` implements `Backpressure`'s `WorkersWrite`, so that
`DepthIsBounded` is a theorem of the composed system; `NoStranded` of `Workers` on its
own, which `NobodyStrandedHolds` has for the composed system; and that a process whose
slots fail one at a time, none of them beside a running pipeline, exits
(`bug_fail_fast` has the other case).
