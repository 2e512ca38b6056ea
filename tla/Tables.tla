------------------------------- MODULE Tables -------------------------------
(***************************************************************************)
(* The three PostgreSQL tables every process shares - prompt_requests,     *)
(* processing_jobs and semantic_cache - and what each repository method    *)
(* writes to them.  A repository method is one transaction, so each is an  *)
(* operator from a row to the row after the UPDATE; the modules that       *)
(* extend this one say who runs it and when.                               *)
(*                                                                         *)
(* A request and its job are created together and are one to one           *)
(* (UNIQUE(prompt_id), UNIQUE(prompt_request_id)), so both tables are      *)
(* functions of the prompt id.  Columns that no decision reads             *)
(* (timestamps kept for display, error texts, retry_count, hit_count,      *)
(* embeddings, user_id, cached) are left out.  Time is left out too:       *)
(* locked_until becomes a lease that is live until it has lapsed, and      *)
(* scheduled_at becomes the flag "due".                                    *)
(***************************************************************************)
EXTENDS Integers

CONSTANTS
    Prompts,      \* prompt ids
    Workers,      \* worker_id values, one per worker slot of every process
    Texts,        \* prompt texts; a response is named by the text it answers
    Hashes,       \* sha256 digests of normalised texts
    HashOf,       \* SemanticCacheService.hash_text
    Near,         \* pairs of texts with cosine similarity above the threshold
    MaxAttempts,  \* settings.max_job_attempts, stored in every job row
    None          \* SQL NULL

ASSUME TablesAssumption ==
    /\ HashOf \in [Texts -> Hashes]
    /\ Near \in SUBSET (Texts \X Texts)
    /\ MaxAttempts \in Nat \ {0}
    /\ None \notin Workers
    /\ None \notin Texts
    /\ None \notin Prompts

VARIABLES
    request,      \* prompt_requests, by prompt id
    job,          \* processing_jobs, by the prompt id of their request
    cache         \* semantic_cache: the texts whose answers are stored

tables == <<request, job, cache>>

-----------------------------------------------------------------------------
(* Row types                                                               *)

\* "processing" is a member of the enumeration, but no statement of the
\* program writes it (or "received") to prompt_requests.
RequestStatus == {"queued", "completed", "failed"}

\* JobStatus.FAILED is a member as well; its only writer, the repository's
\* mark_failed, has no caller.
JobStatus == {"queued", "processing", "completed", "dead"}

Priority == 1..3

\* A prompt id that was never submitted has the status "absent" in both tables.
RequestRow ==
    [status: RequestStatus \cup {"absent"}, text: Texts \cup {None},
     response: Texts \cup {None}]

\* lease abstracts locked_until: "null" is NULL, "live" a time still to come,
\* "lapsed" a time the reaper's clock has passed.  due abstracts
\* scheduled_at <= now.
JobRow ==
    [status: JobStatus \cup {"absent"}, owner: Workers \cup {None}, attempts: Nat,
     due: BOOLEAN, lease: {"null", "live", "lapsed"}, priority: Priority]

Terminal(p) == request[p].status \in {"completed", "failed"}

-----------------------------------------------------------------------------
(* prompt_requests                                                         *)

\* A prompt id without a row.
NoRequest == [status |-> "absent", text |-> None, response |-> None]

\* Mutant of NewRequest: the status is left to the column's first value.
NewRequestReceived(t) == [status |-> "received", text |-> t, response |-> None]

\* The row that PromptProcessor builds and insert_with_job stores.
NewRequest(t) == [status |-> "queued", text |-> t, response |-> None]

\* PromptRequestRepository.update_status(row_id, QUEUED, ...): the response of
\* an earlier completion stays in the row.
QueuedRequest(r) == [r EXCEPT !.status = "queued"]

\* PromptRequestRepository.mark_completed.
CompletedRequest(r, answer) ==
    [r EXCEPT !.status = "completed", !.response = answer]

\* PromptRequestRepository.mark_failed.
FailedRequest(r) == [r EXCEPT !.status = "failed"]

-----------------------------------------------------------------------------
(* processing_jobs                                                         *)

NoJob ==
    [status |-> "absent", owner |-> None, attempts |-> 0,
     due |-> FALSE, lease |-> "null", priority |-> 2]

\* The job row inserted next to its request.
NewJob(prio) ==
    [status |-> "queued", owner |-> None, attempts |-> 0,
     due |-> TRUE, lease |-> "null", priority |-> prio]

\* Mutant of Claimable: the status filter admits rows that are taken.
ClaimableWhileProcessing(p) ==
    job[p].status \in {"queued", "processing"} /\ job[p].due

\* The WHERE clause of claim_next.
Claimable(p) == job[p].status = "queued" /\ job[p].due

\* ORDER BY priority, scheduled_at LIMIT 1 FOR UPDATE SKIP LOCKED: rows of
\* equal priority are told apart only by scheduled_at, which is abstracted, so
\* any of them may come first.
FirstInQueue(p) ==
    /\ Claimable(p)
    /\ \A q \in Prompts : Claimable(q) => job[p].priority <= job[q].priority

\* The UPDATE of claim_next.
ClaimedJob(r, w) ==
    [r EXCEPT !.status = "processing", !.owner = w,
              !.lease = "live", !.attempts = @ + 1]

\* The rows that extend_lease's UPDATE matches.
HoldsLease(r, w) == r.owner = w /\ r.status = "processing"

ExtendedJob(r) == [r EXCEPT !.lease = "live"]

\* Mutant of MayRelease: the ownership check of "MUST FIX #3" is missing.
MayReleaseAnyones(r, w) == r.status = "processing"

\* The rows that release_lease's UPDATE matches: it compares worker_id only,
\* not the status.
MayRelease(r, w) == r.owner = w

\* Every caller passes a positive retry_after_seconds.
ReleasedJob(r) ==
    [r EXCEPT !.status = "queued", !.owner = None,
              !.lease = "null", !.due = FALSE]

\* mark_completed and mark_dead: found by id alone; worker_id stays.
CompletedJob(r) == [r EXCEPT !.status = "completed", !.lease = "null"]
DeadJob(r) == [r EXCEPT !.status = "dead", !.lease = "null"]

\* Mutant of ResetJob: only jobs with the status "failed", which is never
\* written, are reset.
ResetJobIfFailed(r) ==
    IF r.status = "failed"
    THEN [r EXCEPT !.status = "queued", !.owner = None, !.attempts = 0,
                   !.lease = "null", !.due = TRUE]
    ELSE r

\* reset_job: found by request id alone, whatever its status.
ResetJob(r) ==
    [r EXCEPT !.status = "queued", !.owner = None, !.attempts = 0,
              !.lease = "null", !.due = TRUE]

\* Mutants of Expired: locked_until is not compared; the second UPDATE, for
\* jobs whose attempts are used up, is missing.
ExpiredAlways(r) == r.status = "processing"
ExpiredRetryable(r) ==
    r.status = "processing" /\ r.lease = "lapsed" /\ r.attempts < MaxAttempts

\* The rows reap_expired_leases looks at.
Expired(r) == r.status = "processing" /\ r.lease = "lapsed"

\* The two UPDATEs of reap_expired_leases.  The second one leaves worker_id
\* and locked_until as they are.
ReapedJob(r) ==
    IF r.attempts < MaxAttempts
    THEN [r EXCEPT !.status = "queued", !.owner = None, !.lease = "null"]
    ELSE [r EXCEPT !.status = "dead"]

\* The request row is synchronised whatever its status was.
ReapedRequest(q, r) ==
    IF r.attempts < MaxAttempts THEN QueuedRequest(q) ELSE FailedRequest(q)

-----------------------------------------------------------------------------
(* semantic_cache                                                          *)

\* find_exact.
ExactEntries(t) == {u \in cache : HashOf[u] = HashOf[t]}

\* find_nearest: an entry above the threshold.
NearEntries(t) == {u \in cache : <<t, u>> \in Near}

\* Mutant of Upserted: ON CONFLICT (text_hash) DO UPDATE.
UpsertedLast(t) == (cache \ ExactEntries(t)) \cup {t}

\* upsert: INSERT ... ON CONFLICT (text_hash) DO NOTHING.  The entry of another
\* spelling stays, and the answer to t is dropped.
Upserted(t) == IF ExactEntries(t) = {} THEN cache \cup {t} ELSE cache

-----------------------------------------------------------------------------
\* insert_with_job is one transaction and nothing deletes rows, so a request
\* and its job exist together.
RowsPaired ==
    \A p \in Prompts :
        /\ request[p].status = "absent" <=> job[p].status = "absent"
        /\ request[p].status # "absent" => request[p].text \in Texts

TablesTypeOK ==
    /\ request \in [Prompts -> RequestRow]
    /\ job \in [Prompts -> JobRow]
    /\ cache \in SUBSET Texts
    /\ RowsPaired
=============================================================================
