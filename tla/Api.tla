-------------------------------- MODULE Api ---------------------------------
(***************************************************************************)
(* The API side: calls of POST /process, each of which runs                *)
(* PromptProcessor.submit_and_wait step by step.  Every awaited call to    *)
(* PostgreSQL ends a step, so two calls and the workers interleave between *)
(* the idempotency check and what is done about it, between the two        *)
(* transactions of a re-enqueue, and between the pre-check and LISTEN.     *)
(* GET /result is a read of a request's row and has no state of its own.   *)
(***************************************************************************)
EXTENDS Tables, FiniteSets

CONSTANTS
    Calls,         \* handlers of POST /process that may run at a time
    Submissions,   \* the bodies clients post: prompt id, text and priority
    MaxDepth,      \* settings.max_queue_depth
    ApiFailAt      \* the calls at which a handler may be lost: the statement
                   \* raises (answered with 500) or the API process is killed

\* Where a handler is, by the await it is about to make.
Busy == {"check", "reread", "depth", "insert", "refetch", "requeueRequest",
         "resetJob", "precheck", "listen", "wakeWorkers", "wait", "poll", "final"}

ApiPcs == Busy \cup {"idle"}

\* IdempotencyAction, with "none" before the decision.
Actions == {"none", "insert_new", "return_existing", "await_existing", "reenqueue"}

ASSUME ApiAssumption ==
    /\ Submissions \subseteq [prompt: Prompts, text: Texts, priority: Priority]
    /\ MaxDepth \in Nat
    /\ ApiFailAt \subseteq Busy

VARIABLE call    \* by handler: where it is, its locals and its last reply

apiVars == <<request, job, cache, call>>

-----------------------------------------------------------------------------
(* A handler's state.  notify is should_notify, woken whether the future of *)
(* prepared_listener has its result, late whether the deadline has passed.  *)

\* 200 with the row's status and response, 409, 429 or 500.
Replies ==
    [code: {"ok"}, status: RequestStatus \cup {"absent"}, response: Texts \cup {None}]
        \cup [code: {"none", "conflict", "full", "error"}, status: {"absent"},
              response: {None}]

CallState ==
    [pc: ApiPcs, prompt: Prompts \cup {None}, text: Texts \cup {None},
     priority: Priority, action: Actions, notify: BOOLEAN, woken: BOOLEAN,
     late: BOOLEAN, reply: Replies]

Bare(code) == [code |-> code, status |-> "absent", response |-> None]

IdleCall ==
    [pc |-> "idle", prompt |-> None, text |-> None, priority |-> 2,
     action |-> "none", notify |-> FALSE, woken |-> FALSE, late |-> FALSE,
     reply |-> Bare("none")]

At(c, label) == call[c].pc = label

Proceed(c, label) == call' = [call EXCEPT ![c].pc = label]

Return(c, reply) ==
    call' = [call EXCEPT ![c] =
        [@ EXCEPT !.pc = "idle", !.woken = FALSE, !.late = FALSE, !.reply = reply]]

\* The row as get_by_prompt_id returns it, and as _to_response shows it.
Row(c) == request[call[c].prompt]
ReturnRow(c) ==
    Return(c, [code |-> "ok", status |-> Row(c).status, response |-> Row(c).response])

\* prompt_done_<id> is listened to from add_listener to the end of the wait.
Listening(c) == call[c].pc \in {"wakeWorkers", "wait", "poll"}

\* The calls after a worker's NOTIFY prompt_done_<id> for p has arrived.
Woken(p) ==
    [c \in Calls |-> IF Listening(c) /\ call[c].prompt = p
                     THEN [call[c] EXCEPT !.woken = TRUE] ELSE call[c]]

-----------------------------------------------------------------------------
(* PromptProcessor.submit_and_wait                                         *)

\* A handler takes the next request.
Submit(c) ==
    /\ At(c, "idle")
    /\ \E body \in Submissions :
          call' = [call EXCEPT ![c] =
              [IdleCall EXCEPT !.pc = "check", !.prompt = body.prompt,
                               !.text = body.text, !.priority = body.priority]]
    /\ UNCHANGED tables

\* Mutant of Conflicts: the digests are not compared.
ConflictsNever(c) == FALSE

\* The prompt id is taken, with another text_hash.
Conflicts(c) ==
    Row(c).status # "absent" /\ HashOf[Row(c).text] # HashOf[call[c].text]

\* The decision table of IdempotencyService.check, by the row's status.
Decision ==
    [absent |-> "insert_new", completed |-> "return_existing",
     queued |-> "await_existing", failed |-> "reenqueue"]

\* The first call that submit_and_wait makes on each decision.
Branch ==
    [insert_new |-> "depth", return_existing |-> "reread",
     await_existing |-> "precheck", reenqueue |-> "requeueRequest"]

\* IdempotencyService.check.
Check(c) ==
    /\ At(c, "check")
    /\ \/ Conflicts(c) /\ Return(c, Bare("conflict"))
       \/ /\ ~Conflicts(c)
          /\ call' = [call EXCEPT ![c].action = Decision[Row(c).status],
                                 ![c].pc = Branch[Decision[Row(c).status]]]
    /\ UNCHANGED tables

\* RETURN_EXISTING: the latest row, whatever its status is by now.
Reread(c) ==
    /\ At(c, "reread")
    /\ ReturnRow(c)
    /\ UNCHANGED tables

\* Mutant of InFlight: jobs being processed are not counted.
InFlightQueued == {p \in Prompts : job[p].status = "queued"}

\* What queued_depth counts.
InFlight == {p \in Prompts : job[p].status \in {"queued", "processing"}}

\* Backpressure, a transaction before the insert.
CheckDepth(c) ==
    /\ At(c, "depth")
    /\ \/ Cardinality(InFlight) >= MaxDepth /\ Return(c, Bare("full"))
       \/ Cardinality(InFlight) < MaxDepth /\ Proceed(c, "insert")
    /\ UNCHANGED tables

\* Mutant of InsertedJob: the transaction ends after the request's row.
InsertedJobLater(c) == job

\* The second half of insert_with_job's transaction.
InsertedJob(c) == [job EXCEPT ![call[c].prompt] = NewJob(call[c].priority)]

\* insert_with_job, or IntegrityError if somebody else inserted the prompt id.
Insert(c) ==
    /\ At(c, "insert")
    /\ \/ /\ Row(c).status = "absent"
          /\ request' = [request EXCEPT ![call[c].prompt] = NewRequest(call[c].text)]
          /\ job' = InsertedJob(c)
          /\ call' = [call EXCEPT ![c].pc = "precheck", ![c].notify = TRUE]
       \/ /\ Row(c).status # "absent"
          /\ Proceed(c, "refetch")
          /\ UNCHANGED <<request, job>>
    /\ UNCHANGED cache

\* The loser of the race fetches the winner's row.
Refetch(c) ==
    /\ At(c, "refetch")
    /\ Proceed(c, "precheck")
    /\ UNCHANGED tables

\* REENQUEUE: update_status, then reset_job, on what the check has seen.
RequeueRequest(c) ==
    /\ At(c, "requeueRequest")
    /\ request' = [request EXCEPT ![call[c].prompt] = QueuedRequest(@)]
    /\ Proceed(c, "resetJob")
    /\ UNCHANGED <<job, cache>>

ResetItsJob(c) ==
    /\ At(c, "resetJob")
    /\ job' = [job EXCEPT ![call[c].prompt] = ResetJob(@)]
    /\ call' = [call EXCEPT ![c].pc = "precheck", ![c].notify = TRUE]
    /\ UNCHANGED <<request, cache>>

Precheck(c) ==
    /\ At(c, "precheck")
    /\ \/ Terminal(call[c].prompt) /\ ReturnRow(c)
       \/ ~Terminal(call[c].prompt) /\ Proceed(c, "listen")
    /\ UNCHANGED tables

\* Entering prepared_listener.
Listen(c) ==
    /\ At(c, "listen")
    /\ Proceed(c, IF call[c].notify THEN "wakeWorkers" ELSE "wait")
    /\ UNCHANGED tables

\* NOTIFY job_queued.  Idle workers poll, so nothing depends on its arrival.
WakeWorkers(c) ==
    /\ At(c, "wakeWorkers")
    /\ Proceed(c, "wait")
    /\ UNCHANGED tables

\* Mutants of Wait: the loop waits for the notification without a time limit;
\* the deadline is not looked at.
WaitForNotify(c) ==
    /\ At(c, "wait")
    /\ \/ call[c].late /\ Proceed(c, "final")
       \/ ~call[c].late /\ call[c].woken /\ Proceed(c, "poll")
    /\ UNCHANGED tables
WaitForever(c) ==
    /\ At(c, "wait")
    /\ Proceed(c, "poll")
    /\ UNCHANGED tables

\* One turn of the loop: wait_notify returns because the future has its result
\* or after a second, if the deadline has not passed.  So woken only decides how
\* soon: a notification that is lost delays the handler and changes nothing else.
Wait(c) ==
    /\ At(c, "wait")
    /\ \/ call[c].late /\ Proceed(c, "final")
       \/ ~call[c].late /\ Proceed(c, "poll")
    /\ UNCHANGED tables

Poll(c) ==
    /\ At(c, "poll")
    /\ \/ Terminal(call[c].prompt) /\ ReturnRow(c)
       \/ ~Terminal(call[c].prompt) /\ Proceed(c, "wait")
    /\ UNCHANGED tables

\* The deadline has passed: the row in whatever state it is.
FinalRead(c) ==
    /\ At(c, "final")
    /\ ReturnRow(c)
    /\ UNCHANGED tables

\* time.monotonic() passes the deadline.
Deadline(c) ==
    /\ call[c].pc \in {"listen", "wakeWorkers", "wait", "poll"}
    /\ ~call[c].late
    /\ call' = [call EXCEPT ![c].late = TRUE]
    /\ UNCHANGED tables

\* A statement raises, or the process is killed; what was committed stays.
CallLost(c) ==
    /\ call[c].pc \in ApiFailAt
    /\ Return(c, Bare("error"))
    /\ UNCHANGED tables

CallStep(c) ==
    \/ Check(c) \/ Reread(c) \/ CheckDepth(c) \/ Insert(c) \/ Refetch(c)
    \/ RequeueRequest(c) \/ ResetItsJob(c) \/ Precheck(c) \/ Listen(c)
    \/ WakeWorkers(c) \/ Wait(c) \/ Poll(c) \/ FinalRead(c)

ApiInit == call = [c \in Calls |-> IdleCall]

ApiStep(c) == Submit(c) \/ CallStep(c) \/ Deadline(c) \/ CallLost(c)
=============================================================================
