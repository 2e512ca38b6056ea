--------------------------- MODULE WorkerProcess ----------------------------
(***************************************************************************)
(* One worker process from asyncio.gather(pool.run(), reaper.run()) to its *)
(* end: the tasks of its slots, their cancellation by the TaskGroup, the   *)
(* shutdown event, and what ends the process.                              *)
(*                                                                         *)
(* A slot is at the await it is suspended in; what it does between two     *)
(* awaits is one step.  The jobs themselves are in module Workers.         *)
(***************************************************************************)
EXTENDS Integers

CONSTANT Slots      \* range(settings.worker_concurrency)

VARIABLES
    shutdown,   \* shutdown_event.is_set()
    pc,         \* by slot: the await it is suspended in, or how it ended
    beat,       \* by slot: whether its heartbeat task is running
    aborted,    \* by slot: pipeline_aborted
    raised,     \* by slot: the pipeline raised, to be raised again after finally
    aborting,   \* the TaskGroup has cancelled its tasks
    main        \* "gather", then "closing" in main's finally, then "exited"

slotVars == <<pc, beat, aborted, raised>>
vars == <<shutdown, pc, beat, aborted, raised, aborting, main>>

\* The awaits of a slot: claim_next; connecting, listening and disconnecting in
\* wait_for_notification; the pipeline's task; heartbeat.stop(); notify.
Awaits == {"claim", "connect", "listen", "disconnect", "pipeline", "stopBeat", "notify"}
Ends == {"returned", "failed", "cancelled"}

Init ==
    /\ shutdown = FALSE
    /\ pc = [s \in Slots |-> "claim"]
    /\ beat = [s \in Slots |-> FALSE]
    /\ aborted = [s \in Slots |-> FALSE]
    /\ raised = [s \in Slots |-> FALSE]
    /\ aborting = FALSE
    /\ main = "gather"

-----------------------------------------------------------------------------
(* WorkerPool._worker_loop and JobClaimer.next_job                         *)

\* Mutant of NextTurn: the event is not looked at.
NextTurnAlways == "claim"

\* Both loops look at the shutdown event before the next claim.
NextTurn == IF shutdown THEN "returned" ELSE "claim"

Move(s, from, to) ==
    /\ pc[s] = from
    /\ pc' = [pc EXCEPT ![s] = to]

\* What the slot's step leaves alone, if it is not about its job.
NoJobChange == UNCHANGED <<shutdown, beat, aborted, raised, aborting, main>>

\* A job: its pipeline and its heartbeat become tasks.
Claimed(s) ==
    /\ Move(s, "claim", "pipeline")
    /\ beat' = [beat EXCEPT ![s] = TRUE]
    /\ aborted' = [aborted EXCEPT ![s] = FALSE]
    /\ raised' = [raised EXCEPT ![s] = FALSE]
    /\ UNCHANGED <<shutdown, aborting, main>>

NothingToClaim(s) == Move(s, "claim", "connect") /\ NoJobChange

\* Nothing catches what claim_next raises: the slot's task fails.
ClaimRaises(s) == Move(s, "claim", "failed") /\ NoJobChange

Connected(s) == Move(s, "connect", "listen") /\ NoJobChange

\* next_job takes an exception of the wait for a timeout.
ConnectRaises(s) == Move(s, "connect", NextTurn) /\ NoJobChange

\* A notification, the timeout, or an exception of add_listener.
Heard(s) == Move(s, "listen", "disconnect") /\ NoJobChange

Disconnected(s) == Move(s, "disconnect", NextTurn) /\ NoJobChange

\* execute() returns, the failures it handled included, or raises what its
\* failure handling raised.
PipelineEnds(s) ==
    /\ Move(s, "pipeline", "stopBeat")
    /\ \E unhandled \in BOOLEAN : raised' = [raised EXCEPT ![s] = unhandled]
    /\ UNCHANGED <<shutdown, beat, aborted, aborting, main>>

\* Mutant of HeartbeatStopped: the task is cancelled only if the job was not.
HeartbeatStoppedUnlessAborted(s) ==
    /\ Move(s, "stopBeat", IF aborted[s] THEN NextTurn ELSE "notify")
    /\ beat' = [beat EXCEPT ![s] = @ /\ aborted[s]]
    /\ UNCHANGED <<shutdown, aborted, raised, aborting, main>>

\* The end of heartbeat.stop(); nobody is notified of an aborted job.
HeartbeatStopped(s) ==
    /\ Move(s, "stopBeat", IF aborted[s] THEN NextTurn ELSE "notify")
    /\ beat' = [beat EXCEPT ![s] = FALSE]
    /\ UNCHANGED <<shutdown, aborted, raised, aborting, main>>

\* The notification is sent or not; then what the pipeline raised is raised.
Notified(s) ==
    /\ Move(s, "notify", IF raised[s] THEN "failed" ELSE NextTurn)
    /\ NoJobChange

\* HeartbeatManager._run finds the lease lost: it ends, and cancels the pipeline
\* if that is not done.
LeaseLost(s) ==
    /\ beat[s]
    /\ beat' = [beat EXCEPT ![s] = FALSE]
    /\ IF pc[s] = "pipeline"
       THEN /\ pc' = [pc EXCEPT ![s] = "stopBeat"]
            /\ aborted' = [aborted EXCEPT ![s] = TRUE]
       ELSE UNCHANGED <<pc, aborted>>
    /\ UNCHANGED <<shutdown, raised, aborting, main>>

-----------------------------------------------------------------------------
(* asyncio.TaskGroup, as WorkerPool.run uses it                            *)

\* Where a slot goes on that is cancelled in an await.  wait_for_notification
\* returns None if it is listening; awaiting the pipeline cancels that and takes
\* it for a lost lease; heartbeat.stop() expects the CancelledError.
AfterCancel(await) ==
    CASE await = "listen"   -> "disconnect"
      [] await = "pipeline" -> "stopBeat"
      [] await = "stopBeat" -> "stopBeat"
      [] await \in Ends     -> await
      [] OTHER              -> "cancelled"

\* The first slot that fails has the others cancelled, once.
Abort ==
    /\ ~aborting
    /\ \E s \in Slots : pc[s] = "failed"
    /\ aborting' = TRUE
    /\ pc' = [s \in Slots |-> AfterCancel(pc[s])]
    /\ aborted' = [s \in Slots |-> aborted[s] \/ pc[s] = "pipeline"]
    /\ UNCHANGED <<shutdown, beat, raised, main>>

PoolDone == \A s \in Slots : pc[s] \in Ends

\* Mutants of PoolRaises: the exception does not wait for the other slots, as
\* with gather; or is not raised while one slot did not fail.
PoolRaisesAtOnce ==
    /\ main = "gather"
    /\ aborting
    /\ main' = "closing"
    /\ UNCHANGED <<shutdown, slotVars, aborting>>
PoolRaisesIfAllFail ==
    /\ main = "gather"
    /\ \A s \in Slots : pc[s] = "failed"
    /\ aborting
    /\ main' = "closing"
    /\ UNCHANGED <<shutdown, slotVars, aborting>>

\* run() raises the ExceptionGroup when the last slot has ended, and gather
\* raises it at once.  If no slot failed run() returns, and gather goes on
\* waiting for the reaper, whose loop has no other end than its cancellation.
PoolRaises ==
    /\ main = "gather"
    /\ PoolDone
    /\ aborting
    /\ main' = "closing"
    /\ UNCHANGED <<shutdown, slotVars, aborting>>

-----------------------------------------------------------------------------
(* ShutdownHandler and main                                                *)

OnSignal ==
    /\ main # "exited"
    /\ shutdown' = TRUE
    /\ UNCHANGED <<slotVars, aborting, main>>

\* main's finally has closed the connections, and asyncio.run has cancelled what
\* is left: the reaper, which breaks out of its loop.
MainEnds ==
    /\ main = "closing"
    /\ main' = "exited"
    /\ UNCHANGED <<shutdown, slotVars, aborting>>

SlotStep(s) ==
    \/ Claimed(s) \/ NothingToClaim(s) \/ ClaimRaises(s)
    \/ Connected(s) \/ ConnectRaises(s) \/ Heard(s) \/ Disconnected(s)
    \/ PipelineEnds(s) \/ HeartbeatStopped(s) \/ Notified(s)

Next ==
    \/ \E s \in Slots : SlotStep(s) \/ LeaseLost(s)
    \/ Abort \/ PoolRaises
    \/ OnSignal \/ MainEnds

Spec == Init /\ [][Next]_vars

\* Every await of a slot ends (database, provider and Redis answer or fail), and
\* the event loop runs what is ready.
FairSpec ==
    /\ Spec
    /\ \A s \in Slots : WF_vars(SlotStep(s))
    /\ WF_vars(Abort) /\ WF_vars(PoolRaises) /\ WF_vars(MainEnds)

-----------------------------------------------------------------------------
(* Properties                                                              *)

\* The state has its type, and a heartbeat task exists only while its job's
\* pipeline runs or is being cleaned up after: however a slot ends, none is left
\* to extend the lease of a job nobody runs.
TypeOK ==
    /\ shutdown \in BOOLEAN
    /\ pc \in [Slots -> Awaits \cup Ends]
    /\ beat \in [Slots -> BOOLEAN]
    /\ aborted \in [Slots -> BOOLEAN]
    /\ raised \in [Slots -> BOOLEAN]
    /\ aborting \in BOOLEAN
    /\ main \in {"gather", "closing", "exited"}
    /\ \A s \in Slots : beat[s] => pc[s] \in {"pipeline", "stopBeat"}

\* A slot ends cancelled only if another failed, and main closes the connections
\* to the database and Redis only when no slot, and no heartbeat, uses them.
NothingLeftBehind ==
    /\ \A s \in Slots : pc[s] = "cancelled" => \E v \in Slots : pc[v] = "failed"
    /\ main # "gather" => PoolDone /\ \A s \in Slots : ~beat[s]

\* pool.py: "Workers finish their current job" and exit when the event is set,
\* slots that were aborted, cancelled or interrupted in a wait included.
ShutdownDrains == shutdown ~> PoolDone

\* A failure is not swallowed: once the slots are to end, the process does, by
\* an exception, instead of waiting for the reaper for ever.
FailureSurfaces == (shutdown /\ aborting) ~> main = "exited"

\* pool.py: "If any worker task raises an unhandled exception, TaskGroup cancels
\* all sibling tasks and raises an ExceptionGroup.  The process exits".
FailFast == aborting ~> main = "exited"
=============================================================================
