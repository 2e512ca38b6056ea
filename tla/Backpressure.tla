---------------------------- MODULE Backpressure ----------------------------
(***************************************************************************)
(* Admission to the queue: the handlers of module Api over any number of   *)
(* prompt ids, and of the workers only what the handlers can notice.       *)
(* Every action of module Workers is one or two steps of WorkersWrite, so  *)
(* what holds here holds with the workers as they are.                     *)
(***************************************************************************)
EXTENDS Api

CONSTANTS RequestWrites, JobWrites    \* bounds: the statuses workers write

ASSUME BackpressureAssumption ==
    /\ IsFiniteSet(Prompts)
    /\ IsFiniteSet(Calls) /\ Calls # {}
    /\ RequestWrites \subseteq RequestStatus
    /\ JobWrites \subseteq JobStatus

VARIABLE finished    \* history: the prompts whose job was ever finished

vars == <<request, job, cache, call, finished>>

Finished == {"completed", "dead"}
Unfinished == {"queued", "processing"}

Init ==
    /\ request = [p \in Prompts |-> NoRequest]
    /\ job = [p \in Prompts |-> NoJob]
    /\ cache = {}
    /\ ApiInit
    /\ finished = {}

\* A worker or the reaper writes a job or a request, or wakes the callers.  A
\* job may come back from any status: release_lease compares worker_id only,
\* and mark_completed and mark_dead leave it in the row.
WorkersWrite(p) ==
    /\ job[p].status # "absent"
    /\ \/ /\ \E s \in JobWrites : job' = [job EXCEPT ![p].status = s]
          /\ UNCHANGED <<request, call>>
       \/ /\ \E s \in RequestWrites : request' = [request EXCEPT ![p].status = s]
          /\ UNCHANGED <<job, call>>
       \/ /\ call' = Woken(p)
          /\ UNCHANGED <<request, job>>
    /\ UNCHANGED cache

Next ==
    /\ \/ \E c \in Calls : ApiStep(c)
       \/ \E p \in Prompts : WorkersWrite(p)
    /\ finished' = finished \cup {p \in Prompts : job'[p].status \in Finished}

Spec == Init /\ [][Next]_vars

-----------------------------------------------------------------------------
(* Properties                                                              *)

\* Rows and handlers have their types, and a handler past its check has a prompt.
TypeOK ==
    /\ request \in [Prompts -> RequestRow]
    /\ job \in [Prompts -> JobRow]
    /\ cache \subseteq Texts
    /\ call \in [Calls -> CallState]
    /\ finished \subseteq Prompts
    /\ \A c \in Calls : call[c].pc # "idle" => call[c].prompt \in Prompts

\* Admitted by the depth check: in the queue for the first time.
Admitted == {p \in Prompts : job[p].status \in Unfinished} \ finished

\* The count and the insert are two transactions, so the depth check is not
\* exact; but what it admits exceeds the limit by less than the number of calls
\* that run at a time, however they and the workers interleave.  (What clients
\* enqueue again is not subject to it.)
DepthBound == Cardinality(Admitted) <= MaxDepth + Cardinality(Calls) - 1
=============================================================================
