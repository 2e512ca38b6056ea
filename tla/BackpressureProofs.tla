------------------------- MODULE BackpressureProofs -------------------------
(***************************************************************************)
(* How far the queue can grow past its limit, for any finite number of     *)
(* prompts and of concurrent calls and any limit.                          *)
(***************************************************************************)
EXTENDS Backpressure, ApiProofs, FiniteSetTheorems

USE TablesAssumption, ApiAssumption, BackpressureAssumption
    DEF TablesAssumption, ApiAssumption, BackpressureAssumption

\* Past the depth check, with the insert still to come.
Inserting == {c \in Calls : At(c, "insert")}

\* DepthBound alone is not inductive: the calls that have passed the check may
\* still add one job each.
Committed ==
    Cardinality(Admitted) + Cardinality(Inserting) <= MaxDepth + Cardinality(Calls) - 1

\* Only a prompt with rows is enqueued again, and a job that is no longer in the
\* queue has been finished.
RowsThere ==
    /\ \A p \in Prompts : (request[p].status = "absent") <=> (job[p].status = "absent")
    /\ \A p \in Prompts : job[p].status \in Finished => p \in finished
    /\ \A c \in Calls : call[c].pc \in {"requeueRequest", "resetJob"} =>
          request[call[c].prompt].status # "absent"

DepthInv == TypeOK /\ RowsThere /\ Committed

\* The sets are finite, and as large as their numbers.
LEMMA Finite ==
    /\ IsFiniteSet(Admitted) /\ Cardinality(Admitted) \in Nat
    /\ IsFiniteSet(Inserting) /\ Cardinality(Inserting) \in Nat
    /\ Cardinality(Inserting) <= Cardinality(Calls)
    /\ Cardinality(Calls) \in Nat \ {0}
    /\ Admitted \subseteq InFlight
    /\ IsFiniteSet(InFlight) /\ Cardinality(InFlight) \in Nat
    /\ Cardinality(Admitted) <= Cardinality(InFlight)
  <1>1. Admitted \subseteq InFlight /\ InFlight \subseteq Prompts /\ Inserting \subseteq Calls
    BY DEF Admitted, InFlight, Inserting, Unfinished
  <1>2. IsFiniteSet(Admitted) /\ IsFiniteSet(InFlight) /\ IsFiniteSet(Inserting)
    BY <1>1, FS_Subset
  <1>3. Cardinality(Admitted) <= Cardinality(InFlight)
    BY <1>1, <1>2, FS_Subset
  <1>4. Cardinality(Inserting) <= Cardinality(Calls)
    BY <1>1, FS_Subset
  <1>5. /\ Cardinality(Admitted) \in Nat /\ Cardinality(InFlight) \in Nat
        /\ Cardinality(Inserting) \in Nat /\ Cardinality(Calls) \in Nat
    BY <1>2, FS_CardinalityType
  <1>6. Cardinality(Calls) # 0
    BY FS_EmptySet
  <1> QED BY <1>1, <1>2, <1>3, <1>4, <1>5, <1>6

-----------------------------------------------------------------------------
(* Type correctness                                                        *)

\* The types of module Api's state, and those of the history.
LEMMA TypeParts == TypeOK <=> HandlersOK /\ finished \subseteq Prompts
  BY DEF TypeOK, HandlersOK

\* Type correctness is inductive.
LEMMA TypeStep ==
    ASSUME TypeOK, [Next]_vars
    PROVE  TypeOK'
  <1>1. CASE UNCHANGED vars
    BY <1>1 DEF TypeOK, vars
  <1>2. CASE Next
    <2>1. finished' \subseteq Prompts
      BY <1>2 DEF Next, TypeOK
    <2>2. ASSUME NEW c \in Calls, ApiStep(c) PROVE TypeOK'
      <3>1. HandlersOK
        BY TypeParts
      <3>2. PICK q \in CallState : call' = [call EXCEPT ![c] = q] /\ Handles(c, q)
        BY <2>2, <3>1, HandlerEffect
      <3>3. HandlersOK'
        BY <3>1, <3>2, HandlersKept
      <3> QED BY <2>1, <3>3 DEF TypeOK, HandlersOK
    <2>3. ASSUME NEW p \in Prompts, WorkersWrite(p) PROVE TypeOK'
      <3>1. /\ request' \in [Prompts -> RequestRow]
            /\ job' \in [Prompts -> JobRow]
            /\ cache' \subseteq Texts
        <4>1. ASSUME NEW s \in JobStatus PROVE [job[p] EXCEPT !.status = s] \in JobRow
          BY DEF TypeOK, JobRow
        <4>2. ASSUME NEW s \in RequestStatus
              PROVE  [request[p] EXCEPT !.status = s] \in RequestRow
          BY DEF TypeOK, RequestRow
        <4> QED BY <2>3, <4>1, <4>2 DEF WorkersWrite, TypeOK
      <3>2. CASE UNCHANGED call
        BY <2>1, <3>1, <3>2 DEF TypeOK
      <3>3. CASE call' = Woken(p)
        <4>1. /\ call' \in [Calls -> CallState]
              /\ \A c \in Calls : call'[c].pc = call[c].pc /\ call'[c].prompt = call[c].prompt
          BY <3>3, WokenCalls DEF TypeOK, SameBody
        <4> QED BY <2>1, <3>1, <4>1 DEF TypeOK
      <3> QED BY <2>3, <3>2, <3>3 DEF WorkersWrite
    <2> QED BY <1>2, <2>2, <2>3 DEF Next
  <1> QED BY <1>1, <1>2

-----------------------------------------------------------------------------
(* The bound                                                               *)

\* A step that admits nothing and brings no handler to its insert.
LEMMA NoMore ==
    ASSUME Committed, Admitted' \subseteq Admitted, Inserting' \subseteq Inserting
    PROVE  Committed'
  <1>1. /\ Cardinality(Admitted') <= Cardinality(Admitted)
        /\ Cardinality(Inserting') <= Cardinality(Inserting)
    BY Finite, FS_Subset
  <1>2. Cardinality(Admitted') \in Nat /\ Cardinality(Inserting') \in Nat
    BY Finite, FS_Subset, FS_CardinalityType
  <1> QED BY <1>1, <1>2, Finite DEF Committed

\* How a handler comes to a re-enqueue, and that its step is its own.
LEMMA ToRequeue ==
    ASSUME TypeOK, NEW c \in Calls, NEW q \in CallState,
           call' = [call EXCEPT ![c] = q], Handles(c, q)
    PROVE  /\ \A d \in Calls \ {c} : call'[d] = call[d]
           /\ call'[c].pc \in {"requeueRequest", "resetJob"} =>
                 /\ call'[c].prompt = call[c].prompt
                 /\ call[c].pc = "requeueRequest" \/ Row(c).status = "failed"
  <1>1. call'[c] = q /\ \A d \in Calls \ {c} : call'[d] = call[d]
    BY TypeParts, HandlersKept
  <1>2. ASSUME q.pc \in {"requeueRequest", "resetJob"}
        PROVE  /\ q.prompt = call[c].prompt
               /\ call[c].pc = "requeueRequest" \/ Row(c).status = "failed"
    <2>1. CASE Decides(c, q)
      BY <1>2, <2>1 DEF Decides, Decision, Branch, Handles, SameBody, Takes
    <2>2. CASE ~Decides(c, q)
      BY <1>2, <2>2 DEF Handles, SameBody, Takes, Refuses, ShowsRow, GoesOn, Inserts,
                        Requeues, Resets
    <2> QED BY <2>1, <2>2
  <1> QED BY <1>1, <1>2

\* What a handler's step does to the rows.
LEMMA ApiRows ==
    ASSUME TypeOK, RowsThere, NEW c \in Calls, NEW q \in CallState, Handles(c, q)
    PROVE  \/ UNCHANGED <<request, job>>
           \/ /\ Inserts(c, q)
              /\ call[c].prompt \in Prompts
              /\ \A p \in Prompts \ {call[c].prompt} :
                    request'[p] = request[p] /\ job'[p] = job[p]
              /\ request'[call[c].prompt].status = "queued"
              /\ job'[call[c].prompt].status = "queued"
           \/ /\ Requeues(c, q) \/ Resets(c, q)
              /\ \A p \in Prompts :
                    /\ request'[p] = request[p] \/ request'[p].status = "queued"
                    /\ job'[p] = job[p] \/ job'[p].status = "queued"
                    /\ request[p].status = "absent" =>
                          request'[p] = request[p] /\ job'[p] = job[p]
  <1>0. HandlersOK
    BY TypeParts
  <1>1. CASE Inserts(c, q)
    <2>1. /\ call[c].prompt \in Prompts
          /\ NewRequest(call[c].text).status = "queued"
          /\ NewJob(call[c].priority).status = "queued"
      BY <1>0, <1>1, BusyHandler, NewRows DEF Inserts
    <2> QED BY <1>1, <2>1 DEF Inserts, TypeOK
  <1>2. CASE Requeues(c, q)
    <2>1. call[c].prompt \in Prompts /\ request[call[c].prompt].status # "absent"
      BY <1>2 DEF Requeues, TypeOK, RowsThere
    <2>2. QueuedRequest(Row(c)).status = "queued"
      BY <2>1, NewRows DEF TypeOK, Row
    <2> QED BY <1>2, <2>1, <2>2 DEF Requeues, TypeOK
  <1>3. CASE Resets(c, q)
    <2>1. call[c].prompt \in Prompts /\ request[call[c].prompt].status # "absent"
      BY <1>3 DEF Resets, TypeOK, RowsThere
    <2>2. ResetJob(job[call[c].prompt]).status = "queued"
      BY <2>1, ResetRow DEF TypeOK
    <2> QED BY <1>3, <2>1, <2>2 DEF Resets, TypeOK
  <1> QED BY <1>1, <1>2, <1>3 DEF Handles, Takes, Refuses, ShowsRow, Decides, GoesOn, tables

\* What the workers' writes do, as far as handlers and the bound are concerned.
LEMMA WorkerRows ==
    ASSUME TypeOK, NEW p \in Prompts, WorkersWrite(p)
    PROVE  /\ \A q \in Prompts :
                 /\ (request[q].status = "absent" <=> job[q].status = "absent") =>
                       (request'[q].status = "absent" <=> job'[q].status = "absent")
                 /\ job[q].status = "absent" => job'[q].status = "absent"
                 /\ request'[q].status = "absent" => request[q].status = "absent"
           /\ \A c \in Calls : call'[c].pc = call[c].pc /\ call'[c].prompt = call[c].prompt
  <1>1. \A c \in Calls : call'[c].pc = call[c].pc /\ call'[c].prompt = call[c].prompt
    <2>1. TAKE c \in Calls
    <2>2. CASE UNCHANGED call
      BY <2>2
    <2>3. CASE call' = Woken(p)
      BY <2>3, WokenCalls DEF TypeOK, SameBody
    <2> QED BY <2>2, <2>3 DEF WorkersWrite
  <1>2. job[p].status # "absent"
    BY DEF WorkersWrite
  <1>3. ASSUME NEW s \in JobStatus, job' = [job EXCEPT ![p].status = s]
        PROVE  job'[p].status # "absent" /\ \A q \in Prompts \ {p} : job'[q] = job[q]
    BY <1>3 DEF TypeOK, JobRow, JobStatus
  <1>4. ASSUME NEW s \in RequestStatus, request' = [request EXCEPT ![p].status = s]
        PROVE  request'[p].status # "absent" /\ \A q \in Prompts \ {p} : request'[q] = request[q]
    BY <1>4 DEF TypeOK, RequestRow, RequestStatus
  <1>5. /\ UNCHANGED job \/ job'[p].status # "absent"
        /\ \A q \in Prompts \ {p} : job'[q] = job[q]
        /\ UNCHANGED request \/ request'[p].status # "absent"
        /\ \A q \in Prompts \ {p} : request'[q] = request[q]
    BY <1>3, <1>4 DEF WorkersWrite
  <1> QED BY <1>1, <1>2, <1>5

\* Requests and jobs stay together.
LEMMA RowsStep ==
    ASSUME TypeOK, RowsThere, [Next]_vars
    PROVE  RowsThere'
  <1>1. CASE UNCHANGED vars
    BY <1>1 DEF RowsThere, vars
  <1>2. CASE Next
    <2>1. \A p \in Prompts : job'[p].status \in Finished => p \in finished'
      BY <1>2 DEF Next
    <2>2. ASSUME NEW c \in Calls, ApiStep(c) PROVE RowsThere'
      <3>0. PICK q \in CallState : call' = [call EXCEPT ![c] = q] /\ Handles(c, q)
        BY <2>2, TypeParts, HandlerEffect
      <3>1. \A p \in Prompts :
               /\ request'[p].status = "absent" <=> job'[p].status = "absent"
               /\ request'[p].status = "absent" => request[p].status = "absent"
        BY <3>0, ApiRows DEF RowsThere, Inserts, Row
      <3>2. ASSUME NEW d \in Calls, call'[d].pc \in {"requeueRequest", "resetJob"}
            PROVE  request'[call'[d].prompt].status # "absent"
        <4>1. CASE d = c
          <5>1. /\ call'[c].prompt = call[c].prompt
                /\ call[c].pc = "requeueRequest" \/ Row(c).status = "failed"
            BY <3>0, <3>2, <4>1, ToRequeue
          <5>2. request[call[c].prompt].status # "absent"
            BY <5>1 DEF RowsThere, Row
          <5>3. call'[c].prompt \in Prompts
            BY <3>0, <3>2, <4>1, TypeParts, HandlersKept DEF HandlersOK
          <5> QED BY <3>1, <4>1, <5>1, <5>2, <5>3
        <4>2. CASE d # c
          <5>1. call'[d] = call[d]
            BY <3>0, <4>2, ToRequeue
          <5>2. request[call[d].prompt].status # "absent" /\ call[d].prompt \in Prompts
            BY <3>2, <5>1 DEF RowsThere, TypeOK
          <5> QED BY <3>1, <5>1, <5>2
        <4> QED BY <4>1, <4>2
      <3> QED BY <2>1, <3>1, <3>2 DEF RowsThere
    <2>3. ASSUME NEW p \in Prompts, WorkersWrite(p) PROVE RowsThere'
      <3>1. \A c \in Calls : call[c].pc \in {"requeueRequest", "resetJob"} =>
               call[c].prompt \in Prompts
        BY DEF TypeOK
      <3> QED BY <2>1, <2>3, <3>1, WorkerRows DEF RowsThere
    <2> QED BY <1>2, <2>2, <2>3 DEF Next
  <1> QED BY <1>1, <1>2

-----------------------------------------------------------------------------
(* The bound                                                               *)

\* A job that was there before a step is not admitted by it.
LEMMA Kept ==
    ASSUME TypeOK, RowsThere, Next, NEW p \in Admitted', job[p].status # "absent"
    PROVE  p \in Admitted
  <1>1. p \in Prompts /\ p \notin finished'
    BY DEF Admitted
  <1>2. p \notin finished
    BY <1>1 DEF Next
  <1>3. job[p].status \in JobStatus
    BY <1>1 DEF TypeOK, JobRow
  <1>4. job[p].status \notin Finished
    BY <1>1, <1>2 DEF RowsThere
  <1> QED BY <1>1, <1>2, <1>3, <1>4 DEF Admitted, Unfinished, Finished, JobStatus

\* Only the depth check lets a handler insert, and an insert is done once.
LEMMA InsertingStep ==
    ASSUME TypeOK, NEW c \in Calls, NEW q \in CallState,
           call' = [call EXCEPT ![c] = q], Handles(c, q)
    PROVE  \/ Inserting' \subseteq Inserting \ {c}
           \/ /\ GoesOn(c, q) /\ call[c].pc = "depth"
              /\ Cardinality(InFlight) < MaxDepth
  <1>1. call'[c] = q /\ \A d \in Calls \ {c} : call'[d] = call[d]
    BY TypeParts, HandlersKept
  <1>2. CASE q.pc # "insert"
    BY <1>1, <1>2 DEF Inserting, At
  <1>3. CASE q.pc = "insert"
    <2>1. ~Decides(c, q)
      BY <1>3 DEF Decides, Decision, Branch
    <2>2. GoesOn(c, q)
      BY <1>3, <2>1 DEF Handles, Takes, Refuses, ShowsRow, Inserts, Requeues, Resets
    <2> QED BY <1>3, <2>2 DEF GoesOn
  <1> QED BY <1>2, <1>3

\* Whoever passes the check has seen fewer than MaxDepth jobs, so that even if
\* all the calls are to insert next, the bound is kept; an insert turns one of
\* the calls that passed into one job.
LEMMA DepthStep ==
    ASSUME DepthInv, [Next]_vars
    PROVE  Committed'
  <1>1. CASE UNCHANGED vars
    BY <1>1 DEF DepthInv, Committed, Admitted, Inserting, At, vars
  <1>2. ASSUME Next, NEW c \in Calls, ApiStep(c) PROVE Committed'
    <2>1. TypeOK /\ RowsThere /\ Committed
      BY DEF DepthInv
    <2>0. PICK r \in CallState : call' = [call EXCEPT ![c] = r] /\ Handles(c, r)
      BY <1>2, <2>1, TypeParts, HandlerEffect
    <2>2. CASE UNCHANGED <<request, job>> \/ Requeues(c, r) \/ Resets(c, r)
      <3>1. Admitted' \subseteq Admitted
        <4> SUFFICES ASSUME NEW p \in Admitted' PROVE job[p].status # "absent"
          BY <1>2, <2>1, Kept
        <4>1. p \in Prompts /\ job'[p].status \in Unfinished
          BY DEF Admitted
        <4>2. request[p].status = "absent" => job'[p] = job[p]
          BY <2>0, <2>1, <2>2, <4>1, ApiRows DEF Inserts, Requeues, Resets
        <4> QED BY <2>1, <4>1, <4>2 DEF RowsThere, Unfinished
      <3>2. CASE Cardinality(InFlight) < MaxDepth
        <4>1. Cardinality(Admitted') <= Cardinality(Admitted) /\ Cardinality(Admitted') \in Nat
          BY <3>1, Finite, FS_Subset, FS_CardinalityType
        <4>2. Cardinality(Inserting') <= Cardinality(Calls) /\ Cardinality(Inserting') \in Nat
          <5>1. Inserting' \subseteq Calls
            BY DEF Inserting
          <5> QED BY <5>1, FS_Subset, FS_CardinalityType
        <4> QED BY <3>2, <4>1, <4>2, Finite DEF Committed
      <3>3. CASE Inserting' \subseteq Inserting
        BY <2>1, <3>1, <3>3, NoMore
      <3> QED BY <2>0, <2>1, <3>2, <3>3, InsertingStep
    <2>3. CASE Inserts(c, r)
      <3> DEFINE q == call[c].prompt
      <3>1. Admitted' \subseteq Admitted \cup {q}
        <4> SUFFICES ASSUME NEW p \in Admitted', p # q PROVE job[p].status # "absent"
          BY <1>2, <2>1, Kept
        <4>1. p \in Prompts /\ job'[p].status \in Unfinished
          BY DEF Admitted
        <4>2. job'[p] = job[p]
          BY <2>1, <2>3, <4>1 DEF Inserts, TypeOK
        <4> QED BY <4>1, <4>2 DEF Unfinished
      <3>2. Inserting' \subseteq Inserting \ {c}
        BY <2>0, <2>1, <2>3, InsertingStep DEF Inserts
      <3>3. c \in Inserting
        BY <2>3 DEF Inserts, Inserting, At
      <3>4. Cardinality(Admitted') <= Cardinality(Admitted) + 1 /\ Cardinality(Admitted') \in Nat
        <4>1. /\ IsFiniteSet(Admitted \cup {q})
              /\ Cardinality(Admitted \cup {q}) <= Cardinality(Admitted) + 1
          <5> DEFINE S == Admitted
          <5>1. IsFiniteSet(S) /\ Cardinality(S) \in Nat
            BY Finite
          <5> HIDE DEF S
          <5>2. /\ IsFiniteSet(S \cup {q})
                /\ Cardinality(S \cup {q}) = IF q \in S THEN Cardinality(S)
                                                        ELSE Cardinality(S) + 1
            BY <5>1, FS_AddElement
          <5> QED BY <5>1, <5>2 DEF S
        <4>2. /\ Cardinality(Admitted') <= Cardinality(Admitted \cup {q})
              /\ Cardinality(Admitted') \in Nat
          BY <3>1, <4>1, FS_Subset, FS_CardinalityType
        <4>3. Cardinality(Admitted \cup {q}) \in Nat
          BY <4>1, FS_CardinalityType
        <4> QED BY <4>1, <4>2, <4>3, Finite
      <3>5. Cardinality(Inserting') <= Cardinality(Inserting) - 1 /\ Cardinality(Inserting') \in Nat
        <4>1. /\ IsFiniteSet(Inserting \ {c})
              /\ Cardinality(Inserting \ {c}) = Cardinality(Inserting) - 1
          BY <3>3, Finite, FS_RemoveElement
        <4>2. /\ Cardinality(Inserting') <= Cardinality(Inserting \ {c})
              /\ Cardinality(Inserting') \in Nat
          BY <3>2, <4>1, FS_Subset, FS_CardinalityType
        <4> QED BY <4>1, <4>2
      <3> QED BY <2>1, <3>4, <3>5, Finite DEF Committed
    <2> QED BY <2>0, <2>1, <2>2, <2>3, ApiRows
  <1>3. ASSUME Next, NEW p \in Prompts, WorkersWrite(p) PROVE Committed'
    <2>1. TypeOK /\ RowsThere /\ Committed
      BY DEF DepthInv
    <2>2. Admitted' \subseteq Admitted
      <3> SUFFICES ASSUME NEW q \in Admitted' PROVE job[q].status # "absent"
        BY <1>3, <2>1, Kept
      <3>1. q \in Prompts /\ job'[q].status \in Unfinished
        BY DEF Admitted
      <3> QED BY <1>3, <2>1, <3>1, WorkerRows DEF Unfinished
    <2>3. Inserting' \subseteq Inserting
      BY <1>3, <2>1, WorkerRows DEF Inserting, At
    <2> QED BY <2>1, <2>2, <2>3, NoMore
  <1>4. CASE Next
    BY <1>2, <1>3, <1>4 DEF Next
  <1> QED BY <1>1, <1>4

\* At the start nothing is admitted and nobody has passed the check.
LEMMA DepthInit == Init => DepthInv
  <1> SUFFICES ASSUME Init PROVE DepthInv
    OBVIOUS
  <1>1. TypeOK
    <2>1. NoRequest \in RequestRow /\ NoJob \in JobRow
      BY DEF NoRequest, NoJob, RequestRow, JobRow, Priority
    <2> QED BY <2>1, IdleCallType DEF Init, ApiInit, TypeOK
  <1>2. RowsThere
    BY DEF Init, ApiInit, RowsThere, NoRequest, NoJob, IdleCall, Finished
  <1>3. Admitted = {} /\ Inserting = {}
    BY DEF Init, ApiInit, Admitted, Inserting, At, NoJob, IdleCall, Unfinished
  <1>4. Committed
    BY <1>3, FS_EmptySet, Finite DEF Committed
  <1> QED BY <1>1, <1>2, <1>4 DEF DepthInv

\* The inductive invariant holds of every behaviour.
LEMMA DepthInvariant == Spec => []DepthInv
  <1>1. DepthInv /\ [Next]_vars => DepthInv'
    BY TypeStep, RowsStep, DepthStep DEF DepthInv
  <1> QED BY <1>1, DepthInit, PTL DEF Spec

\* Rows and handlers keep their types.
THEOREM AdmissionTypeCorrect == Spec => []TypeOK
  <1>1. DepthInv => TypeOK
    BY DEF DepthInv
  <1> QED BY <1>1, DepthInvariant, PTL

\* submit_and_wait counts and inserts in two transactions; with n calls at a
\* time at most n - 1 jobs more than the limit are admitted.
THEOREM DepthIsBounded == Spec => []DepthBound
  <1>1. DepthInv => DepthBound
    BY Finite DEF DepthInv, Committed, DepthBound
  <1> QED BY <1>1, DepthInvariant, PTL
=============================================================================
