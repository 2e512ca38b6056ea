------------------------ MODULE WorkerProcessProofs -------------------------
(***************************************************************************)
(* What every end of a worker process leaves behind, for any number of     *)
(* slots (worker_concurrency).                                             *)
(***************************************************************************)
EXTENDS WorkerProcess, TLAPS

\* An ended slot stays as it is, and only Abort cancels.
LEMMA EndsAreFinal ==
    ASSUME TypeOK, [Next]_vars, NEW s \in Slots
    PROVE  /\ pc[s] \in Ends => pc'[s] = pc[s]
           /\ pc'[s] = "cancelled" => pc[s] = "cancelled" \/ Abort
  <1> USE DEF TypeOK, Ends
  <1>1. ASSUME NEW v \in Slots, SlotStep(v)
        PROVE  /\ pc[s] \in Ends => pc'[s] = pc[s]
               /\ pc'[s] = "cancelled" => pc[s] = "cancelled"
    BY <1>1 DEF SlotStep, Claimed, NothingToClaim, ClaimRaises, Connected,
                ConnectRaises, Heard, Disconnected, PipelineEnds,
                HeartbeatStopped, Notified, Move, NextTurn
  <1>2. ASSUME NEW v \in Slots, LeaseLost(v)
        PROVE  /\ pc[s] \in Ends => pc'[s] = pc[s]
               /\ pc'[s] = "cancelled" => pc[s] = "cancelled"
    BY <1>2 DEF LeaseLost
  <1>3. CASE Abort
    BY <1>3 DEF Abort, AfterCancel
  <1>4. CASE PoolRaises \/ OnSignal \/ MainEnds \/ UNCHANGED vars
    BY <1>4 DEF PoolRaises, OnSignal, MainEnds, vars, slotVars
  <1> QED BY <1>1, <1>2, <1>3, <1>4 DEF Next

\* Type correctness, and the heartbeat's lifetime.
LEMMA TypeStep ==
    ASSUME TypeOK, [Next]_vars
    PROVE  TypeOK'
  <1> USE DEF TypeOK, Awaits, Ends
  <1>1. ASSUME NEW s \in Slots, SlotStep(s) PROVE TypeOK'
    <2>1. CASE Claimed(s)
      BY <2>1 DEF Claimed, Move
    <2>2. CASE NothingToClaim(s) \/ ClaimRaises(s) \/ Connected(s) \/ Heard(s)
      BY <2>2 DEF NothingToClaim, ClaimRaises, Connected, Heard, Move, NoJobChange
    <2>3. CASE ConnectRaises(s) \/ Disconnected(s)
      BY <2>3 DEF ConnectRaises, Disconnected, Move, NextTurn, NoJobChange
    <2>4. CASE PipelineEnds(s)
      BY <2>4 DEF PipelineEnds, Move
    <2>5. CASE HeartbeatStopped(s)
      BY <2>5 DEF HeartbeatStopped, Move, NextTurn
    <2>6. CASE Notified(s)
      BY <2>6 DEF Notified, Move, NextTurn, NoJobChange
    <2> QED BY <1>1, <2>1, <2>2, <2>3, <2>4, <2>5, <2>6 DEF SlotStep
  <1>2. ASSUME NEW s \in Slots, LeaseLost(s) PROVE TypeOK'
    BY <1>2 DEF LeaseLost
  <1>3. CASE Abort
    BY <1>3 DEF Abort, AfterCancel
  <1>4. CASE PoolRaises \/ OnSignal \/ MainEnds \/ UNCHANGED vars
    BY <1>4 DEF PoolRaises, OnSignal, MainEnds, vars, slotVars
  <1> QED BY <1>1, <1>2, <1>3, <1>4 DEF Next

\* main leaves gather only when the pool is done.
LEMMA LeftBehindStep ==
    ASSUME TypeOK, TypeOK', NothingLeftBehind, [Next]_vars
    PROVE  NothingLeftBehind'
  <1>1. ASSUME NEW s \in Slots, pc'[s] = "cancelled"
        PROVE  \E v \in Slots : pc'[v] = "failed"
    <2>1. PICK v \in Slots : pc[v] = "failed"
      BY <1>1, EndsAreFinal DEF NothingLeftBehind, Abort
    <2> QED BY <2>1, EndsAreFinal DEF Ends
  <1>2. main' # "gather" => PoolDone
    <2>1. main' = main \/ PoolRaises \/ main = "closing"
      BY DEF Next, SlotStep, Claimed, NothingToClaim, ClaimRaises, Connected,
             ConnectRaises, Heard, Disconnected, PipelineEnds,
             HeartbeatStopped, Notified, NoJobChange, LeaseLost, Abort,
             OnSignal, MainEnds, vars
    <2> QED BY <2>1 DEF PoolRaises, NothingLeftBehind
  <1>3. PoolDone => PoolDone'
    BY EndsAreFinal DEF PoolDone
  <1>4. PoolDone' => \A s \in Slots : ~beat'[s]
    BY DEF TypeOK, PoolDone, Ends
  <1> QED BY <1>1, <1>2, <1>3, <1>4 DEF NothingLeftBehind

\* The two together are inductive.
LEMMA ProcessInvariant == Spec => [](TypeOK /\ NothingLeftBehind)
  <1>1. Init => TypeOK /\ NothingLeftBehind
    BY DEF Init, TypeOK, NothingLeftBehind, Awaits, Ends
  <1>2. TypeOK /\ NothingLeftBehind /\ [Next]_vars => (TypeOK /\ NothingLeftBehind)'
    BY TypeStep, LeftBehindStep
  <1> QED BY <1>1, <1>2, PTL DEF Spec

\* No heartbeat task outlives the job it was started for, in a process of any
\* number of slots.
THEOREM ProcessTypeCorrect == Spec => []TypeOK
  BY ProcessInvariant, PTL

\* In a process of any number of slots, the connections are closed only after
\* every slot and every heartbeat has ended, and no slot is cancelled but for
\* the failure of another.
THEOREM ProcessEndsClean == Spec => []NothingLeftBehind
  BY ProcessInvariant, PTL
=============================================================================
