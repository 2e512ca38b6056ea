------------------------- MODULE LeaseTimingProofs --------------------------
(***************************************************************************)
(* The timing of leases for every value of the settings, of the lateness   *)
(* and of the clocks: a lease that is Timely is kept, a crashed slot's job *)
(* is taken back in time, and a busy worker is reported as running.        *)
(***************************************************************************)
EXTENDS LeaseTiming, TLAPS

USE LeaseTimingAssumption DEF LeaseTimingAssumption

-----------------------------------------------------------------------------
(* The inductive invariant                                                 *)

\* The latest time after the time stamp of a call that succeeded at which a
\* timer falls asleep that has failed m times since.
Late(m, interval) == Delay + m * Round(interval)

\* Nothing is later than InTime allows, and nothing fails too often.
ClocksOK ==
    /\ \A s \in Slots :
          /\ since[s] <= now /\ beatAt[s] <= now /\ missed[s] <= Missable
          /\ pc[s] = "claiming" => now <= since[s] + Delay
          /\ beat[s] = "asleep" => now <= beatAt[s] + Interval + Delay
          /\ beat[s] = "calling" => now <= beatAt[s] + Delay
    /\ reaper.at <= now /\ reaper.missed <= Missable
    /\ reaper.pc = "asleep" => now <= reaper.at + ReapInterval + Delay
    /\ reaper.pc = "calling" => now <= reaper.at + Delay

\* Who holds the row runs it, or was killed running it; the two columns that a
\* heartbeat writes agree.
HolderOK ==
    row.status = "processing" =>
        /\ row.owner \in Slots
        /\ pc[row.owner] \in {"running", "gone"}
        /\ row.until = row.beat + Lease

\* A running slot owns the row, and its heartbeat is at most as old as the
\* failures since the last success explain.
Fresh(s) ==
    /\ row.status = "processing" /\ row.owner = s
    /\ row.until <= now + Skew[s] + Lease
    /\ beat[s] \in {"asleep", "calling"}
    /\ beat[s] = "asleep" =>
          beatAt[s] + Skew[s] + Lease <= row.until + Late(missed[s], Interval)
    /\ beat[s] = "calling" =>
          beatAt[s] + Skew[s] + Lease
              <= row.until + Late(missed[s], Interval) + Interval + Delay

\* The lease of a slot that was killed was given before.
Left(s) ==
    row.status = "processing" /\ row.owner = s =>
        row.until <= since[s] + Skew[s] + Lease

\* The reaper last looked, successfully, before the lease ended.
Watched ==
    row.status = "processing" =>
        /\ reaper.pc = "asleep" =>
              reaper.at + ReaperSkew <= row.until + Late(reaper.missed, ReapInterval)
        /\ reaper.pc = "calling" =>
              reaper.at + ReaperSkew
                  <= row.until + Late(reaper.missed, ReapInterval) + ReapInterval + Delay

\* The part of the invariant that rests on the settings.
LeasesOK ==
    /\ \A s \in Slots : pc[s] = "running" => Fresh(s)
    /\ \A s \in Slots : pc[s] = "gone" => Left(s)
    /\ Watched

TimingInv == TypeOK /\ ClocksOK /\ HolderOK /\ (Timely => LeasesOK)

-----------------------------------------------------------------------------
(* Arithmetic                                                              *)

\* What failures add to the lateness of a timer: nothing at first, one round
\* each, and never more than the silence less the last round.
LEMMA LateFacts ==
    ASSUME NEW i \in Nat
    PROVE  /\ Silence(i) \in Nat
           /\ \A m \in Nat : Late(m, i) \in Nat
           /\ Late(0, i) = Delay
           /\ \A m \in Nat : Late(m + 1, i) = Late(m, i) + i + 2 * Delay
           /\ \A m \in 0..Missable : Late(m, i) + i + 2 * Delay <= Silence(i)
  <1> DEFINE r == i + 2 * Delay
  <1>1. r \in Nat
    OBVIOUS
  <1>2. \A m \in Nat : m * r \in Nat
    BY <1>1
  <1>3. \A m \in Nat : (m + 1) * r = m * r + r
    BY <1>1
  <1>4. \A m \in 0..Missable : m * r <= Missable * r
    <2>1. TAKE m \in 0..Missable
    <2>2. PICK d \in Nat : Missable = m + d
      BY <2>1
    <2>3. (m + d) * r = m * r + d * r
      BY <1>1, <2>1
    <2> QED BY <1>2, <2>1, <2>2, <2>3
  <1>5. 0 * r = 0
    BY <1>1
  <1> HIDE DEF r
  <1> DEFINE p == [m \in Nat |-> m * r]
  <1>6. /\ \A m \in Nat : p[m] \in Nat /\ p[m + 1] = p[m] + r
        /\ \A m \in 0..Missable : p[m] <= p[Missable]
        /\ p[0] = 0
    BY <1>2, <1>3, <1>4, <1>5
  <1>7. /\ \A m \in Nat : Late(m, i) = Delay + p[m]
        /\ Silence(i) = Delay + p[Missable + 1]
        /\ r = i + 2 * Delay
    BY DEF Late, Silence, Round, r
  <1> HIDE DEF p
  <1>8. p[Missable + 1] = p[Missable] + r
    BY <1>6
  <1>9. ASSUME NEW m \in Nat
        PROVE  /\ Late(m, i) \in Nat
               /\ Late(m + 1, i) = Late(m, i) + i + 2 * Delay
               /\ m <= Missable => Late(m, i) + i + 2 * Delay <= Silence(i)
    <2>1. Late(m, i) = Delay + p[m] /\ Late(m + 1, i) = Delay + p[m + 1]
      BY <1>7
    <2>2. p[m] \in Nat /\ p[m + 1] = p[m] + r
      BY <1>6
    <2>3. m <= Missable => p[m] <= p[Missable] /\ p[Missable] \in Nat
      BY <1>6
    <2> QED BY <1>1, <1>7, <1>8, <2>1, <2>2, <2>3
  <1>10. Silence(i) \in Nat /\ Late(0, i) = Delay
    BY <1>1, <1>6, <1>7, <1>8
  <1> QED BY <1>9, <1>10

-----------------------------------------------------------------------------
(* Every step keeps the invariant                                          *)

\* The type of the row and of the reaper, field by field.
LEMMA Fields ==
    ASSUME TypeOK
    PROVE  /\ row.status \in {"queued", "processing", "settled"}
           /\ row.owner \in Slots \cup {None}
           /\ row.until \in Int /\ row.beat \in Int
           /\ reaper.pc \in {"asleep", "calling"}
           /\ reaper.at \in Nat /\ reaper.missed \in Nat
  BY DEF TypeOK, Row, Reaper

\* The rows that the UPDATEs write.
LEMMA RowUpdates ==
    ASSUME NEW r \in Row, NEW t \in Nat
    PROVE  /\ [r EXCEPT !.status = "settled"] \in Row
           /\ [r EXCEPT !.status = "settled", !.until = 0] \in Row
           /\ [r EXCEPT !.status = "queued", !.owner = None, !.until = 0] \in Row
           /\ Extended(r, t) \in Row
  <1>1. /\ [r EXCEPT !.status = "settled"] \in Row
        /\ [r EXCEPT !.status = "queued"] \in Row
    BY DEF Row
  <1>2. [r EXCEPT !.until = t + Lease] \in Row
    BY DEF Row
  <1> DEFINE settled == [r EXCEPT !.status = "settled"]
             queued  == [r EXCEPT !.status = "queued"]
             freed   == [queued EXCEPT !.owner = None]
             longer  == [r EXCEPT !.until = t + Lease]
  <1>3. settled \in Row /\ queued \in Row /\ longer \in Row
    BY <1>1, <1>2
  <1> HIDE DEF settled, queued, freed, longer
  <1>4. [settled EXCEPT !.until = 0] \in Row
    BY <1>3 DEF Row
  <1>5. freed \in Row
    BY <1>3 DEF freed, Row
  <1>6. [freed EXCEPT !.until = 0] \in Row
    BY <1>5 DEF Row
  <1>7. [longer EXCEPT !.beat = t] \in Row
    BY <1>3 DEF Row
  <1> QED BY <1>1, <1>4, <1>6, <1>7 DEF settled, queued, freed, longer, Extended

\* Type correctness.
LEMMA TypeStep ==
    ASSUME TypeOK, [Next]_vars
    PROVE  TypeOK'
  <1> USE DEF TypeOK
  <1>1. ASSUME NEW s \in Slots, CallClaim(s) PROVE TypeOK'
    BY <1>1 DEF CallClaim, GoTo, SlotPcs
  <1>2. ASSUME NEW s \in Slots, Claimed(s) PROVE TypeOK'
    BY <1>2 DEF Claimed, GoTo, SlotPcs, Row
  <1>3. ASSUME NEW s \in Slots, NoJob(s) PROVE TypeOK'
    BY <1>3 DEF NoJob, GoTo, SlotPcs
  <1>4. ASSUME NEW s \in Slots, Settle(s) PROVE TypeOK'
    <2>1. row' \in Row
      BY <1>4, RowUpdates DEF Settle
    <2> QED BY <1>4, <2>1 DEF Settle, GoTo, SlotPcs
  <1>5. ASSUME NEW s \in Slots, Release(s) PROVE TypeOK'
    <2>1. row' \in Row
      BY <1>5, RowUpdates DEF Release
    <2> QED BY <1>5, <2>1 DEF Release, GoTo, SlotPcs
  <1>6. ASSUME NEW s \in Slots, StopBeat(s) PROVE TypeOK'
    BY <1>6 DEF StopBeat, GoTo, SlotPcs
  <1>7. ASSUME NEW s \in Slots, Crash(s) PROVE TypeOK'
    BY <1>7 DEF Crash, GoTo, SlotPcs
  <1>8. ASSUME NEW s \in Slots, CallBeat(s) PROVE TypeOK'
    BY <1>8 DEF CallBeat
  <1>9. ASSUME NEW s \in Slots, Beaten(s) PROVE TypeOK'
    <2>1. beatAt[s] + Skew[s] \in Nat
      OBVIOUS
    <2>2. row' \in Row
      BY <1>9, <2>1, RowUpdates DEF Beaten
    <2> QED BY <1>9, <2>2 DEF Beaten
  <1>10. ASSUME NEW s \in Slots, LeaseLost(s) PROVE TypeOK'
    BY <1>10 DEF LeaseLost, GoTo, SlotPcs
  <1>11. ASSUME NEW s \in Slots, BeatFails(s) PROVE TypeOK'
    BY <1>11 DEF BeatFails
  <1>12. CASE Reset
    BY <1>12 DEF Reset, Row, NeverBeat
  <1>13. CASE CallReap
    BY <1>13 DEF CallReap, Reaper
  <1>14. CASE Reap
    <2>1. row' \in Row
      BY <1>14, RowUpdates DEF Reap
    <2> QED BY <1>14, <2>1 DEF Reap, Reaper, Rested
  <1>15. CASE ReapFails
    BY <1>15 DEF ReapFails, Reaper, Rested
  <1>16. CASE Tick
    BY <1>16 DEF Tick
  <1>17. CASE UNCHANGED vars
    BY <1>17 DEF vars
  <1> QED BY <1>1, <1>2, <1>3, <1>4, <1>5, <1>6, <1>7, <1>8,
             <1>9, <1>10, <1>11, <1>12, <1>13, <1>14, <1>15, <1>16, <1>17 DEF Next

\* Time advances only as InTime allows.
LEMMA ClocksStep ==
    ASSUME TypeOK, ClocksOK, [Next]_vars
    PROVE  ClocksOK'
  <1> USE Fields DEF TypeOK, ClocksOK
  <1>1. ASSUME NEW s \in Slots, CallClaim(s) PROVE ClocksOK'
    BY <1>1 DEF CallClaim, GoTo
  <1>2. ASSUME NEW s \in Slots, Claimed(s) PROVE ClocksOK'
    BY <1>2 DEF Claimed, GoTo
  <1>3. ASSUME NEW s \in Slots, NoJob(s) PROVE ClocksOK'
    BY <1>3 DEF NoJob, GoTo
  <1>4. ASSUME NEW s \in Slots, Settle(s) PROVE ClocksOK'
    BY <1>4 DEF Settle, GoTo
  <1>5. ASSUME NEW s \in Slots, Release(s) PROVE ClocksOK'
    BY <1>5 DEF Release, GoTo
  <1>6. ASSUME NEW s \in Slots, StopBeat(s) PROVE ClocksOK'
    BY <1>6 DEF StopBeat, GoTo
  <1>7. ASSUME NEW s \in Slots, Crash(s) PROVE ClocksOK'
    BY <1>7 DEF Crash, GoTo
  <1>8. ASSUME NEW s \in Slots, CallBeat(s) PROVE ClocksOK'
    BY <1>8 DEF CallBeat
  <1>9. ASSUME NEW s \in Slots, Beaten(s) PROVE ClocksOK'
    BY <1>9 DEF Beaten
  <1>10. ASSUME NEW s \in Slots, LeaseLost(s) PROVE ClocksOK'
    BY <1>10 DEF LeaseLost, GoTo
  <1>11. ASSUME NEW s \in Slots, BeatFails(s) PROVE ClocksOK'
    BY <1>11 DEF BeatFails
  <1>12. CASE Reset
    BY <1>12 DEF Reset
  <1>13. CASE CallReap
    BY <1>13 DEF CallReap
  <1>14. CASE Reap
    BY <1>14 DEF Reap, Rested
  <1>15. CASE ReapFails
    BY <1>15 DEF ReapFails, Rested
  <1>16. CASE Tick
    BY <1>16 DEF Tick, InTime
  <1>17. CASE UNCHANGED vars
    BY <1>17 DEF vars
  <1> QED BY <1>1, <1>2, <1>3, <1>4, <1>5, <1>6, <1>7, <1>8,
             <1>9, <1>10, <1>11, <1>12, <1>13, <1>14, <1>15, <1>16, <1>17 DEF Next

\* A row is held from the claim to the end of the job, or to the reaper.
LEMMA HolderStep ==
    ASSUME TypeOK, HolderOK, [Next]_vars
    PROVE  HolderOK'
  <1> USE Fields DEF TypeOK, HolderOK
  <1>1. ASSUME NEW s \in Slots, CallClaim(s) PROVE HolderOK'
    BY <1>1 DEF CallClaim, GoTo
  <1>2. ASSUME NEW s \in Slots, Claimed(s) PROVE HolderOK'
    BY <1>2 DEF Claimed, GoTo
  <1>3. ASSUME NEW s \in Slots, NoJob(s) PROVE HolderOK'
    BY <1>3 DEF NoJob, GoTo
  <1>4. ASSUME NEW s \in Slots, Settle(s) PROVE HolderOK'
    BY <1>4 DEF Settle, GoTo
  <1>5. ASSUME NEW s \in Slots, Release(s) PROVE HolderOK'
    BY <1>5 DEF Release, GoTo
  <1>6. ASSUME NEW s \in Slots, StopBeat(s) PROVE HolderOK'
    BY <1>6 DEF StopBeat, GoTo
  <1>7. ASSUME NEW s \in Slots, Crash(s) PROVE HolderOK'
    BY <1>7 DEF Crash, GoTo
  <1>8. ASSUME NEW s \in Slots, CallBeat(s) PROVE HolderOK'
    BY <1>8 DEF CallBeat
  <1>9. ASSUME NEW s \in Slots, Beaten(s) PROVE HolderOK'
    BY <1>9 DEF Beaten, Extended
  <1>10. ASSUME NEW s \in Slots, LeaseLost(s) PROVE HolderOK'
    BY <1>10 DEF LeaseLost, GoTo
  <1>11. ASSUME NEW s \in Slots, BeatFails(s) PROVE HolderOK'
    BY <1>11 DEF BeatFails
  <1>12. CASE Reset
    BY <1>12 DEF Reset
  <1>13. CASE CallReap
    BY <1>13 DEF CallReap
  <1>14. CASE Reap
    <2>1. row' = row \/ row'.status # "processing"
      BY <1>14 DEF Reap, Row
    <2> QED BY <1>14, <2>1 DEF Reap
  <1>15. CASE ReapFails
    BY <1>15 DEF ReapFails
  <1>16. CASE Tick
    BY <1>16 DEF Tick
  <1>17. CASE UNCHANGED vars
    BY <1>17 DEF vars
  <1> QED BY <1>1, <1>2, <1>3, <1>4, <1>5, <1>6, <1>7, <1>8,
             <1>9, <1>10, <1>11, <1>12, <1>13, <1>14, <1>15, <1>16, <1>17 DEF Next

\* Timely leaves room for the lateness of one call and for the clocks, and what
\* Late adds for the failures so far.
LEMMA Room ==
    ASSUME TypeOK, ClocksOK, Timely
    PROVE  /\ Delay + Spread <= Lease
           /\ \A s \in Slots :
                 /\ Skew[s] \in 0..Spread
                 /\ Late(missed[s], Interval) \in Nat
                 /\ Late(missed[s] + 1, Interval)
                       = Late(missed[s], Interval) + Interval + 2 * Delay
                 /\ Late(missed[s], Interval) + Interval + 2 * Delay + Spread <= Lease
           /\ Late(reaper.missed, ReapInterval) \in Nat
           /\ Late(reaper.missed + 1, ReapInterval)
                 = Late(reaper.missed, ReapInterval) + ReapInterval + 2 * Delay
           /\ Late(reaper.missed, ReapInterval) + ReapInterval + 2 * Delay
                 <= Silence(ReapInterval)
           /\ Late(0, Interval) = Delay /\ Late(0, ReapInterval) = Delay
  <1>1. /\ Silence(Interval) \in Nat
        /\ \A m \in Nat : Late(m, Interval) \in Nat
        /\ \A m \in Nat : Late(m + 1, Interval) = Late(m, Interval) + Interval + 2 * Delay
        /\ \A m \in 0..Missable : Late(m, Interval) + Interval + 2 * Delay <= Silence(Interval)
        /\ Late(0, Interval) = Delay
    BY LateFacts
  <1>2. /\ \A m \in Nat : Late(m, ReapInterval) \in Nat
        /\ \A m \in Nat :
              Late(m + 1, ReapInterval) = Late(m, ReapInterval) + ReapInterval + 2 * Delay
        /\ \A m \in 0..Missable :
              Late(m, ReapInterval) + ReapInterval + 2 * Delay <= Silence(ReapInterval)
        /\ Late(0, ReapInterval) = Delay
    BY LateFacts
  <1>3. reaper.missed \in 0..Missable
    BY Fields DEF ClocksOK
  <1>4. ASSUME NEW s \in Slots PROVE missed[s] \in 0..Missable
    BY DEF TypeOK, ClocksOK
  <1>5. Delay + Spread <= Lease
    <2>1. 0 \in 0..Missable
      OBVIOUS
    <2>2. Late(0, Interval) + Interval + 2 * Delay <= Silence(Interval)
      BY <1>1, <2>1
    <2> QED BY <1>1, <2>2 DEF Timely
  <1>6. ASSUME NEW s \in Slots
        PROVE  /\ Skew[s] \in 0..Spread
               /\ Late(missed[s], Interval) \in Nat
               /\ Late(missed[s] + 1, Interval)
                     = Late(missed[s], Interval) + Interval + 2 * Delay
               /\ Late(missed[s], Interval) + Interval + 2 * Delay + Spread <= Lease
    <2>1. missed[s] \in Nat /\ missed[s] \in 0..Missable
      BY <1>4
    <2>2. /\ Late(missed[s], Interval) \in Nat
          /\ Late(missed[s] + 1, Interval)
                = Late(missed[s], Interval) + Interval + 2 * Delay
          /\ Late(missed[s], Interval) + Interval + 2 * Delay <= Silence(Interval)
      BY <1>1, <2>1
    <2> QED BY <1>1, <2>2 DEF Timely
  <1>7. /\ Late(reaper.missed, ReapInterval) \in Nat
        /\ Late(reaper.missed + 1, ReapInterval)
              = Late(reaper.missed, ReapInterval) + ReapInterval + 2 * Delay
        /\ Late(reaper.missed, ReapInterval) + ReapInterval + 2 * Delay
              <= Silence(ReapInterval)
    <2>1. reaper.missed \in Nat
      BY <1>3
    <2> QED BY <1>2, <1>3, <2>1
  <1> QED BY <1>1, <1>2, <1>5, <1>6, <1>7

\* The reaper does not find the lease of a running slot expired.
LEMMA LeaseRuns ==
    ASSUME TypeOK, ClocksOK, Timely, LeasesOK, NEW s \in Slots, pc[s] = "running"
    PROVE  now + ReaperSkew <= row.until
  <1>1. Fresh(s)
    BY DEF LeasesOK
  <1>2. /\ Skew[s] \in 0..Spread
        /\ Late(missed[s], Interval) \in Nat
        /\ Late(missed[s], Interval) + Interval + 2 * Delay + Spread <= Lease
    BY Room
  <1>3. now \in Nat /\ beatAt[s] \in Nat /\ row.until \in Int
    BY Fields DEF TypeOK
  <1>4. CASE beat[s] = "asleep"
    <2>1. now <= beatAt[s] + Interval + Delay
      BY <1>4 DEF ClocksOK
    <2>2. beatAt[s] + Skew[s] + Lease <= row.until + Late(missed[s], Interval)
      BY <1>1, <1>4 DEF Fresh
    <2> QED BY <1>2, <1>3, <2>1, <2>2
  <1>5. CASE beat[s] = "calling"
    <2>1. now <= beatAt[s] + Delay
      BY <1>5 DEF ClocksOK
    <2>2. beatAt[s] + Skew[s] + Lease
             <= row.until + Late(missed[s], Interval) + Interval + Delay
      BY <1>1, <1>5 DEF Fresh
    <2> QED BY <1>2, <1>3, <2>1, <2>2
  <1> QED BY <1>1, <1>4, <1>5 DEF Fresh

\* With Timely settings no step lets a lease lapse under a running slot.
LEMMA LeasesStep ==
    ASSUME TypeOK, ClocksOK, HolderOK, Timely, LeasesOK, [Next]_vars
    PROVE  LeasesOK'
  <1> USE Fields, Room DEF TypeOK, ClocksOK
  <1>1. ASSUME NEW s \in Slots, CallClaim(s) PROVE LeasesOK'
    <2>1. (\A v \in Slots : pc[v] = "running" => Fresh(v))'
      BY <1>1 DEF CallClaim, GoTo, LeasesOK, Fresh
    <2>2. (\A v \in Slots : pc[v] = "gone" => Left(v))'
      BY <1>1 DEF CallClaim, GoTo, LeasesOK, Left
    <2>3. Watched'
      BY <1>1 DEF CallClaim, GoTo, LeasesOK, Watched
    <2> QED BY <2>1, <2>2, <2>3 DEF LeasesOK
  <1>2. ASSUME NEW s \in Slots, Claimed(s) PROVE LeasesOK'
    <2>1. (\A v \in Slots : pc[v] = "running" => Fresh(v))'
      BY <1>2 DEF Claimed, GoTo, LeasesOK, Fresh, HolderOK
    <2>2. (\A v \in Slots : pc[v] = "gone" => Left(v))'
      BY <1>2 DEF Claimed, GoTo, LeasesOK, Left
    <2>3. Watched'
      BY <1>2 DEF Claimed, GoTo, LeasesOK, Watched
    <2> QED BY <2>1, <2>2, <2>3 DEF LeasesOK
  <1>3. ASSUME NEW s \in Slots, NoJob(s) PROVE LeasesOK'
    <2>1. (\A v \in Slots : pc[v] = "running" => Fresh(v))'
      BY <1>3 DEF NoJob, GoTo, LeasesOK, Fresh
    <2>2. (\A v \in Slots : pc[v] = "gone" => Left(v))'
      BY <1>3 DEF NoJob, GoTo, LeasesOK, Left
    <2>3. Watched'
      BY <1>3 DEF NoJob, GoTo, LeasesOK, Watched
    <2> QED BY <2>1, <2>2, <2>3 DEF LeasesOK
  <1>4. ASSUME NEW s \in Slots, Settle(s) PROVE LeasesOK'
    <2>1. (\A v \in Slots : pc[v] = "running" => Fresh(v))'
      BY <1>4 DEF Settle, GoTo, LeasesOK, Fresh
    <2>2. (\A v \in Slots : pc[v] = "gone" => Left(v))'
      BY <1>4 DEF Settle, GoTo, LeasesOK, Left
    <2>3. Watched'
      BY <1>4 DEF Settle, GoTo, LeasesOK, Watched
    <2> QED BY <2>1, <2>2, <2>3 DEF LeasesOK
  <1>5. ASSUME NEW s \in Slots, Release(s) PROVE LeasesOK'
    <2>1. (\A v \in Slots : pc[v] = "running" => Fresh(v))'
      BY <1>5 DEF Release, GoTo, LeasesOK, Fresh
    <2>2. (\A v \in Slots : pc[v] = "gone" => Left(v))'
      BY <1>5 DEF Release, GoTo, LeasesOK, Left
    <2>3. Watched'
      BY <1>5 DEF Release, GoTo, LeasesOK, Watched
    <2> QED BY <2>1, <2>2, <2>3 DEF LeasesOK
  <1>6. ASSUME NEW s \in Slots, StopBeat(s) PROVE LeasesOK'
    <2>1. (\A v \in Slots : pc[v] = "running" => Fresh(v))'
      BY <1>6 DEF StopBeat, GoTo, LeasesOK, Fresh
    <2>2. (\A v \in Slots : pc[v] = "gone" => Left(v))'
      BY <1>6 DEF StopBeat, GoTo, LeasesOK, Left
    <2>3. Watched'
      BY <1>6 DEF StopBeat, GoTo, LeasesOK, Watched
    <2> QED BY <2>1, <2>2, <2>3 DEF LeasesOK
  <1>7. ASSUME NEW s \in Slots, Crash(s) PROVE LeasesOK'
    <2>1. (\A v \in Slots : pc[v] = "running" => Fresh(v))'
      BY <1>7 DEF Crash, GoTo, LeasesOK, Fresh
    <2>2. (\A v \in Slots : pc[v] = "gone" => Left(v))'
      BY <1>7 DEF Crash, GoTo, LeasesOK, Left, Fresh, HolderOK
    <2>3. Watched'
      BY <1>7 DEF Crash, GoTo, LeasesOK, Watched
    <2> QED BY <2>1, <2>2, <2>3 DEF LeasesOK
  <1>8. ASSUME NEW s \in Slots, CallBeat(s) PROVE LeasesOK'
    <2>1. (\A v \in Slots : pc[v] = "running" => Fresh(v))'
      BY <1>8 DEF CallBeat, LeasesOK, Fresh
    <2>2. (\A v \in Slots : pc[v] = "gone" => Left(v))'
      BY <1>8 DEF CallBeat, LeasesOK, Left
    <2>3. Watched'
      BY <1>8 DEF CallBeat, LeasesOK, Watched
    <2> QED BY <2>1, <2>2, <2>3 DEF LeasesOK
  <1>9. ASSUME NEW s \in Slots, Beaten(s) PROVE LeasesOK'
    <2>1. (\A v \in Slots : pc[v] = "running" => Fresh(v))'
      BY <1>9 DEF Beaten, Extended, LeasesOK, Fresh, HolderOK
    <2>2. (\A v \in Slots : pc[v] = "gone" => Left(v))'
      BY <1>9 DEF Beaten, Extended, LeasesOK, Left, HolderOK
    <2>3. Watched'
      BY <1>9 DEF Beaten, Extended, LeasesOK, Watched
    <2> QED BY <2>1, <2>2, <2>3 DEF LeasesOK
  <1>10. ASSUME NEW s \in Slots, LeaseLost(s) PROVE LeasesOK'
    <2>1. (\A v \in Slots : pc[v] = "running" => Fresh(v))'
      BY <1>10 DEF LeaseLost, GoTo, LeasesOK, Fresh
    <2>2. (\A v \in Slots : pc[v] = "gone" => Left(v))'
      BY <1>10 DEF LeaseLost, GoTo, LeasesOK, Left
    <2>3. Watched'
      BY <1>10 DEF LeaseLost, GoTo, LeasesOK, Watched
    <2> QED BY <2>1, <2>2, <2>3 DEF LeasesOK
  <1>11. ASSUME NEW s \in Slots, BeatFails(s) PROVE LeasesOK'
    <2>1. (\A v \in Slots : pc[v] = "running" => Fresh(v))'
      BY <1>11 DEF BeatFails, LeasesOK, Fresh
    <2>2. (\A v \in Slots : pc[v] = "gone" => Left(v))'
      BY <1>11 DEF BeatFails, LeasesOK, Left
    <2>3. Watched'
      BY <1>11 DEF BeatFails, LeasesOK, Watched
    <2> QED BY <2>1, <2>2, <2>3 DEF LeasesOK
  <1>12. CASE Reset
    <2>1. (\A v \in Slots : pc[v] = "running" => Fresh(v))'
      BY <1>12 DEF Reset, LeasesOK, Fresh
    <2>2. (\A v \in Slots : pc[v] = "gone" => Left(v))'
      BY <1>12 DEF Reset, LeasesOK, Left
    <2>3. Watched'
      BY <1>12 DEF Reset, LeasesOK, Watched
    <2> QED BY <2>1, <2>2, <2>3 DEF LeasesOK
  <1>13. CASE CallReap
    <2>1. (\A v \in Slots : pc[v] = "running" => Fresh(v))'
      BY <1>13 DEF CallReap, LeasesOK, Fresh
    <2>2. (\A v \in Slots : pc[v] = "gone" => Left(v))'
      BY <1>13 DEF CallReap, LeasesOK, Left
    <2>3. Watched'
      BY <1>13 DEF CallReap, LeasesOK, Watched
    <2> QED BY <2>1, <2>2, <2>3 DEF LeasesOK
  <1>14. CASE Reap
    <2>1. ASSUME NEW s \in Slots, pc[s] = "running" PROVE ~Expired
      BY <2>1, LeaseRuns DEF Expired
    <2>2. \/ row' = row /\ ~Expired
          \/ row'.status # "processing"
      BY <1>14 DEF Reap, Row
    <2>3. (\A v \in Slots : pc[v] = "running" => Fresh(v))'
      BY <1>14, <2>1, <2>2 DEF Reap, LeasesOK, Fresh
    <2>4. (\A v \in Slots : pc[v] = "gone" => Left(v))'
      BY <1>14, <2>2 DEF Reap, LeasesOK, Left
    <2>5. Watched'
      <3>1. CASE row' = row /\ ~Expired
        <4>1. row.status = "processing" => reaper.at + ReaperSkew <= row.until
          BY <3>1 DEF Expired
        <4>2. reaper' = [pc |-> "asleep", at |-> now, missed |-> 0]
          BY <1>14 DEF Reap, Rested
        <4>3. now <= reaper.at + Delay
          BY <1>14 DEF Reap
        <4> QED BY <3>1, <4>1, <4>2, <4>3 DEF Watched
      <3>2. CASE row'.status # "processing"
        BY <3>2 DEF Watched
      <3> QED BY <2>2, <3>1, <3>2
    <2> QED BY <2>3, <2>4, <2>5 DEF LeasesOK
  <1>15. CASE ReapFails
    <2>1. (\A v \in Slots : pc[v] = "running" => Fresh(v))'
      BY <1>15 DEF ReapFails, Rested, LeasesOK, Fresh
    <2>2. (\A v \in Slots : pc[v] = "gone" => Left(v))'
      BY <1>15 DEF ReapFails, Rested, LeasesOK, Left
    <2>3. Watched'
      BY <1>15 DEF ReapFails, Rested, LeasesOK, Watched
    <2> QED BY <2>1, <2>2, <2>3 DEF LeasesOK
  <1>16. CASE Tick
    <2>1. (\A v \in Slots : pc[v] = "running" => Fresh(v))'
      BY <1>16 DEF Tick, LeasesOK, Fresh
    <2>2. (\A v \in Slots : pc[v] = "gone" => Left(v))'
      BY <1>16 DEF Tick, LeasesOK, Left
    <2>3. Watched'
      BY <1>16 DEF Tick, LeasesOK, Watched
    <2> QED BY <2>1, <2>2, <2>3 DEF LeasesOK
  <1>17. CASE UNCHANGED vars
    BY <1>17 DEF vars, LeasesOK, Fresh, Left, Watched
  <1> QED BY <1>1, <1>2, <1>3, <1>4, <1>5, <1>6, <1>7, <1>8,
             <1>9, <1>10, <1>11, <1>12, <1>13, <1>14, <1>15, <1>16, <1>17 DEF Next

-----------------------------------------------------------------------------
(* Theorems                                                                *)

\* Together, the parts are an inductive invariant.
LEMMA TimingInvInductive == Spec => []TimingInv
  <1>1. Init => TimingInv
    <2> SUFFICES ASSUME Init PROVE TimingInv
      OBVIOUS
    <2>1. TypeOK
      BY DEF Init, TypeOK, SlotPcs, Row, Reaper, NeverBeat
    <2>2. ClocksOK
      BY DEF Init, ClocksOK
    <2>3. row.status # "processing" /\ \A s \in Slots : pc[s] = "idle"
      BY DEF Init
    <2> QED BY <2>1, <2>2, <2>3 DEF TimingInv, HolderOK, LeasesOK, Watched
  <1>2. TimingInv /\ [Next]_vars => TimingInv'
    <2> SUFFICES ASSUME TimingInv, [Next]_vars PROVE TimingInv'
      OBVIOUS
    <2>1. TypeOK' /\ ClocksOK' /\ HolderOK'
      BY TypeStep, ClocksStep, HolderStep DEF TimingInv
    <2>2. Timely => LeasesOK'
      BY LeasesStep DEF TimingInv
    <2>3. Timely' <=> Timely
      BY DEF Timely, Silence, Round
    <2> QED BY <2>1, <2>2, <2>3 DEF TimingInv
  <1> QED BY <1>1, <1>2, PTL DEF Spec

\* A heartbeat task, and every time stamp, has its type; no heartbeat outlives
\* HeartbeatManager.stop() or its process.
THEOREM TypeCorrect == Spec => []TypeOK
  <1>1. TimingInv => TypeOK
    BY DEF TimingInv
  <1> QED BY <1>1, TimingInvInductive, PTL

\* For all settings with Timely, no lease lapses under a slot that runs its job,
\* whatever heartbeats fail and whatever the clocks show.
THEOREM LeaseIsKept == Spec => []LeaseKept
  <1>1. TimingInv => LeaseKept
    <2> SUFFICES ASSUME TimingInv, Timely, NEW s \in Slots, pc[s] = "running"
                 PROVE  /\ row.status = "processing"
                        /\ row.owner = s
                        /\ now + ReaperSkew <= row.until
      BY DEF LeaseKept
    <2>1. Fresh(s)
      BY DEF TimingInv, LeasesOK
    <2>2. now + ReaperSkew <= row.until
      BY LeaseRuns DEF TimingInv
    <2> QED BY <2>1, <2>2 DEF Fresh
  <1> QED BY <1>1, TimingInvInductive, PTL

\* For all settings with Timely, what a killed slot held is queued again or
\* given up one lease and one silence of the reaper later, at the latest.
THEOREM CrashIsReclaimed == Spec => []ReclaimedInTime
  <1>1. TimingInv => ReclaimedInTime
    <2> SUFFICES ASSUME TimingInv, Timely, NEW s \in Slots, pc[s] = "gone",
                        row.owner = s, row.status = "processing"
                 PROVE  now <= since[s] + Lease + Silence(ReapInterval) + Spread
      BY DEF ReclaimedInTime
    <2>1. TypeOK /\ ClocksOK /\ LeasesOK
      BY DEF TimingInv
    <2>2. row.until <= since[s] + Skew[s] + Lease
      BY <2>1 DEF LeasesOK, Left
    <2>3. /\ Late(reaper.missed, ReapInterval) \in Nat
          /\ Late(reaper.missed, ReapInterval) + ReapInterval + 2 * Delay
                <= Silence(ReapInterval)
          /\ Silence(ReapInterval) \in Nat
          /\ Skew[s] \in 0..Spread
      BY <2>1, Room, LateFacts
    <2>4. /\ now \in Nat /\ since[s] \in Nat /\ row.until \in Int
          /\ reaper.at \in Nat /\ reaper.pc \in {"asleep", "calling"}
      BY <2>1, Fields DEF TypeOK
    <2>5. CASE reaper.pc = "asleep"
      <3>1. /\ now <= reaper.at + ReapInterval + Delay
            /\ reaper.at + ReaperSkew <= row.until + Late(reaper.missed, ReapInterval)
        BY <2>1, <2>5 DEF ClocksOK, LeasesOK, Watched
      <3> QED BY <2>2, <2>3, <2>4, <3>1
    <2>6. CASE reaper.pc = "calling"
      <3>1. /\ now <= reaper.at + Delay
            /\ reaper.at + ReaperSkew
                  <= row.until + Late(reaper.missed, ReapInterval) + ReapInterval + Delay
        BY <2>1, <2>6 DEF ClocksOK, LeasesOK, Watched
      <3> QED BY <2>2, <2>3, <2>4, <3>1
    <2> QED BY <2>4, <2>5, <2>6
  <1> QED BY <1>1, TimingInvInductive, PTL

\* For all settings with Timely and a threshold above the lease, GET /health
\* reports a worker that is running a job as running.
THEOREM BusyIsReported == Spec => []BusyIsRunning
  <1>1. TimingInv => BusyIsRunning
    <2> SUFFICES ASSUME TimingInv, Timely, Lease + Spread < Threshold,
                        NEW s \in Slots, pc[s] = "running"
                 PROVE  WorkerStatus = "running"
      BY DEF BusyIsRunning
    <2>1. TypeOK /\ ClocksOK /\ LeasesOK /\ HolderOK
      BY DEF TimingInv
    <2>2. now + ReaperSkew <= row.until
      BY <2>1, LeaseRuns
    <2>3. row.until = row.beat + Lease
      BY <2>1 DEF LeasesOK, Fresh, HolderOK
    <2>4. now \in Nat /\ row.until \in Int /\ row.beat \in Int
      BY <2>1, Fields DEF TypeOK
    <2> QED BY <2>2, <2>3, <2>4 DEF WorkerStatus
  <1> QED BY <1>1, TimingInvInductive, PTL
=============================================================================
