---------------------------- MODULE LeaseTiming -----------------------------
(***************************************************************************)
(* The lease of one job in time: the slots that claim it, the heartbeat of *)
(* the slot that runs it, the reaper, and the worker line of GET /health.  *)
(* Workers takes "the heartbeat is in time" as a parameter (StallAt); this *)
(* module derives it from the settings and from bounds on lateness.        *)
(*                                                                         *)
(* A call reads the clock of its host when it is made and takes effect, if *)
(* it does not fail, when it returns; beatAt and reaper.at hold the time   *)
(* of the last event of a timer, which is that time stamp while a call is  *)
(* under way.                                                              *)
(***************************************************************************)
EXTENDS Integers

CONSTANTS
    Slots, None,
    Lease,          \* settings.lease_seconds
    Interval,       \* settings.heartbeat_interval
    ReapInterval,   \* settings.reaper_interval
    Threshold,      \* worker_heartbeat_threshold_seconds
    Delay,          \* bound: a database call, or a wake-up, is at most this late
    Missable,       \* bound: heartbeats or reaper rounds that fail in a row
    Spread,         \* bound: how far the clocks of the hosts are apart
    Skew, ReaperSkew, ApiSkew    \* how far each clock is ahead

ASSUME LeaseTimingAssumption ==
    /\ None \notin Slots
    /\ Lease \in Nat /\ Interval \in Nat /\ ReapInterval \in Nat
    /\ Threshold \in Nat /\ Delay \in Nat /\ Missable \in Nat
    /\ Spread \in Nat
    /\ Skew \in [Slots -> 0..Spread]
    /\ ReaperSkew \in 0..Spread /\ ApiSkew \in 0..Spread

VARIABLES
    now,       \* the time
    row,       \* the job: status, worker_id, locked_until, last_heartbeat_at
    pc,        \* by slot: what it is doing ...
    since,     \* ... and since when
    beat,      \* by slot: its heartbeat task,
    beatAt,    \* the time of its last event,
    missed,    \* and how many of its calls have failed in a row
    reaper     \* the reaper of a process that stays up, likewise

vars == <<now, row, pc, since, beat, beatAt, missed, reaper>>

\* "closing" is the end of a job, from the write that lets go of the row to the
\* end of heartbeat.stop(); "gone" is a slot whose process was killed.
SlotPcs == {"idle", "claiming", "running", "closing", "gone"}

Reaper == [pc: {"asleep", "calling"}, at: Nat, missed: Nat]

\* NULL in last_heartbeat_at: older than any cutoff.
NeverBeat == -Threshold

Row == [status: {"queued", "processing", "settled"}, owner: Slots \cup {None},
        until: Int, beat: Int]

Init ==
    /\ now = 0
    /\ row = [status |-> "queued", owner |-> None, until |-> 0, beat |-> NeverBeat]
    /\ pc = [s \in Slots |-> "idle"]
    /\ since = [s \in Slots |-> 0]
    /\ beat = [s \in Slots |-> "off"]
    /\ beatAt = [s \in Slots |-> 0]
    /\ missed = [s \in Slots |-> 0]
    /\ reaper = [pc |-> "asleep", at |-> 0, missed |-> 0]

-----------------------------------------------------------------------------
(* JobClaimer and the end of a job                                         *)

GoTo(s, label) ==
    /\ pc' = [pc EXCEPT ![s] = label]
    /\ since' = [since EXCEPT ![s] = now]

\* claim_next computes locked_until before its transaction.
CallClaim(s) ==
    /\ pc[s] = "idle"
    /\ GoTo(s, "claiming")
    /\ UNCHANGED <<now, row, beat, beatAt, missed, reaper>>

\* The job is taken, and HeartbeatManager.start.
Claimed(s) ==
    /\ pc[s] = "claiming"
    /\ row.status = "queued"
    /\ row' = [status |-> "processing", owner |-> s,
               until |-> since[s] + Skew[s] + Lease, beat |-> since[s] + Skew[s]]
    /\ GoTo(s, "running")
    /\ beat' = [beat EXCEPT ![s] = "asleep"]
    /\ beatAt' = [beatAt EXCEPT ![s] = now]
    /\ missed' = [missed EXCEPT ![s] = 0]
    /\ UNCHANGED <<now, reaper>>

\* There is nothing to claim.
NoJob(s) ==
    /\ pc[s] = "claiming"
    /\ row.status # "queued"
    /\ GoTo(s, "idle")
    /\ UNCHANGED <<now, row, beat, beatAt, missed, reaper>>

\* mark_completed or mark_dead, which match the row by its id.
Settle(s) ==
    /\ pc[s] = "running"
    /\ row' = [row EXCEPT !.status = "settled", !.until = 0]
    /\ GoTo(s, "closing")
    /\ UNCHANGED <<now, beat, beatAt, missed, reaper>>

\* release_lease, for a retry or a deferral.
Release(s) ==
    /\ pc[s] = "running"
    /\ row' = IF row.owner = s
              THEN [row EXCEPT !.status = "queued", !.owner = None, !.until = 0]
              ELSE row
    /\ GoTo(s, "closing")
    /\ UNCHANGED <<now, beat, beatAt, missed, reaper>>

\* Mutant of StopBeat: the task is not cancelled.
StopBeatForgets(s) ==
    /\ pc[s] = "closing"
    /\ GoTo(s, "idle")
    /\ UNCHANGED <<now, row, beat, beatAt, missed, reaper>>

\* HeartbeatManager.stop.
StopBeat(s) ==
    /\ pc[s] = "closing"
    /\ GoTo(s, "idle")
    /\ beat' = [beat EXCEPT ![s] = "off"]
    /\ UNCHANGED <<now, row, beatAt, missed, reaper>>

\* The process is killed; a statement that was under way has no effect.
Crash(s) ==
    /\ pc[s] # "gone"
    /\ GoTo(s, "gone")
    /\ beat' = [beat EXCEPT ![s] = "off"]
    /\ UNCHANGED <<now, row, beatAt, missed, reaper>>

\* reset_job, when a client posts a failed prompt again.
Reset ==
    /\ row.status = "settled"
    /\ row' = [status |-> "queued", owner |-> None, until |-> 0, beat |-> NeverBeat]
    /\ UNCHANGED <<now, pc, since, beat, beatAt, missed, reaper>>

-----------------------------------------------------------------------------
(* HeartbeatManager._run                                                   *)

CallBeat(s) ==
    /\ beat[s] = "asleep"
    /\ now >= beatAt[s] + Interval
    /\ beat' = [beat EXCEPT ![s] = "calling"]
    /\ beatAt' = [beatAt EXCEPT ![s] = now]
    /\ UNCHANGED <<now, row, pc, since, missed, reaper>>

\* Mutants of Extended: one of the two columns is not written, or the lease is
\* added to what is left of it.
ExtendedBeatOnly(r, t) == [r EXCEPT !.beat = t]
ExtendedUntilOnly(r, t) == [r EXCEPT !.until = t + Lease]
ExtendedFurther(r, t) == [r EXCEPT !.until = @ + Lease, !.beat = t]

\* The UPDATE of extend_lease, with the time the call was made.
Extended(r, t) == [r EXCEPT !.until = t + Lease, !.beat = t]

Beaten(s) ==
    /\ beat[s] = "calling"
    /\ row.owner = s
    /\ row.status = "processing"
    /\ row' = Extended(row, beatAt[s] + Skew[s])
    /\ beat' = [beat EXCEPT ![s] = "asleep"]
    /\ beatAt' = [beatAt EXCEPT ![s] = now]
    /\ missed' = [missed EXCEPT ![s] = 0]
    /\ UNCHANGED <<now, pc, since, reaper>>

\* The UPDATE matched no row: the pipeline, if it still runs, is cancelled.
LeaseLost(s) ==
    /\ beat[s] = "calling"
    /\ ~(row.owner = s /\ row.status = "processing")
    /\ GoTo(s, "closing")
    /\ beat' = [beat EXCEPT ![s] = "off"]
    /\ UNCHANGED <<now, row, beatAt, missed, reaper>>

\* The UPDATE raises: logged, and tried again after another interval.
BeatFails(s) ==
    /\ beat[s] = "calling"
    /\ missed[s] < Missable
    /\ beat' = [beat EXCEPT ![s] = "asleep"]
    /\ beatAt' = [beatAt EXCEPT ![s] = now]
    /\ missed' = [missed EXCEPT ![s] = @ + 1]
    /\ UNCHANGED <<now, row, pc, since, reaper>>

-----------------------------------------------------------------------------
(* Reaper.run                                                              *)

CallReap ==
    /\ reaper.pc = "asleep"
    /\ now >= reaper.at + ReapInterval
    /\ reaper' = [reaper EXCEPT !.pc = "calling", !.at = now]
    /\ UNCHANGED <<now, row, pc, since, beat, beatAt, missed>>

Expired == row.status = "processing" /\ row.until < reaper.at + ReaperSkew

Rested(failures) == [pc |-> "asleep", at |-> now, missed |-> failures]

\* An expired job is queued again, or given up with worker_id and locked_until
\* left as they are.
Reap ==
    /\ reaper.pc = "calling"
    /\ \/ /\ Expired
          /\ \/ row' = [row EXCEPT !.status = "queued", !.owner = None, !.until = 0]
             \/ row' = [row EXCEPT !.status = "settled"]
       \/ ~Expired /\ UNCHANGED row
    /\ reaper' = Rested(0)
    /\ UNCHANGED <<now, pc, since, beat, beatAt, missed>>

\* The transaction raises: logged, and tried again after another interval.
ReapFails ==
    /\ reaper.pc = "calling"
    /\ reaper.missed < Missable
    /\ reaper' = Rested(reaper.missed + 1)
    /\ UNCHANGED <<now, row, pc, since, beat, beatAt, missed>>

-----------------------------------------------------------------------------
(* Time                                                                    *)

\* What is due happens before its lateness reaches the bound.
InTime ==
    /\ \A s \in Slots :
          /\ pc[s] = "claiming" => now < since[s] + Delay
          /\ beat[s] = "asleep" => now < beatAt[s] + Interval + Delay
          /\ beat[s] = "calling" => now < beatAt[s] + Delay
    /\ reaper.pc = "asleep" => now < reaper.at + ReapInterval + Delay
    /\ reaper.pc = "calling" => now < reaper.at + Delay

Tick ==
    /\ InTime
    /\ now' = now + 1
    /\ UNCHANGED <<row, pc, since, beat, beatAt, missed, reaper>>

Next ==
    \/ \E s \in Slots :
          \/ CallClaim(s) \/ Claimed(s) \/ NoJob(s) \/ Settle(s) \/ Release(s)
          \/ StopBeat(s) \/ Crash(s)
          \/ CallBeat(s) \/ Beaten(s) \/ LeaseLost(s) \/ BeatFails(s)
    \/ Reset
    \/ CallReap \/ Reap \/ ReapFails
    \/ Tick

Spec == Init /\ [][Next]_vars

-----------------------------------------------------------------------------
(* Properties                                                              *)

\* The state has its type, and a heartbeat task exists only from start() to
\* stop() of a slot whose process is alive.
TypeOK ==
    /\ now \in Nat
    /\ row \in Row
    /\ pc \in [Slots -> SlotPcs]
    /\ since \in [Slots -> Nat]
    /\ beat \in [Slots -> {"off", "asleep", "calling"}]
    /\ beatAt \in [Slots -> Nat]
    /\ missed \in [Slots -> Nat]
    /\ reaper \in Reaper
    /\ \A s \in Slots : beat[s] # "off" => pc[s] \in {"running", "closing"}

\* The longest time from one call of a timer's loop to the end of the next.
Round(interval) == interval + 2 * Delay

\* The longest time from the time stamp of a call that succeeded to the end of
\* the next call that does.
Silence(interval) == Delay + (Missable + 1) * Round(interval)

\* The relation of the settings and the lateness that makes leases safe.
Timely == Silence(Interval) + Spread <= Lease

\* If the settings leave room for the heartbeats that fail and for lateness, a
\* slot that runs a job owns it and the reaper, on its own clock, does not find
\* the lease expired: LeaseLapses of module Workers needs a slot that is late.
LeaseKept ==
    Timely => \A s \in Slots : pc[s] = "running" =>
        /\ row.status = "processing"
        /\ row.owner = s
        /\ now + ReaperSkew <= row.until

\* The job of a slot that was killed is taken back one lease and one silence of
\* the reaper after the crash, at the latest.
ReclaimedInTime ==
    Timely => \A s \in Slots :
        pc[s] = "gone" /\ row.owner = s /\ row.status = "processing" =>
            now <= since[s] + Lease + Silence(ReapInterval) + Spread

\* HealthChecker._check_worker.
WorkerStatus == IF row.beat > now + ApiSkew - Threshold THEN "running" ELSE "idle"

\* GET /health does not report a worker as idle that is running a job, whatever
\* clocks, failed heartbeats and hand-overs there are.
BusyIsRunning ==
    Timely /\ Lease + Spread < Threshold =>
        \A s \in Slots : pc[s] = "running" => WorkerStatus = "running"
=============================================================================
