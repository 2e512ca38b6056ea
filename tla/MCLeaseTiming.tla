--------------------------- MODULE MCLeaseTiming ----------------------------
(* Values for the constants of LeaseTiming, and its states up to a shift of *)
(* time: no action and no property depends on more than differences of      *)
(* times, so two states with the same ages have the same futures.           *)
EXTENDS LeaseTiming, TLC

CONSTANTS s1, s2

\* The clock of one worker host is ahead of the other's.
MCSkew == (s1 :> 0) @@ (s2 :> 1)

\* The age of what is still used; a heartbeat older than any cutoff has none.
AgeIf(used, time) == IF used THEN now - time ELSE 0

\* A crash is timed from while its slot holds the row.
Holds(s) == row.status = "processing" /\ row.owner = s

Ages ==
    << row.status, row.owner, AgeIf(row.status = "processing", row.until),
       AgeIf(row.beat > now - Threshold - Spread, row.beat - Threshold),
       pc, [s \in Slots |-> AgeIf(\/ pc[s] = "claiming"
                                  \/ pc[s] = "gone" /\ Holds(s), since[s])],
       beat, [s \in Slots |-> AgeIf(beat[s] # "off", beatAt[s])],
       [s \in Slots |-> IF beat[s] # "off" THEN missed[s] ELSE 0],
       reaper.pc, AgeIf(TRUE, reaper.at), reaper.missed >>
=============================================================================
