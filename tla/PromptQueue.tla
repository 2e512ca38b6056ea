---------------------------- MODULE PromptQueue -----------------------------
(***************************************************************************)
(* What the queue of prompts promises its clients: a prompt is worked on   *)
(* by one worker at a time, is answered at most once and keeps its answer  *)
(* for good, or is given up, after which a client may submit it again.  A  *)
(* worker may drop a prompt at any moment, and another one takes it over.  *)
(* The system is shown to implement this specification as long as no       *)
(* worker is stopped between the two transactions that settle a prompt and *)
(* clients do not submit it again at the same time.                        *)
(***************************************************************************)
CONSTANTS Prompts, Workers, Texts, None

VARIABLES
    outcome,   \* what a client sees of each prompt
    answer,    \* the answer of a completed prompt
    holder     \* the worker each prompt is being worked on by, or None

vars == <<outcome, answer, holder>>

Init ==
    /\ outcome \in [Prompts -> {"absent", "pending"}]
    /\ answer = [p \in Prompts |-> None]
    /\ holder = [p \in Prompts |-> None]

Submit(p) ==
    /\ outcome[p] \in {"absent", "failed"}
    /\ outcome' = [outcome EXCEPT ![p] = "pending"]
    /\ UNCHANGED <<answer, holder>>

Take(w, p) ==
    /\ outcome[p] = "pending"
    /\ holder[p] = None
    /\ \A q \in Prompts : holder[q] # w
    /\ holder' = [holder EXCEPT ![p] = w]
    /\ UNCHANGED <<outcome, answer>>

Answer(w, p) ==
    /\ holder[p] = w
    /\ outcome[p] = "pending"
    /\ outcome' = [outcome EXCEPT ![p] = "completed"]
    /\ \E t \in Texts : answer' = [answer EXCEPT ![p] = t]
    /\ UNCHANGED holder

GiveUp(w, p) ==
    /\ holder[p] = w
    /\ outcome[p] = "pending"
    /\ outcome' = [outcome EXCEPT ![p] = "failed"]
    /\ holder' = [holder EXCEPT ![p] = None]
    /\ UNCHANGED answer

\* The workers in lost let go of what they hold.
Drop(lost) ==
    /\ holder' = [p \in Prompts |-> IF holder[p] \in lost THEN None ELSE holder[p]]
    /\ UNCHANGED <<outcome, answer>>

\* Prompts that nobody works on are given up.
Expire(dropped) ==
    /\ \A p \in dropped : outcome[p] = "pending" /\ holder[p] = None
    /\ outcome' = [p \in Prompts |-> IF p \in dropped THEN "failed" ELSE outcome[p]]
    /\ UNCHANGED <<answer, holder>>

Next ==
    \/ \E w \in Workers, p \in Prompts : Take(w, p) \/ Answer(w, p) \/ GiveUp(w, p)
    \/ \E p \in Prompts : Submit(p)
    \/ \E lost \in SUBSET Workers : Drop(lost)
    \/ \E dropped \in SUBSET Prompts : Expire(dropped)

Spec == Init /\ [][Next]_vars
=============================================================================
