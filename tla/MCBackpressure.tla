-------------------------- MODULE MCBackpressure ----------------------------
(* Values for the constants of Backpressure.  Every prompt has its own text. *)
EXTENDS Backpressure, TLC

CONSTANTS p1, p2, p3, a1, a2

OneTextEach == Prompts
OwnHash == [t \in Prompts |-> t]
OwnText == {[prompt |-> p, text |-> p, priority |-> 2] : p \in Prompts}

Alike == Permutations(Prompts) \cup Permutations(Calls)

\* What a step or DepthBound reads.
Read ==
    << [p \in Prompts |-> request[p].status],
       [p \in Prompts |-> job[p].status],
       [c \in Calls |-> IF call[c].pc = "idle" THEN <<>>
                        ELSE <<call[c].pc, call[c].prompt, call[c].notify, call[c].late>>],
       finished >>
=============================================================================
