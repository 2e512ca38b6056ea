----------------------------- MODULE MCWorkers ------------------------------
(* Values for the constants of Workers.                                    *)
EXTENDS Workers, TLC

CONSTANTS w1, w2, w3, p1, p2, p3

MCTexts == {"hello", "HELLO", "hi", "bye"}

\* hash_text lowercases: two of the texts have the same digest, and one of
\* them is similar to the third, as is every text to itself.
MCHashes == {"h", "i", "b"}
MCHashOf == ("hello" :> "h") @@ ("HELLO" :> "h") @@ ("hi" :> "i") @@ ("bye" :> "b")
MCNear == {<<"hi", "hello">>, <<"hello", "hi">>} \cup {<<t, t>> : t \in MCTexts}

OneText == p1 :> "hi"

\* Two spellings of one text, and a text that is similar to one of them.
TwoSpellings == (p1 :> "hello") @@ (p2 :> "HELLO") @@ (p3 :> "hi")

OnePriority == p1 :> 2
\* One prompt goes first.
OneUrgent == [p \in Prompts |-> IF p = p2 THEN 1 ELSE 2]

\* Each slot a process of its own, or two slots of one process and a third.
OneSlotEach == [w \in Workers |-> w]
TwoProcesses == [w \in Workers |-> IF w = w3 THEN "m2" ELSE "m1"]

AllProcesses == {ProcessOf[w] : w \in Workers}
\* At least one process outlives the others.
AllButOne == AllProcesses \ {ProcessOf[w1]}

Nowhere == {}
Everywhere == Pcs
WholePipeline == PipelinePcs
AnyDbCall == DbPcs

\* The two calls that complete a step another transaction has begun: the job's
\* row after the request's, the request's row after the job's.
SecondHalves == {"finishJob", "markFailed"}
NotMarkFailed == Pcs \ {"markFailed"}
NotBetween == Pcs \ SecondHalves
BeatNotBetween == PipelinePcs \ {"markFailed"}
DbNotBetween == DbPcs \ SecondHalves
=============================================================================
