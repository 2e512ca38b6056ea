--------------------------- MODULE MCPromptSystem ---------------------------
(* Values for the constants that PromptSystem adds to those of Workers.    *)
EXTENDS PromptSystem, MCWorkers

CONSTANTS a1, a2

AlikeCalls == Permutations(Calls)

Post(p, t, prio) == [prompt |-> p, text |-> t, priority |-> prio]

\* One prompt id posted with two unrelated texts.
TwoTexts == {Post(p1, "hello", 2), Post(p1, "bye", 2)}
\* And with two texts that have one digest.
OneDigest == {Post(p1, "hello", 2), Post(p1, "HELLO", 2)}

AnyApiCall == Busy
\* Not between the two transactions of a re-enqueue.
ApiNotBetween == Busy \ {"resetJob"}
=============================================================================
