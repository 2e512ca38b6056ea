---------------------------- MODULE PromptSystem ----------------------------
(***************************************************************************)
(* The whole system: handlers of the API and worker slots over the same    *)
(* tables, starting empty.  The two sides share no other state; a worker's *)
(* NOTIFY prompt_done_<id> reaches the handlers that are listening.        *)
(***************************************************************************)
EXTENDS Workers, Api

CONSTANT NotifyFails    \* whether a NOTIFY prompt_done_<id> may fail

ASSUME PromptSystemAssumption == NotifyFails \in BOOLEAN

systemVars == <<request, job, cache, slot, call>>

SystemInit ==
    /\ request = [p \in Prompts |-> NoRequest]
    /\ job = [p \in Prompts |-> NoJob]
    /\ cache = {}
    /\ slot = [w \in Workers |-> IdleSlot]
    /\ ApiInit

\* The worker's notification is delivered, or its failure is swallowed.
Notify(w) ==
    /\ NotifyDone(w)
    /\ \/ call' = Woken(slot[w].prompt)
       \/ NotifyFails /\ UNCHANGED call

WorkerSide ==
    \/ \E w \in Workers :
          Claim(w) \/ PipelineStep(w) \/ Heartbeat(w) \/ Accident(w)
    \/ \E p \in Prompts : Passage(p)
    \/ Reap

SystemNext ==
    \/ WorkerSide /\ UNCHANGED call
    \/ \E w \in Workers : Notify(w)
    \/ \E c \in Calls : ApiStep(c) /\ UNCHANGED slot

SystemSpec == SystemInit /\ [][SystemNext]_systemVars

\* Handlers keep running.  Nothing is assumed of the workers, which may all be
\* gone, nor that deadlines pass.
FairSystemSpec ==
    SystemSpec /\ \A c \in Calls : WF_systemVars(CallStep(c) /\ UNCHANGED slot)

-----------------------------------------------------------------------------
(* Properties                                                              *)

\* Rows, slots and handlers have their types, a request and its job are
\* inserted together, and a handler past its check waits for a row that exists.
SystemTypeOK ==
    /\ TypeOK
    /\ call \in [Calls -> CallState]
    /\ \A c \in Calls :
          /\ call[c].pc # "idle" => call[c].prompt \in Prompts
          /\ call[c].pc \in Busy \ {"check", "depth", "insert"} =>
                request[call[c].prompt].status # "absent"

Answered(c) == call[c].reply.code = "ok" /\ call[c].reply.status = "completed"

\* The response in c's reply answers the text that c was posted with, or one
\* that is similar to a text with the same digest.
OwnAnswer(c) ==
    \/ HashOf[call[c].reply.response] = HashOf[call[c].text]
    \/ \E t \in Texts : /\ HashOf[t] = HashOf[call[c].text]
                        /\ <<t, call[c].reply.response>> \in Near

\* An insert that lost its race: the decision was to insert, but should_notify
\* was never set.
LostRace(c) == call[c].action = "insert_new" /\ ~call[c].notify

\* The idempotency check keeps texts apart: however calls and workers
\* interleave, a client that is given an answer is given one for its own text,
\* except through the insert race.
AnswersItsText ==
    \A c \in Calls : Answered(c) /\ ~LostRace(c) => OwnAnswer(c)

\* The same without the exception: a prompt id posted with another text is
\* refused, never answered.
NoForeignAnswer == \A c \in Calls : Answered(c) => OwnAnswer(c)

\* What a client was told stays true: a prompt that was reported completed is
\* completed, with the response that was reported.
ReplyStands ==
    \A c \in Calls : Answered(c) /\ call[c].pc = "idle" =>
        /\ request[call[c].prompt].status = "completed"
        /\ request[call[c].prompt].response = call[c].reply.response

\* No request that its clients wait for is left with a job that is finished,
\* unless a handler is about to reset the job.
NobodyStranded ==
    \A p \in Prompts : request[p].status = "queued" =>
        \/ Served(p)
        \/ \E c \in Calls : call[c].prompt = p /\ call[c].pc = "resetJob"

\* The calls between the pre-check and the last read.
WaitPcs == {"precheck", "listen", "wakeWorkers", "wait", "poll"}

\* Every wait ends: a call is answered once its prompt is settled, although
\* LISTEN comes after the pre-check and NOTIFY may fail, so that its handler may
\* never be told, and without the help of its deadline.  It is answered once its
\* deadline has passed, although the workers may all be gone, and may have woken
\* it again and again by attempts that did not settle the prompt.
EveryCallReplied ==
    \A c \in Calls :
        \/ call[c].late
        \/ call[c].pc \in WaitPcs /\ Terminal(call[c].prompt)
        ~> call[c].pc = "idle"
=============================================================================
