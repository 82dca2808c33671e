----------------------------- MODULE TurnTools -----------------------------
(***************************************************************************)
(* The reply of one turn and its tool calls (session/session.go,            *)
(* tool_orchestrator.go): from the recognised text to the end of the turn,  *)
(* with the batches of calls that run beside the pump.  An agent bridge may *)
(* answer; otherwise the LLM is asked, and an answer of tool calls alone is *)
(* followed by one request with the results (or one without, when there are *)
(* none to tell), whose calls may lead to a last one.  Calls that come with *)
(* text run in goroutines.  The turn may be left behind (stale) or its      *)
(* context cancelled (done) at every step.  What is spoken is reduced to    *)
(* whether there is text; VoiceLoop has the sound.  Calls are numbered as   *)
(* they are made, and every list of the code keeps that order: a list of    *)
(* calls is the set of their numbers.                                       *)
(***************************************************************************)
EXTENDS Integers, Sequences, FiniteSets

CONSTANTS
    Kinds,          \* kinds of tool calls: members of AllKinds
    MaxMade,        \* bound: tool calls the model makes in the turn
    MaxChunks,      \* bound: chunks of its answers
    MaxPerBatch,    \* maxCallsPerTurn
    Policies        \* the configurations: ToolResultFollowUpPolicy and whether
                    \* there is an orchestrator

\* A tool whose results are told, any other, one that is refused: without a name,
\* a permission or a registration, or a body tool that the voice path hides.
AllKinds == {"lookup", "device", "refused"}

ASSUME ToolsAssumption ==
    /\ Kinds \subseteq AllKinds
    /\ MaxMade \in Nat /\ MaxChunks \in Nat /\ MaxPerBatch \in Nat \ {0}
    /\ \A p \in Policies :
         /\ p.configured \in BOOLEAN /\ p.enabled \in BOOLEAN
         /\ p.allowCalls \in BOOLEAN /\ p.maxCalls \in Nat \ {0}
         /\ p.allowed \subseteq AllKinds

Ids == 1 .. MaxMade
Rounds == {"answer", "followup", "recovery", "final"}

\* A batch: the calls it has still to run, in their order, and those it has run.
Batch(ids) == [todo |-> ids, done |-> {}]
NoBatch == Batch({})

VARIABLES
    policy,                     \* one of Policies
    pc, round, requests, chunks, \* the pump: where it is, LLM requests, chunks read
    textSeen, spoken,           \* text in this answer, in any
    calls,                      \* the calls made so far: their kind and round
    pending,                    \* followUpToolCalls
    sync, batches,              \* the batch the pump runs, those of goroutines
    result, ran, records,       \* per call: outcome, executions, trace events
    asked,                      \* calls whose outcomes the next prompt may tell
    stale, done,                \* ~turn.IsCurrent, runtime.Context.Done
    ended, counted              \* recordTurnComplete: how, and countError

pumpVars == <<pc, round, requests, chunks, textSeen, spoken>>
callVars == <<calls, pending, sync, batches, result, ran, records, asked>>
endVars  == <<ended, counted>>
ctxVars  == <<stale, done>>
vars == <<policy, pumpVars, callVars, ctxVars, endVars>>

Init ==
    /\ policy \in Policies
    /\ pc = "route" /\ round = "answer" /\ requests = 0 /\ chunks = 0
    /\ textSeen = FALSE /\ spoken = FALSE
    /\ calls = <<>> /\ pending = {} /\ sync = NoBatch /\ batches = {}
    /\ result = [i \in Ids |-> "none"] /\ ran = [i \in Ids |-> 0]
    /\ records = [i \in Ids |-> 0] /\ asked = {}
    /\ stale = FALSE /\ done = FALSE
    /\ ended = "no" /\ counted = FALSE

-----------------------------------------------------------------------------
\* recordTurnComplete: only the first one counts.
Complete(how, countError) ==
    IF ended # "no" THEN UNCHANGED endVars
    ELSE ended' = how /\ counted' = countError

\* The pump returns from handleASRFinal.
End(how, countError) == pc' = "over" /\ Complete(how, countError)

\* The model makes calls of these kinds.
NewCalls(ks) ==
    /\ Len(calls) + Len(ks) <= MaxMade
    /\ calls' = calls \o [i \in 1 .. Len(ks) |-> [kind |-> ks[i], round |-> round]]
NewIds(ks) == Len(calls) + 1 .. Len(calls) + Len(ks)
SomeKinds == {<<>>} \cup {<<k>> : k \in Kinds}

\* executeLLMToolCalls: a goroutine for the batch.
Launch(lists) == batches' = batches \cup {Batch(ids) : ids \in lists \ {{}}}

-----------------------------------------------------------------------------
\* handleAgentModeCommand, handleProviderProfileCommand, handleAgentRuntimeRoute.
\* Nobody handles the text, or the agent bridge is skipped, fails or has nothing.
RouteToLLM ==
    /\ pc = "route" /\ pc' = "ask"
    /\ UNCHANGED <<policy, round, requests, chunks, textSeen, spoken, callVars,
                   ctxVars, endVars>>

\* The bridge answers with text, tool calls or both; speakSystemText always speaks.
RouteHandled ==
    /\ pc = "route"
    /\ \E ks \in SomeKinds :
         NewCalls(ks) /\ Launch({NewIds(ks)})
    /\ pc' = "flush" /\ spoken' = TRUE
    /\ UNCHANGED <<policy, round, requests, chunks, textSeen, pending, sync, result,
                   ran, records, asked, ctxVars, endVars>>

\* A command handler fails, or the bridge because the turn is cancelled.
RouteFails ==
    /\ pc = "route" /\ End("failed", TRUE)
    /\ UNCHANGED <<policy, round, requests, chunks, textSeen, spoken, callVars, ctxVars>>

\* LLM.Stream: the request goes out before it returns, and a cancelled context
\* makes it fail.  An LLM context that cannot be built is such a failure, too.
AskLLM ==
    /\ pc = "ask" /\ ~done
    /\ pc' = "read" /\ requests' = requests + 1 /\ textSeen' = FALSE
    /\ pending' = {}
    /\ UNCHANGED <<policy, round, chunks, spoken, calls, sync, batches, result, ran,
                   records, asked, ctxVars, endVars>>

AskFails ==
    /\ pc = "ask" /\ requests' = requests + 1 /\ End("failed", TRUE)
    /\ UNCHANGED <<policy, round, chunks, textSeen, spoken, callVars, ctxVars>>

-----------------------------------------------------------------------------
\* Mutant: the recovery answer waits for the LLM alone.
WatchesAnswers == round # "recovery"

\* Every loop over chunks selects on runtime.Context.Done.
Watches == round \in Rounds

\* The cancelled follow-up returns nil and flushRemainingTTS ends the turn.
ReadCancelled ==
    /\ pc = "read" /\ done /\ Watches
    /\ End("cancelled", FALSE)
    /\ UNCHANGED <<policy, round, requests, chunks, textSeen, spoken, callVars, ctxVars>>

ReadStale ==
    /\ pc = "read" /\ stale
    /\ End("stale", FALSE)
    /\ UNCHANGED <<policy, round, requests, chunks, textSeen, spoken, callVars, ctxVars>>

\* speakLLMChunkText: the text is said or the downlink or the TTS fails.
Speak(text) ==
    /\ spoken' = (spoken \/ text)
    /\ \/ pc' = "read" /\ UNCHANGED endVars
       \/ text /\ End("failed", TRUE)

Chunk(text, ks) ==
    /\ pc = "read" /\ ~stale /\ chunks < MaxChunks
    /\ text \/ ks # <<>>
    /\ NewCalls(ks) /\ chunks' = chunks + 1
    /\ textSeen' = (textSeen \/ text)
    /\ Speak(text)
    /\ UNCHANGED <<policy, round, requests, sync, ran, asked, ctxVars>>

\* Mutant: the calls collected before the text are not forgotten when they run.
KeepPending == pending' = pending

ForgetPending == pending' = {}

\* streamLLMAndTTS: calls without text are collected, the first text lets them go.
AnswerChunk(text, ks) ==
    /\ round = "answer" /\ Chunk(text, ks)
    /\ IF text
       THEN ForgetPending /\ Launch({pending, NewIds(ks)})
       ELSE pending' = pending \cup NewIds(ks) /\ UNCHANGED batches
    /\ UNCHANGED <<result, records>>

\* recordSuppressedFollowUpToolCalls.
Suppress(ids) ==
    /\ result' = [i \in Ids |-> IF i \in ids THEN "skipped" ELSE result[i]]
    /\ records' = [i \in Ids |-> IF i \in ids THEN records[i] + 1 ELSE records[i]]

\* runToolResultFollowUp: its calls are collected until there is text, if allowed.
Collects(text) == round = "followup" /\ policy.allowCalls /\ ~textSeen /\ ~text

FollowUpChunk(text, ks) ==
    /\ round # "answer" /\ Chunk(text, ks)
    /\ IF Collects(text)
       THEN pending' = pending \cup NewIds(ks) /\ UNCHANGED <<result, records>>
       ELSE Suppress(NewIds(ks)) /\ UNCHANGED pending
    /\ UNCHANGED batches

-----------------------------------------------------------------------------
\* The end of an answer.  A select between it and Done takes either.
Finish(next) ==
    /\ pc = "read" /\ pc' = next
    /\ UNCHANGED <<policy, round, requests, chunks, textSeen, spoken, calls, ran,
                   ctxVars, endVars>>

ToolsOnly == ~textSeen /\ pending # {}

\* runToolResultFollowUp begins with the calls.
AnswerOfTools ==
    /\ round = "answer" /\ ToolsOnly /\ Finish("run")
    /\ sync' = Batch(pending) /\ asked' = pending /\ pending' = {}
    /\ UNCHANGED <<batches, result, records>>

AnswerOfText ==
    /\ round = "answer" /\ ~ToolsOnly /\ Finish("flush")
    /\ Launch({pending}) /\ pending' = {}
    /\ UNCHANGED <<sync, asked, result, records>>

IsAllowed(i) == calls[i].kind \in policy.allowed

EarlierAllowed(i) == {j \in pending : j < i /\ IsAllowed(j)}

\* Mutant: a call more than MaxToolCalls is let through.
ExecutableAndOne ==
    {i \in pending : IsAllowed(i) /\ Cardinality(EarlierAllowed(i)) <= policy.maxCalls}

\* executeToolFollowUpToolCallsSync: the first MaxToolCalls of allowed tools.
Executable ==
    {i \in pending : IsAllowed(i) /\ Cardinality(EarlierAllowed(i)) < policy.maxCalls}

FollowUpOfTools ==
    /\ round = "followup" /\ ToolsOnly /\ Finish("run")
    /\ sync' = Batch(Executable) /\ asked' = asked \cup pending
    /\ Suppress(pending \ Executable)
    /\ pending' = {} /\ UNCHANGED batches

\* Calls that were collected before the text are dropped here.
FollowUpOfText ==
    /\ round # "answer" /\ ~(round = "followup" /\ ToolsOnly) /\ Finish("flush")
    /\ UNCHANGED <<pending, sync, batches, asked, result, records>>

-----------------------------------------------------------------------------
\* ExecuteToolCalls, call by call; executeOne has a time-out of its own.
Outcomes(i, index) ==
    IF ~policy.configured \/ index > MaxPerBatch \/ calls[i].kind = "refused"
    THEN {"skipped"} ELSE {"result", "failed"}

Reaches(i, outcome) ==
    /\ outcome # "skipped"
    /\ ran' = [ran EXCEPT ![i] = @ + 1]

First(ids) == CHOOSE i \in ids : \A j \in ids : i <= j

RunCall(batch) ==
    LET i == First(batch.todo) IN
    /\ batch.todo # {}
    /\ \E outcome \in Outcomes(i, Cardinality(batch.done) + 1) :
         /\ result' = [result EXCEPT ![i] = outcome]
         /\ Reaches(i, outcome) \/ (outcome = "skipped" /\ UNCHANGED ran)

AfterCall(batch) ==
    LET i == First(batch.todo)
    IN  [todo |-> batch.todo \ {i}, done |-> batch.done \cup {i}]

RunSync ==
    /\ pc = "run" /\ RunCall(sync) /\ sync' = AfterCall(sync)
    /\ UNCHANGED <<policy, pumpVars, calls, pending, batches, records, asked, ctxVars,
                   endVars>>

RunInBackground(batch) ==
    /\ RunCall(batch)
    /\ batches' = (batches \ {batch}) \cup {AfterCall(batch)}
    /\ UNCHANGED <<policy, pumpVars, calls, pending, sync, records, asked, ctxVars,
                   endVars>>

\* The outcomes are traced when the whole batch has run.
Record(batch) ==
    /\ batch.todo = {}
    /\ records' = [i \in Ids |-> IF i \in batch.done THEN records[i] + 1 ELSE records[i]]

EndBackground(batch) ==
    /\ Record(batch) /\ batches' = batches \ {batch}
    /\ UNCHANGED <<policy, pumpVars, calls, pending, sync, result, ran, asked, ctxVars,
                   endVars>>

\* buildToolFollowUpPromptWithPolicy finds a result it may tell.
Tells == \E i \in asked : /\ result[i] = "result"
                          /\ policy.allowed = {} \/ IsAllowed(i)

\* Mutant: without a result to tell the reply ends.
AfterToolsWithoutRecovery ==
    IF ~Tells THEN "none" ELSE IF round = "answer" THEN "followup" ELSE "final"

\* runToolResultFollowUp, runToolResultRecoveryAnswer, runToolResultFinalAnswer.
AfterTools ==
    IF round = "answer" THEN IF Tells THEN "followup" ELSE "recovery"
    ELSE "final"

EndSync ==
    /\ pc = "run" /\ Record(sync) /\ sync' = NoBatch
    /\ IF policy.enabled /\ AfterTools # "none"
       THEN pc' = "ask" /\ round' = AfterTools
       ELSE pc' = "flush" /\ UNCHANGED round
    /\ UNCHANGED <<policy, requests, chunks, textSeen, spoken, calls, pending, batches,
                   result, ran, asked, ctxVars, endVars>>

-----------------------------------------------------------------------------
\* flushRemainingTTS.
Flush ==
    /\ pc = "flush"
    /\ \/ done /\ End("cancelled", FALSE)
       \/ stale /\ ~done /\ End("stale", FALSE)
       \/ ~done /\ ~stale /\ End("complete", FALSE)
       \/ End("failed", TRUE)
    /\ UNCHANGED <<policy, round, requests, chunks, textSeen, spoken, callVars, ctxVars>>

\* The session moves on: abort, listen/start, close.
LeaveBehind ==
    /\ ~stale /\ pc # "over" /\ stale' = TRUE
    /\ UNCHANGED <<policy, pumpVars, callVars, done, endVars>>

\* ... and cancels its active turn, which a finished one is not.
Cancel ==
    /\ ~done /\ pc # "over" /\ done' = TRUE
    /\ UNCHANGED <<policy, pumpVars, callVars, stale, endVars>>

-----------------------------------------------------------------------------
Answers == \/ \E text \in BOOLEAN, ks \in SomeKinds : AnswerChunk(text, ks)
           \/ \E text \in BOOLEAN, ks \in SomeKinds : FollowUpChunk(text, ks)
           \/ AnswerOfTools \/ AnswerOfText \/ FollowUpOfTools \/ FollowUpOfText

Pump == \/ RouteToLLM \/ RouteHandled \/ RouteFails \/ AskLLM \/ AskFails
        \/ ReadCancelled \/ ReadStale \/ RunSync \/ EndSync \/ Flush

Background == \E b \in batches : RunInBackground(b) \/ EndBackground(b)

Next == Pump \/ Answers \/ Background \/ LeaveBehind \/ Cancel

\* The pump and the tools, whose calls time out, go on; the LLM may be silent.
Fairness == WF_vars(Pump) /\ WF_vars(Background)

Spec == Init /\ [][Next]_vars /\ Fairness

-----------------------------------------------------------------------------
Made == DOMAIN calls
Over == pc = "over" /\ batches = {}

\* The types of the variables.
TypeOK ==
    /\ policy \in Policies /\ round \in Rounds
    /\ pc \in {"route", "ask", "read", "run", "flush", "over"}
    /\ requests \in 0 .. 3 /\ chunks \in 0 .. MaxChunks
    /\ calls \in Seq([kind : Kinds, round : Rounds]) /\ Len(calls) <= MaxMade
    /\ pending \subseteq Made /\ asked \subseteq Made
    /\ \A b \in batches \cup {sync} :
         b \in [todo : SUBSET Made, done : SUBSET Made]
    /\ result \in [Ids -> {"none", "result", "failed", "skipped"}]
    /\ ran \in [Ids -> Nat] /\ records \in [Ids -> Nat]
    /\ textSeen \in BOOLEAN /\ spoken \in BOOLEAN
    /\ stale \in BOOLEAN /\ done \in BOOLEAN /\ counted \in BOOLEAN
    /\ ended \in {"no", "complete", "cancelled", "stale", "failed"}
    /\ (ended = "no") = (pc # "over")

\* Every tool call of a finished turn was run at most once and traced exactly
\* once, whichever of the rounds, goroutines or refusals it went through: only a
\* turn that broke off leaves calls, and a follow-up that spoke after its calls.
EveryCallIsAccounted ==
    /\ \A i \in Ids : ran[i] <= 1 /\ records[i] <= 1
    /\ Over /\ ended = "complete" =>
         \A i \in Made : records[i] = 1 \/ (calls[i].round = "followup" /\ spoken)

\* "preventing successful tool-only turns from ending silently": a turn whose
\* tools ran ends without a word only if the LLM was asked once more.
SilentTurnsAskedTwice ==
    Over /\ ended = "complete" /\ policy.enabled /\ Made # {} /\ ~spoken =>
        requests >= 2

\* "executes at most max_tool_calls", of the allowed tools: what the answers after
\* the first one make run, however many rounds, chunks and calls they have.
FollowUpIsBounded ==
    LET extra == {i \in Made : calls[i].round # "answer" /\ ran[i] > 0}
    IN  /\ Cardinality(extra) <= policy.maxCalls
        /\ extra # {} => policy.allowCalls
        /\ \A i \in extra : IsAllowed(i)

\* A turn whose context is cancelled ends, whatever the LLM does, and its tools.
CancelEnds == done ~> Over

-----------------------------------------------------------------------------
(* The inductive strengthening used by the proofs.                          *)

IdsOf(batch) == batch.todo \cup batch.done

\* A call is in one list at most.
ListsAreDisjoint ==
    /\ \A b \in batches \cup {sync} : b.todo \cap b.done = {} /\ IdsOf(b) \cap pending = {}
    /\ \A b \in batches : IdsOf(b) \cap IdsOf(sync) = {}
    /\ \A b, c \in batches : b # c => IdsOf(b) \cap IdsOf(c) = {}

\* A call has not run while it waits, nor is it traced before its batch ends;
\* one that is in no list has been.
CallsAreCounted ==
    /\ \A i \in Ids : ran[i] <= 1 /\ records[i] <= 1
    /\ \A i \in Ids \ Made : ran[i] = 0 /\ records[i] = 0
    /\ \A i \in pending : ran[i] = 0 /\ records[i] = 0
    /\ \A b \in batches \cup {sync} :
         /\ \A i \in b.todo : ran[i] = 0
         /\ \A i \in IdsOf(b) : records[i] = 0
    /\ \A i \in Made : \/ records[i] = 1
                       \/ i \in pending
                       \/ \E b \in batches \cup {sync} : i \in IdsOf(b)

\* Only an answer or a follow-up being read collects calls, its own; text drops
\* those of a follow-up.
PendingIsCollected ==
    /\ pc \in {"route", "ask", "run"} => pending = {}
    /\ round \in {"recovery", "final"} => pending = {}
    /\ \A i \in pending : calls[i].round = round
    /\ textSeen => spoken
    /\ pc = "flush" \/ ended = "complete" => pending = {} \/ (round = "followup" /\ spoken)
    /\ pc # "run" => sync = NoBatch

\* The number of requests tells the round; a silent answer has only collected.
RequestsAreCounted ==
    /\ LET n == CASE round = "answer" -> 0 [] round = "final" -> 2 [] OTHER -> 1
       IN  requests = n + (IF pc \in {"route", "ask"} THEN 0 ELSE 1)
           \/ (requests = 0 /\ round = "answer" /\ pc \in {"flush", "over"} /\ spoken)
           \/ (requests = 0 /\ round = "answer" /\ pc = "over" /\ ended # "complete")
    /\ round # "answer" => policy.enabled
    /\ pc = "run" => round \in {"answer", "followup"}
    /\ pc = "route" => round = "answer" /\ Made = {}
    /\ round = "answer" /\ pc \in {"ask", "read"} /\ ~spoken => Made = pending
    /\ round = "answer" /\ (pc = "flush" \/ ended = "complete") /\ policy.enabled
          => spoken \/ Made = {}

\* The calls of later answers that have run.
Extra == {i \in Made : calls[i].round # "answer" /\ ran[i] > 0}
Running == pc = "run" /\ round = "followup"

\* Later calls run in one batch only, of allowed tools and bounded.
ExtraIsOneBatch ==
    /\ \A b \in batches : \A i \in IdsOf(b) : calls[i].round = "answer"
    /\ \A i \in IdsOf(sync) : calls[i].round = round
    /\ round = "followup" /\ pending # {} => policy.allowCalls
    /\ round # "final" /\ ~Running => Extra = {}
    /\ Running =>
         /\ Extra \subseteq sync.done
         /\ IdsOf(sync) # {} => policy.allowCalls
         /\ Cardinality(IdsOf(sync)) <= policy.maxCalls
         /\ \A i \in IdsOf(sync) : IsAllowed(i)

IInv ==
    /\ TypeOK
    /\ ListsAreDisjoint /\ CallsAreCounted /\ PendingIsCollected
    /\ RequestsAreCounted
    /\ ExtraIsOneBatch /\ FollowUpIsBounded
=============================================================================
