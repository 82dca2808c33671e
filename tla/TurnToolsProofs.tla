-------------------------- MODULE TurnToolsProofs --------------------------
(***************************************************************************)
(* The inductive invariant of TurnTools and its consequences, for every     *)
(* number of calls, chunks and policies.                                    *)
(***************************************************************************)
EXTENDS TurnTools, FiniteSetTheorems, SequenceTheorems, WellFoundedInduction,
        TLAPS

LEMMA Bounds ==
    /\ MaxMade \in Nat /\ MaxChunks \in Nat /\ MaxPerBatch \in Nat \ {0}
    /\ \A i : i \in Ids <=> i \in Nat /\ i >= 1 /\ i <= MaxMade
    /\ Kinds \subseteq AllKinds
    /\ \A p \in Policies :
         /\ p.enabled \in BOOLEAN /\ p.allowCalls \in BOOLEAN
         /\ p.maxCalls \in Nat \ {0}
  BY ToolsAssumption DEF Ids

\* A set of numbers that is not empty has a least element.
LEMMA LeastExists ==
    ASSUME NEW S \in SUBSET Nat, S # {}
    PROVE  \E m \in S : \A k \in S : m <= k
<1> DEFINE T == {0 .. n : n \in S}
<1>1. IsWellFoundedOn(StrictSubsetOrdering(Nat), FiniteSubsetsOf(Nat))
  BY FS_StrictSubsetOrderingWellFounded
<1>2. T \subseteq FiniteSubsetsOf(Nat) /\ T # {}
  <2>1. \A n \in S : IsFiniteSet(0 .. n) /\ 0 .. n \in SUBSET Nat
    BY FS_Interval
  <2>2. QED
    BY <2>1 DEF FiniteSubsetsOf
<1> HIDE DEF T
<1>3. PICK x \in T : \A y \in T : ~(<<y, x>> \in StrictSubsetOrdering(Nat))
  BY <1>1, <1>2, WFMin
<1>4. PICK m \in S : x = 0 .. m
  BY <1>3 DEF T
<1>5. \A k \in S : m <= k
  <2>1. SUFFICES ASSUME NEW k \in S, k < m
                 PROVE  FALSE
    OBVIOUS
  <2>2. 0 .. k \in T /\ 0 .. k \subseteq 0 .. m /\ 0 .. k # 0 .. m
    BY <2>1 DEF T
  <2>3. <<0 .. k, 0 .. m>> \in StrictSubsetOrdering(Nat)
    BY <2>2 DEF StrictSubsetOrdering
  <2>4. QED
    BY <1>3, <1>4, <2>2, <2>3
<1>6. QED
  BY <1>5

LEMMA FirstIsWaiting ==
    ASSUME NEW S \in SUBSET Nat, S # {}
    PROVE  First(S) \in S
  BY LeastExists DEF First

\* ... and one that is bounded has a greatest.
LEMMA GreatestExists ==
    ASSUME NEW n \in Nat, NEW S \in SUBSET (0 .. n), S # {}
    PROVE  \E m \in S : \A k \in S : k <= m
<1> DEFINE T == {n - i : i \in S}
<1>1. T \in SUBSET Nat /\ T # {}
  <2>1. \A i \in S : n - i \in Nat
    OBVIOUS
  <2>2. T # {}
    OBVIOUS
  <2>3. QED
    BY <2>1, <2>2
<1>2. PICK t \in T : \A u \in T : t <= u
  BY <1>1, LeastExists
<1>3. PICK m \in S : t = n - m
  BY <1>2
<1>4. ASSUME NEW k \in S
      PROVE  k <= m
  <2>1. n - m <= n - k
    BY <1>2, <1>3
  <2>2. k \in 0 .. n /\ m \in 0 .. n
    OBVIOUS
  <2>3. QED
    BY <2>1, <2>2
<1>5. QED
  BY <1>4

\* The calls of a follow-up that may run are as many as the policy allows.
LEMMA ExecutableIsBounded ==
    ASSUME TypeOK
    PROVE  IsFiniteSet(Executable) /\ Cardinality(Executable) <= policy.maxCalls
<1>1. /\ policy.maxCalls \in Nat \ {0} /\ MaxMade \in Nat /\ Made = 1 .. Len(calls)
      /\ Len(calls) \in Nat /\ Len(calls) <= MaxMade /\ pending \subseteq Made
  BY Bounds DEF TypeOK, Made
<1>2. Executable \in SUBSET (0 .. MaxMade) /\ pending \in SUBSET (0 .. MaxMade)
  <2>1. 1 .. Len(calls) \subseteq 0 .. MaxMade
    BY <1>1
  <2>2. Executable \subseteq pending
    BY DEF Executable
  <2>3. QED
    BY <1>1, <2>1, <2>2
<1>3. IsFiniteSet(Executable) /\ IsFiniteSet(pending)
  <2>1. IsFiniteSet(0 .. MaxMade)
    BY <1>1, FS_Interval
  <2>2. QED
    BY <1>2, <2>1, FS_Subset
<1>4. CASE Executable = {}
  BY <1>1, <1>3, <1>4, FS_EmptySet
<1>5. CASE Executable # {}
  <2>1. PICK m \in Executable : \A k \in Executable : k <= m
    BY <1>1, <1>2, <1>5, GreatestExists
  <2>2. Executable \subseteq EarlierAllowed(m) \cup {m}
    <3>1. SUFFICES ASSUME NEW k \in Executable, k # m
                   PROVE  k \in EarlierAllowed(m)
      OBVIOUS
    <3>2. k <= m /\ k \in 0 .. MaxMade /\ m \in 0 .. MaxMade
      BY <1>2, <2>1
    <3>3. QED
      BY <3>1, <3>2, <1>1 DEF EarlierAllowed, Executable
  <2>3. IsFiniteSet(EarlierAllowed(m))
    BY <1>3, FS_Subset DEF EarlierAllowed
  <2>4. Cardinality(EarlierAllowed(m)) \in Nat /\ Cardinality(EarlierAllowed(m)) < policy.maxCalls
    BY <2>1, <2>3, FS_CardinalityType DEF Executable
  <2>5. /\ IsFiniteSet(EarlierAllowed(m) \cup {m})
        /\ Cardinality(EarlierAllowed(m) \cup {m}) <= Cardinality(EarlierAllowed(m)) + 1
    <3>1. /\ IsFiniteSet(EarlierAllowed(m) \cup {m})
          /\ Cardinality(EarlierAllowed(m) \cup {m}) =
                IF m \in EarlierAllowed(m) THEN Cardinality(EarlierAllowed(m))
                ELSE Cardinality(EarlierAllowed(m)) + 1
      BY <2>3, FS_AddElement
    <3>2. QED
      BY <2>4, <3>1
  <2>6. Cardinality(Executable) <= Cardinality(EarlierAllowed(m) \cup {m})
    BY <2>2, <2>5, FS_Subset
  <2>7. Cardinality(EarlierAllowed(m) \cup {m}) \in Nat /\ Cardinality(Executable) \in Nat
    BY <1>3, <2>5, FS_CardinalityType
  <2>8. QED
    BY <1>1, <1>3, <2>4, <2>5, <2>6, <2>7
<1>6. QED
  BY <1>4, <1>5

-----------------------------------------------------------------------------
\* What new calls are.
LEMMA CallsMade ==
    ASSUME TypeOK
    PROVE  /\ Made = 1 .. Len(calls) /\ Len(calls) \in Nat /\ Made \subseteq Ids
           /\ \A i \in Made : calls[i].kind \in Kinds /\ calls[i].round \in Rounds
<1>1. calls \in Seq([kind : Kinds, round : Rounds]) /\ Len(calls) <= MaxMade
  BY DEF TypeOK
<1>2. /\ Len(calls) \in Nat /\ DOMAIN calls = 1 .. Len(calls)
      /\ calls \in [1 .. Len(calls) -> [kind : Kinds, round : Rounds]]
  BY <1>1, LenProperties
<1>3. 1 .. Len(calls) \subseteq Ids
  BY <1>1, <1>2, Bounds
<1>4. QED
  BY <1>2, <1>3 DEF Made

LEMMA NewCallsEffect ==
    ASSUME TypeOK, NEW ks \in SomeKinds, NewCalls(ks)
    PROVE  /\ calls' \in Seq([kind : Kinds, round : Rounds]) /\ Len(calls') <= MaxMade
           /\ Made' = Made \cup NewIds(ks) /\ Made \cap NewIds(ks) = {}
           /\ Made' \subseteq Ids
           /\ \A i \in Made : calls'[i] = calls[i]
           /\ \A i \in NewIds(ks) : calls'[i].round = round
           /\ ks = <<>> => NewIds(ks) = {}
<1> DEFINE R == [kind : Kinds, round : Rounds]
           n == Len(calls)
           new == [i \in 1 .. Len(ks) |-> [kind |-> ks[i], round |-> round]]
<1>1. calls \in Seq(R) /\ n \in Nat /\ n <= MaxMade /\ round \in Rounds
  BY CallsMade DEF TypeOK
<1>2. Len(ks) \in Nat /\ (ks = <<>> => Len(ks) = 0) /\ \A i \in 1 .. Len(ks) : ks[i] \in Kinds
  BY DEF SomeKinds
<1>3. new \in Seq(R) /\ Len(new) = Len(ks)
  BY <1>1, <1>2
<1>4. calls' = calls \o new /\ n + Len(ks) <= MaxMade
  BY DEF NewCalls
<1>4a. \A j \in 1 .. Len(ks) : new[j].round = round
  OBVIOUS
<1> HIDE DEF new, R
<1>5. /\ calls' \in Seq(R) /\ Len(calls') = n + Len(ks)
      /\ \A i \in 1 .. n + Len(ks) : calls'[i] = IF i <= n THEN calls[i] ELSE new[i - n]
  <2>1. /\ calls \o new \in Seq(R) /\ Len(calls \o new) = Len(calls) + Len(new)
        /\ \A i \in 1 .. Len(calls) + Len(new) :
              (calls \o new)[i] = IF i <= Len(calls) THEN calls[i] ELSE new[i - Len(calls)]
    BY <1>1, <1>3, ConcatProperties, Zenon
  <2>2. QED
    BY <1>3, <1>4, <2>1
<1>6. \A i \in NewIds(ks) : i - n \in 1 .. Len(ks) /\ i \in 1 .. n + Len(ks) /\ ~(i <= n)
  BY <1>1, <1>2 DEF NewIds
<1>7. \A i \in NewIds(ks) : calls'[i].round = round
  BY <1>5, <1>6, <1>4a
<1>8. /\ Made' = 1 .. n + Len(ks) /\ Made = 1 .. n
  BY <1>1, <1>5, LenProperties DEF Made
<1>9. /\ Made' = Made \cup NewIds(ks) /\ Made \cap NewIds(ks) = {}
      /\ ks = <<>> => NewIds(ks) = {}
  BY <1>1, <1>2, <1>8 DEF NewIds
<1>10. Made' \subseteq Ids
  BY <1>1, <1>2, <1>4, <1>8, Bounds
<1>11. \A i \in Made : calls'[i] = calls[i]
  BY <1>1, <1>2, <1>5, <1>8
<1>12. QED
  BY <1>1, <1>4, <1>5, <1>7, <1>9, <1>10, <1>11 DEF R

LEMMA BatchTypes ==
    ASSUME NEW M, NEW ids \in SUBSET M
    PROVE  Batch(ids) \in [todo : SUBSET M, done : SUBSET M]
  BY DEF Batch

LEMMA BatchGrows ==
    ASSUME NEW M, NEW N, M \subseteq N, NEW b \in [todo : SUBSET M, done : SUBSET M]
    PROVE  b \in [todo : SUBSET N, done : SUBSET N]
<1>1. /\ b = [todo |-> b.todo, done |-> b.done]
      /\ b.todo \in SUBSET N /\ b.done \in SUBSET N
  OBVIOUS
<1>2. QED
  BY <1>1

LEMMA LaunchTypes ==
    ASSUME NEW M, NEW lists \in SUBSET (SUBSET M), Launch(lists),
           \A b \in batches : b \in [todo : SUBSET M, done : SUBSET M]
    PROVE  \A b \in batches' : b \in [todo : SUBSET M, done : SUBSET M]
  BY BatchTypes DEF Launch

\* What running a call changes.
LEMMA CallRuns ==
    ASSUME TypeOK, NEW b \in batches \cup {sync}, RunCall(b)
    PROVE  LET i == First(b.todo)
           IN  /\ i \in b.todo /\ i \in Ids
               /\ AfterCall(b) = [todo |-> b.todo \ {i}, done |-> b.done \cup {i}]
               /\ AfterCall(b) \in [todo : SUBSET Made, done : SUBSET Made]
               /\ IdsOf(AfterCall(b)) = IdsOf(b)
               /\ result' \in [Ids -> {"none", "result", "failed", "skipped"}]
               /\ ran' \in [Ids -> Nat] /\ ran'[i] \in {ran[i], ran[i] + 1}
               /\ \A j \in Ids : j # i => ran'[j] = ran[j]
<1> DEFINE i == First(b.todo)
<1>1. b \in [todo : SUBSET Made, done : SUBSET Made] /\ b.todo # {}
  BY DEF TypeOK, RunCall
<1>2. Made \subseteq Ids /\ Ids \subseteq Nat
  BY CallsMade, Bounds
<1>3. i \in b.todo /\ i \in Ids
  BY <1>1, <1>2, FirstIsWaiting
<1>4. AfterCall(b) = [todo |-> b.todo \ {i}, done |-> b.done \cup {i}]
  BY DEF AfterCall
<1> HIDE DEF i
<1>5. /\ AfterCall(b) \in [todo : SUBSET Made, done : SUBSET Made]
      /\ IdsOf(AfterCall(b)) = IdsOf(b)
  BY <1>1, <1>3, <1>4 DEF IdsOf
<1>6. PICK outcome \in {"skipped", "result", "failed"} :
        /\ result' = [result EXCEPT ![i] = outcome]
        /\ ran' = [ran EXCEPT ![i] = @ + 1] \/ ran' = ran
  BY DEF RunCall, Outcomes, Reaches, i
<1>7. /\ result \in [Ids -> {"none", "result", "failed", "skipped"}]
      /\ ran \in [Ids -> Nat]
  BY DEF TypeOK
<1>8. result' \in [Ids -> {"none", "result", "failed", "skipped"}]
  BY <1>6, <1>7
<1>9. /\ ran' \in [Ids -> Nat] /\ ran'[i] \in {ran[i], ran[i] + 1}
      /\ \A j \in Ids : j # i => ran'[j] = ran[j]
  BY <1>3, <1>6, <1>7
<1>10. QED
  BY <1>3, <1>4, <1>5, <1>8, <1>9 DEF i

\* What a suppressed call becomes.
LEMMA SuppressEffect ==
    ASSUME TypeOK, NEW ids, Suppress(ids)
    PROVE  /\ result' \in [Ids -> {"none", "result", "failed", "skipped"}]
           /\ records' \in [Ids -> Nat]
           /\ \A i \in Ids : records'[i] = IF i \in ids THEN records[i] + 1 ELSE records[i]
  BY DEF Suppress, TypeOK

LEMMA RecordEffect ==
    ASSUME TypeOK, NEW b, Record(b)
    PROVE  /\ records' \in [Ids -> Nat] /\ b.todo = {}
           /\ \A i \in Ids : records'[i] = IF i \in b.done THEN records[i] + 1 ELSE records[i]
  BY DEF Record, TypeOK

\* recordTurnComplete leaves an end that has been told.
LEMMA EndEffect ==
    ASSUME TypeOK, NEW how \in {"complete", "cancelled", "stale", "failed"},
           NEW countError \in BOOLEAN, pc # "over", End(how, countError)
    PROVE  pc' = "over" /\ ended' = how /\ counted' = countError
  BY DEF End, Complete, TypeOK

\* A step either stays with the pump's reading, or is one of the other steps.
Reads == \/ \E text \in BOOLEAN, ks \in SomeKinds : AnswerChunk(text, ks)
         \/ \E text \in BOOLEAN, ks \in SomeKinds : FollowUpChunk(text, ks)

\* A chunk is said, or the turn fails saying it.
LEMMA ChunkEffect ==
    ASSUME TypeOK, NEW text \in BOOLEAN, NEW ks \in SomeKinds, Chunk(text, ks)
    PROVE  /\ pc = "read" /\ ended = "no" /\ (text \/ ks # <<>>) /\ NewCalls(ks)
           /\ chunks' \in 0 .. MaxChunks
           /\ textSeen' = (textSeen \/ text) /\ spoken' = (spoken \/ text)
           /\ \/ pc' = "read" /\ UNCHANGED endVars
              \/ pc' = "over" /\ ended' = "failed" /\ counted' = TRUE
           /\ UNCHANGED <<policy, round, requests, sync, ran, asked, ctxVars>>
<1>1. pc = "read" /\ ended = "no"
  BY DEF Chunk, TypeOK
<1>2. chunks' \in 0 .. MaxChunks
  BY Bounds DEF Chunk, TypeOK
<1>3. \/ pc' = "read" /\ UNCHANGED endVars
      \/ pc' = "over" /\ ended' = "failed" /\ counted' = TRUE
  BY <1>1, EndEffect DEF Chunk, Speak
<1>4. textSeen' = (textSeen \/ text) /\ spoken' = (spoken \/ text)
  BY Zenon DEF Chunk, Speak
<1>5. QED
  BY <1>1, <1>2, <1>3, <1>4 DEF Chunk

-----------------------------------------------------------------------------
NextCases ==
    \/ RouteToLLM \/ RouteHandled \/ RouteFails
    \/ AskLLM \/ AskFails \/ ReadCancelled \/ ReadStale
    \/ Reads
    \/ AnswerOfTools \/ AnswerOfText \/ FollowUpOfTools \/ FollowUpOfText
    \/ RunSync \/ EndSync \/ Flush
    \/ \E b \in batches : RunInBackground(b) \/ EndBackground(b)
    \/ LeaveBehind \/ Cancel
    \/ UNCHANGED vars

LEMMA Cases == [Next]_vars => NextCases
  BY DEF Next, Pump, Answers, Background, NextCases, Reads

\* The steps of the pump that make, move or run no call.
Passes == RouteToLLM \/ RouteFails \/ AskFails \/ ReadCancelled \/ ReadStale \/ Flush
          \/ LeaveBehind \/ Cancel \/ UNCHANGED vars

LEMMA PassesKeepCalls ==
    ASSUME Passes
    PROVE  UNCHANGED <<policy, round, calls, pending, sync, batches, result, ran, records,
                       asked, textSeen, spoken, chunks>>
  BY DEF Passes, RouteToLLM, RouteFails, AskFails, ReadCancelled, ReadStale, Flush,
     LeaveBehind, Cancel, callVars, pumpVars, ctxVars, endVars, vars

Ends == {"complete", "cancelled", "stale", "failed"}

\* Where they leave the pump.
LEMMA PassesGo ==
    ASSUME TypeOK, Passes
    PROVE  /\ stale' \in BOOLEAN /\ done' \in BOOLEAN
           /\ \/ pc = "route" /\ pc' = "ask" /\ UNCHANGED <<requests, endVars>>
              \/ pc = "route" /\ pc' = "over" /\ ended' = "failed" /\ UNCHANGED requests
                 /\ counted' \in BOOLEAN
              \/ pc = "ask" /\ pc' = "over" /\ ended' = "failed" /\ requests' = requests + 1
                 /\ counted' \in BOOLEAN
              \/ pc = "read" /\ pc' = "over" /\ ended' \in {"cancelled", "stale"}
                 /\ UNCHANGED requests /\ counted' \in BOOLEAN
              \/ pc = "flush" /\ pc' = "over" /\ ended' \in Ends /\ UNCHANGED requests
                 /\ counted' \in BOOLEAN
              \/ UNCHANGED <<pc, requests, endVars>>
<1> USE DEF TypeOK, ctxVars
<1>1. CASE RouteToLLM
  BY <1>1 DEF RouteToLLM
<1>2. CASE RouteFails
  BY <1>2, EndEffect DEF RouteFails
<1>3. CASE AskFails
  BY <1>3, EndEffect DEF AskFails
<1>4. CASE ReadCancelled
  BY <1>4, EndEffect DEF ReadCancelled
<1>5. CASE ReadStale
  BY <1>5, EndEffect DEF ReadStale
<1>6. CASE Flush
  BY <1>6, EndEffect DEF Flush, Ends
<1>7. CASE LeaveBehind \/ Cancel \/ UNCHANGED vars
  BY <1>7 DEF LeaveBehind, Cancel, vars, pumpVars, endVars
<1>8. QED
  BY <1>1, <1>2, <1>3, <1>4, <1>5, <1>6, <1>7 DEF Passes

LEMMA CountTypes ==
    ASSUME TypeOK, RequestsAreCounted
    PROVE  /\ requests \in Nat /\ requests <= 3
           /\ pc \in {"route", "ask"} => requests <= 2
  BY DEF TypeOK, RequestsAreCounted, Rounds

\* The types of what a chunk makes.
LEMMA ChunkTypes ==
    ASSUME TypeOK, NEW text \in BOOLEAN, NEW ks \in SomeKinds, Chunk(text, ks),
           pending' \subseteq Made',
           \A b \in batches' : b \in [todo : SUBSET Made', done : SUBSET Made'],
           result' \in [Ids -> {"none", "result", "failed", "skipped"}],
           records' \in [Ids -> Nat]
    PROVE  TypeOK'
<1>1. /\ calls' \in Seq([kind : Kinds, round : Rounds]) /\ Len(calls') <= MaxMade
      /\ Made \subseteq Made'
  BY ChunkEffect, NewCallsEffect
<1>2. /\ policy' \in Policies /\ round' \in Rounds /\ requests' \in 0 .. 3
      /\ chunks' \in 0 .. MaxChunks /\ ran' \in [Ids -> Nat]
      /\ stale' \in BOOLEAN /\ done' \in BOOLEAN
  BY ChunkEffect DEF TypeOK, ctxVars
<1>3. /\ asked' \subseteq Made' /\ sync' \in [todo : SUBSET Made', done : SUBSET Made']
  <2>1. asked' = asked /\ sync' = sync /\ asked \subseteq Made
        /\ sync \in [todo : SUBSET Made, done : SUBSET Made]
    BY ChunkEffect DEF TypeOK
  <2>2. QED
    BY <1>1, <2>1, BatchGrows
<1>4. textSeen' \in BOOLEAN /\ spoken' \in BOOLEAN
  <2>1. textSeen' = (textSeen \/ text) /\ spoken' = (spoken \/ text)
    BY ChunkEffect
  <2>2. QED
    BY <2>1
<1>5. /\ pc' \in {"read", "over"} /\ counted' \in BOOLEAN
      /\ ended' \in {"no", "failed"} /\ ((ended' = "no") = (pc' # "over"))
  BY ChunkEffect DEF TypeOK, endVars
<1>6. QED
  BY <1>1, <1>2, <1>3, <1>4, <1>5 DEF TypeOK

\* The types of the steps that make no call.
LEMMA MoveTypes ==
    ASSUME TypeOK, UNCHANGED <<calls, requests, chunks, ctxVars>>,
           policy' = policy, round' \in Rounds,
           pc' \in {"route", "ask", "read", "run", "flush", "over"},
           pending' \subseteq Made, asked' \subseteq Made,
           sync' \in [todo : SUBSET Made, done : SUBSET Made],
           \A b \in batches' : b \in [todo : SUBSET Made, done : SUBSET Made],
           result' \in [Ids -> {"none", "result", "failed", "skipped"}],
           ran' \in [Ids -> Nat], records' \in [Ids -> Nat],
           UNCHANGED <<textSeen, spoken, endVars>>, pc' = "over" <=> pc = "over"
    PROVE  TypeOK'
<1>1. Made' = Made
  BY DEF Made
<1>2. QED
  BY <1>1 DEF TypeOK, ctxVars, endVars

LEMMA StepTypes ==
    ASSUME TypeOK, RequestsAreCounted, [Next]_vars
    PROVE  TypeOK'
<1>1. /\ \A b \in batches \cup {sync} : b \in [todo : SUBSET Made, done : SUBSET Made]
      /\ pending \subseteq Made /\ asked \subseteq Made
      /\ round \in Rounds /\ ran \in [Ids -> Nat] /\ records \in [Ids -> Nat]
      /\ result \in [Ids -> {"none", "result", "failed", "skipped"}]
      /\ NoBatch \in [todo : SUBSET Made, done : SUBSET Made]
  BY DEF TypeOK, NoBatch, Batch
<1>2. CASE Passes
  <2>1. UNCHANGED <<policy, round, calls, pending, sync, batches, result, ran, records,
                    asked, textSeen, spoken, chunks>>
    BY <1>2, PassesKeepCalls
  <2>2. /\ stale' \in BOOLEAN /\ done' \in BOOLEAN /\ counted' \in BOOLEAN
        /\ pc' \in {"route", "ask", "read", "run", "flush", "over"}
        /\ ended' \in {"no"} \cup Ends /\ ((ended' = "no") = (pc' # "over"))
    BY <1>2, PassesGo DEF TypeOK, Ends, endVars
  <2>3. requests' \in 0 .. 3
    BY <1>2, PassesGo, CountTypes DEF TypeOK
  <2>4. Made' = Made
    BY <2>1 DEF Made
  <2>5. QED
    BY <2>1, <2>2, <2>3, <2>4 DEF TypeOK, Ends
<1>3. CASE RouteHandled
  <2>1. PICK ks \in SomeKinds : NewCalls(ks) /\ Launch({NewIds(ks)})
    BY <1>3 DEF RouteHandled
  <2>2. /\ calls' \in Seq([kind : Kinds, round : Rounds]) /\ Len(calls') <= MaxMade
        /\ Made \subseteq Made' /\ NewIds(ks) \subseteq Made'
    BY <2>1, NewCallsEffect
  <2>3. \A b \in batches' : b \in [todo : SUBSET Made', done : SUBSET Made']
    <3>1. \A b \in batches : b \in [todo : SUBSET Made', done : SUBSET Made']
      BY <1>1, <2>2, BatchGrows
    <3>2. {NewIds(ks)} \in SUBSET (SUBSET Made')
      BY <2>2
    <3>3. QED
      BY <2>1, <3>1, <3>2, LaunchTypes
  <2>4. /\ pc' = "flush" /\ spoken' = TRUE /\ ended = "no"
        /\ UNCHANGED <<policy, round, requests, chunks, textSeen, pending, sync, result,
                       ran, records, asked, ctxVars, endVars>>
    BY <1>3 DEF RouteHandled, TypeOK
  <2>5. QED
    BY <2>2, <2>3, <2>4 DEF TypeOK, ctxVars, endVars
<1>4. CASE AskLLM
  <2>1. requests' \in 0 .. 3
    BY <1>4, CountTypes DEF AskLLM
  <2>2. Made' = Made
    BY <1>4 DEF AskLLM, Made
  <2>3. QED
    BY <1>4, <2>1, <2>2 DEF AskLLM, TypeOK, ctxVars, endVars
<1>5. ASSUME NEW text \in BOOLEAN, NEW ks \in SomeKinds, AnswerChunk(text, ks)
      PROVE  TypeOK'
  <2>1. Chunk(text, ks) /\ UNCHANGED <<result, records>>
    BY <1>5 DEF AnswerChunk
  <2>2. Made \subseteq Made' /\ NewIds(ks) \subseteq Made'
    BY <2>1, ChunkEffect, NewCallsEffect
  <2>3. CASE text
    <3>1. Launch({pending, NewIds(ks)}) /\ pending' = {}
      BY <1>5, <2>3 DEF AnswerChunk, ForgetPending
    <3>2. \A b \in batches' : b \in [todo : SUBSET Made', done : SUBSET Made']
      <4>1. \A b \in batches : b \in [todo : SUBSET Made', done : SUBSET Made']
        BY <1>1, <2>2, BatchGrows
      <4>2. {pending, NewIds(ks)} \in SUBSET (SUBSET Made')
        BY <1>1, <2>2
      <4>3. QED
        BY <3>1, <4>1, <4>2, LaunchTypes
    <3>3. QED
      BY <1>1, <2>1, <3>1, <3>2, ChunkTypes
  <2>4. CASE ~text
    <3>1. pending' = pending \cup NewIds(ks) /\ batches' = batches
      BY <1>5, <2>4 DEF AnswerChunk
    <3>2. QED
      BY <1>1, <2>1, <2>2, <3>1, ChunkTypes
  <2>5. QED
    BY <2>3, <2>4
<1>6. ASSUME NEW text \in BOOLEAN, NEW ks \in SomeKinds, FollowUpChunk(text, ks)
      PROVE  TypeOK'
  <2>1. Chunk(text, ks) /\ batches' = batches
    BY <1>6 DEF FollowUpChunk
  <2>2. Made \subseteq Made' /\ NewIds(ks) \subseteq Made'
    BY <2>1, ChunkEffect, NewCallsEffect
  <2>3. pending' \subseteq Made'
    BY <1>1, <1>6, <2>2 DEF FollowUpChunk
  <2>4. /\ result' \in [Ids -> {"none", "result", "failed", "skipped"}]
        /\ records' \in [Ids -> Nat]
    BY <1>1, <1>6, SuppressEffect DEF FollowUpChunk
  <2>5. QED
    BY <1>1, <2>1, <2>2, <2>3, <2>4, ChunkTypes
<1>7. CASE AnswerOfTools \/ AnswerOfText \/ FollowUpOfText
  <2>1. /\ UNCHANGED <<calls, requests, chunks, ctxVars, policy, round, ran, result, records,
                       textSeen, spoken, endVars>>
        /\ pc = "read" /\ pc' \in {"run", "flush"}
        /\ pending' \in {pending, {}} /\ asked' \in {pending, asked}
    BY <1>7 DEF AnswerOfTools, AnswerOfText, FollowUpOfText, Finish
  <2>2. sync' \in [todo : SUBSET Made, done : SUBSET Made]
    <3>1. Batch(pending) \in [todo : SUBSET Made, done : SUBSET Made]
      BY <1>1, BatchTypes
    <3>2. sync' \in {Batch(pending), sync}
      BY <1>7 DEF AnswerOfTools, AnswerOfText, FollowUpOfText
    <3>3. QED
      BY <1>1, <3>1, <3>2
  <2>3. \A b \in batches' : b \in [todo : SUBSET Made, done : SUBSET Made]
    BY <1>1, <1>7, LaunchTypes DEF AnswerOfTools, AnswerOfText, FollowUpOfText
  <2>4. QED
    BY <1>1, <2>1, <2>2, <2>3, MoveTypes
<1>8. CASE FollowUpOfTools
  <2>1. /\ UNCHANGED <<calls, requests, chunks, ctxVars, policy, round, ran, batches,
                       textSeen, spoken, endVars>>
        /\ pc = "read" /\ pc' = "run"
        /\ pending' = {} /\ asked' = asked \cup pending
        /\ sync' = Batch(Executable) /\ Executable \subseteq pending
        /\ Suppress(pending \ Executable)
    BY <1>8 DEF FollowUpOfTools, Finish, Executable
  <2>2. sync' \in [todo : SUBSET Made, done : SUBSET Made]
    <3>1. Executable \in SUBSET Made
      BY <1>1, <2>1
    <3>2. QED
      BY <2>1, <3>1, BatchTypes
  <2>3. QED
    BY <1>1, <2>1, <2>2, SuppressEffect, MoveTypes
<1>9. CASE RunSync
  <2>1. /\ RunCall(sync) /\ sync' = AfterCall(sync) /\ pc = "run"
        /\ UNCHANGED <<policy, pumpVars, calls, pending, batches, records, asked, ctxVars,
                       endVars>>
    BY <1>9 DEF RunSync
  <2>2. QED
    BY <1>1, <2>1, CallRuns, MoveTypes DEF pumpVars, TypeOK
<1>10. ASSUME NEW b \in batches, RunInBackground(b)
       PROVE  TypeOK'
  <2>1. /\ RunCall(b) /\ batches' = (batches \ {b}) \cup {AfterCall(b)}
        /\ UNCHANGED <<policy, pumpVars, calls, pending, sync, records, asked, ctxVars,
                       endVars>>
    BY <1>10 DEF RunInBackground
  <2>2. QED
    BY <1>1, <2>1, CallRuns, MoveTypes DEF pumpVars, TypeOK
<1>11. ASSUME NEW b \in batches, EndBackground(b)
       PROVE  TypeOK'
  <2>1. /\ Record(b) /\ batches' = batches \ {b}
        /\ UNCHANGED <<policy, pumpVars, calls, pending, sync, result, ran, asked, ctxVars,
                       endVars>>
    BY <1>11 DEF EndBackground
  <2>2. QED
    BY <1>1, <2>1, RecordEffect, MoveTypes DEF pumpVars, TypeOK
<1>12. CASE EndSync
  <2>1. /\ Record(sync) /\ sync' = NoBatch /\ pc = "run" /\ pc' \in {"ask", "flush"}
        /\ UNCHANGED <<policy, requests, chunks, textSeen, spoken, calls, pending, batches,
                       result, ran, asked, ctxVars, endVars>>
        /\ round' \in Rounds
    BY <1>1, <1>12 DEF EndSync, AfterTools, Rounds
  <2>2. QED
    BY <1>1, <2>1, RecordEffect, MoveTypes
<1>13. QED
  BY <1>2, <1>3, <1>4, <1>5, <1>6, <1>7, <1>8, <1>9, <1>10, <1>11, <1>12, Cases
  DEF NextCases, Reads, Passes

-----------------------------------------------------------------------------
\* The lists of calls: what can happen to them.
Lists == ListsAreDisjoint /\ CallsAreCounted

\* All the calls that wait and the new ones N are given to goroutines.
LEMMA LaunchedLists ==
    ASSUME TypeOK, Lists, NEW N \in SUBSET Ids, N \cap Made = {}, Made' = Made \cup N,
           batches' = batches \cup {Batch(ids) : ids \in {pending, N} \ {{}}},
           pending' = {}, UNCHANGED <<sync, ran, records>>
    PROVE  Lists'
<1>1. /\ \A b \in batches \cup {sync} : IdsOf(b) \subseteq Made
      /\ pending \subseteq Made /\ Made \subseteq Ids
  BY CallsMade DEF TypeOK, IdsOf
<1>2. /\ \A b \in batches' : b \in batches \/ b = Batch(pending) \/ b = Batch(N)
      /\ \A b \in batches : b \in batches'
      /\ pending # {} => Batch(pending) \in batches'
      /\ N # {} => Batch(N) \in batches'
  OBVIOUS
<1>3. /\ IdsOf(Batch(pending)) = pending /\ IdsOf(Batch(N)) = N
      /\ Batch(pending).todo = pending /\ Batch(pending).done = {}
      /\ Batch(N).todo = N /\ Batch(N).done = {}
  BY DEF IdsOf, Batch
<1>4. ListsAreDisjoint'
  <2>1. \A b \in batches' \cup {sync'} : b.todo \cap b.done = {} /\ IdsOf(b) \cap pending' = {}
    BY <1>2, <1>3 DEF Lists, ListsAreDisjoint
  <2>2. \A b \in batches' : IdsOf(b) \cap IdsOf(sync') = {}
    BY <1>1, <1>2, <1>3 DEF Lists, ListsAreDisjoint
  <2>3. ASSUME NEW b \in batches', NEW c \in batches', b # c
        PROVE  IdsOf(b) \cap IdsOf(c) = {}
    <3>1. CASE b \in batches /\ c \in batches
      BY <2>3, <3>1 DEF Lists, ListsAreDisjoint
    <3>2. CASE b \in batches /\ c \notin batches
      BY <1>1, <1>2, <1>3, <3>2 DEF Lists, ListsAreDisjoint
    <3>3. CASE b \notin batches /\ c \in batches
      BY <1>1, <1>2, <1>3, <3>3 DEF Lists, ListsAreDisjoint
    <3>4. CASE b \notin batches /\ c \notin batches
      BY <1>1, <1>2, <1>3, <2>3, <3>4
    <3>5. QED
      BY <3>1, <3>2, <3>3, <3>4
  <2>4. QED
    BY <2>1, <2>2, <2>3 DEF ListsAreDisjoint, IdsOf
<1>5. CallsAreCounted'
  <2>1. \A i \in N : ran[i] = 0 /\ records[i] = 0
    BY DEF Lists, CallsAreCounted
  <2>2. \A b \in batches' \cup {sync'} :
           /\ \A i \in b.todo : ran[i] = 0
           /\ \A i \in IdsOf(b) : records[i] = 0
    BY <1>2, <1>3, <2>1 DEF Lists, CallsAreCounted
  <2>3. ASSUME NEW i \in Made'
        PROVE  \/ records[i] = 1
               \/ \E b \in batches' \cup {sync'} : i \in IdsOf(b)
    <3>1. CASE i \in N
      BY <1>2, <1>3, <3>1
    <3>2. CASE i \in pending
      BY <1>2, <1>3, <3>2
    <3>3. CASE i \in Made /\ i \notin pending
      BY <1>2, <3>3 DEF Lists, CallsAreCounted
    <3>4. QED
      BY <3>1, <3>2, <3>3
  <2>4. QED
    BY <2>2, <2>3 DEF Lists, CallsAreCounted, IdsOf
<1>6. QED
  BY <1>4, <1>5 DEF Lists

\* New calls are collected ...
LEMMA CollectedLists ==
    ASSUME TypeOK, Lists, NEW N \in SUBSET Ids, N \cap Made = {}, Made' = Made \cup N,
           pending' = pending \cup N, UNCHANGED <<sync, batches, ran, records>>
    PROVE  Lists'
<1>1. \A b \in batches \cup {sync} : IdsOf(b) \subseteq Made
  BY DEF TypeOK, IdsOf
<1>2. ListsAreDisjoint'
  <2>1. \A b \in batches \cup {sync} : IdsOf(b) \cap pending' = {}
    BY <1>1 DEF Lists, ListsAreDisjoint
  <2>2. QED
    BY <2>1 DEF Lists, ListsAreDisjoint, IdsOf
<1>3. CallsAreCounted'
  BY DEF Lists, CallsAreCounted, IdsOf
<1>4. QED
  BY <1>2, <1>3 DEF Lists

\* ... or refused.
LEMMA RefusedLists ==
    ASSUME TypeOK, Lists, NEW N \in SUBSET Ids, N \cap Made = {}, Made' = Made \cup N,
           \A i \in Ids : records'[i] = IF i \in N THEN records[i] + 1 ELSE records[i],
           UNCHANGED <<pending, sync, batches, ran>>
    PROVE  Lists'
<1>1. /\ \A b \in batches \cup {sync} : IdsOf(b) \subseteq Made
      /\ pending \subseteq Made /\ Made \subseteq Ids
  BY CallsMade DEF TypeOK, IdsOf
<1>2. /\ \A i \in N : records'[i] = 1
      /\ \A i \in Made : records'[i] = records[i]
      /\ \A i \in Ids \ Made' : records'[i] = records[i]
  BY <1>1 DEF Lists, CallsAreCounted
<1>3. ListsAreDisjoint'
  BY DEF Lists, ListsAreDisjoint, IdsOf
<1>4. /\ \A i \in Ids : records'[i] <= 1
      /\ \A i \in Ids \ Made' : ran[i] = 0 /\ records'[i] = 0
      /\ \A i \in pending : records'[i] = 0
      /\ \A b \in batches \cup {sync} : \A i \in IdsOf(b) : records'[i] = 0
      /\ \A i \in Made' : \/ records'[i] = 1
                          \/ i \in pending
                          \/ \E b \in batches \cup {sync} : i \in IdsOf(b)
  BY <1>1, <1>2 DEF Lists, CallsAreCounted
<1>5. CallsAreCounted'
  BY <1>4 DEF Lists, CallsAreCounted, IdsOf
<1>6. QED
  BY <1>3, <1>5 DEF Lists

\* The pump takes some of the calls that wait for its own batch and refuses the rest.
LEMMA TakenLists ==
    ASSUME TypeOK, Lists, NEW E \in SUBSET pending, sync = NoBatch, sync' = Batch(E),
           \A i \in Ids : records'[i] = IF i \in pending \ E THEN records[i] + 1
                                        ELSE records[i],
           pending' = {}, UNCHANGED <<calls, batches, ran>>
    PROVE  Lists'
<1>1. /\ \A b \in batches : IdsOf(b) \cap pending = {}
      /\ pending \subseteq Ids /\ Made' = Made /\ Made \subseteq Ids
      /\ \A b \in batches : IdsOf(b) \subseteq Made
  BY CallsMade DEF TypeOK, IdsOf, Lists, ListsAreDisjoint, Made
<1>2. /\ IdsOf(sync') = E /\ sync'.todo = E /\ sync'.done = {} /\ IdsOf(sync) = {}
  BY DEF IdsOf, Batch, NoBatch
<1>3. /\ \A i \in pending \ E : records'[i] = 1
      /\ \A i \in Ids : i \notin pending \ E => records'[i] = records[i]
  BY <1>1 DEF Lists, CallsAreCounted
<1>4. ListsAreDisjoint'
  BY <1>1, <1>2 DEF Lists, ListsAreDisjoint, IdsOf
<1>5. CallsAreCounted'
  <2>1. /\ \A i \in Ids : ran[i] <= 1 /\ records'[i] <= 1
        /\ \A i \in Ids \ Made : ran[i] = 0 /\ records'[i] = 0
    <3>1. pending \subseteq Made
      BY DEF TypeOK
    <3>2. \A i \in Ids : records'[i] = 1 \/ records'[i] = records[i]
      BY <1>3
    <3>3. \A i \in Ids \ Made : records'[i] = records[i]
      BY <1>3, <3>1
    <3>4. QED
      BY <3>2, <3>3 DEF Lists, CallsAreCounted
  <2>2. \A b \in batches \cup {sync'} :
           /\ \A i \in b.todo : ran[i] = 0
           /\ \A i \in IdsOf(b) : records'[i] = 0
    BY <1>1, <1>2, <1>3 DEF Lists, CallsAreCounted
  <2>3. \A i \in Made : \/ records'[i] = 1
                        \/ \E b \in batches \cup {sync'} : i \in IdsOf(b)
    BY <1>1, <1>2, <1>3 DEF Lists, CallsAreCounted
  <2>4. QED
    BY <1>1, <2>1, <2>2, <2>3 DEF CallsAreCounted, IdsOf
<1>6. QED
  BY <1>4, <1>5 DEF Lists

\* A batch is forgotten once its calls are traced.
LEMMA RecordedLists ==
    ASSUME TypeOK, Lists, NEW b \in batches \cup {sync}, Record(b),
           \/ b = sync /\ sync' = NoBatch /\ batches' = batches
           \/ b \in batches /\ sync' = sync /\ batches' = batches \ {b},
           UNCHANGED <<calls, pending, ran>>
    PROVE  Lists'
<1>1. /\ b.todo = {} /\ IdsOf(b) = b.done /\ b.done \subseteq Made
      /\ \A i \in Ids : records'[i] = IF i \in b.done THEN records[i] + 1 ELSE records[i]
  BY RecordEffect DEF IdsOf, TypeOK
<1>2. /\ Made' = Made /\ Made \subseteq Ids /\ pending \subseteq Made
      /\ \A c \in batches \cup {sync} : IdsOf(c) \subseteq Made
  BY CallsMade DEF TypeOK, IdsOf, Made
<1>3. /\ \A i \in b.done : records'[i] = 1
      /\ \A i \in Ids : i \notin b.done => records'[i] = records[i]
  BY <1>1, <1>2 DEF Lists, CallsAreCounted
<1>4. IdsOf(NoBatch) = {} /\ NoBatch.todo = {} /\ NoBatch.done = {}
  BY DEF IdsOf, NoBatch, Batch
<1>5. \A c \in batches' \cup {sync'} :
         c = NoBatch \/ (c \in batches \cup {sync} /\ IdsOf(c) \cap IdsOf(b) = {})
  BY <1>4 DEF Lists, ListsAreDisjoint
<1>6. ListsAreDisjoint'
  BY <1>4, <1>5 DEF Lists, ListsAreDisjoint, IdsOf
<1>7. CallsAreCounted'
  <2>1. /\ \A i \in Ids : ran[i] <= 1 /\ records'[i] <= 1
        /\ \A i \in Ids \ Made : ran[i] = 0 /\ records'[i] = 0
    <3>1. \A i \in Ids : records'[i] = 1 \/ records'[i] = records[i]
      BY <1>3
    <3>2. \A i \in Ids \ Made : records'[i] = records[i]
      BY <1>1, <1>3
    <3>3. QED
      BY <3>1, <3>2 DEF Lists, CallsAreCounted
  <2>2. \A i \in pending : ran[i] = 0 /\ records'[i] = 0
    BY <1>1, <1>2, <1>3 DEF Lists, CallsAreCounted, ListsAreDisjoint
  <2>3. \A c \in batches' \cup {sync'} :
           /\ \A i \in c.todo : ran[i] = 0
           /\ \A i \in IdsOf(c) : records'[i] = 0
    BY <1>1, <1>2, <1>3, <1>4, <1>5 DEF Lists, CallsAreCounted
  <2>4. \A i \in Made : \/ records'[i] = 1
                        \/ i \in pending
                        \/ \E c \in batches' \cup {sync'} : i \in IdsOf(c)
    <3>1. SUFFICES ASSUME NEW i \in Made, i \notin pending, records'[i] # 1
                   PROVE  \E c \in batches' \cup {sync'} : i \in IdsOf(c)
      OBVIOUS
    <3>2. records[i] # 1 /\ i \notin b.done
      BY <1>2, <1>3, <3>1
    <3>3. PICK c \in batches \cup {sync} : i \in IdsOf(c)
      BY <3>1, <3>2 DEF Lists, CallsAreCounted
    <3>4. c # b
      BY <1>1, <3>2, <3>3
    <3>5. QED
      BY <3>3, <3>4
  <2>5. QED
    BY <1>2, <2>1, <2>2, <2>3, <2>4 DEF CallsAreCounted, IdsOf
<1>8. QED
  BY <1>6, <1>7 DEF Lists

\* A call of a batch runs.
LEMMA RunLists ==
    ASSUME TypeOK, Lists, NEW b \in batches \cup {sync}, RunCall(b),
           \/ b = sync /\ sync' = AfterCall(b) /\ batches' = batches
           \/ /\ b \in batches /\ sync' = sync
              /\ batches' = (batches \ {b}) \cup {AfterCall(b)},
           b = sync => sync \notin batches,
           UNCHANGED <<calls, pending, records>>
    PROVE  Lists'
<1> DEFINE i == First(b.todo)
           a == AfterCall(b)
<1>1. /\ i \in b.todo /\ i \in Ids
      /\ a = [todo |-> b.todo \ {i}, done |-> b.done \cup {i}]
      /\ ran'[i] \in {ran[i], ran[i] + 1}
      /\ \A j \in Ids : j # i => ran'[j] = ran[j]
      /\ IdsOf(a) = IdsOf(b)
  BY CallRuns
<1> HIDE DEF i, a
<1>2. a.todo = b.todo \ {i} /\ a.done = b.done \cup {i}
  BY <1>1
<1>3. /\ \A c \in batches' \cup {sync'} : c = a \/ (c \in batches \cup {sync} /\ c # b)
                                            \/ (b \in batches /\ c = sync)
      /\ \A c \in batches \cup {sync} : c = b \/ c \in batches' \cup {sync'}
      /\ a \in batches' \cup {sync'}
  BY DEF a
<1>4. /\ Made' = Made /\ Made \subseteq Ids /\ pending \subseteq Made
      /\ \A c \in batches \cup {sync} : IdsOf(c) \subseteq Made
      /\ ran[i] = 0 /\ i \in Made
  BY <1>1, CallsMade DEF TypeOK, IdsOf, Made, Lists, CallsAreCounted
<1>5. \A c \in batches \cup {sync} : c # b => IdsOf(c) \cap IdsOf(b) = {}
  BY DEF Lists, ListsAreDisjoint
<1>6. \A c \in batches' \cup {sync'} : c = a \/ IdsOf(c) \cap IdsOf(b) = {}
  BY <1>3, <1>5 DEF Lists, ListsAreDisjoint
<1>7. ListsAreDisjoint'
  <2>1. \A c \in batches' \cup {sync'} : c.todo \cap c.done = {} /\ IdsOf(c) \cap pending = {}
    BY <1>1, <1>2, <1>3 DEF Lists, ListsAreDisjoint
  <2>2. \A c \in batches' : IdsOf(c) \cap IdsOf(sync') = {}
    <3>1. CASE b = sync
      <4>1. sync' = a /\ batches' = batches /\ b \notin batches
        BY <3>1 DEF a
      <4>2. QED
        BY <1>1, <1>5, <4>1
    <3>2. CASE b # sync
      <4>1. sync' = sync /\ batches' = (batches \ {b}) \cup {a} /\ b \in batches
        BY <3>2 DEF a
      <4>2. QED
        BY <1>1, <4>1 DEF Lists, ListsAreDisjoint
    <3>3. QED
      BY <3>1, <3>2
  <2>3. \A c, d \in batches' : c # d => IdsOf(c) \cap IdsOf(d) = {}
    BY ZenonT(40), <1>1, <1>3, <1>5 DEF Lists, ListsAreDisjoint, a
  <2>4. QED
    BY <2>1, <2>2, <2>3 DEF ListsAreDisjoint, IdsOf
<1>8. CallsAreCounted'
  <2>1. \A j \in Ids : ran'[j] <= 1 /\ records[j] <= 1
    BY <1>1, <1>4 DEF Lists, CallsAreCounted
  <2>2. \A j \in Ids \ Made : ran'[j] = 0 /\ records[j] = 0
    BY <1>1, <1>4 DEF Lists, CallsAreCounted
  <2>3. i \notin pending
    BY <1>1 DEF Lists, ListsAreDisjoint, IdsOf
  <2>4. \A j \in pending : ran'[j] = 0 /\ records[j] = 0
    BY <1>1, <1>4, <2>3 DEF Lists, CallsAreCounted
  <2>5. ASSUME NEW c \in batches' \cup {sync'}
        PROVE  /\ \A j \in c.todo : ran'[j] = 0
               /\ \A j \in IdsOf(c) : records[j] = 0
    <3>1. CASE c = a
      BY <1>1, <1>2, <1>4, <3>1 DEF Lists, CallsAreCounted, IdsOf
    <3>2. CASE c # a
      <4>1. c \in batches \cup {sync} /\ i \notin IdsOf(c)
        BY <1>1, <1>3, <1>6, <3>2 DEF IdsOf
      <4>2. QED
        BY <1>1, <1>4, <4>1 DEF Lists, CallsAreCounted, IdsOf
    <3>3. QED
      BY <3>1, <3>2
  <2>6. \A j \in Made : \/ records[j] = 1
                        \/ j \in pending
                        \/ \E c \in batches' \cup {sync'} : j \in IdsOf(c)
    <3>1. SUFFICES ASSUME NEW j \in Made, j \notin pending, records[j] # 1
                   PROVE  \E c \in batches' \cup {sync'} : j \in IdsOf(c)
      OBVIOUS
    <3>2. PICK c \in batches \cup {sync} : j \in IdsOf(c)
      BY <3>1 DEF Lists, CallsAreCounted
    <3>3. QED
      BY <1>1, <1>3, <3>2
  <2>7. QED
    BY <1>4, <2>1, <2>2, <2>4, <2>5, <2>6 DEF CallsAreCounted, IdsOf
<1>9. QED
  BY <1>7, <1>8 DEF Lists

\* The pump's batch is none of the goroutines'.
LEMMA SyncIsAlone ==
    ASSUME Lists, RunCall(sync)
    PROVE  sync \notin batches
<1>1. sync.todo # {}
  BY DEF RunCall
<1>2. QED
  BY <1>1 DEF Lists, ListsAreDisjoint, IdsOf

LEMMA StepLists ==
    ASSUME TypeOK, Lists, PendingIsCollected, [Next]_vars
    PROVE  Lists'
<1>1. CASE UNCHANGED <<calls, pending, sync, batches, ran, records>>
  BY <1>1 DEF Lists, ListsAreDisjoint, CallsAreCounted, IdsOf, Made
<1>2. CASE RouteHandled
  <2>1. PICK ks \in SomeKinds : NewCalls(ks) /\ Launch({NewIds(ks)})
    BY <1>2 DEF RouteHandled
  <2>2. /\ pending = {} /\ pending' = {} /\ UNCHANGED <<sync, ran, records>>
    BY <1>2 DEF RouteHandled, PendingIsCollected
  <2>3. {NewIds(ks)} \ {{}} = {pending, NewIds(ks)} \ {{}}
    BY <2>2
  <2>4. batches' = batches \cup {Batch(ids) : ids \in {pending, NewIds(ks)} \ {{}}}
    BY <2>1, <2>3 DEF Launch
  <2>5. QED
    BY <2>1, <2>2, <2>4, NewCallsEffect, LaunchedLists
<1>3. ASSUME NEW text \in BOOLEAN, NEW ks \in SomeKinds, AnswerChunk(text, ks)
      PROVE  Lists'
  <2>1. NewCalls(ks) /\ UNCHANGED <<sync, ran, records>>
    BY <1>3, ChunkEffect DEF AnswerChunk
  <2>2. CASE text
    BY <1>3, <2>1, <2>2, NewCallsEffect, LaunchedLists DEF AnswerChunk, ForgetPending, Launch
  <2>3. CASE ~text
    BY <1>3, <2>1, <2>3, NewCallsEffect, CollectedLists DEF AnswerChunk
  <2>4. QED
    BY <2>2, <2>3
<1>4. ASSUME NEW text \in BOOLEAN, NEW ks \in SomeKinds, FollowUpChunk(text, ks)
      PROVE  Lists'
  <2>1. NewCalls(ks) /\ UNCHANGED <<sync, ran, batches>>
    BY <1>4, ChunkEffect DEF FollowUpChunk
  <2>2. CASE Collects(text)
    BY <1>4, <2>1, <2>2, NewCallsEffect, CollectedLists DEF FollowUpChunk
  <2>3. CASE ~Collects(text)
    <3>1. Suppress(NewIds(ks)) /\ pending' = pending
      BY <1>4, <2>3 DEF FollowUpChunk
    <3>2. \A i \in Ids : records'[i] = IF i \in NewIds(ks) THEN records[i] + 1 ELSE records[i]
      BY <3>1, SuppressEffect
    <3>3. /\ NewIds(ks) \in SUBSET Ids /\ NewIds(ks) \cap Made = {}
          /\ Made' = Made \cup NewIds(ks)
      BY <2>1, NewCallsEffect
    <3>4. QED
      BY <2>1, <3>1, <3>2, <3>3, RefusedLists
  <2>4. QED
    BY <2>2, <2>3
<1>5. CASE AnswerOfTools
  <2>1. sync = NoBatch /\ sync' = Batch(pending) /\ pending' = {}
        /\ UNCHANGED <<calls, batches, ran, records>>
    BY <1>5 DEF AnswerOfTools, Finish, PendingIsCollected
  <2>2. QED
    BY <2>1, TakenLists
<1>6. CASE AnswerOfText
  <2>1. /\ Launch({pending}) /\ pending' = {} /\ UNCHANGED <<calls, sync, ran, records>>
    BY <1>6 DEF AnswerOfText, Finish
  <2>2. {pending} \ {{}} = {pending, {}} \ {{}}
    OBVIOUS
  <2>3. batches' = batches \cup {Batch(ids) : ids \in {pending, {}} \ {{}}}
    BY <2>1, <2>2 DEF Launch
  <2>4. Made' = Made \cup {}
    BY <2>1 DEF Made
  <2>5. QED
    BY <2>1, <2>3, <2>4, LaunchedLists
<1>7. CASE FollowUpOfTools
  <2>1. /\ sync = NoBatch /\ sync' = Batch(Executable) /\ pending' = {}
        /\ Executable \subseteq pending /\ Suppress(pending \ Executable)
        /\ UNCHANGED <<calls, batches, ran>>
    BY <1>7 DEF FollowUpOfTools, Finish, PendingIsCollected, Executable
  <2>2. QED
    BY <2>1, SuppressEffect, TakenLists
<1>8. CASE RunSync
  <2>1. RunCall(sync) /\ sync' = AfterCall(sync) /\ UNCHANGED <<batches, calls, pending, records>>
    BY <1>8 DEF RunSync
  <2>2. QED
    BY <2>1, SyncIsAlone, RunLists
<1>9. ASSUME NEW b \in batches, RunInBackground(b)
      PROVE  Lists'
  <2>1. /\ RunCall(b) /\ batches' = (batches \ {b}) \cup {AfterCall(b)}
        /\ UNCHANGED <<sync, calls, pending, records>>
    BY <1>9 DEF RunInBackground
  <2>2. b # sync
    BY <2>1, SyncIsAlone
  <2>3. QED
    BY <2>1, <2>2, RunLists
<1>10. ASSUME NEW b \in batches, EndBackground(b)
       PROVE  Lists'
  BY <1>10, RecordedLists DEF EndBackground
<1>11. CASE EndSync
  BY <1>11, RecordedLists DEF EndSync
<1>12. CASE AskLLM
  BY <1>1, <1>12 DEF AskLLM, PendingIsCollected
<1>13. CASE FollowUpOfText
  BY <1>1, <1>13 DEF FollowUpOfText, Finish
<1>14. CASE Passes
  BY <1>1, <1>14, PassesKeepCalls
<1>15. QED
  BY <1>2, <1>3, <1>4, <1>5, <1>6, <1>7, <1>8, <1>9, <1>10, <1>11, <1>12, <1>13, <1>14,
     Cases DEF NextCases, Reads, Passes

-----------------------------------------------------------------------------
\* What the pump collects.
LEMMA StepPending ==
    ASSUME TypeOK, PendingIsCollected, RequestsAreCounted, [Next]_vars
    PROVE  PendingIsCollected'
<1> USE DEF PendingIsCollected
<1>1. CASE Passes
  <2>1. UNCHANGED <<round, calls, pending, sync, textSeen, spoken>>
    BY <1>1, PassesKeepCalls
  <2>2. \/ pc = "route" /\ pc' = "ask" /\ ended' = ended
        \/ pc' = "over" /\ ended' # "complete" /\ pc # "run"
        \/ pc = "flush" /\ pc' = "over"
        \/ pc' = pc /\ ended' = ended
    BY <1>1, PassesGo DEF endVars, Ends, TypeOK
  <2>3. QED
    BY <2>1, <2>2
<1>2. CASE RouteHandled
  <2>1. /\ pc = "route" /\ pc' = "flush" /\ spoken' /\ UNCHANGED <<round, pending, sync, ended>>
    BY <1>2 DEF RouteHandled, endVars
  <2>2. QED
    BY <2>1
<1>3. CASE AskLLM
  <2>1. /\ pc = "ask" /\ pc' = "read" /\ pending' = {} /\ textSeen' = FALSE
        /\ UNCHANGED <<round, sync, ended, spoken>>
    BY <1>3 DEF AskLLM, endVars
  <2>2. QED
    BY <2>1
<1>4. ASSUME NEW text \in BOOLEAN, NEW ks \in SomeKinds,
             AnswerChunk(text, ks) \/ FollowUpChunk(text, ks)
      PROVE  PendingIsCollected'
  <2>1. Chunk(text, ks)
    BY <1>4 DEF AnswerChunk, FollowUpChunk
  <2>2. /\ pc = "read" /\ pc' \in {"read", "over"} /\ ended' # "complete"
        /\ textSeen' = (textSeen \/ text) /\ spoken' = (spoken \/ text)
        /\ UNCHANGED <<round, sync>>
    BY <2>1, ChunkEffect DEF endVars
  <2>3. textSeen' => spoken'
    BY <2>2
  <2>4. \/ pending' = {} \/ pending' = pending
        \/ pending' = pending \cup NewIds(ks) /\ round \in {"answer", "followup"}
    BY <1>4 DEF AnswerChunk, FollowUpChunk, ForgetPending, Collects
  <2>5. /\ \A i \in pending : calls'[i].round = round
        /\ \A i \in NewIds(ks) : calls'[i].round = round
    BY ZenonT(40), <2>1, ChunkEffect, NewCallsEffect DEF TypeOK
  <2>6. \A i \in pending' : calls'[i].round = round'
    BY <2>2, <2>4, <2>5
  <2>7. round' \in {"recovery", "final"} => pending' = {}
    BY <2>2, <2>4
  <2>8. QED
    BY <2>2, <2>3, <2>6, <2>7
<1>5. CASE AnswerOfTools \/ AnswerOfText \/ FollowUpOfTools
  <2>1. /\ pc = "read" /\ pc' \in {"run", "flush"} /\ pending' = {}
        /\ UNCHANGED <<round, textSeen, spoken, ended>>
        /\ pc' # "run" => sync' = sync
    BY <1>5 DEF AnswerOfTools, AnswerOfText, FollowUpOfTools, Finish, endVars
  <2>2. QED
    BY <2>1
<1>6. CASE FollowUpOfText
  <2>1. /\ pc = "read" /\ pc' = "flush"
        /\ UNCHANGED <<pending, sync, calls, round, textSeen, spoken, ended>>
        /\ round # "answer" /\ ~(round = "followup" /\ ToolsOnly)
    BY <1>6 DEF FollowUpOfText, Finish, endVars
  <2>2. pending = {} \/ (round = "followup" /\ spoken)
    BY <2>1 DEF ToolsOnly, TypeOK, Rounds
  <2>3. QED
    BY <2>1, <2>2
<1>7. CASE RunSync \/ \E b \in batches : RunInBackground(b) \/ EndBackground(b)
  <2>1. /\ UNCHANGED <<pc, round, textSeen, spoken, calls, pending, ended>>
        /\ sync' = sync \/ pc = "run"
    BY <1>7 DEF RunSync, RunInBackground, EndBackground, pumpVars, endVars
  <2>2. QED
    BY <2>1
<1>8. CASE EndSync
  <2>1. /\ pc = "run" /\ pc' \in {"ask", "flush"} /\ sync' = NoBatch /\ pending' = pending
        /\ UNCHANGED <<textSeen, spoken, ended>>
    BY <1>8 DEF EndSync, endVars
  <2>2. QED
    BY <2>1
<1>9. QED
  BY <1>1, <1>2, <1>3, <1>4, <1>5, <1>6, <1>7, <1>8, Cases DEF NextCases, Reads, Passes

\* The rounds and their requests.
LEMMA StepRequests ==
    ASSUME TypeOK, PendingIsCollected, RequestsAreCounted, [Next]_vars
    PROVE  RequestsAreCounted'
<1> USE DEF RequestsAreCounted
<1>1. /\ round \in Rounds /\ requests \in Nat
      /\ pc \in {"route", "ask", "read", "run", "flush", "over"}
      /\ spoken \in BOOLEAN /\ textSeen \in BOOLEAN
  BY CountTypes DEF TypeOK
<1>2. CASE Passes
  <2>1. UNCHANGED <<policy, round, calls, pending, spoken>>
    BY <1>2, PassesKeepCalls
  <2>2. Made' = Made
    BY <2>1 DEF Made
  <2>3. \/ pc = "route" /\ pc' = "ask" /\ requests' = requests /\ ended' = ended
        \/ pc = "route" /\ pc' = "over" /\ requests' = requests /\ ended' = "failed"
        \/ pc = "ask" /\ pc' = "over" /\ requests' = requests + 1 /\ ended' = "failed"
        \/ pc = "read" /\ pc' = "over" /\ requests' = requests
           /\ ended' \in {"cancelled", "stale"}
        \/ pc = "flush" /\ pc' = "over" /\ requests' = requests
        \/ UNCHANGED <<pc, requests, ended>>
    BY <1>2, PassesGo DEF endVars
  <2>4. QED
    BY <1>1, <2>1, <2>2, <2>3 DEF Rounds, PendingIsCollected
<1>3. CASE RouteHandled
  <2>1. /\ pc = "route" /\ pc' = "flush" /\ spoken'
        /\ UNCHANGED <<policy, round, requests, pending, ended>>
    BY <1>3 DEF RouteHandled, endVars
  <2>2. QED
    BY <1>1, <2>1 DEF Rounds
<1>4. CASE AskLLM
  <2>1. /\ pc = "ask" /\ pc' = "read" /\ requests' = requests + 1 /\ pending' = {}
        /\ UNCHANGED <<policy, round, spoken, calls, ended>> /\ ended = "no"
    BY <1>4 DEF AskLLM, endVars, TypeOK
  <2>2. Made' = Made /\ pending = {}
    BY <2>1 DEF Made, PendingIsCollected
  <2>3. QED
    BY <1>1, <2>1, <2>2 DEF Rounds
<1>5. ASSUME NEW text \in BOOLEAN, NEW ks \in SomeKinds,
             AnswerChunk(text, ks) \/ FollowUpChunk(text, ks)
      PROVE  RequestsAreCounted'
  <2>1. Chunk(text, ks)
    BY <1>5 DEF AnswerChunk, FollowUpChunk
  <2>2. /\ pc = "read" /\ pc' \in {"read", "over"} /\ ended' # "complete"
        /\ spoken' = (spoken \/ text) /\ UNCHANGED <<policy, round, requests>>
        /\ NewCalls(ks)
    BY <2>1, ChunkEffect DEF endVars
  <2>3. round = "answer" /\ ~spoken' => Made' = pending'
    <3>1. SUFFICES ASSUME round = "answer", ~spoken'
                   PROVE  Made' = pending'
      OBVIOUS
    <3>2. ~spoken /\ ~text
      BY <2>2, <3>1
    <3>3. pending' = pending \cup NewIds(ks)
      BY <1>5, <3>1, <3>2 DEF AnswerChunk, FollowUpChunk
    <3>4. QED
      BY <2>2, <3>1, <3>2, <3>3, NewCallsEffect
  <2>4. QED
    BY <1>1, <2>2, <2>3 DEF Rounds
<1>6. CASE AnswerOfTools \/ FollowUpOfTools \/ FollowUpOfText
  <2>1. /\ pc = "read" /\ pc' \in {"run", "flush"} /\ ended' = ended /\ ended = "no"
        /\ UNCHANGED <<policy, round, requests, spoken, calls>>
        /\ pc' = "run" => round \in {"answer", "followup"}
        /\ pc' = "flush" => round # "answer"
    BY <1>6 DEF AnswerOfTools, FollowUpOfTools, FollowUpOfText, Finish, endVars, TypeOK
  <2>2. QED
    BY <1>1, <2>1 DEF Rounds
<1>7. CASE AnswerOfText
  <2>1. /\ pc = "read" /\ pc' = "flush" /\ ~ToolsOnly /\ round = "answer"
        /\ UNCHANGED <<policy, round, requests, spoken, calls>>
    BY <1>7 DEF AnswerOfText, Finish
  <2>2. ~spoken => Made' = {}
    BY <2>1 DEF Made, ToolsOnly, PendingIsCollected
  <2>3. QED
    BY <1>1, <2>1, <2>2 DEF Rounds
<1>8. CASE RunSync \/ \E b \in batches : RunInBackground(b) \/ EndBackground(b)
  <2>1. UNCHANGED <<policy, pc, round, requests, spoken, calls, pending, ended>>
    BY <1>8 DEF RunSync, RunInBackground, EndBackground, pumpVars, endVars
  <2>2. QED
    BY <2>1 DEF Made
<1>9. CASE EndSync
  <2>1. /\ pc = "run" /\ UNCHANGED <<policy, requests, spoken, calls, pending, ended>>
        /\ ended = "no"
    BY <1>9 DEF EndSync, endVars, TypeOK
  <2>2. \/ /\ policy.enabled /\ pc' = "ask"
           /\ round = "answer" => round' \in {"followup", "recovery"}
           /\ round # "answer" => round' = "final"
        \/ ~policy.enabled /\ pc' = "flush" /\ round' = round
    BY <1>9 DEF EndSync, AfterTools
  <2>3. QED
    BY <1>1, <2>1, <2>2 DEF Rounds
<1>10. QED
  BY <1>2, <1>3, <1>4, <1>5, <1>6, <1>7, <1>8, <1>9, Cases DEF NextCases, Reads, Passes

-----------------------------------------------------------------------------
\* Calls are made, never changed.
LEMMA CallsKeep ==
    ASSUME TypeOK, [Next]_vars
    PROVE  /\ policy' = policy /\ Made \subseteq Made' /\ Made' \subseteq Ids
           /\ \A i \in Made : calls'[i] = calls[i]
<1>1. CASE policy' = policy /\ calls' = calls
  BY <1>1, CallsMade DEF Made
<1>2. CASE policy' = policy /\ \E ks \in SomeKinds : NewCalls(ks)
  BY <1>2, NewCallsEffect
<1>3. ASSUME NEW text \in BOOLEAN, NEW ks \in SomeKinds,
             AnswerChunk(text, ks) \/ FollowUpChunk(text, ks)
      PROVE  policy' = policy /\ NewCalls(ks)
  BY <1>3, ChunkEffect DEF AnswerChunk, FollowUpChunk
<1>4. CASE RouteHandled
  BY <1>2, <1>4 DEF RouteHandled
<1>5. CASE Passes
  BY <1>1, <1>5, PassesKeepCalls
<1>6. CASE \/ AskLLM \/ AnswerOfTools \/ AnswerOfText \/ FollowUpOfTools \/ FollowUpOfText
           \/ RunSync \/ EndSync \/ \E b \in batches : RunInBackground(b) \/ EndBackground(b)
  BY <1>1, <1>6 DEF AskLLM, AnswerOfTools, AnswerOfText, FollowUpOfTools, FollowUpOfText,
     Finish, RunSync, EndSync, RunInBackground, EndBackground
<1>7. QED
  BY <1>2, <1>3, <1>4, <1>5, <1>6, Cases DEF NextCases, Reads, Passes

\* Who runs a call of a later answer: the pump, for a follow-up.
LEMMA ExtraKept ==
    ASSUME TypeOK, Lists, RequestsAreCounted, ExtraIsOneBatch, [Next]_vars,
           ~(Running /\ RunSync)
    PROVE  Extra' = Extra
<1>1. /\ Made \subseteq Made' /\ Made' \subseteq Ids /\ Made \subseteq Ids
      /\ \A i \in Made : calls'[i] = calls[i]
      /\ \A i \in Ids \ Made : ran[i] = 0
      /\ ran \in [Ids -> Nat]
  BY CallsKeep, CallsMade DEF Lists, CallsAreCounted, TypeOK
<1>2. CASE ran' = ran
  BY <1>1, <1>2 DEF Extra
<1>3. ASSUME NEW b \in batches \cup {sync}, RunCall(b), calls' = calls,
             \A i \in IdsOf(b) : calls[i].round = "answer"
      PROVE  Extra' = Extra
  <2>1. PICK i \in b.todo : \A j \in Ids : j # i => ran'[j] = ran[j]
    BY <1>3, CallRuns
  <2>2. calls[i].round = "answer" /\ Made' = Made
    BY <1>3, <2>1 DEF IdsOf, Made
  <2>3. QED
    BY <1>1, <1>3, <2>1, <2>2 DEF Extra
<1>4. CASE RunSync
  <2>1. RunCall(sync) /\ calls' = calls /\ pc = "run"
    BY <1>4 DEF RunSync
  <2>2. round = "answer"
    BY <1>4, <2>1 DEF Running, RequestsAreCounted
  <2>3. QED
    BY <1>3, <2>1, <2>2 DEF ExtraIsOneBatch
<1>5. ASSUME NEW b \in batches, RunInBackground(b)
      PROVE  Extra' = Extra
  BY <1>3, <1>5 DEF RunInBackground, ExtraIsOneBatch
<1>6. ASSUME NEW text \in BOOLEAN, NEW ks \in SomeKinds,
             AnswerChunk(text, ks) \/ FollowUpChunk(text, ks)
      PROVE  ran' = ran
  BY <1>6, ChunkEffect DEF AnswerChunk, FollowUpChunk
<1>7. CASE Passes
  BY <1>2, <1>7, PassesKeepCalls
<1>8. CASE \/ RouteHandled \/ AskLLM \/ AnswerOfTools \/ AnswerOfText \/ FollowUpOfTools
           \/ FollowUpOfText \/ EndSync \/ \E b \in batches : EndBackground(b)
  BY <1>2, <1>8 DEF RouteHandled, AskLLM, AnswerOfTools, AnswerOfText, FollowUpOfTools,
     FollowUpOfText, Finish, EndSync, EndBackground
<1>9. QED
  BY <1>2, <1>4, <1>5, <1>6, <1>7, <1>8, Cases DEF NextCases, Reads, Passes

\* The calls a follow-up has run are in the pump's batch.
LEMMA RunKeepsOneBatch ==
    ASSUME TypeOK, Lists, ExtraIsOneBatch, Running, RunSync
    PROVE  /\ Extra' \subseteq sync'.done /\ IdsOf(sync') = IdsOf(sync)
           /\ UNCHANGED <<policy, pc, round, calls, pending, batches>>
<1>1. RunCall(sync) /\ sync' = AfterCall(sync)
      /\ UNCHANGED <<policy, pc, round, calls, pending, batches>>
  BY DEF RunSync, pumpVars
<1>2. PICK i \in sync.todo :
        /\ sync' = [todo |-> sync.todo \ {i}, done |-> sync.done \cup {i}]
        /\ IdsOf(sync') = IdsOf(sync)
        /\ \A j \in Ids : j # i => ran'[j] = ran[j]
  BY <1>1, CallRuns
<1>3. Extra' \subseteq Extra \cup {i} /\ Extra \subseteq sync.done
  <2>1. Made' = Made /\ Made \subseteq Ids
    BY <1>1, CallsMade DEF Made
  <2>2. QED
    BY <1>1, <1>2, <2>1 DEF Extra, ExtraIsOneBatch
<1>4. sync'.done = sync.done \cup {i}
  BY <1>2
<1>5. QED
  BY <1>1, <1>2, <1>3, <1>4

LEMMA StepBounded ==
    ASSUME TypeOK, Lists, RequestsAreCounted, ExtraIsOneBatch, FollowUpIsBounded, [Next]_vars
    PROVE  FollowUpIsBounded'
<1>1. /\ FollowUpIsBounded <=>
            /\ Cardinality(Extra) <= policy.maxCalls
            /\ Extra # {} => policy.allowCalls
            /\ \A i \in Extra : calls[i].kind \in policy.allowed
      /\ FollowUpIsBounded' <=>
            /\ Cardinality(Extra') <= policy'.maxCalls
            /\ Extra' # {} => policy'.allowCalls
            /\ \A i \in Extra' : calls'[i].kind \in policy'.allowed
  BY DEF FollowUpIsBounded, Extra, IsAllowed
<1>2. CASE Running /\ RunSync
  <2>1. /\ Extra' \subseteq IdsOf(sync) /\ policy' = policy /\ calls' = calls
    BY <1>2, RunKeepsOneBatch DEF IdsOf
  <2>2. IsFiniteSet(IdsOf(sync))
    <3>1. IdsOf(sync) \subseteq 1 .. MaxMade
      BY CallsMade DEF TypeOK, IdsOf, Ids
    <3>2. IsFiniteSet(1 .. MaxMade)
      BY Bounds, FS_Interval
    <3>3. QED
      BY <3>1, <3>2, FS_Subset
  <2>3. /\ IsFiniteSet(Extra') /\ Cardinality(Extra') <= Cardinality(IdsOf(sync))
    BY <2>1, <2>2, FS_Subset
  <2>4. /\ Cardinality(Extra') \in Nat /\ Cardinality(IdsOf(sync)) \in Nat
        /\ policy.maxCalls \in Nat
    BY <2>2, <2>3, FS_CardinalityType, Bounds DEF TypeOK
  <2>5. /\ Cardinality(IdsOf(sync)) <= policy.maxCalls
        /\ IdsOf(sync) # {} => policy.allowCalls
        /\ \A i \in IdsOf(sync) : calls[i].kind \in policy.allowed
    BY <1>2 DEF ExtraIsOneBatch, IsAllowed
  <2>6. Cardinality(Extra') <= policy.maxCalls
    BY <2>3, <2>4, <2>5
  <2>7. QED
    BY <1>1, <2>1, <2>5, <2>6
<1>3. CASE ~(Running /\ RunSync)
  <2>1. Extra' = Extra /\ policy' = policy /\ \A i \in Extra : calls'[i] = calls[i]
    BY <1>3, ExtraKept, CallsKeep DEF Extra
  <2>2. QED
    BY <1>1, <2>1
<1>4. QED
  BY <1>2, <1>3

\* The calls of goroutines are those of the first answer.
LEMMA BackgroundIsAnswer ==
    ASSUME TypeOK, Lists, PendingIsCollected, RequestsAreCounted, ExtraIsOneBatch,
           [Next]_vars
    PROVE  \A b \in batches' : \A i \in IdsOf(b) : calls'[i].round = "answer"
<1>1. /\ \A i \in Made : calls'[i] = calls[i]
      /\ \A b \in batches : IdsOf(b) \subseteq Made
      /\ \A b \in batches : \A i \in IdsOf(b) : calls[i].round = "answer"
  BY CallsKeep DEF TypeOK, IdsOf, ExtraIsOneBatch
<1>2. \A b \in batches : \A i \in IdsOf(b) : calls'[i].round = "answer"
  BY <1>1
<1>3. ASSUME NEW lists, Launch(lists), \A ids \in lists : \A i \in ids : calls'[i].round = "answer"
      PROVE  \A b \in batches' : \A i \in IdsOf(b) : calls'[i].round = "answer"
  <2>1. \A ids : IdsOf(Batch(ids)) = ids
    BY DEF IdsOf, Batch
  <2>2. \A b \in batches' : b \in batches \/ \E ids \in lists : b = Batch(ids)
    BY <1>3 DEF Launch
  <2>3. QED
    BY <1>2, <1>3, <2>1, <2>2
<1>4. CASE \A b \in batches' : b \in batches \/ \E c \in batches : IdsOf(b) = IdsOf(c)
  BY <1>2, <1>4
<1>5. \A i \in pending : calls'[i].round = round
  BY <1>1 DEF TypeOK, PendingIsCollected
<1>6. CASE RouteHandled
  <2>1. PICK ks \in SomeKinds : NewCalls(ks) /\ Launch({NewIds(ks)})
    BY <1>6 DEF RouteHandled
  <2>2. round = "answer"
    BY <1>6 DEF RouteHandled, RequestsAreCounted
  <2>3. QED
    BY <1>3, <2>1, <2>2, NewCallsEffect
<1>7. ASSUME NEW text \in BOOLEAN, NEW ks \in SomeKinds, AnswerChunk(text, ks)
      PROVE  \A b \in batches' : \A i \in IdsOf(b) : calls'[i].round = "answer"
  <2>1. round = "answer" /\ NewCalls(ks)
    BY <1>7, ChunkEffect DEF AnswerChunk
  <2>2. batches' = batches \/ Launch({pending, NewIds(ks)})
    BY <1>7 DEF AnswerChunk
  <2>3. QED
    BY <1>3, <1>4, <1>5, <2>1, <2>2, NewCallsEffect
<1>8. CASE AnswerOfText
  BY <1>3, <1>5, <1>8 DEF AnswerOfText
<1>9. ASSUME NEW b \in batches, RunInBackground(b)
      PROVE  \A c \in batches' : \A i \in IdsOf(c) : calls'[i].round = "answer"
  <2>1. batches' = (batches \ {b}) \cup {AfterCall(b)} /\ IdsOf(AfterCall(b)) = IdsOf(b)
    BY <1>9, CallRuns DEF RunInBackground
  <2>2. QED
    BY <1>4, <2>1
<1>10. ASSUME NEW b \in batches, EndBackground(b)
       PROVE  batches' \subseteq batches
  BY <1>10 DEF EndBackground
<1>11. CASE \/ AskLLM \/ (\E text \in BOOLEAN, ks \in SomeKinds : FollowUpChunk(text, ks))
            \/ AnswerOfTools \/ FollowUpOfTools \/ FollowUpOfText \/ RunSync \/ EndSync
  BY <1>4, <1>11 DEF AskLLM, FollowUpChunk, AnswerOfTools, FollowUpOfTools, FollowUpOfText,
     RunSync, EndSync
<1>12. CASE Passes
  BY <1>4, <1>12, PassesKeepCalls
<1>13. QED
  BY <1>4, <1>6, <1>7, <1>8, <1>9, <1>10, <1>11, <1>12, Cases DEF NextCases, Reads, Passes

\* A step that leaves the pump outside a follow-up's batch, or keeps it there.
LEMMA OneBatchKept ==
    ASSUME TypeOK, Lists, ExtraIsOneBatch, Extra' = Extra, policy' = policy,
           \A b \in batches' : \A i \in IdsOf(b) : calls'[i].round = "answer",
           \A i \in Made : calls'[i] = calls[i],
           ~Running \/ round' = "final", ~Running',
           round' = round \/ round' = "final" \/ (round = "answer" /\ round' # "final"),
           sync' = NoBatch \/ (sync' = sync /\ round' = round),
           round' = "followup" /\ pending' # {} => policy.allowCalls
    PROVE  ExtraIsOneBatch'
<1>1. /\ \A i \in IdsOf(sync') : calls'[i].round = round'
  <2>1. IdsOf(NoBatch) = {} /\ IdsOf(sync) \subseteq Made
    BY DEF IdsOf, NoBatch, Batch, TypeOK
  <2>2. QED
    BY <2>1 DEF ExtraIsOneBatch
<1>2. round' # "final" => Extra' = {}
  BY DEF ExtraIsOneBatch
<1>3. QED
  BY <1>1, <1>2 DEF ExtraIsOneBatch, IdsOf

LEMMA StepExtra ==
    ASSUME TypeOK, Lists, PendingIsCollected, RequestsAreCounted, ExtraIsOneBatch,
           [Next]_vars
    PROVE  ExtraIsOneBatch'
<1>1. /\ policy' = policy /\ \A i \in Made : calls'[i] = calls[i]
      /\ \A b \in batches' : \A i \in IdsOf(b) : calls'[i].round = "answer"
      /\ ~(Running /\ RunSync) => Extra' = Extra
      /\ round \in Rounds
  BY CallsKeep, ExtraKept, BackgroundIsAnswer DEF TypeOK
<1>2. CASE RunSync /\ Running
  <2>1. /\ Extra' \subseteq sync'.done /\ IdsOf(sync') = IdsOf(sync)
        /\ UNCHANGED <<policy, pc, round, calls, pending, batches>>
    BY <1>2, RunKeepsOneBatch
  <2>2. Running' /\ \A i \in Ids : IsAllowed(i)' <=> IsAllowed(i)
    BY <1>2, <2>1 DEF Running, IsAllowed
  <2>3. \A i \in IdsOf(sync') : calls'[i].round = round' /\ calls'[i].kind \in policy'.allowed
    BY <1>2, <2>1 DEF ExtraIsOneBatch, IsAllowed
  <2>4. round' = "followup" /\ pending' # {} => policy'.allowCalls
    BY <2>1 DEF ExtraIsOneBatch
  <2>5. /\ IdsOf(sync') # {} => policy'.allowCalls
        /\ Cardinality(IdsOf(sync')) <= policy'.maxCalls
    BY <1>2, <2>1 DEF ExtraIsOneBatch
  <2>6. QED
    BY <1>1, <2>1, <2>2, <2>3, <2>4, <2>5 DEF ExtraIsOneBatch, IdsOf, IsAllowed
<1>3. CASE RunSync /\ ~Running
  <2>1. /\ pc = "run" /\ round = "answer" /\ RunCall(sync)
        /\ sync' = AfterCall(sync) /\ UNCHANGED <<policy, pc, round, calls, pending>>
    BY <1>3 DEF RunSync, pumpVars, RequestsAreCounted, Running
  <2>2. IdsOf(sync') = IdsOf(sync) /\ Extra' = Extra
    BY <1>1, <1>3, <2>1, CallRuns
  <2>3. \A i \in IdsOf(sync') : calls'[i].round = round'
    BY <2>1, <2>2 DEF ExtraIsOneBatch
  <2>4. Extra' = {} /\ ~Running'
    BY <1>3, <2>1, <2>2 DEF ExtraIsOneBatch, Running
  <2>5. QED
    BY <1>1, <2>1, <2>3, <2>4 DEF ExtraIsOneBatch, IdsOf
<1>4. CASE FollowUpOfTools
  <2>1. /\ pc = "read" /\ round = "followup" /\ pending # {} /\ pending' = {}
        /\ sync' = Batch(Executable) /\ pc' = "run"
        /\ UNCHANGED <<policy, round, calls>>
    BY <1>4 DEF FollowUpOfTools, Finish, ToolsOnly
  <2>2. /\ IdsOf(sync') = Executable /\ Executable \subseteq pending
        /\ \A i \in Executable : IsAllowed(i)
    BY <2>1 DEF IdsOf, Batch, Executable
  <2>3. ~Running /\ ~RunSync /\ Extra' = {}
    <3>1. ~Running /\ ~RunSync
      BY <2>1 DEF Running, RunSync
    <3>2. QED
      BY <1>1, <2>1, <3>1 DEF ExtraIsOneBatch
  <2>4. policy'.allowCalls
    BY <1>1, <2>1 DEF ExtraIsOneBatch
  <2>5. Cardinality(IdsOf(sync')) <= policy'.maxCalls
    BY <1>1, <2>2, ExecutableIsBounded
  <2>6. \A i \in IdsOf(sync') : calls'[i].round = round' /\ calls'[i].kind \in policy'.allowed
    BY <1>1, <2>1, <2>2 DEF PendingIsCollected, IsAllowed
  <2>7. QED
    BY <1>1, <2>1, <2>3, <2>4, <2>5, <2>6 DEF ExtraIsOneBatch, IdsOf, IsAllowed
<1>5. CASE AnswerOfTools
  <2>1. /\ pc = "read" /\ round = "answer" /\ pending' = {}
        /\ sync' = Batch(pending) /\ UNCHANGED <<policy, round, calls>>
    BY <1>5 DEF AnswerOfTools, Finish
  <2>2. IdsOf(sync') = pending
    BY <2>1 DEF IdsOf, Batch
  <2>3. \A i \in IdsOf(sync') : calls'[i].round = round'
    BY <2>1, <2>2 DEF PendingIsCollected
  <2>4. Extra' = {} /\ ~Running'
    BY <1>1, <2>1 DEF ExtraIsOneBatch, Running
  <2>5. QED
    BY <1>1, <2>1, <2>3, <2>4 DEF ExtraIsOneBatch, IdsOf
<1>6. CASE EndSync
  <2>1. /\ pc = "run" /\ pc' # "run" /\ sync' = NoBatch /\ pending' = pending /\ pending = {}
        /\ \/ policy.enabled /\ round' = AfterTools
           \/ ~policy.enabled /\ round' = round
        /\ round \in {"answer", "followup"} /\ (round = "followup" => policy.enabled)
    BY <1>6 DEF EndSync, AfterTools, PendingIsCollected, RequestsAreCounted
  <2>2. /\ round = "followup" => round' = "final"
        /\ round = "answer" => round' # "final"
    BY <2>1 DEF AfterTools
  <2>3. ~Running' /\ (Running => round' = "final")
    BY <2>1, <2>2 DEF Running
  <2>4. ~RunSync
    BY <1>6 DEF EndSync, RunSync, RunCall, Record
  <2>5. QED
    BY <1>1, <2>1, <2>2, <2>3, <2>4, OneBatchKept
<1>7. CASE ~Running /\ ~Running' /\ Extra' = Extra /\ UNCHANGED <<round, sync>>
           /\ (round = "followup" /\ pending' # {} => policy.allowCalls)
  BY <1>1, <1>7, OneBatchKept
<1>8. ASSUME NEW text \in BOOLEAN, NEW ks \in SomeKinds,
             AnswerChunk(text, ks) \/ FollowUpChunk(text, ks)
      PROVE  ExtraIsOneBatch'
  <2>1. Chunk(text, ks)
    BY <1>8 DEF AnswerChunk, FollowUpChunk
  <2>2. /\ pc = "read" /\ pc' # "run" /\ UNCHANGED <<round, sync>>
    BY <2>1, ChunkEffect
  <2>3. round = "followup" /\ pending' # {} => policy.allowCalls
    BY <1>8 DEF AnswerChunk, FollowUpChunk, Collects, ExtraIsOneBatch
  <2>4. QED
    BY <1>1, <1>7, <2>2, <2>3 DEF Running
<1>9. CASE RouteHandled \/ AskLLM \/ AnswerOfText \/ FollowUpOfText
  <2>1. /\ pc # "run" /\ pc' # "run" /\ UNCHANGED <<round, sync>>
        /\ pending' \in {pending, {}}
    BY <1>9 DEF RouteHandled, AskLLM, AnswerOfText, FollowUpOfText, Finish
  <2>2. QED
    BY <1>1, <1>7, <2>1 DEF Running, ExtraIsOneBatch
<1>10. CASE Passes /\ ~UNCHANGED <<pc, round, calls, pending, sync>>
  <2>1. /\ pc # "run" /\ pc' # "run" /\ UNCHANGED <<round, sync, pending>>
    BY <1>10, PassesKeepCalls, PassesGo
  <2>2. QED
    BY <1>1, <1>7, <2>1 DEF Running, ExtraIsOneBatch
<1>11. CASE ~RunSync /\ UNCHANGED <<pc, round, calls, pending, sync>>
  BY <1>1, <1>11 DEF ExtraIsOneBatch, Running, IdsOf, IsAllowed
<1>12. ASSUME NEW b \in batches, RunInBackground(b) \/ EndBackground(b)
       PROVE  UNCHANGED <<pc, round, calls, pending, sync>>
  BY <1>12 DEF RunInBackground, EndBackground, pumpVars
<1>13. QED
  BY <1>2, <1>3, <1>4, <1>5, <1>6, <1>8, <1>9, <1>10, <1>11, <1>12, Cases
  DEF NextCases, Reads, Passes

-----------------------------------------------------------------------------
LEMMA InitInvariant == Init => IInv
<1> SUFFICES ASSUME Init
             PROVE  IInv
  OBVIOUS
<1>1. /\ Made = {} /\ sync = Batch({}) /\ sync.todo = {} /\ sync.done = {} /\ IdsOf(sync) = {}
      /\ calls \in Seq([kind : Kinds, round : Rounds]) /\ Len(calls) = 0
  BY DEF Init, Made, NoBatch, Batch, IdsOf
<1>2. TypeOK
  <2>1. sync \in [todo : SUBSET Made, done : SUBSET Made]
    BY <1>1, BatchTypes
  <2>2. /\ requests \in 0 .. 3 /\ chunks \in 0 .. MaxChunks /\ Len(calls) <= MaxMade
        /\ round \in Rounds
    BY <1>1, Bounds DEF Init, Rounds
  <2>3. /\ result \in [Ids -> {"none", "result", "failed", "skipped"}]
        /\ ran \in [Ids -> Nat] /\ records \in [Ids -> Nat]
    BY DEF Init
  <2>4. /\ policy \in Policies /\ pending = {} /\ asked = {} /\ batches = {}
        /\ pc = "route" /\ textSeen = FALSE /\ spoken = FALSE
        /\ stale = FALSE /\ done = FALSE /\ counted = FALSE /\ ended = "no"
    BY DEF Init
  <2>5. QED
    BY <1>1, <2>1, <2>2, <2>3, <2>4 DEF TypeOK
<1>3. Lists /\ PendingIsCollected /\ RequestsAreCounted
  BY <1>1 DEF Init, Lists, ListsAreDisjoint, CallsAreCounted, PendingIsCollected,
     RequestsAreCounted, Rounds, NoBatch
<1>4. ExtraIsOneBatch /\ Extra = {}
  BY <1>1 DEF Init, ExtraIsOneBatch, Extra, Running
<1>5. FollowUpIsBounded
  <2>1. Cardinality({}) = 0 /\ policy.maxCalls \in Nat
    BY FS_EmptySet, Bounds DEF Init
  <2>2. FollowUpIsBounded <=>
            /\ Cardinality(Extra) <= policy.maxCalls
            /\ Extra # {} => policy.allowCalls
            /\ \A i \in Extra : IsAllowed(i)
    BY DEF FollowUpIsBounded, Extra
  <2>3. QED
    BY <1>4, <2>1, <2>2
<1>6. QED
  BY <1>2, <1>3, <1>4, <1>5 DEF IInv, Lists

LEMMA StepInvariant == IInv /\ [Next]_vars => IInv'
<1> SUFFICES ASSUME IInv, [Next]_vars
             PROVE  IInv'
  OBVIOUS
<1>1. TypeOK /\ Lists /\ PendingIsCollected /\ RequestsAreCounted
      /\ ExtraIsOneBatch /\ FollowUpIsBounded
  BY DEF IInv, Lists
<1>2. TypeOK' /\ Lists' /\ PendingIsCollected' /\ RequestsAreCounted'
  BY <1>1, StepTypes, StepLists, StepPending, StepRequests
<1>3. ExtraIsOneBatch' /\ FollowUpIsBounded'
  BY <1>1, StepExtra, StepBounded
<1>4. QED
  BY <1>2, <1>3 DEF IInv, Lists

\* IInv holds in every state: where each call is, whether it has run and been
\* traced, how many requests the rounds have taken, and who runs later calls.
THEOREM InductiveInvariant == Spec => []IInv
<1>1. Init => IInv
  BY InitInvariant
<1>2. IInv /\ [Next]_vars => IInv'
  BY StepInvariant
<1>3. QED
  BY <1>1, <1>2, PTL DEF Spec

\* The variables keep their types (TypeOK).
THEOREM TypeCorrect == Spec => []TypeOK
<1>1. IInv => TypeOK
  BY DEF IInv
<1>2. QED
  BY <1>1, InductiveInvariant, PTL

\* Every tool call runs at most once and is traced at most once; those of a turn
\* that came to its end are traced exactly once, but for a follow-up's calls that
\* its text let go (EveryCallIsAccounted).
THEOREM CallsAreAccounted == Spec => []EveryCallIsAccounted
<1>1. IInv => EveryCallIsAccounted
  <2>1. SUFFICES ASSUME IInv, Over, ended = "complete", NEW i \in Made
                 PROVE  records[i] = 1 \/ (calls[i].round = "followup" /\ spoken)
    BY DEF EveryCallIsAccounted, IInv, CallsAreCounted
  <2>2. batches = {} /\ IdsOf(sync) = {}
    BY <2>1 DEF Over, IInv, PendingIsCollected, NoBatch, Batch, IdsOf
  <2>3. records[i] = 1 \/ i \in pending
    BY <2>1, <2>2 DEF IInv, CallsAreCounted
  <2>4. i \in pending => calls[i].round = "followup" /\ spoken
    BY <2>1 DEF IInv, PendingIsCollected
  <2>5. QED
    BY <2>3, <2>4
<1>2. QED
  BY <1>1, InductiveInvariant, PTL

\* A turn whose tools ran ends without a word only if the LLM was asked twice
\* (SilentTurnsAskedTwice).
THEOREM SilenceIsAskedTwice == Spec => []SilentTurnsAskedTwice
<1>1. IInv => SilentTurnsAskedTwice
  <2>1. SUFFICES ASSUME IInv, Over, ended = "complete", policy.enabled, Made # {}, ~spoken
                 PROVE  requests >= 2
    BY DEF SilentTurnsAskedTwice
  <2>2. round # "answer" /\ pc = "over" /\ round \in Rounds
    BY <2>1 DEF IInv, RequestsAreCounted, Over, TypeOK
  <2>3. QED
    BY <2>1, <2>2 DEF IInv, RequestsAreCounted, Rounds
<1>2. QED
  BY <1>1, InductiveInvariant, PTL

\* The answers after the first run at most max_tool_calls calls in all, of allowed
\* tools, and none unless the policy lets them (FollowUpIsBounded).
THEOREM FollowUpsAreBounded == Spec => []FollowUpIsBounded
<1>1. IInv => FollowUpIsBounded
  BY DEF IInv
<1>2. QED
  BY <1>1, InductiveInvariant, PTL
=============================================================================
