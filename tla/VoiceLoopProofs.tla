-------------------------- MODULE VoiceLoopProofs ---------------------------
(***************************************************************************)
(* The inductive invariant of VoiceLoop and its consequences, for every     *)
(* number of turns, aborts and listen/stops and every setup.  The pump of a *)
(* turn takes many small steps; PumpEffect says once what any of them can   *)
(* do, and each part of the invariant is then proved from that.             *)
(***************************************************************************)
EXTENDS VoiceLoop, TLAPS

\* Where a pump can go from each of its places.
Parts == {"segment", "llm", "flush", "finish"}

After(pc) ==
    CASE pc = "asr"           -> {"clear", "end"}
      [] pc = "clear"         -> {"ensure"}
      [] pc = "ensure"        -> {"state", "stt"}
      [] pc = "state"         -> {"stopListening", "adopt", "stt"}
      [] pc = "stopListening" -> {"stt", "end"}
      [] pc = "adopt"         -> {"stt"}
      [] pc = "stt"           -> {"route", "end"}
      [] pc = "route"         -> {"llm", "begin", "end"}
      [] pc = "llm"           -> {"begin", "flush", "end"}
      [] pc = "begin"         -> {"segment", "mark", "end"}
      [] pc = "mark"          -> {"segment"}
      [] pc = "segment"       -> Parts \cup {"request", "end"}
      [] pc = "request"       -> {"frames", "ttsError"}
      [] pc = "frames"        -> Parts \cup {"pace"}
      [] pc = "pace"          -> {"check", "end"}
      [] pc = "check"         -> Parts \cup {"send", "speak"}
      [] pc = "speak"         -> {"recheck", "end"}
      [] pc = "recheck"       -> Parts \cup {"send"}
      [] pc = "send"          -> {"frames", "end"}
      [] pc = "ttsError"      -> {"errorStop", "failed"}
      [] pc = "errorStop"     -> {"failed"}
      [] pc = "failed"        -> {"end"}
      [] pc = "flush"         -> {"begin", "finish", "end"}
      [] pc = "finish"        -> {"stop", "complete", "end"}
      [] pc = "stop"          -> {"sendStop", "complete"}
      [] pc = "sendStop"      -> {"complete", "end"}
      [] pc = "complete"      -> {"recent", "release", "end"}
      [] pc = "recent"        -> {"release"}
      [] pc = "release"       -> {"remember"}
      [] pc = "remember"      -> {"end"}
      [] OTHER                -> {}

\* Who writes the session and the turn's generation, and when.
SessionEffect(t) ==
    \/ /\ session' = session /\ gen' = gen /\ pump'[t] # "recheck"
       /\ ~(pump[t] = "complete" /\ pump'[t] = "recent")
    \/ /\ pump[t] = "stopListening" /\ session.state = "listening"
       /\ session' = ListeningStopped(session)
       /\ gen' = [gen EXCEPT ![t] = session.gen]
    \/ /\ pump[t] = "adopt" /\ session' = session
       /\ gen' = [gen EXCEPT ![t] = session.gen]
    \/ /\ pump[t] = "speak" /\ pump'[t] = "recheck"
       /\ CanBeginSpeaking(session, gen[t])
       /\ session' = SpeakingBegun(session) /\ gen' = gen
    \/ /\ pump[t] = "complete" /\ pump'[t] = "recent" /\ t \in spoke
       /\ CanCompleteSpeaking(session, gen[t])
       /\ session' = SpeakingCompleted(session) /\ gen' = gen

\* Who writes the loop's fields.
LoopEffect(t) ==
    /\ active' = IF pump[t] = "release" /\ active = t THEN NoTurn ELSE active
    /\ asr' = IF pump[t] = "clear" /\ asr = t THEN NoTurn ELSE asr
    /\ listenGen' \in {listenGen, 0} /\ recent' \in {recent, TRUE}
    /\ UNCHANGED pumpFrame

\* Who claims the final result.
ClaimEffect(t) ==
    IF pump'[t] = "clear" THEN t \notin claimed /\ claimed' = claimed \cup {t}
                          ELSE claimed' = claimed

\* Who starts, speaks and stops.
TTSEffect(t) ==
    /\ ttsStarted' = IF pump[t] = "mark" THEN ttsStarted \cup {t} ELSE ttsStarted
    /\ \/ spoke' = spoke
       \/ pump[t] = "send" /\ spoke' = spoke \cup {t}
    /\ IF pump'[t] \in {"errorStop", "sendStop"}
       THEN OwesStop(t) /\ ttsStopSent' = ttsStopSent \cup {t}
       ELSE ttsStopSent' = ttsStopSent
    /\ stops' = IF pump[t] \in {"errorStop", "sendStop"} /\ linkUp
                THEN [stops EXCEPT ![t] = @ + 1] ELSE stops
    /\ pump[t] = "ttsError" /\ pump'[t] = "failed" => ~OwesStop(t)
    /\ pump[t] = "stop" /\ pump'[t] = "complete" => ~OwesStop(t)
    /\ pump[t] = "finish" /\ pump'[t] = "complete" => t \notin ttsStarted
    /\ pump[t] = "check" /\ pump'[t] = "send" => t \in spoke
    /\ pump[t] = "complete" /\ pump'[t] = "release" => t \notin spoke
    /\ phase' \in [Turns -> {"llm", "system", "flush"}]
    /\ pacerFirst' \in BOOLEAN

\* Who records: a pump that ends without a record has not been routed yet.
RecordEffect(t) ==
    /\ \/ outcome' = outcome
       \/ /\ outcome[t] = "open"
          /\ \E o \in {"completed", "ended", "failed"} :
                /\ outcome' = [outcome EXCEPT ![t] = o]
                /\ o = "completed" => pump[t] = "remember"
    /\ pump'[t] = "end" /\ outcome'[t] = "open" => pump[t] \in {"asr", "stt"}
    /\ result' \in {result, result \cup {t}}

Effect(t) ==
    /\ pump[t] \in PumpPCs /\ pump'[t] \in After(pump[t])
    /\ pump' = [pump EXCEPT ![t] = pump'[t]]
    /\ SessionEffect(t)
    /\ LoopEffect(t)
    /\ ClaimEffect(t)
    /\ TTSEffect(t)
    /\ RecordEffect(t)

\* What the pump's ways to go on have in common.
LEMMA Going ==
    ASSUME TypeOK, NEW t \in Turns, NEW pc \in PumpPCs, Goes(t, pc)
    PROVE  /\ pump'[t] = pc /\ pump' = [pump EXCEPT ![t] = pump'[t]]
           /\ outcome' = outcome /\ result' = result
  BY DEF Goes, Goto, TypeOK

LEMMA Recording ==
    ASSUME TypeOK, NEW t \in Turns, NEW o \in {"ended", "failed", "completed"},
           Record(t, o)
    PROVE  /\ \/ outcome' = outcome
              \/ outcome[t] = "open" /\ outcome' = [outcome EXCEPT ![t] = o]
           /\ outcome'[t] # "open"
  BY DEF Record, TypeOK, Turns, NoTurn

LEMMA Ending ==
    ASSUME TypeOK, NEW t \in Turns, End(t)
    PROVE  /\ pump'[t] = "end" /\ pump' = [pump EXCEPT ![t] = pump'[t]]
           /\ result' = result \cup {t}
  BY DEF End, Goto, TypeOK

LEMMA Settling ==
    ASSUME TypeOK, NEW t \in Turns, NEW o \in {"ended", "failed", "completed"},
           Settle(t, o)
    PROVE  /\ pump'[t] = "end" /\ pump' = [pump EXCEPT ![t] = pump'[t]]
           /\ \/ outcome' = outcome
              \/ outcome[t] = "open" /\ outcome' = [outcome EXCEPT ![t] = o]
           /\ outcome'[t] # "open" /\ result' = result \cup {t}
  BY Recording, Ending DEF Settle

LEMMA NextParts ==
    ASSUME TypeOK, NEW t \in Turns
    PROVE  NextPart(t) \subseteq Parts
<1>1. phase[t] \in {"llm", "system", "flush"}
  BY DEF TypeOK
<1>2. QED
  BY <1>1 DEF NextPart, Parts

LEMMA Skipping ==
    ASSUME TypeOK, NEW t \in Turns, Skip(t)
    PROVE  /\ pump'[t] \in Parts /\ pump' = [pump EXCEPT ![t] = pump'[t]]
           /\ outcome' = outcome /\ result' = result
<1>1. PICK pc \in NextPart(t) : Goes(t, pc)
  BY DEF Skip
<1>2. pc \in Parts /\ pc \in PumpPCs
  BY NextParts DEF Parts, PumpPCs
<1>3. QED
  BY <1>1, <1>2, Going

LEMMA DroppingStale ==
    ASSUME TypeOK, NEW t \in Turns, DropStale(t)
    PROVE  /\ pump'[t] \in Parts /\ pump' = [pump EXCEPT ![t] = pump'[t]]
           /\ \/ outcome' = outcome
              \/ outcome[t] = "open" /\ outcome' = [outcome EXCEPT ![t] = "ended"]
           /\ result' = result
<1>1. PICK pc \in NextPart(t) : Goto(t, pc) /\ Record(t, "ended") /\ result' = result
  BY DEF DropStale
<1>2. pc \in Parts
  BY NextParts
<1>3. QED
  BY <1>1, <1>2, Recording DEF Goto, TypeOK

\* A step that changes nothing but the pump's place and the record, or ends.
LEMMA PlainEffect ==
    ASSUME TypeOK, NEW t \in Turns, Plain, UNCHANGED pumpFrame,
           pump'[t] \in After(pump[t]),
           pump' = [pump EXCEPT ![t] = pump'[t]],
           pump[t] \notin {"mark", "clear", "release", "errorStop", "sendStop"},
           pump'[t] \notin {"clear", "errorStop", "sendStop", "recheck"},
           pump[t] = "ttsError" => pump'[t] # "failed",
           pump[t] = "stop" => pump'[t] # "complete",
           pump[t] = "finish" /\ pump'[t] = "complete" => t \notin ttsStarted,
           pump[t] = "check" /\ pump'[t] = "send" => t \in spoke,
           pump[t] # "complete",
           RecordEffect(t)
    PROVE  Effect(t)
<1>1. SessionEffect(t)
  BY DEF Plain, asrSide, SessionEffect
<1>2. LoopEffect(t)
  BY DEF Plain, asrSide, loopVars, LoopEffect
<1>3. ClaimEffect(t)
  BY DEF Plain, asrSide, ClaimEffect
<1>4. TTSEffect(t)
  <2>1. UNCHANGED ttsVars
    BY DEF Plain
  <2>2. phase' \in [Turns -> {"llm", "system", "flush"}] /\ pacerFirst' \in BOOLEAN
    BY <2>1 DEF ttsVars, TypeOK
  <2>3. QED
    BY <2>1, <2>2 DEF ttsVars, TTSEffect
<1>5. QED
  BY <1>1, <1>2, <1>3, <1>4 DEF Effect, TypeOK

LEMMA PlainSteps ==
    ASSUME TypeOK, NEW t \in Turns, Plain, UNCHANGED pumpFrame,
           \/ ResultCancelled(t)
           \/ StreamClosed(t)
           \/ EnsureCurrent(t)
           \/ EnsureState(t)
           \/ SendText(t)
           \/ ReplyCancelled(t)
           \/ ReplyChunk(t)
           \/ ReplyEnds(t)
           \/ SendTTSStart(t)
           \/ StartSegment(t)
           \/ RequestSpeech(t)
           \/ SegmentEnds(t)
           \/ Frame(t)
           \/ CheckFrame(t)
           \/ RecheckFrame(t)
           \/ TTSFailed(t)
           \/ FinishReply(t)
           \/ RecordCompletion(t)
    PROVE  Effect(t)
<1> USE DEF After, Parts, PumpPCs, RecordEffect
<1>1. CASE ResultCancelled(t)
  BY <1>1, PlainEffect, Ending DEF ResultCancelled, Ends, Quietly
<1>2. CASE StreamClosed(t)
  BY <1>2, PlainEffect, Settling DEF StreamClosed
<1>3. CASE EnsureCurrent(t)
  BY <1>3, PlainEffect, Going DEF EnsureCurrent
<1>4. CASE EnsureState(t)
  BY <1>4, PlainEffect, Going DEF EnsureState
<1>5. CASE SendText(t)
  BY <1>5, PlainEffect, Going, Settling, Ending DEF SendText, Ends, Quietly
<1>6. CASE ReplyCancelled(t)
  BY <1>6, PlainEffect, Settling DEF ReplyCancelled
<1>7. CASE ReplyChunk(t)
  BY <1>7, PlainEffect, Going, Settling DEF ReplyChunk
<1>8. CASE ReplyEnds(t)
  BY <1>8, PlainEffect, Going DEF ReplyEnds
<1>9. CASE SendTTSStart(t)
  BY <1>9, PlainEffect, Going, Settling DEF SendTTSStart
<1>10. CASE StartSegment(t)
  BY <1>10, PlainEffect, Going, Settling, Skipping DEF StartSegment
<1>11. CASE RequestSpeech(t)
  BY <1>11, PlainEffect, Going DEF RequestSpeech
<1>12. CASE SegmentEnds(t)
  BY <1>12, PlainEffect, Skipping DEF SegmentEnds
<1>13. CASE Frame(t)
  BY <1>13, PlainEffect, Going, DroppingStale DEF Frame
<1>14. CASE CheckFrame(t)
  BY <1>14, PlainEffect, Going, DroppingStale DEF CheckFrame
<1>15. CASE RecheckFrame(t)
  BY <1>15, PlainEffect, Going, DroppingStale DEF RecheckFrame
<1>16. CASE TTSFailed(t)
  BY <1>16, PlainEffect, Settling DEF TTSFailed
<1>17. CASE FinishReply(t)
  BY <1>17, PlainEffect, Going, Settling DEF FinishReply
<1>18. CASE RecordCompletion(t)
  BY <1>18, PlainEffect, Settling DEF RecordCompletion
<1>19. QED
  BY <1>1, <1>2, <1>3, <1>4, <1>5, <1>6, <1>7, <1>8, <1>9, <1>10, <1>11, <1>12,
     <1>13, <1>14, <1>15, <1>16, <1>17, <1>18

\* The steps of the pump that change a field of the loop or of the turn.
LEMMA StatefulSteps ==
    ASSUME TypeOK, NEW t \in Turns, PumpStep(t),
           \/ ClearStream(t)
           \/ EnsureStopped(t)
           \/ EnsureAdopted(t)
           \/ Route(t)
           \/ MarkTTSStarted(t)
           \/ Pace(t)
           \/ BeginSpeaking(t)
           \/ SendAudio(t)
           \/ FlushReply(t)
           \/ CompleteSpeaking(t)
           \/ MarkSpeakingCompleted(t)
           \/ Release(t)
           \/ FinalResult(t)
    PROVE  Effect(t)
<1> USE DEF After, Parts, PumpPCs
<1>1. UNCHANGED pumpFrame
  BY DEF PumpStep
<1>2. phase \in [Turns -> {"llm", "system", "flush"}] /\ pacerFirst \in BOOLEAN
  BY DEF TypeOK
<1>3. pump[t] \in PumpPCs
  BY DEF TypeOK
<1> USE <1>1, <1>2, <1>3
    DEF Effect, SessionEffect, LoopEffect, ClaimEffect, TTSEffect, RecordEffect,
        asrSide, loopVars, ttsVars
<1>4. CASE ClearStream(t)
  BY <1>4, Going DEF ClearStream
<1>5. CASE EnsureStopped(t)
  BY <1>5, Going, Settling DEF EnsureStopped, CanStopListening
<1>6. CASE EnsureAdopted(t)
  BY <1>6, Going DEF EnsureAdopted
<1>7. CASE Route(t)
  BY <1>7, Going, Settling DEF Route
<1>8. CASE MarkTTSStarted(t)
  BY <1>8, Going DEF MarkTTSStarted
<1>9. CASE Pace(t)
  BY <1>9, Going, Settling DEF Pace
<1>10. CASE BeginSpeaking(t)
  BY <1>10, Going, Settling DEF BeginSpeaking
<1>11. CASE SendAudio(t)
  BY <1>11, Going, Settling DEF SendAudio
<1>12. CASE FlushReply(t)
  BY <1>12, Going, Settling DEF FlushReply
<1>13. CASE CompleteSpeaking(t)
  BY <1>13, Going, Settling DEF CompleteSpeaking
<1>14. CASE MarkSpeakingCompleted(t)
  BY <1>14, Going DEF MarkSpeakingCompleted
<1>15. CASE Release(t)
  BY <1>15, Going DEF Release
<1>16. CASE FinalResult(t)
  BY <1>16, Going, Ending DEF FinalResult, Ends, Quietly, MayClaim
<1>17. QED
  BY <1>4, <1>5, <1>6, <1>7, <1>8, <1>9, <1>10, <1>11, <1>12, <1>13, <1>14,
     <1>15, <1>16

\* The steps of the pump that stop the playback.
LEMMA StopSteps ==
    ASSUME TypeOK, NEW t \in Turns, PumpStep(t),
           \/ MarkTTSStop(t, "ttsError", "errorStop", "failed")
           \/ SendTTSStop(t, "errorStop", "failed")
           \/ MarkTTSStop(t, "stop", "sendStop", "complete")
           \/ SendTTSStop(t, "sendStop", "complete")
    PROVE  Effect(t)
<1> USE DEF After, Parts, PumpPCs
<1>1. UNCHANGED pumpFrame
  BY DEF PumpStep
<1>2. phase \in [Turns -> {"llm", "system", "flush"}] /\ pacerFirst \in BOOLEAN
  BY DEF TypeOK
<1>3. pump[t] \in PumpPCs /\ stops \in [Turns -> Nat]
  BY DEF TypeOK
<1> USE <1>1, <1>2, <1>3
    DEF Effect, SessionEffect, LoopEffect, ClaimEffect, TTSEffect, RecordEffect,
        asrSide, loopVars, ttsVars
<1>4. CASE MarkTTSStop(t, "ttsError", "errorStop", "failed")
  BY <1>4, Going DEF MarkTTSStop
<1>5. CASE SendTTSStop(t, "errorStop", "failed")
  BY <1>5, Going DEF SendTTSStop
<1>6. CASE MarkTTSStop(t, "stop", "sendStop", "complete")
  BY <1>6, Going DEF MarkTTSStop
<1>7. CASE SendTTSStop(t, "sendStop", "complete")
  BY <1>7, Going, Settling DEF SendTTSStop
<1>8. QED
  BY <1>4, <1>5, <1>6, <1>7

\* What any step of a pump does.
LEMMA PumpEffect ==
    ASSUME TypeOK, NEW t \in Turns, PumpStep(t)
    PROVE  Effect(t)
<1>1. UNCHANGED pumpFrame
  BY DEF PumpStep
<1>2. CASE AsrAnswers(t)
  BY <1>1, <1>2, PlainSteps, StatefulSteps DEF AsrAnswers
<1>3. CASE PumpWorks(t)
  BY <1>1, <1>3, PlainSteps, StatefulSteps, StopSteps DEF PumpWorks
<1>4. QED
  BY <1>2, <1>3 DEF PumpStep

-----------------------------------------------------------------------------
\* The types.  First the constants' bounds, which a behaviour's setup keeps.
LEMMA SetupBounds ==
    ASSUME TypeOK
    PROVE  /\ setup.aborts \in Nat /\ setup.aborts <= MaxAborts
           /\ setup.stops \in Nat /\ setup.stops <= MaxStops
           /\ MaxTurns \in Nat /\ MaxAborts \in Nat /\ MaxStops \in Nat
  BY BoundsAssumption DEF TypeOK

\* What the session's methods make of it has its type.
LEMMA SessionTypes ==
    ASSUME NEW s \in SessionType
    PROVE  /\ s.gen \in Nat
           /\ Closed(s) \in SessionType /\ Interrupted(s) \in SessionType
           /\ HelloAnswered(HelloReceived(s)) \in SessionType
           /\ ListeningStarted(s) \in SessionType /\ ListeningStopped(s) \in SessionType
           /\ SpeakingBegun(s) \in SessionType /\ SpeakingCompleted(s) \in SessionType
           /\ NoSpeechCompleted(s) \in SessionType
           /\ \A g : ResetForGeneration(s, g) \in SessionType
<1>1. NextGeneration(s) \in Nat
  BY DEF NextGeneration, SessionType
<1>2. Interrupted(s) \in SessionType
  BY <1>1 DEF Interrupted, At, SessionType, States
<1>3. ListeningStarted(s) \in SessionType
  BY <1>1 DEF ListeningStarted, At, SessionType, States
<1>4. QED
  BY <1>2, <1>3
  DEF Closed, HelloAnswered, HelloReceived, ListeningStopped, SpeakingBegun,
      SpeakingCompleted, NoSpeechCompleted, ResetForGeneration, In, At,
      SessionType, States

\* The variables that only some of the goroutines write.
LEMMA PumpTypes ==
    ASSUME TypeOK, NEW t \in Turns, PumpStep(t)
    PROVE  TypeOK'
<1>1. Effect(t)
  BY PumpEffect
<1>2. session' \in SessionType /\ gen' \in [Turns -> Nat]
  BY <1>1, SessionTypes DEF Effect, SessionEffect, TypeOK
<1>3. /\ active' \in Turns \cup {NoTurn} /\ asr' \in Turns \cup {NoTurn}
      /\ listenGen' \in Nat /\ recent' \in BOOLEAN
  <2>1. LoopEffect(t)
    BY <1>1 DEF Effect
  <2>2. listenGen' \in Nat
    BY <2>1 DEF LoopEffect, TypeOK
  <2>3. recent' \in BOOLEAN
    BY <2>1 DEF LoopEffect, TypeOK
  <2>4. QED
    BY <2>1, <2>2, <2>3 DEF LoopEffect, TypeOK
<1>4. claimed' \subseteq Turns
  BY <1>1 DEF Effect, ClaimEffect, TypeOK
<1>5. /\ ttsStarted' \subseteq Turns /\ ttsStopSent' \subseteq Turns
      /\ spoke' \subseteq Turns
      /\ stops' \in [Turns -> Nat]
      /\ phase' \in [Turns -> {"llm", "system", "flush"}] /\ pacerFirst' \in BOOLEAN
  BY <1>1 DEF Effect, TTSEffect, TypeOK
<1>6. /\ outcome' \in [Turns -> {"open", "completed", "ended", "failed"}]
      /\ result' \subseteq Turns
  BY <1>1 DEF Effect, RecordEffect, TypeOK
<1>7. pump' \in [Turns -> PumpPCs]
  <2>1. pump'[t] \in PumpPCs
    BY <1>1 DEF Effect, After, Parts, PumpPCs
  <2>2. QED
    BY <1>1, <2>1 DEF Effect, TypeOK
<1>8. UNCHANGED pumpFrame
  BY DEF PumpStep
<1>9. QED
  BY <1>2, <1>3, <1>4, <1>5, <1>6, <1>7, <1>8
  DEF TypeOK, pumpFrame, threadVars, bindVars

\* What HandOver and Record do to the types.
LEMMA HandOverTypes ==
    ASSUME TypeOK, NEW t \in Turns \cup {NoTurn}, HandOver(t)
    PROVE  /\ active' \in Turns \cup {NoTurn} /\ asr' \in Turns \cup {NoTurn}
           /\ listenGen' \in Nat /\ cancelled' \subseteq Turns
  BY DEF HandOver, Cancel, TypeOK

LEMMA RecordTypes ==
    ASSUME TypeOK, NEW t, NEW o \in {"completed", "ended", "failed"}, Record(t, o)
    PROVE  outcome' \in [Turns -> {"open", "completed", "ended", "failed"}]
  BY DEF Record, TypeOK

\* The read loop is busy with a turn it has made.
LEMMA ReaderHasTurn ==
    ASSUME TypeOK, TurnsHaveOwners,
           \/ reader.pc \in {"replace", "start", "install", "fail", "reset"}
           \/ reader.pc \in {"mark", "stop", "record"} /\ reader.turn # NoTurn
    PROVE  /\ reader.turn \in Turns /\ reader.turn # NoTurn
           /\ reader.turn <= turns /\ pump[reader.turn] = "none"
<1>1. /\ reader.turn \in 1 .. turns /\ turns \in 0 .. MaxTurns
      /\ pump[reader.turn] = "none"
  BY DEF TurnsHaveOwners, TypeOK
<1>2. QED
  BY <1>1, SetupBounds DEF Turns, NoTurn

LEMMA ReaderTypes ==
    ASSUME TypeOK, TurnsHaveOwners, ReaderStep
    PROVE  TypeOK'
<1> USE DEF ReaderPCs
<1>1. UNCHANGED <<claimed, finished, result, phase, pacerFirst, ttsStarted,
                  spoke, closer, bound, linkUp, setup>>
  BY DEF ReaderStep
<1>2. /\ reader.turn \in Turns \cup {NoTurn}
      /\ reader.previous \in Turns \cup {NoTurn}
      /\ NoTurn \in Turns \cup {NoTurn}
  BY DEF TypeOK
<1> USE <1>1, <1>2
<1>3. CASE Hello
  BY <1>3, SessionTypes DEF Hello, Read, TypeOK, loopVars
<1>4. CASE HelloAnswer
  BY <1>4 DEF HelloAnswer, ReaderDone, Read, TypeOK, loopVars
<1>5. CASE ListenStart
  <2>1. turns' \in Turns /\ turns' \in 0 .. MaxTurns
    <3>1. turns \in Nat /\ turns < MaxTurns /\ turns' = turns + 1
      BY <1>5, SetupBounds DEF ListenStart, TypeOK
    <3>2. QED
      BY <3>1, SetupBounds DEF Turns
  <2>2. session' \in SessionType /\ session'.gen \in Nat
    BY <1>5, SessionTypes DEF ListenStart, TypeOK
  <2>3. gen' \in [Turns -> Nat]
    BY <1>5, <2>1, <2>2 DEF ListenStart, TypeOK
  <2>4. /\ recent' \in BOOLEAN
        /\ timer' \in [Turns -> {"off", "set", "armed", "expired", "silent"}]
    BY <1>5, <2>1 DEF ListenStart, TypeOK
  <2>5. QED
    BY <1>5, <2>1, <2>2, <2>3, <2>4 DEF ListenStart, Read, TypeOK
<1>6. CASE ReplaceTurn
  BY <1>6, HandOverTypes DEF ReplaceTurn, Read, TypeOK
<1>7. CASE MarkPreviousStop
  BY <1>7 DEF MarkPreviousStop, OwesStop, Read, TypeOK, loopVars
<1>8. CASE SendPreviousStop
  <2>1. stops' \in [Turns -> Nat]
    BY <1>8 DEF SendPreviousStop, TypeOK
  <2>2. reader' \in [pc : ReaderPCs, turn : Turns \cup {NoTurn},
                    previous : Turns \cup {NoTurn}]
    BY <1>8 DEF SendPreviousStop, ReaderDone, Read
  <2>3. QED
    BY <1>8, <2>1, <2>2 DEF SendPreviousStop, TypeOK, loopVars
<1>9. CASE RecordPrevious
  <2>1. outcome' \in [Turns -> {"open", "completed", "ended", "failed"}]
    BY <1>9, RecordTypes DEF RecordPrevious
  <2>2. reader' \in [pc : ReaderPCs, turn : Turns \cup {NoTurn},
                    previous : Turns \cup {NoTurn}]
    BY <1>9 DEF RecordPrevious, ReaderDone, Read
  <2>3. QED
    BY <1>9, <2>1, <2>2 DEF RecordPrevious, TypeOK, loopVars
<1>10. CASE StartASR
  BY <1>10 DEF StartASR, Read, TypeOK, loopVars
<1>11. CASE InstallStream
  <2>1. gen[reader.turn] \in Nat
    BY <1>11, ReaderHasTurn DEF InstallStream, TypeOK
  <2>2. listenGen' \in Nat
    BY <1>11, <2>1 DEF InstallStream
  <2>3. /\ pump' \in [Turns -> PumpPCs]
        /\ timer' \in [Turns -> {"off", "set", "armed", "expired", "silent"}]
    BY <1>11 DEF InstallStream, TypeOK, PumpPCs
  <2>4. QED
    BY <1>11, <2>2, <2>3 DEF InstallStream, ReaderDone, Read, TypeOK
<1>12. CASE ClearFailed
  BY <1>12 DEF ClearFailed, Read, TypeOK
<1>13. CASE ResetFailed
  <2>1. outcome' \in [Turns -> {"open", "completed", "ended", "failed"}]
    BY <1>13, RecordTypes DEF ResetFailed
  <2>2. session' \in SessionType
    BY <1>13, SessionTypes DEF ResetFailed, TypeOK
  <2>3. QED
    BY <1>13, <2>1, <2>2 DEF ResetFailed, ReaderDone, Read, TypeOK, loopVars
<1>14. CASE Abort
  BY <1>14, SessionTypes, SetupBounds DEF Abort, Read, TypeOK, loopVars
<1>15. CASE CancelAborted
  BY <1>15, HandOverTypes DEF CancelAborted, Read, TypeOK
<1>16. ASSUME NEW i \in Stops, ListenStop(i)
       PROVE  TypeOK'
  BY <1>16 DEF ListenStop, TypeOK, StopperPCs, loopVars
<1>17. QED
  BY <1>3, <1>4, <1>5, <1>6, <1>7, <1>10, <1>11, <1>12, <1>13, <1>14, <1>15,
     <1>8, <1>16, <1>9 DEF ReaderStep, Handling

LEMMA StopperTypes ==
    ASSUME TypeOK, TurnsHaveOwners, NEW i \in Stops, StopperStep(i)
    PROVE  TypeOK'
<1> USE DEF StopperPCs, Stopper
<1>1. UNCHANGED <<loopVars, turns, gen, cancelled, claimed, outcome, pump,
                  ttsVars, reader, timer, closer, bindVars>>
  BY DEF StopperStep
<1>2. /\ stopper[i].gen \in Nat /\ stopper[i].turn \in Turns \cup {NoTurn}
      /\ session.gen \in Nat
  BY SessionTypes DEF TypeOK
<1>3. /\ session' \in SessionType /\ finished' \subseteq Turns /\ result' \subseteq Turns
      /\ stopper' \in [Stops -> [pc : StopperPCs, gen : Nat,
                                 turn : Turns \cup {NoTurn}]]
  <2>1. CASE StopListening(i)
    BY SMTT(30), <1>2, <2>1, SessionTypes DEF StopListening, TypeOK
  <2>2. CASE FindStream(i)
    BY <1>2, <2>2 DEF FindStream, TypeOK
  <2>3. CASE FinishStream(i)
    BY <1>2, <2>3 DEF FinishStream, TurnsHaveOwners, TypeOK
  <2>4. CASE AwaitResult(i)
    BY <1>2, <2>4 DEF AwaitResult, TypeOK
  <2>5. QED
    BY <2>1, <2>2, <2>3, <2>4 DEF StopperStep
<1>4. QED
  BY <1>1, <1>3 DEF TypeOK, loopVars, ttsVars, bindVars

LEMMA TimerTypes ==
    ASSUME TypeOK, NEW t \in Turns, TimerStep(t)
    PROVE  TypeOK'
<1>1. UNCHANGED <<turns, gen, finished, result, pump, ttsVars, reader, stopper,
                  closer, bindVars>>
  BY DEF TimerStep
<1> USE <1>1 DEF ttsVars, bindVars
<1>2. CASE TailTooLate(t)
  BY <1>2 DEF TailTooLate, TypeOK, loopVars
<1>3. CASE TailExpires(t)
  BY <1>3, HandOverTypes DEF TailExpires, TypeOK
<1>4. CASE TailCompletes(t)
  BY <1>4, RecordTypes, SessionTypes DEF TailCompletes, TypeOK, loopVars
<1>5. QED
  BY <1>2, <1>3, <1>4 DEF TimerStep

LEMMA CloserTypes ==
    ASSUME TypeOK, CloserStep
    PROVE  TypeOK'
<1>1. UNCHANGED <<turns, gen, claimed, finished, result, pump, ttsVars, reader,
                  stopper, timer, setup, aborts>>
  BY DEF CloserStep
<1> USE <1>1 DEF ttsVars
<1>2. CASE SessionReplaced
  BY <1>2, SessionTypes DEF SessionReplaced, TypeOK, loopVars
<1>3. ASSUME Unbind \/ CountOut \/ CloseLink \/ LinkFails
      PROVE  TypeOK'
  <2>1. bound' \in BOOLEAN /\ counted' \in BOOLEAN /\ linkUp' \in BOOLEAN
    BY <1>3 DEF Unbind, CountOut, CloseLink, LinkFails, TypeOK
  <2>2. /\ closer' \in [pc : CloserPCs, turn : Turns \cup {NoTurn}]
        /\ UNCHANGED <<session, loopVars, cancelled, outcome>>
    BY <1>3
    DEF Unbind, CountOut, CloseLink, LinkFails, Closes, CloserPCs, TypeOK
  <2>3. QED
    BY <2>1, <2>2 DEF TypeOK, loopVars
<1>4. CASE CloseTurn
  BY <1>4, HandOverTypes DEF CloseTurn, Closes, CloserPCs, TypeOK
<1>5. CASE CloseSession
  BY <1>5, SessionTypes DEF CloseSession, Closes, CloserPCs, TypeOK, loopVars
<1>6. CASE RecordClosed
  BY <1>6, RecordTypes DEF RecordClosed, Closes, CloserPCs, TypeOK, loopVars
<1>7. QED
  BY <1>2, <1>3, <1>4, <1>5, <1>6 DEF CloserStep, Closing

LEMMA StutterTypes ==
    ASSUME TypeOK, UNCHANGED vars
    PROVE  TypeOK'
  BY DEF TypeOK, vars, loopVars, ttsVars, threadVars, bindVars

LEMMA StepTypes == TypeOK /\ TurnsHaveOwners /\ [Next]_vars => TypeOK'
  BY PumpTypes, ReaderTypes, StopperTypes, TimerTypes, CloserTypes, StutterTypes
  DEF Next, Idle

-----------------------------------------------------------------------------
\* Who owns the turns.
LEMMA PumpOwners ==
    ASSUME TypeOK, TurnsHaveOwners, LiveIsActive, NEW t \in Turns, PumpStep(t)
    PROVE  TurnsHaveOwners' /\ LiveIsActive'
<1>1. /\ pump' = [pump EXCEPT ![t] = pump'[t]]
      /\ pump'[t] \in After(pump[t])
      /\ LoopEffect(t)
  BY PumpEffect DEF Effect
<1>2. pump[t] \notin {"none", "end"} /\ pump'[t] # "none"
  BY <1>1 DEF After, Parts
<1>3. \A u \in Turns : u # t => pump'[u] = pump[u]
  BY <1>1 DEF TypeOK
<1>4. UNCHANGED <<turns, cancelled, timer, reader, closer, bound, stopper>>
  BY <1>1 DEF LoopEffect, pumpFrame, threadVars, bindVars
<1>5. asr' # NoTurn => asr' = asr /\ pump'[asr] \in {"asr", "clear", "end"}
  <2>1. CASE asr = t
    BY <1>1, <2>1 DEF LoopEffect, TurnsHaveOwners, After
  <2>2. CASE asr # t
    BY <1>1, <1>3, <2>2 DEF LoopEffect, TurnsHaveOwners, TypeOK
  <2>3. QED
    BY <2>1, <2>2
<1>6. /\ active' # active => active = t /\ active' = NoTurn
      /\ active' # active => pump[t] = "release" /\ pump'[t] = "remember"
  BY <1>1 DEF LoopEffect, After
<1>7. TurnsHaveOwners'
  <2>1. \A u \in Turns : u > turns => pump'[u] = "none"
    BY <1>2, <1>3 DEF TurnsHaveOwners
  <2>2. \A u \in Turns : timer[u] \in {"armed", "expired", "silent"} => pump'[u] # "none"
    BY <1>2, <1>3 DEF TurnsHaveOwners
  <2>3. /\ reader.pc \in {"replace", "start", "install", "fail", "reset"}
             => reader.turn # NoTurn
        /\ reader.pc \in {"replace", "mark", "stop", "record", "start", "install",
                          "fail", "reset"} /\ reader.turn # NoTurn
             => reader.turn # t /\ reader.turn \in Turns /\ pump'[reader.turn] = "none"
    BY <1>2, <1>3, ReaderHasTurn
  <2>4. reader.pc \in {"mark", "stop", "record", "start", "install"} /\ bound
          => active' = reader.turn
    BY <1>6, <2>3 DEF TurnsHaveOwners, Turns, NoTurn
  <2>5. QED
    BY <1>4, <1>5, <2>1, <2>2, <2>3, <2>4 DEF TurnsHaveOwners
<1>8. LiveIsActive'
  <2>1. ASSUME NEW u \in Turns, pump'[u] \notin {"none", "end"}, ~Done(u)'
        PROVE  active' = u \/ pump'[u] = "remember"
    <3>1. pump[u] \notin {"none", "end"} /\ ~Done(u)
      BY <1>2, <1>3, <1>4, <2>1 DEF Done
    <3>2. active = u \/ pump'[u] = "remember"
      BY <1>1, <1>3, <2>1, <3>1 DEF LiveIsActive, After
    <3>3. QED
      BY <1>6, <2>1, <3>2
  <2>2. bound' /\ asr' # NoTurn => asr' = active'
    <3>1. SUFFICES ASSUME bound, asr' # NoTurn, active' # active
                   PROVE  FALSE
      BY <1>4, <1>5 DEF LiveIsActive
    <3>2. asr = t /\ pump[t] = "release"
      BY <1>4, <1>5, <1>6, <3>1 DEF LiveIsActive
    <3>3. QED
      BY <3>1, <3>2, <1>5 DEF TurnsHaveOwners
  <2>3. QED
    BY <2>1, <2>2 DEF LiveIsActive
<1>9. QED
  BY <1>7, <1>8

\* A step that changes neither the loop's turns nor where the pumps are.
LEMMA QuietOwners ==
    ASSUME TypeOK, TurnsHaveOwners, LiveIsActive,
           UNCHANGED <<active, asr, turns, cancelled, pump, timer, bound, closer>>,
           \A i \in Stops : stopper'[i].pc \in {"finish", "wait"}
                              => stopper'[i].turn \in Turns,
           \/ reader'.pc \in {"idle", "hello", "cancel"}
           \/ /\ reader'.turn = reader.turn
              /\ \/ reader'.pc = reader.pc
                 \/ reader.pc = "mark" /\ reader'.pc \in {"stop", "record"}
                 \/ reader.pc = "stop" /\ reader'.pc = "record"
                 \/ reader.pc = "stop" /\ reader.turn # NoTurn /\ reader'.pc = "fail"
                 \/ reader.pc = "record" /\ reader.turn # NoTurn /\ reader'.pc = "start"
                 \/ reader.pc = "start" /\ reader'.pc \in {"install", "fail"}
    PROVE  TurnsHaveOwners' /\ LiveIsActive'
<1>1. TurnsHaveOwners'
  BY DEF TurnsHaveOwners
<1>2. LiveIsActive'
  BY DEF LiveIsActive, Done
<1>3. QED
  BY <1>1, <1>2

LEMMA ReaderOwners ==
    ASSUME TypeOK, TurnsHaveOwners, LiveIsActive, ReaderStep
    PROVE  TurnsHaveOwners' /\ LiveIsActive'
<1> USE DEF Read, ReaderDone
<1>1. UNCHANGED <<closer, bound>>
  BY DEF ReaderStep
<1>2. /\ \A i \in Stops : stopper[i].pc \in {"finish", "wait"}
                            => stopper[i].turn \in Turns
  BY DEF TurnsHaveOwners
<1>3. CASE Hello \/ HelloAnswer \/ StartASR \/ Abort
  BY <1>1, <1>2, <1>3, QuietOwners
  DEF Hello, HelloAnswer, StartASR, Abort, loopVars
<1>4. CASE MarkPreviousStop \/ SendPreviousStop \/ RecordPrevious \/ ResetFailed
  BY <1>1, <1>2, <1>4, QuietOwners
  DEF MarkPreviousStop, SendPreviousStop, RecordPrevious, ResetFailed, loopVars
<1>5. ASSUME NEW i \in Stops, ListenStop(i)
      PROVE  TurnsHaveOwners' /\ LiveIsActive'
  <2>1. \A j \in Stops : stopper'[j].pc \in {"finish", "wait"}
                           => stopper'[j].turn \in Turns
    BY <1>2, <1>5 DEF ListenStop, TypeOK
  <2>2. QED
    BY <1>1, <1>5, <2>1, QuietOwners DEF ListenStop, loopVars
<1>6. CASE ListenStart
  <2>1. /\ turns \in Nat /\ turns' = turns + 1 /\ turns' \in Turns
        /\ \A u \in Turns : u # turns' => timer'[u] = timer[u]
        /\ timer'[turns'] \in {"set", "off"}
    <3>1. turns \in Nat /\ turns' = turns + 1 /\ turns' \in Turns
      BY SMTT(30), <1>6, SetupBounds DEF ListenStart, TypeOK, Turns
    <3>2. \E v \in {"set", "off"} : timer' = [timer EXCEPT ![turns'] = v]
      BY <1>6 DEF ListenStart
    <3>3. QED
      BY <3>1, <3>2 DEF TypeOK
  <2>2. UNCHANGED <<active, asr, cancelled, pump, stopper>>
    BY <1>6 DEF ListenStart
  <2>3. \A u \in Turns : u \in Nat
    BY DEF Turns
  <2>4. reader' = [pc |-> "replace", turn |-> turns', previous |-> NoTurn]
    BY <1>6 DEF ListenStart
  <2>5. pump'[turns'] = "none"
    BY <2>1, <2>2 DEF TurnsHaveOwners
  <2>6. \A u \in Turns : u > turns' => pump'[u] = "none" /\ timer'[u] = "off"
    BY <2>1, <2>2, <2>3 DEF TurnsHaveOwners
  <2>7. \A u \in Turns : timer'[u] \in {"armed", "expired", "silent"}
                           => pump'[u] # "none"
    BY <2>1, <2>2 DEF TurnsHaveOwners
  <2>8. turns' \in 1 .. turns' /\ reader'.pc = "replace" /\ reader'.turn = turns'
        /\ turns' # NoTurn
    BY <2>1, <2>3, <2>4 DEF Turns, NoTurn
  <2>9. TurnsHaveOwners'
    BY <1>1, <1>2, <2>2, <2>5, <2>6, <2>7, <2>8 DEF TurnsHaveOwners
  <2>10. LiveIsActive'
    BY <1>1, <2>2 DEF LiveIsActive, Done
  <2>11. QED
    BY <2>9, <2>10
<1>7. CASE ReplaceTurn
  <2>1. /\ reader.turn \in Turns /\ pump[reader.turn] = "none"
    BY <1>7, ReaderHasTurn DEF ReplaceTurn
  <2>2. /\ active' = reader.turn /\ asr' = NoTurn
        /\ cancelled' = IF active = NoTurn THEN cancelled ELSE cancelled \cup {active}
    BY <1>7 DEF ReplaceTurn, HandOver, Cancel
  <2>3. /\ reader' = [pc |-> "mark", turn |-> reader.turn, previous |-> active]
        /\ UNCHANGED <<turns, pump, timer, stopper>>
    BY <1>7 DEF ReplaceTurn
  <2>4. TurnsHaveOwners'
    BY <1>1, <1>7, <2>1, <2>2, <2>3 DEF TurnsHaveOwners, ReplaceTurn
  <2>5. \A u \in Turns : u # NoTurn
    BY DEF Turns, NoTurn
  <2>6. \A u \in Turns : pump[u] \notin {"none", "remember", "end"} => Done(u)'
    BY <1>1, <2>2, <2>5 DEF LiveIsActive, Done
  <2>7. LiveIsActive'
    BY <2>2, <2>3, <2>6 DEF LiveIsActive
  <2>8. QED
    BY <2>4, <2>7
<1>8. CASE CancelAborted
  <2>1. /\ active' = NoTurn /\ asr' = NoTurn
        /\ cancelled' = IF active = NoTurn THEN cancelled ELSE cancelled \cup {active}
    BY <1>8 DEF CancelAborted, HandOver, Cancel
  <2>2. /\ reader'.pc = "mark" /\ reader'.turn = NoTurn
        /\ UNCHANGED <<turns, pump, timer, stopper>>
    BY <1>8 DEF CancelAborted
  <2>3. TurnsHaveOwners'
    BY <1>1, <2>1, <2>2 DEF TurnsHaveOwners
  <2>4. \A u \in Turns : u # NoTurn
    BY DEF Turns, NoTurn
  <2>5. \A u \in Turns : pump[u] \notin {"none", "remember", "end"} => Done(u)'
    BY <1>1, <2>1, <2>4 DEF LiveIsActive, Done
  <2>6. LiveIsActive'
    BY <2>1, <2>2, <2>5 DEF LiveIsActive
  <2>7. QED
    BY <2>3, <2>6
<1>9. CASE InstallStream
  <2> DEFINE r == reader.turn
  <2>1. /\ r \in Turns /\ r # NoTurn /\ r <= turns /\ pump[r] = "none"
        /\ bound => active = r
    BY <1>9, ReaderHasTurn DEF InstallStream, TurnsHaveOwners
  <2>2. /\ asr' = r /\ pump'[r] = "asr"
        /\ \A u \in Turns : u # r => pump'[u] = pump[u] /\ timer'[u] = timer[u]
        /\ UNCHANGED <<active, turns, cancelled, stopper>>
        /\ reader'.pc = "idle"
    BY <1>9, <2>1 DEF InstallStream, TypeOK
  <2>3. turns \in Nat /\ \A u \in Turns : u \in Nat
    BY SetupBounds DEF TypeOK, Turns
  <2>4. TurnsHaveOwners'
    BY <1>1, <2>1, <2>2, <2>3 DEF TurnsHaveOwners
  <2>5. LiveIsActive'
    BY <1>1, <2>1, <2>2 DEF LiveIsActive, Done
  <2>6. QED
    BY <2>4, <2>5
<1>10. CASE ClearFailed
  <2> DEFINE r == reader.turn
  <2>1. r \in Turns /\ pump[r] = "none" /\ r <= turns
    BY <1>10, ReaderHasTurn DEF ClearFailed
  <2>2. /\ asr = NoTurn /\ asr' = asr
        /\ active' = IF active = r THEN NoTurn ELSE active
        /\ reader' = [pc |-> "reset", turn |-> r, previous |-> NoTurn]
        /\ UNCHANGED <<turns, cancelled, pump, timer, stopper>>
    BY <1>10 DEF ClearFailed, TurnsHaveOwners
  <2>3. TurnsHaveOwners'
    BY <1>1, <1>10, <2>1, <2>2 DEF TurnsHaveOwners, ClearFailed
  <2>4. LiveIsActive'
    BY <1>1, <2>1, <2>2 DEF LiveIsActive, Done
  <2>5. QED
    BY <2>3, <2>4
<1>11. QED
  BY <1>3, <1>4, <1>5, <1>6, <1>7, <1>8, <1>9, <1>10 DEF ReaderStep, Handling

LEMMA StopperOwners ==
    ASSUME TypeOK, TurnsHaveOwners, LiveIsActive, NEW i \in Stops, StopperStep(i)
    PROVE  TurnsHaveOwners' /\ LiveIsActive'
<1>1. UNCHANGED <<active, asr, turns, cancelled, pump, timer, bound, closer, reader>>
  BY DEF StopperStep, loopVars, bindVars
<1>2. \A j \in Stops : j # i => stopper'[j] = stopper[j]
  BY DEF StopperStep, StopListening, FindStream, FinishStream, AwaitResult,
         Stopper, TypeOK
<1>3. stopper'[i].pc \in {"finish", "wait"} => stopper'[i].turn \in Turns
  <2>1. CASE FindStream(i)
    BY <2>1 DEF FindStream, LookupStream, Stopper, TypeOK
  <2>2. CASE FinishStream(i)
    BY <2>2 DEF FinishStream, Stopper, TypeOK, TurnsHaveOwners
  <2>3. CASE StopListening(i) \/ AwaitResult(i)
    BY <2>3 DEF StopListening, AwaitResult, Stopper, TypeOK
  <2>4. QED
    BY <2>1, <2>2, <2>3 DEF StopperStep
<1>4. QED
  BY <1>1, <1>2, <1>3, QuietOwners DEF TurnsHaveOwners

LEMMA TimerOwners ==
    ASSUME TypeOK, TurnsHaveOwners, LiveIsActive, NEW t \in Turns, TimerStep(t)
    PROVE  TurnsHaveOwners' /\ LiveIsActive'
<1>1. UNCHANGED <<turns, pump, reader, stopper, closer, bound>>
  BY DEF TimerStep, bindVars
<1>2. /\ timer[t] \in {"armed", "expired"}
      /\ timer'[t] \in {"off", "expired", "silent"}
      /\ \A u \in Turns : u # t => timer'[u] = timer[u]
  BY DEF TimerStep, TailTooLate, TailExpires, TailCompletes, TypeOK
<1>3. /\ \A u \in Turns : u > turns => timer'[u] = "off"
      /\ \A u \in Turns : timer'[u] \in {"armed", "expired", "silent"} => pump[u] # "none"
  BY <1>2 DEF TurnsHaveOwners
<1>4. CASE UNCHANGED <<active, asr, cancelled>>
  <2>1. TurnsHaveOwners'
    BY <1>1, <1>3, <1>4 DEF TurnsHaveOwners
  <2>2. LiveIsActive'
    BY <1>1, <1>4 DEF LiveIsActive, Done
  <2>3. QED
    BY <2>1, <2>2
<1>5. CASE TailExpires(t)
  <2>1. /\ active = t /\ asr = t /\ active' = NoTurn /\ asr' = NoTurn
        /\ cancelled' = cancelled \cup {t}
    BY <1>5 DEF TailExpires, TailOwnsTurn, HandOver, Cancel, Turns, NoTurn
  <2>2. pump[t] # "none"
    BY <1>2 DEF TurnsHaveOwners
  <2>3. reader.pc \in {"mark", "stop", "record", "start", "install"} /\ bound => FALSE
    BY <2>1, <2>2, ReaderHasTurn DEF TurnsHaveOwners, Turns, NoTurn
  <2>4. TurnsHaveOwners'
    BY <1>1, <1>3, <2>1, <2>3 DEF TurnsHaveOwners
  <2>5. LiveIsActive'
    BY <1>1, <2>1 DEF LiveIsActive, Done
  <2>6. QED
    BY <2>4, <2>5
<1>6. QED
  BY <1>4, <1>5 DEF TimerStep, TailTooLate, TailCompletes, loopVars

LEMMA CloserOwners ==
    ASSUME TypeOK, TurnsHaveOwners, LiveIsActive, CloserStep
    PROVE  TurnsHaveOwners' /\ LiveIsActive'
<1>1. UNCHANGED <<turns, pump, reader, stopper, timer>>
  BY DEF CloserStep
<1>2. CASE Unbind
  BY <1>1, <1>2 DEF Unbind, Closes, TurnsHaveOwners, LiveIsActive, Done, loopVars
<1>3. CASE CloseTurn
  <2>1. ~bound /\ bound' = bound /\ closer'.pc = "record" /\ asr' = NoTurn
    BY <1>3 DEF CloseTurn, Closes, TurnsHaveOwners, HandOver
  <2>2. QED
    BY <1>1, <2>1 DEF TurnsHaveOwners, LiveIsActive, Done
<1>4. CASE SessionReplaced \/ LinkFails \/ RecordClosed \/ CloseSession
             \/ CountOut \/ CloseLink
  BY <1>1, <1>4
  DEF SessionReplaced, LinkFails, RecordClosed, CloseSession, CountOut, CloseLink,
      Closes,
      TurnsHaveOwners, LiveIsActive, Done, loopVars
<1>5. QED
  BY <1>2, <1>3, <1>4 DEF CloserStep, Closing

LEMMA StepOwners ==
    TypeOK /\ TurnsHaveOwners /\ LiveIsActive /\ [Next]_vars
        => TurnsHaveOwners' /\ LiveIsActive'
<1>1. ASSUME TypeOK, TurnsHaveOwners, LiveIsActive, UNCHANGED vars
      PROVE  TurnsHaveOwners' /\ LiveIsActive'
  BY <1>1
  DEF TurnsHaveOwners, LiveIsActive, Done, vars, loopVars, threadVars, bindVars
<1>2. QED
  BY <1>1, PumpOwners, ReaderOwners, StopperOwners, TimerOwners, CloserOwners
  DEF Next, Idle

-----------------------------------------------------------------------------
\* Who has claimed the final result, and who says nothing.
LEMMA LateStaysLate ==
    ASSUME NEW pc \in PumpPCs, NEW next \in After(pc), pc \notin Early
    PROVE  next \notin Early
  BY DEF After, Parts, Early, PumpPCs

LEMMA PumpClaims ==
    ASSUME TypeOK, ClaimComesFirst, ExpiredTurnIsSilent, NEW t \in Turns, PumpStep(t)
    PROVE  ClaimComesFirst' /\ ExpiredTurnIsSilent'
<1>1. /\ pump[t] \in PumpPCs /\ pump'[t] \in After(pump[t])
      /\ pump' = [pump EXCEPT ![t] = pump'[t]]
      /\ LoopEffect(t) /\ ClaimEffect(t) /\ TTSEffect(t)
  BY PumpEffect DEF Effect
<1>2. timer' = timer
  BY <1>1 DEF LoopEffect, pumpFrame, threadVars
<1>3. \A u \in Turns : u # t =>
        /\ pump'[u] = pump[u]
        /\ u \in claimed' <=> u \in claimed
        /\ u \in ttsStarted' <=> u \in ttsStarted
        /\ u \in spoke' <=> u \in spoke
  BY <1>1 DEF ClaimEffect, TTSEffect, TypeOK
<1>4. claimed \subseteq claimed'
  BY <1>1 DEF ClaimEffect
<1>5. pump'[t] \notin {"none", "asr", "end"} => t \in claimed'
  <2>1. CASE pump[t] = "asr"
    BY <1>1, <2>1 DEF After, ClaimEffect
  <2>2. CASE pump[t] # "asr"
    BY <1>1, <1>4, <2>2 DEF After, ClaimComesFirst
  <2>3. QED
    BY <2>1, <2>2
<1>6. t \in ttsStarted' \cup spoke' => t \in claimed' /\ pump'[t] \notin Early
  <2>1. SUFFICES ASSUME t \in ttsStarted' \cup spoke'
                 PROVE  t \in claimed /\ pump[t] \notin Early
    BY <1>1, <1>4, LateStaysLate
  <2>2. CASE t \in ttsStarted \cup spoke
    BY <2>2 DEF ClaimComesFirst
  <2>3. CASE t \notin ttsStarted \cup spoke
    <3>1. pump[t] \in {"mark", "send"}
      BY <1>1, <2>1, <2>3 DEF TTSEffect
    <3>2. QED
      BY <3>1 DEF ClaimComesFirst, Early
  <2>4. QED
    BY <2>2, <2>3
<1>7. timer[t] \in {"expired", "silent"} =>
        t \in claimed' /\ pump'[t] \in {"asr", "end"} /\ t \notin ttsStarted'
  <2>1. SUFFICES ASSUME timer[t] \in {"expired", "silent"}
                 PROVE  pump'[t] \in {"asr", "end"} /\ t \notin ttsStarted'
    BY <1>4 DEF ClaimComesFirst
  <2>2. t \in claimed /\ pump[t] \in {"asr", "end"} /\ t \notin ttsStarted
    BY <2>1 DEF ClaimComesFirst, ExpiredTurnIsSilent
  <2>3. QED
    BY <1>1, <2>2 DEF After, ClaimEffect, TTSEffect
<1>8. ClaimComesFirst'
  BY <1>2, <1>3, <1>5, <1>6, <1>7 DEF ClaimComesFirst
<1>9. ExpiredTurnIsSilent'
  BY <1>2, <1>3, <1>7 DEF ExpiredTurnIsSilent
<1>10. QED
  BY <1>8, <1>9

\* A step of another goroutine, the expiry of a timer aside.
LEMMA QuietClaims ==
    ASSUME ClaimComesFirst, ExpiredTurnIsSilent,
           UNCHANGED <<claimed, ttsStarted, spoke>>,
           \A u \in Turns :
               /\ \/ pump'[u] = pump[u]
                  \/ /\ pump[u] = "none" /\ pump'[u] = "asr"
               /\ timer'[u] \in {"expired", "silent"} => timer[u] \in {"expired", "silent"}
    PROVE  ClaimComesFirst' /\ ExpiredTurnIsSilent'
<1>1. ClaimComesFirst'
  BY DEF ClaimComesFirst, Early
<1>2. ExpiredTurnIsSilent'
  BY DEF ExpiredTurnIsSilent
<1>3. QED
  BY <1>1, <1>2

\* What the read loop does to pumps and timers.
LEMMA ReaderStarts ==
    ASSUME TypeOK, TurnsHaveOwners, ReaderStep, NEW u \in Turns
    PROVE  /\ \/ pump'[u] = pump[u]
              \/ pump[u] = "none" /\ pump'[u] = "asr"
           /\ \/ timer'[u] = timer[u]
              \/ timer[u] \in {"off", "set"} /\ timer'[u] \in {"off", "set", "armed"}
<1>1. CASE ListenStart
  <2>1. pump' = pump /\ turns' = turns + 1
    BY <1>1 DEF ListenStart
  <2>2. \E v \in {"set", "off"} : timer' = [timer EXCEPT ![turns'] = v]
    BY <1>1 DEF ListenStart
  <2>3. u = turns' => timer[u] = "off"
    BY <2>1, SetupBounds DEF TurnsHaveOwners, TypeOK
  <2>4. QED
    BY <2>1, <2>2, <2>3 DEF TypeOK
<1>2. CASE InstallStream
  <2>1. reader.turn \in Turns /\ pump[reader.turn] = "none"
    BY <1>2, ReaderHasTurn DEF InstallStream
  <2>2. QED
    BY <1>2, <2>1 DEF InstallStream, TypeOK
<1>3. CASE \/ Hello \/ HelloAnswer \/ ReplaceTurn \/ StartASR
           \/ MarkPreviousStop \/ SendPreviousStop \/ RecordPrevious
           \/ ClearFailed \/ ResetFailed \/ Abort \/ CancelAborted
           \/ \E i \in Stops : ListenStop(i)
  BY <1>3
  DEF Hello, HelloAnswer, ReplaceTurn, MarkPreviousStop, SendPreviousStop,
      RecordPrevious, StartASR, ClearFailed, ResetFailed, Abort, CancelAborted,
      ListenStop
<1>4. QED
  BY <1>1, <1>2, <1>3 DEF ReaderStep, Handling

LEMMA TimerClaims ==
    ASSUME TypeOK, TurnsHaveOwners, ClaimComesFirst, ExpiredTurnIsSilent,
           NEW t \in Turns, TimerStep(t)
    PROVE  ClaimComesFirst' /\ ExpiredTurnIsSilent'
<1>1. UNCHANGED <<pump, ttsStarted, spoke>>
  BY DEF TimerStep, ttsVars
<1>2. CASE TailTooLate(t) \/ TailCompletes(t)
  <2>1. /\ claimed' = claimed
        /\ \A u \in Turns : timer'[u] \in {"expired", "silent"}
                              => timer[u] \in {"expired", "silent"}
    BY <1>2 DEF TailTooLate, TailCompletes, TypeOK
  <2>2. QED
    BY <1>1, <2>1, QuietClaims
<1>3. CASE TailExpires(t)
  <2>1. /\ asr = t /\ t \notin claimed /\ claimed' = claimed \cup {t}
        /\ timer' = [timer EXCEPT ![t] = "expired"]
    BY <1>3 DEF TailExpires, TailOwnsTurn
  <2>2. pump[t] \in {"asr", "end"} /\ t \notin ttsStarted
    BY <2>1 DEF TurnsHaveOwners, ClaimComesFirst, Turns, NoTurn
  <2>3. ClaimComesFirst'
    BY <1>1, <2>1, <2>2 DEF ClaimComesFirst, TypeOK
  <2>4. ExpiredTurnIsSilent'
    BY <1>1, <2>1, <2>2 DEF ExpiredTurnIsSilent, TypeOK
  <2>5. QED
    BY <2>3, <2>4
<1>4. QED
  BY <1>2, <1>3 DEF TimerStep

LEMMA StepClaims ==
    TypeOK /\ TurnsHaveOwners /\ ClaimComesFirst /\ ExpiredTurnIsSilent /\ [Next]_vars
        => ClaimComesFirst' /\ ExpiredTurnIsSilent'
<1> SUFFICES ASSUME TypeOK, TurnsHaveOwners, ClaimComesFirst, ExpiredTurnIsSilent,
                    [Next]_vars
             PROVE  ClaimComesFirst' /\ ExpiredTurnIsSilent'
  OBVIOUS
<1>1. CASE ReaderStep
  <2>1. UNCHANGED <<claimed, ttsStarted, spoke>>
    BY <1>1 DEF ReaderStep
  <2>2. QED
    BY <1>1, <2>1, ReaderStarts, QuietClaims
<1>2. ASSUME NEW i \in Stops, StopperStep(i)
      PROVE  ClaimComesFirst' /\ ExpiredTurnIsSilent'
  BY <1>2, QuietClaims DEF StopperStep, ttsVars
<1>3. CASE CloserStep
  BY <1>3, QuietClaims DEF CloserStep, ttsVars
<1>4. CASE UNCHANGED vars
  BY <1>4, QuietClaims DEF vars, ttsVars, threadVars
<1>5. QED
  BY <1>1, <1>2, <1>3, <1>4, PumpClaims, TimerClaims DEF Next, Idle

-----------------------------------------------------------------------------
\* What becomes of the tts stop and of the records.
LEMMA PumpMarks ==
    ASSUME TypeOK, MarkedIsSent, EndIsMarked, NEW t \in Turns, PumpStep(t)
    PROVE  MarkedIsSent' /\ EndIsMarked'
<1>1. /\ pump[t] \in PumpPCs /\ pump'[t] \in After(pump[t])
      /\ pump' = [pump EXCEPT ![t] = pump'[t]]
      /\ LoopEffect(t) /\ TTSEffect(t) /\ RecordEffect(t)
  BY PumpEffect DEF Effect
<1>2. linkUp' = linkUp /\ reader' = reader
  BY <1>1 DEF LoopEffect, pumpFrame, bindVars, threadVars
<1>3. \A u \in Turns : u # t =>
        /\ pump'[u] = pump[u] /\ outcome'[u] = outcome[u] /\ stops'[u] = stops[u]
        /\ u \in ttsStarted' <=> u \in ttsStarted
        /\ u \in ttsStopSent' <=> u \in ttsStopSent
  BY <1>1 DEF TTSEffect, RecordEffect, TypeOK
<1>4. \A u \in Turns : StopIsOnItsWay(u)' <=> StopIsOnItsWay(u)
  BY <1>2 DEF StopIsOnItsWay
<1>5. /\ t \notin ttsStopSent' => stops'[t] = 0
      /\ PumpStops(t)' \/ StopIsOnItsWay(t) => t \in ttsStopSent' /\ stops'[t] = 0
      /\ ~(PumpStops(t)' /\ StopIsOnItsWay(t))
      /\ t \in ttsStopSent' /\ ~PumpStops(t)' /\ ~StopIsOnItsWay(t)
           => stops'[t] = 1 \/ (stops'[t] = 0 /\ ~linkUp)
  <2>1. CASE PumpStops(t)'
    <3>1. ~PumpStops(t) /\ t \notin ttsStopSent
      BY <1>1, <2>1 DEF After, TTSEffect, OwesStop, PumpStops
    <3>2. stops' = stops /\ t \in ttsStopSent'
      BY <1>1, <2>1, <3>1 DEF TTSEffect, PumpStops
    <3>3. QED
      BY <2>1, <3>1, <3>2 DEF MarkedIsSent
  <2>2. CASE PumpStops(t)
    <3>1. ~PumpStops(t)'
      BY <1>1, <2>2 DEF After, PumpStops
    <3>2. t \in ttsStopSent /\ stops[t] = 0 /\ ~StopIsOnItsWay(t)
      BY <2>2 DEF MarkedIsSent
    <3>3. ttsStopSent' = ttsStopSent
      BY <1>1, <3>1 DEF TTSEffect, PumpStops
    <3>4. stops'[t] = IF linkUp THEN 1 ELSE 0
      BY <1>1, <2>2, <3>2 DEF TTSEffect, PumpStops, TypeOK
    <3>5. QED
      BY <3>1, <3>2, <3>3, <3>4
  <2>3. CASE ~PumpStops(t) /\ ~PumpStops(t)'
    <3>1. stops' = stops /\ ttsStopSent' = ttsStopSent
      BY <1>1, <2>3 DEF TTSEffect, PumpStops
    <3>2. QED
      BY <2>3, <3>1 DEF MarkedIsSent
  <2>4. QED
    BY <2>1, <2>2, <2>3
<1>6. MarkedIsSent'
  <2>1. reader.pc = "stop" => reader.previous \in ttsStarted'
    BY <1>1 DEF TTSEffect, MarkedIsSent
  <2>2. \A u \in Turns : u # t => (PumpStops(u)' <=> PumpStops(u))
    BY <1>3 DEF PumpStops
  <2>3. QED
    BY <1>2, <1>3, <1>4, <1>5, <2>1, <2>2 DEF MarkedIsSent
<1>7. outcome'[t] = "completed" => pump[t] = "remember" /\ pump'[t] = "end"
  BY <1>1 DEF RecordEffect, EndIsMarked, After, TypeOK
<1>8. pump'[t] = "complete" \/ Completing(t)'
        => t \notin ttsStarted' \/ t \in ttsStopSent'
  <2>1. CASE pump[t] \in {"complete", "recent", "release", "remember"}
    <3>1. t \notin ttsStarted \/ t \in ttsStopSent
      BY <2>1 DEF EndIsMarked, Completing
    <3>2. ttsStarted' = ttsStarted /\ ttsStopSent \subseteq ttsStopSent'
      BY <1>1, <2>1 DEF TTSEffect
    <3>3. QED
      BY <3>1, <3>2
  <2>2. CASE pump[t] \notin {"complete", "recent", "release", "remember"}
    <3>1. SUFFICES ASSUME pump'[t] \in {"complete", "recent", "release", "remember"}
                   PROVE  t \notin ttsStarted' \/ t \in ttsStopSent'
      BY <1>7, <2>2 DEF Completing
    <3>2. pump[t] \in {"finish", "stop", "sendStop"} /\ pump'[t] = "complete"
      BY <1>1, <2>2, <3>1 DEF After, Parts
    <3>3. QED
      BY <1>1, <3>2 DEF TTSEffect, OwesStop, MarkedIsSent, PumpStops
  <2>3. QED
    BY <2>1, <2>2
<1>9. \A u \in Turns : pump'[u] = "remember" \/ outcome'[u] = "completed" => active' # u
  <2>1. pump'[t] = "remember" \/ outcome'[t] = "completed" => active' # t
    <3>1. pump'[t] = "remember" => pump[t] = "release"
      BY <1>1 DEF After, Parts
    <3>2. pump[t] = "release" => active' # t
      BY <1>1 DEF LoopEffect, Turns, NoTurn
    <3>3. pump[t] = "remember" => active # t /\ active' = active
      BY <1>1 DEF LoopEffect, EndIsMarked
    <3>4. QED
      BY <1>7, <3>1, <3>2, <3>3
  <2>2. ASSUME NEW u \in Turns, u # t, pump'[u] = "remember" \/ outcome'[u] = "completed"
        PROVE  active' # u
    BY <1>1, <1>3, <2>2 DEF LoopEffect, EndIsMarked, Turns, NoTurn
  <2>3. QED
    BY <2>1, <2>2
<1>10. EndIsMarked'
  BY <1>3, <1>7, <1>8, <1>9 DEF EndIsMarked, Completing
<1>11. QED
  BY <1>6, <1>10

\* A step that neither marks nor sends a tts stop: a record that is not of a
\* completion, a link that fails, another turn that is not a completed one.
LEMMA OthersMarks ==
    ASSUME MarkedIsSent, EndIsMarked,
           UNCHANGED <<ttsStarted, ttsStopSent, stops>>,
           linkUp' => linkUp,
           reader' = reader \/ (reader.pc # "stop" /\ reader'.pc # "stop"),
           \A u \in Turns :
               /\ \/ pump'[u] = pump[u]
                  \/ pump[u] = "none" /\ pump'[u] = "asr"
               /\ outcome'[u] = "completed" => outcome[u] = "completed"
               /\ active' = u => active = u \/ pump[u] = "none"
    PROVE  MarkedIsSent' /\ EndIsMarked'
<1>1. \A u \in Turns : /\ StopIsOnItsWay(u)' <=> StopIsOnItsWay(u)
                       /\ PumpStops(u)' <=> PumpStops(u)
  BY DEF StopIsOnItsWay, PumpStops
<1>2. MarkedIsSent'
  BY <1>1 DEF MarkedIsSent
<1>3. EndIsMarked'
  BY DEF EndIsMarked, Completing
<1>4. QED
  BY <1>2, <1>3

\* The read loop marks a stop that nobody has marked, and then sends it.
LEMMA ReaderStops ==
    ASSUME TypeOK, MarkedIsSent, EndIsMarked, MarkPreviousStop \/ SendPreviousStop,
           UNCHANGED <<ttsStarted, linkUp>>
    PROVE  MarkedIsSent' /\ EndIsMarked'
<1> DEFINE p == reader.previous
<1> USE DEF Read, ReaderDone
<1>1. UNCHANGED <<active, pump, outcome>> /\ ttsStopSent \subseteq ttsStopSent'
  BY DEF MarkPreviousStop, SendPreviousStop, loopVars
<1>2. \A u \in Turns : PumpStops(u)' <=> PumpStops(u)
  BY <1>1 DEF PumpStops
<1>3. EndIsMarked'
  BY <1>1 DEF EndIsMarked, Completing
<1>4. CASE MarkPreviousStop /\ OwesStop(p)
  <2>1. /\ p \in Turns /\ p \in ttsStarted /\ p \notin ttsStopSent
        /\ ttsStopSent' = ttsStopSent \cup {p} /\ stops' = stops
        /\ reader.pc = "mark" /\ reader'.pc = "stop" /\ reader'.previous = p
    BY <1>4 DEF MarkPreviousStop, OwesStop, TypeOK
  <2>2. \A u \in Turns : ~StopIsOnItsWay(u) /\ (StopIsOnItsWay(u)' <=> u = p)
    BY <2>1 DEF StopIsOnItsWay
  <2>3. MarkedIsSent'
    BY <1>2, <2>1, <2>2 DEF MarkedIsSent
  <2>4. QED
    BY <1>3, <2>3
<1>5. CASE MarkPreviousStop /\ ~OwesStop(p)
  <2>1. /\ UNCHANGED <<ttsStopSent, stops>>
        /\ reader.pc # "stop" /\ reader'.pc # "stop"
    BY <1>5 DEF MarkPreviousStop
  <2>2. QED
    BY <1>1, <2>1, OthersMarks
<1>6. CASE SendPreviousStop
  <2>1. /\ reader.pc = "stop" /\ reader'.pc # "stop" /\ ttsStopSent' = ttsStopSent
        /\ p \in ttsStarted /\ p \in Turns
    BY <1>6 DEF SendPreviousStop, MarkedIsSent, TypeOK
  <2>2. \A u \in Turns : ~StopIsOnItsWay(u)' /\ (StopIsOnItsWay(u) <=> u = p)
    BY <2>1 DEF StopIsOnItsWay
  <2>3. p \in ttsStopSent /\ stops[p] = 0 /\ ~PumpStops(p)
    BY <2>1, <2>2 DEF MarkedIsSent
  <2>4. /\ stops'[p] = IF linkUp THEN 1 ELSE 0
        /\ \A u \in Turns : u # p => stops'[u] = stops[u]
    BY <1>6, <2>1, <2>3 DEF SendPreviousStop, TypeOK
  <2>5. MarkedIsSent'
    BY <1>2, <2>1, <2>2, <2>3, <2>4 DEF MarkedIsSent
  <2>6. QED
    BY <1>3, <2>5
<1>7. QED
  BY <1>4, <1>5, <1>6

\* What the others record.
LEMMA RecordKeeps ==
    ASSUME TypeOK, NEW t, NEW o \in {"ended", "failed"}, Record(t, o),
           NEW u \in Turns
    PROVE  /\ outcome'[u] = outcome[u] \/ (u = t /\ outcome[u] = "open")
           /\ u = t => outcome'[u] # "open"
           /\ outcome'[u] = "completed" => outcome[u] = "completed"
  BY DEF Record, TypeOK, Turns, NoTurn

LEMMA ReaderMarks ==
    ASSUME TypeOK, TurnsHaveOwners, MarkedIsSent, EndIsMarked, ReaderStep
    PROVE  MarkedIsSent' /\ EndIsMarked'
<1> USE DEF Read, ReaderDone
<1>1. ttsStarted' = ttsStarted /\ linkUp' = linkUp
  BY DEF ReaderStep
<1>2. \A u \in Turns :
        pump'[u] = pump[u] \/ (pump[u] = "none" /\ pump'[u] = "asr")
  BY ReaderStarts
<1>3. CASE MarkPreviousStop \/ SendPreviousStop
  BY <1>1, <1>3, ReaderStops
<1>4. CASE ReplaceTurn
  <2>1. \A u \in Turns : active' = u => pump[u] = "none"
    BY <1>4, ReaderHasTurn DEF ReplaceTurn, HandOver
  <2>2. /\ UNCHANGED <<ttsStopSent, stops, outcome>>
        /\ reader.pc # "stop" /\ reader'.pc # "stop"
    BY <1>4 DEF ReplaceTurn
  <2>3. QED
    BY <1>1, <1>2, <2>1, <2>2, OthersMarks
<1>5. CASE ResetFailed \/ RecordPrevious
  <2>1. \A u \in Turns : outcome'[u] = "completed" => outcome[u] = "completed"
    BY <1>5, RecordKeeps DEF ResetFailed, RecordPrevious
  <2>2. /\ UNCHANGED <<ttsStopSent, stops, active>>
        /\ reader.pc # "stop" /\ reader'.pc # "stop"
    BY <1>5 DEF ResetFailed, RecordPrevious, loopVars
  <2>3. QED
    BY <1>1, <1>2, <2>1, <2>2, OthersMarks
<1>6. ASSUME \/ Hello \/ HelloAnswer \/ ListenStart \/ StartASR \/ InstallStream
             \/ ClearFailed \/ Abort \/ CancelAborted
             \/ \E i \in Stops : ListenStop(i)
      PROVE  MarkedIsSent' /\ EndIsMarked'
  <2>1. /\ UNCHANGED <<ttsStopSent, stops, outcome>>
        /\ active' = active \/ active' = NoTurn
    BY <1>6
    DEF Hello, HelloAnswer, ListenStart, StartASR, InstallStream, ClearFailed, Abort,
        CancelAborted, HandOver, ListenStop, loopVars
  <2>2. reader' = reader \/ (reader.pc # "stop" /\ reader'.pc # "stop")
    BY <1>6
    DEF Hello, HelloAnswer, ListenStart, StartASR, InstallStream, ClearFailed, Abort,
        CancelAborted, ListenStop, Reads
  <2>3. QED
    BY <1>1, <1>2, <2>1, <2>2, OthersMarks DEF Turns, NoTurn
<1>7. QED
  BY <1>3, <1>4, <1>5, <1>6 DEF ReaderStep, Handling

LEMMA TimerMarks ==
    ASSUME TypeOK, MarkedIsSent, EndIsMarked, NEW t \in Turns, TimerStep(t)
    PROVE  MarkedIsSent' /\ EndIsMarked'
<1>1. UNCHANGED <<pump, reader, ttsStarted, ttsStopSent, stops, linkUp>>
  BY DEF TimerStep, ttsVars, bindVars
<1>2. \A u \in Turns :
        /\ outcome'[u] = "completed" => outcome[u] = "completed"
        /\ active' = u => active = u
  <2>1. CASE TailTooLate(t)
    BY <2>1 DEF TailTooLate, loopVars
  <2>2. CASE TailExpires(t)
    BY <2>2 DEF TailExpires, HandOver, Turns, NoTurn
  <2>3. CASE TailCompletes(t)
    BY <2>3, RecordKeeps DEF TailCompletes, loopVars
  <2>4. QED
    BY <2>1, <2>2, <2>3 DEF TimerStep
<1>3. QED
  BY <1>1, <1>2, OthersMarks

LEMMA CloserMarks ==
    ASSUME TypeOK, MarkedIsSent, EndIsMarked, CloserStep
    PROVE  MarkedIsSent' /\ EndIsMarked'
<1>1. UNCHANGED <<pump, reader, ttsStarted, ttsStopSent, stops>>
  BY DEF CloserStep, ttsVars
<1>2. linkUp' => linkUp
  BY DEF CloserStep, Closing, SessionReplaced, Unbind, CloseTurn, RecordClosed,
         CloseSession, CountOut, CloseLink, LinkFails
<1>3. \A u \in Turns :
        /\ outcome'[u] = "completed" => outcome[u] = "completed"
        /\ active' = u => active = u
  <2>1. CASE CloseTurn
    BY <2>1 DEF CloseTurn, HandOver, Turns, NoTurn
  <2>2. CASE RecordClosed
    BY <2>2, RecordKeeps DEF RecordClosed, loopVars
  <2>3. CASE SessionReplaced \/ Unbind \/ CloseSession \/ CountOut \/ CloseLink
             \/ LinkFails
    BY <2>3
    DEF SessionReplaced, Unbind, CloseSession, CountOut, CloseLink, LinkFails,
        loopVars
  <2>4. QED
    BY <2>1, <2>2, <2>3 DEF CloserStep, Closing
<1>4. QED
  BY <1>1, <1>2, <1>3, OthersMarks

LEMMA StepMarks ==
    TypeOK /\ TurnsHaveOwners /\ MarkedIsSent /\ EndIsMarked /\ [Next]_vars
        => MarkedIsSent' /\ EndIsMarked'
<1> SUFFICES ASSUME TypeOK, TurnsHaveOwners, MarkedIsSent, EndIsMarked, [Next]_vars
             PROVE  MarkedIsSent' /\ EndIsMarked'
  OBVIOUS
<1>1. ASSUME NEW i \in Stops, StopperStep(i)
      PROVE  MarkedIsSent' /\ EndIsMarked'
  BY <1>1, OthersMarks DEF StopperStep, ttsVars, bindVars, loopVars
<1>2. CASE UNCHANGED vars
  BY <1>2, OthersMarks DEF vars, ttsVars, bindVars, loopVars, threadVars
<1>3. QED
  BY <1>1, <1>2, PumpMarks, ReaderMarks, TimerMarks, CloserMarks DEF Next, Idle

-----------------------------------------------------------------------------
\* Who owes a record, and what follows a tts stop.
LEMMA PumpRecords ==
    ASSUME TypeOK, ClaimComesFirst, PreviousIsCancelled, RecordIsOwed, StopIsLast,
           NEW t \in Turns, PumpStep(t)
    PROVE  PreviousIsCancelled' /\ RecordIsOwed' /\ StopIsLast'
<1>1. /\ pump[t] \in PumpPCs /\ pump'[t] \in After(pump[t])
      /\ pump' = [pump EXCEPT ![t] = pump'[t]]
      /\ LoopEffect(t) /\ TTSEffect(t) /\ RecordEffect(t)
  BY PumpEffect DEF Effect
<1>2. UNCHANGED <<cancelled, reader, timer, closer>>
  BY <1>1 DEF LoopEffect, pumpFrame, threadVars
<1>3. \A u \in Turns : u # t =>
        /\ pump'[u] = pump[u] /\ outcome'[u] = outcome[u]
        /\ u \in ttsStarted' <=> u \in ttsStarted
        /\ u \in ttsStopSent' <=> u \in ttsStopSent
  BY <1>1 DEF TTSEffect, RecordEffect, TypeOK
<1>4. outcome'[t] = "open" => outcome[t] = "open"
  BY <1>1 DEF RecordEffect, TypeOK
<1>5. t \in ttsStarted' /\ pump'[t] = "end" => outcome'[t] # "open"
  <2>1. SUFFICES ASSUME t \in ttsStarted', pump'[t] = "end", outcome'[t] = "open"
                 PROVE  FALSE
    OBVIOUS
  <2>2. pump[t] \in {"asr", "stt"}
    BY <1>1, <2>1 DEF RecordEffect
  <2>3. t \in ttsStarted
    BY <1>1, <2>1, <2>2 DEF TTSEffect
  <2>4. QED
    BY <2>2, <2>3 DEF ClaimComesFirst, Early
<1>6. ttsStarted \subseteq ttsStarted'
  BY <1>1 DEF TTSEffect
<1>7. RecordIsOwed'
  <2>1. \A u \in cancelled :
          outcome'[u] = "open"
            => \/ CancellerOwes(u)
               \/ timer[u] = "expired"
               \/ u \in ttsStarted' /\ pump'[u] # "end"
    BY <1>3, <1>4, <1>5, <1>6 DEF RecordIsOwed, TypeOK
  <2>2. \A u \in ttsStarted' : pump'[u] = "end" => outcome'[u] # "open"
    BY <1>1, <1>3, <1>5 DEF RecordIsOwed, TTSEffect, TypeOK
  <2>3. QED
    BY <1>2, <2>1, <2>2 DEF RecordIsOwed, CancellerOwes
<1>8. t \in ttsStopSent' /\ t \notin cancelled
        => pump'[t] \in {"errorStop", "failed", "sendStop", "complete", "recent",
                         "release", "remember", "end"}
  <2>1. CASE pump'[t] \in {"errorStop", "sendStop"}
    BY <2>1
  <2>2. CASE pump'[t] \notin {"errorStop", "sendStop"}
    <3>1. ttsStopSent' = ttsStopSent
      BY <1>1, <2>2 DEF TTSEffect
    <3>2. QED
      BY <1>1, <3>1 DEF StopIsLast, After
  <2>3. QED
    BY <2>1, <2>2
<1>9. StopIsLast'
  BY <1>1, <1>2, <1>3, <1>8 DEF StopIsLast, TTSEffect, TypeOK
<1>10. QED
  BY <1>2, <1>7, <1>9 DEF PreviousIsCancelled

\* A step of another goroutine that marks no tts stop: whoever it cancels is its
\* to record, and whoever it was to record has been.
LEMMA OthersRecord ==
    ASSUME TypeOK, RecordIsOwed, StopIsLast,
           UNCHANGED <<ttsStarted, ttsStopSent>>, cancelled \subseteq cancelled',
           cancelled' \subseteq Turns,
           \A u \in Turns :
               /\ \/ pump'[u] = pump[u]
                  \/ pump[u] = "none" /\ pump'[u] = "asr"
               /\ outcome'[u] = "open" => outcome[u] = "open",
           \A u \in cancelled' :
               outcome'[u] = "open"
                 => \/ CancellerOwes(u)'
                    \/ timer'[u] = "expired"
                    \/ u \in cancelled /\ timer[u] # "expired" /\ ~CancellerOwes(u)
    PROVE  RecordIsOwed' /\ StopIsLast'
<1>1. \A u \in ttsStarted : pump'[u] = "end" => outcome'[u] # "open"
  BY DEF RecordIsOwed, TypeOK
<1>2. \A u \in cancelled' :
        outcome'[u] = "open"
          => \/ CancellerOwes(u)'
             \/ timer'[u] = "expired"
             \/ u \in ttsStarted /\ pump'[u] # "end"
  BY DEF RecordIsOwed
<1>3. RecordIsOwed'
  BY <1>1, <1>2 DEF RecordIsOwed
<1>4. StopIsLast'
  BY DEF StopIsLast, TypeOK
<1>5. QED
  BY <1>3, <1>4

\* The read loop marks and sends the tts stop of the turn it has replaced or
\* aborted, and records it; or gives up, and then its pump will record.
LEMMA ReaderSettles ==
    ASSUME TypeOK, MarkedIsSent, PreviousIsCancelled, RecordIsOwed, StopIsLast,
           UNCHANGED <<ttsStarted, closer>>,
           MarkPreviousStop \/ SendPreviousStop \/ RecordPrevious
    PROVE  PreviousIsCancelled' /\ RecordIsOwed' /\ StopIsLast'
<1> DEFINE p == reader.previous
<1> USE DEF Read, ReaderDone
<1>1. UNCHANGED <<cancelled, pump, timer>> /\ cancelled \subseteq Turns
  BY DEF MarkPreviousStop, SendPreviousStop, RecordPrevious, TypeOK
<1>2. CASE MarkPreviousStop
  <2>1. /\ reader.pc = "mark" /\ reader'.pc \in {"stop", "record"}
        /\ reader'.previous = p /\ outcome' = outcome
    BY <1>2 DEF MarkPreviousStop
  <2>2. \A u \in Turns : CancellerOwes(u)' <=> CancellerOwes(u)
    BY <2>1 DEF CancellerOwes
  <2>3. RecordIsOwed'
    BY <1>1, <2>1, <2>2 DEF RecordIsOwed
  <2>4. \A u \in ttsStopSent' : u \in ttsStopSent \/ (u = p /\ p \in ttsStarted)
    BY <1>2 DEF MarkPreviousStop, OwesStop
  <2>5. p \in ttsStarted => p \in cancelled
    BY <2>1 DEF PreviousIsCancelled, TypeOK, Turns, NoTurn
  <2>6. StopIsLast'
    BY <1>1, <2>4, <2>5 DEF StopIsLast
  <2>7. PreviousIsCancelled'
    BY <1>1, <2>1 DEF PreviousIsCancelled
  <2>8. QED
    BY <2>3, <2>6, <2>7
<1>3. CASE SendPreviousStop /\ linkUp
  <2>1. /\ reader.pc = "stop" /\ reader'.pc = "record" /\ reader'.previous = p
        /\ UNCHANGED <<outcome, ttsStopSent>>
    BY <1>3 DEF SendPreviousStop
  <2>2. \A u \in Turns : CancellerOwes(u)' <=> CancellerOwes(u)
    BY <2>1 DEF CancellerOwes
  <2>3. RecordIsOwed'
    BY <1>1, <2>1, <2>2 DEF RecordIsOwed
  <2>4. QED
    BY <1>1, <2>1, <2>3 DEF StopIsLast, PreviousIsCancelled
<1>4. CASE SendPreviousStop /\ ~linkUp
  <2>1. /\ reader.pc = "stop" /\ reader'.pc \in {"idle", "fail"}
        /\ UNCHANGED <<outcome, ttsStopSent>>
    BY <1>4 DEF SendPreviousStop
  <2>2. p \in ttsStarted
    BY <2>1 DEF MarkedIsSent
  <2>3. \A u \in Turns : u # p => (CancellerOwes(u)' <=> CancellerOwes(u))
    BY <2>1 DEF CancellerOwes
  <2>4. p \in cancelled /\ outcome[p] = "open" => pump[p] # "end"
    BY <2>2 DEF RecordIsOwed
  <2>5. RecordIsOwed'
    BY <1>1, <2>1, <2>2, <2>3, <2>4 DEF RecordIsOwed
  <2>6. QED
    BY <1>1, <2>1, <2>5 DEF StopIsLast, PreviousIsCancelled
<1>5. CASE RecordPrevious
  <2>1. /\ reader.pc = "record" /\ reader'.pc \in {"idle", "start"}
        /\ ttsStopSent' = ttsStopSent
    BY <1>5 DEF RecordPrevious
  <2>2. \A u \in Turns : /\ outcome'[u] = "open" => outcome[u] = "open"
                         /\ u = p => outcome'[u] # "open"
    BY <1>5, RecordKeeps DEF RecordPrevious
  <2>3. \A u \in Turns : u # p => (CancellerOwes(u)' <=> CancellerOwes(u))
    BY <2>1 DEF CancellerOwes
  <2>4. RecordIsOwed'
    BY <1>1, <2>2, <2>3 DEF RecordIsOwed, TypeOK
  <2>5. QED
    BY <1>1, <2>1, <2>4 DEF StopIsLast, PreviousIsCancelled
<1>6. QED
  BY <1>2, <1>3, <1>4, <1>5

LEMMA ReaderRecords ==
    ASSUME TypeOK, TurnsHaveOwners, MarkedIsSent, PreviousIsCancelled, RecordIsOwed,
           StopIsLast, ReaderStep
    PROVE  PreviousIsCancelled' /\ RecordIsOwed' /\ StopIsLast'
<1> USE DEF Read, ReaderDone
<1>1. ttsStarted' = ttsStarted /\ closer' = closer
  BY DEF ReaderStep
<1>2. \A u \in Turns :
        /\ pump'[u] = pump[u] \/ (pump[u] = "none" /\ pump'[u] = "asr")
        /\ timer'[u] = "expired" <=> timer[u] = "expired"
  BY ReaderStarts
<1>3. CASE MarkPreviousStop \/ SendPreviousStop \/ RecordPrevious
  BY <1>1, <1>3, ReaderSettles
<1>4. CASE ReplaceTurn \/ CancelAborted
  <2>1. /\ UNCHANGED <<outcome, ttsStopSent>>
        /\ cancelled' = IF active = NoTurn THEN cancelled ELSE cancelled \cup {active}
        /\ reader.pc \notin {"mark", "stop", "record"}
        /\ reader'.pc = "mark" /\ reader'.previous = active
    BY <1>4 DEF ReplaceTurn, CancelAborted, HandOver, Cancel
  <2>2. cancelled' \subseteq Turns
    BY <2>1 DEF TypeOK
  <2>3. \A u \in cancelled' : u \in cancelled \/ CancellerOwes(u)'
    BY <2>1 DEF CancellerOwes
  <2>4. \A u \in cancelled' : CancellerOwes(u) => CancellerOwes(u)'
    BY <1>1, <2>1 DEF CancellerOwes
  <2>5. RecordIsOwed' /\ StopIsLast'
    BY <1>1, <1>2, <2>1, <2>2, <2>3, <2>4, OthersRecord
  <2>6. PreviousIsCancelled'
    BY <2>1 DEF PreviousIsCancelled
  <2>7. QED
    BY <2>5, <2>6
<1>5. ASSUME \/ Hello \/ HelloAnswer \/ ListenStart \/ StartASR \/ InstallStream
             \/ ClearFailed \/ ResetFailed \/ Abort
             \/ \E i \in Stops : ListenStop(i)
      PROVE  PreviousIsCancelled' /\ RecordIsOwed' /\ StopIsLast'
  <2>1. /\ UNCHANGED <<cancelled, ttsStopSent>>
        /\ reader.pc \notin {"mark", "stop", "record"}
        /\ reader'.pc \notin {"mark", "stop", "record"}
    BY <1>5
    DEF Hello, HelloAnswer, ListenStart, StartASR, InstallStream, ClearFailed,
        ResetFailed, Abort, ListenStop, Reads
  <2>2. \A u \in Turns : outcome'[u] = "open" => outcome[u] = "open"
    <3>1. CASE ResetFailed
      BY <3>1, RecordKeeps DEF ResetFailed
    <3>2. CASE ~ResetFailed
      BY <1>5, <3>2
      DEF Hello, HelloAnswer, ListenStart, StartASR, InstallStream, ClearFailed,
          Abort, ListenStop
    <3>3. QED
      BY <3>1, <3>2
  <2>3. cancelled' \subseteq Turns
    BY <2>1 DEF TypeOK
  <2>4. \A u \in cancelled' : timer'[u] = "expired" \/ timer[u] # "expired"
    BY <1>2, <2>3
  <2>5. \A u \in cancelled' : CancellerOwes(u) => CancellerOwes(u)'
    BY <1>1, <2>1 DEF CancellerOwes
  <2>6. RecordIsOwed' /\ StopIsLast'
    BY <1>1, <1>2, <2>1, <2>2, <2>3, <2>4, <2>5, OthersRecord
  <2>7. QED
    BY <2>1, <2>6 DEF PreviousIsCancelled
<1>6. QED
  BY <1>3, <1>4, <1>5 DEF ReaderStep, Handling

LEMMA TimerRecords ==
    ASSUME TypeOK, PreviousIsCancelled, RecordIsOwed, StopIsLast,
           NEW t \in Turns, TimerStep(t)
    PROVE  PreviousIsCancelled' /\ RecordIsOwed' /\ StopIsLast'
<1>1. UNCHANGED <<pump, reader, closer, ttsStarted, ttsStopSent>>
  BY DEF TimerStep, ttsVars
<1>2. \A u \in Turns : u # t => timer'[u] = timer[u]
  BY DEF TimerStep, TailTooLate, TailExpires, TailCompletes, TypeOK
<1>3. /\ cancelled \subseteq cancelled' /\ cancelled' \subseteq Turns
      /\ \A u \in Turns : outcome'[u] = "open" => outcome[u] = "open"
      /\ \A u \in cancelled' :
            outcome'[u] = "open"
              => \/ timer'[u] = "expired"
                 \/ u \in cancelled /\ timer[u] # "expired"
  <2>1. CASE TailTooLate(t)
    BY <1>2, <2>1 DEF TailTooLate, TypeOK
  <2>2. CASE TailExpires(t)
    <3>1. /\ cancelled' = cancelled \cup {t} /\ outcome' = outcome
          /\ timer'[t] = "expired"
      BY <2>2 DEF TailExpires, TailOwnsTurn, HandOver, Cancel, Turns, NoTurn, TypeOK
    <3>2. QED
      BY <1>2, <3>1 DEF TypeOK
  <2>3. CASE TailCompletes(t)
    <3>1. cancelled' = cancelled /\ outcome'[t] # "open"
      BY <2>3, RecordKeeps DEF TailCompletes
    <3>2. \A u \in Turns : outcome'[u] = "open" => outcome[u] = "open"
      BY <2>3, RecordKeeps DEF TailCompletes
    <3>3. QED
      BY <1>2, <3>1, <3>2 DEF TypeOK
  <2>4. QED
    BY <2>1, <2>2, <2>3 DEF TimerStep
<1>4. RecordIsOwed' /\ StopIsLast'
  <2>1. \A u \in cancelled' : CancellerOwes(u) => CancellerOwes(u)'
    BY <1>1 DEF CancellerOwes
  <2>2. QED
    BY <1>1, <1>3, <2>1, OthersRecord
<1>5. QED
  BY <1>1, <1>3, <1>4 DEF PreviousIsCancelled

LEMMA CloserRecords ==
    ASSUME TypeOK, PreviousIsCancelled, RecordIsOwed, StopIsLast, CloserStep
    PROVE  PreviousIsCancelled' /\ RecordIsOwed' /\ StopIsLast'
<1>1. UNCHANGED <<pump, reader, timer, ttsStarted, ttsStopSent>>
  BY DEF CloserStep, ttsVars
<1> USE DEF Closes
<1>2. /\ cancelled \subseteq cancelled' /\ cancelled' \subseteq Turns
      /\ \A u \in Turns : outcome'[u] = "open" => outcome[u] = "open"
      /\ \A u \in cancelled' :
            outcome'[u] = "open"
              => CancellerOwes(u)' \/ (u \in cancelled /\ ~CancellerOwes(u))
  <2>1. CASE CloseTurn
    <3>1. /\ cancelled' = IF active = NoTurn THEN cancelled ELSE cancelled \cup {active}
          /\ closer'.pc = "record" /\ closer'.turn = active /\ outcome' = outcome
          /\ closer.pc # "record"
      BY <2>1 DEF CloseTurn, HandOver, Cancel
    <3>2. QED
      BY <1>1, <3>1 DEF TypeOK, CancellerOwes
  <2>2. CASE RecordClosed
    <3>1. cancelled' = cancelled /\ closer'.pc = "session"
      BY <2>2 DEF RecordClosed
    <3>2. \A u \in Turns :
            /\ outcome'[u] = "open" => outcome[u] = "open"
            /\ u = closer.turn => outcome'[u] # "open"
      BY <2>2, RecordKeeps DEF RecordClosed
    <3>3. QED
      BY <1>1, <3>1, <3>2 DEF TypeOK, CancellerOwes
  <2>3. CASE SessionReplaced \/ Unbind \/ CloseSession \/ CountOut \/ CloseLink
             \/ LinkFails
    <3>1. /\ UNCHANGED <<cancelled, outcome>>
          /\ closer' = closer \/ (closer.pc # "record" /\ closer'.pc # "record")
      BY <2>3
      DEF SessionReplaced, Unbind, CloseSession, CountOut, CloseLink, LinkFails
    <3>2. QED
      BY <1>1, <3>1 DEF TypeOK, CancellerOwes
  <2>4. QED
    BY <2>1, <2>2, <2>3 DEF CloserStep, Closing
<1>3. RecordIsOwed' /\ StopIsLast'
  BY <1>1, <1>2, OthersRecord
<1>4. QED
  BY <1>1, <1>2, <1>3 DEF PreviousIsCancelled

LEMMA StepRecords ==
    TypeOK /\ TurnsHaveOwners /\ ClaimComesFirst /\ MarkedIsSent
    /\ PreviousIsCancelled /\ RecordIsOwed /\ StopIsLast /\ [Next]_vars
        => PreviousIsCancelled' /\ RecordIsOwed' /\ StopIsLast'
<1> SUFFICES ASSUME TypeOK, TurnsHaveOwners, ClaimComesFirst, MarkedIsSent,
                    PreviousIsCancelled, RecordIsOwed, StopIsLast, [Next]_vars
             PROVE  PreviousIsCancelled' /\ RecordIsOwed' /\ StopIsLast'
  OBVIOUS
<1>1. ASSUME UNCHANGED <<cancelled, outcome, pump, reader, timer, closer, ttsStarted,
                         ttsStopSent>>
      PROVE  PreviousIsCancelled' /\ RecordIsOwed' /\ StopIsLast'
  BY <1>1 DEF PreviousIsCancelled, RecordIsOwed, CancellerOwes, StopIsLast
<1>2. ASSUME NEW i \in Stops, StopperStep(i)
      PROVE  PreviousIsCancelled' /\ RecordIsOwed' /\ StopIsLast'
  BY <1>1, <1>2 DEF StopperStep, ttsVars
<1>3. CASE UNCHANGED vars
  BY <1>1, <1>3 DEF vars, ttsVars, threadVars
<1>4. QED
  BY <1>2, <1>3, PumpRecords, ReaderRecords, TimerRecords, CloserRecords
  DEF Next, Idle

-----------------------------------------------------------------------------
\* Who speaks.
Spoken == {"speaking", "idle", "closed"}
Over == {"recent", "release", "remember", "end"}

\* What no step but CompleteSpeaking takes back: the generation never returns to
\* an earlier one, and the one that is or was spoken for does not turn idle.
SessionKeeps ==
    /\ SessionIsSound'
    /\ session.gen <= session'.gen
    /\ session'.gen = session.gen /\ session.used /\ session.state \in Spoken
         => /\ session'.used /\ session'.state \in Spoken
            /\ session'.state = "idle" => session.state = "idle"
            /\ session'.state = "speaking" => session.state = "speaking"

LEMMA SessionMoves ==
    ASSUME TypeOK, SessionIsSound,
           \/ session' = session
           \/ CanReceiveHello(session) /\ session' = HelloAnswered(HelloReceived(session))
           \/ CanStartListening(session) /\ session' = ListeningStarted(session)
           \/ session' = Interrupted(session)
           \/ \E g : session' = ResetForGeneration(session, g)
           \/ CanStopListening(session) /\ session' = ListeningStopped(session)
           \/ \E g : CanCompleteNoSpeech(session, g) /\ session' = NoSpeechCompleted(session)
           \/ \E g : CanBeginSpeaking(session, g) /\ session' = SpeakingBegun(session)
           \/ session' = Closed(session)
    PROVE  SessionKeeps
<1>1. /\ session.gen \in Nat /\ session.first \in Nat \ {0} /\ session.state \in States
      /\ session.used \in BOOLEAN
  BY DEF TypeOK, SessionType
<1> USE <1>1 DEF SessionKeeps, SessionIsSound, Spoken, InTurn, In, At
<1>2. CASE session' = session
  BY <1>2
<1>3. CASE CanReceiveHello(session) /\ session' = HelloAnswered(HelloReceived(session))
  BY <1>3 DEF CanReceiveHello, HelloAnswered, HelloReceived
<1>4. NextGeneration(session) \in Nat /\ NextGeneration(session) > session.gen
  BY DEF NextGeneration
<1>5. CASE CanStartListening(session) /\ session' = ListeningStarted(session)
  <2>1. CASE session.state = "listening"
    BY <1>5, <2>1 DEF ListeningStarted
  <2>2. CASE session.state # "listening" /\ NeedsFreshGeneration(session)
    BY <1>4, <1>5, <2>2 DEF ListeningStarted
  <2>3. CASE session.state # "listening" /\ ~NeedsFreshGeneration(session)
    BY <1>5, <2>3 DEF ListeningStarted, CanStartListening, NeedsFreshGeneration
  <2>4. QED
    BY <2>1, <2>2, <2>3
<1>6. CASE session' = Interrupted(session)
  BY <1>4, <1>6 DEF Interrupted
<1>7. CASE \E g : session' = ResetForGeneration(session, g)
  BY <1>4, <1>7 DEF ResetForGeneration, Interrupted
<1>8. CASE CanStopListening(session) /\ session' = ListeningStopped(session)
  BY <1>8 DEF CanStopListening, ListeningStopped
<1>9. CASE \E g : CanCompleteNoSpeech(session, g) /\ session' = NoSpeechCompleted(session)
  BY <1>9 DEF CanCompleteNoSpeech, NoSpeechCompleted
<1>10. CASE \E g : CanBeginSpeaking(session, g) /\ session' = SpeakingBegun(session)
  BY <1>10 DEF CanBeginSpeaking, SpeakingBegun
<1>11. CASE session' = Closed(session)
  BY <1>11 DEF Closed
<1>12. QED
  BY <1>2, <1>3, <1>5, <1>6, <1>7, <1>8, <1>9, <1>10, <1>11

\* A step after which nobody has begun to speak who had not.
LEMMA OthersSpeak ==
    ASSUME TypeOK, TypeOK', SpeakingIsOwned, SessionKeeps,
           \A u \in Turns : Begun(u)' => /\ Begun(u) /\ gen'[u] = gen[u]
                                         /\ pump[u] \in Over => pump'[u] \in Over
                                         /\ Completing(u)' => Completing(u)
    PROVE  SpeakingIsOwned'
<1>1. \A u \in Turns : gen[u] \in Nat
  BY DEF TypeOK
<1>2. session.gen \in Nat /\ session'.gen \in Nat
  BY DEF TypeOK, SessionType
<1>3. SUFFICES ASSUME NEW t \in Turns, Begun(t)'
               PROVE  /\ gen'[t] <= session'.gen
                      /\ gen'[t] = session'.gen
                           => /\ session'.state \in Spoken
                              /\ session'.used
                              /\ pump'[t] \notin Over => session'.state # "idle"
                              /\ Completing(t)' => session'.state # "speaking"
                      /\ \A u \in Turns : Begun(u)' /\ gen'[u] = gen'[t] => u = t
  BY DEF SpeakingIsOwned, Spoken, Over
<1>4. Begun(t) /\ gen'[t] = gen[t] /\ gen[t] <= session.gen /\ session.gen <= session'.gen
  BY <1>3 DEF SpeakingIsOwned, SessionKeeps
<1>5. gen'[t] <= session'.gen
  BY <1>1, <1>2, <1>4
<1>6. ASSUME gen'[t] = session'.gen
      PROVE  /\ session'.state \in Spoken
             /\ session'.used
             /\ pump'[t] \notin Over => session'.state # "idle"
             /\ Completing(t)' => session'.state # "speaking"
  <2>1. session'.gen = session.gen /\ gen[t] = session.gen
    BY <1>1, <1>2, <1>4, <1>6
  <2>2. /\ session.state \in Spoken /\ session.used
        /\ pump[t] \notin Over => session.state # "idle"
        /\ Completing(t) => session.state # "speaking"
    BY <1>4, <2>1 DEF SpeakingIsOwned, Spoken, Over
  <2>3. /\ session'.used /\ session'.state \in Spoken
        /\ session'.state = "idle" => session.state = "idle"
        /\ session'.state = "speaking" => session.state = "speaking"
    BY <2>1, <2>2 DEF SessionKeeps
  <2>4. QED
    BY <1>3, <2>2, <2>3
<1>7. \A u \in Turns : Begun(u)' /\ gen'[u] = gen'[t] => u = t
  BY <1>4 DEF SpeakingIsOwned
<1>8. QED
  BY <1>5, <1>6, <1>7

LEMMA PumpSpeaks ==
    ASSUME TypeOK, TypeOK', ClaimComesFirst, EndIsMarked, SessionIsSound,
           SpeakingIsOwned, NEW t \in Turns, PumpStep(t)
    PROVE  SessionIsSound' /\ SpeakingIsOwned'
<1>1. /\ pump[t] \in PumpPCs /\ pump'[t] \in After(pump[t])
      /\ pump' = [pump EXCEPT ![t] = pump'[t]]
      /\ SessionEffect(t) /\ TTSEffect(t) /\ RecordEffect(t)
  BY PumpEffect DEF Effect
<1>2. /\ \A u \in Turns : u # t => pump'[u] = pump[u] /\ (u \in spoke' <=> u \in spoke)
      /\ \A u \in Turns : u # t => (Begun(u)' <=> Begun(u))
      /\ \A u \in Turns : u # t => (Completing(u)' <=> Completing(u))
  BY <1>1 DEF TTSEffect, RecordEffect, TypeOK, Begun, Completing
<1>3. /\ pump[t] \in Over => pump'[t] \in Over
      /\ Begun(t)' /\ Completing(t)' => Completing(t) \/ pump[t] = "complete"
      /\ pump[t] = "complete" /\ Begun(t)' /\ Completing(t)' => pump'[t] = "recent"
  <2>1. outcome'[t] = "completed" => outcome[t] = "completed" \/ pump[t] = "remember"
    BY <1>1 DEF RecordEffect, TypeOK
  <2>2. pump'[t] \in {"recent", "release", "remember"}
          => pump[t] \in {"complete", "recent", "release"}
    BY <1>1 DEF After, Parts
  <2>3. pump[t] = "complete" => /\ outcome'[t] # "completed"
                                /\ pump'[t] \in {"recent", "release", "end"}
    BY <1>1, <2>1 DEF After, EndIsMarked
  <2>4. pump[t] = "complete" /\ pump'[t] = "release" => ~Begun(t)'
    BY <1>1 DEF TTSEffect, Begun
  <2>5. QED
    BY <1>1, <2>1, <2>2, <2>3, <2>4 DEF After, Over, Completing
<1>4. pump'[t] # "recheck" /\ Begun(t)' => Begun(t)
  <2>1. pump'[t] = "send" => pump[t] = "recheck" \/ t \in spoke
    BY <1>1 DEF After, Parts, TTSEffect
  <2>2. t \in spoke' => t \in spoke \/ pump[t] = "send"
    BY <1>1 DEF TTSEffect
  <2>3. QED
    BY <2>1, <2>2 DEF Begun
<1>5. CASE session' = session /\ gen' = gen /\ pump'[t] # "recheck"
            /\ ~(pump[t] = "complete" /\ pump'[t] = "recent")
  <2>1. SessionKeeps
    BY <1>5, SessionMoves
  <2>2. QED
    BY <1>2, <1>3, <1>4, <1>5, <2>1, OthersSpeak DEF SessionKeeps
<1>6. CASE /\ pump[t] \in {"stopListening", "adopt"}
           /\ gen' = [gen EXCEPT ![t] = session.gen]
           /\ \/ session' = session
              \/ session.state = "listening" /\ session' = ListeningStopped(session)
  <2>1. SessionKeeps
    BY <1>6, SessionMoves DEF CanStopListening
  <2>2. ~Begun(t) /\ pump'[t] # "recheck"
    BY <1>1, <1>6 DEF Begun, ClaimComesFirst, Early, After
  <2>3. \A u \in Turns : u # t => gen'[u] = gen[u]
    BY <1>6 DEF TypeOK
  <2>4. QED
    BY <1>2, <1>3, <1>4, <2>1, <2>2, <2>3, OthersSpeak DEF SessionKeeps
<1>7. CASE /\ pump[t] = "speak" /\ pump'[t] = "recheck"
           /\ CanBeginSpeaking(session, gen[t])
           /\ session' = SpeakingBegun(session) /\ gen' = gen
  <2>1. SessionKeeps
    BY <1>7, SessionMoves
  <2>2. gen[t] = session.gen /\ session.state = "processing" /\ session.used
    BY <1>7 DEF CanBeginSpeaking, SessionIsSound, InTurn
  <2>3. \A u \in Turns : Begun(u) => gen[u] # gen[t]
    BY <2>2 DEF SpeakingIsOwned
  <2>4. session'.state = "speaking" /\ session'.gen = session.gen /\ session'.used
    BY <1>7, <2>2 DEF SpeakingBegun, In
  <2>5. \A u \in Turns : u # t /\ Begun(u)' =>
           gen[u] <= session'.gen /\ gen[u] # session'.gen
    BY <1>2, <2>2, <2>3, <2>4 DEF SpeakingIsOwned
  <2>6. gen[t] <= session'.gen
    BY <2>2, <2>4 DEF TypeOK
  <2>7. \A u \in Turns : Begun(u)' => gen[u] <= session'.gen
    BY <2>5, <2>6
  <2>8. \A u, v \in Turns : Begun(u)' /\ Begun(v)' /\ gen[u] = gen[v] => u = v
    BY <1>2, <2>3 DEF SpeakingIsOwned
  <2>9. \A u \in Turns : Begun(u)' /\ gen[u] = session'.gen => ~Completing(u)'
    <3>1. pump'[t] = "recheck" /\ outcome'[t] # "completed"
      BY <1>1, <1>7 DEF RecordEffect, EndIsMarked, TypeOK
    <3>2. QED
      BY <2>5, <3>1 DEF Completing
  <2>10. SpeakingIsOwned'
    BY <1>7, <2>4, <2>7, <2>8, <2>9 DEF SpeakingIsOwned
  <2>11. QED
    BY <2>1, <2>10 DEF SessionKeeps
<1>8. CASE /\ pump[t] = "complete" /\ pump'[t] = "recent" /\ t \in spoke
           /\ CanCompleteSpeaking(session, gen[t])
           /\ session' = SpeakingCompleted(session) /\ gen' = gen
  <2>1. gen[t] = session.gen /\ session.state = "speaking" /\ session.used
    BY <1>8 DEF CanCompleteSpeaking, SessionIsSound, InTurn
  <2>2. session'.state = "idle" /\ session'.gen = session.gen /\ session'.used
    BY <1>8, <2>1 DEF SpeakingCompleted, In
  <2>3. \A u \in Turns : Begun(u)' => Begun(u)
    BY <1>2, <1>4, <1>8
  <2>4. Begun(t)
    BY <1>8 DEF Begun
  <2>5. \A u \in Turns : Begun(u) /\ gen[u] = session.gen => u = t
    BY <2>1, <2>4 DEF SpeakingIsOwned
  <2>6. \A u \in Turns : Begun(u)' => gen[u] <= session'.gen
    BY <2>2, <2>3 DEF SpeakingIsOwned
  <2>7. \A u \in Turns : Begun(u)' /\ gen[u] = session'.gen => pump'[u] = "recent"
    BY <1>8, <2>2, <2>3, <2>5
  <2>8. \A u, v \in Turns : Begun(u)' /\ Begun(v)' /\ gen[u] = gen[v] => u = v
    BY <2>3 DEF SpeakingIsOwned
  <2>9. SpeakingIsOwned'
    BY <1>8, <2>2, <2>6, <2>7, <2>8 DEF SpeakingIsOwned
  <2>10. SessionIsSound'
    BY <2>2 DEF SessionIsSound, InTurn
  <2>11. QED
    BY <2>9, <2>10
<1>9. QED
  BY <1>1, <1>5, <1>6, <1>7, <1>8 DEF SessionEffect

LEMMA ReaderSpeaks ==
    ASSUME TypeOK, TypeOK', TurnsHaveOwners, ClaimComesFirst, SessionIsSound,
           SpeakingIsOwned, ReaderStep
    PROVE  SessionIsSound' /\ SpeakingIsOwned'
<1>1. SessionKeeps
  BY SessionMoves
  DEF ReaderStep, Handling, Hello, HelloAnswer, ListenStart, ReplaceTurn,
      MarkPreviousStop, SendPreviousStop, RecordPrevious, StartASR, InstallStream, ClearFailed, ResetFailed, Abort, CancelAborted,
      ListenStop
<1>2. spoke' = spoke
  BY DEF ReaderStep
<1>3. ASSUME NEW u \in Turns, Begun(u)'
      PROVE  Begun(u) /\ pump'[u] = pump[u] /\ (Completing(u)' => Completing(u))
  <2>1. Begun(u) /\ pump'[u] = pump[u]
    BY <1>2, <1>3, ReaderStarts DEF Begun, ClaimComesFirst, Early
  <2>2. outcome'[u] = "completed" => outcome[u] = "completed"
    <3>1. CASE ResetFailed \/ RecordPrevious
      BY <3>1, RecordKeeps DEF ResetFailed, RecordPrevious
    <3>2. CASE ~ResetFailed /\ ~RecordPrevious
      BY <3>2
      DEF ReaderStep, Handling, Hello, HelloAnswer, ListenStart, ReplaceTurn,
          MarkPreviousStop, SendPreviousStop, StartASR, InstallStream, ClearFailed,
          Abort, CancelAborted, ListenStop
    <3>3. QED
      BY <3>1, <3>2
  <2>3. QED
    BY <2>1, <2>2 DEF Completing
<1>4. ASSUME NEW u \in Turns, Begun(u)
      PROVE  gen'[u] = gen[u]
  <2>1. CASE ListenStart
    <3>1. turns \in Nat /\ turns' = turns + 1
      BY <2>1, SetupBounds DEF ListenStart, TypeOK
    <3>2. pump[u] # "none"
      BY <1>4 DEF Begun, ClaimComesFirst, Early
    <3>3. u # turns'
      BY <3>1, <3>2 DEF TurnsHaveOwners, Turns
    <3>4. QED
      BY <2>1, <3>3 DEF ListenStart, TypeOK
  <2>2. CASE ~ListenStart
    BY <2>2
    DEF ReaderStep, Handling, Hello, HelloAnswer, ReplaceTurn, MarkPreviousStop,
        SendPreviousStop, RecordPrevious, StartASR, InstallStream, ClearFailed,
        ResetFailed, Abort, CancelAborted, ListenStop
  <2>3. QED
    BY <2>1, <2>2
<1>5. QED
  BY <1>1, <1>3, <1>4, OthersSpeak DEF SessionKeeps

LEMMA StepSpeaks ==
    TypeOK /\ TurnsHaveOwners /\ ClaimComesFirst /\ EndIsMarked /\ SessionIsSound
    /\ SpeakingIsOwned /\ [Next]_vars
        => SessionIsSound' /\ SpeakingIsOwned'
<1> SUFFICES ASSUME TypeOK, TurnsHaveOwners, ClaimComesFirst, EndIsMarked,
                    SessionIsSound, SpeakingIsOwned, [Next]_vars
             PROVE  SessionIsSound' /\ SpeakingIsOwned'
  OBVIOUS
<1>1. TypeOK'
  BY StepTypes
<1>2. ASSUME SessionKeeps, UNCHANGED <<gen, pump, spoke>>,
             \A u \in Turns : outcome'[u] = "completed" => outcome[u] = "completed"
      PROVE  SessionIsSound' /\ SpeakingIsOwned'
  BY <1>1, <1>2, OthersSpeak DEF SessionKeeps, Begun, Completing
<1>3. ASSUME NEW i \in Stops, StopperStep(i)
      PROVE  SessionIsSound' /\ SpeakingIsOwned'
  BY <1>2, <1>3, SessionMoves
  DEF StopperStep, StopListening, FindStream, FinishStream, AwaitResult, ttsVars
<1>4. ASSUME NEW t \in Turns, TimerStep(t)
      PROVE  SessionIsSound' /\ SpeakingIsOwned'
  <2>1. \A u \in Turns : outcome'[u] = "completed" => outcome[u] = "completed"
    BY <1>4, RecordKeeps DEF TimerStep, TailTooLate, TailExpires, TailCompletes
  <2>2. SessionKeeps
    BY <1>4, SessionMoves DEF TimerStep, TailTooLate, TailExpires, TailCompletes
  <2>3. QED
    BY <1>2, <1>4, <2>1, <2>2 DEF TimerStep, ttsVars
<1>5. CASE CloserStep
  <2>1. \A u \in Turns : outcome'[u] = "completed" => outcome[u] = "completed"
    BY <1>5, RecordKeeps
    DEF CloserStep, Closing, SessionReplaced, Unbind, CloseTurn, RecordClosed,
        CloseSession, CountOut, CloseLink, LinkFails
  <2>2. SessionKeeps
    BY <1>5, SessionMoves
    DEF CloserStep, Closing, SessionReplaced, Unbind, CloseTurn, RecordClosed,
        CloseSession, CountOut, CloseLink, LinkFails
  <2>3. QED
    BY <1>2, <1>5, <2>1, <2>2 DEF CloserStep, ttsVars
<1>6. CASE UNCHANGED vars
  BY <1>2, <1>6, SessionMoves DEF vars, ttsVars
<1>7. QED
  BY <1>1, <1>3, <1>4, <1>5, <1>6, PumpSpeaks, ReaderSpeaks DEF Next, Idle

-----------------------------------------------------------------------------
\* The inductive invariant.
LEMMA InitInvariant == Init => IInv
<1> SUFFICES ASSUME Init
             PROVE  IInv
  OBVIOUS
<1>1. TypeOK
  <2>1. session \in SessionType
    BY DEF Init, NewSession, SessionType, States
  <2>2. turns \in 0 .. MaxTurns /\ aborts \in 0 .. MaxAborts
    BY BoundsAssumption DEF Init
  <2>3. /\ gen \in [Turns -> Nat] /\ stops \in [Turns -> Nat]
        /\ outcome \in [Turns -> {"open", "completed", "ended", "failed"}]
        /\ pump \in [Turns -> PumpPCs]
        /\ phase \in [Turns -> {"llm", "system", "flush"}]
        /\ timer \in [Turns -> {"off", "set", "armed", "expired", "silent"}]
    BY DEF Init, PumpPCs
  <2>4. /\ reader \in [pc : ReaderPCs, turn : Turns \cup {NoTurn},
                       previous : Turns \cup {NoTurn}]
        /\ stopper \in [Stops -> [pc : StopperPCs, gen : Nat,
                                  turn : Turns \cup {NoTurn}]]
        /\ closer \in [pc : CloserPCs, turn : Turns \cup {NoTurn}]
    BY DEF Init, ReaderPCs, StopperPCs, CloserPCs
  <2>5. QED
    BY <2>1, <2>2, <2>3, <2>4 DEF Init, TypeOK
<1>2. TurnsHaveOwners /\ LiveIsActive
  BY DEF Init, TurnsHaveOwners, LiveIsActive
<1>3. ClaimComesFirst /\ ExpiredTurnIsSilent
  BY DEF Init, ClaimComesFirst, ExpiredTurnIsSilent
<1>4. MarkedIsSent /\ EndIsMarked
  BY DEF Init, MarkedIsSent, EndIsMarked, Completing, PumpStops, StopIsOnItsWay
<1>5. PreviousIsCancelled /\ RecordIsOwed /\ StopIsLast
  BY DEF Init, PreviousIsCancelled, RecordIsOwed, StopIsLast
<1>6. SessionIsSound /\ SpeakingIsOwned
  BY DEF Init, SessionIsSound, SpeakingIsOwned, Begun, NewSession, InTurn
<1>7. QED
  BY <1>1, <1>2, <1>3, <1>4, <1>5, <1>6 DEF IInv

LEMMA StepInvariant == IInv /\ [Next]_vars => IInv'
  BY StepTypes, StepOwners, StepClaims, StepMarks, StepRecords, StepSpeaks DEF IInv

\* IInv holds in every state of every behaviour of one binding's voice loop: it
\* is TypeOK, the properties below and what they rest on.
THEOREM InductiveInvariant == Spec => []IInv
  BY InitInvariant, StepInvariant, PTL DEF Spec

\* Every field of the loop, of a turn and of a goroutine keeps its type.
THEOREM TypeCorrect == Spec => []TypeOK
<1>1. IInv => TypeOK
  BY DEF IInv
<1>2. QED
  BY <1>1, InductiveInvariant, PTL

\* A pump that runs under a context nobody has cancelled is the active turn's,
\* so that the next listen/start, abort or close cancels it, or it has only to
\* remember its reply: the session does not speak for it and it owes no tts stop.
\* The stream that takes the device's audio is the active turn's too
\* (replaceActiveTurn, cancelActiveTurn, clearRuntime, Close).
THEOREM LivePumpIsActive == Spec => []OneTurnIsLive
<1>1. ASSUME IInv, NEW t \in Turns, pump[t] = "remember"
      PROVE  ~SpeaksFor(t) /\ ~OwesStop(t)
  <2>1. ~OwesStop(t)
    BY <1>1 DEF IInv, EndIsMarked, Completing, OwesStop
  <2>2. t \in spoke /\ gen[t] = session.gen => session.state # "speaking"
    BY <1>1 DEF IInv, SpeakingIsOwned, Begun, Completing
  <2>3. QED
    BY <2>1, <2>2 DEF SpeaksFor, Current, AcceptsGeneration
<1>2. IInv => OneTurnIsLive
  BY <1>1 DEF IInv, LiveIsActive, OneTurnIsLive
<1>3. QED
  BY <1>2, InductiveInvariant, PTL

\* A turn that the tail timer has given up has not spoken and will not, whatever
\* its ASR answers (timeoutAutoListenTail, claimASRFinal).
THEOREM TailGivesUpForGood == Spec => []ExpiredTurnIsSilent
<1>1. IInv => ExpiredTurnIsSilent
  BY DEF IInv
<1>2. QED
  BY <1>1, InductiveInvariant, PTL

\* A turn is sent one tts stop at most, and a completed one is not the active
\* turn, the session does not speak for it, and the stop it owed has been sent or
\* is on its way from the read loop, unless the device cannot be reached
\* (sendTTSStopOnce, flushRemainingTTS).
THEOREM CompletionCloses == Spec => []CompletedIsClosed
<1>1. ASSUME IInv, NEW t \in Turns
      PROVE  stops[t] <= 1
  BY <1>1 DEF IInv, MarkedIsSent
<1>2. ASSUME IInv, NEW t \in Turns, outcome[t] = "completed"
      PROVE  /\ active # t /\ ~SpeaksFor(t)
             /\ t \in ttsStarted => stops[t] = 1 \/ ~linkUp \/ StopIsOnItsWay(t)
  <2>1. pump[t] = "end" /\ active # t /\ (t \in ttsStarted => t \in ttsStopSent)
    BY <1>2 DEF IInv, EndIsMarked, Completing
  <2>2. t \in ttsStarted => stops[t] = 1 \/ ~linkUp \/ StopIsOnItsWay(t)
    BY <1>2, <2>1 DEF IInv, MarkedIsSent, PumpStops
  <2>3. t \in spoke /\ gen[t] = session.gen => session.state # "speaking"
    BY <1>2 DEF IInv, SpeakingIsOwned, Begun, Completing
  <2>4. ~SpeaksFor(t)
    BY <2>3 DEF SpeaksFor, Current, AcceptsGeneration
  <2>5. QED
    BY <2>1, <2>2, <2>4
<1>3. IInv => CompletedIsClosed
  BY <1>1, <1>2 DEF CompletedIsClosed
<1>4. QED
  BY <1>3, InductiveInvariant, PTL

\* Nobody cancels a turn without its getting a record, from the canceller, from
\* the timer or from its own pump (HandleListenStart, HandleAbort, Close).
THEOREM NoRecordIsForgotten == Spec => []CancelledTurnsAreRecorded
<1>1. IInv => CancelledTurnsAreRecorded
  BY DEF IInv, RecordIsOwed, CancelledTurnsAreRecorded
<1>2. QED
  BY <1>1, InductiveInvariant, PTL

\* Audio of the current generation leaves for the device only while the session
\* is speaking, and never after the turn's tts stop has been taken
\* (BeginSpeaking, sendTTSStopOnce).
THEOREM AudioIsSpeaking == Spec => []CurrentAudioIsSpeaking
<1>1. ASSUME IInv, NEW t \in Turns, pump[t] = "send", Current(t), t \notin cancelled
      PROVE  session.state = "speaking" /\ t \notin ttsStopSent
  <2>1. session.state # "closed" /\ gen[t] = session.gen
    BY <1>1 DEF Current, AcceptsGeneration
  <2>2. session.state \in {"speaking", "idle", "closed"} /\ session.state # "idle"
    BY <1>1, <2>1 DEF IInv, SpeakingIsOwned, Begun
  <2>3. t \notin ttsStopSent
    BY <1>1 DEF IInv, StopIsLast
  <2>4. QED
    BY <2>1, <2>2, <2>3
<1>2. IInv => CurrentAudioIsSpeaking
  BY <1>1 DEF CurrentAudioIsSpeaking
<1>3. QED
  BY <1>2, InductiveInvariant, PTL
=============================================================================
