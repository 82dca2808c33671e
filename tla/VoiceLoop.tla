----------------------------- MODULE VoiceLoop -----------------------------
(***************************************************************************)
(* One VoiceLoop (session/session.go) on one WebSocket binding: the read    *)
(* loop that handles the device's messages, a goroutine per listen/stop, a  *)
(* result pump and perhaps a tail timer per turn, and whoever closes the    *)
(* binding.  They share the session, which has its own mutex, and the       *)
(* loop's fields under VoiceLoop.mu.  A step is what one goroutine does     *)
(* between two points where another can get in: a critical section, a write *)
(* to the device, an answer of a provider.                                  *)
(*                                                                          *)
(* A turn is a TurnRuntime, numbered in the order listen/start creates      *)
(* them.  Audio, texts, traces, LEDs and the tool follow-up of the LLM are  *)
(* left out: what stays is who owns the generation, who cancels whom, what  *)
(* the device is sent and how a turn is recorded.                           *)
(***************************************************************************)
EXTENDS SessionCore, FiniteSets

CONSTANTS
    MaxTurns,       \* bound: accepted listen/starts
    MaxAborts,      \* bound: aborts
    MaxStops,       \* bound: listen/stops
    Setups          \* what can happen: see Setup

Events == {"close",     \* the binding is closed: disconnect, shutdown
           "replace",   \* a reconnect closes the session before the binding
           "link",      \* writes to the device begin to fail
           "provider",  \* a provider, a store or a command handler fails
           "tail"}      \* the auto-listen tail timer is configured

ASSUME BoundsAssumption ==
    /\ MaxTurns \in Nat \ {0} /\ MaxAborts \in Nat /\ MaxStops \in Nat
    /\ Setups \subseteq [events : SUBSET Events, aborts : 0 .. MaxAborts,
                         stops : 0 .. MaxStops]

Turns == 1 .. MaxTurns
Stops == 1 .. MaxStops
NoTurn == 0

VARIABLES
    session,
    \* VoiceLoop, under mu
    active, asr, listenGen,     \* l.active, l.asrStream and l.listenGen
    recent,                     \* l.lastSpeakingCompleted is set
    counted,                    \* l.sessionActiveRecorded, so the metric's one
    \* TurnRuntime
    turns,                      \* how many have been created
    gen,                        \* Turn.Generation
    cancelled,                  \* those whose own cancel has been called
    claimed,                    \* ASRFinalHandled
    ttsStarted, ttsStopSent,    \* TTSStarted, TTSStopSent
    outcome,                    \* CompletionRecorded, and with what
    finished, result,           \* ASR stream finished; ASRCompletion is full
    \* goroutines
    reader, stopper, pump, phase, timer, closer,
    \* the binding's context, the connection, the pacer's first
    bound, linkUp, pacerFirst,
    \* what can happen in this behaviour: the events, and how many aborts and
    \* listen/stops the device sends; the aborts it has sent
    setup, aborts,
    \* what the device was sent
    spoke,                      \* turns that sent audio
    stops                       \* number of tts stops per turn


loopVars   == <<active, asr, listenGen, recent>>
ttsVars    == <<phase, pacerFirst, ttsStarted, ttsStopSent, spoke, stops>>
threadVars == <<reader, stopper, timer, closer>>
bindVars   == <<bound, linkUp, counted, setup, aborts>>
vars == <<session, loopVars, turns, gen, cancelled, claimed, outcome, finished,
          result, pump, ttsVars, threadVars, bindVars>>

Init ==
    /\ setup \in Setups
    /\ session = NewSession(1)
    /\ active = NoTurn /\ asr = NoTurn /\ listenGen = 0
    /\ recent = FALSE /\ counted = FALSE
    /\ turns = 0
    /\ gen = [t \in Turns |-> 0]
    /\ cancelled = {} /\ claimed = {} /\ ttsStarted = {} /\ ttsStopSent = {}
    /\ outcome = [t \in Turns |-> "open"]
    /\ finished = {} /\ result = {}
    /\ reader = [pc |-> "idle", turn |-> NoTurn, previous |-> NoTurn]
    /\ stopper = [i \in Stops |->
                    [pc |-> "off", gen |-> 0, turn |-> NoTurn]]
    /\ pump = [t \in Turns |-> "none"]
    /\ phase = [t \in Turns |-> "llm"]
    /\ timer = [t \in Turns |-> "off"]
    /\ closer = [pc |-> "off", turn |-> NoTurn]
    /\ bound = TRUE /\ linkUp = TRUE /\ pacerFirst = TRUE /\ aborts = 0
    /\ spoke = {} /\ stops = [t \in Turns |-> 0]

-----------------------------------------------------------------------------
\* runtime.Context is a child of the binding's context.
Done(t) == t \in cancelled \/ ~bound

Current(t) == AcceptsGeneration(session, gen[t])
Happens(event) == event \in setup.events

\* recordTurnComplete: the first to come says how the turn ended.
Record(t, o) ==
    outcome' = IF t # NoTurn /\ outcome[t] = "open"
               THEN [outcome EXCEPT ![t] = o] ELSE outcome

\* shouldSend of sendTTSStopOnce.
OwesStop(t) == t \in ttsStarted /\ t \notin ttsStopSent

\* Mutant: the turn that is replaced keeps its context.
LetRun(t) == UNCHANGED cancelled

Cancel(t) == cancelled' = IF t = NoTurn THEN cancelled ELSE cancelled \cup {t}

\* cancelActiveTurn and replaceActiveTurn: the active turn is cancelled and the
\* loop is left with another one, or none, and no stream.
HandOver(t) ==
    /\ Cancel(active)
    /\ active' = t
    /\ asr' = NoTurn
    /\ listenGen' = 0

-----------------------------------------------------------------------------
(* The read loop.  A message is taken up when the last one has been handled *)
(* and the binding has not been given up.                                   *)

Reads == reader.pc = "idle" /\ closer.pc = "off"

Read(pc, t, p) ==
    reader' = [pc |-> pc, turn |-> t, previous |-> p]

ReaderDone == Read("idle", NoTurn, NoTurn)

\* HandleHello: ReceiveHello and ServerHelloSent ...
Hello ==
    /\ Reads
    /\ CanReceiveHello(session)
    /\ session' = HelloAnswered(HelloReceived(session))
    /\ Read("hello", NoTurn, NoTurn)
    /\ UNCHANGED <<loopVars, turns, gen, cancelled, outcome, pump, stopper,
                   timer, ttsStopSent, stops, counted, aborts>>

\* ... then the hello is sent and, if it was, markSessionActive.
HelloAnswer ==
    /\ reader.pc = "hello"
    /\ counted' = (counted \/ linkUp)
    /\ ReaderDone
    /\ UNCHANGED <<session, loopVars, turns, gen, cancelled, outcome, pump,
                   stopper, timer, ttsStopSent, stops, aborts>>

\* HandleListenStart takes the mark of a recent completion, unless it is too
\* old, and asks the session for a turn.  (A refused one changes nothing: only a
\* closed session can refuse while the mark is set, and it has no use for it.)
ListenStart ==
    /\ Reads
    /\ turns < MaxTurns
    /\ CanStartListening(session)
    /\ session' = ListeningStarted(session)
    /\ turns' = turns + 1
    /\ gen' = [gen EXCEPT ![turns'] = session'.gen]
    /\ \E isTail \in {FALSE} \cup {recent} :
          /\ recent' = (recent /\ ~isTail)
          /\ timer' = [timer EXCEPT ![turns'] =
                          IF isTail /\ Happens("tail") THEN "set" ELSE "off"]
    /\ Read("replace", turns', NoTurn)
    /\ UNCHANGED <<active, asr, listenGen, cancelled, outcome, pump, stopper,
                   ttsStopSent, stops, counted, aborts>>

\* replaceActiveTurn, and the previous stream is closed.
ReplaceTurn ==
    /\ reader.pc = "replace"
    /\ HandOver(reader.turn)
    /\ Read("mark", reader.turn, active)
    /\ UNCHANGED <<session, recent, turns, gen, outcome, pump, stopper, timer,
                   ttsStopSent, stops, counted, aborts>>

\* The turn that was interrupted, by a listen/start or by an abort (then no turn
\* follows), gets its tts stop and then its record.  sendTTSStopOnce marks the
\* stop under mu ...
MarkPreviousStop ==
    /\ reader.pc = "mark"
    /\ LET p == reader.previous
       IN  IF OwesStop(p)
           THEN Read("stop", reader.turn, p) /\ ttsStopSent' = ttsStopSent \cup {p}
           ELSE Read("record", reader.turn, p) /\ UNCHANGED ttsStopSent
    /\ UNCHANGED <<session, loopVars, turns, gen, cancelled, outcome, pump, stopper,
                   timer, stops, counted, aborts>>

\* ... and writes it after that; when it cannot be written the handler gives up,
\* the new turn fails and the old one is not recorded.
SendPreviousStop ==
    /\ reader.pc = "stop"
    /\ LET t == reader.turn
           p == reader.previous
       IN  \/ linkUp /\ stops' = [stops EXCEPT ![p] = @ + 1] /\ Read("record", t, p)
           \/ ~linkUp /\ UNCHANGED stops
              /\ IF t = NoTurn THEN ReaderDone ELSE Read("fail", t, NoTurn)
    /\ UNCHANGED <<session, loopVars, turns, gen, cancelled, outcome, pump, stopper,
                   timer, ttsStopSent, counted, aborts>>

RecordPrevious ==
    /\ reader.pc = "record"
    /\ Record(reader.previous, "ended")
    /\ IF reader.turn = NoTurn THEN ReaderDone ELSE Read("start", reader.turn, NoTurn)
    /\ UNCHANGED <<session, loopVars, turns, gen, cancelled, pump, stopper, timer,
                   ttsStopSent, stops, counted, aborts>>

\* The providers are resolved and the ASR stream is opened, or that fails.
StartASR ==
    /\ reader.pc = "start"
    /\ \/ Read("install", reader.turn, NoTurn)
       \/ Happens("provider") /\ Read("fail", reader.turn, NoTurn)
    /\ UNCHANGED <<session, loopVars, turns, gen, cancelled, outcome, pump,
                   stopper, timer, ttsStopSent, stops, counted, aborts>>

\* The stream is put in place and the turn's goroutines are started.
InstallStream ==
    /\ reader.pc = "install"
    /\ LET t == reader.turn
       IN  /\ asr' = t
           /\ listenGen' = gen[t]
           /\ pump' = [pump EXCEPT ![t] = "asr"]
           /\ timer' = [timer EXCEPT ![t] = IF @ = "set" THEN "armed" ELSE @]
    /\ ReaderDone
    /\ UNCHANGED <<session, active, recent, turns, gen, cancelled, outcome,
                   stopper, ttsStopSent, stops, counted, aborts>>

\* failListenStartRuntime: clearRuntime, then the generation is reset and the
\* turn recorded.
ClearFailed ==
    /\ reader.pc = "fail"
    /\ active' = IF active = reader.turn THEN NoTurn ELSE active
    /\ Read("reset", reader.turn, NoTurn)
    /\ UNCHANGED <<session, asr, listenGen, recent, turns, gen, cancelled,
                   outcome, pump, stopper, timer, ttsStopSent, stops, counted,
                   aborts>>

ResetFailed ==
    /\ reader.pc = "reset"
    /\ session' = ResetForGeneration(session, gen[reader.turn])
    /\ Record(reader.turn, "failed")
    /\ ReaderDone
    /\ UNCHANGED <<loopVars, turns, gen, cancelled, pump, stopper, timer,
                   ttsStopSent, stops, counted, aborts>>

\* HandleAbort: the session is interrupted, then the active turn is cancelled;
\* it is stopped and recorded as the turn that a listen/start interrupts.
Abort ==
    /\ Reads
    /\ aborts < setup.aborts
    /\ session' = Interrupted(session)
    /\ aborts' = aborts + 1
    /\ Read("cancel", NoTurn, NoTurn)
    /\ UNCHANGED <<loopVars, turns, gen, cancelled, outcome, pump, stopper,
                   timer, ttsStopSent, stops, counted>>

CancelAborted ==
    /\ reader.pc = "cancel"
    /\ HandOver(NoTurn)
    /\ Read("mark", NoTurn, active)
    /\ UNCHANGED <<session, recent, turns, gen, outcome, pump, stopper, timer,
                   ttsStopSent, stops, counted, aborts>>

\* A listen/stop is handled by a goroutine of its own.
ListenStop(i) ==
    /\ Reads
    /\ i <= setup.stops
    /\ stopper[i].pc = "off"
    /\ \A j \in Stops : j < i => stopper[j].pc # "off"
    /\ stopper' = [stopper EXCEPT ![i] =
                      [pc |-> "stop", gen |-> 0, turn |-> NoTurn]]
    /\ UNCHANGED <<session, loopVars, turns, gen, cancelled, outcome, reader,
                   pump, timer, ttsStopSent, stops, counted, aborts>>

Handling ==
    \/ HelloAnswer
    \/ ReplaceTurn
    \/ MarkPreviousStop
    \/ SendPreviousStop
    \/ RecordPrevious
    \/ StartASR
    \/ InstallStream
    \/ ClearFailed
    \/ ResetFailed
    \/ CancelAborted

ReaderStep ==
    /\ \/ Hello
       \/ ListenStart
       \/ Abort
       \/ \E i \in Stops : ListenStop(i)
       \/ Handling
    /\ UNCHANGED <<claimed, finished, result, phase, pacerFirst, ttsStarted,
                   spoke, closer, bound, linkUp, setup>>

-----------------------------------------------------------------------------
(* HandleListenStop, one goroutine per listen/stop.                         *)

Stopper(i, pc, g, t) ==
    stopper' = [stopper EXCEPT ![i] =
                   [pc |-> pc, gen |-> g, turn |-> t]]

\* It asks the session to stop listening, for whichever turn listens by now.
StopListening(i) ==
    /\ stopper[i].pc = "stop"
    /\ IF CanStopListening(session)
       THEN /\ session' = ListeningStopped(session)
            /\ Stopper(i, "lookup", session.gen, NoTurn)
       ELSE /\ Stopper(i, "end", 0, NoTurn)
            /\ UNCHANGED session
    /\ UNCHANGED <<finished, result>>

\* currentRuntimeAndASRStream.
LookupStream(g) ==
    active # NoTurn /\ gen[active] = g /\ asr # NoTurn /\ listenGen = g

FindStream(i) ==
    /\ stopper[i].pc = "lookup"
    /\ LET g == stopper[i].gen
       IN  IF LookupStream(g) THEN Stopper(i, "finish", g, active)
           ELSE Stopper(i, "end", g, NoTurn)
    /\ UNCHANGED <<session, finished, result>>

\* stream.Finish, which fails on a stream that has been closed.
FinishStream(i) ==
    /\ stopper[i].pc = "finish"
    /\ LET t == stopper[i].turn
       IN  \/ /\ finished' = finished \cup {t}
              /\ Stopper(i, "wait", stopper[i].gen, t)
           \/ /\ Done(t) \/ Happens("provider")
              /\ Stopper(i, "end", stopper[i].gen, t)
              /\ UNCHANGED finished
    /\ UNCHANGED <<session, result>>

\* waitForASRCompletion: the pump's result, or the end of the turn's context.
AwaitResult(i) ==
    /\ stopper[i].pc = "wait"
    /\ LET t == stopper[i].turn
       IN  /\ \/ t \in result /\ result' = result \ {t}
              \/ Done(t) /\ UNCHANGED result
           /\ Stopper(i, "end", stopper[i].gen, t)
    /\ UNCHANGED <<session, finished>>

StopperStep(i) ==
    /\ \/ StopListening(i)
       \/ FindStream(i)
       \/ FinishStream(i)
       \/ AwaitResult(i)
    /\ UNCHANGED <<loopVars, turns, gen, cancelled, claimed, outcome, pump,
                   ttsVars, reader, timer, closer, bindVars>>

-----------------------------------------------------------------------------
(* The auto-listen tail timer: a turn that follows a reply at once is given *)
(* up when nothing is said.                                                 *)

TailOwnsTurn(t) ==
    active = t /\ asr = t /\ listenGen = gen[t] /\ t \notin claimed

\* The context ends first, or timeoutAutoListenTail finds the turn taken.
TailTooLate(t) ==
    /\ timer[t] = "armed"
    /\ Done(t) \/ ~TailOwnsTurn(t)
    /\ timer' = [timer EXCEPT ![t] = "off"]
    /\ UNCHANGED <<session, loopVars, cancelled, claimed, outcome>>

TailExpires(t) ==
    /\ timer[t] = "armed"
    /\ TailOwnsTurn(t)
    /\ claimed' = claimed \cup {t}
    /\ HandOver(NoTurn)
    /\ timer' = [timer EXCEPT ![t] = "expired"]
    /\ UNCHANGED <<session, recent, outcome>>

\* CompleteListeningNoSpeech, whose error is ignored, and the record.
TailCompletes(t) ==
    /\ timer[t] = "expired"
    /\ session' = IF CanCompleteNoSpeech(session, gen[t])
                  THEN NoSpeechCompleted(session) ELSE session
    /\ Record(t, "ended")
    /\ timer' = [timer EXCEPT ![t] = "silent"]
    /\ UNCHANGED <<loopVars, cancelled, claimed>>

TimerStep(t) ==
    /\ TailTooLate(t) \/ TailExpires(t) \/ TailCompletes(t)
    /\ UNCHANGED <<turns, gen, finished, result, pump, ttsVars, reader,
                   stopper, closer, bindVars>>

-----------------------------------------------------------------------------
(* What ends the binding.                                                   *)

Closes(pc, t) == closer' = [pc |-> pc, turn |-> t]

\* Manager.CreateSession for the device's next connection closes the session
\* before the registry gives up the binding.
SessionReplaced ==
    /\ Happens("replace")
    /\ closer.pc = "off"
    /\ session.state # "closed"
    /\ session' = Closed(session)
    /\ UNCHANGED <<loopVars, cancelled, outcome, counted, bound, linkUp, closer>>

\* closeBinding: the binding leaves the registry and its context is cancelled,
Unbind ==
    /\ Happens("close")
    /\ closer.pc = "off"
    /\ bound' = FALSE
    /\ Closes("cancel", NoTurn)
    /\ UNCHANGED <<session, loopVars, cancelled, outcome, counted, linkUp>>

\* VoiceLoop.Close cancels the active turn ...
CloseTurn ==
    /\ closer.pc = "cancel"
    /\ HandOver(NoTurn)
    /\ Closes("record", active)
    /\ UNCHANGED <<session, recent, outcome, counted, bound, linkUp>>

\* ... records it, closes the session ...
RecordClosed ==
    /\ closer.pc = "record"
    /\ Record(closer.turn, "ended")
    /\ Closes("session", NoTurn)
    /\ UNCHANGED <<session, loopVars, cancelled, counted, bound, linkUp>>

CloseSession ==
    /\ closer.pc = "session"
    /\ session' = Closed(session)
    /\ Closes("inactive", NoTurn)
    /\ UNCHANGED <<loopVars, cancelled, outcome, counted, bound, linkUp>>

\* ... and markSessionInactive counts it out;
CountOut ==
    /\ closer.pc = "inactive"
    /\ counted' = FALSE
    /\ Closes("link", NoTurn)
    /\ UNCHANGED <<session, loopVars, cancelled, outcome, bound, linkUp>>

\* then the connection is closed.
CloseLink ==
    /\ closer.pc = "link"
    /\ linkUp' = FALSE
    /\ Closes("gone", NoTurn)
    /\ UNCHANGED <<session, loopVars, cancelled, outcome, counted, bound>>

LinkFails ==
    /\ Happens("link")
    /\ linkUp
    /\ linkUp' = FALSE
    /\ UNCHANGED <<session, loopVars, cancelled, outcome, counted, bound, closer>>

Closing == CloseTurn \/ RecordClosed \/ CloseSession \/ CountOut \/ CloseLink

CloserStep ==
    /\ SessionReplaced \/ Unbind \/ Closing \/ LinkFails
    /\ UNCHANGED <<turns, gen, claimed, finished, result, pump, ttsVars, reader,
                   stopper, timer, setup, aborts>>

-----------------------------------------------------------------------------
(* The result pump of a turn: ASR result, LLM stream, TTS segments.         *)

Goto(t, pc) == pump' = [pump EXCEPT ![t] = pc]

\* Mutant: the pump ends without completeASR.
EndSilently(t) == Goto(t, "end") /\ UNCHANGED result

\* consumeASREvents returns and completeASR leaves the result.
End(t) == Goto(t, "end") /\ result' = result \cup {t}

Settle(t, o) == Record(t, o) /\ End(t)

\* Whatever the record says, the pump goes on or ends without adding to it.
Quietly == UNCHANGED outcome
Goes(t, pc) == Goto(t, pc) /\ UNCHANGED <<outcome, result>>
Ends(t) == End(t) /\ Quietly

asrSide == <<session, loopVars, gen, claimed>>

\* A step of the pump that only looks, asks a provider or records.
Plain == UNCHANGED <<asrSide, ttsVars>>

\* runtime.Context is done while the pump waits for the ASR.
ResultCancelled(t) ==
    /\ pump[t] = "asr"
    /\ Done(t)
    /\ Ends(t)

\* The stream ends without a final result.
StreamClosed(t) ==
    /\ pump[t] = "asr"
    /\ ~Done(t)
    /\ Settle(t, "ended")

\* Mutant: the final result is handled although the tail has given up the turn.
ClaimAgain(t) == TRUE

\* claimASRFinal; a result that was buffered is taken up even when the context
\* is done.
MayClaim(t) == t \notin claimed

FinalResult(t) ==
    /\ pump[t] = "asr"
    /\ IF MayClaim(t)
       THEN claimed' = claimed \cup {t} /\ Goes(t, "clear")
       ELSE Ends(t) /\ UNCHANGED claimed
    /\ UNCHANGED <<session, loopVars, gen, ttsVars>>

ClearStream(t) ==
    /\ pump[t] = "clear"
    /\ asr' = IF asr = t THEN NoTurn ELSE asr
    /\ listenGen' = IF asr = t THEN 0 ELSE listenGen
    /\ Goes(t, "ensure")
    /\ UNCHANGED <<session, active, recent, gen, claimed, ttsVars>>

\* ensureProcessingForASRFinal takes the session's mutex three times: for the
\* generation, for the state, and to stop listening or to take over the turn
\* the session has by then.
EnsureCurrent(t) ==
    /\ pump[t] = "ensure"
    /\ Goes(t, IF Current(t) THEN "state" ELSE "stt")

EnsureState(t) ==
    /\ pump[t] = "state"
    /\ Goes(t, CASE session.state = "listening" -> "stopListening"
                 [] session.state \in {"processing", "speaking"} -> "adopt"
                 [] OTHER -> "stt")

EnsureStopped(t) ==
    /\ pump[t] = "stopListening"
    /\ IF CanStopListening(session)
       THEN /\ session' = ListeningStopped(session)
            /\ gen' = [gen EXCEPT ![t] = session.gen]
            /\ Goes(t, "stt")
       ELSE /\ Settle(t, "failed")
            /\ UNCHANGED <<session, gen>>
    /\ UNCHANGED <<loopVars, claimed, ttsVars>>

EnsureAdopted(t) ==
    /\ pump[t] = "adopt"
    /\ gen' = [gen EXCEPT ![t] = session.gen]
    /\ Goes(t, "stt")
    /\ UNCHANGED <<session, loopVars, claimed, ttsVars>>

\* The text is sent to the device unless the turn is stale by now.
SendText(t) ==
    /\ pump[t] = "stt"
    /\ IF ~Current(t) THEN Ends(t)
       ELSE IF linkUp THEN Goes(t, "route") ELSE Settle(t, "failed")

\* A spoken command or an agent answers, the LLM answers, or one of them fails:
\* a provider, or the context it was called with.
Route(t) ==
    /\ pump[t] = "route"
    /\ \/ /\ \E p \in {"llm", "system"} :
                /\ phase' = [phase EXCEPT ![t] = p]
                /\ Goes(t, IF p = "llm" THEN "llm" ELSE "begin")
       \/ /\ Happens("provider") \/ Done(t)
          /\ Settle(t, "failed")
          /\ UNCHANGED phase
    /\ UNCHANGED <<asrSide, pacerFirst, ttsStarted, ttsStopSent, spoke, stops>>

\* Mutant: the cancelled reply is left for the canceller to record.
ReplyCancelledUnrecorded(t) ==
    /\ pump[t] = "llm"
    /\ Done(t)
    /\ Ends(t)

\* streamLLMAndTTS waits for a chunk that fills a segment.
ReplyCancelled(t) ==
    /\ pump[t] = "llm"
    /\ Done(t)
    /\ Settle(t, "ended")

ReplyChunk(t) ==
    /\ pump[t] = "llm"
    /\ IF Current(t) THEN Goes(t, "begin") ELSE Settle(t, "ended")

ReplyEnds(t) ==
    /\ pump[t] = "llm"
    /\ Goes(t, "flush")

\* beginTTS: the tts start is sent, then marked.
SendTTSStart(t) ==
    /\ pump[t] = "begin"
    /\ IF t \in ttsStarted THEN Goes(t, "segment")
       ELSE IF linkUp THEN Goes(t, "mark") ELSE Settle(t, "failed")

MarkTTSStarted(t) ==
    /\ pump[t] = "mark"
    /\ ttsStarted' = ttsStarted \cup {t}
    /\ pacerFirst' = TRUE
    /\ Goes(t, "segment")
    /\ UNCHANGED <<asrSide, phase, ttsStopSent, spoke, stops>>

\* Where a segment without an error leads: to the chunk's next segment, or to
\* where its text came from.
NextPart(t) ==
    CASE phase[t] = "llm" -> {"segment", "llm"}
      [] phase[t] = "system" -> {"segment", "flush"}
      [] phase[t] = "flush" -> {"finish"}

Skip(t) == \E pc \in NextPart(t) : Goes(t, pc)

\* A frame of a stale turn ends the segment, and the turn's record.
DropStale(t) ==
    \E pc \in NextPart(t) :
        Goto(t, pc) /\ Record(t, "ended") /\ UNCHANGED result

\* streamTTSSegment: the sentence is announced, then requested.
StartSegment(t) ==
    /\ pump[t] = "segment"
    /\ IF Done(t) \/ ~Current(t) THEN Skip(t)
       ELSE IF linkUp THEN Goes(t, "request") ELSE Settle(t, "failed")

RequestSpeech(t) ==
    /\ pump[t] = "request"
    /\ \/ Goes(t, "frames")
       \/ (Happens("provider") \/ Done(t)) /\ Goes(t, "ttsError")

\* The context is done, or the provider has sent the last frame.
SegmentEnds(t) ==
    /\ pump[t] = "frames"
    /\ Skip(t)

Frame(t) ==
    /\ pump[t] = "frames"
    /\ IF Current(t) THEN Goes(t, "pace") ELSE DropStale(t)

\* Pacer.Wait: the first frame after a reset does not wait, a later one waits
\* and is given up when the context is done.
Pace(t) ==
    /\ pump[t] = "pace"
    /\ \/ Goes(t, "check")
       \/ ~pacerFirst /\ Done(t) /\ Settle(t, "failed")
    /\ pacerFirst' = FALSE
    /\ UNCHANGED <<asrSide, phase, ttsStarted, ttsStopSent, spoke, stops>>

\* Mutant: the first frame goes out without BeginSpeaking.
CheckFrameOnly(t) ==
    /\ pump[t] = "check"
    /\ IF ~Current(t) THEN DropStale(t) ELSE Goes(t, "send")

CheckFrame(t) ==
    /\ pump[t] = "check"
    /\ IF ~Current(t) THEN DropStale(t)
       ELSE Goes(t, IF t \in spoke THEN "send" ELSE "speak")

BeginSpeaking(t) ==
    /\ pump[t] = "speak"
    /\ IF CanBeginSpeaking(session, gen[t])
       THEN session' = SpeakingBegun(session) /\ Goes(t, "recheck")
       ELSE Settle(t, "failed") /\ UNCHANGED session
    /\ UNCHANGED <<loopVars, gen, claimed, ttsVars>>

RecheckFrame(t) ==
    /\ pump[t] = "recheck"
    /\ IF Current(t) THEN Goes(t, "send") ELSE DropStale(t)

SendAudio(t) ==
    /\ pump[t] = "send"
    /\ IF linkUp
       THEN /\ spoke' = spoke \cup {t}
            /\ Goes(t, "frames")
       ELSE Settle(t, "failed") /\ UNCHANGED spoke
    /\ UNCHANGED <<asrSide, phase, pacerFirst, ttsStarted, ttsStopSent, stops>>

\* sendTTSStopOnce marks and then sends: here in stopStartedTTSOnError, whose
\* error is ignored, and in flushRemainingTTS.
MarkTTSStop(t, from, to, otherwise) ==
    /\ pump[t] = from
    /\ IF OwesStop(t)
       THEN ttsStopSent' = ttsStopSent \cup {t} /\ Goes(t, to)
       ELSE Goes(t, otherwise) /\ UNCHANGED ttsStopSent
    /\ UNCHANGED <<asrSide, phase, pacerFirst, ttsStarted, spoke, stops>>

SendTTSStop(t, from, to) ==
    /\ pump[t] = from
    /\ stops' = [stops EXCEPT ![t] = IF linkUp THEN @ + 1 ELSE @]
    /\ IF linkUp \/ from = "errorStop" THEN Goes(t, to) ELSE Settle(t, "failed")
    /\ UNCHANGED <<asrSide, phase, pacerFirst, ttsStarted, ttsStopSent, spoke>>

TTSFailed(t) ==
    /\ pump[t] = "failed"
    /\ Settle(t, "failed")

\* flushRemainingTTS: a turn that is over says nothing more, any other speaks
\* the rest of its text ...
FlushReply(t) ==
    /\ pump[t] = "flush"
    /\ IF Done(t) \/ ~Current(t)
       THEN Settle(t, "ended") /\ UNCHANGED phase
       ELSE /\ phase' = [phase EXCEPT ![t] = "flush"]
            /\ \E pc \in {"begin", "finish"} : Goes(t, pc)
    /\ UNCHANGED <<asrSide, pacerFirst, ttsStarted, ttsStopSent, spoke, stops>>

\* Mutant: the reply is completed without a tts stop.
FinishReplyUnstopped(t) ==
    /\ pump[t] = "finish"
    /\ IF Done(t) \/ ~Current(t) THEN Settle(t, "ended") ELSE Goes(t, "complete")

\* ... and is completed when it is not over by then.
FinishReply(t) ==
    /\ pump[t] = "finish"
    /\ IF Done(t) \/ ~Current(t) THEN Settle(t, "ended")
       ELSE Goes(t, IF t \in ttsStarted THEN "stop" ELSE "complete")

CompleteSpeaking(t) ==
    /\ pump[t] = "complete"
    /\ IF t \notin spoke THEN Goes(t, "release") /\ UNCHANGED session
       ELSE IF CanCompleteSpeaking(session, gen[t])
       THEN session' = SpeakingCompleted(session) /\ Goes(t, "recent")
       ELSE Settle(t, "failed") /\ UNCHANGED session
    /\ UNCHANGED <<loopVars, gen, claimed, ttsVars>>

MarkSpeakingCompleted(t) ==
    /\ pump[t] = "recent"
    /\ recent' = TRUE
    /\ Goes(t, "release")
    /\ UNCHANGED <<session, active, asr, listenGen, gen, claimed, ttsVars>>

\* clearRuntime: from here on nobody cancels the turn ...
Release(t) ==
    /\ pump[t] = "release"
    /\ active' = IF active = t THEN NoTurn ELSE active
    /\ Goes(t, "remember")
    /\ UNCHANGED <<session, asr, listenGen, recent, gen, claimed, ttsVars>>

\* ... whose pump goes on, to write memories and the conversation (in Gateway) and
\* to record the completion.
RecordCompletion(t) ==
    /\ pump[t] = "remember"
    /\ Settle(t, "completed")

\* What the ASR decides, and what the pump does by itself.
AsrAnswers(t) ==
    \/ StreamClosed(t) /\ Plain
    \/ FinalResult(t)

PumpWorks(t) ==
    \/ /\ \/ ResultCancelled(t)
          \/ EnsureCurrent(t)
          \/ EnsureState(t)
          \/ SendText(t)
          \/ ReplyCancelled(t)
          \/ ReplyChunk(t)
          \/ ReplyEnds(t)
          \/ SendTTSStart(t)
          \/ StartSegment(t)
          \/ RequestSpeech(t)
          \/ SegmentEnds(t)
          \/ Frame(t)
          \/ CheckFrame(t)
          \/ RecheckFrame(t)
          \/ TTSFailed(t)
          \/ FinishReply(t)
          \/ RecordCompletion(t)
       /\ Plain
    \/ ClearStream(t)
    \/ EnsureStopped(t)
    \/ EnsureAdopted(t)
    \/ Route(t)
    \/ MarkTTSStarted(t)
    \/ Pace(t)
    \/ BeginSpeaking(t)
    \/ SendAudio(t)
    \/ MarkTTSStop(t, "ttsError", "errorStop", "failed")
    \/ SendTTSStop(t, "errorStop", "failed")
    \/ FlushReply(t)
    \/ MarkTTSStop(t, "stop", "sendStop", "complete")
    \/ SendTTSStop(t, "sendStop", "complete")
    \/ CompleteSpeaking(t)
    \/ MarkSpeakingCompleted(t)
    \/ Release(t)

pumpFrame == <<turns, cancelled, finished, threadVars, bindVars>>

PumpStep(t) ==
    /\ AsrAnswers(t) \/ PumpWorks(t)
    /\ UNCHANGED pumpFrame

-----------------------------------------------------------------------------
\* Nothing is left to do: the device has sent what the bounds allow.
Quiet ==
    /\ reader.pc = "idle"
    /\ closer.pc \in {"off", "gone"}
    /\ \A t \in Turns : pump[t] \in {"none", "end"} /\ timer[t] \notin {"armed", "expired"}
    /\ \A i \in Stops : stopper[i].pc \in {"off", "end"}

Idle == Quiet /\ UNCHANGED vars

Next ==
    \/ ReaderStep
    \/ \E i \in Stops : StopperStep(i)
    \/ \E t \in Turns : TimerStep(t)
    \/ CloserStep
    \/ \E t \in Turns : PumpStep(t)
    \/ Idle

Spec == Init /\ [][Next]_vars

\* A goroutine that can go on does.  A message of the device, a failure and the
\* end of the binding need not come.  A reply has finitely many chunks, segments
\* and frames.  The ASR answers once the stream has been finished: that is asked
\* of the service, the gateway itself sets no bound.
LastSegment(t) ==
    /\ pump[t] \in {"segment", "frames"}
    /\ PumpStep(t)
    /\ pump'[t] \in {"llm", "flush", "finish"}

LastChunk(t) ==
    /\ pump[t] = "llm"
    /\ PumpStep(t)
    /\ pump'[t] = "flush"

Fairness ==
    /\ WF_vars(ReaderStep /\ Handling)
    /\ WF_vars(CloserStep /\ Closing)
    /\ \A i \in Stops : WF_vars(StopperStep(i))
    /\ \A t \in Turns :
          /\ WF_vars(TimerStep(t))
          /\ WF_vars(PumpStep(t) /\ PumpWorks(t))
          /\ WF_vars(t \in finished /\ PumpStep(t) /\ AsrAnswers(t))
          /\ SF_vars(LastSegment(t))
          /\ SF_vars(LastChunk(t))

FairSpec == Spec /\ Fairness

-----------------------------------------------------------------------------
ReaderPCs == {"idle", "hello", "replace", "mark", "stop", "record", "start",
              "install", "fail", "reset", "cancel"}
CloserPCs == {"off", "cancel", "record", "session", "inactive", "link", "gone"}
StopperPCs == {"off", "stop", "lookup", "finish", "wait", "end"}
PumpPCs == {"none", "asr", "clear", "ensure", "state", "stopListening", "adopt",
            "stt", "route", "llm", "begin", "mark", "segment", "request",
            "frames", "pace", "check", "speak", "recheck", "send", "ttsError",
            "errorStop", "failed", "flush", "finish", "stop", "sendStop",
            "complete", "recent", "release", "remember", "end"}

\* Every field of the loop, of a turn and of a goroutine keeps its type.
TypeOK ==
    /\ session \in SessionType
    /\ active \in Turns \cup {NoTurn} /\ asr \in Turns \cup {NoTurn}
    /\ listenGen \in Nat
    /\ recent \in BOOLEAN /\ counted \in BOOLEAN
    /\ turns \in 0 .. MaxTurns
    /\ gen \in [Turns -> Nat]
    /\ cancelled \subseteq Turns /\ claimed \subseteq Turns
    /\ ttsStarted \subseteq Turns /\ ttsStopSent \subseteq Turns
    /\ outcome \in [Turns -> {"open", "completed", "ended", "failed"}]
    /\ finished \subseteq Turns /\ result \subseteq Turns
    /\ reader \in [pc : ReaderPCs, turn : Turns \cup {NoTurn},
                   previous : Turns \cup {NoTurn}]
    /\ stopper \in [Stops -> [pc : StopperPCs, gen : Nat,
                              turn : Turns \cup {NoTurn}]]
    /\ pump \in [Turns -> PumpPCs]
    /\ phase \in [Turns -> {"llm", "system", "flush"}]
    /\ timer \in [Turns -> {"off", "set", "armed", "expired", "silent"}]
    /\ closer \in [pc : CloserPCs, turn : Turns \cup {NoTurn}]
    /\ bound \in BOOLEAN /\ linkUp \in BOOLEAN /\ pacerFirst \in BOOLEAN
    /\ setup \in Setups /\ aborts \in 0 .. MaxAborts
    /\ spoke \subseteq Turns
    /\ stops \in [Turns -> Nat]

\* The read loop has marked the turn's tts stop and is about to write it.
StopIsOnItsWay(t) == reader.pc = "stop" /\ reader.previous = t

\* The session speaks for the turn's generation and has audio of it.
SpeaksFor(t) == t \in spoke /\ Current(t) /\ session.state = "speaking"

\* There is one live turn: a pump that runs under a context nobody has cancelled
\* is the pump of the active turn, so the next listen/start, the next abort or
\* the close will cancel it (replaceActiveTurn, cancelActiveTurn, Close).  A pump
\* runs on after clearRuntime, when nobody can cancel it any more; but then it
\* has only to remember its reply: the session does not speak for it and it does
\* not owe a tts stop (flushRemainingTTS).  And as long as the binding lives, the
\* stream that takes the device's audio is the active turn's (AcceptOpus,
\* currentRuntimeAndASRStream).
OneTurnIsLive ==
    /\ \A t \in Turns :
          pump[t] \notin {"none", "end"} /\ ~Done(t)
            => \/ active = t
               \/ pump[t] = "remember" /\ ~SpeaksFor(t) /\ ~OwesStop(t)
    /\ bound /\ asr # NoTurn => asr = active

\* When a frame leaves for the device and its turn is still the current one, the
\* session is speaking and no goroutine has taken the turn's tts stop.
CurrentAudioIsSpeaking ==
    \A t \in Turns :
        pump[t] = "send" /\ Current(t) /\ t \notin cancelled
            => session.state = "speaking" /\ t \notin ttsStopSent

\* A turn the tail timer has given up says nothing, even when its final result
\* arrives while the timer fires (timeoutAutoListenTail, claimASRFinal).
ExpiredTurnIsSilent ==
    \A t \in Turns :
        timer[t] \in {"expired", "silent"}
            => pump[t] \in {"asr", "end"} /\ t \notin ttsStarted

\* However abort, barge-in, error and end of the reply meet, a turn's tts stop is
\* sent once at most; and a turn that is recorded as completed has closed what it
\* opened: it is no longer the active one, the session does not speak for it, and
\* the device got its tts stop if it can be reached, or is about to get it from
\* the read loop, which has marked the stop and so kept the pump from sending it
\* (sendTTSStopOnce, flushRemainingTTS).
CompletedIsClosed ==
    \A t \in Turns :
        /\ stops[t] <= 1
        /\ outcome[t] = "completed" =>
             /\ active # t /\ ~SpeaksFor(t)
             /\ t \in ttsStarted => stops[t] = 1 \/ ~linkUp \/ StopIsOnItsWay(t)

\* Who has cancelled the turn, the read loop or the closer, has yet to record it.
CancellerOwes(t) ==
    \/ reader.pc \in {"mark", "stop", "record"} /\ reader.previous = t
    \/ closer.pc = "record" /\ closer.turn = t

\* Whoever cancels a turn, it is recorded: when the pump of a cancelled turn has
\* ended and nobody is about to settle it, it has its record, from the canceller,
\* the timer or the pump, also when the canceller gave up because the device
\* cannot be written to (HandleListenStart, HandleAbort, Close).
CancelledTurnsAreRecorded ==
    \A t \in cancelled :
        pump[t] = "end" /\ timer[t] # "expired" /\ ~CancellerOwes(t)
            => outcome[t] # "open"

\* The goroutines of a turn end.  A turn whose context has ended stops working,
\* whatever provider it was waiting for; and the goroutine of a listen/stop is not
\* left waiting for a result that another goroutine took or that nobody will give
\* (waitForASRCompletion).
GoroutinesEnd ==
    /\ \A t \in Turns : Done(t) /\ pump[t] # "none" ~> pump[t] = "end"
    /\ \A i \in Stops : stopper[i].pc = "wait" ~> stopper[i].pc = "end"

-----------------------------------------------------------------------------
(* What a document says of the gateway and the code does not keep.          *)

\* "tts stop is sent exactly once per generation that started speaking": a turn
\* that is over, on a connection that works, has its tts start answered by a stop.
TtsStartIsStopped ==
    \A t \in Turns :
        t \in ttsStarted /\ pump[t] = "end" /\ outcome[t] # "open"
        /\ reader.pc = "idle" /\ linkUp
            => stops[t] = 1

-----------------------------------------------------------------------------
(* The inductive strengthening used by the proofs.                          *)

\* Where a pump is before it can speak: before its reply has been routed.
Early == {"none", "asr", "clear", "ensure", "state", "stopListening", "adopt",
          "stt", "route"}

\* A turn gets its pump from the read loop that made it, which has it as the
\* active turn until then; the stream is a turn's whose pump has not passed it,
\* and a listen/stop has found a turn before it finishes the stream.
TurnsHaveOwners ==
    /\ \A t \in Turns : t > turns => pump[t] = "none" /\ timer[t] = "off"
    /\ \A t \in Turns : timer[t] \in {"armed", "expired", "silent"} => pump[t] # "none"
    /\ reader.pc \in {"replace", "start", "install", "fail", "reset"}
         => reader.turn # NoTurn
    /\ reader.pc \in {"replace", "mark", "stop", "record", "start", "install", "fail",
                      "reset"} /\ reader.turn # NoTurn
         => reader.turn \in 1 .. turns /\ pump[reader.turn] = "none"
    /\ reader.pc \in {"mark", "stop", "record", "start", "install"} /\ bound
         => active = reader.turn
    /\ reader.pc \in {"mark", "stop", "record", "start", "install", "fail"}
         => asr = NoTurn
    /\ asr # NoTurn => pump[asr] \in {"asr", "clear", "end"}
    /\ \A i \in Stops : stopper[i].pc \in {"finish", "wait"} => stopper[i].turn \in Turns
    /\ closer.pc # "off" => ~bound

\* A pump that nobody has cancelled is the active turn's, but for its last step.
LiveIsActive ==
    /\ \A t \in Turns :
          pump[t] \notin {"none", "end"} /\ ~Done(t)
            => active = t \/ pump[t] = "remember"
    /\ bound /\ asr # NoTurn => asr = active

\* A pump goes past the ASR only with the claim, and speaks only after that.
ClaimComesFirst ==
    \A t \in Turns :
        /\ pump[t] \notin {"none", "asr", "end"} => t \in claimed
        /\ t \in ttsStarted \cup spoke => t \in claimed /\ pump[t] \notin Early
        /\ timer[t] \in {"expired", "silent"} => t \in claimed

\* The pump has marked its tts stop and is about to write it.
PumpStops(t) == pump[t] \in {"errorStop", "sendStop"}

\* A tts stop that is marked has been sent, unless one goroutine, the pump or the
\* read loop, is about to send it, or the device cannot be reached.
MarkedIsSent ==
    /\ reader.pc = "stop" => reader.previous \in ttsStarted
    /\ \A t \in Turns :
          /\ t \notin ttsStopSent => stops[t] = 0
          /\ PumpStops(t) \/ StopIsOnItsWay(t) => t \in ttsStopSent /\ stops[t] = 0
          /\ ~(PumpStops(t) /\ StopIsOnItsWay(t))
          /\ t \in ttsStopSent /\ ~PumpStops(t) /\ ~StopIsOnItsWay(t)
               => stops[t] = 1 \/ (stops[t] = 0 /\ ~linkUp)

\* The turn's CompleteSpeaking is behind it, if it needed one.
Completing(t) ==
    pump[t] \in {"recent", "release", "remember"} \/ outcome[t] = "completed"

\* The end of a reply is reached with the tts stop marked, and its last step with
\* another turn active, or none.
EndIsMarked ==
    \A t \in Turns :
        /\ outcome[t] = "completed" => pump[t] = "end"
        /\ pump[t] = "remember" \/ outcome[t] = "completed" => active # t
        /\ pump[t] = "complete" \/ Completing(t)
             => t \notin ttsStarted \/ t \in ttsStopSent

\* The turn in whose place the read loop has put another is cancelled.
PreviousIsCancelled ==
    reader.pc \in {"mark", "stop", "record"} /\ reader.previous # NoTurn
        => reader.previous \in cancelled

\* A cancelled turn without a record has somebody left who will record it: the
\* read loop, the closer, the timer, or its own pump.
RecordIsOwed ==
    /\ \A t \in cancelled :
          outcome[t] = "open"
            => \/ CancellerOwes(t)
               \/ timer[t] = "expired"
               \/ t \in ttsStarted /\ pump[t] # "end"
    /\ \A t \in ttsStarted : pump[t] = "end" => outcome[t] # "open"

\* Only the last steps of a turn follow a tts stop that its own pump has marked.
StopIsLast ==
    \A t \in ttsStopSent :
        t \notin cancelled
            => pump[t] \in {"errorStop", "failed", "sendStop", "complete", "recent",
                            "release", "remember", "end"}

SessionIsSound ==
    /\ session.state \in InTurn => session.used
    /\ session.state \in {"connected", "hello_received"} => session.gen = 0

\* The turn has had its BeginSpeaking.
Begun(t) == pump[t] \in {"recheck", "send"} \/ t \in spoke

\* A generation is spoken for once: the session does not go back to processing
\* for it, and leaves speaking only when the turn itself completes.
SpeakingIsOwned ==
    \A t \in Turns :
        Begun(t) =>
            /\ gen[t] <= session.gen
            /\ gen[t] = session.gen
                 => /\ session.state \in {"speaking", "idle", "closed"}
                    /\ session.used
                    /\ pump[t] \notin {"recent", "release", "remember", "end"}
                         => session.state # "idle"
                    /\ Completing(t) => session.state # "speaking"
            /\ \A u \in Turns : Begun(u) /\ gen[u] = gen[t] => u = t

IInv ==
    /\ TypeOK
    /\ TurnsHaveOwners /\ LiveIsActive
    /\ ClaimComesFirst /\ ExpiredTurnIsSilent
    /\ MarkedIsSent /\ EndIsMarked
    /\ PreviousIsCancelled /\ RecordIsOwed /\ StopIsLast
    /\ SessionIsSound /\ SpeakingIsOwned
=============================================================================
