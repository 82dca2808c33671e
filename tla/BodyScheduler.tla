--------------------------- MODULE BodyScheduler ---------------------------
(***************************************************************************)
(* What the gateway makes the device's body do during its turns: the motion *)
(* gate of stackchan.BodyScheduler (stackchan/body_scheduler.go), the queue *)
(* of lifecycle LEDs with its dispatcher, and the goroutines that play a    *)
(* motion or an expression (session/session.go, tool_orchestrator.go).      *)
(* They read the session and the active turn, each under its own mutex,     *)
(* while the read loop and the pumps of the turns go on: a step is what a   *)
(* goroutine does between two locks.  The voice loop is reduced to what     *)
(* asks for body commands (VoiceLoop has the rest); a turn is known by its  *)
(* generation, so a listen/start repeated while listening is left out.      *)
(***************************************************************************)
EXTENDS SessionCore, Sequences, FiniteSets

CONSTANTS
    MaxGen,         \* bound: the last generation
    MaxBodies,      \* bound: goroutines that play a motion or an expression
    MaxTime,        \* bound: the clock
    MinGap,         \* minCommandGap, in ticks
    MaxPerTurn,     \* maxCommandsPerTurn
    QueueSize,      \* lifecycleLEDQueueSize
    Setups          \* what the configurations turn on: LEDs, motions or both

ASSUME BodyAssumption ==
    /\ MaxGen \in Nat \ {0} /\ MaxBodies \in Nat /\ MaxTime \in Nat
    /\ MinGap \in Nat \ {0} /\ MaxPerTurn \in Nat \ {0} /\ QueueSize \in Nat \ {0}
    /\ Setups \subseteq {"leds", "motions", "both"}

Gens == 1 .. MaxGen
Bodies == 1 .. MaxBodies
Lifecycles == {"listening", "thinking", "speaking", "idle"}
None == 0

VARIABLES
    setup,                          \* one of Setups
    session, active, cancelled,     \* VoiceLoop, reduced
    reader, pump, timer, closer,    \* its goroutines
    \* BodyScheduler, under its mutex; last = 0 is the zero time
    current, count, last, coalesced, now,
    bodies,                         \* goroutines that play motions and plans
    queue, led,                     \* lifecycleLEDQueue and its dispatcher
    \* history: motions sent per generation, the lifecycle LED last sent, a
    \* request dropped or overtaken, a command of a goroutine born too late
    motions, lit, lost, late

loopVars == <<setup, session, active, cancelled>>
threadVars == <<reader, pump, timer, closer>>
gateVars == <<current, count, last, coalesced>>
ledVars  == <<queue, led, lit, lost>>
vars == <<loopVars, threadVars, gateVars, now, bodies, ledVars, motions, late>>

Init ==
    /\ setup \in Setups
    /\ session = HelloAnswered(NewSession(1))
    /\ active = None /\ cancelled = {}
    /\ reader = [pc |-> "idle", gen |-> 0]
    /\ pump = [g \in Gens |-> "none"] /\ timer = [g \in Gens |-> "off"]
    /\ closer = "off"
    /\ current = 0 /\ count = [g \in Gens |-> 0] /\ last = 0 /\ coalesced = {}
    /\ now = 1
    /\ bodies = [b \in Bodies |->
                   [pc |-> "off", gen |-> 0, plan |-> FALSE, born |-> TRUE]]
    /\ queue = <<>> /\ led = [pc |-> "take", gen |-> 0, lifecycle |-> "idle"]
    /\ lit = "idle" /\ lost = FALSE
    /\ motions = [g \in Gens |-> 0] /\ late = FALSE

-----------------------------------------------------------------------------
\* Mutant: a scheduler without the session's AcceptsGeneration.
NoGenerationIsStale(g) == TRUE

\* BodyScheduler.isGenerationCurrent with the function newVoiceLoopForTransport
\* gives it.
IsGenerationCurrent(g) == AcceptsGeneration(session, g)

IsCurrent(g) == AcceptsGeneration(session, g)

SetGeneration(g) == current' = IF g > current THEN g ELSE current

\* The pump has asked for LEDs before the listen/start has asked for its own.
Overtaken(g) == pump[g] \in {"think", "reply", "speak", "complete", "clear"}

\* dispatchLifecycleLED: without LEDs there is no queue, a full one drops.
Enqueue(g, lifecycle) ==
    LET full == Len(queue) >= QueueSize IN
    /\ UNCHANGED <<led, lit>>
    /\ IF setup = "motions"
       THEN UNCHANGED <<queue, lost>>
       ELSE /\ queue' = IF full THEN queue
                        ELSE Append(queue, [gen |-> g, lifecycle |-> lifecycle])
            /\ lost' = (lost \/ full \/ (lifecycle = "listening" /\ Overtaken(g)))

\* A goroutine is started for generation g, for a plan or a motion alone.
Spawn(g, plan) ==
    \E b \in Bodies :
        /\ bodies[b].pc = "off"
        /\ \A c \in 1 .. b - 1 : bodies[c].pc # "off"
        /\ bodies' = [bodies EXCEPT ![b] =
              [pc |-> IF plan THEN "set" ELSE "check", gen |-> g, plan |-> plan,
               born |-> IsCurrent(g)]]

DropActive ==
    /\ active' = None
    /\ cancelled' = cancelled \cup ({active} \ {None})

-----------------------------------------------------------------------------
\* The read loop: HandleListenStart and HandleAbort.
ReaderAt(pc) == reader.pc = pc
ReaderGoes(pc, g) == reader' = [pc |-> pc, gen |-> g]

ListenStart ==
    /\ ReaderAt("idle") /\ CanStartListening(session)
    /\ session.state # "listening"
    /\ session' = ListeningStarted(session) /\ session'.gen <= MaxGen
    /\ ReaderGoes("replace", session'.gen)
    /\ UNCHANGED <<setup, active, cancelled, pump, timer, closer, gateVars, now, bodies,
                   ledVars, motions, late>>

\* replaceActiveTurn, and the pump on the new stream.
ReplaceTurn ==
    /\ ReaderAt("replace")
    /\ active' = reader.gen
    /\ cancelled' = cancelled \cup ({active} \ {None})
    /\ pump' = [pump EXCEPT ![reader.gen] = "listen"]
    /\ ReaderGoes("motion", reader.gen)
    /\ UNCHANGED <<setup, session, timer, closer, gateVars, now, bodies, ledVars, motions, late>>

DispatchListenStartMotion ==
    /\ ReaderAt("motion") /\ setup # "leds"
    /\ SetGeneration(reader.gen)
    /\ Spawn(reader.gen, FALSE)
    /\ ReaderGoes("led", reader.gen)
    /\ UNCHANGED <<loopVars, pump, timer, closer, count, last, coalesced, now,
                   ledVars, motions, late>>

\* listenStartMotionEnabled is off.
NoListenStartMotion ==
    /\ ReaderAt("motion")
    /\ ReaderGoes("led", reader.gen)
    /\ UNCHANGED <<loopVars, pump, timer, closer, gateVars, now, bodies, ledVars,
                   motions, late>>

ListeningLED ==
    /\ ReaderAt("led")
    /\ Enqueue(reader.gen, "listening")
    /\ ReaderGoes("idle", 0)
    /\ UNCHANGED <<loopVars, pump, timer, closer, gateVars, now, bodies, motions, late>>

Abort ==
    /\ ReaderAt("idle") /\ session.state # "closed"
    /\ session' = Interrupted(session) /\ session'.gen <= MaxGen
    /\ ReaderGoes("drop", session'.gen)
    /\ UNCHANGED <<setup, active, cancelled, pump, timer, closer, gateVars, now, bodies,
                   ledVars, motions, late>>

AbortDrops ==
    /\ ReaderAt("drop")
    /\ DropActive
    /\ ReaderGoes("aborted", reader.gen)
    /\ UNCHANGED <<setup, session, pump, timer, closer, gateVars, now, bodies, ledVars,
                   motions, late>>

AbortLED ==
    /\ ReaderAt("aborted")
    /\ Enqueue(reader.gen, "idle")
    /\ ReaderGoes("idle", 0)
    /\ UNCHANGED <<loopVars, pump, timer, closer, gateVars, now, bodies, motions, late>>

-----------------------------------------------------------------------------
\* The pump of generation g: from the recognised text to the end of the reply.
PumpGoes(g, pc) == pump' = [pump EXCEPT ![g] = pc]
Runs(g) == g \notin cancelled /\ IsCurrent(g)

FinalHeard(g) ==
    /\ pump[g] = "listen" /\ Runs(g) /\ CanStopListening(session)
    /\ session' = ListeningStopped(session)
    /\ PumpGoes(g, "think")
    /\ UNCHANGED <<setup, active, cancelled, reader, timer, closer, gateVars, now, bodies,
                   ledVars, motions, late>>

\* A turn that was cancelled or left behind ends at its next check.
PumpEnds(g) ==
    /\ pump[g] \in {"listen", "reply", "speak", "complete"} /\ ~Runs(g)
    /\ PumpGoes(g, "gone")
    /\ UNCHANGED <<loopVars, reader, timer, closer, gateVars, now, bodies, ledVars,
                   motions, late>>

ThinkingLED(g) ==
    /\ pump[g] = "think"
    /\ Enqueue(g, "thinking") /\ PumpGoes(g, "reply")
    /\ UNCHANGED <<loopVars, reader, timer, closer, gateVars, now, bodies, motions, late>>

\* A tool call of the reply plays an expression in a goroutine of its own.
Express(g) ==
    /\ setup # "leds" /\ pump[g] \in {"reply", "speak"} /\ Spawn(g, TRUE)
    /\ UNCHANGED <<loopVars, threadVars, gateVars, now, ledVars, motions, late>>

SpeakingLED(g) ==
    /\ pump[g] = "reply"
    /\ Enqueue(g, "speaking") /\ PumpGoes(g, "speak")
    /\ UNCHANGED <<loopVars, reader, timer, closer, gateVars, now, bodies, motions, late>>

BeginSpeaking(g) ==
    /\ pump[g] = "speak" /\ Runs(g) /\ CanBeginSpeaking(session, g)
    /\ session' = SpeakingBegun(session) /\ PumpGoes(g, "complete")
    /\ UNCHANGED <<setup, active, cancelled, reader, timer, closer, gateVars, now, bodies,
                   ledVars, motions, late>>

\* flushRemainingTTS of a reply with audio: schedulePostSpeakingIdleLifecycle
\* starts the timer, then the turn is cleared.
CompleteSpeaking(g) ==
    /\ pump[g] = "complete" /\ Runs(g) /\ CanCompleteSpeaking(session, g)
    /\ session' = SpeakingCompleted(session)
    /\ timer' = [timer EXCEPT ![g] = "armed"] /\ PumpGoes(g, "clear")
    /\ UNCHANGED <<setup, active, cancelled, reader, closer, gateVars, now, bodies, ledVars,
                   motions, late>>

\* ... and of a reply without.
SilentReply(g) ==
    /\ pump[g] = "reply" /\ Runs(g)
    /\ Enqueue(g, "idle") /\ PumpGoes(g, "clear")
    /\ UNCHANGED <<loopVars, reader, timer, closer, gateVars, now, bodies, motions, late>>

\* clearRuntime leaves the turn's context as it is.
ClearRuntime(g) ==
    /\ pump[g] = "clear" /\ PumpGoes(g, "gone")
    /\ active' = IF active = g THEN None ELSE active
    /\ UNCHANGED <<setup, session, cancelled, reader, timer, closer, gateVars, now, bodies, ledVars,
                   motions, late>>

\* dispatchPostSpeakingIdleLifecycle.
PostSpeakingIdle(g) ==
    /\ timer[g] = "armed" /\ timer' = [timer EXCEPT ![g] = "off"]
    /\ IF IsCurrent(g) /\ session.state = "idle"
       THEN Enqueue(g, "idle") ELSE UNCHANGED ledVars
    /\ UNCHANGED <<loopVars, reader, pump, closer, gateVars, now, bodies, motions, late>>

\* timeoutAutoListenTail: the turn is dropped, then the listening completed.
TailExpires(g) ==
    /\ pump[g] = "listen" /\ active = g
    /\ DropActive /\ PumpGoes(g, "nospeech")
    /\ UNCHANGED <<setup, session, reader, timer, closer, gateVars, now, bodies, ledVars,
                   motions, late>>

TailCompletes(g) ==
    /\ pump[g] = "nospeech"
    /\ IF CanCompleteNoSpeech(session, g)
       THEN session' = NoSpeechCompleted(session) /\ PumpGoes(g, "tailled")
       ELSE UNCHANGED session /\ PumpGoes(g, "gone")
    /\ UNCHANGED <<setup, active, cancelled, reader, timer, closer, gateVars, now, bodies,
                   ledVars, motions, late>>

TailLED(g) ==
    /\ pump[g] = "tailled"
    /\ Enqueue(g, "idle") /\ PumpGoes(g, "gone")
    /\ UNCHANGED <<loopVars, reader, timer, closer, gateVars, now, bodies, motions, late>>

-----------------------------------------------------------------------------
\* Close: the active turn, the LED, the session, the dispatcher.
CloserGoes(from, to) == closer = from /\ closer' = to

\* To a motion it is what an abort is, so it is left to the other setups.
CloseDrops ==
    /\ setup # "motions"
    /\ CloserGoes("off", "led") /\ DropActive
    /\ UNCHANGED <<setup, session, reader, pump, timer, gateVars, now, bodies, ledVars,
                   motions, late>>

\* dispatchLifecycleLEDForSessionClose asks neither queue nor scheduler.
CloseLED ==
    /\ CloserGoes("led", "session") /\ lit' = "idle"
    /\ UNCHANGED <<loopVars, reader, pump, timer, gateVars, now, bodies, queue, led,
                   lost, motions, late>>

CloseSession ==
    /\ CloserGoes("session", "done") /\ session' = Closed(session)
    /\ UNCHANGED <<setup, active, cancelled, reader, pump, timer, gateVars, now, bodies,
                   ledVars, motions, late>>

\* ctx.Done of the dispatcher.
DispatcherStops ==
    /\ closer = "done" /\ led.pc = "take"
    /\ led' = [led EXCEPT !.pc = "off"]
    /\ UNCHANGED <<loopVars, threadVars, gateVars, now, bodies, queue, lit, lost,
                   motions, late>>

-----------------------------------------------------------------------------
\* runLifecycleLEDDispatcher and sendLifecycleLED, lock by lock.
LEDGoes(pc) == led' = [led EXCEPT !.pc = pc]
LEDStep(from) ==
    /\ led.pc = from
    /\ UNCHANGED <<loopVars, threadVars, count, last, coalesced, now, bodies, lost,
                   motions, late>>

TakeRequest ==
    /\ LEDStep("take") /\ queue # <<>>
    /\ led' = [pc |-> "turn", gen |-> Head(queue).gen,
               lifecycle |-> Head(queue).lifecycle]
    /\ queue' = Tail(queue) /\ UNCHANGED <<current, lit>>

\* Mutant: an idle LED, too, must belong to the active turn.
OfNoTurn(lifecycle) == FALSE

OfAnyTurn(lifecycle) == lifecycle = "idle"

\* lifecycleLEDRequestIsCurrent.
CheckTurn ==
    /\ LEDStep("turn")
    /\ LEDGoes(IF ~IsCurrent(led.gen) THEN "take"
               ELSE IF OfAnyTurn(led.lifecycle) THEN "set" ELSE "active")
    /\ UNCHANGED <<current, queue, lit>>

IsActive(g) == active = g

CheckActive ==
    /\ LEDStep("active")
    /\ LEDGoes(IF IsActive(led.gen) THEN "set" ELSE "take")
    /\ UNCHANGED <<current, queue, lit>>

SetLEDGeneration ==
    /\ LEDStep("set") /\ SetGeneration(led.gen) /\ LEDGoes("check")
    /\ UNCHANGED <<queue, lit>>

\* DispatchLED.  Its two comparisons are one step: the scheduler is never ahead
\* of the session, so what the first refuses the second refuses too.
MayLight(g) == g >= current /\ IsGenerationCurrent(g)

LEDCheck ==
    /\ LEDStep("check") /\ LEDGoes(IF MayLight(led.gen) THEN "send" ELSE "take")
    /\ UNCHANGED <<current, queue, lit>>

SendLED ==
    /\ LEDStep("send") /\ lit' = led.lifecycle /\ LEDGoes("take")
    /\ UNCHANGED <<current, queue>>

-----------------------------------------------------------------------------
\* A goroutine that plays a motion, or a plan (dispatchExpressionPlan): the
\* generation, the motion, then the plan's LED whatever came of the motion.
BodyStep(b, from) ==
    /\ bodies[b].pc = from
    /\ UNCHANGED <<loopVars, threadVars, now, ledVars>>
BodyGoes(b, pc) == bodies' = [bodies EXCEPT ![b].pc = pc]
AfterMotion(b) == IF bodies[b].plan THEN "led" ELSE "done"
Sends(b) == late' = (late \/ ~bodies[b].born)

PlanSets(b) ==
    /\ BodyStep(b, "set") /\ SetGeneration(bodies[b].gen) /\ BodyGoes(b, "check")
    /\ UNCHANGED <<count, last, coalesced, motions, late>>

\* ScheduleMotion: the session's generation first, then the gate under the mutex.
ScheduleCheck(b) ==
    /\ BodyStep(b, "check")
    /\ BodyGoes(b, IF IsGenerationCurrent(bodies[b].gen) THEN "schedule"
                   ELSE AfterMotion(b))
    /\ UNCHANGED <<gateVars, motions, late>>

\* Mutant: the limit is compared after the command it should have refused.
OverLimit(g) == count[g] > MaxPerTurn

AtLimit(g) == count[g] >= MaxPerTurn

Counts(g, admitted) ==
    count' = IF admitted THEN [count EXCEPT ![g] = @ + 1] ELSE count

TooEarly == last # 0 /\ now - last < MinGap

ScheduleMotion(b) ==
    LET g == bodies[b].gen IN
    /\ BodyStep(b, "schedule")
    /\ IF current = 0 \/ g < current \/ AtLimit(g)
       THEN /\ BodyGoes(b, AfterMotion(b))
            /\ current' = IF current = 0 \/ g < current THEN current ELSE g
            /\ UNCHANGED <<count, last, coalesced>>
       ELSE /\ current' = g
            /\ Counts(g, ~TooEarly)
            /\ last' = IF TooEarly THEN last ELSE now
            /\ coalesced' = IF TooEarly THEN coalesced \cup {g} ELSE coalesced \ {g}
            /\ BodyGoes(b, IF TooEarly THEN AfterMotion(b) ELSE "recheck")
    /\ UNCHANGED <<motions, late>>

DispatchCheck(b) ==
    /\ BodyStep(b, "recheck")
    /\ BodyGoes(b, IF IsGenerationCurrent(bodies[b].gen) THEN "send"
                   ELSE AfterMotion(b))
    /\ UNCHANGED <<gateVars, motions, late>>

SendMotion(b) ==
    /\ BodyStep(b, "send")
    /\ motions' = [motions EXCEPT ![bodies[b].gen] = @ + 1]
    /\ Sends(b) /\ BodyGoes(b, AfterMotion(b)) /\ UNCHANGED gateVars

PlanLEDCheck(b) ==
    /\ BodyStep(b, "led")
    /\ BodyGoes(b, IF MayLight(bodies[b].gen) THEN "ledsend" ELSE "done")
    /\ UNCHANGED <<gateVars, motions, late>>

PlanLED(b) ==
    /\ BodyStep(b, "ledsend") /\ Sends(b) /\ BodyGoes(b, "done")
    /\ UNCHANGED <<gateVars, motions>>

Tick ==
    /\ setup # "leds" /\ now < MaxTime /\ now' = now + 1
    /\ UNCHANGED <<loopVars, threadVars, gateVars, bodies, ledVars, motions, late>>

-----------------------------------------------------------------------------
Reader == \/ ReplaceTurn \/ DispatchListenStartMotion \/ NoListenStartMotion
          \/ ListeningLED \/ AbortDrops \/ AbortLED

Pump(g) == \/ PumpEnds(g) \/ ThinkingLED(g) \/ SpeakingLED(g) \/ BeginSpeaking(g)
           \/ CompleteSpeaking(g) \/ SilentReply(g) \/ ClearRuntime(g)
           \/ TailCompletes(g) \/ TailLED(g)

Dispatcher == \/ TakeRequest \/ CheckTurn \/ CheckActive \/ SetLEDGeneration
              \/ LEDCheck \/ SendLED \/ DispatcherStops

Body(b) == \/ PlanSets(b) \/ ScheduleCheck(b) \/ ScheduleMotion(b)
           \/ DispatchCheck(b) \/ SendMotion(b) \/ PlanLEDCheck(b)
           \/ PlanLED(b)

Closer == CloseLED \/ CloseSession

Next == \/ ListenStart \/ Abort \/ Reader \/ CloseDrops \/ Closer \/ Dispatcher
        \/ Tick
        \/ \E g \in Gens : \/ FinalHeard(g) \/ Express(g) \/ TailExpires(g)
                           \/ Pump(g) \/ PostSpeakingIdle(g)
        \/ \E b \in Bodies : Body(b)

\* A goroutine that can go on does; the device, the user and the clock may not.
Fairness ==
    /\ WF_vars(Reader) /\ WF_vars(Dispatcher) /\ WF_vars(Closer)
    /\ \A g \in Gens : WF_vars(Pump(g)) /\ WF_vars(PostSpeakingIdle(g))
    /\ \A b \in Bodies : WF_vars(Body(b))

Spec == Init /\ [][Next]_vars /\ Fairness

-----------------------------------------------------------------------------
ReaderPCs == {"idle", "replace", "motion", "led", "drop", "aborted"}
PumpPCs == {"none", "listen", "think", "reply", "speak", "complete", "clear",
            "nospeech", "tailled", "gone"}
LEDPCs == {"take", "turn", "active", "set", "check", "send", "off"}
BodyPCs == {"off", "set", "check", "schedule", "recheck", "send", "led", "ledsend",
            "done"}
Request == [gen : Gens, lifecycle : Lifecycles]

\* The types of the variables; queue and counters within their bounds.
TypeOK ==
    /\ setup \in Setups
    /\ session \in SessionType /\ session.gen \in Gens
    /\ active \in Gens \cup {None} /\ cancelled \subseteq Gens
    /\ reader \in [pc : ReaderPCs, gen : 0 .. MaxGen]
    /\ pump \in [Gens -> PumpPCs] /\ timer \in [Gens -> {"off", "armed"}]
    /\ closer \in {"off", "led", "session", "done"}
    /\ now \in Nat \ {0} /\ last \in 0 .. now
    /\ current \in 0 .. MaxGen /\ coalesced \subseteq Gens
    /\ count \in [Gens -> 0 .. MaxPerTurn] /\ motions \in [Gens -> Nat]
    /\ bodies \in [Bodies -> [pc : BodyPCs, gen : 0 .. MaxGen, plan : BOOLEAN,
                              born : BOOLEAN]]
    /\ queue \in Seq(Request) /\ Len(queue) <= QueueSize
    /\ led \in [pc : LEDPCs, gen : 0 .. MaxGen, lifecycle : Lifecycles]
    /\ lit \in Lifecycles
    /\ lost \in BOOLEAN /\ late \in BOOLEAN

\* "Drop motion commands from old generations": a goroutine that is started when
\* its generation is over sends nothing, however the turns go on meanwhile.
StaleBodyIsSilent == ~late

\* A turn never sends more motions than it was counted for, nor more than
\* maxCommandsPerTurn, though goroutines of several turns schedule at once.
MotionsAreCounted ==
    \A g \in Gens : motions[g] <= count[g] /\ motions[g] <= MaxPerTurn

AtRest ==
    /\ reader.pc = "idle" /\ closer = "off"
    /\ \A g \in Gens : pump[g] \in {"none", "gone"} /\ timer[g] = "off"
    /\ queue = <<>> /\ led.pc = "take"

\* When no turn runs and no request was dropped or overtaken in the queue, the
\* device shows the idle LED: the late LED of a turn that was aborted, replaced or
\* completed never stays lit.
IdleIsShown ==
    AtRest /\ ~lost /\ session.state \in {"idle", "interrupted"} => lit = "idle"

-----------------------------------------------------------------------------
(* The inductive strengthening used by the proofs.                          *)

\* Nobody works for a generation the session has not reached.
NothingIsAhead ==
    /\ reader.pc # "idle" => reader.gen \in 1 .. session.gen
    /\ \A g \in Gens : pump[g] # "none" => g <= session.gen
    /\ current <= session.gen
    /\ \A b \in Bodies : bodies[b].pc # "off" => bodies[b].gen \in 1 .. session.gen
    /\ led.pc \notin {"take", "off"} => led.gen \in 1 .. session.gen
    /\ \A i \in 1 .. Len(queue) : queue[i].gen <= session.gen

\* A generation is active from the time its pump is made until it is cleared or
\* cancelled, once; while the session is at rest its pump has no more to say.
TurnsAreOwned ==
    /\ active \notin cancelled
    /\ \A g \in Gens :
          /\ pump[g] = "none" => active # g /\ g \notin cancelled
          /\ pump[g] \in {"nospeech", "tailled"} => active # g
          /\ pump[g] = "gone" => active # g \/ ~IsCurrent(g)
    /\ reader.pc = "replace" =>
          /\ reader.gen = session.gen /\ pump[reader.gen] = "none"
          /\ session.used /\ session.state \in {"listening", "closed"}
    /\ reader.pc \in {"motion", "led"} => pump[reader.gen] # "none"
    /\ session.state \in InTurn => session.used
    /\ session.state = "interrupted" => ~session.used
    /\ ~session.used => pump[session.gen] = "none"
    /\ session.state \in {"idle", "interrupted"}
         => pump[session.gen] \in {"none", "clear", "tailled", "gone"}

\* A goroutine that was born too late is stopped by its first check.
LateIsStopped ==
    \A b \in Bodies :
        bodies[b].pc # "off" /\ ~bodies[b].born
            => bodies[b].pc \in {"set", "check", "led", "done"}
               /\ ~IsCurrent(bodies[b].gen)

\* The motions that have been counted and not yet sent.
Due(g) == {b \in Bodies : bodies[b].pc \in {"recheck", "send"} /\ bodies[b].gen = g}

DueIsCounted == \A g \in Gens : motions[g] + Cardinality(Due(g)) <= count[g]

\* A request that lights nothing but the idle LED.
Loses(request) ==
    \/ request.lifecycle = "idle"
    \/ request.gen # session.gen
    \/ active # request.gen

\* Somebody is about to ask for the idle LED of the session's generation, ...
IdleIsDue ==
    \/ reader.pc \in {"drop", "aborted"} /\ reader.gen = session.gen
    \/ timer[session.gen] = "armed" /\ session.state = "idle"
    \/ pump[session.gen] = "tailled"

\* ... or it is in the queue with nothing behind it that could undo it, ...
IdleIsQueued ==
    \E i \in 1 .. Len(queue) :
        /\ queue[i].gen = session.gen /\ queue[i].lifecycle = "idle"
        /\ \A j \in 1 .. Len(queue) : j > i => Loses(queue[j])

QueueLoses == \A i \in 1 .. Len(queue) : Loses(queue[i])

\* ... or in the hands of the dispatcher, ...
IdleIsSent ==
    /\ QueueLoses
    /\ led.pc \in {"turn", "set", "check", "send"}
    /\ led.gen = session.gen /\ led.lifecycle = "idle"

\* ... or lit, and the dispatcher is not going to light another.
IdleIsLit ==
    /\ QueueLoses
    /\ lit = "idle"
    /\ \/ led.pc \in {"take", "off"}
       \/ led.lifecycle = "idle"
       \/ led.pc = "turn" /\ led.gen # session.gen
       \/ led.pc \in {"turn", "active"} /\ active # led.gen

IdleComes ==
    /\ setup = "motions" => queue = <<>> /\ led.pc \in {"take", "off"} /\ lit = "idle"
    /\ closer = "off" /\ ~lost /\ session.state \in {"idle", "interrupted"}
         => IdleIsDue \/ IdleIsQueued \/ IdleIsSent \/ IdleIsLit

IInv ==
    /\ TypeOK
    /\ NothingIsAhead /\ TurnsAreOwned
    /\ LateIsStopped /\ StaleBodyIsSilent
    /\ DueIsCounted
    /\ IdleComes
=============================================================================
