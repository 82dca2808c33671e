------------------------ MODULE BodySchedulerProofs ------------------------
(***************************************************************************)
(* The inductive invariant of BodyScheduler and its consequences, for every *)
(* number of generations and goroutines, every queue size, gap and limit.   *)
(***************************************************************************)
EXTENDS BodyScheduler, FiniteSetTheorems, TLAPS

LEMMA Bounds ==
    /\ MaxGen \in Nat \ {0} /\ MaxBodies \in Nat /\ MaxPerTurn \in Nat \ {0}
    /\ MinGap \in Nat \ {0} /\ QueueSize \in Nat \ {0}
    /\ \A g \in Gens : g \in Nat /\ g >= 1 /\ g <= MaxGen /\ g # None
    /\ \A g : g \in Gens <=> g \in Nat /\ g >= 1 /\ g <= MaxGen
  BY BodyAssumption DEF Gens, None

-----------------------------------------------------------------------------
\* What the session's methods make of it has its type, and its generation only
\* grows; a closed session stays closed.
SessionGrows ==
    /\ session' \in SessionType
    /\ session.gen <= session'.gen
    /\ session.state = "closed" => session'.state = "closed" /\ session'.gen = session.gen

LEMMA SessionMoves ==
    ASSUME session \in SessionType,
           \/ session' = session
           \/ CanStartListening(session) /\ session' = ListeningStarted(session)
           \/ session' = Interrupted(session)
           \/ CanStopListening(session) /\ session' = ListeningStopped(session)
           \/ \E g : CanCompleteNoSpeech(session, g) /\ session' = NoSpeechCompleted(session)
           \/ \E g : CanBeginSpeaking(session, g) /\ session' = SpeakingBegun(session)
           \/ \E g : CanCompleteSpeaking(session, g) /\ session' = SpeakingCompleted(session)
           \/ session' = Closed(session)
    PROVE  SessionGrows
<1>1. /\ session.gen \in Nat /\ session.first \in Nat \ {0} /\ session.state \in States
      /\ session.used \in BOOLEAN
  BY DEF SessionType
<1> USE <1>1 DEF SessionGrows, SessionType, States, In, At
<1>2. CASE session' = session
  BY <1>2
<1>3. NextGeneration(session) \in Nat /\ NextGeneration(session) > session.gen
  BY DEF NextGeneration
<1>4. CASE CanStartListening(session) /\ session' = ListeningStarted(session)
  BY <1>3, <1>4 DEF CanStartListening, ListeningStarted
<1>5. CASE session' = Interrupted(session)
  BY <1>3, <1>5 DEF Interrupted
<1>6. CASE CanStopListening(session) /\ session' = ListeningStopped(session)
  BY <1>6 DEF CanStopListening, ListeningStopped
<1>7. CASE \E g : CanCompleteNoSpeech(session, g) /\ session' = NoSpeechCompleted(session)
  BY <1>7 DEF CanCompleteNoSpeech, NoSpeechCompleted
<1>8. CASE \E g : CanBeginSpeaking(session, g) /\ session' = SpeakingBegun(session)
  BY <1>8 DEF CanBeginSpeaking, SpeakingBegun
<1>9. CASE \E g : CanCompleteSpeaking(session, g) /\ session' = SpeakingCompleted(session)
  BY <1>9 DEF CanCompleteSpeaking, SpeakingCompleted
<1>10. CASE session' = Closed(session)
  BY <1>10 DEF Closed
<1>11. QED
  BY <1>2, <1>4, <1>5, <1>6, <1>7, <1>8, <1>9, <1>10

\* Every step moves the session by one of its methods.
LEMMA SessionSteps ==
    ASSUME TypeOK, [Next]_vars
    PROVE  SessionGrows
<1>1. session \in SessionType
  BY DEF TypeOK
<1>2. CASE ListenStart \/ Abort
  BY <1>1, <1>2, SessionMoves DEF ListenStart, Abort
<1>3. CASE Reader \/ CloseDrops \/ Closer \/ Dispatcher \/ Tick \/ UNCHANGED vars
  BY <1>1, <1>3, SessionMoves
  DEF Reader, ReplaceTurn, DispatchListenStartMotion, NoListenStartMotion,
      ListeningLED, AbortDrops, AbortLED, CloseDrops, Closer, CloseLED, CloseSession,
      Dispatcher, TakeRequest, CheckTurn, CheckActive, SetLEDGeneration, LEDCheck,
      SendLED, DispatcherStops, LEDStep, Tick, vars, loopVars
<1>4. ASSUME NEW g \in Gens,
             FinalHeard(g) \/ Express(g) \/ TailExpires(g) \/ Pump(g) \/ PostSpeakingIdle(g)
      PROVE  SessionGrows
  BY <1>1, <1>4, SessionMoves
  DEF FinalHeard, Express, TailExpires, Pump, PumpEnds, ThinkingLED, SpeakingLED,
      BeginSpeaking, CompleteSpeaking, SilentReply, ClearRuntime, TailCompletes,
      TailLED, PostSpeakingIdle, loopVars
<1>5. ASSUME NEW b \in Bodies, Body(b)
      PROVE  SessionGrows
  BY <1>1, <1>5, SessionMoves
  DEF Body, PlanSets, ScheduleCheck, ScheduleMotion, DispatchCheck, SendMotion,
      PlanLEDCheck, PlanLED, BodyStep, loopVars
<1>6. QED
  BY <1>2, <1>3, <1>4, <1>5 DEF Next

-----------------------------------------------------------------------------
\* What the helpers do.
LEMMA EnqueueEffect ==
    ASSUME TypeOK, NEW g \in Gens, NEW l \in Lifecycles, Enqueue(g, l)
    PROVE  /\ UNCHANGED <<led, lit>>
           /\ lost' \in BOOLEAN /\ (lost => lost')
           /\ queue' \in Seq(Request) /\ Len(queue') <= QueueSize
           /\ \/ queue' = queue /\ (setup = "motions" \/ lost')
              \/ /\ setup # "motions"
                 /\ queue' = Append(queue, [gen |-> g, lifecycle |-> l])
           /\ setup # "motions" /\ l = "listening" /\ Overtaken(g) => lost'
<1>1. queue \in Seq(Request) /\ Len(queue) \in Nat /\ Len(queue) <= QueueSize
  BY DEF TypeOK
<1>2. [gen |-> g, lifecycle |-> l] \in Request
  BY DEF Request
<1>3. UNCHANGED <<led, lit>>
  BY DEF Enqueue
<1>4. CASE setup = "motions"
  BY <1>1, <1>3, <1>4 DEF Enqueue, TypeOK
<1>5. CASE setup # "motions"
  <2> DEFINE full == Len(queue) >= QueueSize
  <2>1. /\ queue' = IF full THEN queue ELSE Append(queue, [gen |-> g, lifecycle |-> l])
        /\ lost' = (lost \/ full \/ (l = "listening" /\ Overtaken(g)))
    BY <1>5 DEF Enqueue
  <2>2. /\ lost' \in BOOLEAN /\ (lost => lost') /\ (full => lost')
        /\ l = "listening" /\ Overtaken(g) => lost'
    BY <2>1, Zenon
  <2>3. queue' \in Seq(Request) /\ Len(queue') <= QueueSize
    <3>1. CASE full
      BY <1>1, <2>1, <3>1
    <3>2. CASE ~full
      <4>1. queue' = Append(queue, [gen |-> g, lifecycle |-> l])
        BY <2>1, <3>2
      <4>2. QED
        BY <1>1, <1>2, <3>2, <4>1, Bounds
    <3>3. QED
      BY <3>1, <3>2
  <2>4. \/ queue' = queue /\ lost'
        \/ queue' = Append(queue, [gen |-> g, lifecycle |-> l])
    BY <2>1, <2>2
  <2>5. QED
    BY <1>3, <1>5, <2>2, <2>3, <2>4
<1>6. QED
  BY <1>4, <1>5

LEMMA SpawnEffect ==
    ASSUME TypeOK, NEW g \in Gens, NEW plan \in BOOLEAN, Spawn(g, plan)
    PROVE  /\ bodies' \in [Bodies -> [pc : BodyPCs, gen : 0 .. MaxGen, plan : BOOLEAN,
                                      born : BOOLEAN]]
           /\ \E b \in Bodies :
                 /\ bodies[b].pc = "off"
                 /\ bodies'[b].pc \in {"set", "check"} /\ bodies'[b].gen = g
                 /\ bodies'[b].born <=> IsCurrent(g)
                 /\ \A c \in Bodies : c # b => bodies'[c] = bodies[c]
<1>1. PICK b \in Bodies :
        /\ bodies[b].pc = "off"
        /\ bodies' = [bodies EXCEPT ![b] =
              [pc |-> IF plan THEN "set" ELSE "check", gen |-> g, plan |-> plan,
               born |-> IsCurrent(g)]]
  BY DEF Spawn
<1>2. IsCurrent(g) \in BOOLEAN /\ g \in 0 .. MaxGen
  BY Bounds DEF IsCurrent, AcceptsGeneration
<1>3. /\ bodies'[b] = [pc |-> IF plan THEN "set" ELSE "check", gen |-> g,
                       plan |-> plan, born |-> IsCurrent(g)]
      /\ \A c \in Bodies : c # b => bodies'[c] = bodies[c]
  BY <1>1 DEF TypeOK
<1>4. bodies'[b] \in [pc : BodyPCs, gen : 0 .. MaxGen, plan : BOOLEAN, born : BOOLEAN]
  BY <1>2, <1>3 DEF BodyPCs
<1>5. bodies' \in [Bodies -> [pc : BodyPCs, gen : 0 .. MaxGen, plan : BOOLEAN,
                              born : BOOLEAN]]
  BY <1>1, <1>3, <1>4 DEF TypeOK
<1>6. /\ bodies'[b].pc \in {"set", "check"} /\ bodies'[b].gen = g
      /\ bodies'[b].born <=> IsCurrent(g)
  BY <1>3
<1>7. QED
  BY <1>1, <1>3, <1>5, <1>6

-----------------------------------------------------------------------------
\* Types.
LEMMA SetGenerationTypes ==
    ASSUME TypeOK, NEW g \in 0 .. MaxGen, SetGeneration(g)
    PROVE  current' \in 0 .. MaxGen
  BY DEF SetGeneration, TypeOK

\* The read loop holds a generation whenever it is not idle.
LEMMA ReaderGen ==
    ASSUME TypeOK, NothingIsAhead, reader.pc # "idle"
    PROVE  reader.gen \in Gens /\ reader.gen <= session.gen
<1>1. reader.gen \in 1 .. session.gen /\ session.gen \in Gens
  BY DEF TypeOK, NothingIsAhead
<1>2. QED
  BY <1>1, Bounds

LEMMA ReaderTypes ==
    ASSUME TypeOK, NothingIsAhead, session' \in SessionType,
           ListenStart \/ Abort \/ Reader
    PROVE  TypeOK'
<1> USE DEF ReaderAt, ReaderGoes, ReaderPCs
<1>1. NothingIsAhead /\ session.gen \in Nat /\ 0 \in 0 .. MaxGen
  BY Bounds DEF TypeOK
<1>2. CASE ListenStart \/ Abort
  <2>1. session'.gen \in Gens /\ session'.gen \in 0 .. MaxGen
    <3>1. session'.gen \in Nat /\ session'.gen <= MaxGen /\ session.gen >= 1
      BY <1>2, Bounds DEF ListenStart, Abort, SessionType, TypeOK
    <3>2. session.gen <= session'.gen
      BY <1>2, SessionSteps DEF Next, SessionGrows
    <3>3. QED
      BY <1>1, <3>1, <3>2, Bounds
  <2>2. QED
    BY SMTT(30), <1>2, <2>1
    DEF ListenStart, Abort, TypeOK, gateVars, ledVars
<1>3. CASE ReplaceTurn
  BY <1>3, ReaderGen DEF ReplaceTurn, TypeOK, gateVars, ledVars, PumpPCs
<1>4. CASE DispatchListenStartMotion
  BY <1>4, ReaderGen, SpawnEffect, SetGenerationTypes
  DEF DispatchListenStartMotion, TypeOK, loopVars, ledVars
<1>5. CASE NoListenStartMotion
  BY <1>5 DEF NoListenStartMotion, TypeOK, loopVars, gateVars, ledVars
<1>6. CASE ListeningLED
  BY <1>1, <1>6, ReaderGen, EnqueueEffect
  DEF ListeningLED, TypeOK, loopVars, gateVars, Lifecycles
<1>7. CASE AbortDrops
  BY <1>7 DEF AbortDrops, DropActive, TypeOK, gateVars, ledVars
<1>8. CASE AbortLED
  BY <1>1, <1>8, ReaderGen, EnqueueEffect
  DEF AbortLED, TypeOK, loopVars, gateVars, Lifecycles
<1>9. QED
  BY <1>2, <1>3, <1>4, <1>5, <1>6, <1>7, <1>8 DEF Reader

PumpEvent(g) ==
    FinalHeard(g) \/ Express(g) \/ TailExpires(g) \/ Pump(g) \/ PostSpeakingIdle(g)

LEMMA PumpTypes ==
    ASSUME TypeOK, NEW g \in Gens, session' \in SessionType,
           session'.gen = session.gen, PumpEvent(g)
    PROVE  TypeOK'
<1> USE DEF PumpGoes, PumpPCs
<1>1. CASE FinalHeard(g)
  BY <1>1 DEF FinalHeard, TypeOK, gateVars, ledVars
<1>2. CASE Express(g)
  BY <1>2, SpawnEffect DEF Express, TypeOK, loopVars, threadVars, gateVars, ledVars
<1>3. CASE TailExpires(g)
  BY <1>3 DEF TailExpires, DropActive, TypeOK, gateVars, ledVars
<1>4. CASE PumpEnds(g)
  BY <1>4 DEF PumpEnds, TypeOK, loopVars, gateVars, ledVars
<1>5. CASE ThinkingLED(g) \/ SpeakingLED(g) \/ SilentReply(g) \/ TailLED(g)
  <2>1. \E l \in Lifecycles : Enqueue(g, l)
    BY <1>5 DEF ThinkingLED, SpeakingLED, SilentReply, TailLED, Lifecycles
  <2>2. /\ UNCHANGED <<led, lit>> /\ lost' \in BOOLEAN
        /\ queue' \in Seq(Request) /\ Len(queue') <= QueueSize
    BY <2>1, EnqueueEffect
  <2>3. pump' \in [Gens -> PumpPCs]
    BY ZenonT(40), <1>5 DEF ThinkingLED, SpeakingLED, SilentReply, TailLED, TypeOK
  <2>4. UNCHANGED <<loopVars, reader, timer, closer, gateVars, now, bodies, motions, late>>
    BY <1>5 DEF ThinkingLED, SpeakingLED, SilentReply, TailLED
  <2>5. QED
    BY <2>2, <2>3, <2>4 DEF TypeOK, loopVars, gateVars
<1>6. CASE BeginSpeaking(g)
  BY <1>6 DEF BeginSpeaking, TypeOK, gateVars, ledVars
<1>7. CASE CompleteSpeaking(g)
  BY <1>7 DEF CompleteSpeaking, TypeOK, gateVars, ledVars
<1>8. CASE ClearRuntime(g)
  BY <1>8 DEF ClearRuntime, TypeOK, gateVars, ledVars
<1>9. CASE TailCompletes(g)
  BY <1>9 DEF TailCompletes, TypeOK, gateVars, ledVars
<1>10. CASE PostSpeakingIdle(g)
  <2>1. /\ led' = led /\ lit' = lit /\ lost' \in BOOLEAN
        /\ queue' \in Seq(Request) /\ Len(queue') <= QueueSize
    BY <1>10, EnqueueEffect DEF PostSpeakingIdle, Lifecycles, ledVars, TypeOK
  <2>2. QED
    BY <1>10, <2>1 DEF PostSpeakingIdle, TypeOK, loopVars, gateVars
<1>11. QED
  BY <1>1, <1>2, <1>3, <1>4, <1>5, <1>6, <1>7, <1>8, <1>9, <1>10
  DEF PumpEvent, Pump

LEMMA CloserTypes ==
    ASSUME TypeOK, session' \in SessionType, CloseDrops \/ Closer \/ Tick
    PROVE  TypeOK'
<1> USE DEF CloserGoes
<1>1. CASE CloseDrops
  BY <1>1 DEF CloseDrops, DropActive, TypeOK, gateVars, ledVars
<1>2. CASE CloseLED
  BY <1>2 DEF CloseLED, TypeOK, loopVars, gateVars, Lifecycles
<1>3. CASE CloseSession
  <2>1. session'.gen = session.gen
    BY <1>3 DEF CloseSession, Closed, In
  <2>2. QED
    BY <1>3, <2>1 DEF CloseSession, TypeOK, gateVars, ledVars
<1>4. CASE Tick
  BY <1>4 DEF Tick, TypeOK, loopVars, threadVars, gateVars, ledVars
<1>5. QED
  BY <1>1, <1>2, <1>3, <1>4 DEF Closer

LEMMA DispatcherTypes ==
    ASSUME TypeOK, Dispatcher
    PROVE  TypeOK'
<1> USE DEF LEDGoes, LEDPCs
<1>1. UNCHANGED <<loopVars, threadVars, count, last, coalesced, now, bodies, lost,
                  motions, late>>
  BY DEF Dispatcher, TakeRequest, CheckTurn, CheckActive, SetLEDGeneration, LEDCheck,
         SendLED, DispatcherStops, LEDStep, gateVars
<1>2. /\ current' \in 0 .. MaxGen /\ lit' \in Lifecycles
      /\ queue' \in Seq(Request) /\ Len(queue') <= QueueSize
      /\ led' \in [pc : LEDPCs, gen : 0 .. MaxGen, lifecycle : Lifecycles]
  <2>1. CASE TakeRequest
    <3>1. queue \in Seq(Request) /\ queue # <<>> /\ Len(queue) <= QueueSize
      BY <2>1 DEF TakeRequest, TypeOK
    <3>2. /\ Head(queue) \in Request /\ Tail(queue) \in Seq(Request)
          /\ Len(Tail(queue)) <= QueueSize
      BY <3>1, Bounds
    <3>3. /\ Head(queue).gen \in 0 .. MaxGen /\ Head(queue).lifecycle \in Lifecycles
      BY <3>2, Bounds DEF Request
    <3>4. QED
      BY <2>1, <3>2, <3>3 DEF TakeRequest, TypeOK
  <2>2. CASE CheckTurn \/ CheckActive \/ LEDCheck \/ DispatcherStops
    <3>1. UNCHANGED <<current, queue, lit>>
      BY <2>2
      DEF CheckTurn, CheckActive, LEDCheck, DispatcherStops, gateVars
    <3>2. \E pc \in LEDPCs : led' = [led EXCEPT !.pc = pc]
      BY <2>2 DEF CheckTurn, CheckActive, LEDCheck, DispatcherStops
    <3>3. QED
      BY <3>1, <3>2 DEF TypeOK
  <2>3. CASE SetLEDGeneration
    BY <2>3 DEF SetLEDGeneration, SetGeneration, TypeOK
  <2>4. CASE SendLED
    BY <2>4 DEF SendLED, TypeOK
  <2>5. QED
    BY <2>1, <2>2, <2>3, <2>4 DEF Dispatcher
<1>3. QED
  BY <1>1, <1>2 DEF TypeOK, loopVars, threadVars

LEMMA BodyGen ==
    ASSUME TypeOK, NothingIsAhead, NEW b \in Bodies, bodies[b].pc # "off"
    PROVE  /\ bodies[b].gen \in Gens /\ bodies[b].gen <= session.gen
           /\ bodies[b].gen \in 0 .. MaxGen
<1>1. bodies[b].gen \in 1 .. session.gen /\ session.gen \in Gens
  BY DEF TypeOK, NothingIsAhead
<1>2. QED
  BY <1>1, Bounds

\* A goroutine only moves on; what it may do where.
BodyMoves(b) ==
    /\ bodies[b].pc # "off"
    /\ \E pc \in BodyPCs \ {"off"} : bodies' = [bodies EXCEPT ![b].pc = pc]
    /\ bodies'[b].pc = "schedule" =>
          bodies[b].pc = "check" /\ IsCurrent(bodies[b].gen)
    /\ bodies'[b].pc = "ledsend" =>
          bodies[b].pc = "led" /\ IsCurrent(bodies[b].gen)
    /\ bodies'[b].pc = "recheck" => bodies[b].pc = "schedule"
    /\ bodies'[b].pc = "send" => bodies[b].pc = "recheck"
    /\ bodies'[b].pc \notin {"off", "set"}
    /\ late' # late => bodies[b].pc \in {"send", "ledsend"} /\ ~bodies[b].born
    /\ UNCHANGED <<loopVars, threadVars, now, ledVars>>

LEMMA BodySteps ==
    ASSUME TypeOK, NEW b \in Bodies, Body(b)
    PROVE  BodyMoves(b)
<1> USE DEF BodyMoves, BodyStep, BodyGoes, AfterMotion, BodyPCs
<1>1. CASE PlanSets(b)
  BY <1>1 DEF PlanSets, TypeOK
<1>2. CASE ScheduleCheck(b)
  BY <1>2 DEF ScheduleCheck, IsGenerationCurrent, IsCurrent, TypeOK
<1>3. CASE ScheduleMotion(b)
  <2>1. PICK pc \in {"led", "done", "recheck"} : bodies' = [bodies EXCEPT ![b].pc = pc]
    BY <1>3 DEF ScheduleMotion
  <2>2. bodies[b].pc = "schedule" /\ late' = late
        /\ UNCHANGED <<loopVars, threadVars, now, ledVars>>
    BY <1>3 DEF ScheduleMotion
  <2>3. bodies'[b].pc = pc /\ pc \in BodyPCs \ {"off"}
    BY <2>1 DEF TypeOK
  <2>4. QED
    BY <2>1, <2>2, <2>3
<1>4. CASE DispatchCheck(b)
  BY <1>4 DEF DispatchCheck, TypeOK
<1>5. CASE SendMotion(b)
  BY <1>5 DEF SendMotion, Sends, TypeOK
<1>6. CASE PlanLEDCheck(b)
  BY <1>6 DEF PlanLEDCheck, MayLight, IsGenerationCurrent, IsCurrent, TypeOK
<1>7. CASE PlanLED(b)
  BY <1>7 DEF PlanLED, Sends, TypeOK
<1>8. QED
  BY <1>1, <1>2, <1>3, <1>4, <1>5, <1>6, <1>7 DEF Body

LEMMA BodyKeeps ==
    ASSUME TypeOK, NEW b \in Bodies, BodyMoves(b)
    PROVE  /\ \A c \in Bodies : c # b => bodies'[c] = bodies[c]
           /\ bodies'[b].gen = bodies[b].gen /\ bodies'[b].born = bodies[b].born
           /\ bodies'[b].pc \in BodyPCs \ {"off"}
<1>1. PICK pc \in BodyPCs \ {"off"} : bodies' = [bodies EXCEPT ![b].pc = pc]
  BY DEF BodyMoves
<1>2. bodies \in [Bodies -> [pc : BodyPCs, gen : 0 .. MaxGen, plan : BOOLEAN,
                            born : BOOLEAN]]
  BY DEF TypeOK
<1>3. bodies'[b] = [bodies[b] EXCEPT !.pc = pc]
      /\ \A c \in Bodies : c # b => bodies'[c] = bodies[c]
  BY <1>1, <1>2
<1>4. QED
  BY <1>2, <1>3

\* What its steps do to the gate and to the motions.
GateMoves(b) ==
    LET g == bodies[b].gen IN
    /\ current' \in {current, g} /\ current' <= session.gen
    /\ last' \in {last, now}
    /\ coalesced' \subseteq coalesced \cup {g}
    /\ IF bodies'[b].pc = "recheck"
       THEN count[g] < MaxPerTurn /\ count' = [count EXCEPT ![g] = @ + 1]
       ELSE count' = count
    /\ IF bodies[b].pc = "send"
       THEN motions' = [motions EXCEPT ![g] = @ + 1]
       ELSE motions' = motions

LEMMA GateSteps ==
    ASSUME TypeOK, NothingIsAhead, NEW b \in Bodies, Body(b)
    PROVE  GateMoves(b)
<1> DEFINE g == bodies[b].gen
<1>1. bodies[b].pc # "off"
  BY BodySteps DEF BodyMoves
<1>2. /\ g \in Gens /\ g <= session.gen /\ g \in Nat
      /\ count[g] \in Nat /\ current \in Nat /\ current <= session.gen
  <2>1. g \in Gens /\ g <= session.gen
    BY <1>1, BodyGen
  <2>2. g \in Nat /\ MaxGen \in Nat /\ MaxPerTurn \in Nat
    BY <2>1, Bounds
  <2>3. count \in [Gens -> 0 .. MaxPerTurn]
    BY DEF TypeOK
  <2>4. count[g] \in Nat
    BY <2>1, <2>2, <2>3
  <2>5. current \in 0 .. MaxGen /\ current <= session.gen
    BY DEF TypeOK, NothingIsAhead
  <2>6. QED
    BY <2>1, <2>2, <2>4, <2>5
<1> USE <1>2 DEF GateMoves, BodyStep, BodyGoes, AfterMotion, gateVars
<1>3. CASE PlanSets(b)
  BY <1>3 DEF PlanSets, SetGeneration, TypeOK
<1>4. CASE ScheduleMotion(b)
  <2>1. CASE current = 0 \/ g < current \/ AtLimit(g)
    BY <1>4, <2>1 DEF ScheduleMotion, TypeOK
  <2>2. CASE ~(current = 0 \/ g < current \/ AtLimit(g))
    <3>1. count[g] < MaxPerTurn
      BY <2>2, Bounds DEF AtLimit
    <3>2. CASE TooEarly
      BY <1>4, <2>2, <3>2 DEF ScheduleMotion, Counts, TypeOK
    <3>3. CASE ~TooEarly
      BY SMTT(30), <1>4, <2>2, <3>1, <3>3 DEF ScheduleMotion, Counts, TypeOK
    <3>4. QED
      BY <3>2, <3>3
  <2>3. QED
    BY <2>1, <2>2
<1>5. CASE ScheduleCheck(b) \/ DispatchCheck(b) \/ PlanLEDCheck(b) \/ PlanLED(b)
  BY SMTT(30), <1>5 DEF ScheduleCheck, DispatchCheck, PlanLEDCheck, PlanLED, TypeOK
<1>6. CASE SendMotion(b)
  BY <1>6 DEF SendMotion, TypeOK
<1>7. QED
  BY <1>3, <1>4, <1>5, <1>6 DEF Body

LEMMA BodyTypes ==
    ASSUME TypeOK, NothingIsAhead, NEW b \in Bodies, Body(b)
    PROVE  TypeOK'
<1>1. BodyMoves(b) /\ GateMoves(b)
  BY BodySteps, GateSteps
<1>2. bodies[b].gen \in Gens /\ bodies[b].gen \in 0 .. MaxGen
  BY <1>1, BodyGen DEF BodyMoves
<1>3. /\ current' \in 0 .. MaxGen /\ coalesced' \subseteq Gens
  BY <1>1, <1>2 DEF GateMoves, TypeOK
<1>4. last' \in 0 .. now
  BY <1>1 DEF GateMoves, TypeOK
<1>5. count' \in [Gens -> 0 .. MaxPerTurn]
  <2>1. count \in [Gens -> 0 .. MaxPerTurn] /\ count[bodies[b].gen] \in 0 .. MaxPerTurn
    BY <1>2 DEF TypeOK
  <2>2. count[bodies[b].gen] < MaxPerTurn
          => count[bodies[b].gen] + 1 \in 0 .. MaxPerTurn
    BY <2>1, Bounds
  <2>3. QED
    BY <1>1, <2>1, <2>2 DEF GateMoves
<1>6. motions' \in [Gens -> Nat]
  <2>1. motions \in [Gens -> Nat] /\ motions[bodies[b].gen] + 1 \in Nat
    BY <1>2 DEF TypeOK
  <2>2. QED
    BY <1>1, <2>1 DEF GateMoves
<1>7. bodies' \in [Bodies -> [pc : BodyPCs, gen : 0 .. MaxGen, plan : BOOLEAN,
                              born : BOOLEAN]]
  <2>1. PICK pc \in BodyPCs : bodies' = [bodies EXCEPT ![b].pc = pc]
    BY <1>1 DEF BodyMoves
  <2>2. QED
    BY ZenonT(40), <2>1 DEF TypeOK
<1>8. late' \in BOOLEAN
  <2>1. CASE late' = late
    BY <2>1 DEF TypeOK
  <2>2. CASE late' # late
    BY <2>2 DEF Body, PlanSets, ScheduleCheck, ScheduleMotion, DispatchCheck,
                SendMotion, PlanLEDCheck, PlanLED, Sends
  <2>3. QED
    BY <2>1, <2>2
<1>9. UNCHANGED <<loopVars, threadVars, now, ledVars>>
  BY <1>1 DEF BodyMoves
<1>10. QED
  BY <1>3, <1>4, <1>5, <1>6, <1>7, <1>8, <1>9
  DEF TypeOK, loopVars, threadVars, ledVars

\* No step of a pump gives the session another generation.
LEMMA PumpGen ==
    ASSUME TypeOK, NEW g \in Gens, PumpEvent(g)
    PROVE  session'.gen = session.gen
<1>1. CASE FinalHeard(g) \/ BeginSpeaking(g) \/ CompleteSpeaking(g) \/ TailCompletes(g)
  BY <1>1 DEF FinalHeard, BeginSpeaking, CompleteSpeaking, TailCompletes,
              ListeningStopped, SpeakingBegun, SpeakingCompleted, NoSpeechCompleted, In
<1>2. CASE \/ Express(g) \/ TailExpires(g) \/ PumpEnds(g) \/ ThinkingLED(g)
           \/ SpeakingLED(g) \/ SilentReply(g) \/ ClearRuntime(g) \/ TailLED(g)
           \/ PostSpeakingIdle(g)
  BY <1>2 DEF Express, TailExpires, PumpEnds, ThinkingLED, SpeakingLED, SilentReply,
              ClearRuntime, TailLED, PostSpeakingIdle, loopVars
<1>3. QED
  BY <1>1, <1>2 DEF PumpEvent, Pump

\* The goroutines, one by one.
LEMMA NextCases ==
    ASSUME [Next]_vars
    PROVE  \/ ListenStart \/ Abort \/ Reader
           \/ CloseDrops \/ Closer \/ Tick
           \/ Dispatcher
           \/ \E g \in Gens : PumpEvent(g)
           \/ \E b \in Bodies : Body(b)
           \/ UNCHANGED vars
  BY DEF Next, PumpEvent

LEMMA StepTypes ==
    ASSUME TypeOK, NothingIsAhead, [Next]_vars
    PROVE  TypeOK'
<1>1. session' \in SessionType
  BY SessionSteps DEF SessionGrows
<1>2. CASE UNCHANGED vars
  BY <1>2 DEF TypeOK, vars, loopVars, threadVars, gateVars, ledVars
<1>3. QED
  BY <1>1, <1>2, NextCases, ReaderTypes, PumpTypes, PumpGen, CloserTypes,
     DispatcherTypes, BodyTypes

-----------------------------------------------------------------------------
\* Nobody is ahead of the session.
LEMMA QueueGrows ==
    ASSUME TypeOK, NEW g \in Gens, NEW l \in Lifecycles, Enqueue(g, l),
           NEW i \in 1 .. Len(queue')
    PROVE  \/ i \in 1 .. Len(queue) /\ queue'[i] = queue[i]
           \/ /\ i = Len(queue) + 1 /\ i = Len(queue')
              /\ queue'[i].gen = g /\ queue'[i].lifecycle = l
<1>1. queue \in Seq(Request) /\ [gen |-> g, lifecycle |-> l] \in Request
  BY DEF TypeOK, Request
<1>2. CASE queue' = queue
  BY <1>2
<1>3. CASE queue' = Append(queue, [gen |-> g, lifecycle |-> l])
  BY <1>1, <1>3
<1>4. QED
  BY <1>2, <1>3, EnqueueEffect

LEMMA QueueShrinks ==
    ASSUME TypeOK, queue # <<>>, queue' = Tail(queue)
    PROVE  /\ \A i \in 1 .. Len(queue') : i + 1 \in 1 .. Len(queue) /\ queue'[i] = queue[i + 1]
           /\ \A i \in 1 .. Len(queue) : i # 1 => i - 1 \in 1 .. Len(queue')
           /\ 1 \in 1 .. Len(queue) /\ Head(queue) = queue[1]
<1>1. queue \in Seq(Request)
  BY DEF TypeOK
<1>2. QED
  BY <1>1

LEMMA QueueTypes ==
    ASSUME TypeOK, NEW i \in 1 .. Len(queue)
    PROVE  queue[i] \in Request /\ queue[i].gen \in Nat /\ queue[i].gen >= 1
<1>1. queue \in Seq(Request)
  BY DEF TypeOK
<1>2. queue[i] \in Request
  BY <1>1
<1>3. QED
  BY <1>2, Bounds DEF Request

LEMMA SpawnAhead ==
    ASSUME TypeOK, NEW g \in Gens, g \in 1 .. session'.gen, NEW plan \in BOOLEAN,
           Spawn(g, plan), NEW b \in Bodies, bodies'[b].pc # "off"
    PROVE  \/ bodies[b].pc # "off" /\ bodies'[b].gen = bodies[b].gen
           \/ bodies'[b].gen \in 1 .. session'.gen
<1>1. PICK c \in Bodies :
        bodies'[c].gen = g /\ \A d \in Bodies : d # c => bodies'[d] = bodies[d]
  BY SpawnEffect
<1>2. QED
  BY <1>1

\* Who else a step starts or serves is not ahead either.
LEMMA AheadKept ==
    ASSUME TypeOK, TypeOK', NothingIsAhead, SessionGrows,
           reader'.pc # "idle" => reader' = reader \/ reader'.gen \in 1 .. session'.gen,
           \A g \in Gens : pump'[g] # "none" => pump[g] # "none" \/ g <= session'.gen,
           current' <= session'.gen \/ current' = current,
           \A b \in Bodies : bodies'[b].pc # "off" =>
               \/ bodies[b].pc # "off" /\ bodies'[b].gen = bodies[b].gen
               \/ bodies'[b].gen \in 1 .. session'.gen,
           led'.pc \notin {"take", "off"} =>
               \/ led.pc \notin {"take", "off"} /\ led'.gen = led.gen
               \/ led'.gen \in 1 .. session'.gen,
           \A i \in 1 .. Len(queue') :
               \/ queue'[i].gen <= session'.gen
               \/ \E j \in 1 .. Len(queue) : queue'[i] = queue[j]
    PROVE  NothingIsAhead'
<1>1. session.gen \in Nat /\ session'.gen \in Nat /\ session.gen <= session'.gen
  BY Bounds DEF TypeOK, SessionGrows
<1>2. reader'.pc # "idle" => reader'.gen \in 1 .. session'.gen
  BY <1>1 DEF NothingIsAhead
<1>3. \A g \in Gens : pump'[g] # "none" => g <= session'.gen
  BY <1>1, Bounds DEF NothingIsAhead
<1>4. current' <= session'.gen
  BY SMTT(30), <1>1 DEF NothingIsAhead, TypeOK
<1>5. \A b \in Bodies : bodies'[b].pc # "off" => bodies'[b].gen \in 1 .. session'.gen
  BY <1>1 DEF NothingIsAhead
<1>6. led'.pc \notin {"take", "off"} => led'.gen \in 1 .. session'.gen
  BY <1>1 DEF NothingIsAhead
<1>7. \A i \in 1 .. Len(queue') : queue'[i].gen <= session'.gen
  <2>1. \A j \in 1 .. Len(queue) : queue[j].gen \in Nat /\ queue[j].gen <= session.gen
    BY QueueTypes DEF NothingIsAhead
  <2>2. QED
    BY <1>1, <2>1
<1>8. QED
  BY <1>2, <1>3, <1>4, <1>5, <1>6, <1>7 DEF NothingIsAhead

\* The queue and its dispatcher when somebody asks for an LED.
LEMMA EnqueueAhead ==
    ASSUME TypeOK, NEW g \in Gens, g <= session'.gen, NEW l \in Lifecycles,
           Enqueue(g, l) \/ UNCHANGED ledVars
    PROVE  /\ led' = led
           /\ \A i \in 1 .. Len(queue') :
                 \/ queue'[i].gen <= session'.gen
                 \/ \E j \in 1 .. Len(queue) : queue'[i] = queue[j]
<1>1. CASE UNCHANGED ledVars
  BY <1>1 DEF ledVars
<1>2. CASE Enqueue(g, l)
  BY <1>2, QueueGrows, EnqueueEffect
<1>3. QED
  BY <1>1, <1>2

LEMMA ReaderAhead ==
    ASSUME TypeOK, TypeOK', NothingIsAhead, SessionGrows, ListenStart \/ Abort \/ Reader
    PROVE  NothingIsAhead'
<1> USE DEF ReaderAt, ReaderGoes
<1>1. session.gen \in Gens /\ session'.gen \in Gens /\ session.gen <= session'.gen
  BY DEF TypeOK, SessionGrows
<1>2. session.gen \in Nat /\ session'.gen \in Nat /\ session'.gen >= 1
  BY <1>1, Bounds
<1>3. CASE ListenStart \/ Abort
  BY <1>2, <1>3, AheadKept DEF ListenStart, Abort, gateVars, ledVars
<1>4. ASSUME reader.pc # "idle"
      PROVE  /\ reader.gen \in Gens /\ reader.gen <= session'.gen
             /\ reader.gen \in 1 .. session'.gen /\ reader.gen \in 0 .. MaxGen
  BY <1>1, <1>2, <1>4, ReaderGen, Bounds
<1>5. CASE ReplaceTurn
  BY <1>4, <1>5, AheadKept DEF ReplaceTurn, gateVars, ledVars, TypeOK
<1>6. CASE DispatchListenStartMotion
  <2>1. reader.gen \in 1 .. session'.gen /\ reader.gen \in Gens
    BY <1>4, <1>6 DEF DispatchListenStartMotion
  <2>2. \A b \in Bodies : bodies'[b].pc # "off" =>
               \/ bodies[b].pc # "off" /\ bodies'[b].gen = bodies[b].gen
               \/ bodies'[b].gen \in 1 .. session'.gen
    BY <1>6, <2>1, SpawnAhead DEF DispatchListenStartMotion
  <2>3. current' <= session'.gen \/ current' = current
    BY <1>6, <2>1 DEF DispatchListenStartMotion, SetGeneration
  <2>4. QED
    BY <1>6, <2>1, <2>2, <2>3, AheadKept
    DEF DispatchListenStartMotion, loopVars, ledVars
<1>7. CASE NoListenStartMotion \/ AbortDrops
  BY <1>4, <1>7, AheadKept
  DEF NoListenStartMotion, AbortDrops, loopVars, gateVars, ledVars
<1>8. CASE ListeningLED \/ AbortLED
  <2>1. /\ reader.gen \in Gens /\ reader.gen <= session'.gen /\ reader'.pc = "idle"
        /\ UNCHANGED <<loopVars, pump, gateVars, bodies>>
        /\ \E l \in Lifecycles : Enqueue(reader.gen, l)
    BY <1>4, <1>8 DEF ListeningLED, AbortLED, Lifecycles
  <2>2. QED
    BY <2>1, EnqueueAhead, AheadKept DEF loopVars, gateVars
<1>9. QED
  BY <1>3, <1>5, <1>6, <1>7, <1>8 DEF Reader

LEMMA PumpAhead ==
    ASSUME TypeOK, TypeOK', NothingIsAhead, SessionGrows, NEW g \in Gens, PumpEvent(g)
    PROVE  NothingIsAhead'
<1>1. session.gen \in Nat /\ session'.gen \in Nat /\ session.gen <= session'.gen /\ g \in Nat
  BY Bounds DEF TypeOK, SessionGrows
<1>2. UNCHANGED <<reader, gateVars>>
  BY DEF PumpEvent, FinalHeard, Express, TailExpires, Pump, PumpEnds, ThinkingLED,
         SpeakingLED, BeginSpeaking, CompleteSpeaking, SilentReply, ClearRuntime,
         TailCompletes, TailLED, PostSpeakingIdle, threadVars
<1>3. \A h \in Gens : pump'[h] # "none" => pump[h] # "none"
  BY ZenonT(40) DEF PumpEvent, FinalHeard, Express, TailExpires, Pump, PumpEnds, ThinkingLED,
         SpeakingLED, BeginSpeaking, CompleteSpeaking, SilentReply, ClearRuntime,
         TailCompletes, TailLED, PostSpeakingIdle, threadVars, PumpGoes, TypeOK
<1>4. CASE Express(g) \/ TailExpires(g) \/ PumpEnds(g) \/ FinalHeard(g)
           \/ BeginSpeaking(g) \/ CompleteSpeaking(g) \/ ClearRuntime(g)
           \/ TailCompletes(g)
  <2>1. UNCHANGED ledVars
    BY <1>4 DEF Express, TailExpires, PumpEnds, FinalHeard, BeginSpeaking,
                CompleteSpeaking, ClearRuntime, TailCompletes
  <2>2. \A b \in Bodies : bodies'[b].pc # "off" =>
               \/ bodies[b].pc # "off" /\ bodies'[b].gen = bodies[b].gen
               \/ bodies'[b].gen \in 1 .. session'.gen
    <3>1. CASE Express(g)
      <4>1. pump[g] # "none" /\ Spawn(g, TRUE)
        BY <3>1 DEF Express
      <4>2. g \in 1 .. session'.gen
        BY <1>1, <4>1, Bounds DEF NothingIsAhead
      <4>3. QED
        BY <4>1, <4>2, SpawnAhead
    <3>2. CASE ~Express(g)
      BY <1>4, <3>2 DEF TailExpires, PumpEnds, FinalHeard, BeginSpeaking,
                        CompleteSpeaking, ClearRuntime, TailCompletes
    <3>3. QED
      BY <3>1, <3>2
  <2>3. QED
    BY <1>2, <1>3, <2>1, <2>2, AheadKept DEF gateVars, ledVars
<1>5. CASE ThinkingLED(g) \/ SpeakingLED(g) \/ SilentReply(g) \/ TailLED(g)
  <2>1. pump[g] # "none" /\ bodies' = bodies /\ \E l \in Lifecycles : Enqueue(g, l)
    BY <1>5 DEF ThinkingLED, SpeakingLED, SilentReply, TailLED, Lifecycles
  <2>2. g <= session'.gen
    BY <1>1, <2>1 DEF NothingIsAhead
  <2>3. QED
    BY <1>2, <1>3, <2>1, <2>2, EnqueueAhead, AheadKept DEF gateVars
<1>6. CASE PostSpeakingIdle(g)
  <2>1. CASE IsCurrent(g) /\ session.state = "idle"
    <3>1. g <= session'.gen /\ bodies' = bodies /\ Enqueue(g, "idle")
      BY <1>1, <1>6, <2>1 DEF PostSpeakingIdle, IsCurrent, AcceptsGeneration
    <3>2. "idle" \in Lifecycles
      BY DEF Lifecycles
    <3>3. QED
      BY <1>2, <1>3, <3>1, <3>2, EnqueueAhead, AheadKept DEF gateVars
  <2>2. CASE ~(IsCurrent(g) /\ session.state = "idle")
    BY <1>2, <1>3, <1>6, <2>2, AheadKept DEF PostSpeakingIdle, gateVars, ledVars
  <2>3. QED
    BY <2>1, <2>2
<1>7. QED
  BY <1>4, <1>5, <1>6 DEF PumpEvent, Pump

LEMMA DispatcherAhead ==
    ASSUME TypeOK, TypeOK', NothingIsAhead, SessionGrows, Dispatcher
    PROVE  NothingIsAhead'
<1>1. UNCHANGED <<loopVars, threadVars, bodies>>
  BY DEF Dispatcher, TakeRequest, CheckTurn, CheckActive, SetLEDGeneration, LEDCheck,
         SendLED, DispatcherStops, LEDStep
<1>2. session'.gen = session.gen /\ session.gen \in Nat
  BY <1>1, Bounds DEF loopVars, TypeOK
<1>3. CASE TakeRequest
  <2>1. queue # <<>> /\ queue' = Tail(queue) /\ current' = current
        /\ led'.gen = Head(queue).gen
    BY <1>3 DEF TakeRequest
  <2>2. \A i \in 1 .. Len(queue) :
          queue[i].gen \in 1 .. session.gen
    BY <1>2, QueueTypes DEF NothingIsAhead
  <2>3. led'.gen \in 1 .. session'.gen
    BY <1>2, <2>1, <2>2, QueueShrinks
  <2>4. \A i \in 1 .. Len(queue') : \E j \in 1 .. Len(queue) : queue'[i] = queue[j]
    BY <2>1, QueueShrinks
  <2>5. QED
    BY <1>1, <2>1, <2>3, <2>4, AheadKept DEF loopVars, threadVars
<1>4. CASE ~TakeRequest
  <2>1. /\ queue' = queue /\ led'.gen = led.gen
        /\ led'.pc \notin {"take", "off"} => led.pc \notin {"take", "off"}
        /\ \/ current' = current
           \/ current' = led.gen /\ led.pc \notin {"take", "off"}
    BY <1>4 DEF Dispatcher, CheckTurn, CheckActive, SetLEDGeneration, LEDCheck,
         SendLED, DispatcherStops, LEDStep, LEDGoes, SetGeneration, gateVars, TypeOK
  <2>2. current' <= session'.gen \/ current' = current
    BY <1>2, <2>1 DEF NothingIsAhead
  <2>3. QED
    BY <1>1, <2>1, <2>2, AheadKept DEF loopVars, threadVars
<1>5. QED
  BY <1>3, <1>4

LEMMA StepAhead ==
    ASSUME TypeOK, TypeOK', NothingIsAhead, [Next]_vars
    PROVE  NothingIsAhead'
<1>1. SessionGrows
  BY SessionSteps
<1>2. CASE CloseDrops \/ Closer \/ Tick \/ UNCHANGED vars
  BY <1>1, <1>2, AheadKept
  DEF CloseDrops, Closer, CloseLED, CloseSession, Tick, vars, loopVars, threadVars,
      gateVars, ledVars
<1>3. ASSUME NEW b \in Bodies, Body(b)
      PROVE  NothingIsAhead'
  <2>1. BodyMoves(b) /\ GateMoves(b)
    BY <1>3, BodySteps, GateSteps
  <2>2. UNCHANGED <<loopVars, threadVars, ledVars>>
    BY <2>1 DEF BodyMoves
  <2>3. \A c \in Bodies : bodies'[c].pc # "off" =>
            bodies[c].pc # "off" /\ bodies'[c].gen = bodies[c].gen
    BY <2>1, BodyKeeps DEF BodyMoves
  <2>4. current' <= session'.gen
    BY <2>1, <2>2 DEF GateMoves, loopVars
  <2>5. QED
    BY <1>1, <2>2, <2>3, <2>4, AheadKept DEF loopVars, threadVars, ledVars
<1>4. QED
  BY <1>1, <1>2, <1>3, NextCases, ReaderAhead, PumpAhead, DispatcherAhead

-----------------------------------------------------------------------------
\* Who owns the generations.
LEMMA StaleStays ==
    ASSUME TypeOK, SessionGrows, NEW g \in Nat, g <= session.gen, ~IsCurrent(g)
    PROVE  ~IsCurrent(g)'
<1>1. session.gen \in Nat /\ session'.gen \in Nat
  BY Bounds DEF TypeOK, SessionGrows, SessionType
<1>2. QED
  BY <1>1 DEF SessionGrows, IsCurrent, AcceptsGeneration

LEMMA GoneStaysStale ==
    ASSUME TypeOK, NothingIsAhead, SessionGrows, NEW g \in Gens, pump[g] # "none",
           ~IsCurrent(g)
    PROVE  ~IsCurrent(g)'
  BY StaleStays, Bounds DEF NothingIsAhead

LEMMA Dropping ==
    ASSUME TypeOK, TurnsAreOwned, DropActive, UNCHANGED <<session, pump>>
    PROVE  /\ active' \notin cancelled'
           /\ \A g \in Gens :
                 /\ pump[g] = "none" => active' # g /\ g \notin cancelled'
                 /\ active' # g
           /\ \A g : IsCurrent(g)' <=> IsCurrent(g)
<1>1. /\ None \notin Gens /\ cancelled \subseteq Gens
      /\ active' = None /\ cancelled' = cancelled \cup ({active} \ {None})
  BY Bounds DEF TypeOK, DropActive
<1>2. QED
  BY <1>1 DEF TurnsAreOwned, IsCurrent

LEMMA ReaderOwners ==
    ASSUME TypeOK, TypeOK', NothingIsAhead, TurnsAreOwned, SessionGrows,
           ListenStart \/ Abort \/ Reader
    PROVE  TurnsAreOwned'
<1> USE DEF ReaderAt, ReaderGoes
<1>1. /\ session.gen \in Gens /\ session.gen \in Nat /\ session'.gen \in Gens
      /\ session'.gen \in Nat
      /\ None \notin Gens /\ cancelled \subseteq Gens
      /\ active \in Gens \cup {None}
  BY Bounds DEF TypeOK
<1>2. \A g \in Gens : g > session.gen => pump[g] = "none"
  BY <1>1, Bounds DEF NothingIsAhead
<1>3. NextGeneration(session) > session.gen
  <2>1. session.gen >= 1
    BY <1>1, Bounds
  <2>2. QED
    BY <1>1, <2>1 DEF NextGeneration
<1>4. CASE ListenStart
  <2>1. /\ session'.state = "listening" /\ session'.used
        /\ session'.gen = IF NeedsFreshGeneration(session) THEN NextGeneration(session)
                          ELSE session.gen
    BY <1>4 DEF ListenStart, ListeningStarted, At
  <2>2. pump[session'.gen] = "none"
    <3>1. CASE NeedsFreshGeneration(session)
      BY <1>1, <1>2, <1>3, <2>1, <3>1
    <3>2. CASE ~NeedsFreshGeneration(session)
      <4>1. ~session.used
        BY <1>4, <3>2 DEF ListenStart, CanStartListening, NeedsFreshGeneration,
                          TurnsAreOwned
      <4>2. QED
        BY <2>1, <3>2, <4>1 DEF TurnsAreOwned
    <3>3. QED
      BY <3>1, <3>2
  <2>3. UNCHANGED <<active, cancelled, pump>> /\ reader'.gen = session'.gen
        /\ reader'.pc = "replace"
    BY <1>4 DEF ListenStart
  <2>4. \A g \in Gens : pump[g] = "gone" => active # g \/ ~IsCurrent(g)'
    BY GoneStaysStale DEF TurnsAreOwned
  <2>5. QED
    BY <2>1, <2>2, <2>3, <2>4 DEF TurnsAreOwned
<1>5. CASE Abort
  <2>1. /\ session'.state = "interrupted" /\ ~session'.used
        /\ session'.gen = NextGeneration(session)
    BY <1>5 DEF Abort, Interrupted, At
  <2>2. pump[session'.gen] = "none"
    BY <1>1, <1>2, <1>3, <2>1
  <2>3. UNCHANGED <<active, cancelled, pump>> /\ reader'.pc = "drop"
    BY <1>5 DEF Abort
  <2>4. \A g \in Gens : pump[g] = "gone" => active # g \/ ~IsCurrent(g)'
    BY GoneStaysStale DEF TurnsAreOwned
  <2>5. QED
    BY <2>1, <2>2, <2>3, <2>4 DEF TurnsAreOwned, InTurn
<1>6. CASE ReplaceTurn
  <2> DEFINE r == reader.gen
  <2>1. /\ r \in Gens /\ r = session.gen /\ pump[r] = "none" /\ session.used
        /\ session.state \in {"listening", "closed"}
        /\ active # r /\ r \notin cancelled
    BY <1>6, ReaderGen DEF ReplaceTurn, TurnsAreOwned
  <2>2. /\ active' = r /\ cancelled' = cancelled \cup ({active} \ {None})
        /\ reader' = [pc |-> "motion", gen |-> r] /\ session' = session
        /\ pump'[r] = "listen" /\ \A g \in Gens : g # r => pump'[g] = pump[g]
    BY <1>6, <2>1 DEF ReplaceTurn, TypeOK
  <2>3. QED
    BY <1>1, <2>1, <2>2 DEF TurnsAreOwned, IsCurrent
<1>7. CASE DispatchListenStartMotion \/ NoListenStartMotion \/ ListeningLED \/ AbortLED
  <2>1. /\ UNCHANGED <<session, active, cancelled, pump>>
        /\ \/ reader'.pc = "idle"
           \/ reader.pc = "motion" /\ reader'.pc = "led" /\ reader'.gen = reader.gen
    <3>1. CASE DispatchListenStartMotion \/ NoListenStartMotion
      <4>1. reader.pc = "motion" /\ reader' = [pc |-> "led", gen |-> reader.gen]
        BY <3>1 DEF DispatchListenStartMotion, NoListenStartMotion
      <4>2. UNCHANGED <<session, active, cancelled, pump>>
        BY <3>1 DEF DispatchListenStartMotion, NoListenStartMotion, loopVars
      <4>3. QED
        BY <4>1, <4>2
    <3>2. CASE ListeningLED \/ AbortLED
      BY <3>2 DEF ListeningLED, AbortLED, loopVars
    <3>3. QED
      BY <1>7, <3>1, <3>2
  <2>2. QED
    BY <2>1 DEF TurnsAreOwned, IsCurrent
<1>8. CASE AbortDrops
  <2>1. UNCHANGED <<session, pump>> /\ DropActive /\ reader'.pc = "aborted"
    BY <1>8 DEF AbortDrops
  <2>2. QED
    BY <2>1, Dropping DEF TurnsAreOwned
<1>9. QED
  BY <1>4, <1>5, <1>6, <1>7, <1>8 DEF Reader

LEMMA PumpOwners ==
    ASSUME TypeOK, NothingIsAhead, TurnsAreOwned, SessionGrows, NEW g \in Gens,
           PumpEvent(g)
    PROVE  TurnsAreOwned'
<1> USE DEF PumpGoes
<1>1. /\ session.gen \in Gens /\ None \notin Gens /\ cancelled \subseteq Gens
      /\ active \in Gens \cup {None} /\ pump \in [Gens -> PumpPCs]
      /\ session'.gen = session.gen
  BY Bounds, PumpGen DEF TypeOK
<1>2. reader.pc \in {"motion", "led"} => reader.gen \in Gens
  BY ReaderGen
<1>3. CASE Express(g) \/ PostSpeakingIdle(g)
  BY <1>3 DEF Express, PostSpeakingIdle, loopVars, threadVars, TurnsAreOwned, IsCurrent
<1>4. CASE FinalHeard(g)
  <2>1. g = session.gen /\ pump[g] = "listen" /\ session.state = "listening"
    BY <1>4 DEF FinalHeard, Runs, IsCurrent, AcceptsGeneration, CanStopListening
  <2>2. reader.pc # "replace" /\ session.used
    BY <2>1 DEF TurnsAreOwned, InTurn
  <2>3. session'.state = "processing" /\ session'.used
    BY <1>4, <2>2 DEF FinalHeard, ListeningStopped, In
  <2>4. /\ UNCHANGED <<active, cancelled, reader>> /\ pump'[g] = "think"
        /\ \A h \in Gens : h # g => pump'[h] = pump[h]
    BY <1>1, <1>4 DEF FinalHeard
  <2>5. \A h \in Gens : pump[h] = "gone" => active # h \/ ~IsCurrent(h)'
    BY GoneStaysStale DEF TurnsAreOwned
  <2>6. QED
    BY <1>1, <1>2, <2>1, <2>2, <2>3, <2>4, <2>5 DEF TurnsAreOwned
<1>5. CASE TailExpires(g)
  <2>1. /\ active = g /\ active' = None /\ cancelled' = cancelled \cup {g}
        /\ UNCHANGED <<session, reader>> /\ pump[g] = "listen" /\ pump'[g] = "nospeech"
        /\ \A h \in Gens : h # g => pump'[h] = pump[h]
    BY <1>1, <1>5 DEF TailExpires, DropActive
  <2>2. session.state \notin {"idle", "interrupted"} \/ g # session.gen
    BY <2>1 DEF TurnsAreOwned
  <2>3. QED
    BY <1>1, <1>2, <2>1, <2>2 DEF TurnsAreOwned, IsCurrent
<1>6. CASE PumpEnds(g)
  <2>1. /\ UNCHANGED <<session, active, cancelled, reader>>
        /\ pump[g] # "none" /\ pump'[g] = "gone"
        /\ \A h \in Gens : h # g => pump'[h] = pump[h]
        /\ active # g \/ ~IsCurrent(g)
    BY <1>1, <1>6 DEF PumpEnds, Runs, loopVars, TurnsAreOwned
  <2>2. QED
    BY <1>1, <1>2, <2>1 DEF TurnsAreOwned, IsCurrent
<1>7. CASE ThinkingLED(g) \/ SpeakingLED(g) \/ SilentReply(g) \/ TailLED(g)
  <2>1. /\ UNCHANGED <<session, active, cancelled, reader>>
        /\ \A h \in Gens : h # g => pump'[h] = pump[h]
        /\ pump[g] # "none" /\ pump'[g] # "none"
        /\ pump'[g] \notin {"nospeech", "tailled"}
        /\ pump'[g] = "gone" => pump[g] = "tailled"
        /\ pump'[g] \notin {"clear", "gone"} => pump[g] \in {"think", "reply"}
    BY <1>1, <1>7 DEF ThinkingLED, SpeakingLED, SilentReply, TailLED, loopVars
  <2>2. pump'[g] = "gone" => active # g
    BY <2>1 DEF TurnsAreOwned
  <2>3. QED
    BY <1>1, <1>2, <2>1, <2>2 DEF TurnsAreOwned, IsCurrent
<1>8. CASE BeginSpeaking(g) \/ CompleteSpeaking(g)
  <2>1. /\ g = session.gen /\ session.state \in {"processing", "speaking"}
        /\ session'.used = session.used
        /\ session'.state = "speaking" \/ (session'.state = "idle" /\ pump'[g] = "clear")
        /\ UNCHANGED <<active, cancelled, reader>>
        /\ \A h \in Gens : h # g => pump'[h] = pump[h]
        /\ pump[g] # "none" /\ pump'[g] \in {"complete", "clear"}
    BY <1>1, <1>8 DEF BeginSpeaking, CompleteSpeaking, CanBeginSpeaking,
        CanCompleteSpeaking, SpeakingBegun, SpeakingCompleted, In
  <2>2. session.used /\ reader.pc # "replace"
    BY <2>1 DEF TurnsAreOwned, InTurn
  <2>3. \A h \in Gens : pump[h] = "gone" => active # h \/ ~IsCurrent(h)'
    BY GoneStaysStale DEF TurnsAreOwned
  <2>4. QED
    BY <1>1, <1>2, <2>1, <2>2, <2>3 DEF TurnsAreOwned
<1>9. CASE ClearRuntime(g)
  <2>1. /\ UNCHANGED <<session, cancelled, reader>>
        /\ active' = IF active = g THEN None ELSE active
        /\ pump[g] = "clear" /\ pump'[g] = "gone"
        /\ \A h \in Gens : h # g => pump'[h] = pump[h]
    BY <1>1, <1>9 DEF ClearRuntime
  <2>2. QED
    BY <1>1, <1>2, <2>1 DEF TurnsAreOwned, IsCurrent
<1>10. CASE TailCompletes(g)
  <2>1. /\ UNCHANGED <<active, cancelled, reader>> /\ active # g
        /\ pump[g] = "nospeech" /\ pump'[g] \in {"tailled", "gone"}
        /\ \A h \in Gens : h # g => pump'[h] = pump[h]
    BY <1>1, <1>10 DEF TailCompletes, TurnsAreOwned
  <2>2. CASE session' = session
    BY <1>1, <1>2, <2>1, <2>2 DEF TurnsAreOwned, IsCurrent
  <2>3. CASE session' # session
    <3>1. g = session.gen /\ session.state = "listening" /\ session'.state = "idle"
          /\ session'.used = session.used
      BY <1>10, <2>3 DEF TailCompletes, CanCompleteNoSpeech, NoSpeechCompleted, In
    <3>2. reader.pc # "replace" /\ session.used
      BY <2>1, <3>1 DEF TurnsAreOwned, InTurn
    <3>3. \A h \in Gens : pump[h] = "gone" => active # h \/ ~IsCurrent(h)'
      BY GoneStaysStale DEF TurnsAreOwned
    <3>4. QED
      BY <1>1, <1>2, <2>1, <3>1, <3>2, <3>3 DEF TurnsAreOwned, InTurn
  <2>4. QED
    BY <2>2, <2>3
<1>11. QED
  BY <1>3, <1>4, <1>5, <1>6, <1>7, <1>8, <1>9, <1>10 DEF PumpEvent, Pump

LEMMA StepOwners ==
    ASSUME TypeOK, TypeOK', NothingIsAhead, TurnsAreOwned, [Next]_vars
    PROVE  TurnsAreOwned'
<1>1. SessionGrows
  BY SessionSteps
<1>2. CASE UNCHANGED <<session, active, cancelled, reader, pump>>
  BY <1>2 DEF TurnsAreOwned, IsCurrent
<1>3. CASE CloseLED \/ Tick \/ Dispatcher \/ UNCHANGED vars
           \/ \E b \in Bodies : Body(b)
  <2>1. ASSUME NEW b \in Bodies, Body(b)
        PROVE  UNCHANGED <<session, active, cancelled, reader, pump>>
    BY <2>1, BodySteps DEF BodyMoves, loopVars, threadVars
  <2>2. CASE Dispatcher
    BY <1>2, <2>2
    DEF Dispatcher, TakeRequest, CheckTurn, CheckActive, SetLEDGeneration,
        LEDCheck, SendLED, DispatcherStops, LEDStep, loopVars, threadVars
  <2>3. CASE CloseLED \/ Tick \/ UNCHANGED vars
    BY <1>2, <2>3 DEF CloseLED, Tick, vars, loopVars, threadVars
  <2>4. QED
    BY <1>2, <1>3, <2>1, <2>2, <2>3
<1>4. CASE CloseDrops
  <2>1. UNCHANGED <<session, pump, reader>> /\ DropActive
    BY <1>4 DEF CloseDrops
  <2>2. QED
    BY <2>1, Dropping DEF TurnsAreOwned
<1>5. CASE CloseSession
  <2>1. session'.state = "closed" /\ session'.used = session.used
        /\ session'.gen = session.gen
    BY <1>5 DEF CloseSession, Closed, In
  <2>2. UNCHANGED <<active, cancelled, reader, pump>>
    BY <1>5 DEF CloseSession
  <2>3. QED
    BY <2>1, <2>2 DEF TurnsAreOwned, IsCurrent, AcceptsGeneration, InTurn
<1>6. QED
  BY <1>1, <1>3, <1>4, <1>5, NextCases, ReaderOwners, PumpOwners DEF Closer

-----------------------------------------------------------------------------
\* Who is born too late.  Apart from its own steps a goroutine is only started.
BodiesKept ==
    \/ bodies' = bodies
    \/ /\ session' = session
       /\ \E b \in Bodies :
             /\ bodies[b].pc = "off" /\ bodies'[b].pc \in {"set", "check"}
             /\ bodies'[b].gen \in Gens /\ bodies'[b].gen <= session.gen
             /\ bodies'[b].born <=> IsCurrent(bodies'[b].gen)
             /\ \A c \in Bodies : c # b => bodies'[c] = bodies[c]

LEMMA OthersKeep ==
    ASSUME TypeOK, NothingIsAhead, [Next]_vars, ~\E b \in Bodies : Body(b)
    PROVE  BodiesKept /\ UNCHANGED <<motions, count, late>>
<1> USE DEF BodiesKept
<1>1. ASSUME NEW g \in Gens, NEW plan \in BOOLEAN, Spawn(g, plan), session' = session,
             g <= session.gen
      PROVE  BodiesKept
  <2>1. PICK b \in Bodies :
          /\ bodies[b].pc = "off"
          /\ bodies'[b].pc \in {"set", "check"} /\ bodies'[b].gen = g
          /\ bodies'[b].born <=> IsCurrent(g)
          /\ \A c \in Bodies : c # b => bodies'[c] = bodies[c]
    BY <1>1, SpawnEffect
  <2>2. QED
    BY <1>1, <2>1
<1>2. CASE DispatchListenStartMotion
  <2>1. /\ reader.gen \in Gens /\ reader.gen <= session.gen /\ Spawn(reader.gen, FALSE)
        /\ session' = session /\ UNCHANGED <<motions, count, late>>
    BY <1>2, ReaderGen DEF DispatchListenStartMotion, ReaderAt, loopVars
  <2>2. QED
    BY <1>1, <2>1
<1>3. CASE ListenStart \/ Abort \/ ReplaceTurn \/ NoListenStartMotion \/ ListeningLED
           \/ AbortDrops \/ AbortLED
  BY <1>3 DEF ListenStart, Abort, ReplaceTurn, NoListenStartMotion, ListeningLED,
              AbortDrops, AbortLED, gateVars
<1>4. CASE CloseDrops \/ Closer \/ Tick \/ UNCHANGED vars
  BY <1>4 DEF CloseDrops, Closer, CloseLED, CloseSession, Tick, vars, gateVars
<1>5. CASE Dispatcher
  BY <1>5 DEF Dispatcher, TakeRequest, CheckTurn, CheckActive, SetLEDGeneration,
              LEDCheck, SendLED, DispatcherStops, LEDStep, gateVars
<1>6. ASSUME NEW g \in Gens, PumpEvent(g)
      PROVE  BodiesKept /\ UNCHANGED <<motions, count, late>>
  <2>1. CASE Express(g)
    <3>1. /\ g <= session.gen /\ Spawn(g, TRUE) /\ session' = session
          /\ UNCHANGED <<motions, count, late>>
      BY <2>1 DEF Express, NothingIsAhead, loopVars, gateVars
    <3>2. QED
      BY <1>1, <3>1
  <2>2. CASE ~Express(g)
    BY <1>6, <2>2
    DEF PumpEvent, FinalHeard, TailExpires, Pump, PumpEnds, ThinkingLED, SpeakingLED,
        BeginSpeaking, CompleteSpeaking, SilentReply, ClearRuntime, TailCompletes,
        TailLED, PostSpeakingIdle, gateVars
  <2>3. QED
    BY <2>1, <2>2
<1>7. QED
  BY <1>2, <1>3, <1>4, <1>5, <1>6, NextCases DEF Reader

LEMMA StepLate ==
    ASSUME TypeOK, NothingIsAhead, LateIsStopped, StaleBodyIsSilent, [Next]_vars
    PROVE  LateIsStopped' /\ StaleBodyIsSilent'
<1>1. SessionGrows
  BY SessionSteps
<1>2. ASSUME NEW b \in Bodies, bodies[b].pc # "off", ~IsCurrent(bodies[b].gen)
      PROVE  ~AcceptsGeneration(session', bodies[b].gen)
  <2>1. bodies[b].gen \in Nat /\ bodies[b].gen <= session.gen
    BY <1>2, BodyGen, Bounds
  <2>2. session.gen \in Nat /\ session'.gen \in Nat
    BY <1>1, Bounds DEF TypeOK, SessionGrows, SessionType
  <2>3. QED
    BY <1>1, <1>2, <2>1, <2>2 DEF SessionGrows, IsCurrent, AcceptsGeneration
<1>3. CASE ~\E b \in Bodies : Body(b)
  <2>1. BodiesKept /\ late' = late
    BY <1>3, OthersKeep
  <2>2. CASE bodies' = bodies
    BY <1>2, <2>1, <2>2 DEF LateIsStopped, StaleBodyIsSilent, IsCurrent
  <2>3. CASE bodies' # bodies
    BY <2>1, <2>3 DEF BodiesKept, LateIsStopped, StaleBodyIsSilent, IsCurrent
  <2>4. QED
    BY <2>2, <2>3
<1>4. ASSUME NEW b \in Bodies, Body(b)
      PROVE  LateIsStopped' /\ StaleBodyIsSilent'
  <2>1. BodyMoves(b) /\ session' = session
    BY <1>4, BodySteps DEF BodyMoves, loopVars
  <2>2. /\ \A c \in Bodies : c # b => bodies'[c] = bodies[c]
        /\ bodies'[b].gen = bodies[b].gen /\ bodies'[b].born = bodies[b].born
        /\ bodies'[b].pc \in BodyPCs \ {"off"} /\ bodies[b].pc # "off"
    BY <2>1, BodyKeeps DEF BodyMoves
  <2>3. ASSUME ~bodies[b].born
        PROVE  bodies'[b].pc \in {"set", "check", "led", "done"}
               /\ ~IsCurrent(bodies[b].gen)
    <3>1. bodies[b].pc \in {"set", "check", "led", "done"} /\ ~IsCurrent(bodies[b].gen)
      BY <2>2, <2>3 DEF LateIsStopped
    <3>2. bodies'[b].pc \notin {"schedule", "recheck", "send", "ledsend"}
      BY <2>1, <3>1 DEF BodyMoves
    <3>3. QED
      BY <2>2, <3>1, <3>2 DEF BodyPCs
  <2>4. late' = late
    <3>1. SUFFICES ASSUME late' # late PROVE FALSE
      OBVIOUS
    <3>2. bodies[b].pc \in {"send", "ledsend"} /\ ~bodies[b].born
      BY <2>1, <3>1 DEF BodyMoves
    <3>3. QED
      BY <2>2, <3>2 DEF LateIsStopped
  <2>5. LateIsStopped'
    BY <2>1, <2>2, <2>3 DEF LateIsStopped, IsCurrent
  <2>6. QED
    BY <2>4, <2>5 DEF StaleBodyIsSilent
<1>5. QED
  BY <1>3, <1>4

-----------------------------------------------------------------------------
\* What is counted.
LEMMA DueIsFinite ==
    ASSUME NEW g
    PROVE  IsFiniteSet(Due(g)) /\ Cardinality(Due(g)) \in Nat
<1>1. IsFiniteSet(Bodies)
  BY Bounds, FS_Interval DEF Bodies
<1>2. Due(g) \subseteq Bodies
  BY DEF Due
<1>3. QED
  BY <1>1, <1>2, FS_Subset, FS_CardinalityType

LEMMA StepDue ==
    ASSUME TypeOK, NothingIsAhead, DueIsCounted, [Next]_vars
    PROVE  DueIsCounted'
<1> SUFFICES ASSUME NEW g \in Gens
             PROVE  motions'[g] + Cardinality(Due(g)') <= count'[g]
  BY DEF DueIsCounted
<1>1. /\ motions[g] + Cardinality(Due(g)) <= count[g]
      /\ motions[g] \in Nat /\ count[g] \in Nat
      /\ IsFiniteSet(Due(g)) /\ Cardinality(Due(g)) \in Nat
  BY DueIsFinite DEF DueIsCounted, TypeOK
<1>2. CASE ~\E b \in Bodies : Body(b)
  <2>1. BodiesKept /\ UNCHANGED <<motions, count>>
    BY <1>2, OthersKeep
  <2>2. Due(g)' = Due(g)
    BY <2>1 DEF BodiesKept, Due
  <2>3. QED
    BY <1>1, <2>1, <2>2
<1>3. ASSUME NEW b \in Bodies, Body(b)
      PROVE  motions'[g] + Cardinality(Due(g)') <= count'[g]
  <2> DEFINE from == bodies[b].pc
             to == bodies'[b].pc
             h == bodies[b].gen
  <2>1. BodyMoves(b) /\ GateMoves(b)
    BY <1>3, BodySteps, GateSteps
  <2>2. /\ \A c \in Bodies : c # b => bodies'[c] = bodies[c]
        /\ bodies'[b].gen = h /\ h \in Gens
    BY <2>1, BodyKeeps, BodyGen DEF BodyMoves
  <2>3. /\ to = "recheck" => from = "schedule"
        /\ to = "send" => from = "recheck"
    BY <2>1 DEF BodyMoves
  <2>4. /\ motions'[g] = IF from = "send" /\ g = h THEN motions[g] + 1 ELSE motions[g]
        /\ count'[g] = IF to = "recheck" /\ g = h THEN count[g] + 1 ELSE count[g]
    BY SMTT(30), <2>1, <2>2 DEF GateMoves, TypeOK
  <2>5. CASE g # h
    <3>1. Due(g)' = Due(g)
      BY <2>2, <2>5 DEF Due
    <3>2. QED
      BY <1>1, <2>4, <2>5, <3>1
  <2>6. CASE g = h /\ to = "recheck"
    <3>1. Due(g)' = Due(g) \cup {b} /\ b \notin Due(g) /\ from # "send"
      BY <2>2, <2>3, <2>6 DEF Due
    <3>2. Cardinality(Due(g)') = Cardinality(Due(g)) + 1
      BY <1>1, <3>1, FS_AddElement
    <3>3. QED
      BY <1>1, <2>4, <2>6, <3>1, <3>2
  <2>7. CASE g = h /\ from \in {"recheck", "send"} /\ to \notin {"recheck", "send"}
    <3>1. Due(g)' = Due(g) \ {b} /\ b \in Due(g)
      BY <2>2, <2>7 DEF Due
    <3>2. Cardinality(Due(g)') = Cardinality(Due(g)) - 1
      BY <1>1, <3>1, FS_RemoveElement
    <3>3. QED
      BY <1>1, <2>4, <2>7, <3>2
  <2>8. CASE g = h /\ from = "recheck" /\ to = "send"
    <3>1. Due(g)' = Due(g)
      BY <2>2, <2>8 DEF Due
    <3>2. QED
      BY <1>1, <2>4, <2>8, <3>1
  <2>9. CASE g = h /\ from \notin {"recheck", "send"} /\ to \notin {"recheck", "send"}
    <3>1. Due(g)' = Due(g)
      BY <2>2, <2>9 DEF Due
    <3>2. QED
      BY <1>1, <2>4, <2>9, <3>1
  <2>10. QED
    BY <2>3, <2>5, <2>6, <2>7, <2>8, <2>9
<1>4. QED
  BY <1>2, <1>3

-----------------------------------------------------------------------------
\* How the device comes back to the idle LED.
MotionsOnly == queue = <<>> /\ led.pc \in {"take", "off"} /\ lit = "idle"
AtEase == closer = "off" /\ ~lost /\ session.state \in {"idle", "interrupted"}
Coming == IdleIsDue \/ IdleIsQueued \/ IdleIsSent \/ IdleIsLit

LEMMA IdleComesParts ==
    /\ IdleComes <=> (setup = "motions" => MotionsOnly) /\ (AtEase => Coming)
    /\ IdleComes' <=> (setup' = "motions" => MotionsOnly') /\ (AtEase' => Coming')
  BY DEF IdleComes, MotionsOnly, AtEase, Coming

\* Without LEDs nothing happens to them.
LEMMA StepMotionsOnly ==
    ASSUME TypeOK, setup = "motions", MotionsOnly, [Next]_vars
    PROVE  MotionsOnly' /\ setup' = "motions"
<1>1. CASE ListenStart \/ Abort \/ Reader
  BY <1>1 DEF ListenStart, Abort, Reader, ReplaceTurn, DispatchListenStartMotion,
     NoListenStartMotion, ListeningLED, AbortDrops, AbortLED, loopVars, ledVars,
     Enqueue, MotionsOnly
<1>2. CASE CloseDrops \/ Closer \/ Tick \/ UNCHANGED vars
  BY <1>2 DEF CloseDrops, Closer, CloseLED, CloseSession, Tick, vars, loopVars,
     ledVars, MotionsOnly
<1>3. CASE Dispatcher
  BY <1>3 DEF Dispatcher, TakeRequest, CheckTurn, CheckActive, SetLEDGeneration,
     LEDCheck, SendLED, DispatcherStops, LEDStep, loopVars, ledVars, MotionsOnly, TypeOK
<1>4. ASSUME NEW g \in Gens, PumpEvent(g)
      PROVE  MotionsOnly' /\ setup' = "motions"
  BY <1>4 DEF PumpEvent, FinalHeard, Express, TailExpires, Pump, PumpEnds, ThinkingLED,
     SpeakingLED, BeginSpeaking, CompleteSpeaking, SilentReply, ClearRuntime,
     TailCompletes, TailLED, PostSpeakingIdle, Enqueue, loopVars, ledVars, MotionsOnly
<1>5. ASSUME NEW b \in Bodies, Body(b)
      PROVE  MotionsOnly' /\ setup' = "motions"
  BY <1>5, BodySteps DEF BodyMoves, loopVars, ledVars, MotionsOnly
<1>6. QED
  BY <1>1, <1>2, <1>3, <1>4, <1>5, NextCases

\* A turn that is dropped loses no more than it had lost.
LEMMA LosesStays ==
    ASSUME TypeOK, session' = session, active' \in {active, None}, NEW r,
           r.gen # None, Loses(r)
    PROVE  Loses(r)'
  BY DEF Loses

\* A step that has nothing to do with the LEDs.
LEMMA LEDsUntouched ==
    ASSUME TypeOK, NothingIsAhead, Coming, session' = session,
           active' \in {active, None}, UNCHANGED <<queue, led, lit>>,
           IdleIsDue => IdleIsDue'
    PROVE  Coming'
<1>1. \A i \in 1 .. Len(queue) : queue[i].gen # None
  BY QueueTypes DEF None
<1>2. led.pc \in {"turn", "active"} => led.gen # None
  BY DEF NothingIsAhead, None
<1>3. CASE IdleIsDue
  BY <1>3 DEF Coming
<1>4. CASE IdleIsQueued
  <2>1. IdleIsQueued'
    BY <1>1, <1>4, LosesStays DEF IdleIsQueued
  <2>2. QED
    BY <2>1 DEF Coming
<1>5. QueueLoses => QueueLoses'
  BY <1>1, LosesStays DEF QueueLoses
<1>6. CASE IdleIsSent
  <2>1. IdleIsSent'
    BY <1>5, <1>6 DEF IdleIsSent
  <2>2. QED
    BY <2>1 DEF Coming
<1>7. CASE IdleIsLit
  <2>1. IdleIsLit'
    BY <1>2, <1>5, <1>7 DEF IdleIsLit
  <2>2. QED
    BY <2>1 DEF Coming
<1>8. QED
  BY <1>3, <1>4, <1>6, <1>7 DEF Coming

\* Somebody asks for the idle LED that is due ...
LEMMA IdleIsAskedFor ==
    ASSUME TypeOK, setup # "motions", ~lost', session' = session,
           Enqueue(session.gen, "idle")
    PROVE  Coming'
<1>1. queue' = Append(queue, [gen |-> session.gen, lifecycle |-> "idle"])
  BY EnqueueEffect DEF TypeOK, Lifecycles
<1>2. queue \in Seq(Request) /\ [gen |-> session.gen, lifecycle |-> "idle"] \in Request
  BY DEF TypeOK, Request, Lifecycles
<1>3. /\ Len(queue') = Len(queue) + 1 /\ Len(queue) \in Nat
      /\ queue'[Len(queue')].gen = session.gen
      /\ queue'[Len(queue')].lifecycle = "idle"
  BY <1>1, <1>2
<1>4. /\ Len(queue') \in 1 .. Len(queue')
      /\ \A j \in 1 .. Len(queue') : ~(j > Len(queue'))
  BY <1>3
<1>5. IdleIsQueued'
  BY <1>3, <1>4 DEF IdleIsQueued
<1>6. QED
  BY <1>5 DEF Coming

\* ... or for one that undoes nothing.
LEMMA LoserIsAskedFor ==
    ASSUME TypeOK, Coming, session' = session, active' = active,
           NEW g \in Gens, NEW l \in Lifecycles, Enqueue(g, l),
           l = "idle" \/ g # session.gen \/ active # g,
           IdleIsDue => IdleIsDue'
    PROVE  Coming'
<1>2. led' = led /\ lit' = lit
  BY DEF Enqueue
<1>3. \A i \in 1 .. Len(queue') :
        \/ i \in 1 .. Len(queue) /\ queue'[i] = queue[i]
        \/ Loses(queue'[i])
  BY QueueGrows DEF Loses
<1>4. \A i \in 1 .. Len(queue) : i \in 1 .. Len(queue') /\ queue'[i] = queue[i]
  <2>1. queue \in Seq(Request) /\ [gen |-> g, lifecycle |-> l] \in Request
    BY DEF TypeOK, Request
  <2>2. queue' = queue \/ queue' = Append(queue, [gen |-> g, lifecycle |-> l])
    BY EnqueueEffect
  <2>3. QED
    BY <2>1, <2>2
<1>5. CASE IdleIsDue
  BY <1>5 DEF Coming
<1>6. CASE IdleIsQueued
  <2>1. PICK i \in 1 .. Len(queue) :
          /\ queue[i].gen = session.gen /\ queue[i].lifecycle = "idle"
          /\ \A j \in 1 .. Len(queue) : j > i => Loses(queue[j])
    BY <1>6 DEF IdleIsQueued
  <2>2. \A j \in 1 .. Len(queue') : j > i => Loses(queue'[j])
    BY <1>3, <2>1
  <2>3. i \in 1 .. Len(queue') /\ queue'[i] = queue[i]
    BY <1>4
  <2>4. IdleIsQueued'
    BY <2>1, <2>2, <2>3 DEF IdleIsQueued, Loses
  <2>5. QED
    BY <2>4 DEF Coming
<1>7. QueueLoses => QueueLoses'
  BY <1>3 DEF QueueLoses, Loses
<1>8. CASE IdleIsSent
  BY <1>2, <1>7, <1>8 DEF IdleIsSent, Coming
<1>9. CASE IdleIsLit
  BY <1>2, <1>7, <1>9 DEF IdleIsLit, Coming
<1>10. QED
  BY <1>5, <1>6, <1>8, <1>9 DEF Coming

\* A session at ease is open, and its own turn has nothing more to ask for.
LEMMA EaseOpens ==
    ASSUME TypeOK, TurnsAreOwned, AtEase
    PROVE  /\ IsCurrent(session.gen) /\ session.gen \in Gens
           /\ pump[session.gen] \in {"none", "clear", "tailled", "gone"}
           /\ pump[session.gen] \in {"tailled", "gone"} => active # session.gen
<1>1. session.gen \in Gens /\ session.state \in {"idle", "interrupted"}
  BY DEF TypeOK, AtEase
<1>2. IsCurrent(session.gen)
  BY <1>1 DEF IsCurrent, AcceptsGeneration
<1>3. QED
  BY <1>1, <1>2 DEF TurnsAreOwned

\* The dispatcher takes the idle LED from the queue to the device and throws
\* away whatever would undo it.
LEMMA DispatcherIdle ==
    ASSUME TypeOK, NothingIsAhead, TurnsAreOwned, AtEase, Coming, AtEase', Dispatcher
    PROVE  Coming'
<1> USE DEF LEDStep, LEDGoes
<1>1. UNCHANGED <<loopVars, threadVars>>
  BY DEF Dispatcher, TakeRequest, CheckTurn, CheckActive, SetLEDGeneration, LEDCheck,
         SendLED, DispatcherStops
<1>2. UNCHANGED <<session, active, reader, pump, timer, closer>>
  BY <1>1 DEF loopVars, threadVars
<1>3. CASE IdleIsDue
  BY <1>2, <1>3 DEF IdleIsDue, Coming
<1>4. /\ led \in [pc : LEDPCs, gen : 0 .. MaxGen, lifecycle : Lifecycles]
      /\ session.gen \in Nat /\ current \in Nat /\ closer = "off"
      /\ IsCurrent(session.gen)
  BY Bounds, EaseOpens DEF TypeOK, AtEase
<1>5. CASE DispatcherStops
  BY <1>4, <1>5 DEF DispatcherStops
<1>6. CASE TakeRequest
  <2>1. /\ led.pc = "take" /\ queue # <<>> /\ queue' = Tail(queue) /\ lit' = lit
        /\ led' = [pc |-> "turn", gen |-> queue[1].gen, lifecycle |-> queue[1].lifecycle]
    BY <1>6, QueueShrinks DEF TakeRequest
  <2>2. /\ \A i \in 1 .. Len(queue') :
              i + 1 \in 1 .. Len(queue) /\ queue'[i] = queue[i + 1]
        /\ \A i \in 1 .. Len(queue) : i # 1 => i - 1 \in 1 .. Len(queue')
        /\ 1 \in 1 .. Len(queue)
    BY <2>1, QueueShrinks
  <2>3. CASE IdleIsQueued
    <3>1. PICK i \in 1 .. Len(queue) :
            /\ queue[i].gen = session.gen /\ queue[i].lifecycle = "idle"
            /\ \A j \in 1 .. Len(queue) : j > i => Loses(queue[j])
      BY <2>3 DEF IdleIsQueued
    <3>2. \A j \in 1 .. Len(queue') : j + 1 > i => Loses(queue'[j])
      BY <2>2, <3>1
    <3>3. CASE i = 1
      <4>1. QueueLoses'
        BY <1>2, <2>2, <3>2, <3>3 DEF QueueLoses, Loses
      <4>2. IdleIsSent'
        BY <1>2, <2>1, <3>1, <3>3, <4>1 DEF IdleIsSent
      <4>3. QED
        BY <4>2 DEF Coming
    <3>4. CASE i # 1
      <4>1. i - 1 \in 1 .. Len(queue') /\ queue'[i - 1] = queue[i]
        BY <2>2, <3>4
      <4>2. \A j \in 1 .. Len(queue') : j > i - 1 => Loses(queue'[j])
        BY <3>2
      <4>3. IdleIsQueued'
        BY <1>2, <3>1, <4>1, <4>2 DEF IdleIsQueued, Loses
      <4>4. QED
        BY <4>3 DEF Coming
    <3>5. QED
      BY <3>3, <3>4
  <2>4. CASE IdleIsSent
    BY <2>1, <2>4 DEF IdleIsSent
  <2>5. CASE IdleIsLit
    <3>1. QueueLoses' /\ Loses(queue[1])
      BY <1>2, <2>2, <2>5 DEF IdleIsLit, QueueLoses, Loses
    <3>2. IdleIsLit'
      BY <1>2, <2>1, <2>5, <3>1 DEF IdleIsLit, Loses
    <3>3. QED
      BY <3>2 DEF Coming
  <2>6. QED
    BY <1>3, <2>3, <2>4, <2>5 DEF Coming
<1>7. CASE CheckTurn \/ CheckActive \/ SetLEDGeneration \/ LEDCheck \/ SendLED
  <2>1. queue' = queue /\ led'.gen = led.gen /\ led'.lifecycle = led.lifecycle
    BY <1>4, <1>7 DEF CheckTurn, CheckActive, SetLEDGeneration, LEDCheck, SendLED
  <2>2. /\ QueueLoses => QueueLoses'
        /\ IdleIsQueued => IdleIsQueued'
    BY <1>2, <2>1 DEF QueueLoses, IdleIsQueued, Loses
  <2>3. CASE IdleIsQueued
    BY <2>2, <2>3 DEF Coming
  <2>4. CASE IdleIsSent
    <3>1. CASE led.pc = "turn"
      BY <1>2, <1>4, <1>7, <2>1, <2>2, <2>4, <3>1
      DEF CheckTurn, CheckActive, SetLEDGeneration, LEDCheck, SendLED, IdleIsSent,
          OfAnyTurn, Coming
    <3>2. CASE led.pc = "set"
      BY <1>2, <1>4, <1>7, <2>1, <2>2, <2>4, <3>2
      DEF CheckTurn, CheckActive, SetLEDGeneration, LEDCheck, SendLED, IdleIsSent, Coming
    <3>3. CASE led.pc = "check"
      <4>1. MayLight(led.gen)
        BY <1>4, <2>4 DEF IdleIsSent, MayLight, NothingIsAhead, IsGenerationCurrent, IsCurrent
      <4>2. LEDCheck
        BY <1>7, <3>3 DEF CheckTurn, CheckActive, SetLEDGeneration, SendLED
      <4>3. led'.pc = "send"
        BY <1>4, <4>1, <4>2 DEF LEDCheck
      <4>4. QED
        BY <1>2, <2>1, <2>2, <2>4, <4>3 DEF IdleIsSent, Coming
    <3>4. CASE led.pc = "send"
      <4>1. lit' = "idle" /\ led'.pc = "take"
        BY <1>4, <1>7, <2>4, <3>4
        DEF CheckTurn, CheckActive, SetLEDGeneration, LEDCheck, SendLED, IdleIsSent
      <4>2. QED
        BY <2>2, <2>4, <4>1 DEF IdleIsSent, IdleIsLit, Coming
    <3>5. QED
      BY <2>4, <3>1, <3>2, <3>3, <3>4 DEF IdleIsSent
  <2>5. CASE IdleIsLit
    <3>1. CASE led.lifecycle = "idle"
      <4>1. lit' = "idle"
        BY <1>7, <2>5, <3>1
        DEF CheckTurn, CheckActive, SetLEDGeneration, LEDCheck, SendLED, IdleIsLit
      <4>2. QED
        BY <2>1, <2>2, <2>5, <3>1, <4>1 DEF IdleIsLit, Coming
    <3>2. CASE led.lifecycle # "idle" /\ led.pc = "turn"
      <4>1. CheckTurn /\ (led.gen # session.gen \/ active # led.gen)
        BY <1>7, <2>5, <3>2
        DEF CheckActive, SetLEDGeneration, LEDCheck, SendLED, IdleIsLit
      <4>2. /\ led'.pc = "take" \/ (led'.pc = "active" /\ active # led.gen)
            /\ lit' = lit
        BY <1>4, <3>2, <4>1 DEF CheckTurn, OfAnyTurn, IsCurrent, AcceptsGeneration
      <4>3. QED
        BY <1>2, <2>1, <2>2, <2>5, <4>2 DEF IdleIsLit, Coming
    <3>3. CASE led.lifecycle # "idle" /\ led.pc = "active"
      <4>1. CheckActive /\ active # led.gen
        BY <1>7, <2>5, <3>3 DEF CheckTurn, SetLEDGeneration, LEDCheck, SendLED, IdleIsLit
      <4>2. led'.pc = "take" /\ lit' = lit
        BY <1>4, <4>1 DEF CheckActive, IsActive
      <4>3. QED
        BY <2>1, <2>2, <2>5, <4>2 DEF IdleIsLit, Coming
    <3>4. led.pc \notin {"take", "off"}
      BY <1>7 DEF CheckTurn, CheckActive, SetLEDGeneration, LEDCheck, SendLED
    <3>5. QED
      BY <2>5, <3>1, <3>2, <3>3, <3>4 DEF IdleIsLit
  <2>6. QED
    BY <1>3, <2>3, <2>4, <2>5 DEF Coming
<1>8. QED
  BY <1>5, <1>6, <1>7 DEF Dispatcher

\* The read loop: an abort asks for the idle LED, a listen/start that is late asks
\* for a LED that loses.
LEMMA ReaderIdle ==
    ASSUME TypeOK, NothingIsAhead, TurnsAreOwned, setup # "motions",
           AtEase => Coming, AtEase', ListenStart \/ Abort \/ Reader
    PROVE  Coming'
<1> USE DEF ReaderAt, ReaderGoes
<1>1. CASE ListenStart
  <2>1. session'.state = "listening"
    BY <1>1 DEF ListenStart, ListeningStarted, At
  <2>2. QED
    BY <2>1 DEF AtEase
<1>2. CASE Abort
  <2>1. IdleIsDue'
    BY <1>2 DEF Abort, IdleIsDue
  <2>2. QED
    BY <2>1 DEF Coming
<1>3. CASE Reader
  <2>1. /\ session' = session /\ closer' = closer /\ timer' = timer
        /\ active' \in {active, None} \/ ReplaceTurn
        /\ pump' = pump \/ ReplaceTurn
    BY <1>3 DEF Reader, ReplaceTurn, DispatchListenStartMotion, NoListenStartMotion,
       ListeningLED, AbortDrops, AbortLED, DropActive, loopVars
  <2>2. lost => lost'
    <3>1. CASE ListeningLED
      BY <3>1, ReaderGen, EnqueueEffect DEF ListeningLED, Lifecycles
    <3>2. CASE AbortLED
      BY <3>2, ReaderGen, EnqueueEffect DEF AbortLED, Lifecycles
    <3>3. CASE ReplaceTurn \/ DispatchListenStartMotion \/ NoListenStartMotion \/ AbortDrops
      BY <3>3 DEF ReplaceTurn, DispatchListenStartMotion, NoListenStartMotion,
         AbortDrops, ledVars
    <3>4. QED
      BY <1>3, <3>1, <3>2, <3>3 DEF Reader
  <2>3. AtEase /\ Coming
    BY <2>1, <2>2 DEF AtEase
  <2>4. CASE ReplaceTurn
    BY <2>3, <2>4 DEF ReplaceTurn, TurnsAreOwned, AtEase
  <2>5. CASE DispatchListenStartMotion \/ NoListenStartMotion \/ AbortDrops
    <3>1. /\ UNCHANGED <<queue, led, lit, pump>> /\ active' \in {active, None}
          /\ reader.pc = "motion" \/ (reader.pc = "drop" /\ reader'.pc = "aborted")
          /\ reader'.gen = reader.gen
      <4>1. CASE DispatchListenStartMotion \/ NoListenStartMotion
        <5>1. reader.pc = "motion" /\ reader'.gen = reader.gen
          <6>1. reader.pc = "motion" /\ reader' = [pc |-> "led", gen |-> reader.gen]
            BY <4>1, Zenon DEF DispatchListenStartMotion, NoListenStartMotion
          <6>2. QED
            BY <6>1
        <5>2. UNCHANGED <<queue, led, lit, pump, active>>
          BY <4>1 DEF DispatchListenStartMotion, NoListenStartMotion, loopVars, ledVars
        <5>3. QED
          BY <5>1, <5>2
      <4>2. CASE AbortDrops
        BY <4>2 DEF AbortDrops, DropActive, ledVars
      <4>3. QED
        BY <2>5, <4>1, <4>2
    <3>2. IdleIsDue => IdleIsDue'
      BY <2>1, <3>1 DEF IdleIsDue
    <3>3. QED
      BY <2>1, <2>3, <3>1, <3>2, LEDsUntouched
  <2>6. CASE ListeningLED
    <3>1. /\ Enqueue(reader.gen, "listening") /\ reader.pc = "led"
          /\ UNCHANGED <<active, pump>> /\ reader.gen \in Gens
      BY <2>6, ReaderGen DEF ListeningLED, loopVars
    <3>2. IdleIsDue => IdleIsDue'
      BY <2>1, <3>1 DEF IdleIsDue
    <3>3. reader.gen # session.gen \/ active # reader.gen
      <4>1. SUFFICES ASSUME reader.gen = session.gen, active = reader.gen
                     PROVE  FALSE
        OBVIOUS
      <4>2. pump[reader.gen] = "clear"
        BY <2>3, <3>1, <4>1, EaseOpens DEF TurnsAreOwned
      <4>3. lost'
        BY <3>1, <4>2, EnqueueEffect DEF Overtaken, Lifecycles
      <4>4. QED
        BY <4>3 DEF AtEase
    <3>4. QED
      BY <2>1, <2>3, <3>1, <3>2, <3>3, LoserIsAskedFor DEF Lifecycles
  <2>7. CASE AbortLED
    <3>1. /\ Enqueue(reader.gen, "idle") /\ reader.pc = "aborted"
          /\ UNCHANGED <<active, pump>> /\ reader.gen \in Gens /\ ~lost'
      BY <2>7, ReaderGen DEF AbortLED, loopVars, AtEase
    <3>2. CASE reader.gen = session.gen
      BY <2>1, <3>1, <3>2, IdleIsAskedFor
    <3>3. CASE reader.gen # session.gen
      <4>1. IdleIsDue => IdleIsDue'
        BY <2>1, <3>1, <3>3 DEF IdleIsDue
      <4>2. QED
        BY <2>1, <2>3, <3>1, <3>3, <4>1, LoserIsAskedFor DEF Lifecycles
    <3>4. QED
      BY <3>2, <3>3
  <2>8. QED
    BY <1>3, <2>4, <2>5, <2>6, <2>7 DEF Reader
<1>4. QED
  BY <1>1, <1>2, <1>3

\* The pumps: a turn that ends asks for the idle LED, the LEDs of another lose.
LEMMA PumpIdle ==
    ASSUME TypeOK, NothingIsAhead, TurnsAreOwned, setup # "motions",
           AtEase => Coming, AtEase', NEW g \in Gens, PumpEvent(g)
    PROVE  Coming'
<1> USE DEF PumpGoes
<1>1. CASE FinalHeard(g) \/ BeginSpeaking(g)
  <2>1. session'.state \in {"processing", "speaking"}
    BY <1>1 DEF FinalHeard, BeginSpeaking, ListeningStopped, SpeakingBegun, In
  <2>2. QED
    BY <2>1 DEF AtEase
<1>2. CASE CompleteSpeaking(g)
  <2>1. /\ g = session'.gen /\ session'.state = "idle" /\ timer'[g] = "armed"
    BY <1>2 DEF CompleteSpeaking, CanCompleteSpeaking, SpeakingCompleted, In, TypeOK
  <2>2. QED
    BY <2>1 DEF IdleIsDue, Coming
<1>3. CASE TailCompletes(g) /\ CanCompleteNoSpeech(session, g)
  <2>1. g = session'.gen /\ pump'[g] = "tailled"
    BY <1>3 DEF TailCompletes, CanCompleteNoSpeech, NoSpeechCompleted, In, TypeOK
  <2>2. QED
    BY <2>1 DEF IdleIsDue, Coming
<1>4. CASE \/ TailCompletes(g) /\ ~CanCompleteNoSpeech(session, g)
           \/ PumpEnds(g) \/ Express(g) \/ TailExpires(g) \/ ClearRuntime(g)
  <2>1. /\ UNCHANGED <<session, closer, timer, reader, queue, led, lit, lost>>
        /\ active' \in {active, None}
        /\ pump' = pump \/ (pump[g] # "tailled" /\ \E pc : pump' = [pump EXCEPT ![g] = pc])
    BY <1>4 DEF TailCompletes, PumpEnds, Express, TailExpires, ClearRuntime, DropActive,
       loopVars, threadVars, ledVars
  <2>2. AtEase /\ Coming
    BY <2>1 DEF AtEase
  <2>3. pump[session.gen] = "tailled" => pump'[session.gen] = "tailled"
    BY <2>1 DEF TypeOK
  <2>4. IdleIsDue => IdleIsDue'
    BY <2>1, <2>3 DEF IdleIsDue
  <2>5. QED
    BY <2>1, <2>2, <2>4, LEDsUntouched
<1>5. CASE ThinkingLED(g) \/ SpeakingLED(g) \/ SilentReply(g)
  <2>1. PICK l \in Lifecycles : Enqueue(g, l)
    BY <1>5 DEF ThinkingLED, SpeakingLED, SilentReply, Lifecycles
  <2>2. /\ UNCHANGED <<session, active, closer, timer, reader>>
        /\ pump[g] \in {"think", "reply"}
        /\ \A h \in Gens : h # g => pump'[h] = pump[h]
    BY <1>5 DEF ThinkingLED, SpeakingLED, SilentReply, loopVars, TypeOK
  <2>3. lost => lost'
    BY <2>1, EnqueueEffect
  <2>4. AtEase /\ Coming
    BY <2>2, <2>3 DEF AtEase
  <2>5. g # session.gen /\ session.gen \in Gens
    BY <2>2, <2>4, EaseOpens
  <2>6. IdleIsDue => IdleIsDue'
    BY <2>2, <2>5 DEF IdleIsDue
  <2>7. QED
    BY <2>1, <2>2, <2>4, <2>5, <2>6, LoserIsAskedFor
<1>6. CASE TailLED(g)
  <2>1. /\ UNCHANGED <<session, active, closer, timer, reader>> /\ Enqueue(g, "idle")
        /\ \A h \in Gens : h # g => pump'[h] = pump[h]
    BY <1>6 DEF TailLED, loopVars, TypeOK
  <2>2. (lost => lost') /\ ~lost'
    BY <2>1, EnqueueEffect DEF Lifecycles, AtEase
  <2>3. AtEase /\ Coming
    BY <2>1, <2>2 DEF AtEase
  <2>4. CASE g = session.gen
    BY <2>1, <2>2, <2>4, IdleIsAskedFor
  <2>5. CASE g # session.gen
    <3>1. IdleIsDue => IdleIsDue'
      BY <2>1, <2>3, <2>5, EaseOpens DEF IdleIsDue
    <3>2. QED
      BY <2>1, <2>3, <2>5, <3>1, LoserIsAskedFor DEF Lifecycles
  <2>6. QED
    BY <2>4, <2>5
<1>7. CASE PostSpeakingIdle(g)
  <2>1. /\ UNCHANGED <<session, active, closer, pump, reader>>
        /\ \A h \in Gens : h # g => timer'[h] = timer[h]
    BY <1>7 DEF PostSpeakingIdle, loopVars, TypeOK
  <2>2. CASE IsCurrent(g) /\ session.state = "idle"
    <3>1. g = session.gen /\ Enqueue(g, "idle") /\ ~lost'
      BY <1>7, <2>2 DEF PostSpeakingIdle, IsCurrent, AcceptsGeneration, AtEase
    <3>2. QED
      BY <2>1, <3>1, IdleIsAskedFor
  <2>3. CASE ~(IsCurrent(g) /\ session.state = "idle")
    <3>1. UNCHANGED <<queue, led, lit, lost>>
      BY <1>7, <2>3 DEF PostSpeakingIdle, ledVars
    <3>2. AtEase /\ Coming
      BY <2>1, <3>1 DEF AtEase
    <3>3. IdleIsDue => IdleIsDue'
      BY <2>1, <2>3, <3>2, EaseOpens DEF IdleIsDue
    <3>4. QED
      BY <2>1, <3>1, <3>2, <3>3, LEDsUntouched
  <2>4. QED
    BY <2>2, <2>3
<1>8. QED
  BY <1>1, <1>2, <1>3, <1>4, <1>5, <1>6, <1>7 DEF PumpEvent, Pump

LEMMA StepIdle ==
    ASSUME TypeOK, NothingIsAhead, TurnsAreOwned, IdleComes, [Next]_vars
    PROVE  IdleComes'
<1>1. /\ setup = "motions" => MotionsOnly
      /\ AtEase => Coming
  BY IdleComesParts
<1>2. setup' = setup
  BY DEF Next, ListenStart, Abort, Reader, ReplaceTurn, DispatchListenStartMotion,
     NoListenStartMotion, ListeningLED, AbortDrops, AbortLED, CloseDrops, Closer,
     CloseLED, CloseSession, Dispatcher, TakeRequest, CheckTurn, CheckActive,
     SetLEDGeneration, LEDCheck, SendLED, DispatcherStops, LEDStep, Tick, FinalHeard,
     Express, TailExpires, Pump, PumpEnds, ThinkingLED, SpeakingLED, BeginSpeaking,
     CompleteSpeaking, SilentReply, ClearRuntime, TailCompletes, TailLED,
     PostSpeakingIdle, Body, PlanSets, ScheduleCheck, ScheduleMotion, DispatchCheck,
     SendMotion, PlanLEDCheck, PlanLED, BodyStep, vars, loopVars
<1>3. CASE setup = "motions"
  <2>1. MotionsOnly' /\ setup' = "motions"
    BY <1>1, <1>3, StepMotionsOnly
  <2>2. Coming'
    BY <2>1 DEF MotionsOnly, Coming, IdleIsLit, QueueLoses
  <2>3. QED
    BY <2>1, <2>2, IdleComesParts
<1>4. CASE setup # "motions"
  <2>1. SUFFICES ASSUME AtEase'
                 PROVE  Coming'
    BY <1>2, <1>4, IdleComesParts
  <2>2. CASE CloseDrops \/ Closer
    BY <2>1, <2>2 DEF CloseDrops, Closer, CloseLED, CloseSession, CloserGoes, AtEase
  <2>3. CASE Dispatcher
    <3>1. UNCHANGED <<session, closer, lost>>
      BY <2>3 DEF Dispatcher, TakeRequest, CheckTurn, CheckActive, SetLEDGeneration,
         LEDCheck, SendLED, DispatcherStops, LEDStep, loopVars, threadVars
    <3>2. AtEase
      BY <2>1, <3>1 DEF AtEase
    <3>3. QED
      BY <1>1, <2>1, <2>3, <3>2, DispatcherIdle
  <2>4. CASE Tick \/ UNCHANGED vars \/ \E b \in Bodies : Body(b)
    <3>1. UNCHANGED <<loopVars, threadVars, ledVars>>
      BY <2>4, BodySteps DEF Tick, vars, BodyMoves
    <3>2. UNCHANGED <<session, active, reader, pump, timer, closer, queue, led, lit, lost>>
      BY <3>1 DEF loopVars, threadVars, ledVars
    <3>3. AtEase /\ (IdleIsDue => IdleIsDue')
      BY <2>1, <3>2 DEF AtEase, IdleIsDue
    <3>4. QED
      BY <1>1, <3>2, <3>3, LEDsUntouched
  <2>5. QED
    BY <1>1, <1>4, <2>1, <2>2, <2>3, <2>4, NextCases, ReaderIdle, PumpIdle
<1>5. QED
  BY <1>3, <1>4

-----------------------------------------------------------------------------
LEMMA InitInvariant == Init => IInv
<1> SUFFICES ASSUME Init
             PROVE  IInv
  OBVIOUS
<1>1. session = [state |-> "idle", gen |-> 1, first |-> 1, used |-> FALSE]
  BY DEF Init, HelloAnswered, NewSession, At
<1>2. TypeOK
  <2>1. session \in SessionType /\ session.gen \in Gens
    BY <1>1, Bounds DEF SessionType, States
  <2>2. queue \in Seq(Request) /\ Len(queue) <= QueueSize
    BY Bounds DEF Init
  <2>3. /\ setup \in Setups /\ active \in Gens \cup {None} /\ cancelled \subseteq Gens
        /\ closer = "off" /\ lost \in BOOLEAN /\ late \in BOOLEAN
    BY DEF Init
  <2>4. /\ now \in Nat \ {0} /\ last \in 0 .. now
        /\ current \in 0 .. MaxGen /\ coalesced \subseteq Gens
        /\ count \in [Gens -> 0 .. MaxPerTurn] /\ motions \in [Gens -> Nat]
    BY Bounds DEF Init
  <2>5. /\ reader \in [pc : ReaderPCs, gen : 0 .. MaxGen]
        /\ pump \in [Gens -> PumpPCs] /\ timer \in [Gens -> {"off", "armed"}]
    BY Bounds DEF Init, ReaderPCs, PumpPCs
  <2>6. bodies \in [Bodies -> [pc : BodyPCs, gen : 0 .. MaxGen, plan : BOOLEAN,
                                 born : BOOLEAN]]
    BY Bounds DEF Init, BodyPCs
  <2>7. led \in [pc : LEDPCs, gen : 0 .. MaxGen, lifecycle : Lifecycles] /\ lit \in Lifecycles
    BY Bounds DEF Init, LEDPCs, Lifecycles
  <2>8. QED
    BY <2>1, <2>2, <2>3, <2>4, <2>5, <2>6, <2>7 DEF TypeOK
<1>3. NothingIsAhead
  BY <1>1 DEF Init, NothingIsAhead
<1>4. TurnsAreOwned
  <2>1. /\ active = None /\ cancelled = {} /\ reader.pc = "idle"
        /\ \A g \in Gens : pump[g] = "none" /\ active # g
    BY Bounds DEF Init
  <2>2. /\ session.state = "idle" /\ ~session.used /\ session.gen \in Gens
    BY <1>1, Bounds
  <2>3. QED
    BY <2>1, <2>2 DEF TurnsAreOwned, InTurn
<1>5. LateIsStopped /\ StaleBodyIsSilent
  BY DEF Init, LateIsStopped, StaleBodyIsSilent
<1>6. DueIsCounted
  <2>1. \A g \in Gens : Due(g) = {}
    BY DEF Init, Due
  <2>2. \A g \in Gens : motions[g] = 0 /\ count[g] = 0
    BY DEF Init
  <2>3. Cardinality({}) = 0
    BY FS_EmptySet
  <2>4. QED
    BY <2>1, <2>2, <2>3 DEF DueIsCounted
<1>7. IdleComes
  BY DEF Init, IdleComes, IdleIsLit, QueueLoses
<1>8. QED
  BY <1>2, <1>3, <1>4, <1>5, <1>6, <1>7 DEF IInv

LEMMA StepInvariant == IInv /\ [Next]_vars => IInv'
<1> SUFFICES ASSUME IInv, [Next]_vars
             PROVE  IInv'
  OBVIOUS
<1>1. TypeOK /\ NothingIsAhead /\ TurnsAreOwned /\ LateIsStopped /\ StaleBodyIsSilent
      /\ DueIsCounted /\ IdleComes
  BY DEF IInv
<1>2. TypeOK'
  BY <1>1, StepTypes
<1>3. NothingIsAhead' /\ TurnsAreOwned'
  BY <1>1, <1>2, StepAhead, StepOwners
<1>4. LateIsStopped' /\ StaleBodyIsSilent'
  BY <1>1, <1>2, StepLate
<1>5. DueIsCounted' /\ IdleComes'
  BY <1>1, StepDue, StepIdle
<1>6. QED
  BY <1>2, <1>3, <1>4, <1>5 DEF IInv

\* The invariant that everything below follows from.
THEOREM InductiveInvariant == Spec => []IInv
<1>1. QED
  BY InitInvariant, StepInvariant, PTL DEF Spec

\* No goroutine that was started for a generation already over ever sends a
\* motion or a LED, in whatever order the turns go on (BodyScheduler's checks
\* of the generation before and after the gate).
THEOREM LateBodiesStaySilent == Spec => []StaleBodyIsSilent
<1>1. IInv => StaleBodyIsSilent
  BY DEF IInv
<1>2. QED
  BY <1>1, InductiveInvariant, PTL

\* No turn sends more motions than the scheduler has counted for it, nor more than
\* maxCommandsPerTurn, for any number of goroutines that schedule at once.
THEOREM MotionsStayCounted == Spec => []MotionsAreCounted
<1>1. IInv => MotionsAreCounted
  <2> SUFFICES ASSUME IInv, NEW g \in Gens
               PROVE  motions[g] <= count[g] /\ motions[g] <= MaxPerTurn
    BY DEF MotionsAreCounted
  <2>1. motions[g] + Cardinality(Due(g)) <= count[g]
    BY DEF IInv, DueIsCounted
  <2>2. /\ motions[g] \in Nat /\ Cardinality(Due(g)) \in Nat
        /\ count[g] \in 0 .. MaxPerTurn /\ MaxPerTurn \in Nat
    BY DueIsFinite, BodyAssumption DEF IInv, TypeOK
  <2>3. QED
    BY <2>1, <2>2
<1>2. QED
  BY <1>1, InductiveInvariant, PTL

\* When no turn runs and no request was dropped or overtaken, the idle LED is
\* lit: the late LEDs of aborted, replaced and completed turns never stay.
THEOREM IdleComesBack == Spec => []IdleIsShown
<1>1. IInv => IdleIsShown
  <2> SUFFICES ASSUME IInv, AtRest, ~lost, session.state \in {"idle", "interrupted"}
               PROVE  lit = "idle"
    BY DEF IdleIsShown
  <2>1. AtEase
    BY DEF AtRest, AtEase
  <2>2. Coming /\ session.gen \in Gens
    BY <2>1, IdleComesParts DEF IInv, TypeOK
  <2>3. ~IdleIsDue /\ ~IdleIsQueued /\ ~IdleIsSent
    BY <2>2 DEF AtRest, IdleIsDue, IdleIsQueued, IdleIsSent
  <2>4. QED
    BY <2>2, <2>3 DEF Coming, IdleIsLit
<1>2. QED
  BY <1>1, InductiveInvariant, PTL
=============================================================================
