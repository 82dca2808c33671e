--------------------------- MODULE SessionProofs ---------------------------
(***************************************************************************)
(* The inductive invariant of Session and its consequences, for every set   *)
(* of first generations and every bound.                                    *)
(***************************************************************************)
EXTENDS Session, TLAPS

\* The initial states satisfy the inductive invariant: no generation is open.
LEMMA InitInvariant == Init => IInv
<1> SUFFICES ASSUME Init PROVE IInv
  OBVIOUS
<1>1. PICK first \in FirstGenerations : session = NewSession(first)
  BY DEF Init
<1>2. first \in Nat \ {0}
  BY <1>1, FirstGenerationsAssumption
<1>3. session.state = "connected" /\ session.gen = 0 /\ ~session.used
  BY <1>1 DEF NewSession
<1>4. TypeOK
  BY <1>1, <1>2 DEF TypeOK, Init, SessionType, States, NewSession
<1>5. QED
  BY <1>3, <1>4
  DEF Init, IInv, TurnOwnsGeneration, InTurn, BeforeHello, HistoryIsPast,
      UsedIsListened, InterruptedIsFresh, IdleIsOpen, SpokenIsPast

\* The generation an increment opens lies above every generation that was ever
\* handed out or listened for.
LEMMA NextGenerationIsFresh ==
    ASSUME IInv
    PROVE  /\ NextGeneration(session) \in Nat
           /\ NextGeneration(session) > session.gen
           /\ NextGeneration(session) >= 1
           /\ \A g \in issued : g < NextGeneration(session)
           /\ \A g \in listened : g < NextGeneration(session)
<1>1. /\ session.gen \in Nat
      /\ session.first \in Nat \ {0}
      /\ issued \subseteq Nat
      /\ listened \subseteq Nat
  BY DEF IInv, TypeOK, SessionType
<1>2. /\ NextGeneration(session) \in Nat
      /\ NextGeneration(session) > session.gen
      /\ NextGeneration(session) >= 1
  BY <1>1 DEF NextGeneration
<1>3. QED
  BY <1>1, <1>2 DEF IInv, HistoryIsPast

\* What In builds, field by field: the rest of the proof reasons about the
\* fields of session' and never about the record.
LEMMA InFields ==
    ASSUME NEW s \in SessionType, NEW state \in States
    PROVE  /\ In(s, state) \in SessionType
           /\ In(s, state).state = state
           /\ In(s, state).gen = s.gen
           /\ In(s, state).used = s.used
  BY DEF SessionType, In

\* A call that leaves the session as it was preserves the invariant, whatever
\* generation it returns in its Turn.
LEMMA UnchangedPreserves ==
    ASSUME IInv,
           session' = session,
           issued' = issued \cup {session.gen},
           listened' = listened,
           spoken' = spoken
    PROVE  IInv'
<1>1. session.gen \in Nat
  BY DEF IInv, TypeOK, SessionType
<1>2. TypeOK'
  BY <1>1 DEF IInv, TypeOK
<1>3. HistoryIsPast'
  BY <1>1 DEF IInv, HistoryIsPast
<1>4. QED
  BY <1>2, <1>3
  DEF IInv, TurnOwnsGeneration, BeforeHello, UsedIsListened,
      InterruptedIsFresh, IdleIsOpen, SpokenIsPast

\* A step that leaves the generation and its mark alone, and the histories too,
\* preserves the invariant when the state it enters asks for no more than the
\* state it leaves.
LEMMA SameGeneration ==
    ASSUME IInv,
           NEW state \in States,
           session' = In(session, state),
           issued' = issued \cup {session'.gen},
           listened' = listened,
           spoken' = spoken,
           state \in InTurn => session.state \in InTurn,
           state = "processing" => session.state = "listening",
           state = "idle" => session.state \in InTurn,
           state # "listening",
           state # "interrupted",
           state \in {"connected", "hello_received"} => session.state = "connected"
    PROVE  IInv'
<1>1. session \in SessionType /\ session.gen \in Nat
  BY DEF IInv, TypeOK, SessionType
<1>2. /\ session' \in SessionType
      /\ session'.state = state
      /\ session'.gen = session.gen
      /\ session'.used = session.used
  BY <1>1, InFields
<1>3. TypeOK'
  BY <1>1, <1>2 DEF IInv, TypeOK
<1>4. TurnOwnsGeneration' /\ BeforeHello'
  BY <1>2 DEF IInv, TurnOwnsGeneration, BeforeHello
<1>5. HistoryIsPast' /\ UsedIsListened'
  BY <1>1, <1>2 DEF IInv, HistoryIsPast, UsedIsListened
<1>6. InterruptedIsFresh' /\ IdleIsOpen' /\ SpokenIsPast'
  BY <1>1, <1>2
  DEF IInv, InterruptedIsFresh, IdleIsOpen, SpokenIsPast, TurnOwnsGeneration,
      HistoryIsPast, InTurn
<1>7. QED
  BY <1>3, <1>4, <1>5, <1>6 DEF IInv

\* A step that opens a generation nobody has listened for, and enters neither a
\* turn nor the states before the hello, preserves the invariant.
LEMMA OpensGeneration ==
    ASSUME IInv,
           session' \in SessionType,
           session'.state \in {"idle", "interrupted"},
           session'.gen > session.gen,
           ~session'.used,
           issued' = issued \cup {session'.gen},
           listened' = listened,
           spoken' = spoken
    PROVE  IInv'
<1>1. /\ session.gen \in Nat
      /\ session'.gen \in Nat
      /\ issued \subseteq Nat
      /\ listened \subseteq Nat
  BY DEF IInv, TypeOK, SessionType
<1>2. TypeOK'
  BY <1>1 DEF IInv, TypeOK
<1>3. TurnOwnsGeneration' /\ BeforeHello'
  BY DEF TurnOwnsGeneration, BeforeHello, InTurn
<1>4. HistoryIsPast'
  BY <1>1 DEF IInv, HistoryIsPast
<1>5. session'.gen \notin listened'
  BY <1>1 DEF IInv, HistoryIsPast
<1>6. UsedIsListened' /\ InterruptedIsFresh' /\ IdleIsOpen' /\ SpokenIsPast'
  BY <1>1, <1>5
  DEF IInv, UsedIsListened, InterruptedIsFresh, IdleIsOpen, SpokenIsPast
<1>7. QED
  BY <1>2, <1>3, <1>4, <1>6 DEF IInv

\* An abort, and a provider reset that names the current generation, whatever
\* the state: a closed session is left as it is, every other gets a fresh
\* generation.
LEMMA InterruptPreserves ==
    ASSUME IInv,
           Becomes(Interrupted(session)),
           listened' = listened,
           spoken' = spoken
    PROVE  IInv'
<1>1. CASE session.state = "closed"
  BY <1>1, UnchangedPreserves DEF Becomes, Interrupted
<1>2. CASE session.state # "closed"
  <2>1. /\ session' \in SessionType
        /\ session'.state = "interrupted"
        /\ session'.gen = NextGeneration(session)
        /\ ~session'.used
    BY <1>2, NextGenerationIsFresh
    DEF IInv, TypeOK, Becomes, Interrupted, At, SessionType, States
  <2>2. issued' = issued \cup {session'.gen}
    BY DEF Becomes
  <2>3. QED
    BY <2>1, <2>2, NextGenerationIsFresh, OpensGeneration
<1>3. QED
  BY <1>1, <1>2

\* A turn that begins listens for a generation nobody has listened for: one an
\* abort or a hello left unused, or the next one.
LEMMA ListeningIsFresh ==
    ASSUME IInv, CanStartListening(session), session.state # "listening"
    PROVE  /\ ListeningStarted(session) \in SessionType
           /\ ListeningStarted(session).state = "listening"
           /\ ListeningStarted(session).used
           /\ ListeningStarted(session).gen >= session.gen
           /\ ListeningStarted(session).gen >= 1
           /\ ListeningStarted(session).gen \notin listened
<1>1. session \in SessionType /\ session.gen \in Nat
  BY DEF IInv, TypeOK, SessionType
<1>2. CASE NeedsFreshGeneration(session)
  <2>1. /\ ListeningStarted(session) \in SessionType
        /\ ListeningStarted(session).state = "listening"
        /\ ListeningStarted(session).used
        /\ ListeningStarted(session).gen = NextGeneration(session)
    BY <1>1, <1>2, NextGenerationIsFresh
    DEF ListeningStarted, At, SessionType, States
  <2>2. NextGeneration(session) \notin listened
    BY NextGenerationIsFresh DEF IInv, TypeOK
  <2>3. QED
    BY <1>1, <2>1, <2>2, NextGenerationIsFresh
<1>3. CASE ~NeedsFreshGeneration(session)
  <2>1. /\ ListeningStarted(session) \in SessionType
        /\ ListeningStarted(session).state = "listening"
        /\ ListeningStarted(session).used
        /\ ListeningStarted(session).gen = session.gen
    BY <1>1, <1>3 DEF ListeningStarted, At, SessionType, States
  <2>2. ~session.used /\ session.gen >= 1
    BY <1>3
    DEF IInv, CanStartListening, NeedsFreshGeneration, InterruptedIsFresh,
        IdleIsOpen
  <2>3. session.gen \notin listened
    BY <2>2 DEF IInv, UsedIsListened
  <2>4. QED
    BY <1>1, <2>1, <2>2, <2>3
<1>4. QED
  BY <1>2, <1>3

\* StartListening preserves the invariant.
LEMMA StartListeningPreserves ==
    ASSUME IInv, StartListening
    PROVE  IInv'
<1>1. /\ session.gen \in Nat
      /\ issued \subseteq Nat
      /\ listened \subseteq Nat
      /\ issued' = issued \cup {session'.gen}
      /\ listened' = listened \cup {session'.gen}
      /\ spoken' = spoken
  BY DEF IInv, TypeOK, SessionType, StartListening, Becomes
<1>2. CASE session.state = "listening"
  <2>1. session' = session /\ session.gen \in listened
    BY <1>2
    DEF IInv, StartListening, Becomes, ListeningStarted, TurnOwnsGeneration,
        InTurn
  <2>2. listened' = listened
    BY <1>1, <2>1
  <2>3. QED
    BY <1>1, <2>1, <2>2, UnchangedPreserves
<1>3. CASE session.state # "listening"
  <2>1. session' = ListeningStarted(session) /\ CanStartListening(session)
    BY DEF StartListening, Becomes
  <2>2. /\ session' \in SessionType
        /\ session'.state = "listening"
        /\ session'.used
        /\ session'.gen >= session.gen
        /\ session'.gen >= 1
        /\ session'.gen \notin listened
    BY <1>3, <2>1, ListeningIsFresh
  <2>3. session'.gen \in Nat
    BY <2>2 DEF SessionType
  <2>4. TypeOK'
    BY <1>1, <2>2, <2>3 DEF IInv, TypeOK
  <2>5. /\ TurnOwnsGeneration' /\ BeforeHello' /\ UsedIsListened'
        /\ IdleIsOpen' /\ InterruptedIsFresh'
    BY <1>1, <2>2
    DEF TurnOwnsGeneration, BeforeHello, UsedIsListened, IdleIsOpen,
        InterruptedIsFresh
  <2>6. HistoryIsPast'
    <3>1. \A g \in issued : g \in Nat /\ g <= session.gen
      BY <1>1 DEF IInv, HistoryIsPast
    <3>2. \A g \in listened : g \in Nat /\ 1 <= g /\ g <= session.gen
      BY <1>1 DEF IInv, HistoryIsPast
    <3>3. QED
      BY <1>1, <2>2, <2>3, <3>1, <3>2 DEF HistoryIsPast
  <2>7. SpokenIsPast'
    BY <1>1, <2>2 DEF IInv, SpokenIsPast
  <2>8. QED
    BY <2>4, <2>5, <2>6, <2>7 DEF IInv
<1>4. QED
  BY <1>2, <1>3


\* BeginSpeaking preserves the invariant: the turn that reaches speaking has not
\* spoken before, and is one that listened.
LEMMA BeginSpeakingPreserves ==
    ASSUME IInv, NEW g, BeginSpeaking(g)
    PROVE  IInv'
<1>1. /\ session.state = "processing"
      /\ g = session.gen
      /\ session' = In(session, "speaking")
      /\ issued' = issued \cup {session'.gen}
      /\ listened' = listened
      /\ spoken' = spoken \cup {session.gen}
  BY DEF BeginSpeaking, CanBeginSpeaking, Becomes, SpeakingBegun
<1>2. session \in SessionType /\ session.gen \in Nat
  BY DEF IInv, TypeOK, SessionType
<1>3. /\ session' \in SessionType
      /\ session'.state = "speaking"
      /\ session'.gen = session.gen
      /\ session'.used = session.used
  BY <1>1, <1>2, InFields DEF States
<1>4. TypeOK'
  BY <1>1, <1>2, <1>3 DEF IInv, TypeOK
<1>5. session.gen \in listened /\ session.used
  BY <1>1 DEF IInv, TurnOwnsGeneration, InTurn
<1>6. TurnOwnsGeneration' /\ UsedIsListened' /\ SpokenIsPast'
  BY <1>1, <1>3, <1>5
  DEF IInv, TurnOwnsGeneration, UsedIsListened, SpokenIsPast
<1>7. BeforeHello' /\ InterruptedIsFresh' /\ IdleIsOpen'
  BY <1>3 DEF BeforeHello, InterruptedIsFresh, IdleIsOpen
<1>8. HistoryIsPast'
  BY <1>1, <1>2, <1>3 DEF IInv, HistoryIsPast
<1>9. QED
  BY <1>4, <1>6, <1>7, <1>8 DEF IInv

\* Every step, or a stutter, preserves the inductive invariant.
LEMMA StepInvariant == IInv /\ [Next]_vars => IInv'
<1> SUFFICES ASSUME IInv, [Next]_vars PROVE IInv'
  OBVIOUS
<1>0. session \in SessionType
  BY DEF IInv, TypeOK
<1>1. CASE ReceiveHello
  <2>1. session.state = "connected" /\ session' = In(session, "hello_received")
    BY <1>1 DEF ReceiveHello, CanReceiveHello, HelloReceived, Becomes
  <2>2. QED
    BY <1>1, <2>1, SameGeneration DEF ReceiveHello, Becomes, States, InTurn
<1>2. CASE ServerHelloSent
  <2>1. session.gen = 0
    BY <1>2 DEF ServerHelloSent, CanSendServerHello, IInv, BeforeHello
  <2>2. /\ session' \in SessionType
        /\ session'.state = "idle"
        /\ session'.gen = session.first
        /\ ~session'.used
    BY <1>0, <1>2
    DEF ServerHelloSent, HelloAnswered, Becomes, At, SessionType, States
  <2>3. session'.gen > session.gen
    BY <1>0, <2>1, <2>2 DEF SessionType
  <2>4. QED
    BY <1>2, <2>2, <2>3, OpensGeneration DEF ServerHelloSent, Becomes
<1>3. CASE StartListening
  BY <1>3, StartListeningPreserves
<1>4. CASE StopListening
  <2>1. session.state = "listening" /\ session' = In(session, "processing")
    BY <1>4 DEF StopListening, CanStopListening, ListeningStopped, Becomes
  <2>2. QED
    BY <1>4, <2>1, SameGeneration DEF StopListening, Becomes, States, InTurn
<1>5. CASE Abort
  BY <1>5, InterruptPreserves DEF Abort
<1>6. CASE Close
  <2>1. session' = In(session, "closed")
    BY <1>6 DEF Close, Closed, Becomes
  <2>2. QED
    BY <1>6, <2>1, SameGeneration DEF Close, Becomes, States, InTurn
<1>7. ASSUME NEW g \in issued, BeginSpeaking(g)
      PROVE  IInv'
  BY <1>7, BeginSpeakingPreserves
<1>8. ASSUME NEW g \in issued, CompleteSpeaking(g)
      PROVE  IInv'
  <2>1. session.state = "speaking" /\ session' = In(session, "idle")
    BY <1>8
    DEF CompleteSpeaking, CanCompleteSpeaking, SpeakingCompleted, Becomes
  <2>2. QED
    BY <1>8, <2>1, SameGeneration DEF CompleteSpeaking, Becomes, States, InTurn
<1>9. ASSUME NEW g \in issued, CompleteListeningNoSpeech(g)
      PROVE  IInv'
  <2>1. session.state = "listening" /\ session' = In(session, "idle")
    BY <1>9
    DEF CompleteListeningNoSpeech, CanCompleteNoSpeech, NoSpeechCompleted,
        Becomes
  <2>2. QED
    BY <1>9, <2>1, SameGeneration
    DEF CompleteListeningNoSpeech, Becomes, States, InTurn
<1>10. ASSUME NEW g \in issued, ProviderFatalResetForGeneration(g)
       PROVE  IInv'
  <2>1. CASE AcceptsGeneration(session, g)
    BY <1>10, <2>1, InterruptPreserves
    DEF ProviderFatalResetForGeneration, ResetForGeneration
  <2>2. CASE ~AcceptsGeneration(session, g)
    BY <1>10, <2>2, UnchangedPreserves
    DEF ProviderFatalResetForGeneration, ResetForGeneration, Becomes
  <2>3. QED
    BY <2>1, <2>2
<1>11. CASE UNCHANGED vars
  BY <1>11
  DEF vars, IInv, TypeOK, TurnOwnsGeneration, BeforeHello, HistoryIsPast,
      UsedIsListened, InterruptedIsFresh, IdleIsOpen, SpokenIsPast
<1>12. QED
  BY <1>1, <1>2, <1>3, <1>4, <1>5, <1>6, <1>7, <1>8, <1>9, <1>10, <1>11
  DEF Next

\* The inductive invariant holds of every reachable session.
THEOREM InductiveInvariant == Spec => []IInv
  BY InitInvariant, StepInvariant, PTL DEF Spec

\* The fields of a session keep their types: the generation never becomes
\* negative and the state is one of state.go's.
THEOREM TypeCorrect == Spec => []TypeOK
<1>1. IInv => TypeOK
  BY DEF IInv
<1>2. QED
  BY <1>1, InductiveInvariant, PTL

\* Whatever the order of calls, a session that listens, processes or speaks does
\* so for a generation that a listen/start opened.
THEOREM TurnsOwnTheirGeneration == Spec => []TurnOwnsGeneration
<1>1. IInv => TurnOwnsGeneration
  BY DEF IInv
<1>2. QED
  BY <1>1, InductiveInvariant, PTL

\* Two turns of a session never share a generation.
THEOREM FreshGenerations == Spec => TurnsHaveFreshGenerations
<1>1. IInv /\ [Next]_vars
        => [session.state # "listening" /\ session'.state = "listening"
              => session'.gen \notin listened]_vars
  <2> SUFFICES ASSUME IInv, Next,
                      session.state # "listening", session'.state = "listening"
               PROVE  session'.gen \notin listened
    BY DEF vars
  <2>1. StartListening
    BY InFields
    DEF IInv, TypeOK, Next, Becomes, ReceiveHello, HelloReceived,
        ServerHelloSent, HelloAnswered, StopListening, ListeningStopped,
        BeginSpeaking, SpeakingBegun, CompleteSpeaking, SpeakingCompleted,
        CompleteListeningNoSpeech, NoSpeechCompleted, Abort, Interrupted,
        ProviderFatalResetForGeneration, ResetForGeneration, Close, Closed,
        In, At
  <2>2. session' = ListeningStarted(session) /\ CanStartListening(session)
    BY <2>1 DEF StartListening, Becomes
  <2>3. QED
    BY <2>2, ListeningIsFresh
<1>2. QED
  BY <1>1, InductiveInvariant, PTL DEF Spec, TurnsHaveFreshGenerations

\* No generation begins speaking twice.
THEOREM SpeaksOnce == Spec => SpeaksOncePerGeneration
<1>1. IInv /\ [Next]_vars
        => [session.state # "speaking" /\ session'.state = "speaking"
              => session'.gen \notin spoken]_vars
  <2> SUFFICES ASSUME IInv, Next,
                      session.state # "speaking", session'.state = "speaking"
               PROVE  session'.gen \notin spoken
    BY DEF vars
  <2>1. PICK g \in issued : BeginSpeaking(g)
    BY DEF Next, Becomes, ReceiveHello, HelloReceived,
        ServerHelloSent, HelloAnswered, StartListening, ListeningStarted,
        StopListening, ListeningStopped, CompleteSpeaking, SpeakingCompleted,
        CompleteListeningNoSpeech, NoSpeechCompleted, Abort, Interrupted,
        ProviderFatalResetForGeneration, ResetForGeneration, Close, Closed,
        In, At
  <2>2. session.state = "processing" /\ session'.gen = session.gen
    BY <2>1 DEF BeginSpeaking, CanBeginSpeaking, Becomes, SpeakingBegun, In
  <2>3. QED
    BY <2>2 DEF IInv, SpokenIsPast
<1>2. QED
  BY <1>1, InductiveInvariant, PTL DEF Spec, SpeaksOncePerGeneration

\* No call takes the generation back, and nothing reopens a closed session.
LEMMA GenerationsOnlyGrow ==
    ASSUME IInv, Next
    PROVE  /\ session'.gen \in Nat
           /\ session'.gen >= session.gen
           /\ session.state = "closed" => session'.state = "closed"
<1>1. session \in SessionType /\ session.gen \in Nat
  BY DEF IInv, TypeOK, SessionType
<1>2. Interrupted(session).gen \in Nat /\ Interrupted(session).gen >= session.gen
  BY <1>1, NextGenerationIsFresh DEF Interrupted, At
<1>3. CASE ReceiveHello \/ StopListening \/ Close
  BY <1>1, <1>3
  DEF ReceiveHello, CanReceiveHello, HelloReceived, StopListening,
      CanStopListening, ListeningStopped, Close, Closed, Becomes, In
<1>4. CASE ServerHelloSent
  BY <1>1, <1>4
  DEF ServerHelloSent, CanSendServerHello, HelloAnswered, Becomes, At,
      SessionType, IInv, BeforeHello
<1>5. CASE StartListening
  <2>1. session' = ListeningStarted(session) /\ CanStartListening(session)
    BY <1>5 DEF StartListening, Becomes
  <2>2. CASE session.state = "listening"
    BY <1>1, <2>1, <2>2 DEF ListeningStarted
  <2>3. CASE session.state # "listening"
    BY <2>1, <2>3, ListeningIsFresh DEF SessionType, CanStartListening
  <2>4. QED
    BY <2>2, <2>3
<1>6. CASE Abort
  BY <1>2, <1>6 DEF Abort, Becomes, Interrupted
<1>7. ASSUME NEW g \in issued,
             \/ BeginSpeaking(g)
             \/ CompleteSpeaking(g)
             \/ CompleteListeningNoSpeech(g)
      PROVE  session'.gen = session.gen /\ session.state # "closed"
  BY <1>7
  DEF BeginSpeaking, CanBeginSpeaking, SpeakingBegun, CompleteSpeaking,
      CanCompleteSpeaking, SpeakingCompleted, CompleteListeningNoSpeech,
      CanCompleteNoSpeech, NoSpeechCompleted, Becomes, In
<1>8. ASSUME NEW g \in issued, ProviderFatalResetForGeneration(g)
      PROVE  \/ session' = session
             \/ session' = Interrupted(session) /\ session.state # "closed"
  BY <1>8
  DEF ProviderFatalResetForGeneration, ResetForGeneration, AcceptsGeneration,
      Becomes
<1>9. QED
  BY <1>1, <1>2, <1>3, <1>4, <1>5, <1>6, <1>7, <1>8 DEF Next

\* A stale generation stays stale: AcceptsGeneration never turns true again for
\* a generation it has refused.
THEOREM StaleStaysStale == Spec => RetiredGenerationsStayRetired
<1>1. IInv /\ [Next]_vars
        => [\A g \in issued : ~AcceptsGeneration(session, g)
                                 => ~AcceptsGeneration(session', g)]_vars
  <2> SUFFICES ASSUME IInv, Next,
                      NEW g \in issued, ~AcceptsGeneration(session, g)
               PROVE  ~AcceptsGeneration(session', g)
    BY DEF vars
  <2>1. g \in Nat /\ g <= session.gen /\ session.gen \in Nat
    BY DEF IInv, TypeOK, SessionType, HistoryIsPast
  <2>2. session.state = "closed" \/ g < session.gen
    BY <2>1 DEF AcceptsGeneration
  <2>3. session'.state = "closed" \/ g < session'.gen
    BY <2>1, <2>2, GenerationsOnlyGrow
  <2>4. QED
    BY <2>1, <2>3, GenerationsOnlyGrow DEF AcceptsGeneration
<1>2. QED
  BY <1>1, InductiveInvariant, PTL DEF Spec, RetiredGenerationsStayRetired
=============================================================================
