------------------------------ MODULE Session ------------------------------
(***************************************************************************)
(* One session.Session under arbitrary callers.  The read loop, the ASR     *)
(* pumps, the timers and the connection registry call its methods in any    *)
(* order, and those that name a generation name one that some earlier call  *)
(* handed out in a Turn, however old.  The properties are what the rest of  *)
(* the gateway relies on when it tags its work with a generation.           *)
(***************************************************************************)
EXTENDS SessionCore

CONSTANTS
    FirstGenerations,   \* the values Manager.CreateSession may start it with
    MaxGen              \* bound: no step takes the generation beyond it

ASSUME FirstGenerationsAssumption == FirstGenerations \subseteq Nat \ {0}

VARIABLES
    session,    \* the session's fields
    issued,     \* generations handed out in Turns: what callers may name
    listened,   \* history: generations for which a turn began listening
    spoken      \* history: generations that began speaking

vars == <<session, issued, listened, spoken>>

Init ==
    /\ \E first \in FirstGenerations : session = NewSession(first)
    /\ issued = {0}
    /\ listened = {}
    /\ spoken = {}

\* A method returns having made the session s, its Turn naming s.gen.
Becomes(s) ==
    /\ s.gen <= MaxGen
    /\ session' = s
    /\ issued' = issued \cup {s.gen}

ReceiveHello ==
    /\ CanReceiveHello(session)
    /\ Becomes(HelloReceived(session))
    /\ UNCHANGED <<listened, spoken>>

ServerHelloSent ==
    /\ CanSendServerHello(session)
    /\ Becomes(HelloAnswered(session))
    /\ UNCHANGED <<listened, spoken>>

StartListening ==
    /\ CanStartListening(session)
    /\ Becomes(ListeningStarted(session))
    /\ listened' = listened \cup {session'.gen}
    /\ UNCHANGED spoken

StopListening ==
    /\ CanStopListening(session)
    /\ Becomes(ListeningStopped(session))
    /\ UNCHANGED <<listened, spoken>>

BeginSpeaking(g) ==
    /\ CanBeginSpeaking(session, g)
    /\ Becomes(SpeakingBegun(session))
    /\ spoken' = spoken \cup {g}
    /\ UNCHANGED listened

CompleteSpeaking(g) ==
    /\ CanCompleteSpeaking(session, g)
    /\ Becomes(SpeakingCompleted(session))
    /\ UNCHANGED <<listened, spoken>>

CompleteListeningNoSpeech(g) ==
    /\ CanCompleteNoSpeech(session, g)
    /\ Becomes(NoSpeechCompleted(session))
    /\ UNCHANGED <<listened, spoken>>

Abort ==
    /\ Becomes(Interrupted(session))
    /\ UNCHANGED <<listened, spoken>>

ProviderFatalResetForGeneration(g) ==
    /\ Becomes(ResetForGeneration(session, g))
    /\ UNCHANGED <<listened, spoken>>

Close ==
    /\ Becomes(Closed(session))
    /\ UNCHANGED <<listened, spoken>>

Next ==
    \/ ReceiveHello
    \/ ServerHelloSent
    \/ StartListening
    \/ StopListening
    \/ Abort
    \/ Close
    \/ \E g \in issued :
          \/ BeginSpeaking(g)
          \/ CompleteSpeaking(g)
          \/ CompleteListeningNoSpeech(g)
          \/ ProviderFatalResetForGeneration(g)

Spec == Init /\ [][Next]_vars

-----------------------------------------------------------------------------
TypeOK ==
    /\ session \in SessionType
    /\ issued \subseteq Nat
    /\ listened \subseteq Nat
    /\ spoken \subseteq Nat

\* While the session is listening, processing or speaking, the current
\* generation is one a listen/start opened, and it is marked as used: no call
\* order lets audio be recognised or spoken for a generation no turn owns.
TurnOwnsGeneration ==
    session.state \in InTurn => session.gen \in listened /\ session.used

\* Two turns never share a generation: whenever listening is entered from
\* another state (StartListening), it is for a generation that was never
\* listened for, whatever aborts, resets, time-outs and completions came before.
TurnsHaveFreshGenerations ==
    [][session.state # "listening" /\ session'.state = "listening"
          => session'.gen \notin listened]_vars

\* A generation begins speaking at most once, so the first frame of a turn
\* cannot start it a second time (BeginSpeaking).
SpeaksOncePerGeneration ==
    [][session.state # "speaking" /\ session'.state = "speaking"
          => session'.gen \notin spoken]_vars

\* A generation that has been handed out and is no longer accepted is never
\* accepted again (AcceptsGeneration): a stale provider result stays stale, also
\* across hello, failed listen/starts and close.
RetiredGenerationsStayRetired ==
    [][\A g \in issued : ~AcceptsGeneration(session, g)
                            => ~AcceptsGeneration(session', g)]_vars

-----------------------------------------------------------------------------
\* The inductive strengthening used by the proofs.
BeforeHello ==
    session.state \in {"connected", "hello_received"}
        => session.gen = 0 /\ ~session.used

HistoryIsPast ==
    /\ \A g \in issued : g <= session.gen
    /\ \A g \in listened : 1 <= g /\ g <= session.gen

\* used tells a generation that a turn took from one nobody has listened for.
UsedIsListened == session.gen \in listened => session.used

InterruptedIsFresh ==
    session.state = "interrupted" => ~session.used /\ session.gen >= 1

\* The generation of an idle session is one a hello opened.
IdleIsOpen == session.state = "idle" => session.gen >= 1

\* Only listening, or what follows it, can have spoken; a turn that has not
\* reached speaking has not spoken.
SpokenIsPast ==
    /\ spoken \subseteq listened
    /\ session.state \in {"listening", "processing"} => session.gen \notin spoken

IInv ==
    /\ TypeOK
    /\ TurnOwnsGeneration
    /\ BeforeHello
    /\ HistoryIsPast
    /\ UsedIsListened
    /\ InterruptedIsFresh
    /\ IdleIsOpen
    /\ SpokenIsPast
=============================================================================
