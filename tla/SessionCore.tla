---------------------------- MODULE SessionCore ----------------------------
(***************************************************************************)
(* The value kept by session.Session (session/session.go, session/state.go) *)
(* and what each of its methods makes of it.  Every method of the code      *)
(* holds the session's mutex from its first line to its return, so a method *)
(* is one operator here: Can... is the condition under which it does not    *)
(* return a TransitionError, the other operator is the session it leaves.   *)
(* Session, VoiceLoop and Bindings are all built from these operators.      *)
(***************************************************************************)
EXTENDS Integers

States == {"connected", "hello_received", "idle", "listening", "processing",
           "speaking", "interrupted", "closed"}

\* The states in which a turn owns the current generation.
InTurn == {"listening", "processing", "speaking"}

\* gen is the current generation, first the one a hello hands out
\* (firstGenerationOnHello), used says that a turn has taken gen.
SessionType == [state : States, gen : Nat, first : Nat \ {0}, used : BOOLEAN]

NewSession(first) ==
    [state |-> "connected", gen |-> 0, first |-> first, used |-> FALSE]

\* s in another state, and in another generation that is used or not.
In(s, state) ==
    [state |-> state, gen |-> s.gen, first |-> s.first, used |-> s.used]
At(s, state, gen, used) ==
    [state |-> state, gen |-> gen, first |-> s.first, used |-> used]

AcceptsGeneration(s, g) == s.state # "closed" /\ g = s.gen

NextGeneration(s) == IF s.gen < 1 THEN s.first ELSE s.gen + 1

\* Mutant: a second hello on an open session is answered like the first.
CanReceiveHelloAgain(s) == s.state # "closed"

CanReceiveHello(s) == s.state = "connected"
HelloReceived(s)   == In(s, "hello_received")

CanSendServerHello(s) == s.state = "hello_received"
HelloAnswered(s)      == At(s, "idle", s.first, FALSE)

CanStartListening(s) ==
    s.state \in {"idle", "interrupted", "listening", "processing", "speaking"}

\* Mutant: only a barge-in opens a generation, a completed turn's is reused.
NeedsFreshOnBargeIn(s) == s.state \in {"processing", "speaking"}

\* A second listen/start while listening continues the turn it finds; after an
\* abort the turn takes the generation the abort has already opened.
NeedsFreshGeneration(s) ==
    \/ s.state = "idle" /\ s.used
    \/ s.state \in {"processing", "speaking"}

\* Mutant: the generation that starts to listen is not marked as used.
ListeningStartedUnmarked(s) ==
    IF s.state = "listening" THEN s
    ELSE At(s, "listening",
            IF NeedsFreshGeneration(s) THEN NextGeneration(s) ELSE s.gen, FALSE)

ListeningStarted(s) ==
    IF s.state = "listening" THEN s
    ELSE At(s, "listening",
            IF NeedsFreshGeneration(s) THEN NextGeneration(s) ELSE s.gen, TRUE)

CanStopListening(s) == s.state = "listening"
ListeningStopped(s) == In(s, "processing")

\* Mutant: the generation is checked and the state is not.
CanBeginSpeakingAnyState(s, g) == s.state # "closed" /\ g = s.gen

CanBeginSpeaking(s, g) == s.state = "processing" /\ g = s.gen
SpeakingBegun(s)       == In(s, "speaking")

CanCompleteSpeaking(s, g) == s.state = "speaking" /\ g = s.gen
SpeakingCompleted(s)      == In(s, "idle")

CanCompleteNoSpeech(s, g) == s.state = "listening" /\ g = s.gen
NoSpeechCompleted(s)      == In(s, "idle")

\* Abort and ProviderFatalReset have the same body.
Interrupted(s) ==
    IF s.state = "closed" THEN s
    ELSE At(s, "interrupted", NextGeneration(s), FALSE)

\* ProviderFatalResetForGeneration resets only the generation that failed.
ResetForGeneration(s, g) ==
    IF AcceptsGeneration(s, g) THEN Interrupted(s) ELSE s

Closed(s) == In(s, "closed")
=============================================================================
