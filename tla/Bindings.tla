----------------------------- MODULE Bindings ------------------------------
(***************************************************************************)
(* The WebSocket connections of ONE device and the two registries that say  *)
(* which of them the gateway serves: session.Manager (session/manager.go),  *)
(* which owns the sessions, and gatewayVoiceLoops (app/app.go), which binds *)
(* a transport to its voice loop.  Each has a mutex of its own and they are *)
(* updated one after the other, by a goroutine per connection (OnConnect,   *)
(* then readWebSocketLoop, then OnDisconnect) and by the shutdown.  Devices *)
(* share nothing but the mutexes, so one device is enough.                  *)
(*                                                                          *)
(* What a voice loop does with its session is reduced to what these         *)
(* registries tell apart: generations that advance and sessions that close  *)
(* (VoiceLoop has the rest).                                                *)
(***************************************************************************)
EXTENDS SessionCore

CONSTANTS
    Conns,      \* the connections the device ever makes
    None,       \* no connection
    Writers,    \* bound: connections whose senders are seen holding writeMu
    MaxGen      \* bound: no step takes a generation beyond it

ASSUME NoneAssumption == None \notin Conns

VARIABLES
    pc,         \* where each connection's goroutine is
    closing,    \* the connection whose binding that goroutine is closing
    session,    \* the session made for each connection
    created,    \* connections whose session exists
    known,      \* Manager.byID
    managed,    \* Manager.activeByDevice of the device
    lock,       \* who holds Manager.mu between two uses of a session's mutex
    stored,     \* gatewayVoiceLoops.byTransport
    current,    \* gatewayVoiceLoops.byDevice of the device
    shut,       \* gatewayVoiceLoops.closed
    job,        \* how far closeBinding has come for each binding
    live,       \* bindings whose context is not cancelled
    open,       \* transports whose socket can still be read
    writing     \* transports whose writeMu a sender holds

registries == <<known, managed, stored, current, shut>>
vars == <<pc, closing, session, created, known, managed, lock, stored, current,
          shut, job, live, open, writing>>

Steps == {"idle", "create", "close", "store", "wait", "serve", "handle",
          "leave", "gone"}
Jobs  == {"none", "cancel", "loop", "forget", "hangup", "done"}

Init ==
    /\ pc = [c \in Conns |-> "idle"]
    /\ closing = [c \in Conns |-> None]
    /\ session = [c \in Conns |-> NewSession(1)]
    /\ created = {} /\ known = {} /\ managed = None /\ lock = None
    /\ stored = {} /\ current = None /\ shut = FALSE
    /\ job = [c \in Conns |-> "none"]
    /\ live = {} /\ open = {} /\ writing = {}

Goes(c, step) == pc' = [pc EXCEPT ![c] = step]

-----------------------------------------------------------------------------
\* An upgraded connection: refused at once if the shutdown has begun.
Connect(c) ==
    /\ pc[c] = "idle"
    /\ IF shut THEN Goes(c, "serve") /\ UNCHANGED open
               ELSE Goes(c, "create") /\ open' = open \cup {c}
    /\ UNCHANGED <<closing, session, created, registries, lock, job, live, writing>>

\* Manager.CreateSession, up to the previous session's CurrentGeneration().
CreateRead(c) ==
    /\ pc[c] = "create" /\ lock = None
    /\ lock' = c
    /\ session' = [session EXCEPT ![c] =
          NewSession(IF managed = None THEN 1 ELSE session[managed].gen + 1)]
    /\ Goes(c, "close")
    /\ UNCHANGED <<closing, created, registries, job, live, open, writing>>

\* Mutant: a path out of CreateSession that does not unlock.
KeepsLock == lock' = lock

Unlocks == lock' = None

\* ... and from its Close() to the end; the voice loop is built around it.
CreateClose(c) ==
    /\ pc[c] = "close" /\ lock = c
    /\ session' = IF managed = None THEN session
                  ELSE [session EXCEPT ![managed] = Closed(@)]
    /\ created' = created \cup {c} /\ known' = known \cup {c} /\ managed' = c
    /\ live' = live \cup {c}
    /\ Unlocks
    /\ Goes(c, "store")
    /\ UNCHANGED <<closing, stored, current, shut, job, open, writing>>

\* The goroutine c closes the binding of k and waits for it.
Closes(c, k) ==
    /\ job' = [job EXCEPT ![k] = "cancel"]
    /\ closing' = [closing EXCEPT ![c] = k]

\* Mutant: a refused binding is dropped and not closed.
DropsRefused(c) == Goes(c, "serve") /\ UNCHANGED <<job, closing>>

ClosesRefused(c) == Goes(c, "wait") /\ Closes(c, c)

\* Store refuses a binding that was made while the shutdown began.
StoreRejected(c) ==
    /\ pc[c] = "store" /\ shut
    /\ ClosesRefused(c)
    /\ UNCHANGED <<session, created, registries, lock, live, open, writing>>

TableWith(c) == (stored \ {current}) \cup {c}

\* Store: the binding the device had is taken out and closed by c's goroutine
\* before c's read loop starts.
Store(c) ==
    /\ pc[c] = "store" /\ ~shut
    /\ stored' = TableWith(c) /\ current' = c
    /\ IF current \in stored
       THEN Closes(c, current) /\ Goes(c, "wait")
       ELSE Goes(c, "serve") /\ UNCHANGED <<job, closing>>
    /\ UNCHANGED <<session, created, known, managed, lock, shut, live, open, writing>>

\* closeBinding has returned to c's goroutine.
Resume(c) ==
    /\ pc[c] \in {"wait", "leave"} /\ job[closing[c]] = "done"
    /\ Goes(c, IF pc[c] = "wait" THEN "serve" ELSE "gone")
    /\ closing' = [closing EXCEPT ![c] = None]
    /\ UNCHANGED <<session, created, registries, lock, job, live, open, writing>>

-----------------------------------------------------------------------------
\* A message is read and Load finds its loop; without one it is dropped.
Receive(c) ==
    /\ pc[c] = "serve" /\ c \in open /\ c \in stored
    /\ Goes(c, "handle")
    /\ UNCHANGED <<closing, session, created, registries, lock, job, live, open,
                   writing>>

\* What a handler can make of the session; a refused message changes nothing.
HandlerOutcomes(s) ==
    {s, Interrupted(s)}
    \cup (IF CanReceiveHello(s) THEN {HelloAnswered(HelloReceived(s))} ELSE {})
    \cup (IF CanStartListening(s) THEN {ListeningStarted(s)} ELSE {})

\* The handler ends, whatever has become of the binding in the meantime.
Handle(c) ==
    /\ pc[c] = "handle"
    /\ \E s \in HandlerOutcomes(session[c]) :
          s.gen <= MaxGen /\ session' = [session EXCEPT ![c] = s]
    /\ Goes(c, "serve")
    /\ UNCHANGED <<closing, created, registries, lock, job, live, open, writing>>

\* A turn's goroutine meets a fatal provider error, bound or not.
TurnFails(c) ==
    /\ c \in created /\ session[c].state \in InTurn
    /\ session[c].gen < MaxGen
    /\ session' = [session EXCEPT ![c] = ResetForGeneration(@, @.gen)]
    /\ UNCHANGED <<pc, closing, created, registries, lock, job, live, open, writing>>

\* The device goes away.
Drop(c) ==
    /\ c \in open
    /\ open' = open \ {c}
    /\ UNCHANGED <<pc, closing, session, created, registries, lock, job, live, writing>>

\* Senders hold writeMu while they write, and a write has no deadline.
BeginWrite(c) ==
    /\ c \in created \cap open \cap Writers /\ c \notin writing
    /\ writing' = writing \cup {c}
    /\ UNCHANGED <<pc, closing, session, created, registries, lock, job, live, open>>

EndWrite(c) ==
    /\ c \in writing
    /\ writing' = writing \ {c}
    /\ UNCHANGED <<pc, closing, session, created, registries, lock, job, live, open>>

Deletes(c) == c \in stored

\* OnDisconnect: only the goroutine whose Delete finds the entry closes it.
Disconnect(c) ==
    /\ pc[c] = "serve" /\ c \notin open
    /\ stored' = stored \ {c}
    /\ current' = IF c \in stored /\ current = c THEN None ELSE current
    /\ IF Deletes(c)
       THEN Closes(c, c) /\ Goes(c, "leave")
       ELSE Goes(c, "gone") /\ UNCHANGED <<job, closing>>
    /\ UNCHANGED <<session, created, known, managed, lock, shut, live, open, writing>>

\* CloseAll takes every binding out and closes them; later Stores are refused.
ShutDown ==
    /\ ~shut
    /\ shut' = TRUE /\ stored' = {} /\ current' = None
    /\ job' = [k \in Conns |-> IF k \in stored THEN "cancel" ELSE job[k]]
    /\ UNCHANGED <<pc, closing, session, created, known, managed, lock, live, open,
                   writing>>

-----------------------------------------------------------------------------
\* closeBinding, one call after the other.
Job(k, from, to) == job[k] = from /\ job' = [job EXCEPT ![k] = to]

CancelBinding(k) ==
    /\ Job(k, "cancel", "loop")
    /\ live' = live \ {k}
    /\ UNCHANGED <<pc, closing, session, created, registries, lock, open, writing>>

CloseLoop(k) ==
    /\ Job(k, "loop", "forget")
    /\ session' = [session EXCEPT ![k] = Closed(@)]
    /\ UNCHANGED <<pc, closing, created, registries, lock, live, open, writing>>

\* Mutant: the session of another binding is taken for this one's.
NoActive(k) == None

ActiveWithout(k) == IF managed = k THEN None ELSE managed
IDsWithout(k) == known \ {k}

\* Manager.CloseSession; OnDisconnect passes no transport to be hung up.
Forget(k) ==
    /\ lock = None
    /\ Job(k, "forget", IF pc[k] = "leave" THEN "done" ELSE "hangup")
    /\ session' = [session EXCEPT ![k] = Closed(@)]
    /\ managed' = ActiveWithout(k) /\ known' = IDsWithout(k)
    /\ UNCHANGED <<pc, closing, created, stored, current, shut, lock, live, open, writing>>

\* Transport.Close waits for writeMu.
HangUp(k) ==
    /\ Job(k, "hangup", "done")
    /\ k \notin writing
    /\ open' = open \ {k}
    /\ UNCHANGED <<pc, closing, session, created, registries, lock, live, writing>>

-----------------------------------------------------------------------------
Next ==
    \/ ShutDown
    \/ \E c \in Conns :
          \/ Connect(c)
          \/ CreateRead(c)
          \/ CreateClose(c)
          \/ StoreRejected(c)
          \/ Store(c)
          \/ Resume(c)
          \/ Receive(c)
          \/ Handle(c)
          \/ TurnFails(c)
          \/ Drop(c)
          \/ BeginWrite(c)
          \/ EndWrite(c)
          \/ Disconnect(c)
          \/ CancelBinding(c)
          \/ CloseLoop(c)
          \/ Forget(c)
          \/ HangUp(c)

Spec == Init /\ [][Next]_vars

\* The steps of a connection's goroutine that wait for nobody but the mutexes.
Goroutine(c) ==
    CreateRead(c) \/ CreateClose(c) \/ StoreRejected(c) \/ Store(c) \/ Resume(c)
    \/ Handle(c) \/ Disconnect(c)

CloseBinding(k) == CancelBinding(k) \/ CloseLoop(k) \/ Forget(k) \/ HangUp(k)

\* A goroutine that can run does; a blocked write ends (the kernel gives the
\* link up); writeMu is handed to a waiter although senders keep asking for it
\* (Go's mutexes have a starvation mode), hence SF.
Fairness ==
    \A c \in Conns :
        WF_vars(Goroutine(c)) /\ SF_vars(CloseBinding(c)) /\ WF_vars(EndWrite(c))

FairSpec == Spec /\ Fairness

-----------------------------------------------------------------------------
IsOpen(c) == c \in created /\ session[c].state # "closed"

TypeOK ==
    /\ pc \in [Conns -> Steps]
    /\ closing \in [Conns -> Conns \cup {None}]
    /\ session \in [Conns -> SessionType]
    /\ created \subseteq Conns /\ known \subseteq created
    /\ managed \in known \cup {None}
    /\ lock \in Conns \cup {None}
    /\ stored \subseteq created
    /\ current \in stored \cup {None}
    /\ shut \in BOOLEAN
    /\ job \in [Conns -> Jobs]
    /\ live \subseteq created /\ open \subseteq Conns /\ writing \subseteq Conns

\* At most one session of the device is open, and it is the one the manager has
\* for it, however connects, disconnects and closeBinding calls interleave
\* (CreateSession, CloseSession): an old session's turns cannot go on beside a
\* new session's.  And at most one transport of the device reaches a voice loop,
\* the one byDevice names (Store, Delete, DeleteAll).
OneOpenSession ==
    /\ \A c \in Conns : IsOpen(c) => managed = c
    /\ stored \subseteq {current}

\* A session whose connection has been set up stays open, and its binding's
\* context alive, only while the binding can still be found by a disconnect or a
\* shutdown, or is being closed: none is left with nobody to close it, when
\* Store is refused, when a binding is replaced or when the shutdown races a
\* connect (OnConnect, OnDisconnect, CloseAll).
OpenIsOwned ==
    \A c \in Conns :
        /\ IsOpen(c) => pc[c] = "store" \/ c \in stored \/ job[c] \in {"cancel", "loop"}
        /\ c \in live => pc[c] = "store" \/ c \in stored \/ job[c] = "cancel"

\* Once the shutdown has begun every session ends closed, those of connections
\* that had passed the first check (IsClosed) included.
ShutdownClosesSessions == shut ~> \A c \in Conns : ~IsOpen(c)

\* A connection reaches its read loop (or is refused) although its goroutine
\* first closes the previous binding, whose transport may be stuck in a write;
\* and one whose device has gone away is forgotten by the manager, so that byID
\* and byTransport do not keep the sessions of dead links.
ConnectionsAreServed ==
    \A c \in Conns :
        /\ pc[c] = "create" ~> pc[c] \in {"serve", "gone"}
        /\ pc[c] # "idle" /\ c \notin open ~> pc[c] = "gone" /\ c \notin known
-----------------------------------------------------------------------------
\* The inductive strengthening used by the proofs: Manager.mu is held from the
\* read of the previous generation to the end of CreateSession, and by nobody
\* else in between ...
LockIsHeld == \A c \in Conns : pc[c] = "close" <=> lock = c

\* ... so a connection's session is not created before that, and then stays.
CreatedInOrder ==
    \A c \in Conns :
        /\ pc[c] \in {"idle", "create", "close"} => c \notin created
        /\ pc[c] \in {"store", "wait", "handle", "leave"} => c \in created

\* A goroutine waits only for a closeBinding that somebody runs.
WaitsForAJob ==
    \A c \in Conns :
        pc[c] \in {"wait", "leave"} => closing[c] \in Conns /\ job[closing[c]] # "none"

IInv ==
    /\ TypeOK
    /\ LockIsHeld
    /\ CreatedInOrder
    /\ WaitsForAJob
    /\ OneOpenSession
    /\ OpenIsOwned
=============================================================================
