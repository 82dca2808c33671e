--------------------------- MODULE BindingsProofs ---------------------------
(***************************************************************************)
(* The inductive invariant of Bindings and its consequences, for every set  *)
(* of connections, every set of writers and every bound on generations.     *)
(***************************************************************************)
EXTENDS Bindings, TLAPS

\* What the methods of a session that the registries call make of it.
LEMMA NewSessionIsTyped ==
    ASSUME NEW first \in Nat \ {0}
    PROVE  NewSession(first) \in SessionType
  BY DEF NewSession, SessionType, States

LEMMA ClosedIsClosed ==
    ASSUME NEW s \in SessionType
    PROVE  Closed(s) \in SessionType /\ Closed(s).state = "closed"
  BY DEF Closed, In, SessionType, States

LEMMA InterruptedIsTyped ==
    ASSUME NEW s \in SessionType
    PROVE  /\ Interrupted(s) \in SessionType
           /\ s.state = "closed" => Interrupted(s).state = "closed"
<1>1. NextGeneration(s) \in Nat
  BY DEF NextGeneration, SessionType
<1>2. QED
  BY <1>1 DEF Interrupted, At, SessionType, States

\* A handler never opens a session again that has been closed under it.
LEMMA HandlersKeepClosed ==
    ASSUME NEW s \in SessionType, NEW r \in HandlerOutcomes(s)
    PROVE  /\ r \in SessionType
           /\ s.state = "closed" => r.state = "closed"
<1>1. CASE r \in {s, Interrupted(s)}
  BY <1>1, InterruptedIsTyped
<1>2. CASE CanReceiveHello(s) /\ r = HelloAnswered(HelloReceived(s))
  BY <1>2
  DEF CanReceiveHello, HelloAnswered, HelloReceived, In, At, SessionType, States
<1>3. CASE CanStartListening(s) /\ r = ListeningStarted(s)
  <2>1. NextGeneration(s) \in Nat
    BY DEF NextGeneration, SessionType
  <2>2. QED
    BY <1>3, <2>1
    DEF CanStartListening, ListeningStarted, At, SessionType, States
<1>4. QED
  BY <1>1, <1>2, <1>3 DEF HandlerOutcomes

\* Nothing exists before the first connection.
LEMMA InitInvariant == Init => IInv
<1> SUFFICES ASSUME Init PROVE IInv
  OBVIOUS
<1>1. TypeOK
  <2>1. NewSession(1) \in SessionType
    BY NewSessionIsTyped
  <2>2. QED
    BY <2>1 DEF Init, TypeOK, Steps, Jobs
<1>2. LockIsHeld /\ CreatedInOrder /\ WaitsForAJob
  BY NoneAssumption DEF Init, LockIsHeld, CreatedInOrder, WaitsForAJob
<1>3. OneOpenSession /\ OpenIsOwned
  BY DEF Init, OneOpenSession, OpenIsOwned, IsOpen
<1>4. QED
  BY <1>1, <1>2, <1>3 DEF IInv

-----------------------------------------------------------------------------
\* One lemma per step of a connection's goroutine.
LEMMA ConnectPreserves ==
    ASSUME IInv, NEW c \in Conns, Connect(c)
    PROVE  IInv'
<1> USE DEF Connect, Goes, registries
<1>1. TypeOK'
  BY DEF IInv, TypeOK, Steps
<1>2. LockIsHeld' /\ CreatedInOrder' /\ WaitsForAJob'
  BY DEF IInv, TypeOK, LockIsHeld, CreatedInOrder, WaitsForAJob
<1>3. OneOpenSession' /\ OpenIsOwned'
  BY DEF IInv, TypeOK, OneOpenSession, OpenIsOwned, IsOpen
<1>4. QED
  BY <1>1, <1>2, <1>3 DEF IInv

\* The session that is being created is not among the created ones, so that it
\* is open does not matter yet.
LEMMA CreateReadPreserves ==
    ASSUME IInv, NEW c \in Conns, CreateRead(c)
    PROVE  IInv'
<1> USE DEF CreateRead, Goes, registries
<1>1. c \notin created /\ lock = None
  BY DEF IInv, CreatedInOrder
<1>2. session'[c] \in SessionType
  <2>1. managed # None => session[managed] \in SessionType
    BY DEF IInv, TypeOK
  <2>2. QED
    BY <2>1, NewSessionIsTyped DEF IInv, TypeOK, SessionType
<1>3. TypeOK'
  BY <1>2 DEF IInv, TypeOK, Steps
<1>4. LockIsHeld' /\ CreatedInOrder' /\ WaitsForAJob'
  BY <1>1, NoneAssumption
  DEF IInv, TypeOK, LockIsHeld, CreatedInOrder, WaitsForAJob
<1>5. OneOpenSession' /\ OpenIsOwned'
  BY <1>1 DEF IInv, TypeOK, OneOpenSession, OpenIsOwned, IsOpen
<1>6. QED
  BY <1>3, <1>4, <1>5 DEF IInv

\* The only session that could be open is the one that is closed here.
LEMMA CreateClosePreserves ==
    ASSUME IInv, NEW c \in Conns, CreateClose(c)
    PROVE  IInv'
<1> USE DEF CreateClose, Goes, Unlocks
<1>1. c \notin created /\ c \notin stored
  BY DEF IInv, TypeOK, CreatedInOrder
<1>2. managed # None =>
        /\ managed \in created
        /\ session'[managed] \in SessionType
        /\ session'[managed].state = "closed"
  BY ClosedIsClosed DEF IInv, TypeOK
<1>3. \A k \in Conns : k # managed => session'[k] = session[k]
  BY DEF IInv, TypeOK
<1>4. TypeOK'
  BY <1>2, <1>3 DEF IInv, TypeOK, Steps
<1>5. LockIsHeld' /\ CreatedInOrder' /\ WaitsForAJob'
  BY <1>1, NoneAssumption
  DEF IInv, TypeOK, LockIsHeld, CreatedInOrder, WaitsForAJob
<1>6. OneOpenSession'
  <2>1. ASSUME NEW k \in Conns, IsOpen(k)', k # c
        PROVE  FALSE
    <3>1. k \in created
      BY <2>1 DEF IsOpen
    <3>2. k # managed
      BY <1>2, <2>1, NoneAssumption DEF IsOpen
    <3>3. IsOpen(k)
      BY <1>3, <2>1, <3>1, <3>2 DEF IsOpen
    <3>4. QED
      BY <3>2, <3>3 DEF IInv, OneOpenSession
  <2>2. QED
    BY <2>1 DEF IInv, OneOpenSession
<1>7. OpenIsOwned'
  BY <1>1, <1>2, <1>3 DEF IInv, TypeOK, OpenIsOwned, IsOpen
<1>8. QED
  BY <1>4, <1>5, <1>6, <1>7 DEF IInv

LEMMA StoreRejectedPreserves ==
    ASSUME IInv, NEW c \in Conns, StoreRejected(c)
    PROVE  IInv'
<1> USE DEF StoreRejected, ClosesRefused, Closes, Goes, registries
<1>1. TypeOK'
  BY DEF IInv, TypeOK, Steps, Jobs
<1>2. LockIsHeld' /\ CreatedInOrder' /\ WaitsForAJob'
  BY DEF IInv, TypeOK, LockIsHeld, CreatedInOrder, WaitsForAJob
<1>3. OneOpenSession' /\ OpenIsOwned'
  BY DEF IInv, TypeOK, OneOpenSession, OpenIsOwned, IsOpen
<1>4. QED
  BY <1>1, <1>2, <1>3 DEF IInv

\* What Store takes out of the table it closes itself.
LEMMA StorePreserves ==
    ASSUME IInv, NEW c \in Conns, Store(c)
    PROVE  IInv'
<1> USE DEF Store, TableWith, Closes, Goes
<1>1. /\ stored' = {c}
      /\ current' = c
      /\ c \in created
      /\ \A k \in stored : k = current
  BY DEF IInv, OneOpenSession, CreatedInOrder
<1>2. current \in stored => current \in Conns
  BY DEF IInv, TypeOK
<1>3. TypeOK'
  BY <1>1, <1>2 DEF IInv, TypeOK, Steps, Jobs
<1>4. LockIsHeld' /\ CreatedInOrder' /\ WaitsForAJob'
  BY <1>1, <1>2 DEF IInv, TypeOK, LockIsHeld, CreatedInOrder, WaitsForAJob
<1>5. OneOpenSession'
  BY <1>1 DEF IInv, OneOpenSession, IsOpen
<1>6. OpenIsOwned'
  BY <1>1, <1>2 DEF IInv, TypeOK, OpenIsOwned, IsOpen
<1>7. QED
  BY <1>3, <1>4, <1>5, <1>6 DEF IInv

LEMMA ResumePreserves ==
    ASSUME IInv, NEW c \in Conns, Resume(c)
    PROVE  IInv'
<1> USE DEF Resume, Goes, registries
<1>1. TypeOK'
  BY DEF IInv, TypeOK, Steps
<1>2. LockIsHeld' /\ CreatedInOrder' /\ WaitsForAJob'
  BY DEF IInv, TypeOK, LockIsHeld, CreatedInOrder, WaitsForAJob
<1>3. OneOpenSession' /\ OpenIsOwned'
  BY DEF IInv, TypeOK, OneOpenSession, OpenIsOwned, IsOpen
<1>4. QED
  BY <1>1, <1>2, <1>3 DEF IInv

LEMMA ReceivePreserves ==
    ASSUME IInv, NEW c \in Conns, Receive(c)
    PROVE  IInv'
<1> USE DEF Receive, Goes, registries
<1>1. TypeOK'
  BY DEF IInv, TypeOK, Steps
<1>2. LockIsHeld' /\ CreatedInOrder' /\ WaitsForAJob'
  BY DEF IInv, TypeOK, LockIsHeld, CreatedInOrder, WaitsForAJob
<1>3. OneOpenSession' /\ OpenIsOwned'
  BY DEF IInv, TypeOK, OneOpenSession, OpenIsOwned, IsOpen
<1>4. QED
  BY <1>1, <1>2, <1>3 DEF IInv

\* A session that a step replaces by one that is not open when it was not, and
\* nothing else but a goroutine's place outside CreateSession, OnConnect and
\* OnDisconnect.
LEMMA HandlePreserves ==
    ASSUME IInv, NEW c \in Conns, Handle(c)
    PROVE  IInv'
<1> USE DEF Handle, Goes, registries
<1>1. PICK s \in HandlerOutcomes(session[c]) :
          session' = [session EXCEPT ![c] = s]
  OBVIOUS
<1>2. /\ s \in SessionType
      /\ session[c].state = "closed" => s.state = "closed"
  BY HandlersKeepClosed DEF IInv, TypeOK
<1>3. TypeOK'
  BY <1>1, <1>2 DEF IInv, TypeOK, Steps
<1>4. LockIsHeld' /\ CreatedInOrder' /\ WaitsForAJob'
  BY DEF IInv, TypeOK, LockIsHeld, CreatedInOrder, WaitsForAJob
<1>5. \A k \in Conns : IsOpen(k)' => IsOpen(k)
  BY <1>1, <1>2 DEF IInv, TypeOK, IsOpen
<1>6. OneOpenSession' /\ OpenIsOwned'
  BY <1>5 DEF IInv, TypeOK, OneOpenSession, OpenIsOwned
<1>7. QED
  BY <1>3, <1>4, <1>6 DEF IInv

LEMMA TurnFailsPreserves ==
    ASSUME IInv, NEW c \in Conns, TurnFails(c)
    PROVE  IInv'
<1> USE DEF TurnFails, registries
<1>1. session[c] \in SessionType
  BY DEF IInv, TypeOK
<1>2. ResetForGeneration(session[c], session[c].gen) \in SessionType
  BY <1>1, InterruptedIsTyped DEF ResetForGeneration
<1>3. TypeOK'
  BY <1>2 DEF IInv, TypeOK
<1>4. LockIsHeld' /\ CreatedInOrder' /\ WaitsForAJob'
  BY DEF IInv, LockIsHeld, CreatedInOrder, WaitsForAJob
<1>5. \A k \in Conns : IsOpen(k)' => IsOpen(k)
  BY DEF IInv, TypeOK, IsOpen, InTurn
<1>6. OneOpenSession' /\ OpenIsOwned'
  BY <1>5 DEF IInv, OneOpenSession, OpenIsOwned
<1>7. QED
  BY <1>3, <1>4, <1>6 DEF IInv

\* Only the goroutine that finds its entry closes the binding, so an entry that
\* is taken out is being closed.
LEMMA DisconnectPreserves ==
    ASSUME IInv, NEW c \in Conns, Disconnect(c)
    PROVE  IInv'
<1> USE DEF Disconnect, Deletes, Closes, Goes
<1>1. \A k \in stored : k = current
  BY DEF IInv, OneOpenSession
<1>2. TypeOK'
  BY <1>1 DEF IInv, TypeOK, Steps, Jobs
<1>3. LockIsHeld' /\ WaitsForAJob'
  BY DEF IInv, TypeOK, LockIsHeld, WaitsForAJob
<1>4. CreatedInOrder'
  BY DEF IInv, TypeOK, CreatedInOrder
<1>5. OneOpenSession'
  BY <1>1 DEF IInv, OneOpenSession, IsOpen
<1>6. OpenIsOwned'
  BY DEF IInv, TypeOK, OpenIsOwned, IsOpen
<1>7. QED
  BY <1>2, <1>3, <1>4, <1>5, <1>6 DEF IInv

-----------------------------------------------------------------------------
\* The link, the senders, the shutdown.
LEMMA LinkPreserves ==
    ASSUME IInv, NEW c \in Conns, Drop(c) \/ BeginWrite(c) \/ EndWrite(c)
    PROVE  IInv'
<1> USE DEF Drop, BeginWrite, EndWrite, registries
<1>1. TypeOK'
  BY DEF IInv, TypeOK
<1>2. LockIsHeld' /\ CreatedInOrder' /\ WaitsForAJob'
  BY DEF IInv, LockIsHeld, CreatedInOrder, WaitsForAJob
<1>3. OneOpenSession' /\ OpenIsOwned'
  BY DEF IInv, OneOpenSession, OpenIsOwned, IsOpen
<1>4. QED
  BY <1>1, <1>2, <1>3 DEF IInv

LEMMA ShutDownPreserves ==
    ASSUME IInv, ShutDown
    PROVE  IInv'
<1> USE DEF ShutDown
<1>1. TypeOK'
  BY DEF IInv, TypeOK, Jobs
<1>2. LockIsHeld' /\ CreatedInOrder' /\ WaitsForAJob'
  BY DEF IInv, LockIsHeld, CreatedInOrder, WaitsForAJob
<1>3. OneOpenSession' /\ OpenIsOwned'
  BY DEF IInv, OneOpenSession, OpenIsOwned, IsOpen
<1>4. QED
  BY <1>1, <1>2, <1>3 DEF IInv

-----------------------------------------------------------------------------
\* One lemma per call of closeBinding.
LEMMA CancelBindingPreserves ==
    ASSUME IInv, NEW k \in Conns, CancelBinding(k)
    PROVE  IInv'
<1> USE DEF CancelBinding, Job, registries
<1>1. TypeOK'
  BY DEF IInv, TypeOK, Jobs
<1>2. LockIsHeld' /\ CreatedInOrder' /\ WaitsForAJob'
  BY DEF IInv, TypeOK, LockIsHeld, CreatedInOrder, WaitsForAJob
<1>3. OneOpenSession' /\ OpenIsOwned'
  BY DEF IInv, TypeOK, OneOpenSession, OpenIsOwned, IsOpen
<1>4. QED
  BY <1>1, <1>2, <1>3 DEF IInv

LEMMA CloseLoopPreserves ==
    ASSUME IInv, NEW k \in Conns, CloseLoop(k)
    PROVE  IInv'
<1> USE DEF CloseLoop, Job, registries
<1>1. session'[k] \in SessionType /\ session'[k].state = "closed"
  BY ClosedIsClosed DEF IInv, TypeOK
<1>2. TypeOK'
  BY <1>1 DEF IInv, TypeOK, Jobs
<1>3. LockIsHeld' /\ CreatedInOrder' /\ WaitsForAJob'
  BY DEF IInv, TypeOK, LockIsHeld, CreatedInOrder, WaitsForAJob
<1>4. \A c \in Conns : IsOpen(c)' => IsOpen(c) /\ c # k
  BY <1>1 DEF IInv, TypeOK, IsOpen
<1>5. OneOpenSession' /\ OpenIsOwned'
  BY <1>4 DEF IInv, TypeOK, OneOpenSession, OpenIsOwned
<1>6. QED
  BY <1>2, <1>3, <1>5 DEF IInv

LEMMA ForgetPreserves ==
    ASSUME IInv, NEW k \in Conns, Forget(k)
    PROVE  IInv'
<1> USE DEF Forget, Job, ActiveWithout, IDsWithout
<1>1. session'[k] \in SessionType /\ session'[k].state = "closed"
  BY ClosedIsClosed DEF IInv, TypeOK
<1>2. TypeOK'
  BY <1>1 DEF IInv, TypeOK, Jobs
<1>3. LockIsHeld' /\ CreatedInOrder' /\ WaitsForAJob'
  BY DEF IInv, TypeOK, LockIsHeld, CreatedInOrder, WaitsForAJob
<1>4. \A c \in Conns : IsOpen(c)' => IsOpen(c) /\ c # k
  BY <1>1 DEF IInv, TypeOK, IsOpen
<1>5. OneOpenSession' /\ OpenIsOwned'
  BY <1>4 DEF IInv, TypeOK, OneOpenSession, OpenIsOwned
<1>6. QED
  BY <1>2, <1>3, <1>5 DEF IInv

LEMMA HangUpPreserves ==
    ASSUME IInv, NEW k \in Conns, HangUp(k)
    PROVE  IInv'
<1> USE DEF HangUp, Job, registries
<1>1. TypeOK'
  BY DEF IInv, TypeOK, Jobs
<1>2. LockIsHeld' /\ CreatedInOrder' /\ WaitsForAJob'
  BY DEF IInv, TypeOK, LockIsHeld, CreatedInOrder, WaitsForAJob
<1>3. OneOpenSession' /\ OpenIsOwned'
  BY DEF IInv, TypeOK, OneOpenSession, OpenIsOwned, IsOpen
<1>4. QED
  BY <1>1, <1>2, <1>3 DEF IInv

-----------------------------------------------------------------------------
\* Every step preserves the invariant.
LEMMA StepInvariant == IInv /\ [Next]_vars => IInv'
<1> SUFFICES ASSUME IInv, [Next]_vars PROVE IInv'
  OBVIOUS
<1>1. CASE ShutDown
  BY <1>1, ShutDownPreserves
<1>2. ASSUME NEW c \in Conns,
             \/ Connect(c) \/ CreateRead(c) \/ CreateClose(c) \/ StoreRejected(c)
             \/ Store(c) \/ Resume(c) \/ Receive(c) \/ Handle(c) \/ Disconnect(c)
      PROVE  IInv'
  BY <1>2, ConnectPreserves, CreateReadPreserves, CreateClosePreserves,
     StoreRejectedPreserves, StorePreserves, ResumePreserves, ReceivePreserves,
     HandlePreserves, DisconnectPreserves
<1>3. ASSUME NEW c \in Conns,
             TurnFails(c) \/ Drop(c) \/ BeginWrite(c) \/ EndWrite(c)
      PROVE  IInv'
  BY <1>3, TurnFailsPreserves, LinkPreserves
<1>4. ASSUME NEW k \in Conns,
             CancelBinding(k) \/ CloseLoop(k) \/ Forget(k) \/ HangUp(k)
      PROVE  IInv'
  BY <1>4, CancelBindingPreserves, CloseLoopPreserves, ForgetPreserves,
     HangUpPreserves
<1>5. CASE UNCHANGED vars
  BY <1>5
  DEF vars, IInv, TypeOK, LockIsHeld, CreatedInOrder, WaitsForAJob,
      OneOpenSession, OpenIsOwned, IsOpen
<1>6. QED
  BY <1>1, <1>2, <1>3, <1>4, <1>5 DEF Next

\* The inductive invariant holds in every reachable state.
THEOREM InductiveInvariant == Spec => []IInv
  BY InitInvariant, StepInvariant, PTL DEF Spec

\* At most one session of the device is open, the manager's, and at most one
\* binding is stored, the one of byDevice (CreateSession, CloseSession, Store).
THEOREM OneSessionIsOpen == Spec => []OneOpenSession
<1>1. IInv => OneOpenSession
  BY DEF IInv
<1>2. QED
  BY <1>1, InductiveInvariant, PTL

\* An open session, or a live binding, has somebody who will close it (OnConnect,
\* OnDisconnect, CloseAll).
THEOREM OpenSessionsAreOwned == Spec => []OpenIsOwned
<1>1. IInv => OpenIsOwned
  BY DEF IInv
<1>2. QED
  BY <1>1, InductiveInvariant, PTL
=============================================================================
