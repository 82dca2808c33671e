-------------------------- MODULE McpBrokerProofs --------------------------
(***************************************************************************)
(* The inductive invariant of McpBroker, and that the broker implements     *)
(* ToolCalls, for every set of callers, number of calls and number of pages.*)
(***************************************************************************)
EXTENDS McpBroker, TLAPS

\* The broker starts with an empty table, callers that call nothing and a read
\* loop that has not said initialize.
LEMMA InitInvariant == Init => IInv
<1> SUFFICES ASSUME Init PROVE IInv
  OBVIOUS
<1>1. Page(0) \in Works
  BY DEF Page, Works
<1>2. TypeOK
  <2>1. reader \in [pc : {"idle", "track", "send", "deliver", "append"},
                    id : Nat, to : Works, msg : Works]
    BY <1>1 DEF Init, Waiting, Reader, NoID
  <2>2. reader.to.by = Broker => reader.to.n \in 0 .. LastPage
    BY McpBrokerAssumption DEF Init, Waiting, Reader, Page
  <2>3. QED
    BY <2>1, <2>2 DEF Init, TypeOK, NoID
<1>3. reader.id = 0 /\ reader.pc = "idle"
  BY DEF Init, Waiting, Reader, NoID
<1>4. IDsArePast /\ RequestsAreCalls
  BY <1>3 DEF Init, IDsArePast, NoID, RequestsAreCalls
<1>5. OneWorkPerID /\ EntriesAreAwaited /\ OneDiscovery
  BY DEF Init, OneWorkPerID, EntriesAreAwaited, OneDiscovery
<1>6. WritesAreTracked /\ ReaderIsOnTrack /\ DiscoveryIsGreeted
  BY <1>3 DEF Init, WritesAreTracked, ReaderIsOnTrack, DiscoveryIsGreeted
<1>7. MessagesAreOwn
  BY DEF Init, MessagesAreOwn
<1>8. QED
  BY <1>2, <1>4, <1>5, <1>6, <1>7 DEF IInv

-----------------------------------------------------------------------------
(* The steps of a caller.                                                   *)

\* A new call finds no entry and no message of an earlier one.
LEMMA CallToolPreserves ==
    ASSUME IInv, NEW c \in Callers, NEW tool \in Tools, CallTool(c, tool),
           UNCHANGED <<reader, greeted, answered, healthy>>
    PROVE  IInv'
<1>1. /\ pc[c] = "idle" /\ pc' = [pc EXCEPT ![c] = "track"]
      /\ calls' = [calls EXCEPT ![c] = @ + 1]
      /\ nextID' = nextID /\ pending' = pending /\ tools' = tools
      /\ toolsKnown' = toolsKnown /\ id' = id /\ channel' = channel /\ got' = got
      /\ received' = received /\ reader' = reader /\ greeted' = greeted
      /\ answered' = answered /\ healthy' = healthy
  BY DEF CallTool, Goes, brokerVars
<1>2. TypeOK
  BY DEF IInv
<1>3. TypeOK'
  BY <1>1, <1>2 DEF TypeOK
<1>4. \A d \in Callers : d # c => pc'[d] = pc[d] /\ calls'[d] = calls[d]
  BY <1>1, <1>2 DEF TypeOK
<1>5. pc'[c] = "track" /\ calls'[c] = calls[c] + 1 /\ calls[c] \in Nat
  BY <1>1, <1>2 DEF TypeOK
<1>6. IDsArePast' /\ OneWorkPerID' /\ ReaderIsOnTrack' /\ OneDiscovery' /\ DiscoveryIsGreeted'
  BY <1>1 DEF IInv, IDsArePast, OneWorkPerID, ReaderIsOnTrack, OneDiscovery,
              DiscoveryIsGreeted
<1>7. /\ WritesAreTracked'
      /\ EntriesAreAwaited'
  <2>1. \A d \in Callers : d # c => Call(d)' = Call(d)
    BY <1>4 DEF Call
  <2>2. WritesAreTracked'
    BY <1>1, <1>4, <1>5, <2>1 DEF IInv, WritesAreTracked
  <2>3. \A e \in pending : e.work.by # c
    BY <1>1 DEF IInv, EntriesAreAwaited
  <2>4. EntriesAreAwaited'
    BY <1>1, <1>4, <2>1, <2>3 DEF IInv, EntriesAreAwaited
  <2>5. QED
    BY <2>2, <2>4
<1>8. MessagesAreOwn'
  BY <1>1, <1>4, <1>5 DEF IInv, MessagesAreOwn, Call
<1>9. RequestsAreCalls'
  BY <1>1, <1>2, <1>4, <1>5 DEF IInv, RequestsAreCalls, TypeOK, Requests, Works
<1>10. QED
  BY <1>3, <1>6, <1>7, <1>8, <1>9 DEF IInv

\* The id of a new request is above every id in the table, at the device, and of
\* a caller or the read loop.
LEMMA FreshIDIsNew ==
    ASSUME IInv
    PROVE  /\ FreshID \in Nat /\ nextID < FreshID
           /\ Entries(FreshID) = {}
           /\ \A e \in pending \cup received : e.id < FreshID
           /\ \A c \in Callers : id[c] < FreshID
           /\ reader.id < FreshID
<1>1. /\ nextID \in Nat
      /\ \A e \in pending \cup received : e.id \in Nat
      /\ \A c \in Callers : id[c] \in Nat
      /\ reader.id \in Nat
  BY DEF IInv, TypeOK, Requests
<1>2. /\ FreshID \in Nat /\ nextID < FreshID
      /\ \A e \in pending \cup received : e.id < FreshID
      /\ \A c \in Callers : id[c] < FreshID
      /\ reader.id < FreshID
  BY <1>1 DEF IInv, IDsArePast, FreshID
<1>3. \A e \in pending : e.id # FreshID
  BY <1>1, <1>2
<1>4. Entries(FreshID) = {}
  BY <1>3 DEF Entries
<1>5. QED
  BY <1>2, <1>4

\* Tracking work under a fresh id adds one entry and disturbs no other.
LEMMA TrackAdds ==
    ASSUME IInv, NEW work \in Works, Track(work)
    PROVE  /\ nextID' = FreshID
           /\ pending' = pending \cup {[id |-> FreshID, work |-> work]}
           /\ pending' \subseteq Requests
<1>1. Entries(FreshID) = {} /\ FreshID \in Nat
  BY FreshIDIsNew
<1>2. /\ nextID' = FreshID
      /\ pending' = pending \cup {[id |-> FreshID, work |-> work]}
  BY <1>1 DEF Track
<1>3. pending \subseteq Requests
  BY DEF IInv, TypeOK
<1>4. QED
  BY <1>1, <1>2, <1>3 DEF Requests

\* A caller that tracks its call has the only entry of the new id.
LEMMA TrackCallPreserves ==
    ASSUME IInv, NEW c \in Callers, TrackCall(c),
           UNCHANGED <<reader, greeted, answered, healthy>>
    PROVE  IInv'
<1> DEFINE new == [id |-> FreshID, work |-> Call(c)]
<1>1. /\ pc[c] = "track" /\ pc' = [pc EXCEPT ![c] = "send"]
      /\ id' = [id EXCEPT ![c] = nextID']
      /\ tools' = tools /\ toolsKnown' = toolsKnown /\ calls' = calls
      /\ channel' = channel /\ got' = got /\ received' = received
      /\ reader' = reader /\ greeted' = greeted
      /\ answered' = answered /\ healthy' = healthy
  BY DEF TrackCall, Goes
<1>2. TypeOK /\ Call(c) \in Works /\ Call(c).by = c
  BY DEF IInv, TypeOK, Call, Works
<1>3. /\ nextID' = FreshID /\ pending' = pending \cup {new}
      /\ pending' \subseteq Requests
  BY <1>2, TrackAdds DEF TrackCall
<1>4. /\ FreshID \in Nat /\ nextID < FreshID /\ nextID \in Nat
      /\ \A e \in pending \cup received : e.id < FreshID /\ e.id \in Nat
      /\ \A d \in Callers : id[d] < FreshID /\ id[d] \in Nat
      /\ reader.id < FreshID /\ reader.id \in Nat
  BY <1>2, FreshIDIsNew DEF TypeOK, Requests
<1>5. TypeOK'
  BY <1>1, <1>2, <1>3, <1>4 DEF TypeOK
<1>6. /\ \A d \in Callers : d # c => pc'[d] = pc[d] /\ id'[d] = id[d]
      /\ pc'[c] = "send" /\ id'[c] = FreshID
      /\ \A d \in Callers : Call(d)' = Call(d)
  BY <1>1, <1>2, <1>3 DEF TypeOK, Call
<1>7. new.id = FreshID /\ new.work = Call(c)
  OBVIOUS
<1> HIDE DEF new
<1>8. IDsArePast'
  <2>1. \A e \in pending' \cup received' : e.id <= FreshID
    BY <1>1, <1>3, <1>4, <1>7
  <2>2. \A d \in Callers : id'[d] <= FreshID
    BY <1>4, <1>6
  <2>3. QED
    BY <1>1, <1>3, <1>4, <2>1, <2>2 DEF IDsArePast
<1>9. OneWorkPerID'
  BY <1>1, <1>3, <1>4, <1>7 DEF IInv, OneWorkPerID
<1>10. WritesAreTracked'
  <2>1. ASSUME NEW d \in Callers, pc'[d] = "send", NEW e \in pending', e.id = id'[d]
        PROVE  e.work = Call(d)'
    BY <1>3, <1>4, <1>6, <1>7, <2>1 DEF IInv, WritesAreTracked
  <2>2. ASSUME reader'.pc = "send", NEW e \in pending', e.id = reader'.id
        PROVE  e.work = reader'.to
    BY <1>1, <1>3, <1>4, <1>7, <2>2 DEF IInv, WritesAreTracked
  <2>3. QED
    BY <2>1, <2>2 DEF WritesAreTracked
<1>11. EntriesAreAwaited'
  <2>1. \A e \in pending : e.work.by # c
    BY <1>1 DEF IInv, EntriesAreAwaited
  <2>2. ASSUME NEW e \in pending', NEW d \in Callers, e.work.by = d
        PROVE  e.work = Call(d)' /\ e.id = id'[d] /\ pc'[d] \in {"send", "await", "remove"}
    BY <1>2, <1>3, <1>6, <1>7, <2>1, <2>2 DEF IInv, EntriesAreAwaited
  <2>3. QED
    BY <2>2 DEF EntriesAreAwaited
<1>12. MessagesAreOwn' /\ RequestsAreCalls'
  BY <1>1, <1>6 DEF IInv, MessagesAreOwn, RequestsAreCalls
<1>13. ReaderIsOnTrack' /\ DiscoveryIsGreeted' /\ OneDiscovery'
  BY <1>1, <1>2, <1>3, <1>7
  DEF IInv, ReaderIsOnTrack, DiscoveryIsGreeted, OneDiscovery, OfCaller
<1>14. QED
  BY <1>5, <1>8, <1>9, <1>10, <1>11, <1>12, <1>13 DEF IInv

\* A written request carries the work its id stands for in the table.
LEMMA SendCallPreserves ==
    ASSUME IInv, NEW c \in Callers, SendCall(c),
           UNCHANGED <<reader, greeted, answered, healthy>>
    PROVE  IInv'
<1> DEFINE request == [id |-> id[c], work |-> Call(c)]
<1>1. /\ pc[c] = "send"
      /\ \/ pc' = [pc EXCEPT ![c] = "await"] /\ received' = received \cup {request}
         \/ pc' = [pc EXCEPT ![c] = "remove"] /\ received' = received
      /\ nextID' = nextID /\ pending' = pending /\ tools' = tools
      /\ toolsKnown' = toolsKnown /\ calls' = calls /\ id' = id
      /\ channel' = channel /\ got' = got
      /\ reader' = reader /\ greeted' = greeted
      /\ answered' = answered /\ healthy' = healthy
  BY DEF SendCall, Goes, Write, brokerVars
<1>2. TypeOK /\ Call(c) \in Works /\ Call(c).by = c /\ Call(c).n = calls[c]
  BY DEF IInv, TypeOK, Call, Works
<1>3. /\ request \in Requests /\ request.id = id[c] /\ request.work = Call(c)
      /\ received' \subseteq received \cup {request}
  BY <1>1, <1>2 DEF TypeOK, Requests
<1> HIDE DEF request
<1>4. TypeOK'
  <2>1. received' \subseteq Requests
    BY <1>2, <1>3 DEF TypeOK
  <2>2. pc' \in [Callers -> {"idle", "track", "send", "await", "remove"}]
    BY <1>1, <1>2 DEF TypeOK
  <2>3. QED
    BY <1>1, <1>2, <2>1, <2>2 DEF TypeOK
<1>5. /\ \A d \in Callers : d # c => pc'[d] = pc[d]
      /\ pc'[c] \in {"await", "remove"}
      /\ \A d \in Callers : Call(d)' = Call(d)
  BY <1>1, <1>2 DEF TypeOK, Call
<1>6. IDsArePast'
  BY <1>1, <1>3 DEF IInv, IDsArePast
<1>7. OneWorkPerID'
  <2>1. \A e \in pending : e.id = id[c] => e.work = Call(c)
    BY <1>1 DEF IInv, WritesAreTracked
  <2>2. QED
    BY <1>1, <1>3, <2>1 DEF IInv, OneWorkPerID
<1>8. WritesAreTracked' /\ EntriesAreAwaited'
  BY <1>1, <1>5 DEF IInv, WritesAreTracked, EntriesAreAwaited
<1>9. MessagesAreOwn' /\ ReaderIsOnTrack' /\ OneDiscovery' /\ DiscoveryIsGreeted'
  BY <1>1, <1>5
  DEF IInv, MessagesAreOwn, ReaderIsOnTrack, OneDiscovery, DiscoveryIsGreeted
<1>10. RequestsAreCalls'
  <2>1. calls[c] \in Nat /\ calls[c] >= 1
    BY <1>1, <1>2 DEF IInv, RequestsAreCalls, TypeOK
  <2>2. \A d \in Callers : pc'[d] # "idle" => calls[d] >= 1
    BY <1>5, <2>1 DEF IInv, RequestsAreCalls
  <2>3. \A d \in Callers : request.work.by = d => request.work.n \in 1 .. calls[d]
    BY <1>2, <1>3, <2>1
  <2>4. QED
    BY <1>1, <1>3, <2>2, <2>3 DEF IInv, RequestsAreCalls
<1>11. QED
  BY <1>4, <1>6, <1>7, <1>8, <1>9, <1>10 DEF IInv

\* A caller that stops waiting, with the message of its channel or with none.
LEMMA StopsWaitingPreserves ==
    ASSUME IInv, NEW c \in Callers, TakeAnswer(c) \/ GiveUp(c),
           UNCHANGED <<reader, greeted, answered, healthy>>
    PROVE  IInv'
<1>1. /\ pc[c] = "await" /\ pc' = [pc EXCEPT ![c] = "remove"]
      /\ \/ /\ got' = [got EXCEPT ![c] = channel[c]]
            /\ channel' = [channel EXCEPT ![c] = {}]
         \/ got' = got /\ channel' = channel
      /\ nextID' = nextID /\ pending' = pending /\ tools' = tools
      /\ toolsKnown' = toolsKnown /\ calls' = calls /\ id' = id
      /\ received' = received /\ reader' = reader /\ greeted' = greeted
      /\ answered' = answered /\ healthy' = healthy
  BY DEF TakeAnswer, GiveUp, Goes, brokerVars
<1>2. TypeOK
  BY DEF IInv
<1>3. got' \in [Callers -> SUBSET Works] /\ channel' \in [Callers -> SUBSET Works]
  BY <1>1, <1>2 DEF TypeOK
<1>4. TypeOK'
  BY <1>1, <1>2, <1>3 DEF TypeOK
<1>5. /\ \A d \in Callers : d # c =>
            pc'[d] = pc[d] /\ got'[d] = got[d] /\ channel'[d] = channel[d]
      /\ pc'[c] = "remove"
      /\ channel'[c] \cup got'[c] \subseteq channel[c] \cup got[c]
      /\ \A d \in Callers : Call(d)' = Call(d)
  BY <1>1, <1>2 DEF TypeOK, Call
<1>6. IDsArePast' /\ OneWorkPerID' /\ ReaderIsOnTrack' /\ OneDiscovery' /\ DiscoveryIsGreeted'
  BY <1>1 DEF IInv, IDsArePast, OneWorkPerID, ReaderIsOnTrack, OneDiscovery,
              DiscoveryIsGreeted
<1>7. WritesAreTracked' /\ EntriesAreAwaited'
  BY <1>1, <1>5 DEF IInv, WritesAreTracked, EntriesAreAwaited
<1>8. MessagesAreOwn'
  BY <1>1, <1>5 DEF IInv, MessagesAreOwn
<1>9. RequestsAreCalls'
  BY <1>1, <1>5 DEF IInv, RequestsAreCalls
<1>10. QED
  BY <1>4, <1>6, <1>7, <1>8, <1>9 DEF IInv

\* A call that returns takes its entry, its channel and its message with it.
LEMMA ReturnPreserves ==
    ASSUME IInv, NEW c \in Callers, Return(c),
           UNCHANGED <<reader, greeted, answered, healthy>>
    PROVE  IInv'
<1>1. /\ pc[c] = "remove" /\ pc' = [pc EXCEPT ![c] = "idle"]
      /\ pending' = pending \ Entries(id[c])
      /\ id' = [id EXCEPT ![c] = 0]
      /\ channel' = [channel EXCEPT ![c] = {}]
      /\ got' = [got EXCEPT ![c] = {}]
      /\ nextID' = nextID /\ tools' = tools /\ toolsKnown' = toolsKnown
      /\ calls' = calls /\ received' = received
      /\ reader' = reader /\ greeted' = greeted
      /\ answered' = answered /\ healthy' = healthy
  BY DEF Return, Goes, Remove, NoID
<1>2. TypeOK
  BY DEF IInv
<1>3. pending' \subseteq pending
  BY <1>1
<1>4. TypeOK'
  BY <1>1, <1>2, <1>3 DEF TypeOK
<1>5. /\ \A d \in Callers : d # c =>
            /\ pc'[d] = pc[d] /\ id'[d] = id[d]
            /\ got'[d] = got[d] /\ channel'[d] = channel[d]
      /\ pc'[c] = "idle" /\ id'[c] = 0 /\ got'[c] = {} /\ channel'[c] = {}
      /\ \A d \in Callers : Call(d)' = Call(d)
  BY <1>1, <1>2 DEF TypeOK, Call
<1>6. IDsArePast'
  <2>1. nextID \in Nat
    BY <1>2 DEF TypeOK
  <2>2. QED
    BY <1>1, <1>3, <1>5, <2>1 DEF IInv, IDsArePast
<1>7. OneWorkPerID' /\ ReaderIsOnTrack'
  BY <1>1, <1>3 DEF IInv, OneWorkPerID, ReaderIsOnTrack
<1>8. OneDiscovery' /\ DiscoveryIsGreeted'
  BY <1>1, <1>3 DEF IInv, OneDiscovery, DiscoveryIsGreeted
<1>9. WritesAreTracked'
  BY <1>1, <1>3, <1>5 DEF IInv, WritesAreTracked
<1>10. EntriesAreAwaited'
  <2>1. \A e \in pending' : e.work.by # c
    BY <1>1 DEF IInv, EntriesAreAwaited, Entries
  <2>2. QED
    BY <1>3, <1>5, <2>1 DEF IInv, EntriesAreAwaited
<1>11. MessagesAreOwn'
  BY <1>1, <1>5 DEF IInv, MessagesAreOwn
<1>12. RequestsAreCalls'
  BY <1>1, <1>5 DEF IInv, RequestsAreCalls
<1>13. QED
  BY <1>4, <1>6, <1>7, <1>8, <1>9, <1>10, <1>11, <1>12 DEF IInv

-----------------------------------------------------------------------------
(* The steps of the read loop.                                              *)

\* What Reader builds, field by field.
LEMMA ReaderFields ==
    ASSUME NEW at, NEW i, NEW to, NEW msg
    PROVE  /\ Reader(at, i, to, msg).pc = at
           /\ Reader(at, i, to, msg).id = i
           /\ Reader(at, i, to, msg).to = to
           /\ Reader(at, i, to, msg).msg = msg
  BY DEF Reader

\* A page is work of the broker.
LEMMA PageFields ==
    ASSUME NEW p \in Nat
    PROVE  Page(p) \in Works /\ Page(p).by = Broker /\ Page(p).n = p
  BY DEF Page, Works

\* A read loop that waits satisfies what the invariant asks of the read loop.
LEMMA WaitingFields ==
    /\ Waiting.pc = "idle" /\ Waiting.id = 0
    /\ Waiting.to = Page(0) /\ Waiting.msg = Page(0)
  BY ReaderFields DEF Waiting, NoID

\* A type-correct Reader.
LEMMA ReaderType ==
    ASSUME NEW at \in {"idle", "track", "send", "deliver", "append"}, NEW i \in Nat,
           NEW to \in Works, NEW msg \in Works
    PROVE  Reader(at, i, to, msg) \in
             [pc : {"idle", "track", "send", "deliver", "append"},
              id : Nat, to : Works, msg : Works]
  BY DEF Reader

\* Before initialize the table has no page.
LEMMA SendInitializePreserves ==
    ASSUME IInv, SendInitialize, UNCHANGED <<pc, calls, id, got, healthy>>
    PROVE  IInv'
<1>1. /\ reader = Waiting /\ ~greeted /\ greeted' = TRUE
      /\ reader' = Reader("track", 0, Page(0), Page(0))
      /\ nextID' = nextID /\ pending' = pending /\ tools' = tools
      /\ toolsKnown' = toolsKnown /\ calls' = calls /\ id' = id /\ pc' = pc
      /\ channel' = channel /\ got' = got /\ received' = received
      /\ answered' = answered /\ healthy' = healthy
  BY DEF SendInitialize, brokerVars, NoID
<1>2. /\ reader'.pc = "track" /\ reader'.id = 0 /\ reader'.to = Page(0)
      /\ Page(0).by = Broker /\ Page(0).n = 0 /\ Page(0) \in Works
  BY <1>1, ReaderFields, PageFields
<1>3. TypeOK /\ nextID \in Nat
  BY DEF IInv, TypeOK
<1>4. TypeOK'
  <2>1. reader' \in [pc : {"idle", "track", "send", "deliver", "append"},
                     id : Nat, to : Works, msg : Works]
    BY <1>1, <1>2, ReaderType
  <2>2. reader'.to.n \in 0 .. LastPage
    BY <1>2, McpBrokerAssumption
  <2>3. QED
    BY <1>1, <1>3, <2>1, <2>2 DEF TypeOK
<1>5. \A c \in Callers : Call(c)' = Call(c)
  BY <1>1 DEF Call
<1>6. IDsArePast' /\ OneWorkPerID'
  BY <1>1, <1>2, <1>3 DEF IInv, IDsArePast, OneWorkPerID
<1>7. WritesAreTracked' /\ EntriesAreAwaited' /\ MessagesAreOwn' /\ RequestsAreCalls'
  BY <1>1, <1>2, <1>5
  DEF IInv, WritesAreTracked, EntriesAreAwaited, MessagesAreOwn, RequestsAreCalls
<1>8. \A e \in pending : OfCaller(e.work)
  BY <1>1 DEF IInv, DiscoveryIsGreeted
<1>9. ReaderIsOnTrack' /\ OneDiscovery' /\ DiscoveryIsGreeted'
  BY <1>1, <1>2, <1>8
  DEF ReaderIsOnTrack, OneDiscovery, DiscoveryIsGreeted, OfCaller
<1>10. QED
  BY <1>4, <1>6, <1>7, <1>9 DEF IInv

\* A page is tracked when the table has none.
LEMMA TrackPagePreserves ==
    ASSUME IInv, TrackPage, UNCHANGED <<pc, calls, id, got, healthy>>
    PROVE  IInv'
<1> DEFINE new == [id |-> FreshID, work |-> reader.to]
<1>1. /\ reader.pc = "track"
      /\ reader' = Reader("send", nextID', reader.to, reader.to)
      /\ tools' = tools /\ toolsKnown' = toolsKnown /\ calls' = calls
      /\ id' = id /\ pc' = pc /\ channel' = channel /\ got' = got
      /\ received' = received /\ greeted' = greeted
      /\ answered' = answered /\ healthy' = healthy
  BY DEF TrackPage
<1>2. /\ TypeOK /\ reader.to \in Works /\ reader.to.by = Broker
      /\ reader.to.n \in 0 .. LastPage /\ reader.to.n \in Nat
  BY <1>1 DEF IInv, TypeOK, ReaderIsOnTrack, Works
<1>3. /\ nextID' = FreshID /\ pending' = pending \cup {new}
      /\ pending' \subseteq Requests
  BY <1>2, TrackAdds DEF TrackPage
<1>4. /\ FreshID \in Nat /\ nextID < FreshID /\ nextID \in Nat
      /\ \A e \in pending \cup received : e.id < FreshID /\ e.id \in Nat
      /\ \A d \in Callers : id[d] < FreshID /\ id[d] \in Nat
  BY <1>2, FreshIDIsNew DEF TypeOK, Requests
<1>5. /\ reader'.pc = "send" /\ reader'.id = FreshID /\ reader'.to = reader.to
  BY <1>1, <1>3, ReaderFields
<1>6. TypeOK'
  <2>1. reader' \in [pc : {"idle", "track", "send", "deliver", "append"},
                     id : Nat, to : Works, msg : Works]
    BY <1>1, <1>2, <1>3, <1>4, ReaderType
  <2>2. QED
    BY <1>1, <1>2, <1>3, <1>4, <1>5, <2>1 DEF TypeOK
<1>7. /\ new.id = FreshID /\ new.work = reader.to
      /\ \A d \in Callers : Call(d)' = Call(d)
  BY <1>1 DEF Call
<1> HIDE DEF new
<1>8. IDsArePast'
  <2>1. \A e \in pending' \cup received' : e.id <= FreshID
    BY <1>1, <1>3, <1>4, <1>7
  <2>2. \A d \in Callers : id'[d] <= FreshID
    BY <1>1, <1>4
  <2>3. QED
    BY <1>3, <1>4, <1>5, <2>1, <2>2 DEF IDsArePast
<1>9. OneWorkPerID'
  BY <1>1, <1>3, <1>4, <1>7 DEF IInv, OneWorkPerID
<1>10. WritesAreTracked'
  BY <1>1, <1>3, <1>4, <1>5, <1>7 DEF IInv, WritesAreTracked
<1>11. ~OfCaller(new.work)
  BY <1>2, <1>7, McpBrokerAssumption DEF OfCaller
<1>12. EntriesAreAwaited'
  BY <1>1, <1>3, <1>7, <1>11 DEF IInv, EntriesAreAwaited, OfCaller
<1>13. MessagesAreOwn' /\ RequestsAreCalls'
  BY <1>1, <1>7 DEF IInv, MessagesAreOwn, RequestsAreCalls
<1>14. \A e \in pending : OfCaller(e.work)
  BY <1>1 DEF IInv, OneDiscovery
<1>15. OneDiscovery'
  BY <1>3, <1>5, <1>14 DEF OneDiscovery, OfCaller
<1>16. ReaderIsOnTrack'
  BY <1>2, <1>5 DEF ReaderIsOnTrack
<1>17. greeted
  BY <1>1 DEF IInv, DiscoveryIsGreeted
<1>18. DiscoveryIsGreeted'
  BY <1>1, <1>2, <1>3, <1>5, <1>7, <1>14, <1>17, McpBrokerAssumption
  DEF DiscoveryIsGreeted, OfCaller
<1>19. QED
  BY <1>6, <1>8, <1>9, <1>10, <1>12, <1>13, <1>15, <1>16, <1>18 DEF IInv

\* A page that is not written takes its entry with it.
LEMMA SendPagePreserves ==
    ASSUME IInv, SendPage, UNCHANGED <<pc, calls, id, got, healthy>>
    PROVE  IInv'
<1> DEFINE request == [id |-> reader.id, work |-> reader.to]
<1>1. /\ reader.pc = "send" /\ reader' = Waiting
      /\ \/ received' = received \cup {request} /\ pending' = pending
         \/ received' = received /\ pending' = pending \ Entries(reader.id)
      /\ nextID' = nextID /\ tools' = tools /\ toolsKnown' = toolsKnown
      /\ calls' = calls /\ id' = id /\ pc' = pc
      /\ channel' = channel /\ got' = got /\ greeted' = greeted
      /\ answered' = answered /\ healthy' = healthy
  BY DEF SendPage, Write
<1>2. /\ TypeOK /\ reader.to \in Works /\ reader.to.by = Broker
      /\ reader.id \in Nat /\ nextID \in Nat
  BY <1>1 DEF IInv, TypeOK, ReaderIsOnTrack
<1>3. /\ request \in Requests /\ request.id = reader.id /\ request.work = reader.to
      /\ received' \subseteq received \cup {request} /\ pending' \subseteq pending
      /\ \A d \in Callers : Call(d)' = Call(d)
  BY <1>1, <1>2 DEF Requests, Call
<1> HIDE DEF request
<1>4. /\ reader'.pc = "idle" /\ reader'.id = 0
      /\ reader'.to = Page(0) /\ reader'.msg = Page(0)
      /\ Page(0).n = 0 /\ Page(0) \in Works
  BY <1>1, WaitingFields, PageFields
<1>5. TypeOK'
  <2>1. reader' \in [pc : {"idle", "track", "send", "deliver", "append"},
                     id : Nat, to : Works, msg : Works]
    BY <1>1, <1>4, ReaderType DEF Waiting, NoID
  <2>2. reader'.to.n \in 0 .. LastPage
    BY <1>4, McpBrokerAssumption
  <2>3. received' \subseteq Requests /\ pending' \subseteq Requests
    BY <1>2, <1>3 DEF TypeOK
  <2>4. QED
    BY <1>1, <1>2, <2>1, <2>2, <2>3 DEF TypeOK
<1>6. IDsArePast'
  BY <1>1, <1>2, <1>3, <1>4 DEF IInv, IDsArePast
<1>7. OneWorkPerID'
  <2>1. \A e \in pending : e.id = reader.id => e.work = reader.to
    BY <1>1 DEF IInv, WritesAreTracked
  <2>2. QED
    BY <1>3, <2>1 DEF IInv, OneWorkPerID
<1>8. WritesAreTracked' /\ EntriesAreAwaited' /\ MessagesAreOwn'
  BY <1>1, <1>3, <1>4 DEF IInv, WritesAreTracked, EntriesAreAwaited, MessagesAreOwn
<1>9. OneDiscovery' /\ DiscoveryIsGreeted' /\ ReaderIsOnTrack'
  BY <1>1, <1>3, <1>4 DEF IInv, OneDiscovery, DiscoveryIsGreeted, ReaderIsOnTrack
<1>10. RequestsAreCalls'
  BY <1>1, <1>2, <1>3, McpBrokerAssumption DEF IInv, RequestsAreCalls
<1>11. QED
  BY <1>5, <1>6, <1>7, <1>8, <1>9, <1>10 DEF IInv

\* The entry a payload finds is the only one of its id, and asked for the work the
\* device has answered; what the read loop does next depends on that work.
LEMMA DispatchIsOnTrack ==
    ASSUME IInv, NEW request \in received, NEW ok \in BOOLEAN,
           NEW e \in Entries(request.id),
           reader' = Dispatch(e.work, request.work, ok)
    PROVE  /\ e.work = request.work
           /\ reader' \in [pc : {"idle", "track", "send", "deliver", "append"},
                           id : Nat, to : Works, msg : Works]
           /\ reader'.to.by = Broker => reader'.to.n \in 0 .. LastPage
           /\ reader'.id = 0 /\ reader'.pc # "send"
           /\ reader'.pc = "deliver" =>
                 OfCaller(e.work) /\ reader'.to = e.work /\ reader'.msg = e.work
           /\ reader'.pc \in {"track", "append"} =>
                 ~OfCaller(e.work) /\ reader'.to.by = Broker
           /\ reader'.pc = "append" => reader'.msg = reader'.to /\ reader'.to.n # 0
<1>1. e \in pending /\ e.id = request.id
  BY DEF Entries
<1>2. e.work = request.work
  BY <1>1 DEF IInv, OneWorkPerID
<1>3. /\ e.work \in Works /\ request.work \in Works
      /\ e.work.by \in Callers \cup {Broker} /\ e.work.n \in Nat
      /\ e.work.by = Broker => e.work = Page(e.work.n)
  BY <1>1 DEF IInv, TypeOK, Requests, Works, Page
<1>4. e.work.by = Broker => e.work.n \in 0 .. LastPage
  BY <1>1, <1>3, McpBrokerAssumption DEF IInv, DiscoveryIsGreeted, OfCaller
<1>5. /\ Page(0) \in Works /\ Page(1) \in Works
      /\ Page(0).by = Broker /\ Page(1).by = Broker
      /\ Page(0).n = 0 /\ Page(1).n = 1
      /\ 0 \in 0 .. LastPage /\ 1 \in 0 .. LastPage
  BY PageFields, McpBrokerAssumption
<1>6. OfCaller(e.work) <=> e.work.by # Broker
  BY <1>3, McpBrokerAssumption DEF OfCaller
<1>7. CASE e.work.by # Broker
  <2>1. reader' = Reader("deliver", 0, e.work, request.work)
    BY <1>7 DEF Dispatch, NoID
  <2>2. /\ reader'.pc = "deliver" /\ reader'.id = 0
        /\ reader'.to = e.work /\ reader'.msg = e.work
    BY <1>2, <2>1, ReaderFields
  <2>3. reader' \in [pc : {"idle", "track", "send", "deliver", "append"},
                     id : Nat, to : Works, msg : Works]
    BY <1>3, <2>1, ReaderType
  <2>4. QED
    BY <1>2, <1>6, <1>7, <2>2, <2>3
<1>8. CASE e.work.by = Broker /\ ~ok
  <2>1. reader' = Waiting
    BY <1>8 DEF Dispatch
  <2>2. /\ reader'.pc = "idle" /\ reader'.id = 0 /\ reader'.to = Page(0)
    BY <2>1, WaitingFields
  <2>3. reader' \in [pc : {"idle", "track", "send", "deliver", "append"},
                     id : Nat, to : Works, msg : Works]
    BY <1>5, <2>1, ReaderType DEF Waiting, NoID
  <2>4. QED
    BY <1>2, <1>5, <2>2, <2>3
<1>9. CASE e.work = Page(0) /\ ok
  <2>1. reader' = Reader("track", 0, Page(1), Page(1))
    BY <1>5, <1>9 DEF Dispatch, NoID
  <2>2. reader'.pc = "track" /\ reader'.id = 0 /\ reader'.to = Page(1)
    BY <2>1, ReaderFields
  <2>3. reader' \in [pc : {"idle", "track", "send", "deliver", "append"},
                     id : Nat, to : Works, msg : Works]
    BY <1>5, <2>1, ReaderType
  <2>4. QED
    BY <1>2, <1>5, <1>6, <1>9, <2>2, <2>3
<1>10. CASE e.work.by = Broker /\ ok /\ e.work # Page(0)
  <2>1. reader' = Reader("append", 0, e.work, request.work)
    BY <1>10 DEF Dispatch, NoID
  <2>2. /\ reader'.pc = "append" /\ reader'.id = 0
        /\ reader'.to = e.work /\ reader'.msg = e.work
    BY <1>2, <2>1, ReaderFields
  <2>3. reader' \in [pc : {"idle", "track", "send", "deliver", "append"},
                     id : Nat, to : Works, msg : Works]
    BY <1>3, <2>1, ReaderType
  <2>4. e.work.n # 0
    BY <1>3, <1>10
  <2>5. QED
    BY <1>2, <1>4, <1>6, <1>10, <2>2, <2>3, <2>4
<1>11. QED
  BY <1>7, <1>8, <1>9, <1>10

\* An answer takes its entry out of the table; one that finds none, because it is
\* late or repeated, changes nothing but what the device has answered.
LEMMA HandleDevicePayloadPreserves ==
    ASSUME IInv, NEW request \in received, NEW ok \in BOOLEAN,
           HandleDevicePayload(request, ok),
           UNCHANGED <<pc, calls, id, got, healthy>>
    PROVE  IInv'
<1>1. /\ reader = Waiting
      /\ answered' = answered \cup {request.work}
      /\ pending' = pending \ Entries(request.id)
      /\ nextID' = nextID /\ tools' = tools /\ toolsKnown' = toolsKnown
      /\ calls' = calls /\ id' = id /\ pc' = pc
      /\ channel' = channel /\ got' = got /\ greeted' = greeted
      /\ received' = received /\ healthy' = healthy
  BY DEF HandleDevicePayload, TakenOut
<1>2. /\ TypeOK /\ request.work \in Works /\ nextID \in Nat
      /\ pending' \subseteq pending /\ answered \subseteq answered'
      /\ request.work \in answered'
      /\ \A d \in Callers : Call(d)' = Call(d)
  BY <1>1 DEF IInv, TypeOK, Requests, Call
<1>3. reader.pc = "idle" /\ reader.id = 0
  BY <1>1, WaitingFields
<1>4. OneWorkPerID' /\ EntriesAreAwaited' /\ RequestsAreCalls'
  BY <1>1, <1>2 DEF IInv, OneWorkPerID, EntriesAreAwaited, RequestsAreCalls
<1>5. MessagesAreOwn'
  BY <1>1, <1>2 DEF IInv, MessagesAreOwn
<1>6. CASE Entries(request.id) = {}
  <2>1. reader' = reader
    BY <1>6 DEF HandleDevicePayload
  <2>2. TypeOK'
    BY <1>1, <1>2, <2>1 DEF TypeOK
  <2>3. IDsArePast' /\ WritesAreTracked'
    BY <1>1, <1>2, <1>3, <2>1 DEF IInv, IDsArePast, WritesAreTracked
  <2>4. ReaderIsOnTrack' /\ OneDiscovery' /\ DiscoveryIsGreeted'
    BY <1>1, <1>2, <1>3, <2>1 DEF IInv, ReaderIsOnTrack, OneDiscovery, DiscoveryIsGreeted
  <2>5. QED
    BY <1>4, <1>5, <2>2, <2>3, <2>4 DEF IInv
<1>7. CASE Entries(request.id) # {}
  <2>1. PICK e \in Entries(request.id) : reader' = Dispatch(e.work, request.work, ok)
    BY <1>7 DEF HandleDevicePayload
  <2>2. e \in pending /\ e \notin pending'
    BY <1>1 DEF Entries
  <2>3. /\ e.work = request.work
        /\ reader' \in [pc : {"idle", "track", "send", "deliver", "append"},
                        id : Nat, to : Works, msg : Works]
        /\ reader'.to.by = Broker => reader'.to.n \in 0 .. LastPage
    BY <2>1, DispatchIsOnTrack
  <2>4. /\ reader'.id = 0 /\ reader'.pc # "send"
        /\ reader'.pc = "deliver" =>
              OfCaller(e.work) /\ reader'.to = e.work /\ reader'.msg = e.work
        /\ reader'.pc \in {"track", "append"} =>
              ~OfCaller(e.work) /\ reader'.to.by = Broker
        /\ reader'.pc = "append" => reader'.msg = reader'.to /\ reader'.to.n # 0
    BY <2>1, DispatchIsOnTrack
  <2>5. TypeOK'
    BY <1>1, <1>2, <2>3 DEF TypeOK
  <2>6. IDsArePast' /\ WritesAreTracked'
    BY <1>1, <1>2, <2>4 DEF IInv, IDsArePast, WritesAreTracked
  <2>7. ReaderIsOnTrack'
    BY <1>2, <2>3, <2>4 DEF ReaderIsOnTrack
  <2>8. OneDiscovery'
    BY <1>2, <2>2, <2>4 DEF IInv, OneDiscovery
  <2>9. reader'.pc \in {"idle", "track", "deliver", "append"}
    BY <2>3, <2>4
  <2>10. DiscoveryIsGreeted'
    BY <1>1, <1>2, <2>2, <2>4, <2>9 DEF IInv, DiscoveryIsGreeted
  <2>11. QED
    BY <1>4, <1>5, <2>5, <2>6, <2>7, <2>8, <2>10 DEF IInv
<1>8. QED
  BY <1>6, <1>7

\* A message only goes to the call it answers.
LEMMA DeliverPreserves ==
    ASSUME IInv, Deliver, UNCHANGED <<pc, calls, id, got, healthy>>
    PROVE  IInv'
<1> DEFINE c == reader.to.by
<1>1. /\ reader.pc = "deliver" /\ reader' = Waiting
      /\ \/ channel' = channel
         \/ /\ reader.to = Call(c) /\ pc[c] # "idle"
            /\ channel' = [channel EXCEPT ![c] = {reader.msg}]
      /\ nextID' = nextID /\ pending' = pending /\ tools' = tools
      /\ toolsKnown' = toolsKnown /\ calls' = calls /\ id' = id /\ pc' = pc
      /\ got' = got /\ greeted' = greeted /\ received' = received
      /\ answered' = answered /\ healthy' = healthy
  BY DEF Deliver, brokerVars
<1>2. /\ TypeOK /\ c \in Callers /\ reader.msg = reader.to
      /\ reader.msg \in answered /\ reader.msg \in Works
  BY <1>1 DEF IInv, TypeOK, ReaderIsOnTrack, OfCaller
<1> HIDE DEF c
<1>3. /\ channel' \in [Callers -> SUBSET Works]
      /\ \A d \in Callers : d # c => channel'[d] = channel[d]
      /\ \/ channel'[c] = channel[c]
         \/ pc[c] # "idle" /\ channel'[c] = {Call(c)} /\ Call(c) \in answered
      /\ \A d \in Callers : Call(d)' = Call(d)
  BY <1>1, <1>2 DEF TypeOK, Call
<1>4. /\ reader'.pc = "idle" /\ reader'.id = 0 /\ reader'.to = Page(0)
      /\ Page(0).n = 0 /\ Page(0) \in Works
  BY <1>1, WaitingFields, PageFields
<1>5. TypeOK'
  <2>1. reader' \in [pc : {"idle", "track", "send", "deliver", "append"},
                     id : Nat, to : Works, msg : Works]
    BY <1>1, <1>4, ReaderType DEF Waiting, NoID
  <2>2. reader'.to.n \in 0 .. LastPage
    BY <1>4, McpBrokerAssumption
  <2>3. QED
    BY <1>1, <1>2, <1>3, <2>1, <2>2 DEF TypeOK
<1>6. IDsArePast' /\ OneWorkPerID'
  BY <1>1, <1>2, <1>4 DEF IInv, IDsArePast, OneWorkPerID, TypeOK
<1>7. WritesAreTracked' /\ EntriesAreAwaited' /\ RequestsAreCalls'
  BY <1>1, <1>3, <1>4 DEF IInv, WritesAreTracked, EntriesAreAwaited, RequestsAreCalls
<1>8. MessagesAreOwn'
  <2>1. ASSUME NEW d \in Callers
        PROVE  channel'[d] \subseteq {Call(d)} \cap answered
    BY <1>3 DEF IInv, MessagesAreOwn
  <2>2. \A d \in Callers : pc[d] = "idle" => channel'[d] = {}
    BY <1>3 DEF IInv, MessagesAreOwn
  <2>3. QED
    BY <1>1, <1>3, <2>1, <2>2 DEF IInv, MessagesAreOwn
<1>9. ReaderIsOnTrack' /\ OneDiscovery' /\ DiscoveryIsGreeted'
  BY <1>1, <1>4 DEF IInv, ReaderIsOnTrack, OneDiscovery, DiscoveryIsGreeted
<1>10. QED
  BY <1>5, <1>6, <1>7, <1>8, <1>9 DEF IInv

\* The next page is asked for only while the table has no page.
LEMMA AppendToolsPreserves ==
    ASSUME IInv, AppendTools, UNCHANGED <<pc, calls, id, got, healthy>>
    PROVE  IInv'
<1> DEFINE p == reader.msg.n
<1>1. /\ reader.pc = "append" /\ tools' = tools \cup {p} /\ toolsKnown' = TRUE
      /\ \/ p < LastPage /\ reader' = Reader("track", 0, Page(p + 1), Page(p + 1))
         \/ reader' = Waiting
      /\ nextID' = nextID /\ pending' = pending /\ calls' = calls
      /\ id' = id /\ pc' = pc /\ channel' = channel /\ got' = got
      /\ received' = received /\ greeted' = greeted
      /\ answered' = answered /\ healthy' = healthy
  BY DEF AppendTools, Follows, NoID
<1>2. /\ TypeOK /\ p \in 1 .. LastPage /\ p \in Nat /\ LastPage \in Nat
      /\ nextID \in Nat
  BY <1>1, McpBrokerAssumption DEF IInv, TypeOK, ReaderIsOnTrack, Works
<1> HIDE DEF p
<1>3. /\ Page(0) \in Works /\ Page(0).by = Broker /\ Page(0).n = 0
      /\ Page(p + 1) \in Works /\ Page(p + 1).by = Broker /\ Page(p + 1).n = p + 1
  BY <1>2, PageFields
<1>4. /\ reader'.pc \in {"idle", "track"} /\ reader'.id = 0
      /\ reader'.to.by = Broker /\ reader'.to.n \in 0 .. LastPage
      /\ reader' \in [pc : {"idle", "track", "send", "deliver", "append"},
                      id : Nat, to : Works, msg : Works]
  <2>1. CASE reader' = Waiting
    <3>1. reader'.pc = "idle" /\ reader'.id = 0 /\ reader'.to = Page(0)
      BY <2>1, WaitingFields
    <3>2. reader' \in [pc : {"idle", "track", "send", "deliver", "append"},
                       id : Nat, to : Works, msg : Works]
      BY <1>3, <2>1, ReaderType DEF Waiting, NoID
    <3>3. QED
      BY <1>2, <1>3, <3>1, <3>2
  <2>2. CASE p < LastPage /\ reader' = Reader("track", 0, Page(p + 1), Page(p + 1))
    <3>1. reader'.pc = "track" /\ reader'.id = 0 /\ reader'.to = Page(p + 1)
      BY <2>2, ReaderFields
    <3>2. reader' \in [pc : {"idle", "track", "send", "deliver", "append"},
                       id : Nat, to : Works, msg : Works]
      BY <1>3, <2>2, ReaderType
    <3>3. QED
      BY <1>2, <1>3, <2>2, <3>1, <3>2
  <2>3. QED
    BY <1>1, <2>1, <2>2
<1>5. TypeOK'
  <2>1. tools' \subseteq Tools
    BY <1>1, <1>2 DEF TypeOK, Tools
  <2>2. QED
    BY <1>1, <1>2, <1>4, <2>1 DEF TypeOK
<1>6. \A d \in Callers : Call(d)' = Call(d)
  BY <1>1 DEF Call
<1>7. IDsArePast' /\ OneWorkPerID'
  BY <1>1, <1>2, <1>4 DEF IInv, IDsArePast, OneWorkPerID
<1>8. WritesAreTracked' /\ EntriesAreAwaited' /\ MessagesAreOwn' /\ RequestsAreCalls'
  BY <1>1, <1>4, <1>6
  DEF IInv, WritesAreTracked, EntriesAreAwaited, MessagesAreOwn, RequestsAreCalls
<1>9. (\A e \in pending : OfCaller(e.work)) /\ greeted
  BY <1>1 DEF IInv, OneDiscovery, DiscoveryIsGreeted
<1>10. ReaderIsOnTrack' /\ OneDiscovery' /\ DiscoveryIsGreeted'
  BY <1>1, <1>4, <1>9
  DEF IInv, ReaderIsOnTrack, OneDiscovery, DiscoveryIsGreeted, OfCaller
<1>11. QED
  BY <1>5, <1>7, <1>8, <1>10 DEF IInv

\* A step that changes nothing but the health of link and device.
LEMMA HealthPreserves ==
    ASSUME IInv, UNCHANGED <<nextID, pending, tools, toolsKnown, pc, calls, id, channel>>,
           UNCHANGED <<got, reader, greeted, received, answered>>, healthy' \in BOOLEAN
    PROVE  IInv'
<1>1. \A d \in Callers : Call(d)' = Call(d)
  BY DEF Call
<1>2. TypeOK'
  BY DEF IInv, TypeOK
<1>3. IDsArePast' /\ OneWorkPerID' /\ WritesAreTracked' /\ EntriesAreAwaited'
  BY <1>1 DEF IInv, IDsArePast, OneWorkPerID, WritesAreTracked, EntriesAreAwaited
<1>4. MessagesAreOwn' /\ ReaderIsOnTrack' /\ OneDiscovery'
  BY <1>1 DEF IInv, MessagesAreOwn, ReaderIsOnTrack, OneDiscovery
<1>5. DiscoveryIsGreeted' /\ RequestsAreCalls'
  BY DEF IInv, DiscoveryIsGreeted, RequestsAreCalls
<1>6. QED
  BY <1>2, <1>3, <1>4, <1>5 DEF IInv

-----------------------------------------------------------------------------
(* The invariants.                                                          *)

\* Every step of the broker, its callers and its device keeps the invariant.
LEMMA NextPreserves == IInv /\ [Next]_vars => IInv'
<1> SUFFICES ASSUME IInv, [Next]_vars PROVE IInv'
  OBVIOUS
<1>1. ASSUME NEW c \in Callers, CallerStep(c) PROVE IInv'
  <2>1. UNCHANGED <<reader, greeted, answered, healthy>>
    BY <1>1 DEF CallerStep
  <2>2. CASE \E tool \in Tools : CallTool(c, tool)
    BY <2>1, <2>2, CallToolPreserves
  <2>3. CASE TrackCall(c)
    BY <2>1, <2>3, TrackCallPreserves
  <2>4. CASE SendCall(c)
    BY <2>1, <2>4, SendCallPreserves
  <2>5. CASE TakeAnswer(c) \/ GiveUp(c)
    BY <2>1, <2>5, StopsWaitingPreserves
  <2>6. CASE Return(c)
    BY <2>1, <2>6, ReturnPreserves
  <2>7. QED
    BY <1>1, <2>2, <2>3, <2>4, <2>5, <2>6 DEF CallerStep
<1>2. CASE ReaderStep
  <2>1. UNCHANGED <<pc, calls, id, got, healthy>>
    BY <1>2 DEF ReaderStep
  <2>2. CASE SendInitialize
    BY <2>1, <2>2, SendInitializePreserves
  <2>3. CASE TrackPage
    BY <2>1, <2>3, TrackPagePreserves
  <2>4. CASE SendPage
    BY <2>1, <2>4, SendPagePreserves
  <2>5. CASE Deliver
    BY <2>1, <2>5, DeliverPreserves
  <2>6. CASE AppendTools
    BY <2>1, <2>6, AppendToolsPreserves
  <2>7. CASE \E request \in received, ok \in BOOLEAN : HandleDevicePayload(request, ok)
    BY <2>1, <2>7, HandleDevicePayloadPreserves
  <2>8. QED
    BY <1>2, <2>2, <2>3, <2>4, <2>5, <2>6, <2>7 DEF ReaderStep, ReaderWorks
<1>3. CASE Break
  BY <1>3, HealthPreserves DEF Break, brokerVars, callVars
<1>4. CASE UNCHANGED vars
  <2>1. healthy' \in BOOLEAN
    BY <1>4 DEF IInv, TypeOK, vars
  <2>2. QED
    BY <1>4, <2>1, HealthPreserves DEF vars, brokerVars, callVars
<1>5. QED
  BY <1>1, <1>2, <1>3, <1>4 DEF Next

\* The invariant holds whatever the number of callers, calls and pages.
THEOREM InductiveInvariant == Spec => []IInv
  BY InitInvariant, NextPreserves, PTL DEF Spec

\* The table of the broker never keeps an entry of a call that is over, however
\* answer, time-out and failed write interleave (sendTracked, removePending).
THEOREM TableIsOfOpenCalls == Spec => []EntriesAreAwaited
<1>1. IInv => EntriesAreAwaited
  BY DEF IInv
<1>2. QED
  BY <1>1, InductiveInvariant, PTL

\* There is one chain of discovery requests, though the device may repeat the
\* answers it gave (HandleDevicePayload, handleAsyncResponse).
THEOREM DiscoveryIsOneChain == Spec => []OneDiscovery
<1>1. IInv => OneDiscovery
  BY DEF IInv
<1>2. QED
  BY <1>1, InductiveInvariant, PTL

-----------------------------------------------------------------------------
(* The broker implements ToolCalls.                                         *)

\* The state of a call, as its caller sees it, by where the caller is.
LEMMA CallStateByPC ==
    ASSUME NEW c \in Callers
    PROVE  /\ pc[c] = "idle" => CallState(c) = "idle"
           /\ pc[c] \in {"track", "send", "await"} => CallState(c) = "open"
           /\ pc[c] = "remove" /\ got[c] = {} => CallState(c) = "failed"
           /\ pc[c] = "remove" /\ got[c] # {} => CallState(c) = "answered"
  BY DEF CallState

\* What a step of one caller does to the states of all calls.
LEMMA OneCallTurns ==
    ASSUME NEW c \in Callers,
           \A d \in Callers : d # c => CallState(d)' = CallState(d)
    PROVE  /\ CallStates' = [CallStates EXCEPT ![c] = CallState(c)']
           /\ CallStates[c] = CallState(c)
           /\ CallState(c)' = CallState(c) => CallStates' = CallStates
  BY DEF CallStates

\* A step of one caller leaves the calls of the others as they are.
LEMMA OthersKeepTheirState ==
    ASSUME NEW c \in Callers,
           \A d \in Callers : d # c => pc'[d] = pc[d] /\ got'[d] = got[d]
    PROVE  \A d \in Callers : d # c => CallState(d)' = CallState(d)
  BY DEF CallState

\* A step of a caller is a step of its call, or none.
LEMMA CallerStepImplements ==
    ASSUME IInv, NEW c \in Callers, CallerStep(c)
    PROVE  [Service!Next]_Service!vars
<1>1. /\ TypeOK /\ answered' = answered /\ AnsweredCalls' = AnsweredCalls
  BY DEF CallerStep, IInv, AnsweredCalls
<1>2. /\ pc[c] # "remove" => got[c] = {}
      /\ channel[c] \subseteq {Call(c)} \cap answered
  BY DEF IInv, MessagesAreOwn
<1>3. CASE \E tool \in Tools : CallTool(c, tool)
  <2>1. /\ pc[c] = "idle" /\ pc' = [pc EXCEPT ![c] = "track"] /\ got' = got
        /\ calls' = [calls EXCEPT ![c] = @ + 1]
    BY <1>3 DEF CallTool, Goes
  <2>2. pc'[c] = "track" /\ \A d \in Callers : d # c => pc'[d] = pc[d]
    BY <1>1, <2>1 DEF TypeOK
  <2>3. CallState(c) = "idle" /\ CallState(c)' = "open"
    BY <2>1, <2>2 DEF CallState
  <2>4. \A d \in Callers : d # c => CallState(d)' = CallState(d)
    BY <2>1, <2>2, OthersKeepTheirState
  <2>5. CallStates[c] = "idle" /\ CallStates' = [CallStates EXCEPT ![c] = "open"]
    BY <2>3, <2>4, OneCallTurns
  <2>6. Service!Begin(c)
    BY <1>1, <2>1, <2>5 DEF Service!Begin, Service!Turn
  <2>7. QED
    BY <2>6 DEF Service!Next
<1>4. CASE TrackCall(c) \/ (SendCall(c) /\ pc'[c] = "await")
  <2>1. /\ pc[c] \in {"track", "send"} /\ got' = got /\ calls' = calls
        /\ \/ pc' = [pc EXCEPT ![c] = "send"]
           \/ pc' = [pc EXCEPT ![c] = "await"]
    BY <1>1, <1>4 DEF TrackCall, SendCall, Goes, TypeOK
  <2>2. pc'[c] \in {"send", "await"} /\ \A d \in Callers : d # c => pc'[d] = pc[d]
    BY <1>1, <2>1 DEF TypeOK
  <2>3. CallState(c) = "open" /\ CallState(c)' = "open"
    BY <2>1, <2>2 DEF CallState
  <2>4. CallStates' = CallStates
    BY <2>1, <2>2, <2>3, OthersKeepTheirState, OneCallTurns
  <2>5. QED
    BY <1>1, <2>1, <2>4 DEF Service!vars
<1>5. CASE GiveUp(c) \/ (SendCall(c) /\ pc'[c] # "await")
  <2>1. /\ pc[c] \in {"send", "await"} /\ pc' = [pc EXCEPT ![c] = "remove"]
        /\ got' = got /\ calls' = calls
    BY <1>1, <1>5 DEF GiveUp, SendCall, Goes, TypeOK
  <2>2. /\ pc'[c] = "remove" /\ got'[c] = {}
        /\ \A d \in Callers : d # c => pc'[d] = pc[d]
    BY <1>1, <1>2, <2>1 DEF TypeOK
  <2>3. CallState(c) = "open" /\ CallState(c)' = "failed"
    BY <2>1, <2>2 DEF CallState
  <2>4. CallStates[c] = "open" /\ CallStates' = [CallStates EXCEPT ![c] = "failed"]
    BY <2>1, <2>2, <2>3, OthersKeepTheirState, OneCallTurns
  <2>5. Service!Fail(c)
    BY <1>1, <2>1, <2>4 DEF Service!Fail, Service!Turn
  <2>6. QED
    BY <2>5 DEF Service!Next
<1>6. CASE TakeAnswer(c)
  <2>1. /\ pc[c] = "await" /\ pc' = [pc EXCEPT ![c] = "remove"]
        /\ got' = [got EXCEPT ![c] = channel[c]] /\ calls' = calls
        /\ channel[c] # {}
    BY <1>6 DEF TakeAnswer, Goes
  <2>2. /\ pc'[c] = "remove" /\ got'[c] # {}
        /\ \A d \in Callers : d # c => pc'[d] = pc[d] /\ got'[d] = got[d]
    BY <1>1, <2>1 DEF TypeOK
  <2>3. CallState(c) = "open" /\ CallState(c)' = "answered"
    BY <2>1, <2>2 DEF CallState
  <2>4. CallStates[c] = "open" /\ CallStates' = [CallStates EXCEPT ![c] = "answered"]
    BY <2>2, <2>3, OthersKeepTheirState, OneCallTurns
  <2>5. Call(c) \in AnsweredCalls
    BY <1>2, <2>1 DEF AnsweredCalls, OfCaller, Call
  <2>6. Service!Call(c) = Call(c)
    BY DEF Service!Call, Call
  <2>7. Service!Succeed(c)
    BY <1>1, <2>1, <2>4, <2>5, <2>6 DEF Service!Succeed, Service!Turn
  <2>8. QED
    BY <2>7 DEF Service!Next
<1>7. CASE Return(c)
  <2>1. /\ pc[c] = "remove" /\ pc' = [pc EXCEPT ![c] = "idle"]
        /\ got' = [got EXCEPT ![c] = {}] /\ calls' = calls
    BY <1>7 DEF Return, Goes
  <2>2. /\ pc'[c] = "idle"
        /\ \A d \in Callers : d # c => pc'[d] = pc[d] /\ got'[d] = got[d]
    BY <1>1, <2>1 DEF TypeOK
  <2>3. CallState(c) \in {"answered", "failed"} /\ CallState(c)' = "idle"
    BY <2>1, <2>2 DEF CallState
  <2>4. /\ CallStates[c] \in {"answered", "failed"}
        /\ CallStates' = [CallStates EXCEPT ![c] = "idle"]
    BY <2>2, <2>3, OthersKeepTheirState, OneCallTurns
  <2>5. Service!Return(c)
    BY <1>1, <2>1, <2>4 DEF Service!Return, Service!Turn
  <2>6. QED
    BY <2>5 DEF Service!Next
<1>8. QED
  BY <1>3, <1>4, <1>5, <1>6, <1>7 DEF CallerStep

\* A step that moves no caller changes the state of no call.
LEMMA CallsStayAsTheyAre ==
    ASSUME UNCHANGED <<pc, got, calls>>
    PROVE  CallStates' = CallStates /\ calls' = calls
  BY DEF CallStates, CallState

\* A payload is the device's answer to a call that was made, or the broker's own.
LEMMA HandleDevicePayloadImplements ==
    ASSUME IInv, NEW request \in received, NEW ok \in BOOLEAN,
           HandleDevicePayload(request, ok),
           UNCHANGED <<pc, calls, id, got, healthy>>
    PROVE  [Service!Next]_Service!vars
<1> DEFINE work == request.work
<1>1. /\ answered' = answered \cup {work}
      /\ CallStates' = CallStates /\ calls' = calls
  BY CallsStayAsTheyAre DEF HandleDevicePayload
<1>2. work \in Works
  BY DEF IInv, TypeOK, Requests
<1>3. CASE OfCaller(work)
  <2>1. PICK c \in Callers : work.by = c
    BY <1>3 DEF OfCaller
  <2>2. work.n \in 1 .. calls[c] /\ work = [by |-> c, n |-> work.n]
    BY <1>2, <2>1 DEF IInv, RequestsAreCalls, Works
  <2>3. AnsweredCalls' = AnsweredCalls \cup {[by |-> c, n |-> work.n]}
    BY <1>1, <1>3, <2>2 DEF AnsweredCalls, OfCaller
  <2>4. Service!DeviceAnswers(c, work.n)
    BY <1>1, <2>2, <2>3 DEF Service!DeviceAnswers
  <2>5. QED
    BY <2>2, <2>4 DEF Service!Next
<1>4. CASE ~OfCaller(work)
  <2>1. AnsweredCalls' = AnsweredCalls
    BY <1>1, <1>4 DEF AnsweredCalls, OfCaller
  <2>2. QED
    BY <1>1, <2>1 DEF Service!vars
<1>5. QED
  BY <1>3, <1>4

\* Every step of the broker is a step of ToolCalls or changes nothing in it.
LEMMA NextImplements == IInv /\ [Next]_vars => [Service!Next]_Service!vars
<1> SUFFICES ASSUME IInv, [Next]_vars PROVE [Service!Next]_Service!vars
  OBVIOUS
<1>1. ASSUME NEW c \in Callers, CallerStep(c) PROVE [Service!Next]_Service!vars
  BY <1>1, CallerStepImplements
<1>2. CASE \E request \in received, ok \in BOOLEAN :
             HandleDevicePayload(request, ok) /\ ReaderStep
  <2>1. UNCHANGED <<pc, calls, id, got, healthy>>
    BY <1>2 DEF ReaderStep
  <2>2. QED
    BY <1>2, <2>1, HandleDevicePayloadImplements
<1>3. CASE \/ ReaderStep /\ (SendInitialize \/ ReaderWorks)
           \/ Break \/ UNCHANGED vars
  <2>1. answered' = answered
    BY <1>3
    DEF SendInitialize, ReaderWorks, TrackPage, SendPage, Deliver, AppendTools, Break, vars
  <2>2. UNCHANGED <<pc, got, calls>>
    BY <1>3 DEF ReaderStep, Break, vars, callVars
  <2>3. QED
    BY <2>1, <2>2, CallsStayAsTheyAre DEF AnsweredCalls, Service!vars
<1>4. QED
  BY <1>1, <1>2, <1>3 DEF Next, ReaderStep

\* What the callers see of the broker is ToolCalls: a call returns the device's
\* answer to that very call, or an error, however late or often the device answers
\* and whatever calls of the same caller came before (roundTrip,
\* HandleDevicePayload).
THEOREM Implementation == Spec => ImplementsToolCalls
<1>1. Init => Service!Init
  BY DEF Init, Service!Init, CallStates, CallState, AnsweredCalls
<1>2. IInv /\ [Next]_vars => [Service!Next]_Service!vars
  BY NextImplements
<1>3. QED
  BY <1>1, <1>2, InductiveInvariant, PTL DEF Spec, ImplementsToolCalls, Service!Spec
=============================================================================
