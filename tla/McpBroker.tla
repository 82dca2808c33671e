----------------------------- MODULE McpBroker -----------------------------
(***************************************************************************)
(* The mcp.Broker of one voice loop: the goroutines that call tools of the  *)
(* device (the tool orchestrator, the LED and scene dispatchers), the read  *)
(* loop that says initialize, discovers the tools page by page and hands    *)
(* answers over, and the device, which may answer late, again or not at     *)
(* all.  A step is a critical section under Broker.mu, a write to the       *)
(* device, or a channel operation.                                          *)
(*                                                                          *)
(* What a request asks for is its work: a caller's n-th call, or the        *)
(* broker's page n of tools/list, where page 0 is initialize.  The device   *)
(* has one tool on every page, called by the page's number.                 *)
(***************************************************************************)
EXTENDS Integers, FiniteSets

CONSTANTS
    Callers,    \* goroutines that call tools
    Broker,     \* the broker itself, as the origin of discovery
    LastPage,   \* of the device's tools/list
    MaxCalls    \* bound: calls of each caller

ASSUME McpBrokerAssumption ==
    /\ Broker \notin Callers
    /\ LastPage \in Nat \ {0}
    /\ MaxCalls \in [Callers -> Nat]

VARIABLES
    nextID, pending, tools, toolsKnown,     \* Broker
    \* a caller in CallTool and roundTrip
    pc, calls, id,
    channel,    \* the messages in the buffered channel of its call, at most one
    got,        \* what roundTrip returns: a message, or none and an error
    \* the read loop; greeted when it has said initialize
    reader, greeted,
    \* the device
    received,   \* the requests that have reached it
    answered,   \* the work it has answered, for the properties
    healthy     \* it answers, and the link works

brokerVars == <<nextID, pending, tools, toolsKnown>>
callVars   == <<pc, calls, id, channel, got>>
vars == <<brokerVars, callVars, reader, greeted, received, answered, healthy>>

Tools == 1 .. LastPage
Page(p) == [by |-> Broker, n |-> p]
Call(c) == [by |-> c, n |-> calls[c]]
NoID == 0

Reader(at, i, to, msg) == [pc |-> at, id |-> i, to |-> to, msg |-> msg]
Waiting == Reader("idle", NoID, Page(0), Page(0))

Init ==
    /\ nextID = 0 /\ pending = {} /\ tools = {} /\ toolsKnown = FALSE
    /\ pc = [c \in Callers |-> "idle"]
    /\ calls = [c \in Callers |-> 0]
    /\ id = [c \in Callers |-> NoID]
    /\ channel = [c \in Callers |-> {}]
    /\ got = [c \in Callers |-> {}]
    /\ reader = Waiting /\ greeted = FALSE
    /\ received = {} /\ answered = {} /\ healthy = TRUE

-----------------------------------------------------------------------------
(* Requests (sendTracked).                                                  *)

\* Mutant: ids are taken from the size of the table.
IDFromTable == Cardinality(pending) + 1

\* nextRequestID, an atomic counter.
FreshID == nextID + 1

Entries(i) == {e \in pending : e.id = i}

\* The entry is in the table before the request is written.
Track(work) ==
    /\ nextID' = FreshID
    /\ pending' = (pending \ Entries(FreshID)) \cup {[id |-> FreshID, work |-> work]}

\* The request is written, or that fails.
Write(i, work) == received' = received \cup {[id |-> i, work |-> work]}

-----------------------------------------------------------------------------
(* CallTool.                                                                *)

Goes(c, from, to) == pc[c] = from /\ pc' = [pc EXCEPT ![c] = to]

\* toolAvailable.
Available(tool) == toolsKnown => tool \in tools

\* A call that is refused, by the allowlist or by toolAvailable, changes nothing.
CallTool(c, tool) ==
    /\ calls[c] < MaxCalls[c]
    /\ Available(tool)
    /\ Goes(c, "idle", "track")
    /\ calls' = [calls EXCEPT ![c] = @ + 1]
    /\ UNCHANGED <<brokerVars, id, channel, got, received>>

TrackCall(c) ==
    /\ Goes(c, "track", "send")
    /\ Track(Call(c))
    /\ id' = [id EXCEPT ![c] = nextID']
    /\ UNCHANGED <<tools, toolsKnown, calls, channel, got, received>>

SendCall(c) ==
    /\ \/ Goes(c, "send", "await") /\ Write(id[c], Call(c))
       \/ ~healthy /\ Goes(c, "send", "remove") /\ UNCHANGED received
    /\ UNCHANGED <<brokerVars, calls, id, channel, got>>

\* select in roundTrip: the answer ...
TakeAnswer(c) ==
    /\ channel[c] # {}
    /\ Goes(c, "await", "remove")
    /\ got' = [got EXCEPT ![c] = channel[c]]
    /\ channel' = [channel EXCEPT ![c] = {}]
    /\ UNCHANGED <<brokerVars, calls, id, received>>

\* ... or the time-out, or the end of the caller's context.
GiveUp(c) ==
    /\ Goes(c, "await", "remove")
    /\ UNCHANGED <<brokerVars, calls, id, channel, got, received>>

\* Mutant: a call that was given up leaves its entry in the table.
RemoveAnswered(c) ==
    IF got[c] = {} THEN UNCHANGED pending
    ELSE pending' = pending \ Entries(id[c])

Remove(c) == pending' = pending \ Entries(id[c])

\* removePending, deferred or after a failed write, and the return.
Return(c) ==
    /\ Goes(c, "remove", "idle")
    /\ Remove(c)
    /\ id' = [id EXCEPT ![c] = NoID]
    /\ channel' = [channel EXCEPT ![c] = {}]
    /\ got' = [got EXCEPT ![c] = {}]
    /\ UNCHANGED <<nextID, tools, toolsKnown, calls, received>>

CallerStep(c) ==
    /\ \/ \E tool \in Tools : CallTool(c, tool)
       \/ TrackCall(c)
       \/ SendCall(c)
       \/ TakeAnswer(c)
       \/ GiveUp(c)
       \/ Return(c)
    /\ UNCHANGED <<reader, greeted, answered, healthy>>

-----------------------------------------------------------------------------
(* The read loop: SendInitialize, once, and HandleDevicePayload.            *)

SendInitialize ==
    /\ reader = Waiting
    /\ ~greeted
    /\ greeted' = TRUE
    /\ reader' = Reader("track", NoID, Page(0), Page(0))
    /\ UNCHANGED <<brokerVars, channel, received, answered>>

TrackPage ==
    /\ reader.pc = "track"
    /\ Track(reader.to)
    /\ reader' = Reader("send", nextID', reader.to, reader.to)
    /\ UNCHANGED <<tools, toolsKnown, channel, greeted, received, answered>>

SendPage ==
    /\ reader.pc = "send"
    /\ \/ /\ Write(reader.id, reader.to)
          /\ UNCHANGED pending
       \/ /\ ~healthy
          /\ pending' = pending \ Entries(reader.id)
          /\ UNCHANGED received
    /\ reader' = Waiting
    /\ UNCHANGED <<nextID, tools, toolsKnown, channel, greeted, answered>>

\* What is done with the answer to a request: a caller's is handed over, the
\* broker's goes to handleAsyncResponse, where an error ends the discovery.
Dispatch(work, msg, ok) ==
    IF work.by # Broker THEN Reader("deliver", NoID, work, msg)
    ELSE IF ~ok THEN Waiting
    ELSE IF work = Page(0) THEN Reader("track", NoID, Page(1), Page(1))
    ELSE Reader("append", NoID, work, msg)

\* Mutant: the entry is looked up and stays.
LeftIn(i) == {}

TakenOut(i) == Entries(i)

\* The device answers a request, with a result it can decode or not, and perhaps
\* not for the first time; the entry is looked up and deleted.
HandleDevicePayload(request, ok) ==
    /\ reader = Waiting
    /\ ok \/ ~healthy
    /\ answered' = answered \cup {request.work}
    /\ pending' = pending \ TakenOut(request.id)
    /\ IF Entries(request.id) = {} THEN UNCHANGED reader
       ELSE \E e \in Entries(request.id) : reader' = Dispatch(e.work, request.work, ok)
    /\ UNCHANGED <<nextID, tools, toolsKnown, channel, greeted, received>>

\* The message goes into the channel of the call that made the entry, unless it
\* holds one; when that call is over nobody can see its channel.
Deliver ==
    /\ reader.pc = "deliver"
    /\ LET c == reader.to.by
       IN  channel' = IF reader.to = Call(c) /\ pc[c] # "idle" /\ channel[c] = {}
                      THEN [channel EXCEPT ![c] = {reader.msg}] ELSE channel
    /\ reader' = Waiting
    /\ UNCHANGED <<brokerVars, greeted, received, answered>>

\* Mutant: only the first page is asked for.
NoneFollows(p) == FALSE

\* The device names a next cursor.
Follows(p) == p < LastPage

\* appendTools, and sendToolsListPage for the next page.
AppendTools ==
    /\ reader.pc = "append"
    /\ LET p == reader.msg.n
       IN  /\ tools' = tools \cup {p}
           /\ reader' = IF Follows(p)
                        THEN Reader("track", NoID, Page(p + 1), Page(p + 1))
                        ELSE Waiting
    /\ toolsKnown' = TRUE
    /\ UNCHANGED <<nextID, pending, channel, greeted, received, answered>>

ReaderWorks == TrackPage \/ SendPage \/ Deliver \/ AppendTools

ReaderStep ==
    /\ \/ SendInitialize
       \/ ReaderWorks
       \/ \E request \in received, ok \in BOOLEAN : HandleDevicePayload(request, ok)
    /\ UNCHANGED <<pc, calls, id, got, healthy>>

\* From here on writes may fail and the device may answer with errors, or not.
Break ==
    /\ healthy
    /\ healthy' = FALSE
    /\ UNCHANGED <<brokerVars, callVars, reader, greeted, received, answered>>

Next ==
    \/ \E c \in Callers : CallerStep(c)
    \/ ReaderStep
    \/ Break

Spec == Init /\ [][Next]_vars

\* The read loop goes on, and a device that is well answers what it is asked
\* while its tools are discovered.
AnswersPage(p) ==
    /\ \E request \in received :
          request.work = Page(p) /\ HandleDevicePayload(request, TRUE)
    /\ UNCHANGED <<pc, calls, id, got, healthy>>

Fairness ==
    /\ WF_vars(ReaderWorks /\ UNCHANGED <<pc, calls, id, got, healthy>>)
    /\ \A p \in 0 .. LastPage : WF_vars(healthy /\ AnswersPage(p))

FairSpec == Spec /\ Fairness

-----------------------------------------------------------------------------
Works == [by : Callers \cup {Broker}, n : Nat]
Requests == [id : Nat, work : Works]
OfCaller(work) == work.by \in Callers

\* Every field of the broker, a call and the read loop keeps its type; the broker
\* asks for no page the device does not have.
TypeOK ==
    /\ nextID \in Nat
    /\ pending \subseteq Requests
    /\ tools \subseteq Tools
    /\ toolsKnown \in BOOLEAN
    /\ pc \in [Callers -> {"idle", "track", "send", "await", "remove"}]
    /\ calls \in [Callers -> Nat]
    /\ id \in [Callers -> Nat]
    /\ channel \in [Callers -> SUBSET Works]
    /\ got \in [Callers -> SUBSET Works]
    /\ reader \in [pc : {"idle", "track", "send", "deliver", "append"},
                   id : Nat, to : Works, msg : Works]
    /\ reader.to.by = Broker => reader.to.n \in 0 .. LastPage
    /\ greeted \in BOOLEAN
    /\ received \subseteq Requests
    /\ answered \subseteq Works
    /\ healthy \in BOOLEAN

\* The table keeps no entry of a call that is over: whatever the order of answer,
\* time-out and failed write, an entry of a caller is the one of the call it is in
\* (roundTrip, sendTracked, removePending).
EntriesAreAwaited ==
    \A e \in pending : \A c \in Callers :
        e.work.by = c =>
            e.work = Call(c) /\ e.id = id[c] /\ pc[c] \in {"send", "await", "remove"}

\* The discovery is one chain of requests: an answer the device repeats does not
\* start a second one (HandleDevicePayload, handleAsyncResponse).
OneDiscovery ==
    \A e \in pending : ~OfCaller(e.work) =>
        /\ \A f \in pending : ~OfCaller(f.work) => f = e
        /\ reader.pc \notin {"track", "append"}

CallState(c) ==
    CASE pc[c] = "idle" -> "idle"
      [] pc[c] \in {"track", "send", "await"} -> "open"
      [] pc[c] = "remove" -> IF got[c] = {} THEN "failed" ELSE "answered"

CallStates == [c \in Callers |-> CallState(c)]
AnsweredCalls == {w \in answered : OfCaller(w)}

Service == INSTANCE ToolCalls WITH
    calls <- calls, state <- CallStates, answered <- AnsweredCalls

\* ToolCalls is what the callers see: a call returns the device's answer to that
\* call and no other, however late answers, time-outs and later calls of the same
\* caller interleave (roundTrip, HandleDevicePayload).
ImplementsToolCalls == Service!Spec

\* While link and device are well the discovery gets to the last page.
DiscoveryCompletes == []healthy => (greeted ~> tools = Tools)
-----------------------------------------------------------------------------
(* The inductive invariant behind these properties.                         *)

\* Ids only come from the counter.
IDsArePast ==
    /\ \A e \in pending \cup received : e.id <= nextID
    /\ \A c \in Callers : id[c] <= nextID
    /\ reader.id <= nextID

\* An id stands for the same work in the table and at the device.
OneWorkPerID ==
    \A e \in pending : \A r \in pending \cup received :
        e.id = r.id => e.work = r.work

\* A request that is about to be written is the one in the table.
WritesAreTracked ==
    /\ \A c \in Callers : pc[c] = "send" =>
          \A e \in pending : e.id = id[c] => e.work = Call(c)
    /\ reader.pc = "send" =>
          \A e \in pending : e.id = reader.id => e.work = reader.to

\* What a channel holds or roundTrip returns is the device's answer to the call.
MessagesAreOwn ==
    \A c \in Callers :
        /\ channel[c] \cup got[c] \subseteq {Call(c)} \cap answered
        /\ pc[c] = "idle" => channel[c] = {}
        /\ pc[c] # "remove" => got[c] = {}

\* The read loop hands over what the entry asked for, or goes on discovering.
ReaderIsOnTrack ==
    /\ reader.pc = "deliver" =>
          OfCaller(reader.to) /\ reader.msg = reader.to /\ reader.msg \in answered
    /\ reader.pc \in {"track", "send", "append"} => reader.to.by = Broker
    /\ reader.pc = "append" => reader.msg = reader.to /\ reader.to.n # 0

\* Before initialize nothing of the discovery has been asked; the device is asked
\* for the pages it has.
DiscoveryIsGreeted ==
    /\ \A e \in pending : ~OfCaller(e.work) => greeted /\ e.work.n <= LastPage
    /\ ~greeted => reader.pc \in {"idle", "deliver"}

\* The device only has requests of calls that were made.
RequestsAreCalls ==
    /\ \A c \in Callers : pc[c] # "idle" => calls[c] >= 1
    /\ \A r \in received : \A c \in Callers :
          r.work.by = c => r.work.n \in 1 .. calls[c]

IInv ==
    /\ TypeOK
    /\ IDsArePast
    /\ OneWorkPerID
    /\ WritesAreTracked
    /\ EntriesAreAwaited
    /\ MessagesAreOwn
    /\ ReaderIsOnTrack
    /\ OneDiscovery
    /\ DiscoveryIsGreeted
    /\ RequestsAreCalls
=============================================================================
