------------------------------ MODULE Gateway ------------------------------
(***************************************************************************)
(* The turns of one device against what the process shares between turns:   *)
(* the provider router, the agent policy, the memory, the service tools and *)
(* the device tools, with the admin API and the process itself, which       *)
(* starts, stops, crashes and starts again (session/session.go around a     *)
(* turn, app/app.go, app/lifecycle.go, httpapi/).  The reader of the        *)
(* connection opens and cuts turns, each turn has a pump, the admin API is  *)
(* an actor of its own.  VoiceLoop has the sound and the session states of  *)
(* a turn, TurnTools its requests; here it is the order of its reads and    *)
(* writes of the shared state.  Init switches one feature of the            *)
(* configuration on.                                                        *)
(***************************************************************************)
EXTENDS ProviderRouter, AgentPolicy, MemoryStore, ServiceTools, DeviceTools

CONSTANTS
    Features,       \* among "profiles", "agents", "memory", "tools", "device"
    Spoken,         \* the profiles that a spoken command names
    Offered,        \* the agent modes that requests set
    MaxTurns,       \* bound, per feature: turns
    MaxAdmin,       \* bound, per feature: requests to the admin API
    MaxPumps,       \* bound: turns whose pump is still running
    MaxStarts       \* bound: starts of the process

Turns == Observers

ASSUME GatewayAssumption ==
    /\ Features \subseteq {"profiles", "agents", "memory", "tools", "device"}
    /\ Spoken \subseteq Profiles
    /\ Offered \subseteq Modes
    /\ IsFiniteSet(Turns) /\ Turns = 1 .. Cardinality(Turns) /\ Routers = Turns /\ Writers = Turns
    /\ Speakers = Turns
    /\ \A f \in Features : MaxTurns[f] \in Nat /\ MaxAdmin[f] \in Nat
    /\ MaxPumps \in Nat /\ MaxStarts \in Nat

VARIABLES
    feature,
    process,        \* "starting", "serving", "closing", "closed", "exited"
    starts, admins, \* starts of the process, requests to the admin API
    active,         \* VoiceLoop.active: a turn, or 0
    turn            \* the TurnRuntime of each turn, and how far its goroutine has come

turnVars == <<active, turn>>
hostVars == <<feature, process, starts, admins, toolVars, deviceVars>>
vars == <<routerVars, policyVars, memoryVars, turnVars, hostVars>>

\* step: what the pump does next.  live: the context of the turn is not cancelled.
\* owes: the reader cancelled the turn and has yet to record it.  by: who recorded
\* its completion.  cleared: was it live when its runtime was cleared, in a session
\* that is still open.
NewTurn == [step |-> "none", live |-> TRUE, owes |-> FALSE, by |-> "nobody",
            profile |-> None, audio |-> "good", heard |-> "nothing",
            cleared |-> "no"]

Init ==
    /\ RouterInit /\ PolicyInit /\ MemoryInit /\ DeviceInit
    /\ feature \in Features /\ starts = 1 /\ admins = 0
    /\ called = NoCall /\ sent = Nothing /\ held = {}
    /\ IF feature = "tools"
       THEN /\ process = "starting" /\ stage = "off" /\ conf \in Configs
            /\ sqlite <=> "memory" \in conf.parts
       ELSE /\ process = IF feature = "device" THEN "starting" ELSE "serving"
            /\ stage = "serving" /\ conf = CHOOSE c \in Configs : TRUE
            /\ sqlite \/ feature = "memory"
    /\ feature = "device" \/ section = CHOOSE s \in Sections : TRUE
    /\ active = 0 /\ turn = [t \in Turns |-> NewTurn]

-----------------------------------------------------------------------------
Open(t) == process \in {"serving", "closing", "closed"} /\ turn[t].step # "gone"

\* recordTurnComplete: the first caller claims the turn under VoiceLoop.mu, and
\* calls ObserveVoiceTurn when the turn has a profile.  Observe goes on with it.
Observes(t, error) ==
    IF turn[t].by # "nobody" \/ turn[t].profile = None \/ feature # "profiles"
    THEN UNCHANGED obs
    ELSE StartObservation(t, turn[t].profile, IF error THEN "error" ELSE turn[t].audio)

By(t, who) == IF turn[t].by = "nobody" THEN who ELSE turn[t].by

\* Nothing of a turn that is over is read again, but for what its reader owes.
Past(t, who) == [NewTurn EXCEPT !.step = "over", !.by = By(t, who), !.owes = turn[t].owes]

\* The pump of turn t returns, its completion recorded.  What the turn has started on
\* the device goes on, as that of a live turn unless it failed.
Over(t, error) ==
    /\ turn' = [turn EXCEPT ![t] = [Past(t, "pump") EXCEPT
                                        !.live = feature # "device" \/ (turn[t].live /\ ~error)]]
    /\ Observes(t, error)

\* The reader has nothing left to do for the last message.
ReaderFree ==
    \A t \in Turns : /\ turn[t].step # "resolve" /\ ~turn[t].owes
                     /\ ~(turn[t].by = "reader" /\ Observing(t))

\* Mutant: the runtime of a turn that is over remains the active one.
KeepActive(t) == UNCHANGED active

\* clearRuntime.
Clear(t) == active' = IF active = t THEN 0 ELSE active

\* cancelActiveTurn.  The record of the turn is a step of its own where an observer
\* of it takes steps.
Cancelled == [t \in Turns |-> IF t = active
                              THEN [turn[t] EXCEPT !.live = FALSE, !.owes = feature = "profiles"]
                              ELSE turn[t]]

-----------------------------------------------------------------------------
\* HandleListenStart: StartListening and replaceActiveTurn.
Running == {t \in Turns : turn[t].step \notin {"none", "over", "gone"}}

ListenStart ==
    /\ process = "serving" /\ ReaderFree /\ Cardinality(Running) < MaxPumps
    /\ \E t \in Turns :
         /\ t <= MaxTurns[feature] /\ turn[t].step = "none"
         /\ \A s \in Turns : s < t => turn[s].step # "none"
         /\ turn' = [Cancelled EXCEPT ![t].step = "resolve"] /\ active' = t
    /\ UNCHANGED <<routerVars, policyVars, memoryVars, hostVars>>

\* The reader records the turn it has cut off: barge_in, aborted, session_closed.
RecordCut(t) ==
    /\ Open(t) /\ turn[t].owes
    /\ turn' = [turn EXCEPT ![t].owes = FALSE, ![t].by = By(t, "reader")]
    /\ Observes(t, FALSE)
    /\ UNCHANGED <<manual, auto, streak, counted, policyVars, memoryVars,
                   active, hostVars>>

Resolving(t) ==
    /\ Open(t) /\ turn[t].step = "resolve"
    /\ \A s \in Turns \ {t} : ~turn[s].owes /\ ~(turn[s].by = "reader" /\ Observing(s))

\* The rest of HandleListenStart: the providers of the turn, the start of its ASR.
ResolveProviders(t) ==
    /\ Resolving(t) /\ Resolved # None
    /\ turn' = [turn EXCEPT ![t].step = "listening", ![t].profile = Resolved]
    /\ UNCHANGED <<routerVars, policyVars, memoryVars, active, hostVars>>

\* failListenStartRuntime: with no profile yet, or with the one whose ASR failed.
ListenStartFails(t) ==
    /\ Resolving(t) /\ Clear(t)
    /\ turn' = [turn EXCEPT ![t] = [Past(t, "reader") EXCEPT !.owes = FALSE]]
    /\ IF Resolved = None \/ turn[t].by # "nobody" \/ feature # "profiles"
       THEN UNCHANGED obs
       ELSE StartObservation(t, Resolved, "error")
    /\ UNCHANGED <<manual, auto, streak, counted, policyVars, memoryVars,
                   hostVars>>

\* HandleAbort.
Abort ==
    /\ process = "serving" /\ ReaderFree /\ active # 0
    /\ turn' = Cancelled /\ active' = 0
    /\ UNCHANGED <<routerVars, policyVars, memoryVars, hostVars>>

\* VoiceLoop.Close, and the return of the connection's handler, whose context is
\* the parent of the contexts of all turns of the session.  A device keeps its session
\* where its tools are called.
CloseTurns ==
    /\ turn' = [t \in Turns |-> IF turn[t].step = "none" THEN turn[t]
                                ELSE [Cancelled[t] EXCEPT
                                        !.live = FALSE,
                                        !.cleared = IF @ = "live" THEN "dead" ELSE @]]
    /\ active' = 0

Disconnect ==
    /\ process = "serving" /\ ReaderFree /\ active # 0 /\ feature # "device" /\ CloseTurns
    /\ UNCHANGED <<routerVars, policyVars, memoryVars, hostVars>>
-----------------------------------------------------------------------------
Step(t, step) == turn' = [turn EXCEPT ![t].step = step]

Gone == [t \in Turns |-> IF turn[t].step \in {"none", "over"} THEN turn[t]
                         ELSE [turn[t] EXCEPT !.step = "gone", !.owes = FALSE]]

\* What ends with the process.
Vanish ==
    /\ memoryOpen' = FALSE /\ compacting' = FALSE /\ turn' = Gone /\ active' = 0
    /\ UNCHANGED <<sqlite, rows, recent, writer, written, appended>>

\* handleASRFinal, up to the commands: a text, which may tell facts, or a command.
\* Where there are no bridges a text goes on to the LLM.
Hear(t) ==
    /\ Open(t) /\ turn[t].step = "listening" /\ turn[t].live
    /\ \E heard \in {"text"} \cup (IF feature = "device" THEN {} ELSE {"command"}) :
         turn' = [turn EXCEPT ![t].heard = heard,
                              ![t].step = IF heard = "text" /\ feature # "agents" THEN "reply"
                                          ELSE "route"]
    /\ UNCHANGED <<routerVars, policyVars, memoryVars, active, hostVars>>

\* handleAgentModeCommand: a command is carried out and answered, cut off or not.
CommandMode(t) ==
    /\ Open(t) /\ turn[t].step = "route" /\ turn[t].heard = "command"
    /\ feature # "profiles"
    /\ \E c \in {IF feature = "tools" THEN "professional" ELSE "roleplay", "exit"} :
         ModeCommand(c)
    /\ Step(t, "reply")
    /\ UNCHANGED <<routerVars, clock, seen, cooldowns, route, passed, results,
                   memoryVars, active, hostVars>>

\* handleProviderProfileCommand: "unavailable" is an answer, too.
CommandProfile(t) ==
    /\ Open(t) /\ turn[t].step = "route" /\ turn[t].heard = "command"
    /\ feature = "profiles"
    /\ \/ ClearDeviceProfile
       \/ \E p \in Spoken : IF Settable(p) THEN SetDeviceProfile(p) ELSE UNCHANGED routerVars
    /\ Step(t, "reply")
    /\ UNCHANGED <<policyVars, memoryVars, active, hostVars>>

\* handleAgentRuntimeRoute; AgentPolicy goes on with it.
AskBridge(t) ==
    /\ Open(t) /\ turn[t].step = "route" /\ turn[t].heard = "text"
    /\ StartRoute(t) /\ Step(t, "bridge")
    /\ UNCHANGED <<routerVars, override, clock, seen, cooldowns, passed, results,
                   memoryVars, active, hostVars>>

\* It answers, or the LLM does; a failure ends the turn when it is cut off.
BridgeReturns(t) ==
    /\ Open(t) /\ turn[t].step = "bridge"
    /\ \/ /\ \/ route[t].step \in {"skipped", "answered"}
             \/ route[t].step = "failed" /\ turn[t].live
          /\ Step(t, "reply") /\ UNCHANGED obs
       \/ route[t].step = "failed" /\ ~turn[t].live /\ Over(t, TRUE)
    /\ route' = [route EXCEPT ![t] = NoRoute]
    /\ UNCHANGED <<manual, auto, streak, counted, override, clock, seen, cooldowns,
                   passed, results, memoryVars, active, hostVars>>

\* A call to a service tool beside the reply, cut off or not; TurnTools has the calls
\* themselves.  Nothing recovers from a panic: it ends the process.
CallTool(t) ==
    /\ Open(t) /\ turn[t].step = "reply" /\ feature = "tools"
    /\ \E tool \in Tools : ExecuteTool(tool, ActiveMode)
    /\ IF called'.outcome = "panic" THEN process' = "exited" /\ Vanish
       ELSE UNCHANGED <<process, memoryVars, turnVars>>
    /\ UNCHANGED <<routerVars, policyVars, feature, starts, admins, deviceVars>>

\* The same for the tools of the device: the pump plays a call to its end.  A command
\* is held back unless its turn is the last one, and not aborted.
LastTurn(t) == turn[t].live /\ \A s \in Turns : s > t => turn[s].step = "none"

Calling(t) == play[<<t, "call">>].at \notin {"idle", "asked", "reported"}

UseDevice(t) ==
    /\ Open(t) /\ turn[t].step = "reply" /\ feature = "device"
    /\ \/ AskModel(t) \/ CallDeviceTool(t) \/ ReportOutcome(t)
       \/ PlayOn(<<t, "call">>, LastTurn(t))
    /\ UNCHANGED <<routerVars, policyVars, memoryVars, turnVars,
                   feature, process, starts, admins, toolVars>>

\* markFirstAudibleLatency, above yellow_first_audio_ms.
FirstAudioIsLate(t) ==
    /\ Open(t) /\ turn[t].step = "reply" /\ turn[t].live /\ feature = "profiles"
    /\ turn[t].audio = "good" /\ turn' = [turn EXCEPT ![t].audio = "yellow"]
    /\ UNCHANGED <<routerVars, policyVars, memoryVars, active, hostVars>>

\* The pump fails: its provider or the connection does, or its context is cancelled
\* during a request, which is recorded as an error of the turn as well.
PumpFails(t) ==
    /\ Open(t)
    /\ ~Calling(t)
    /\ \/ turn[t].step \in {"route", "reply"}
       \/ turn[t].step = "listening" /\ turn[t].live
    /\ Over(t, TRUE)
    /\ UNCHANGED <<manual, auto, streak, counted, policyVars, memoryVars,
                   active, hostVars>>

\* The pump finds that its turn is cut off.
PumpStops(t) ==
    /\ Open(t) /\ turn[t].step \in {"listening", "route", "reply"} /\ ~turn[t].live
    /\ ~Calling(t)
    /\ Over(t, FALSE)
    /\ UNCHANGED <<manual, auto, streak, counted, policyVars, memoryVars,
                   active, hostVars>>

\* flushRemainingTTS: the last check, CompleteSpeaking.  With nothing to remember, the
\* runtime is cleared and the turn recorded next.
FinishReply(t) ==
    /\ Open(t) /\ turn[t].step = "reply" /\ turn[t].live /\ ~Calling(t)
    /\ IF feature = "memory" THEN Step(t, "spoken") /\ UNCHANGED <<obs, active>>
       ELSE Clear(t) /\ Over(t, FALSE)
    /\ UNCHANGED <<manual, auto, streak, counted, policyVars, memoryVars, hostVars>>

\* Mutant: the reply to a command is remembered with it.
ToldAnything(t) == turn[t].step = "remember"

\* What is remembered: a command is answered with an empty transcript.
Told(t) == turn[t].heard = "text"

\* clearRuntime; then the facts of the transcript, in a database.
ClearRuntime(t) ==
    /\ Open(t) /\ turn[t].step = "spoken" /\ Clear(t)
    /\ turn' = [turn EXCEPT ![t].step = "remember",
                            ![t].cleared = IF turn[t].live THEN "live" ELSE "dead"]
    /\ writer' = [writer EXCEPT
         ![t].facts = IF sqlite /\ turn[t].heard = "text" THEN <<"name", "likes">> ELSE <<>>]
    /\ UNCHANGED <<routerVars, policyVars, memoryOpen, sqlite, rows, recent,
                   compacting, written, appended, hostVars>>

\* writeMemories, recordConversationTurn.
WriteMemories(t) ==
    /\ Open(t) /\ turn[t].step = "remember" /\ WriteFact(t, turn[t].live)
    /\ UNCHANGED <<routerVars, policyVars, turnVars, hostVars>>

RecordConversationTurn(t) ==
    /\ Open(t) /\ turn[t].step = "remember" /\ writer[t].facts = <<>> /\ Told(t)
    /\ AppendRecent(t) \/ AppendFails(t) \/ PruneRecent(t)
    /\ UNCHANGED <<routerVars, policyVars, turnVars, hostVars>>

RecordTurnComplete(t) ==
    /\ Open(t) /\ turn[t].step = "remember" /\ writer[t].facts = <<>>
    /\ Told(t) => writer[t].row \in {"kept", "lost"}
    /\ Over(t, FALSE)
    /\ writer' = [writer EXCEPT ![t] = NothingToWrite] /\ written' = [written EXCEPT ![t] = {}]
    /\ UNCHANGED <<manual, auto, streak, counted, policyVars, memoryOpen, sqlite, rows,
                   recent, compacting, appended, active, hostVars>>

\* The router and the policy, in the goroutine of whoever called them.
ObserveVoiceTurn ==
    /\ process # "exited" /\ Observe
    /\ UNCHANGED <<policyVars, memoryVars, turnVars, hostVars>>

RouteAgentTurn ==
    /\ process # "exited" /\ Route
    /\ UNCHANGED <<routerVars, memoryVars, turnVars, hostVars>>

TimePasses ==
    /\ feature = "agents" /\ Tick
    /\ UNCHANGED <<routerVars, memoryVars, turnVars, hostVars>>

-----------------------------------------------------------------------------
\* A request to the admin API, or from the device to its mode endpoint.
Request ==
    /\ process \in {"serving", "closing"} /\ admins < MaxAdmin[feature]
    /\ admins' = admins + 1 /\ UNCHANGED <<feature, process, starts, turnVars, toolVars,
                                                deviceVars>>

PutProviderProfile ==
    /\ Request /\ feature = "profiles"
    /\ \E p \in Profiles : SetDeviceProfile(p)
    /\ UNCHANGED <<policyVars, memoryVars>>

DeleteProviderProfile ==
    /\ Request /\ feature = "profiles" /\ ClearDeviceProfile
    /\ UNCHANGED <<policyVars, memoryVars>>

PutAgentMode ==
    /\ Request /\ feature = "agents"
    /\ \E m \in Offered : SetDeviceMode(m) \/ SelectDeviceMode(m)
    /\ UNCHANGED <<routerVars, clock, seen, cooldowns, route, passed, results, memoryVars>>

DeleteAgentMode ==
    /\ Request /\ feature = "agents" /\ ClearDeviceMode
    /\ UNCHANGED <<routerVars, clock, seen, cooldowns, route, passed, results, memoryVars>>

GetAgentRuntimeStatus ==
    /\ process \in {"serving", "closing"} /\ feature = "agents"
    /\ \E d \in Bridges : ReadPolicyStatus(d)
    /\ UNCHANGED <<routerVars, memoryVars, turnVars, hostVars>>

WriteMemoryByAdmin ==
    /\ Request /\ feature = "memory"
    /\ \/ \E i \in RowIds : AdminPut(i) \/ AdminDelete(i)
       \/ CompactReads
    /\ UNCHANGED <<routerVars, policyVars>>

CompactGoesOn ==
    /\ process # "exited" /\ CompactWrites
    /\ UNCHANGED <<routerVars, policyVars, turnVars, hostVars>>

-----------------------------------------------------------------------------
\* Run: a signal or the failure of a server.  CloseAll closes the sessions; the
\* servers are shut down, which waits for admin requests up to a time-out and for
\* no connection; then the memory is closed and the process ends, whatever the pumps
\* are doing.
CloseAll ==
    /\ process = "serving" /\ feature = "memory" /\ process' = "closing" /\ CloseTurns
    /\ UNCHANGED <<routerVars, policyVars, memoryVars, feature, starts, admins, toolVars,
                   deviceVars>>

CloseResources ==
    /\ process = "closing" /\ process' = "closed" /\ CloseMemory
    /\ UNCHANGED <<routerVars, policyVars, turnVars, feature, starts, admins, toolVars,
                   deviceVars>>

\* The end of the process, in its course or by a crash at any point.
Exit ==
    /\ process # "exited" /\ feature = "memory" /\ process' = "exited" /\ Vanish
    /\ UNCHANGED <<routerVars, policyVars, feature, starts, admins, toolVars, deviceVars>>

\* New: overrides, streaks, windows and cooldowns start afresh, and so do the recent
\* turns unless they are in the database.
Start ==
    /\ process = "exited" /\ starts < MaxStarts /\ feature # "device"
    /\ starts' = starts + 1 /\ memoryOpen' = TRUE
    /\ IF feature = "tools"
       THEN process' = "starting" /\ stage' = "off" /\ held' = {} /\ called' = NoCall
       ELSE process' = "serving" /\ UNCHANGED <<stage, held, called>>
    /\ manual' = None /\ auto' = None /\ streak' = NoStreak /\ counted' = <<>>
    /\ obs' = [t \in Turns |-> Idle]
    /\ override' = NoMode /\ seen' = [d \in Bridges |-> {}]
    /\ cooldowns' = [d \in Bridges |-> NoCooldown]
    /\ passed' = [d \in Bridges |-> {}] /\ results' = [d \in Bridges |-> <<>>]
    /\ recent' = (IF sqlite THEN recent ELSE <<>>)
    /\ appended' = (IF sqlite THEN appended ELSE <<>>)
    /\ UNCHANGED <<clock, route, sqlite, rows, writer, compacting,
                   written, turnVars, feature, admins, conf, sent, deviceVars>>

\* New; when it fails the process exits.
Boot ==
    /\ process = "starting" /\ feature = "tools" /\ StartUp
    /\ process' = CASE stage' = "serving"   -> "serving"
                    [] stage' \in Failures  -> "exited"
                    [] OTHER                -> "starting"
    /\ UNCHANGED <<routerVars, policyVars, memoryVars, turnVars, feature, starts, admins,
                   deviceVars>>

BootDevice ==
    /\ process = "starting" /\ feature = "device"
    /\ \/ LoadSection /\ process' = "serving"
       \/ ~ValidSection(section) /\ process' = "exited" /\ UNCHANGED deviceVars
    /\ UNCHANGED <<routerVars, policyVars, memoryVars, turnVars, feature, starts, admins,
                   toolVars>>

\* The device's answers to tools/list, and the goroutines of cues and scenes.
DeviceGoesOn ==
    /\ process = "serving" /\ feature = "device"
    /\ \/ Discover \/ SendDisplayScene
       \/ \E t \in Turns, trigger \in Triggers : PlayOn(<<t, trigger>>, LastTurn(t))
    /\ UNCHANGED <<routerVars, policyVars, memoryVars, turnVars,
                   feature, process, starts, admins, toolVars>>

Reader == \/ ListenStart \/ Abort \/ Disconnect
          \/ \E t \in Turns : RecordCut(t) \/ ResolveProviders(t) \/ ListenStartFails(t)

Pump(t) == \/ Hear(t) \/ CommandMode(t) \/ CommandProfile(t) \/ AskBridge(t)
           \/ BridgeReturns(t) \/ CallTool(t) \/ UseDevice(t) \/ FirstAudioIsLate(t)
           \/ PumpFails(t) \/ PumpStops(t)
           \/ FinishReply(t) \/ ClearRuntime(t) \/ WriteMemories(t)
           \/ RecordConversationTurn(t) \/ RecordTurnComplete(t)

AdminAPI == \/ PutProviderProfile \/ DeleteProviderProfile \/ PutAgentMode
            \/ DeleteAgentMode \/ GetAgentRuntimeStatus \/ WriteMemoryByAdmin
            \/ CompactGoesOn

Process == Boot \/ BootDevice \/ CloseAll \/ CloseResources \/ Exit \/ Start

Next == \/ Reader \/ AdminAPI \/ Process
        \/ DeviceGoesOn \/ ObserveVoiceTurn \/ RouteAgentTurn \/ TimePasses
        \/ \E t \in Turns : Pump(t)

Spec == Init /\ [][Next]_vars

-----------------------------------------------------------------------------
TypeOK ==
    /\ RouterTypeOK /\ PolicyTypeOK /\ MemoryTypeOK
    /\ active \in Turns \cup {0}
    /\ process \in {"starting", "serving", "closing", "closed", "exited"}
    /\ \A t \in Turns :
         /\ turn[t].step \in {"none", "resolve", "listening", "route", "bridge", "reply",
                              "spoken", "remember", "over", "gone"}
         /\ turn[t].by \in {"nobody", "reader", "pump"}
         /\ turn[t].profile \in Profiles \cup {None}

\* The pump of turn t records it after its reply.
Completes(t) == turn[t].step = "remember" /\ turn'[t].step = "over"

\* A turn whose reply was spoken to its end leaves all the facts it told behind,
\* although its context goes on being that of a turn: nothing cancels the context once
\* the runtime is cleared but the end of its session, and no listen/start or abort
\* that comes between the last word and the last write does.
FactsAreKept ==
    [][\A t \in Turns :
         /\ Completes(t) /\ turn[t].heard = "text" /\ sqlite /\ memoryOpen
         /\ turn[t].cleared = "live"
         => written[t] = Facts]_vars

\* A conversation turn is recorded once, and only when its reply was spoken to the
\* end, and then always unless the memory is closed: not a command, not a turn that
\* was cut off or failed before, across barge-ins, shutdowns and restarts that keep
\* the database; and the table does not grow beyond its limit for it.
ConversationIsRecorded ==
    [][\A t \in Turns :
         LET times(h) == Cardinality({i \in DOMAIN h : h[i] = t}) IN
         /\ times(appended') > times(appended) =>
               times(appended') = 1 /\ turn[t].heard = "text" /\ turn[t].cleared # "no"
         /\ Completes(t) /\ turn[t].heard = "text" =>
               (times(appended) = 1 /\ FewRecents) \/ ~memoryOpen]_vars

-----------------------------------------------------------------------------
(* The inductive strengthening used by the proofs.                          *)

TurnTypes ==
    /\ active \in Turns \cup {0}
    /\ turn \in [Turns ->
          [step : {"none", "resolve", "listening", "route", "bridge", "reply", "spoken",
                   "remember", "over", "gone"},
           live : BOOLEAN, owes : BOOLEAN, by : {"nobody", "reader", "pump"},
           profile : Profiles \cup {None}, audio : {"good", "yellow"},
           heard : {"nothing", "text", "command"}, cleared : {"no", "live", "dead"}]]

\* What can become of the process with each of the features.
ProcessIsStaged ==
    /\ feature \in Features
    /\ process \in CASE feature \in {"profiles", "agents"} -> {"serving"}
                      [] feature = "memory" -> {"serving", "closing", "closed", "exited"}
                      [] OTHER              -> {"starting", "serving", "exited"}
    /\ process \in {"starting", "exited"} => Running = {}
    /\ ~memoryOpen => sqlite \/ process = "exited"
    /\ feature = "device" /\ process = "serving" => SectionIsLoaded
    /\ feature # "device" \/ process # "serving" =>
         /\ play = [p \in Players |-> NoPlay] /\ screens = <<>> /\ last = NoCommand

\* The tools that are called are those of a configuration that was accepted.
ToolsAreStaged ==
    feature = "tools" /\ process = "serving" => stage = "serving" /\ Valid(conf)

\* A turn is observed once: when its completion is recorded.
ObservedOnce ==
    \A t \in Turns : turn[t].by = "nobody" \/ feature # "profiles" => obs[t] = Idle

\* The writes of a turn come after its reply; until its session ends it stays live.
WritesAreLast ==
    \A t \in Turns :
        LET r == turn[t] IN
        /\ r.step \in {"none", "resolve", "listening", "route", "bridge", "reply", "spoken"} =>
             /\ writer[t] = NothingToWrite /\ written[t] = {} /\ TimesOf(appended, t) = {}
             /\ r.cleared = "no"
        /\ r.step = "remember" =>
             /\ r.cleared # "no" /\ active # t
             /\ r.cleared = "live" => r.live
             /\ r.heard # "text" => writer[t].row = "none"
             /\ r.heard = "text" /\ sqlite /\ memoryOpen /\ r.cleared = "live" =>
                  written[t] = CASE writer[t].facts = <<>>        -> Facts
                                 [] writer[t].facts = <<"likes">> -> {"name"}
                                 [] OTHER                         -> {}
             /\ writer[t].row = "none" => TimesOf(appended, t) = {}
             /\ writer[t].row \in {"inserted", "kept"} => \E i \in DOMAIN appended :
                  TimesOf(appended, t) = {i}
             /\ writer[t].row = "lost" => ~memoryOpen
             /\ writer[t].row = "kept" /\ memoryOpen => FewRecents

IInv ==
    /\ TurnTypes /\ ProcessIsStaged
    /\ RouterTypeOK /\ StreakIsRun /\ ObservedOnce
    /\ PolicyTypes /\ SeenIsPassed /\ RateIsKept /\ ErrorsAreResults
    /\ MemoryTypes /\ RecentsAreLast /\ WritesAreLast
    /\ ToolsAreStaged /\ StagesAreChecked /\ AcceptedStarts /\ SentIsConfigured
    /\ DeviceTypes /\ PlaysAreValid /\ OffersAreAllowed /\ FairCallsGoOn
    /\ CatalogIsTrue
=============================================================================
