# StackChan gateway: a TLA+ model of its voice sessions

The repository is a Go gateway (`server/`) between StackChan robots, which speak
the xiaozhi WebSocket protocol, and cloud ASR, LLM and TTS services. A robot
connects, says hello, and then takes turns: it listens, the gateway recognises
and answers, the robot speaks. Everything that is hard in the program comes from
one fact: the device may abort or start over at any moment, while goroutines of
the turn it interrupts are still talking to three services and to the device.
The code answers with *generations*: every turn has a number, and work that
carries an old number is to be dropped. Around the turns there is what the
process shares between them: provider profiles and their automatic fallback,
agent modes and bridges, a memory, service tools, and what the robot shows.

`PROJECT.json` has the same content in tabular form: components, runs, the lines
each definition stands for, hazards, findings and theorems.

## 1. Inventory

Paths are relative to `server/internal`.

| component | state | operations | who calls it | hard part |
|---|---|---|---|---|
| Session (`session/session.go` 2674-2895) | state, generation, first generation, generation used | hello, listen start/stop, begin/complete speaking, no speech, abort, reset, close | read loop, ASR pumps, tail timer, manager | order of calls; old generations |
| Voice loop (`session/session.go`, `turn.go`) | active turn, ASR stream, listen generation, sessions-active mark; per turn: context, claimed, TTS started / stopped, recorded | hello, listen start/stop, abort, ASR result, reply, TTS, close | read loop, a goroutine per listen/stop, a pump and a timer per turn, closeBinding | every interleaving of those; a failing link; cancellation |
| Manager and registry (`session/manager.go`, `app/app.go` 241-480, `protocol/xiaozhi/websocket.go`) | sessions by id, active session per device; bindings by transport, transport per device, closed flag | create, close; store, load, delete, delete all | a goroutine per connection, shutdown | two registries with two mutexes; reconnects that cross; shutdown |
| MCP broker (`mcp/broker.go`) | next id, pending requests, tools | initialize, call, device answer, timeout | read loop, tool calls, LED dispatcher | late, repeated and lost answers; pages |
| Body scheduler, LED dispatcher (`stackchan/body_scheduler.go`, `session.go` 880-1170) | current generation, last command, commands this turn; a queue | set generation, schedule, dispatch | turn goroutines, dispatcher, close | check and use of the generation; a queue that drops |
| Expressions, scenes, catalogs (`stackchan/`, conversions of `app/app.go` 545-800) | the section of the configuration; a queue of scenes | play a cue, a sequence, a card; show a scene; list | pump, cue goroutines, admin API | three conversions of one configuration; plans of which a command fails |
| Tool orchestrator (`session/tool_orchestrator.go`, `session.go` 1458-2020) | calls of a turn: pending, batches, outcomes | execute, execute synchronously, follow-up, recovery and final rounds | pump | batches beside the pump; limits over rounds |
| Provider router (`providerrouter/`) | overrides per device, counts of yellow and failed turns | resolve, set, clear, observe a turn | listen start, admin API, voice command, turn record | an observation takes the mutex three times |
| Agent modes and runtime policy (`agents/`, `app/app.go` 1157-1533) | mode per device; request windows, error counts, cooldowns | set, clear; allow, record failure, record success, report | pump, admin API, device | late results, boundary instants |
| Memory (`agent/`) | two tables in SQLite, or recent turns in memory | write, record, prune, read, compact, delete, close | pump after its turn, admin API, shutdown | writes after the turn; statements that interleave; restart |
| Provider streams (`providers/`) | a stream per turn: connection, decoder, channel | open, audio, finish, events, close | voice loop | reader, watcher and caller around one connection |
| Service tools, configuration (`homeassistant/`, `feishu/`, `search/`, `reminder/`, `camera/`, `tools/`, `config/`) | the configuration, a registry | validate, build, register, execute | start-up, orchestrator | two sets of checks that must agree; the model's arguments |
| Protocol codecs, prompt texts, observability, probes, simulator, firmware, deployment | none that outlives a call, or read-only | | | |

What makes the parts correct:

* Session: a generation belongs to one turn; a retired one is never accepted again.
* Voice loop: one live turn; every `tts start` is answered by one `tts stop`; no
  audio of an old turn; every turn is recorded once and truthfully; no goroutine
  outlives its turn.
* Registry: one open session and one binding per device; whatever is opened is
  closed; a reconnect is served; nothing survives a shutdown.
* Broker: an answer reaches the request it answers, and no entry stays behind.
* Body: no command of an old turn, none beyond the limit, and when all is quiet
  the LED says so.
* Device tools: what is offered can be run, a list is looked up before it is
  played, the catalogs tell the truth.
* Orchestrator: every call is run once at most and traced once; rounds are bounded;
  a turn does not end silently without having been asked again.
* Router and policy: a fallback or a rest is earned by what was counted, no more
  calls pass than the limit.
* Memory: what a finished turn said stays, once; what a prompt sees is the end of
  the conversation.
* Streams: the receiver gets what the service said, in order and without gaps.
* Service tools: what validation accepts starts; what leaves the process is what
  the operator configured.

## 2. Plan

Done: `SessionCore`, `Session`, `VoiceLoop`, `Bindings`, `ToolCalls`, `McpBroker`;
`BodyScheduler`; `OrderedStream` and `ProviderStreams`; `TurnTools`;
`ProviderRouter`, `AgentPolicy`, `MemoryStore`, `ServiceTools`, `DeviceTools` and
their composition `Gateway`. Every module with state has its inductive invariant,
proved; every safety property, action property and refinement that a passing run
checks is a theorem.

Left: what section 6 lists, and the three things that stay with TLC (section 5).

## 3. Modules

| module | models | how |
|---|---|---|
| `SessionCore` | the value of a `session.Session` and its methods | constant-level operators. `Can...` is the condition of a method not returning a `TransitionError`, its partner the session it leaves. `VoiceLoop`, `Bindings` and `BodyScheduler` use these operators, so a change of the session is made in one place |
| `Session` | one session under arbitrary callers | one action per method; a caller names any generation that a `Turn` has handed out. `listened` and `spoken` are history |
| `SessionProofs` | | the theorems about `Session` |
| `VoiceLoop` | one voice loop on one binding | the read loop, `listen/stop` goroutines, a pump and a timer per turn, the closer, the link. A step is what a goroutine does between two points where another can get in: a critical section, a write to the device, an answer of a provider |
| `Bindings` | the connections of one device | a goroutine per connection, `closeBinding` jobs, the manager's and the registry's critical sections, writers that hold a transport's mutex, shutdown |
| `ToolCalls` | what the broker promises the callers of `CallTool` | abstract: a call is open, answered or failed; it is answered only if the device has answered that call |
| `McpBroker` | the `mcp.Broker` of a voice loop | a goroutine per caller, the read loop, the device; shown to implement `ToolCalls` |
| `McpBrokerProofs` | | the theorems about `McpBroker` |
| `BodyScheduler` | motions and LEDs of the turns | the scheduler's critical sections, goroutines that play a motion, the LED queue and its dispatcher, the timer of the idle LED, the close; the loop is reduced to what asks for body commands |
| `OrderedStream` | what `providers/contracts.go` promises of a stream | abstract: the items taken are a prefix of what the service meant, without a gap until the stream is given up |
| `ProviderStreams` | one stream of one provider client | handshake, reader, watcher, caller and, for a recognition, audio, finish and close under its mutex; a decoder per wire format; shown to implement `OrderedStream` |
| `TurnTools` | the reply of a turn with its tool calls | the pump through up to three requests, chunk by chunk, and the batches beside it |
| `ProviderRouter` | overrides, counts and fallback | an observation is three critical sections |
| `AgentPolicy` | mode, rate limiter, cooldown, route | clock in ticks; the call of a bridge lies between check and record |
| `MemoryStore` | memories and recent turns | a SQL statement is a step |
| `ServiceTools` | start-up and service tools | a configuration is drawn, validated, built part by part; then tools are called |
| `DeviceTools` | what the robot is offered, sent and said to be shown | a section is drawn, validated, converted; calls and cues send one command per step |
| `Gateway` | the turns of a device against the five modules before | the reader opens and cuts turns, a pump per turn reads and writes the shared state in the code's order, the admin API and the process are actors |
| `BindingsProofs`, `VoiceLoopProofs`, `BodySchedulerProofs`, `TurnToolsProofs`, `ProviderStreamsProofs` | | the theorems about these modules |
| `GatewayProofs` | | the theorems about `Gateway` and the five modules it composes |
| `MC...` | | constants for TLC |

Operators whose comment starts with *Mutant* are variants of the operator below
them as a plausible bug would leave it. They are used by no specification; each
shows that a property is able to fail. The type invariants (`TypeOK`,
`RouterTypeOK`, `PolicyTypeOK`, `MemoryTypeOK`) document the variables and are
what proofs start from; the runs of this directory spend their time on the
properties below.

### Correspondence

`VoiceLoop`'s variables carry the names of the fields where there is one
(`active`, `asr`, `listenGen`; per turn `ttsStarted`, `claimed` for
`ASRFinalHandled`, `outcome` for `CompletionRecorded` with what was recorded:
`completed`, `ended` for a record that is not an error, `failed` for one that
is). `Done(t)` is the turn's context: its own cancel or the binding's. `pump[t]`
is the program counter of `runASRResultPump`, from `consumeASREvents` through
`ensureProcessingForASRFinal` (three critical sections, so three steps),
`beginTTS` (send, then mark), `streamTTSSegment` (check, pace, check, begin
speaking, check, write) to `flushRemainingTTS`, whose end is six steps: the stop is
marked (`MarkTTSStop`) and written (`SendTTSStop`), the session completes
(`CompleteSpeaking`), the loop notes it (`MarkSpeakingCompleted`) and lets the turn go
(`Release`, `clearRuntime`), and the pump goes on under a context that nobody cancels
any more until it records the turn (`RecordCompletion`; the memories it writes in
between are in `Gateway`). The read loop's handlers are split the same way
(`reader.pc`): `sendTTSStopOnce` marks the previous turn's stop under `mu`
(`MarkPreviousStop`) and writes it after that (`SendPreviousStop`), and only then is
the turn recorded (`RecordPrevious`); a pump may come in between. `closer` is
`closeBinding` with the turn that `Close` has cancelled and not yet recorded. What
may happen in a run is a *setup*: which failures, how many aborts and listen/stops.

`Bindings` splits `Manager.CreateSession` in two because it locks the previous
session twice (`CurrentGeneration`, then `Close`) while other goroutines may use
it; `lock` is the manager's mutex in between. All other critical sections are
one step.

`McpBroker` follows a request by its *work*: a caller's n-th call or the broker's
page n of `tools/list`, page 0 being `initialize`. A caller goes through
`CallTool` (`toolAvailable`, then `Track`: the counter and the table), the write
of `sendTracked`, the `select` of `roundTrip` and its deferred `removePending`.
`track` and `send` of the read loop are `sendTracked` for the broker's own
requests, which have no channel. `HandleDevicePayload` takes the entry out of the
table; the answer then goes into the buffered channel of the call (`deliver`) or
to `handleAsyncResponse` (`append`, or the next `track`). The device answers any
request it has received, as often as it likes. The only place where an answer
could meet the wrong call is the table, and the ids are what keeps it from that:
`FreshID` against its mutant `IDFromTable`.

`BodyScheduler` knows a turn by its generation. A goroutine's motion is four
steps: `IsGenerationCurrent`, the critical section of `ScheduleMotion`, the
second check of `DispatchMotion`, the command. The LED dispatcher takes a request,
compares it with the active turn, sets the scheduler's generation and sends, each
a step; `lit` is the LED the device shows.

`ProviderStreams` replaces a text or a frame by the place at which its message was
read. `Decode` is the step-by-step decoding with what is kept between messages
(tool-call fragments, the event type of a server-sent event, half a PCM sample);
`Meaning` says of the whole history what it means, and `meant` records it. The
clients differ by `ClientOf`: handshake, watcher, codec, decoder.

`TurnTools` numbers the calls a model makes, in their order, so that a list of calls
is the set of its numbers and its next call the least. `ran` and `records` count
what the orchestrator and the trace saw of each. `policy` is `ToolResultFollowUpPolicy`
with its defaults applied, or no orchestrator.

`Gateway` gives every turn a `step` of its pump: `listening`, `route` (commands
and bridges), `reply`, `spoken`, `remember`, `over`. `live` is its context. Its
reader's `ListenStart` is `StartListening` with `replaceActiveTurn`; the record of
the turn it cut and the resolution of providers are steps of their own, since the
router may change in between. `process` goes from `starting` over `serving` to
`closing`, `closed` and `exited`; a new start keeps the database.

In `DeviceTools` a key of a map is its id and how it is written (`form`: plain or in
capitals), which is what the three conversions tell apart. `play` holds, per turn,
the call under way and the goroutines of its cues; a cue is a motion, an LED and a
scene in this order, and `last` is the command that the last step sent.

## 4. Runs

| run | instance | shows |
|---|---|---|
| `session` | first generations 1 and 3, up to generation 6 | `TurnOwnsGeneration`, `TurnsHaveFreshGenerations`, `SpeaksOncePerGeneration`, `RetiredGenerationsStayRetired` |
| `loop` | 2 turns; either 1 abort with a link, providers and a tail timer that may fail or fire, or 1 listen/stop | frames only while speaking, an expired turn is silent, one `tts stop` at most and a completed turn has closed what it opened or has its stop on the way, a cancelled turn is recorded whatever fails, one live turn whose stream takes the audio |
| `loop_close` | 1 turn, 1 listen/stop; close, replacement, link failure; fairness | pumps end, listen/stop goroutines return |
| `bindings` | 3 connections, generations up to 2, no writers, symmetry | one open session and one binding, open implies owned |
| `bindings_live` | 2 connections, one with writers; fairness | shutdown closes all sessions, connects are served and lost links forgotten |
| `broker` | 2 callers with 2 calls and 1 call, 2 pages; the device may repeat, delay or omit answers; fairness for discovery | the broker implements `ToolCalls`, no entry of a call that is over, one chain of discovery, which completes while link and device are well |
| `body` | 2 turns; 2 motion goroutines, a gap of 1 tick, 1 motion per turn, a clock of 2; or LEDs with a queue of 2 | no motion of an old turn, motions are counted and keep the limit, the idle LED is shown at rest |
| `streams` | 10 clients, one per wire format and kind; 4 messages after the handshake; a channel of 1 | the stream implements `OrderedStream`, nothing is dropped, codecs are alive when used, streams that are given up end |
| `turn` | 3 calls of 3 kinds, 4 chunks, 2 calls per batch, 4 policies | calls are accounted for, silent turns were asked twice, follow-ups are bounded, cancelled turns end |
| `gateway` | one feature at a time: profiles (3 turns, limits 2), agents (3 turns, limit 2 of a window of 2 ticks, cooldown after 2 errors), memory (2 turns, 1 row kept), tools (1 turn, every kind of configuration), device (1 turn, 14 sections, 2 pages); 1 admin request, 2 starts | fallbacks and cooldowns are earned, rates kept, facts and conversations kept, configurations start, what is sent is configured, offered tools can be run, lists are checked first, catalogs are true |

The bounds are enough for what the properties distinguish. Two turns are needed
for one to replace another, and a third would meet the second as the second meets
the first, since the loop remembers only the active one. A hazard of the loop
involves one disturbance (abort, stop, close) or one failure between two steps of
a turn, and these may happen anywhere; separate setups keep them apart because
together they multiply. Three connections are needed for a binding that is being
replaced while its own replacement of another is under way. For the broker a
second call of the same caller meets the late answer to its first, the other
caller's call meets both in the table, and two pages have a first, a next and a
last. Four messages are enough for text, two fragments of a call and a finish
reason, or a sample cut in two with its end. The router and the limiter need one
turn more than their limit of two to go over it; the prune of recent turns needs
two writers. The features of `Gateway` share no state but the turns, so they are
switched on one at a time.

`CHECK_DEADLOCK FALSE` is set where the system may stop: `Bindings`, when all
connections of the instance are gone; `McpBroker`, whose callers make `MaxCalls`
calls; `BodyScheduler`, `ProviderStreams`, `TurnTools` and `Gateway`, which end
with their last turn, stream or process. `VoiceLoop` states explicitly when it may
rest (`Idle`), so there a deadlock would be reported.

### Fairness

`VoiceLoop`: a goroutine that can go on does (weak fairness per goroutine: Go
schedules all of them). Messages of the device, failures and the end of the
binding are not fair. A reply has finitely many chunks, segments and frames
(`LastChunk`, `LastSegment`: providers stop at a token limit and at the end of the
text). The ASR answers once its stream has been finished: the gateway itself does
not bound that, so `GoroutinesEnd` is claimed for a recognition service that
answers or a connection that ends. `Bindings`: weak fairness per connection's
goroutine; strong fairness for `closeBinding`, which waits for a write mutex
that senders keep asking for, because Go's mutexes hand over to a starving
waiter; a blocked write ends, because the kernel gives a dead link up. The code
sets no write deadline, so the last one may take many minutes. `McpBroker`: the
read loop goes on, and a device that is well answers each request of the
discovery. `DiscoveryCompletes` is claimed only while it is well: the broker
neither repeats a request of the discovery nor gives one up. `ProviderStreams`:
the client's own steps are taken; the service may be silent for ever and the
receiver may stop; Close gets the mutex in the end (strong fairness, as above).
`TurnTools`: the pump and the tools go on, since every tool call has a time-out;
the LLM may be silent. `BodyScheduler` and `Gateway` are checked for safety only.

### Disagreements between documents and code

Each of these two is a run that TLC ends with a counterexample; details are under
`findings`.

| run | what happens |
|---|---|
| `tts_start_is_stopped` | a turn aborted in front of its `tts start` leaves the device started and never stopped |
| `valid_slots_are_sent` | a Home Assistant action with slots and without static data panics on the first valid slot, and the process ends |

Others are visible in the models and have no run of their own:

* A hello answered while the loop closes is counted for good (`session.go:524`
  against `docs/provider-matrix.md:26`).
* The device's listen/stop between two locks of `ensureProcessingForASRFinal` makes
  a recognised text a failed turn (`session.go:826`).
* The goroutine of a listen/stop that runs late stops a later turn (`app.go:1912`).
* Crossing connects leave the device bound to a closed session (`app.go:277`
  against `docs/provider-matrix.md:25`).
* `streamTTSSegment` checks the generation and then writes, so a frame may leave
  just after an abort made it old; a second listen/start while listening keeps the
  generation, so the replaced turn still passes generation checks and only its
  cancelled context stops it.
* A turn whose provider call ends because the user cancelled it is recorded as an
  error of the provider (`session.go:1484`, `1603`, `1711`); two of them switch the
  profile.
* Calls that a follow-up answer makes before its text are neither run nor traced,
  against `docs/control/VERIFICATION_GATES.md:71`. `max_calls_per_turn` counts per
  batch and not per turn (`tool_orchestrator.go:231`). When a chunk and the end of the
  context are ready at once, pending calls of an aborted turn may still run.
* A service tool with the name of a device tool is offered beside it under an alias,
  and only one of them can be reached.
* A fallback that an observation has chosen is installed although the user has set or
  cleared the profile meanwhile (`router.go:199`); only the first candidate is tried
  (`router.go:325`), so two profiles may alternate.
* Compaction summarises a fact that is deleted meanwhile; one without a device writes
  a summary that every device sees.
* `anthropic` and the PCM flush of `dashscope` drop an item when the context is done
  and read on; errors of reading and decoding are discarded, so an answer that is
  cut looks complete (`deepseek/llm.go:142`); calls that are pending at the end
  without a finish reason are lost; handshake waits have no deadline
  (`dashscope/tts.go:393`, `asr.go:321`).
* Keys of `event_scenes` in capitals are accepted (`validate.go:580`) and listed by
  the catalog but converted as they are written (`app.go:605`) and looked up in lower
  case, so they are never shown. Cards whose keys agree after normalisation are not
  rejected: the order of a map decides, and the catalog may list another than the
  session shows. A range of 0 to 0 is accepted and replaced by the default range
  (`motion.go:58`).
* Scenes, from tools and from the queue, are not checked for a turn that is over
  (`tool_orchestrator.go:502`). A sequence whose motion is refused by the limit is
  reported as played. A coalesced motion is kept and never sent.
* The late "listening" LED of a listen/start may follow the LEDs of its own turn's
  pump, and the direct idle LED of a close may come before a LED that the dispatcher
  is about to send (`docs/control/TASK_BOARD.md:152` describes such a stale LED).
* `New` does not close the trace recorder when a later part fails. Names of
  environment variables are trimmed by validation and not by all of their readers; a
  Home Assistant token of white space and a public address without a host pass
  validation and stop the start. Duplicate device ids are accepted.

## 5. Proofs

`SessionProofs` proves, for every set of first generations that are positive and
every bound, what the `session` run shows on an instance. The assumption is
`FirstGenerationsAssumption`, which `Manager.CreateSession` establishes (1, or a
generation plus one).

`TurnOwnsGeneration` is not inductive: a listen/start from `idle` reuses the
current generation unless it is marked as used. `IInv` therefore also says that
the mark tells the truth (`UsedIsListened`), that generations before a hello are
0 and unused (`BeforeHello`), that what was handed out or listened for is not in
the future (`HistoryIsPast`), that after an abort the current generation is fresh
(`InterruptedIsFresh`) and that only turns past listening have spoken
(`SpokenIsPast`). One lemma per method shows `IInv` preserved; the action
properties follow from `IInv` on the left of a step, and
`RetiredGenerationsStayRetired` also from the lemma that generations only grow.

`McpBrokerProofs` proves, for every set of callers, every number of calls and
every number of pages, that the table holds no entry of a call that is over, that
discovery is one chain, and that the broker implements `ToolCalls`. Its
assumption is `McpBrokerAssumption`: the broker is not one of its callers, there
is a page. Neither property is inductive. That an answer reaches its own call
rests on ids: they are all in the counter's past (`IDsArePast`), so a new one is
in no table, at no device and with no caller; hence an id stands for the same work
in the table and at the device (`OneWorkPerID`), also when the request is written
after a pause (`WritesAreTracked`); hence what the read loop hands over is the
answer to the work of the entry (`ReaderIsOnTrack`), and what a channel holds is
the device's answer to the current call (`MessagesAreOwn`). `DiscoveryIsGreeted`
and `RequestsAreCalls` say where pages and requests come from. One lemma per
action shows `IInv` preserved. For the refinement, each step of a caller is
`Begin`, `Fail`, `Succeed`, `Return` or nothing, and a payload is `DeviceAnswers`
or nothing, by cases on the action.

`BindingsProofs` proves, for every set of connections and of ways in which a session
may end, that one session is open at most and that whatever is open has somebody
who will close it. The only assumption is that `None` is no connection
(`NoneAssumption`). The invariant adds to the two properties that the manager's lock
is held from the reading of a previous session to its close, by the connect that
replaces it (`LockIsHeld`); that sessions are created in the order in which the
table names them (`CreatedInOrder`); and that a binding which has lost its entry
waits for a job that closes it (`WaitsForAJob`).

`VoiceLoopProofs` proves five safety properties for every number of turns, aborts
and listen/stops and every setup (`BoundsAssumption`). A pump has thirty places and
the steps of one all change the same few fields, so one lemma (`PumpEffect`) says
what any step of any pump may do to the others; the invariant is then shown for
that. Its core are chains of responsibility: a turn has an owner (`TurnsHaveOwners`),
a pump that nobody has cancelled is the active turn's or has only its record left
(`LiveIsActive`), it speaks only with the claim (`ClaimComesFirst`), a `tts stop` that
is marked has been sent, cannot be, or is being written by one goroutine
(`MarkedIsSent`), only the last steps of a turn follow the stop of its own pump
(`StopIsLast`) and none of them comes without it (`EndIsMarked`), a cancelled turn
without a record has somebody left who will write it (`RecordIsOwed`), and the session
returns to `processing` for no generation that has spoken, nor speaks on for one that
has completed (`SpeakingIsOwned`). Two of the properties are not part of the invariant
but follow from it. `OneTurnIsLive` needs `LiveIsActive`, `EndIsMarked` and
`SpeakingIsOwned`: the last two say that a pump past `clearRuntime` has nothing to say
or to stop. `CompletedIsClosed` needs `MarkedIsSent` beside these: a pump that has
sent no audio skips the stop that the read loop has marked, and may record its
completion before the read loop writes it (`StopIsOnItsWay`).

`BodySchedulerProofs` proves that late bodies are silent, motions counted and the idle
LED comes back, for every number of turns, goroutines, motions and queue places
(`BodyAssumption`). No step is ahead of the session's generation (`NothingIsAhead`), and a
generation is active once (`TurnsAreOwned`); so what is stale stays stale
(`LateIsStopped`). Motions that were counted and not yet sent are part of the count
(`DueIsCounted`) and the count keeps the limit (`TypeOK`), which is why the check under
one mutex and the send after it do not exceed `maxCommandsPerTurn`. The idle LED is due, queued, sent or lit (`IdleComes`) as long
as nothing was dropped or overtaken.

`TurnToolsProofs` proves that calls are accounted for, silent turns asked again and
follow-ups bounded, for every number of chunks and calls and every set of policies
(`ToolsAssumption`). A call is in one list at most (`ListsAreDisjoint`), its place says
how often it was run and traced (`CallsAreCounted`), the round says how many requests
were made (`RequestsAreCounted`), and the calls of later answers are one batch, which is
bounded when it is made (`ExtraIsOneBatch`).

`GatewayProofs` proves the nine safety and action properties of `Gateway`, for every
number of turns, admin requests and starts and every configuration. Each action of
`Gateway` is projected to a step of each component, or to none (`PolicyStep`, `RouterStep`,
`MemoryStep`, `ToolStep`, `DeviceStep`), and each part of the invariant is proved once for
the steps of its component. What carries them: a limiter has seen exactly the calls
that passed within its window, so the window it counts is the one the property
asks about (`SeenIsPassed`); errors that are counted end the history of results
(`ErrorsAreResults`); a streak is the run that ends what was counted (`StreakIsRun`); the
recent turns are the end of the conversation (`RecentsAreLast`); facts and records are
written after the last word and nothing comes between them but a closed memory
(`WritesAreLast`); a part of the process is built after all that it needs has been
checked (`StagesAreChecked`); a play never leaves the list it was looked up in
(`PlaysAreValid`), and a call made as it was offered goes on to a command
(`FairCallsGoOn`). The assumptions are the limits of the configuration, as validation
accepts them: a window of at least one tick (`PolicyAssumption`), fallbacks among the
profiles (`RouterAssumption`), a positive number of recent turns (`MemoryAssumption`), one
configuration at least (`ToolsConfigAssumption`), sections of known shape
(`DeviceAssumption`), finitely many turns (`GatewayAssumption`).

`ProviderStreamsProofs` proves, for every set of the clients of the code
(`ProvidersAssumption`) and every bound, that the codec of a stream is alive when it is
used and that audio and finish never write at the same time. Both rest on who holds
the mutex (`HasLock`), on Close being marked under it before the codec is freed
(`CloseIsMarked`), and on the codec living until then (`CodecLives`). The reader needs the
types of what is read, kept and in hand, so every decoder is shown to keep them
(`DecodeFits`).

It also proves that nothing is dropped and that each client implements
`OrderedStream`. `Meaning` says of a whole history what its messages stand for; a decoder
sees one message at a time. The lemma between them is `DecodeAdds`: if what the decoder
keeps is what the history has left open (`KeptIs`), then the items it makes of one more
message are what that message adds to the meaning, and what it keeps then is what the
longer history has left open. There is one such lemma per wire format:

* transcripts and deltas keep nothing (`TranscriptAdds`, `AudioAdds`);
* server-sent events keep the type of the last event line since a blank and the data
  lines since the last other line (`EventsKept`, `SSEAdds`);
* PCM keeps the halves that no whole frame has used and whether a sentence was
  announced last (`FramesKept`, `PCMAdds`);
* chunks keep the calls whose fragments came since the last finish reason, in the order
  of their first fragments (`CallsKept`, `OpenAIAdds`).

They need that a set put in order, with a greatest element more, is the same sequence
with that element at its end (`GreatestIsLast`): `Meaning` sorts places. `StreamInv` then
says that what was delivered, waits in the channel and is in hand is what the
messages mean, unless the stream was given up; after that items may be missing, so
`OrderInv` says only that those there are stand in the order of the messages. It needs
that no item is there twice (`MeaningIsDistinct`), which for the items of a mock is
`MockItemsAssumption`: an item stands for its place. `StepIsPromised` maps each step: `Read`
is `Say`, `Send` and `Receive` are `Take`, a cancelled context and the Close of a recognition
are `GiveUp`, `Leave` is `End`, everything else changes nothing of the promised stream.

All inductive invariants were checked with TLC on the instances of section 4 before
they were proved, but for the conjuncts that give types.

Model-checked only:

* liveness, since the prover does neither fairness nor ENABLED: `GoroutinesEnd`,
  `ShutdownClosesSessions`, `ConnectionsAreServed`, `DiscoveryCompletes`,
  `GivenUpEnds`, `CancelEnds`;
* the two runs with a counterexample.

## 6. What is not modelled

* In `VoiceLoop`: texts, audio data, latencies and the rows of the trace. The tool
  rounds are in `TurnTools`, LEDs in `BodyScheduler`, scenes and cues in
  `DeviceTools`, memory and records in `Gateway`. Hello's two session calls are one
  step: whatever comes between them leaves the same states. Text segmentation is
  left out altogether.
* In `Bindings`: what turns do beyond advancing generations (that is `VoiceLoop`);
  a connect whose voice loop cannot be built, which is a configuration error;
  authentication, which comes before and has no state.
* In `McpBroker`: `ListTools`, which the gateway never calls; the arguments and
  results of tools. The allowlist and which tools the pages bring are in
  `DeviceTools`.
* In `BodyScheduler`: that the LED tool may be missing; a second listen/start while
  listening; the two comparisons of `DispatchLED` are one step; a close with motions
  under way; an abort whose `tts stop` cannot be written, which then asks for no idle
  LED either (`session.go:872`): that link could not carry the LED.
* In `ProviderStreams`: requests, headers, error texts, configuration and health
  checks of the clients; events that come before the start of a recognition is
  confirmed; a message completes at most one PCM frame.
* In `TurnTools`: what is said, and times; the calls themselves are `ServiceTools`
  and `DeviceTools`.
* In `Gateway`: several features of the configuration at once, and several devices,
  which share only mutexes; `StartListening` with `replaceActiveTurn` is one step,
  as are a reading of the clock and the lock after it, and, without a memory, the
  end of a reply; a `tts stop` that fails on barge-in (that is `VoiceLoop`); a
  database that fails while it is open.
* In `ServiceTools`: lengths and formats of texts, what the services answer; the
  secrets of a part are one value; a call of a tool is one step.
* In `DeviceTools`: captions, emotions, accents and speeds; a colour is one level;
  one call of a device tool per turn; of the lifecycles only "thinking" shows its
  scene and cue; when the scheduler holds a motion back is nondeterministic
  (`BodyScheduler` has it); which devices a catalog lists. The queue is 2 long and
  not 16.
* Configuration: ports, devices, audio and observability values, which are compared
  with constants.
* Not at all: protocol codecs, metrics, authentication of the HTTP API, simulator,
  probe and acceptance commands, firmware, deployment, documents: they are stateless
  or sequential input and output, or not part of the gateway.
