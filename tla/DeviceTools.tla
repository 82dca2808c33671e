---------------------------- MODULE DeviceTools ----------------------------
(***************************************************************************)
(* What the gateway shows on a StackChan: the stackchan section of the      *)
(* configuration, its validation, what it is converted to for a session and *)
(* for the catalogs of the admin API; the device tools that are offered to  *)
(* the model and their calls, which send head, LED and screen commands one  *)
(* by one; the scenes and cues of lifecycles and events                     *)
(* (config/validate.go, app/app.go, stackchan/, session/tool_orchestrator.go*)
(* and the display parts of session/session.go).  BodyScheduler has the     *)
(* limits on motions, McpBroker the calls themselves.                       *)
(*                                                                          *)
(* A key of a map is its id and how it is written, plain or in capitals; an *)
(* entry with capitals is another key, with the same id.                    *)
(***************************************************************************)
EXTENDS Integers, Sequences, FiniteSets

CONSTANTS
    Sections,       \* stackchan sections an operator may write, and a device's tools
    Speakers,       \* turns
    AskedCues,      \* lists of cues that the model asks for, known ones or not
    AskedIds,       \* sequences and cards that it asks for
    Pages,          \* pages of tools/list that the device may answer with
    QueueSize       \* displaySceneQueueSize

Commands == {"head", "led", "scene"}
Scenes == {"idle", "listening", "thinking", "speaking", "tool", "error", "sleep"}
Lifecycles == {"listening", "thinking", "speaking", "idle"}
Events == {"tool.running", "tool.succeeded", "tool.failed"}
MaxCues == 3

\* defaultExpressionForCue: yaw and pitch, a colour, a scene.
DefaultPlan ==
    [attentive |-> [motion |-> <<0, 12>>, led |-> 96, scene |-> "listening"],
     nod       |-> [motion |-> <<0, 16>>, led |-> 168, scene |-> "speaking"],
     celebrate |-> [motion |-> <<8, 10>>, led |-> 48, scene |-> "speaking"],
     thinking  |-> [motion |-> <<0, 8>>, led |-> 112, scene |-> "thinking"],
     settle    |-> [motion |-> <<0, 0>>, led |-> 24, scene |-> "idle"]]

Cues == DOMAIN DefaultPlan
Levels == 0 .. 168

ASSUME DeviceAssumption ==
    /\ QueueSize \in Nat /\ AskedCues \subseteq Seq(STRING)
    /\ \A s \in Sections :
         /\ s.yaw \in Int \X Int /\ s.pitch \in Int \X Int /\ s.provider \in BOOLEAN
         /\ \A e \in s.cues : e.motion \in {<<>>} \cup (Int \X Int)
         /\ \A e \in s.sequences : e.cues \in Seq(STRING)

\* A turn's call of a tool, and the goroutines of the cues of its lifecycle and events.
Triggers == {"thinking", "tool.running", "tool.ended"}
Players == Speakers \X ({"call"} \cup Triggers)

NoOffer == [express |-> FALSE, sequences |-> {}, cards |-> {}, others |-> {}]

VARIABLES
    section,        \* the section of the configuration
    cards, listed,  \* the cards of the session, and those of the catalog
    found, known,   \* Broker.tools, toolsKnown
    offered,        \* per turn: the device tools of its request to the model
    play,           \* per player: the call or the cue, and how far it has come
    screens,        \* displaySceneQueue
    last            \* the command that the last step sent, and what it is for

deviceVars == <<section, cards, listed, found, known, offered, play, screens, last>>

\* at: what is done next.  cues: the cues, of which number n is played.  got, err:
\* was a command of this cue answered, and its first error.  tried: a command
\* was sent, or held back by the scheduler.
NoPlay == [at |-> "idle", tool |-> "none", id |-> "none", cues |-> <<>>, n |-> 1, got |-> FALSE,
           err |-> "none", tried |-> FALSE, fair |-> FALSE, outcome |-> "none"]

NoCommand == [kind |-> "none", of |-> "none", cue |-> "none", value |-> "none"]

-----------------------------------------------------------------------------
\* ValidateWithOptions, the sections stackchan.body, display and expression.
IdsOf(entries) == {e.id : e \in entries}
Distinct(entries) == \A e, f \in entries : e.id = f.id => e = f
Within(x, range) == range[1] <= x /\ x <= range[2]

ValidBody(s) ==
    /\ -128 <= s.yaw[1] /\ s.yaw[1] <= s.yaw[2] /\ s.yaw[2] <= 128
    /\ 0 <= s.pitch[1] /\ s.pitch[1] <= s.pitch[2] /\ s.pitch[2] <= 90
    /\ IdsOf(s.leds) \subseteq Lifecycles /\ Distinct(s.leds)
    /\ \A e \in s.leds : e.level \in Levels

ValidScene(scene) == scene \in Scenes \cup {""}

\* The names of lifecycle scenes are compared as they are written; duplicates of
\* events and cards are let through.
ValidDisplay(s) ==
    /\ \A e \in s.lifecycleScenes : e.id \in Lifecycles /\ e.form = "plain"
    /\ \A e \in s.events : e.id \in Events /\ ValidScene(e.scene)
    /\ \A e \in s.cards : e.id # "" /\ ValidScene(e.scene)

ValidTriggers(entries, names) ==
    IdsOf(entries) \subseteq names /\ Distinct(entries) /\ \A e \in entries : e.cue \in Cues

ValidList(cues) == Len(cues) \in 1 .. MaxCues /\ \A i \in DOMAIN cues : cues[i] \in Cues

ValidSequences(s) ==
    Distinct(s.sequences) /\ \A e \in s.sequences : e.id # "" /\ ValidList(e.cues)

ValidCues(s) ==
    /\ IdsOf(s.cues) \subseteq Cues /\ Distinct(s.cues)
    /\ \A e \in s.cues :
         /\ e.motion # <<>> => Within(e.motion[1], s.yaw) /\ Within(e.motion[2], s.pitch)
         /\ e.led \in Levels \cup {-1} /\ ValidScene(e.scene)

ValidSection(s) ==
    /\ ValidBody(s) /\ ValidDisplay(s)
    /\ ValidTriggers(s.lifecycleCues, Lifecycles) /\ ValidTriggers(s.eventCues, Events)
    /\ ValidSequences(s) /\ ValidCues(s)

-----------------------------------------------------------------------------
\* The conversions of app.go.  Of two cards with the same id the order of the map
\* decides, each time anew.
Choices(entries) == {f \in [IdsOf(entries) -> entries] : \A id \in DOMAIN f : f[id].id = id}

\* Mutant: the key is trimmed and not put in lower case, as that of an event scene.
ConvertedAsWritten(entries) ==
    [id \in IdsOf({e \in entries : e.form = "plain"}) |-> CHOOSE e \in entries : e.id = id]

Converted(entries) == [id \in IdsOf(entries) |-> CHOOSE e \in entries : e.id = id]

\* The keys of scenes keep their capitals, and are looked up without.
ConvertedScenes(entries) == Converted({e \in entries : e.form = "plain"})

\* MotionLimits.withDefaults, ClampMotion.
Effective(range, default) == IF range = <<0, 0>> THEN default ELSE range
Clamp(x, range) == IF x < range[1] THEN range[1] ELSE IF x > range[2] THEN range[2] ELSE x

ClampMotion(m) == <<Clamp(m[1], Effective(section.yaw, <<-45, 45>>)),
                    Clamp(m[2], Effective(section.pitch, <<0, 45>>))>>

\* mergeExpressionPolicy, ExpressionForCueWithPolicies.
Merged(plan, e) == [motion |-> IF e.motion = <<>> THEN plan.motion ELSE e.motion,
                    led    |-> IF e.led = -1 THEN plan.led ELSE e.led,
                    scene  |-> IF e.scene = "" THEN plan.scene ELSE e.scene]

PlanWith(policies, cue) == IF cue \in DOMAIN policies
                           THEN Merged(DefaultPlan[cue], policies[cue])
                           ELSE DefaultPlan[cue]

Plan(cue) == PlanWith(Converted(section.cues), cue)

\* ComposeCard, ComposeLifecycle, ComposeEvent.
CardScene(card) == IF card.scene = "" THEN "tool" ELSE card.scene

LifecycleScreen(name) ==
    [kind |-> "lifecycle", of |-> name, cue |-> "none",
     value |-> IF name \in DOMAIN ConvertedScenes(section.lifecycleScenes) THEN "configured"
               ELSE "default"]

EventSceneOf(e) == IF e.scene # "" THEN e.scene
                   ELSE IF e.id = "tool.failed" THEN "error" ELSE "tool"

EventScreens(name) ==
    LET policies == ConvertedScenes(section.events)
    IN  {[kind |-> "event", of |-> id, cue |-> "none", value |-> EventSceneOf(policies[id])] :
            id \in {name} \cap DOMAIN policies}

-----------------------------------------------------------------------------
\* The catalogs, which put the keys in lower case once more.
CatalogPlan(cue) == PlanWith([id \in IdsOf(section.cues) |->
                                  CHOOSE e \in section.cues : e.id = id], cue)

CatalogSequences == {e.id : e \in {f \in section.sequences : ValidList(f.cues)}}

CatalogCards == Choices(section.cards)

CatalogEvents == {[id |-> e.id, scene |-> EventSceneOf(e)] : e \in section.events}

-----------------------------------------------------------------------------
DeviceInit ==
    /\ section \in Sections /\ cards = <<>> /\ listed = <<>>
    /\ found = {} /\ known = FALSE /\ offered = [t \in Speakers |-> NoOffer]
    /\ play = [p \in Players |-> NoPlay] /\ screens = <<>> /\ last = NoCommand

\* New with its catalogs, and newVoiceLoopForTransport for the device's connection.
LoadSection ==
    /\ ValidSection(section)
    /\ listed' \in CatalogCards /\ cards' \in Choices(section.cards)
    /\ UNCHANGED <<section, found, known, offered, play, screens, last>>

\* A page of tools/list is stored.
Discover ==
    /\ \E page \in Pages : ~(page \subseteq found /\ known) /\ found' = found \cup page
    /\ known' = TRUE /\ last' = NoCommand
    /\ UNCHANGED <<section, cards, listed, offered, play, screens>>

AllowedCommands == found \cap section.allow

\* Mutant: what the device has not reported counts as well.
MayExpressIfAllowed == section.allow \cap Commands # {}

\* hasStackChanExpressionTarget.
MayExpress == AllowedCommands \cap Commands # {}

\* The ids in the schemas of the preset sequences and of the cards.
SequenceSchema == DOMAIN Converted(section.sequences)
CardSchema == DOMAIN cards

\* llmToolDefinitions, the device's part.
Offer ==
    [express   |-> section.provider /\ MayExpress,
     sequences |-> IF section.provider /\ MayExpress THEN SequenceSchema ELSE {},
     cards     |-> IF "scene" \in AllowedCommands THEN CardSchema ELSE {},
     others    |-> AllowedCommands \ Commands]

-----------------------------------------------------------------------------
\* dispatchEventDisplayScene, dispatchLifecycleDisplayScene: a cue starts a goroutine,
\* a scene is queued, or dropped when the queue is full.
Enqueued(scenes) ==
    IF scenes = {} \/ Len(screens) = QueueSize THEN screens
    ELSE Append(screens, CHOOSE s \in scenes : TRUE)

Cued(plays, t, trigger, name, entries) ==
    LET cueOf == Converted(entries)
    IN  IF name \notin DOMAIN cueOf THEN plays
        ELSE [plays EXCEPT ![<<t, trigger>>] =
                 [NoPlay EXCEPT !.at = "motion", !.cues = <<cueOf[name].cue>>]]

\* A final transcript, and the request to the model.
AskModel(t) ==
    /\ play[<<t, "call">>].at = "idle"
    /\ play' = Cued([play EXCEPT ![<<t, "call">>].at = "asked"], t, "thinking", "thinking",
                    section.lifecycleCues)
    /\ screens' = Enqueued({LifecycleScreen("thinking")})
    /\ offered' = [offered EXCEPT ![t] = Offer]
    /\ last' = NoCommand /\ UNCHANGED <<section, cards, listed, found, known>>

\* A call begins: how executeOne takes it is the record r of the call.
Begins(t, r) ==
    /\ play[<<t, "call">>].at = "asked"
    /\ play' = Cued([play EXCEPT ![<<t, "call">>] = r], t, "tool.running", "tool.running",
                    section.eventCues)
    /\ screens' = Enqueued(EventScreens("tool.running"))
    /\ last' = NoCommand /\ UNCHANGED <<section, cards, listed, found, known, offered>>

Refused(outcome) == [NoPlay EXCEPT !.at = "done", !.outcome = outcome]

\* Mutant: only the first cue is looked up before the cues are played.
ResolvableFirst(cues) == cues # <<>> /\ cues[1] \in Cues

\* dispatchExpressionCueSequence: the whole list is looked up first.
Resolvable(cues) == ValidList(cues)

\* dispatchExpression, dispatchExpressionSequence: a cue, or a list of them.
CallExpression(t) ==
    \E cues \in AskedCues :
        Begins(t, IF Resolvable(cues)
                  THEN [NoPlay EXCEPT !.at = "motion", !.tool = "sequence", !.cues = cues,
                                      !.fair = offered[t].express]
                  ELSE Refused("invalid"))

CallSequence(t) ==
    \E id \in AskedIds :
        LET sequences == Converted(section.sequences)
        IN  Begins(t, IF id \in DOMAIN sequences
                      THEN [NoPlay EXCEPT !.at = "motion", !.tool = "play", !.id = id,
                                          !.cues = sequences[id].cues,
                                          !.fair = id \in offered[t].sequences]
                      ELSE [Refused("invalid") EXCEPT !.tool = "play", !.id = id])

CallCard(t) ==
    \E id \in AskedIds :
        Begins(t, IF id \in DOMAIN cards
                  THEN [NoPlay EXCEPT !.at = "card", !.tool = "card", !.id = id,
                                      !.fair = id \in offered[t].cards]
                  ELSE [Refused("invalid") EXCEPT !.tool = "card", !.id = id])

\* The commands themselves and the camera are refused; another tool is the device's.
CallRaw(t) == Begins(t, Refused("skipped"))

CallOther(t) == Begins(t, [NoPlay EXCEPT !.at = "other", !.tool = "other",
                                         !.fair = "volume" \in offered[t].others])

-----------------------------------------------------------------------------
\* Broker.CallTool: its errors; without one the command was answered.
Results(command) ==
    IF command \notin section.allow THEN {"not_allowed"}
    ELSE IF known /\ command \notin found THEN {"unavailable"}
    ELSE {"none", "device"}

Sent(result) == result \in {"none", "device"}

After(r, result, at) ==
    [r EXCEPT !.at = at, !.got = @ \/ result = "none",
              !.err = IF @ = "none" THEN result ELSE @,
              !.tried = @ \/ Sent(result) \/ result = "refused"]

Outcome(err) == IF err \in {"not_allowed", "unavailable"} THEN "skipped" ELSE "failed"

Ends(r, outcome) == [r EXCEPT !.at = "done", !.outcome = outcome, !.n = 1, !.got = FALSE,
                              !.err = "none"]

Commanded(result, command) == last' = IF Sent(result) THEN command ELSE NoCommand

\* Nothing asks for what has become of a cue of a goroutine.
Plays(p, r) ==
    /\ play' = [play EXCEPT ![p] = IF p[2] # "call" /\ r.at = "done" THEN NoPlay ELSE r]
    /\ UNCHANGED <<section, cards, listed, found, known, offered, screens>>

CueOf(r) == r.cues[r.n]

\* dispatchExpressionPlan: each command whose turn is over is held back, a motion also
\* when it comes too early or is one too many.
PlayMotion(p, current) ==
    /\ play[p].at = "motion"
    /\ \E result \in {"refused"} \cup (IF current THEN Results("head") ELSE {}) :
         LET r == play[p] IN
         /\ Plays(p, After(r, result, "led"))
         /\ Commanded(result, [kind |-> "head", of |-> r.id, cue |-> CueOf(r),
                               value |-> ClampMotion(Plan(CueOf(r)).motion)])

\* The cue is played: without any answer its first error ends the call.
Played(r) == IF ~r.got THEN Ends(r, Outcome(r.err))
             ELSE IF r.n = Len(r.cues) THEN Ends(r, "ok")
             ELSE [r EXCEPT !.at = "gap"]

PlayLED(p, current) ==
    /\ play[p].at = "led"
    /\ \E result \in IF current THEN Results("led") ELSE {"refused"} :
         LET r == After(play[p], result, "scene") IN
         /\ Plays(p, IF p[2] = "call" THEN r ELSE Played(r))
         /\ Commanded(result, [kind |-> "led", of |-> r.id, cue |-> CueOf(r),
                               value |-> Plan(CueOf(r)).led])

\* A scene is not held back.
PlayScene(p) ==
    /\ play[p].at = "scene"
    /\ \E result \in Results("scene") :
         LET r == play[p] IN
         /\ Plays(p, Played(After(r, result, "scene")))
         /\ Commanded(result, [kind |-> "scene", of |-> r.id, cue |-> CueOf(r),
                               value |-> Plan(CueOf(r)).scene])

\* waitForExpressionSequenceCueGap: the context of the call is over, or the gap is.
PassGap(p) ==
    /\ play[p].at = "gap" /\ last' = NoCommand
    /\ \/ Plays(p, [play[p] EXCEPT !.at = "motion", !.n = @ + 1, !.got = FALSE, !.err = "none"])
       \/ Plays(p, Ends(play[p], "failed"))

\* dispatchDisplayCard, and a tool of the device's own.
CallEnds(result, r) == IF result = "none" THEN Ends(r, "ok") ELSE Ends(r, Outcome(result))

PlayCard(p) ==
    /\ play[p].at = "card"
    /\ \E result \in Results("scene") :
         LET r == play[p] IN
         /\ Plays(p, CallEnds(result, After(r, result, "card")))
         /\ Commanded(result, [kind |-> "card", of |-> r.id, cue |-> "none",
                               value |-> CardScene(cards[r.id])])

PlayOther(p) ==
    /\ play[p].at = "other"
    /\ \E result \in Results("volume") :
         /\ Plays(p, CallEnds(result, After(play[p], result, "other")))
         /\ Commanded(result, [NoCommand EXCEPT !.kind = "other"])

PlayOn(p, current) ==
    \/ PlayMotion(p, current) \/ PlayLED(p, current) \/ PlayScene(p)
    \/ PassGap(p) \/ PlayCard(p) \/ PlayOther(p)

\* dispatchToolOutcomeDisplayScene.
ReportOutcome(t) ==
    LET p == <<t, "call">>
        event == IF play[p].outcome = "ok" THEN "tool.succeeded" ELSE "tool.failed" IN
    /\ play[p].at = "done"
    /\ play' = Cued([play EXCEPT ![p] = [NoPlay EXCEPT !.at = "reported"]], t, "tool.ended", event,
                    section.eventCues)
    /\ screens' = Enqueued(EventScreens(event))
    /\ last' = NoCommand /\ UNCHANGED <<section, cards, listed, found, known, offered>>

\* runDisplaySceneDispatcher.
SendDisplayScene ==
    /\ screens # <<>> /\ screens' = Tail(screens)
    /\ last' = IF "scene" \in AllowedCommands /\ known THEN Head(screens) ELSE NoCommand
    /\ UNCHANGED <<section, cards, listed, found, known, offered, play>>

CallDeviceTool(t) ==
    CallExpression(t) \/ CallSequence(t) \/ CallCard(t) \/ CallRaw(t) \/ CallOther(t)

-----------------------------------------------------------------------------
\* A device tool that the model was offered can be run as it was offered: a call of it
\* with ids of its schema gets to a command that the device has, whatever the
\* allowlist, the section and the pages of its tools.
OfferedIsTried ==
    \A t \in Speakers :
        LET r == play[<<t, "call">>] IN r.fair /\ r.at = "done" => r.tried

\* "Must validate the entire cue list before dispatching the first cue", and a preset,
\* which is validated at start-up, as well: once a command of a call was sent, all of
\* its cues are known and they are not too many.
ListIsCheckedFirst ==
    \A t \in Speakers :
        LET r == play[<<t, "call">>]
        IN  r.tried /\ r.tool \in {"sequence", "play"} => ValidList(r.cues)

\* The catalogs of the admin API say what the device is sent, although they are built
\* of a conversion of their own: a configured motion and its scene as they are listed,
\* never beyond the limits of the operator (a range of 0 to 0 is replaced by the
\* default); a card, unless its id is configured twice; an event's scene; and no id
\* that is listed is refused.
CatalogIsTrue ==
    /\ last.kind = "head" =>
         /\ last.cue \in IdsOf({e \in section.cues : e.motion # <<>>}) =>
              last.value = CatalogPlan(last.cue).motion
         /\ section.yaw # <<0, 0>> => Within(last.value[1], section.yaw)
         /\ section.pitch # <<0, 0>> => Within(last.value[2], section.pitch)
    /\ last.kind = "scene" => last.value = CatalogPlan(last.cue).scene
    /\ last.kind = "card" =>
         /\ last.of \in DOMAIN listed
         /\ Distinct(section.cards) => last.value = CardScene(listed[last.of])
    /\ last.kind = "event" => [id |-> last.of, scene |-> last.value] \in CatalogEvents
    /\ \A t \in Speakers :
         LET r == play[<<t, "call">>] IN
         r.outcome = "invalid" =>
             /\ r.tool = "play" => r.id \notin CatalogSequences
             /\ r.tool = "card" => r.id \notin DOMAIN listed

-----------------------------------------------------------------------------
(* The inductive strengthening used by the proofs.                          *)

Playing == {"motion", "led", "scene", "gap"}

PlayTypes ==
    play \in [Players ->
        [at : Playing \cup {"idle", "asked", "card", "other", "done", "reported"},
         tool : {"none", "sequence", "play", "card", "other"}, id : AskedIds \cup {"none"},
         cues : Seq(Cues), n : Nat \ {0}, got : BOOLEAN,
         err : {"none", "not_allowed", "unavailable", "device", "refused"},
         tried : BOOLEAN, fair : BOOLEAN,
         outcome : {"none", "ok", "skipped", "failed", "invalid"}]]

EventScreen(e) == [kind |-> "event", of |-> e.id, cue |-> "none", value |-> EventSceneOf(e)]

DeviceTypes ==
    /\ section \in Sections /\ PlayTypes
    /\ DOMAIN offered = Speakers /\ \A t \in Speakers : offered[t].express \in BOOLEAN
    /\ found # {} => known
    /\ screens \in Seq({LifecycleScreen("thinking")} \cup {EventScreen(e) : e \in section.events})

\* The section that is served is valid, and converted twice.
SectionIsLoaded ==
    ValidSection(section) /\ cards \in Choices(section.cards) /\ listed \in Choices(section.cards)

\* What a player plays: valid cues, of a tool with arguments that are listed.
PlaysAreValid ==
    \A p \in Players :
        LET r == play[p] IN
        /\ r.at \in Playing => r.n <= Len(r.cues)
        /\ r.at = "gap" => r.n < Len(r.cues)
        /\ r.at \in Playing /\ p[2] = "call" => r.tool \in {"sequence", "play"}
        /\ r.at = "card" => r.tool = "card" /\ r.id \in DOMAIN cards
        /\ r.at = "other" => r.tool = "other"
        /\ r.tool \in {"sequence", "play"} /\ r.outcome # "invalid" => ValidList(r.cues)
        /\ r.outcome = "invalid" =>
             /\ r.at = "done" /\ ~r.tried
             /\ r.tool = "play" => r.id \notin IdsOf(section.sequences)
             /\ r.tool = "card" => r.id \notin DOMAIN cards

\* What was offered may still be called.
OffersAreAllowed ==
    \A t \in Speakers :
        /\ offered[t].express \/ offered[t].sequences # {} => MayExpress
        /\ offered[t].cards # {} => "scene" \in AllowedCommands
        /\ offered[t].others \subseteq AllowedCommands

\* A fair call that has not sent a command has one before it that it may send.
FairCallsGoOn ==
    \A t \in Speakers :
        LET r == play[<<t, "call">>] IN
        r.fair /\ ~r.tried =>
            /\ r.at \in {"motion", "led", "scene", "card", "other"}
            /\ r.at = "motion" => MayExpress
            /\ r.at = "led" => AllowedCommands \cap {"led", "scene"} # {}
            /\ r.at \in {"scene", "card"} => "scene" \in AllowedCommands
            /\ r.at = "other" => "volume" \in AllowedCommands
=============================================================================
