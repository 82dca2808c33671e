---------------------------- MODULE ServiceTools ----------------------------
(***************************************************************************)
(* The start of the gateway and the service tools it registers              *)
(* (config/validate.go, app/app.go, app/ota.go, tools/registry.go and the   *)
(* packages of the tools).  A configuration is validated, then the parts    *)
(* are built, which check it once more and open files; then the model may   *)
(* call what is registered.  A configuration is reduced to what is switched *)
(* on and to what the checks compare; the secrets of a part are one value.  *)
(***************************************************************************)
EXTENDS Integers, Sequences, FiniteSets

CONSTANTS
    Configs,        \* configurations that an operator may write
    Entities,       \* entities of Home Assistant, configured or not
    Keys            \* argument keys, of slots or not

Parts == {"ota", "persona", "memory", "v21", "home_assistant", "search", "feishu",
          "camera", "reminder"}

\* A variable of the environment: unset or empty, white space alone, or with a value.
Values == {"unset", "blank", "set"}
Secrets == {"v21", "home_assistant", "search", "feishu", "receive_id"}

ASSUME ToolsConfigAssumption ==
    Configs # {} /\ \A c \in Configs :
        /\ c.parts \subseteq Parts /\ c.entities \subseteq Entities
        /\ c.env \in [Secrets -> Values] /\ c.base_url \in {"none", "good", "bad"}
        /\ \A i \in DOMAIN c.actions : /\ c.actions[i].entities \subseteq Entities
                                       /\ c.actions[i].slots \subseteq Keys

Permission ==
    [memory_lookup |-> "read", voice_query |-> "external", get_state |-> "external",
     call_action |-> "write", web_search |-> "external", list_targets |-> "read",
     send_text |-> "write", request_capture |-> "device_control",
     announce |-> "device_control"]

Tools == DOMAIN Permission
Nothing == [to |-> {}, keys |-> {}, valid |-> TRUE]
NoCall == [tool |-> "none", slots |-> "none", outcome |-> "none"]

VARIABLES
    conf,           \* the configuration
    stage,          \* how far New has come, or where it failed
    held,           \* files that it has open
    called,         \* the last call: its tool, its slots, its outcome
    sent            \* what Home Assistant was sent for it: entities, service data

toolVars == <<conf, stage, held, called, sent>>

-----------------------------------------------------------------------------
\* ValidateWithOptions, one operator per section.
On(c, part, set) == IF part \in c.parts THEN set ELSE {}

UniqueIds(s) == \A i, j \in DOMAIN s : s[i].id = s[j].id => i = j

ReservedKeys == {"domain", "service", "entity_id", "entity_ids", "target", "data"}

ValidAgent(c) ==
    /\ "memory" \in c.parts => "persona" \in c.parts
    /\ "v21" \in c.parts => c.env["v21"] = "set"

\* The token is not trimmed here, as those of the other parts are.
ValidHomeAssistant(c) ==
    "home_assistant" \in c.parts =>
        /\ c.env["home_assistant"] # "unset" /\ c.entities # {}
        /\ UniqueIds(c.actions)
        /\ \A i \in DOMAIN c.actions :
             /\ c.actions[i].entities # {} /\ c.actions[i].entities \subseteq c.entities
             /\ c.actions[i].data \cap {"entity_id", "target"} = {}
             /\ c.actions[i].slots \cap (ReservedKeys \cup {"action_id"}) = {}

ValidSearch(c) == "search" \in c.parts => c.env["search"] = "set"

\* Mutant: a target may be configured twice.
ValidFeishuTwice(c) ==
    "feishu" \in c.parts => /\ c.env["feishu"] = "set" /\ c.env["receive_id"] = "set"
                            /\ c.targets # <<>>

ValidFeishu(c) ==
    "feishu" \in c.parts => /\ c.env["feishu"] = "set" /\ c.env["receive_id"] = "set"
                            /\ c.targets # <<>> /\ UniqueIds(c.targets)

Valid(c) == ValidAgent(c) /\ ValidHomeAssistant(c) /\ ValidSearch(c) /\ ValidFeishu(c)

-----------------------------------------------------------------------------
\* newAgentServiceTools: the allowlist and the permissions are made up first.
AllowedTools(c) ==
    {"memory_lookup"} \cup On(c, "v21", {"voice_query"})
    \cup On(c, "home_assistant", {"get_state"} \cup IF c.actions = <<>> THEN {}
                                                    ELSE {"call_action"})
    \cup On(c, "search", {"web_search"}) \cup On(c, "feishu", {"list_targets", "send_text"})
    \cup On(c, "camera", {"request_capture"}) \cup On(c, "reminder", {"announce"})

Permissions(c) ==
    {"read"} \cup On(c, "v21", {"external"})
    \cup On(c, "home_assistant", {"external"} \cup IF c.actions = <<>> THEN {} ELSE {"write"})
    \cup On(c, "search", {"external"}) \cup On(c, "feishu", {"read", "write"})
    \cup On(c, "camera", {"device_control"}) \cup On(c, "reminder", {"device_control"})

\* The constructors of the clients and the Register functions of the tools.
HomeAssistantBuilds(c) ==
    c.env["home_assistant"] = "set" /\ c.entities # {} /\ UniqueIds(c.actions)

SearchBuilds(c) == c.env["search"] = "set"

FeishuBuilds(c) ==
    /\ c.env["feishu"] = "set" /\ c.targets # <<>> /\ UniqueIds(c.targets)
    /\ c.env["receive_id"] = "set"

ToolsBuild(c) ==
    /\ "home_assistant" \in c.parts => HomeAssistantBuilds(c)
    /\ "search" \in c.parts => SearchBuilds(c)
    /\ "feishu" \in c.parts => FeishuBuilds(c)

Registered(c) ==
    On(c, "memory", {"memory_lookup"})
    \cup On(c, "home_assistant", {"get_state"})
    \cup (IF c.actions = <<>> THEN {} ELSE On(c, "home_assistant", {"call_action"}))
    \cup On(c, "search", {"web_search"}) \cup On(c, "feishu", {"list_targets", "send_text"})
    \cup On(c, "camera", {"request_capture"}) \cup On(c, "reminder", {"announce"})
    \cup On(c, "v21", {"voice_query"})

-----------------------------------------------------------------------------
Idly == UNCHANGED <<conf, called, sent>>

\* LoadFile; the file is there and can be parsed.
LoadFile == /\ stage = "off" /\ stage' = IF Valid(conf) THEN "loaded" ELSE "rejected"
            /\ UNCHANGED held /\ Idly

\* newGatewayXiaozhiOTAHandler, with the address that public_base_url gives.
BuildOTA == /\ stage = "loaded"
            /\ stage' = IF "ota" \in conf.parts /\ conf.base_url = "bad" THEN "no address"
                        ELSE "addressed"
            /\ UNCHANGED held /\ Idly

\* NewFileTraceRecorder, newAgentPromptBuilder: files that may not open.  The trace
\* stays open when the next ones fail.
OpenTrace == /\ stage = "addressed"
             /\ \/ stage' = "traced" /\ held' = {"trace"}
                \/ stage' = "no file" /\ held' = {}
             /\ Idly

BuildPrompts == /\ stage = "traced"
                /\ \/ /\ stage' = "remembering"
                      /\ held' = held \cup On(conf, "persona", On(conf, "memory", {"memory"}))
                   \/ /\ "persona" \in conf.parts
                      /\ stage' = "no file" /\ UNCHANGED held
                /\ Idly

\* newAgentServiceTools, and New returns; it closes the memory again if they fail.
BuildTools == /\ stage = "remembering"
              /\ IF ToolsBuild(conf) THEN stage' = "serving" /\ UNCHANGED held
                 ELSE stage' = "no tools" /\ held' = held \ {"memory"}
              /\ Idly

StartUp == LoadFile \/ BuildOTA \/ OpenTrace \/ BuildPrompts \/ BuildTools

Failures == {"rejected", "no address", "no file", "no tools"}

-----------------------------------------------------------------------------
\* ExecuteTool: the checks, and then the tool's executor.
Runnable(tool) ==
    tool \in Registered(conf) \cap AllowedTools(conf) /\ Permission[tool] \in Permissions(conf)

Returns(tool, slots, outcome, request) ==
    called' = [tool |-> tool, slots |-> slots, outcome |-> outcome] /\ sent' = request

Refuse(tool) == ~Runnable(tool) /\ Returns(tool, "none", "refused", Nothing)

\* Each of the tools returns an error for arguments that it does not take, or when
\* its service does not answer in time.
AnswersOrFails(tool) ==
    \E outcome \in {"ok", "failed"} : Returns(tool, "none", outcome, Nothing)

LookUpMemory(tool) == tool = "memory_lookup" /\ AnswersOrFails(tool)
SearchWeb(tool)    == tool = "web_search" /\ AnswersOrFails(tool)
Announce(tool)     == tool = "announce" /\ AnswersOrFails(tool)
ListTargets(tool)  == tool = "list_targets" /\ Returns(tool, "none", "ok", Nothing)

\* A message and a picture need a confirmation that no part of the gateway takes:
\* newAgentServiceTools demands it of the one, the other only ever asks.
AsksOrFails(tool) ==
    \E outcome \in {"unconfirmed", "failed"} : Returns(tool, "none", outcome, Nothing)

SendText(tool)       == tool = "send_text" /\ AsksOrFails(tool)
RequestCapture(tool) == tool = "request_capture" /\ AsksOrFails(tool)

\* The bridge is asked in professional mode only.
AskV21(tool, mode) ==
    /\ tool = "voice_query"
    /\ \E outcome \in {"blocked", "ok", "failed"} :
         /\ outcome = "ok" => mode = "professional"
         /\ outcome = "blocked" => mode # "professional"
         /\ Returns(tool, "none", outcome, Nothing)

GetState(tool) ==
    /\ tool = "get_state"
    /\ \E e \in Entities :
         IF e \in conf.entities
         THEN \E outcome \in {"ok", "failed"} :
                Returns(tool, "none", outcome, [Nothing EXCEPT !.to = {e}])
         ELSE Returns(tool, "none", "failed", Nothing)

\* An action that is not configured: RegisterCallActionTool's executor.
CallNoAction(tool) == tool = "call_action" /\ Returns(tool, "none", "failed", Nothing)

\* Mutant: an argument that is not a slot is passed on when its name is reserved.
PassedReserved(a, args) == DOMAIN args

\* actionDataForCall: other keys than the slots are an error, or skipped if reserved.
Passed(a, args) == DOMAIN args \cap a.slots

Foreign(a, args) == DOMAIN args \ (a.slots \cup ReservedKeys)
Wrong(a, args) == {k \in Passed(a, args) : args[k] = "invalid"}
SlotsOf(a, args) == IF Foreign(a, args) # {} \/ Wrong(a, args) # {} THEN "wrong" ELSE "valid"

CallWrongSlots(tool, a, args) ==
    /\ tool = "call_action" /\ SlotsOf(a, args) = "wrong"
    /\ Returns(tool, "wrong", "failed", Nothing)

\* cloneActionData returns a nil map when the action has no static data, and setting
\* the first valid slot in it panics; the slots come in any order.
CallPanics(tool, a, args) ==
    /\ tool = "call_action" /\ Foreign(a, args) = {}
    /\ a.data = {} /\ Passed(a, args) \ Wrong(a, args) # {}
    /\ Returns(tool, SlotsOf(a, args), "panic", Nothing)

CallSends(tool, a, args) ==
    /\ tool = "call_action" /\ SlotsOf(a, args) = "valid"
    /\ a.data # {} \/ Passed(a, args) = {}
    /\ \E outcome \in {"ok", "failed"} :
         Returns(tool, "valid", outcome,
                 [to |-> a.entities, keys |-> a.data \cup Passed(a, args),
                  valid |-> Wrong(a, args) = {}])

Arguments == UNION {[K -> {"valid", "invalid"}] : K \in SUBSET Keys}

CallAction(tool) ==
    \E i \in DOMAIN conf.actions, args \in Arguments :
        LET a == conf.actions[i]
        IN  CallWrongSlots(tool, a, args) \/ CallPanics(tool, a, args) \/ CallSends(tool, a, args)

ExecuteTool(tool, mode) ==
    /\ \/ Refuse(tool)
       \/ /\ Runnable(tool)
          /\ \/ LookUpMemory(tool) \/ SearchWeb(tool) \/ Announce(tool)
             \/ ListTargets(tool) \/ SendText(tool) \/ RequestCapture(tool)
             \/ AskV21(tool, mode) \/ GetState(tool)
             \/ CallNoAction(tool) \/ CallAction(tool)
    /\ UNCHANGED <<conf, stage, held>>

-----------------------------------------------------------------------------
\* What validation lets through starts, but for a token of white space alone, an
\* address without a host and files that do not open; what has started offers the
\* model only tools that it may run, whichever parts are switched on; and what does
\* not start leaves no memory open.
AcceptedStarts ==
    /\ stage = "no tools" => conf.env["home_assistant"] = "blank"
    /\ stage = "serving" =>
         /\ Registered(conf) \subseteq AllowedTools(conf)
         /\ \A tool \in Registered(conf) : Permission[tool] \in Permissions(conf)
    /\ stage \in Failures => "memory" \notin held

\* "Model-supplied domain, service, entity IDs, target or raw service data must never
\* reach Home Assistant": it is sent the entities of one configured action, its static
\* data and valid values of its slots, or asked for the state of an allowed entity.
SentIsConfigured ==
    sent # Nothing =>
        /\ "home_assistant" \in conf.parts /\ sent.to \subseteq conf.entities
        /\ \/ sent.keys = {}
           \/ \E i \in DOMAIN conf.actions :
                LET a == conf.actions[i]
                IN  /\ sent.to = a.entities /\ sent.valid
                    /\ a.data \subseteq sent.keys /\ sent.keys \subseteq a.data \cup a.slots

\* "Slots may set only validated string, number, integer or boolean service-data keys
\* configured by the operator": a call of a configured action with valid values of
\* its slots is answered, with success or with an error code.
ValidSlotsAreSent == called.slots = "valid" => called.outcome # "panic"

-----------------------------------------------------------------------------
(* The inductive strengthening used by the proofs.                          *)

\* How far New has come, what it has checked and what it has open.
StagesAreChecked ==
    /\ conf \in Configs
    /\ stage \in {"loaded", "addressed", "traced", "remembering", "no tools"} => Valid(conf)
    /\ stage = "no tools" => ~ToolsBuild(conf)
    /\ stage \in {"off", "loaded", "addressed", "rejected", "no address"} => held = {}
    /\ stage \in {"traced", "no file"} => held \subseteq {"trace"}
    /\ stage = "no tools" => "memory" \notin held
=============================================================================
