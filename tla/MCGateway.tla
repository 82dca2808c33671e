----------------------------- MODULE MCGateway -----------------------------
(* A device for a few turns, one feature of the configuration at a time.    *)
EXTENDS Gateway

\* The first candidate is the default: a turn of another profile falls back to it.
TheFallbacks == <<"main", "spare">>
TheTurns == [profiles |-> 3, agents |-> 3, memory |-> 2, tools |-> 1, device |-> 1]
TheAdmin == [profiles |-> 1, agents |-> 1, memory |-> 1, tools |-> 0, device |-> 0]

\* Every set of parts with tools, and of the others; and all of them, with one secret missing or blank and with
\* other actions, targets and entities.
Good == [s \in Secrets |-> "set"]
Warm == [id |-> "warm", entities |-> {"climate"}, data |-> {"hvac"}, slots |-> {"degrees", "fan"}]
Dim  == [id |-> "dim", entities |-> {"light"}, data |-> {}, slots |-> {"degrees"}]
Off  == [id |-> "dim", entities |-> {"light", "lock"}, data |-> {}, slots |-> {}]
Base == [parts |-> Parts, entities |-> {"climate", "light"}, env |-> Good, base_url |-> "good",
         actions |-> <<Warm, Dim>>, targets |-> <<[id |-> "home"]>>]

TheConfigs ==
    {[Base EXCEPT !.parts = p \cup {"ota", "persona", "memory"}, !.actions = a] :
        p \in SUBSET (Parts \ {"ota", "persona", "memory"}), a \in {<<>>, <<Dim>>}}
    \cup {[Base EXCEPT !.parts = p] : p \in SUBSET {"ota", "persona", "memory"}}
    \cup {[Base EXCEPT !.env[s] = v, !.base_url = u] :
            s \in Secrets, v \in Values, u \in {"none", "good", "bad"}}
    \cup {[Base EXCEPT !.actions = a, !.entities = e, !.targets = t] :
            a \in {<<Warm>>, <<Dim, Off>>, <<Dim, Dim>>},
            e \in {{}, {"climate"}, {"climate", "light", "lock"}},
            t \in {<<>>, <<[id |-> "home"], [id |-> "home"]>>,
                   <<[id |-> "home"], [id |-> "work"]>>}}

\* A section with everything; with narrow limits, with keys in capitals and keys that
\* occur twice, and with other tools allowed; and sections that are rejected.
Gentle == [id |-> "nod", form |-> "plain", motion |-> <<4, 6>>, led |-> -1, scene |-> "tool"]
Info == [id |-> "info", form |-> "plain", scene |-> ""]
Greet == [id |-> "greet", form |-> "plain", cues |-> <<"nod", "celebrate">>]
Ended == [id |-> "tool.failed", form |-> "plain", scene |-> ""]
Cheer == [id |-> "tool.succeeded", form |-> "plain", cue |-> "celebrate"]
Whole == [yaw |-> <<-45, 45>>, pitch |-> <<0, 45>>, provider |-> TRUE,
          allow |-> Commands \cup {"volume"}, cues |-> {Gentle}, sequences |-> {Greet},
          cards |-> {Info}, events |-> {Ended}, eventCues |-> {Cheer}, lifecycleCues |-> {},
          lifecycleScenes |-> {}, leds |-> {[id |-> "idle", form |-> "plain", level |-> 0]}]

Shouted(e) == [e EXCEPT !.form = "capitals"]
Thinks == [id |-> "thinking", form |-> "plain", cue |-> "thinking"]

TheSections ==
    {[Whole EXCEPT !.allow = a, !.provider = p] :
        a \in {{"scene"}, {"led", "volume"}, {"head", "scene"}}, p \in BOOLEAN}
    \cup {Whole,
          [Whole EXCEPT !.pitch = <<0, 8>>, !.cues = {Shouted(Gentle)}, !.sequences = {Shouted(Greet)},
                        !.events = {Shouted(Ended)}, !.eventCues = {Shouted(Cheer)}],
          [Whole EXCEPT !.yaw = <<0, 0>>, !.cues = {}, !.lifecycleCues = {Thinks}, !.eventCues = {},
                        !.cards = {Info, [Shouted(Info) EXCEPT !.scene = "idle"]}],
          [Whole EXCEPT !.yaw = <<0, 3>>],
          [Whole EXCEPT !.lifecycleScenes = {[id |-> "thinking", form |-> "capitals"]}],
          [Whole EXCEPT !.cues = {Gentle, Shouted(Gentle)}],
          [Whole EXCEPT !.sequences = {[Greet EXCEPT !.cues = <<"nod", "wave">>]}],
          [Whole EXCEPT !.sequences = {[Greet EXCEPT !.cues = <<"nod", "nod", "nod", "nod">>]}]}

ThePages == {{"head", "led"}, {"scene", "volume"}}

TheAsked == {<<"nod">>, <<"settle", "wave">>, <<"nod", "settle">>, <<>>,
             <<"nod", "nod", "nod", "nod">>}
=============================================================================
