---------------------------- MODULE AgentPolicy ----------------------------
(***************************************************************************)
(* The agent mode of a device (agents/mode.go) and the way of a turn to an  *)
(* agent bridge (app/app.go): the mode chooses the bridge, a limiter and a  *)
(* cooldown may skip it, the call runs outside their mutexes, its result is *)
(* recorded.  The calls of two turns of a device overlap.  A reading of the *)
(* clock and the mutex taken next are one step.                             *)
(***************************************************************************)
EXTENDS Integers, Sequences, FiniteSets

CONSTANTS
    DefaultMode,      \* agent.default_mode
    Bridges,          \* the bridges that are enabled
    RateLimit,        \* max_runtime_routes_per_minute, 0 for none
    Minute,           \* its window, in ticks
    MaxErrors,        \* max_runtime_errors_before_cooldown, 0 for none
    Cooldown,         \* runtime_error_cooldown_ms, in ticks
    MaxTime,          \* bound: ticks of the clock
    Routers           \* the turns that may call a bridge

Modes == {"casual", "roleplay", "professional", "tool"}
Destinations == {"hermes", "openclaw"}
NoMode == "unset"
NoBridge == "none"

ASSUME PolicyAssumption ==
    /\ DefaultMode \in Modes /\ Bridges \subseteq Destinations
    /\ RateLimit \in Nat /\ Minute \in Nat \ {0}
    /\ MaxErrors \in Nat /\ Cooldown \in Nat /\ MaxTime \in Nat

VARIABLES
    override,         \* ModeStore.overrides of the device
    clock,
    seen,             \* agentRuntimeRouteLimiter.seen, per bridge
    cooldowns,        \* agentRuntimeErrorCooldowns.states, per bridge
    route,            \* RouteAgentTurn of each turn: how far, and to which bridge
    passed, results   \* history, per bridge: when the calls of the last minute passed the
                      \* limiter; the last MaxErrors results, and whether it rested then

policyVars == <<override, clock, seen, cooldowns, route, passed, results>>

NoRoute == [step |-> "idle", to |-> NoBridge]
NoCooldown == [errors |-> 0, until |-> 0]

PolicyInit ==
    /\ override = NoMode /\ clock = 0
    /\ seen = [d \in Bridges |-> {}] /\ cooldowns = [d \in Bridges |-> NoCooldown]
    /\ route = [t \in Routers |-> NoRoute]
    /\ passed = [d \in Bridges |-> {}] /\ results = [d \in Bridges |-> <<>>]

-----------------------------------------------------------------------------
\* GetDeviceMode, SetDeviceMode, ClearDeviceMode: each one critical section.
ActiveMode == IF override = NoMode THEN DefaultMode ELSE override

SetDeviceMode(m) == override' = m
ClearDeviceMode == override' = NoMode

\* ParseModeCommand: a spoken command enters a mode or leaves any one.
ModeCommand(command) ==
    IF command = "exit" THEN ClearDeviceMode ELSE SetDeviceMode(command)

\* The device's own request: selecting the default mode drops the override.
SelectDeviceMode(m) == IF m = DefaultMode THEN ClearDeviceMode ELSE SetDeviceMode(m)

-----------------------------------------------------------------------------
\* destinationForMode.
DestinationFor(mode) ==
    CASE mode = "roleplay" /\ "hermes" \in Bridges -> "hermes"
      [] mode = "tool" /\ "openclaw" \in Bridges   -> "openclaw"
      [] OTHER                                     -> NoBridge

\* pruneLocked.  The limiter keeps a list of times and asks for its length alone: it
\* is the set of the places that were taken, one a turn.
PlacesWithin(places, window) == {p \in places : p.at > clock - window}

Kept(d) == PlacesWithin(seen[d], Minute)

\* Mutant: the window is a tick short.
WithinRateShort(d) ==
    RateLimit = 0 \/ Cardinality(PlacesWithin(seen[d], Minute - 1)) < RateLimit

WithinRate(d) == RateLimit = 0 \/ Cardinality(Kept(d)) < RateLimit

Cooling(d) == MaxErrors > 0 /\ Cooldown > 0 /\ cooldowns[d].until > clock

\* What remains of RouteAgentTurn for turn t.
Moves(t, step) == route' = [route EXCEPT ![t].step = step]

StartRoute(t) ==
    LET d == DestinationFor(ActiveMode) IN
    route' = [route EXCEPT ![t] = [step |-> IF d = NoBridge THEN "skipped" ELSE "limit",
                                   to |-> d]]

\* runtimeRouteLimits.Allow takes a place in the window, used or not.
AllowRate(t) ==
    LET d == route[t].to
        place == [at |-> clock, by |-> t]
    IN
    /\ route[t].step = "limit"
    /\ IF WithinRate(d)
       THEN /\ Moves(t, "cooldown")
            /\ seen' = [seen EXCEPT ![d] = IF RateLimit = 0 THEN @ ELSE Kept(d) \cup {place}]
            /\ passed' = [passed EXCEPT ![d] = @ \cup {place}]
       ELSE /\ Moves(t, "skipped") /\ seen' = [seen EXCEPT ![d] = Kept(d)]
            /\ UNCHANGED passed
    /\ UNCHANGED <<override, clock, cooldowns, results>>

\* runtimeErrorCooldowns.Allow, then the limit on the length of the input.
AllowCooldown(t) ==
    /\ route[t].step = "cooldown"
    /\ \/ ~Cooling(route[t].to) /\ Moves(t, "call")
       \/ Moves(t, "skipped")
    /\ UNCHANGED <<override, clock, seen, cooldowns, passed, results>>

\* RecordFailure.
CooldownAfter(d) ==
    IF Cooling(d) \/ MaxErrors = 0 \/ Cooldown = 0 THEN cooldowns[d]
    ELSE IF cooldowns[d].errors + 1 >= MaxErrors
    THEN [errors |-> 0, until |-> clock + Cooldown]
    ELSE [cooldowns[d] EXCEPT !.errors = @ + 1]

LastResults(h) == IF Len(h) <= MaxErrors THEN h ELSE Tail(h)

Result(d, ok) ==
    results' = [results EXCEPT
                  ![d] = LastResults(Append(@, [ok |-> ok, rested |-> Cooling(d)]))]

BridgeFails(t) ==
    LET d == route[t].to IN
    /\ route[t].step = "call" /\ Moves(t, "failed") /\ Result(d, FALSE)
    /\ cooldowns' = [cooldowns EXCEPT ![d] = CooldownAfter(d)]
    /\ UNCHANGED <<override, clock, seen, passed>>

\* Mutant: a success leaves the failures before it counted.
AfterSuccessKept(d) == cooldowns[d]

\* RecordSuccess forgets a cooldown that another call began meanwhile.
AfterSuccess(d) == IF MaxErrors = 0 THEN cooldowns[d] ELSE NoCooldown

BridgeAnswers(t) ==
    LET d == route[t].to IN
    /\ route[t].step = "call" /\ Result(d, TRUE)
    /\ Moves(t, "answered") \/ Moves(t, "skipped")     \* with or without content
    /\ cooldowns' = [cooldowns EXCEPT ![d] = AfterSuccess(d)]
    /\ UNCHANGED <<override, clock, seen, passed>>

Route == \E t \in Routers : \/ AllowRate(t) \/ AllowCooldown(t)
                            \/ BridgeFails(t) \/ BridgeAnswers(t)

Tick == /\ clock < MaxTime /\ clock' = clock + 1
        /\ passed' = [d \in Bridges |-> {p \in passed[d] : p.at > clock' - Minute}]
        /\ UNCHANGED <<override, seen, cooldowns, route, results>>

\* RuntimePolicyStatus: reading a status prunes the limiter's window.
ReadPolicyStatus(d) ==
    /\ seen' = [seen EXCEPT ![d] = Kept(d)] /\ seen' # seen
    /\ UNCHANGED <<override, clock, cooldowns, route, passed, results>>

-----------------------------------------------------------------------------
PolicyTypeOK ==
    /\ override \in Modes \cup {NoMode} /\ clock \in 0 .. MaxTime
    /\ \A t \in Routers :
         /\ route[t].step \in {"idle", "limit", "cooldown", "call", "failed", "answered",
                               "skipped"}
         /\ route[t].to \in Bridges \cup {NoBridge}
    /\ \A d \in Bridges : /\ RateLimit > 0 => Cardinality(seen[d]) <= RateLimit
                          /\ MaxErrors > 0 => cooldowns[d].errors < MaxErrors

\* "max_runtime_routes_per_minute": within any minute, not only the limiter's own
\* windows, no more calls pass than the limit, however turns and status reads that
\* prune the window come between.
RateIsKept == RateLimit > 0 => \A d \in Bridges : Cardinality(passed[d]) <= RateLimit

\* A bridge begins to rest only when its last max_runtime_errors_before_cooldown
\* results are failures, none of them the straggler of an earlier rest, and it does
\* not rest any longer than runtime_error_cooldown_ms from the last of them, whatever
\* calls that are on their way fail meanwhile.
CooldownIsEarned ==
    [][\A d \in Bridges :
         cooldowns'[d].until > cooldowns[d].until =>
            /\ cooldowns'[d].until = clock + Cooldown
            /\ Len(results'[d]) = MaxErrors
            /\ \A i \in 1 .. MaxErrors : ~results'[d][i].ok /\ ~results'[d][i].rested]_policyVars

-----------------------------------------------------------------------------
(* The inductive strengthening used by the proofs.                          *)

PolicyTypes ==
    /\ override \in Modes \cup {NoMode} /\ clock \in Nat
    /\ seen \in [Bridges -> SUBSET [at : Nat, by : Routers]]
    /\ passed \in [Bridges -> SUBSET [at : Nat, by : Routers]]
    /\ cooldowns \in [Bridges -> [errors : Nat, until : Nat]]
    /\ results \in [Bridges -> Seq([ok : BOOLEAN, rested : BOOLEAN])]
    /\ route \in [Routers ->
          [step : {"idle", "limit", "cooldown", "call", "failed", "answered", "skipped"},
           to : Bridges \cup {NoBridge}]]
    /\ \A t \in Routers :
         route[t].step \in {"limit", "cooldown", "call"} => route[t].to \in Bridges

\* What the limiter keeps of its list are the calls of the last minute.
SeenIsPassed ==
    RateLimit > 0 => \A d \in Bridges : IsFiniteSet(passed[d]) /\ passed[d] = Kept(d)

\* The failures that are counted end the history, and none are during a rest.
ErrorsAreResults ==
    \A d \in Bridges :
        LET errors == cooldowns[d].errors
            last == Len(results[d])
        IN  /\ last <= MaxErrors /\ errors <= last
            /\ \A i \in last - errors + 1 .. last : ~results[d][i].ok /\ ~results[d][i].rested
            /\ MaxErrors > 0 => errors < MaxErrors
            /\ Cooling(d) => errors = 0
            /\ MaxErrors = 0 \/ Cooldown = 0 => cooldowns[d] = NoCooldown
=============================================================================
