---------------------------- MODULE GatewayProofs ----------------------------
(***************************************************************************)
(* The inductive invariant of Gateway and its consequences, for every       *)
(* number of turns and requests and every configuration: one part for each  *)
(* of the things that turns share, and one for the turns.                   *)
(***************************************************************************)
EXTENDS Gateway, FiniteSetTheorems, SequenceTheorems, WellFoundedInduction, TLAPS

LEMMA Bounds ==
    /\ Routers = Turns /\ Writers = Turns /\ Speakers = Turns /\ Observers = Turns
    /\ IsFiniteSet(Turns) /\ Turns \subseteq Nat /\ 0 \notin Turns
    /\ None \notin Profiles /\ DefaultProfile \in Profiles
    /\ \A i \in DOMAIN Fallbacks : Fallbacks[i] \in Profiles /\ i \in Nat
    /\ YellowLimit \in Nat \ {0} /\ ErrorLimit \in Nat \ {0}
    /\ DefaultMode \in Modes /\ Bridges \subseteq Destinations
    /\ RateLimit \in Nat /\ Minute \in Nat \ {0}
    /\ MaxErrors \in Nat /\ Cooldown \in Nat /\ MaxTime \in Nat
    /\ RecentLimit \in Nat \ {0} /\ PromptItems \in Nat \ {0} /\ PromptTurns \in Nat
    /\ MaxPumps \in Nat /\ MaxStarts \in Nat /\ Offered \subseteq Modes
    /\ Features \subseteq {"profiles", "agents", "memory", "tools", "device"}
<1>1. /\ Routers = Turns /\ Writers = Turns /\ Speakers = Turns /\ Observers = Turns
      /\ IsFiniteSet(Turns) /\ Turns = 1 .. Cardinality(Turns)
      /\ MaxPumps \in Nat /\ MaxStarts \in Nat /\ Offered \subseteq Modes
      /\ Features \subseteq {"profiles", "agents", "memory", "tools", "device"}
  BY GatewayAssumption DEF Turns
<1>2. Turns \subseteq Nat /\ 0 \notin Turns
  <2>1. Cardinality(Turns) \in Nat
    BY <1>1, FS_CardinalityType
  <2>2. QED
    BY <1>1, <2>1
<1>3. QED
  BY <1>1, <1>2, RouterAssumption, PolicyAssumption, MemoryAssumption

-----------------------------------------------------------------------------
NextCases ==
    \/ ListenStart \/ Abort \/ Disconnect
    \/ \E t \in Turns :
         \/ RecordCut(t) \/ ResolveProviders(t) \/ ListenStartFails(t)
         \/ Hear(t) \/ CommandMode(t) \/ CommandProfile(t) \/ AskBridge(t)
         \/ BridgeReturns(t) \/ CallTool(t) \/ UseDevice(t) \/ FirstAudioIsLate(t)
         \/ PumpFails(t) \/ PumpStops(t)
         \/ FinishReply(t) \/ ClearRuntime(t) \/ WriteMemories(t)
         \/ RecordConversationTurn(t) \/ RecordTurnComplete(t)
    \/ PutProviderProfile \/ DeleteProviderProfile \/ PutAgentMode
    \/ DeleteAgentMode \/ GetAgentRuntimeStatus \/ WriteMemoryByAdmin \/ CompactGoesOn
    \/ Boot \/ BootDevice \/ CloseAll \/ CloseResources \/ Exit \/ Start
    \/ DeviceGoesOn \/ ObserveVoiceTurn \/ RouteAgentTurn \/ TimePasses
    \/ UNCHANGED vars

LEMMA Cases == [Next]_vars => NextCases
  BY DEF Next, Reader, Pump, AdminAPI, Process, NextCases

-----------------------------------------------------------------------------
\* What a step of the gateway is for the agent policy.
PolicyStep ==
    \/ UNCHANGED policyVars
    \/ /\ override' \in Modes \cup {NoMode}
       /\ UNCHANGED <<clock, seen, cooldowns, route, passed, results>>
    \/ /\ \E t \in Turns : StartRoute(t) \/ route' = [route EXCEPT ![t] = NoRoute]
       /\ UNCHANGED <<override, clock, seen, cooldowns, passed, results>>
    \/ Route \/ Tick \/ \E d \in Bridges : ReadPolicyStatus(d)
    \/ /\ override' = NoMode /\ seen' = [d \in Bridges |-> {}]
       /\ cooldowns' = [d \in Bridges |-> NoCooldown]
       /\ passed' = [d \in Bridges |-> {}] /\ results' = [d \in Bridges |-> <<>>]
       /\ UNCHANGED <<clock, route>>

LEMMA PolicySteps ==
    ASSUME [Next]_vars
    PROVE  PolicyStep
<1>1. CASE \/ ListenStart \/ Abort \/ Disconnect
           \/ \E t \in Turns :
                \/ RecordCut(t) \/ ResolveProviders(t) \/ ListenStartFails(t)
                \/ Hear(t) \/ CommandProfile(t)
                \/ CallTool(t) \/ UseDevice(t) \/ FirstAudioIsLate(t)
                \/ PumpFails(t) \/ PumpStops(t)
                \/ FinishReply(t) \/ ClearRuntime(t) \/ WriteMemories(t)
                \/ RecordConversationTurn(t) \/ RecordTurnComplete(t)
           \/ PutProviderProfile \/ DeleteProviderProfile
           \/ WriteMemoryByAdmin \/ CompactGoesOn
           \/ Boot \/ BootDevice \/ CloseAll \/ CloseResources \/ Exit
           \/ DeviceGoesOn \/ ObserveVoiceTurn
           \/ UNCHANGED vars
  BY <1>1 DEF ListenStart, Abort, Disconnect, RecordCut, ResolveProviders, ListenStartFails,
     Hear, CommandProfile, CallTool, UseDevice, FirstAudioIsLate, PumpFails, PumpStops,
     FinishReply, ClearRuntime, WriteMemories, RecordConversationTurn, RecordTurnComplete,
     PutProviderProfile, DeleteProviderProfile, WriteMemoryByAdmin, CompactGoesOn, Boot,
     BootDevice, CloseAll, CloseResources, Exit, DeviceGoesOn, ObserveVoiceTurn, vars,
     PolicyStep
<1>2. CASE \/ \E t \in Turns : CommandMode(t)
           \/ PutAgentMode \/ DeleteAgentMode
  BY <1>2, Bounds DEF CommandMode, PutAgentMode, DeleteAgentMode, ModeCommand,
     ClearDeviceMode, SetDeviceMode, SelectDeviceMode, PolicyStep, Modes
<1>3. CASE \/ \E t \in Turns : AskBridge(t) \/ BridgeReturns(t)
           \/ GetAgentRuntimeStatus \/ RouteAgentTurn \/ TimePasses
  BY <1>3 DEF AskBridge, BridgeReturns, GetAgentRuntimeStatus, RouteAgentTurn, TimePasses,
     PolicyStep
<1>4. CASE Start
  BY <1>4 DEF Start, PolicyStep
<1>5. QED
  BY <1>1, <1>2, <1>3, <1>4, Cases DEF NextCases

PolicyIInv == PolicyTypes /\ SeenIsPassed /\ RateIsKept /\ ErrorsAreResults

\* A result is added at the end of the history, which it shortens at its begin.
Extends(h, r, g) ==
    /\ MaxErrors = 0 => Len(g) = 0
    /\ MaxErrors > 0 =>
         /\ Len(g) = IF Len(h) < MaxErrors THEN Len(h) + 1 ELSE MaxErrors
         /\ g[Len(g)] = r
         /\ \A i \in 1 .. Len(g) - 1 : g[i] = h[Len(h) - Len(g) + 1 + i]

LEMMA LastResultsEffect ==
    ASSUME NEW R, NEW h \in Seq(R), Len(h) <= MaxErrors, NEW r \in R,
           NEW g, g = LastResults(Append(h, r))
    PROVE  Extends(h, r, g)
<1> USE DEF Extends
<1> DEFINE a == Append(h, r)
<1>1. /\ a \in Seq(R) /\ Len(a) = Len(h) + 1 /\ a # <<>> /\ a[Len(a)] = r
      /\ \A i \in 1 .. Len(h) : a[i] = h[i]
      /\ Len(h) \in Nat /\ MaxErrors \in Nat
  BY AppendProperties, Bounds
<1>2. /\ Tail(a) \in Seq(R) /\ Len(Tail(a)) = Len(a) - 1
      /\ \A i \in 1 .. Len(Tail(a)) : Tail(a)[i] = a[i + 1]
  BY <1>1, HeadTailProperties
<1>2a. g = LastResults(a)
  OBVIOUS
<1> HIDE DEF a
<1>3. CASE Len(h) < MaxErrors
  <2>1. LastResults(a) = a
    BY <1>1, <1>3 DEF LastResults
  <2>2. \A i \in 1 .. Len(a) - 1 : a[i] = h[Len(h) - Len(a) + 1 + i]
    BY <1>1
  <2>3. QED
    BY <1>1, <1>2a, <1>3, <2>1, <2>2
<1>4. CASE Len(h) = MaxErrors
  <2>1. LastResults(a) = Tail(a)
    BY <1>1, <1>4 DEF LastResults
  <2>0. g = Tail(a)
    BY <1>2a, <2>1
  <2>2. /\ Len(g) = MaxErrors
        /\ \A i \in 1 .. MaxErrors - 1 : g[i] = h[i + 1]
    BY <1>1, <1>2, <1>4, <2>0
  <2>3. MaxErrors > 0 => g[MaxErrors] = r
    BY <1>1, <1>2, <1>4, <2>0
  <2>4. \A i \in 1 .. Len(g) - 1 : g[i] = h[Len(h) - Len(g) + 1 + i]
    BY <1>1, <1>4, <2>2
  <2>5. QED
    BY <1>1, <1>4, <2>2, <2>3, <2>4
<1>5. QED
  BY <1>1, <1>3, <1>4

\* The types of what Result adds.
LEMMA ResultEffect ==
    ASSUME PolicyTypes, NEW d \in Bridges, Len(results[d]) <= MaxErrors,
           NEW ok \in BOOLEAN, Result(d, ok)
    PROVE  /\ results' \in [Bridges -> Seq([ok : BOOLEAN, rested : BOOLEAN])]
           /\ \A e \in Bridges : e # d => results'[e] = results[e]
           /\ Extends(results[d], [ok |-> ok, rested |-> Cooling(d)], results'[d])
           /\ Cooling(d) \in BOOLEAN
<1> DEFINE R == [ok : BOOLEAN, rested : BOOLEAN]
           r == [ok |-> ok, rested |-> Cooling(d)]
<1>1. Cooling(d) \in BOOLEAN
  BY DEF Cooling
<1>2. r \in R
  BY <1>1
<1>3. results' = [results EXCEPT ![d] = LastResults(Append(@, r))]
  BY DEF Result
<1> HIDE DEF r, R
<1>4. /\ results \in [Bridges -> Seq(R)] /\ results[d] \in Seq(R)
      /\ Append(results[d], r) \in Seq(R) /\ Append(results[d], r) # <<>>
  <2>1. results[d] \in Seq(R) /\ results \in [Bridges -> Seq(R)]
    BY DEF PolicyTypes, R
  <2>2. QED
    BY <1>2, <2>1, AppendProperties
<1>5. LastResults(Append(results[d], r)) \in Seq(R)
  BY <1>4, HeadTailProperties DEF LastResults
<1>6. results'[d] = LastResults(Append(results[d], r))
  BY <1>3, <1>4
<1>7. Extends(results[d], r, results'[d])
  BY <1>2, <1>4, <1>6, LastResultsEffect
<1>8. QED
  BY <1>1, <1>3, <1>4, <1>5, <1>7 DEF r, R

\* The window of a bridge: what the limiter has let through in the last minute.
LEMMA PassedIsKept ==
    ASSUME PolicyIInv, PolicyStep
    PROVE  (SeenIsPassed /\ RateIsKept)'
<1> SUFFICES ASSUME RateLimit > 0, NEW d \in Bridges
             PROVE  /\ IsFiniteSet(passed'[d]) /\ passed'[d] = Kept(d)'
                    /\ Cardinality(passed'[d]) <= RateLimit
  BY DEF SeenIsPassed, RateIsKept
<1>1. /\ IsFiniteSet(passed[d]) /\ passed[d] = Kept(d) /\ Cardinality(passed[d]) <= RateLimit
      /\ seen \in [Bridges -> SUBSET [at : Nat, by : Routers]]
      /\ passed \in [Bridges -> SUBSET [at : Nat, by : Routers]]
      /\ clock \in Nat /\ Minute \in Nat \ {0} /\ RateLimit \in Nat
      /\ Cardinality(passed[d]) \in Nat
  BY Bounds, FS_CardinalityType DEF PolicyIInv, SeenIsPassed, RateIsKept, PolicyTypes
<1>2. Kept(d) = {p \in seen[d] : p.at > clock - Minute}
      /\ Kept(d)' = {p \in seen'[d] : p.at > clock' - Minute}
  BY DEF Kept, PlacesWithin
<1>3. CASE UNCHANGED <<clock, seen, passed>>
  BY <1>1, <1>2, <1>3
<1>4. ASSUME NEW t \in Routers, AllowRate(t)
      PROVE  /\ IsFiniteSet(passed'[d]) /\ passed'[d] = Kept(d)'
             /\ Cardinality(passed'[d]) <= RateLimit
  <2> DEFINE b == route[t].to
             place == [at |-> clock, by |-> t]
  <2>1. b \in Bridges /\ clock' = clock
    BY <1>4 DEF AllowRate, PolicyIInv, PolicyTypes
  <2>2. CASE b # d
    <3>1. seen'[d] = seen[d] /\ passed'[d] = passed[d]
      BY <1>1, <1>4, <2>1, <2>2 DEF AllowRate
    <3>2. QED
      BY <1>1, <1>2, <2>1, <3>1
  <2>3. CASE b = d /\ WithinRate(d)
    <3>1. seen'[d] = Kept(d) \cup {place} /\ passed'[d] = passed[d] \cup {place}
      BY <1>1, <1>4, <2>1, <2>3 DEF AllowRate
    <3>2. Cardinality(passed[d]) < RateLimit
      BY <1>1, <2>3 DEF WithinRate
    <3>3. place.at = clock /\ clock > clock - Minute
      BY <1>1
    <3>4. passed'[d] = Kept(d)'
      BY <1>1, <1>2, <2>1, <3>1, <3>3
    <3>5. /\ IsFiniteSet(passed[d] \cup {place})
          /\ Cardinality(passed[d] \cup {place}) =
               IF place \in passed[d] THEN Cardinality(passed[d]) ELSE Cardinality(passed[d]) + 1
      BY <1>1, FS_AddElement
    <3>6. QED
      BY <1>1, <3>1, <3>2, <3>4, <3>5
  <2>4. CASE b = d /\ ~WithinRate(d)
    <3>1. seen'[d] = Kept(d) /\ passed'[d] = passed[d]
      BY <1>1, <1>4, <2>1, <2>4 DEF AllowRate
    <3>2. QED
      BY <1>1, <1>2, <2>1, <3>1
  <2>5. QED
    BY <2>2, <2>3, <2>4
<1>5. CASE Tick
  <2>1. clock' = clock + 1 /\ seen' = seen
        /\ passed'[d] = {p \in passed[d] : p.at > clock' - Minute}
    BY <1>5 DEF Tick
  <2>2. \A p \in seen[d] : p.at \in Nat
    BY <1>1
  <2>3. passed'[d] = Kept(d)'
    BY <1>1, <1>2, <2>1, <2>2
  <2>4. passed'[d] \subseteq passed[d]
    BY <2>1
  <2>5. /\ IsFiniteSet(passed'[d]) /\ Cardinality(passed'[d]) <= Cardinality(passed[d])
        /\ Cardinality(passed'[d]) \in Nat
    BY <1>1, <2>4, FS_Subset, FS_CardinalityType
  <2>6. QED
    BY <1>1, <2>3, <2>5
<1>6. ASSUME NEW e \in Bridges, ReadPolicyStatus(e)
      PROVE  /\ IsFiniteSet(passed'[d]) /\ passed'[d] = Kept(d)'
             /\ Cardinality(passed'[d]) <= RateLimit
  <2>1. /\ clock' = clock /\ passed' = passed
        /\ seen'[d] = seen[d] \/ seen'[d] = Kept(d)
    BY <1>1, <1>6 DEF ReadPolicyStatus
  <2>2. QED
    BY <1>1, <1>2, <2>1
<1>7. CASE seen' = [e \in Bridges |-> {}] /\ passed' = [e \in Bridges |-> {}]
  <2>1. IsFiniteSet({}) /\ Cardinality({}) = 0
    BY FS_EmptySet
  <2>2. QED
    BY <1>1, <1>2, <1>7, <2>1
<1>8. ASSUME NEW t \in Routers, AllowCooldown(t) \/ BridgeFails(t) \/ BridgeAnswers(t)
      PROVE  UNCHANGED <<clock, seen, passed>>
  BY <1>8 DEF AllowCooldown, BridgeFails, BridgeAnswers
<1>9. QED
  BY <1>3, <1>4, <1>5, <1>6, <1>7, <1>8 DEF PolicyStep, Route, policyVars

LEMMA OneErrorMore ==
    ASSUME NEW c \in [errors : Nat, until : Nat]
    PROVE  [c EXCEPT !.errors = @ + 1] = [errors |-> c.errors + 1, until |-> c.until]
  OBVIOUS

LEMMA PolicyKeepsTypes ==
    ASSUME PolicyIInv, PolicyStep
    PROVE  PolicyTypes'
<1> USE DEF PolicyTypes, PolicyIInv
<1>1. CASE UNCHANGED policyVars
  BY <1>1 DEF policyVars
<1>2. CASE /\ override' \in Modes \cup {NoMode}
           /\ UNCHANGED <<clock, seen, cooldowns, route, passed, results>>
  BY <1>2
<1>3. ASSUME NEW t \in Turns, StartRoute(t) \/ route' = [route EXCEPT ![t] = NoRoute],
             UNCHANGED <<override, clock, seen, cooldowns, passed, results>>
      PROVE  PolicyTypes'
  <2>1. DestinationFor(ActiveMode) \in Bridges \cup {NoBridge}
    BY DEF DestinationFor
  <2>2. PICK r : /\ route' = [route EXCEPT ![t] = r]
                 /\ r \in [step : {"idle", "skipped", "limit"}, to : Bridges \cup {NoBridge}]
                 /\ r.step = "limit" => r.to \in Bridges
    BY ZenonT(40), <1>3, <2>1 DEF StartRoute, NoRoute
  <2>3. QED
    BY <1>3, <2>2
<1>4. ASSUME NEW t \in Turns, NEW step \in {"limit", "cooldown", "call", "failed", "answered",
                                            "skipped"},
             Moves(t, step), route[t].to \in Bridges
      PROVE  /\ route' \in [Routers ->
                  [step : {"idle", "limit", "cooldown", "call", "failed", "answered", "skipped"},
                   to : Bridges \cup {NoBridge}]]
             /\ \A s \in Routers :
                  route'[s].step \in {"limit", "cooldown", "call"} => route'[s].to \in Bridges
  <2> DEFINE R == [step : {"idle", "limit", "cooldown", "call", "failed", "answered", "skipped"},
                   to : Bridges \cup {NoBridge}]
             r == [route[t] EXCEPT !.step = step]
  <2>1. route \in [Routers -> R] /\ t \in Routers
    BY Bounds
  <2>2. route[t] \in R
    BY <2>1
  <2>3. r \in R /\ r.to \in Bridges
    BY <1>4, <2>2
  <2>4. route' = [route EXCEPT ![t] = r]
    BY <1>4 DEF Moves
  <2> HIDE DEF r, R
  <2>5. /\ route' \in [Routers -> R] /\ route'[t].to \in Bridges
        /\ \A s \in Routers : s # t => route'[s] = route[s]
    BY <2>1, <2>3, <2>4
  <2>6. QED
    BY <2>5 DEF R
<1>5. ASSUME NEW t \in Turns, AllowRate(t)
      PROVE  PolicyTypes'
  <2> DEFINE d == route[t].to
             place == [at |-> clock, by |-> t]
             S == SUBSET [at : Nat, by : Routers]
  <2>1. d \in Bridges
    BY <1>5, Bounds DEF AllowRate
  <2>2. place \in [at : Nat, by : Routers]
    BY Bounds
  <2>3. Kept(d) \in S /\ Kept(d) \cup {place} \in S /\ passed[d] \cup {place} \in S
        /\ seen[d] \in S
    BY <2>1, <2>2 DEF Kept, PlacesWithin
  <2>4. PICK x \in S, y \in S : /\ seen' = [seen EXCEPT ![d] = x]
                                /\ passed' = [passed EXCEPT ![d] = y]
    <3>1. CASE WithinRate(d)
      BY <1>5, <2>1, <2>3, <3>1 DEF AllowRate
    <3>2. CASE ~WithinRate(d)
      <4>1. passed' = [passed EXCEPT ![d] = passed[d]]
        BY <1>5, <3>2 DEF AllowRate
      <4>2. passed[d] \in S /\ seen' = [seen EXCEPT ![d] = Kept(d)]
        BY <1>5, <2>1, <3>2 DEF AllowRate
      <4>3. QED
        BY <2>3, <4>1, <4>2
    <3>3. QED
      BY <3>1, <3>2
  <2>5. seen' \in [Bridges -> S] /\ passed' \in [Bridges -> S]
    BY <2>1, <2>4
  <2>6. UNCHANGED <<override, clock, cooldowns, results>>
    BY <1>5 DEF AllowRate
  <2>7. Moves(t, "cooldown") \/ Moves(t, "skipped")
    BY <1>5 DEF AllowRate
  <2>8. QED
    BY <1>4, <2>1, <2>5, <2>6, <2>7
<1>6. ASSUME NEW t \in Turns, AllowCooldown(t)
      PROVE  PolicyTypes'
  <2>1. route[t].to \in Bridges
    BY <1>6, Bounds DEF AllowCooldown
  <2>2. QED
    BY <1>4, <1>6, <2>1 DEF AllowCooldown
<1>7. ASSUME NEW t \in Turns, BridgeFails(t) \/ BridgeAnswers(t)
      PROVE  PolicyTypes'
  <2> DEFINE d == route[t].to
  <2>1. d \in Bridges
    BY <1>7, Bounds DEF BridgeFails, BridgeAnswers
  <2>2. results' \in [Bridges -> Seq([ok : BOOLEAN, rested : BOOLEAN])]
    BY <1>7, <2>1, ResultEffect DEF BridgeFails, BridgeAnswers, ErrorsAreResults
  <2>3. CooldownAfter(d) \in [errors : Nat, until : Nat]
        /\ AfterSuccess(d) \in [errors : Nat, until : Nat]
    <3>1. cooldowns[d] \in [errors : Nat, until : Nat] /\ clock + Cooldown \in Nat
      BY <2>1, Bounds
    <3>2. [cooldowns[d] EXCEPT !.errors = @ + 1] \in [errors : Nat, until : Nat]
      <4>1. cooldowns[d].errors + 1 \in Nat /\ cooldowns[d].until \in Nat
        BY <3>1
      <4>2. [cooldowns[d] EXCEPT !.errors = @ + 1] =
              [errors |-> cooldowns[d].errors + 1, until |-> cooldowns[d].until]
        BY <3>1, OneErrorMore
      <4>3. QED
        BY <4>1, <4>2
    <3>3. NoCooldown \in [errors : Nat, until : Nat]
          /\ [errors |-> 0, until |-> clock + Cooldown] \in [errors : Nat, until : Nat]
      BY <3>1 DEF NoCooldown
    <3>4. QED
      BY <3>1, <3>2, <3>3 DEF CooldownAfter, AfterSuccess
  <2>4. cooldowns' \in [Bridges -> [errors : Nat, until : Nat]]
    BY <1>7, <2>1, <2>3 DEF BridgeFails, BridgeAnswers
  <2>5. UNCHANGED <<override, clock, seen, passed>>
    BY <1>7 DEF BridgeFails, BridgeAnswers
  <2>6. QED
    BY <1>4, <1>7, <2>1, <2>2, <2>4, <2>5 DEF BridgeFails, BridgeAnswers
<1>8. CASE Tick
  <2>1. clock' \in Nat /\ UNCHANGED <<override, seen, cooldowns, route, results>>
    BY <1>8 DEF Tick
  <2>2. passed' \in [Bridges -> SUBSET [at : Nat, by : Routers]]
    BY <1>8 DEF Tick
  <2>3. QED
    BY <2>1, <2>2
<1>9. ASSUME NEW d \in Bridges, ReadPolicyStatus(d)
      PROVE  PolicyTypes'
  BY <1>9 DEF ReadPolicyStatus, Kept, PlacesWithin
<1>10. CASE /\ override' = NoMode /\ seen' = [d \in Bridges |-> {}]
            /\ cooldowns' = [d \in Bridges |-> NoCooldown]
            /\ passed' = [d \in Bridges |-> {}] /\ results' = [d \in Bridges |-> <<>>]
            /\ UNCHANGED <<clock, route>>
  BY <1>10 DEF NoCooldown
<1>11. QED
  BY <1>1, <1>2, <1>3, <1>5, <1>6, <1>7, <1>8, <1>9, <1>10, Bounds DEF PolicyStep, Route

\* The errors of a bridge with the cooldown c and the history h, at time now.
ErrorsOf(c, h, now) ==
    /\ Len(h) <= MaxErrors /\ c.errors <= Len(h)
    /\ \A i \in Len(h) - c.errors + 1 .. Len(h) : ~h[i].ok /\ ~h[i].rested
    /\ MaxErrors > 0 => c.errors < MaxErrors
    /\ MaxErrors > 0 /\ Cooldown > 0 /\ c.until > now => c.errors = 0
    /\ MaxErrors = 0 \/ Cooldown = 0 => c = NoCooldown

LEMMA ErrorsSplit ==
    /\ ErrorsAreResults <=> \A d \in Bridges : ErrorsOf(cooldowns[d], results[d], clock)
    /\ ErrorsAreResults' <=> \A d \in Bridges : ErrorsOf(cooldowns'[d], results'[d], clock')
<1>1. ErrorsAreResults <=> \A d \in Bridges : ErrorsOf(cooldowns[d], results[d], clock)
  BY DEF ErrorsAreResults, ErrorsOf, Cooling
<1>2. ErrorsAreResults' <=> \A d \in Bridges : ErrorsOf(cooldowns'[d], results'[d], clock')
  BY DEF ErrorsAreResults, ErrorsOf, Cooling
<1>3. QED
  BY <1>1, <1>2

\* A failure that is not counted, or begins a rest, or is counted; a success.
LEMMA ErrorsGoOn ==
    ASSUME NEW now \in Nat, NEW c \in [errors : Nat, until : Nat],
           NEW h, Len(h) \in Nat, NEW e, NEW g, Extends(h, e, g), ErrorsOf(c, h, now)
    PROVE  /\ ErrorsOf(NoCooldown, g, now)
           /\ c.errors = 0 => ErrorsOf(c, g, now)
           /\ MaxErrors > 0 /\ Cooldown > 0 =>
                /\ ErrorsOf([errors |-> 0, until |-> now + Cooldown], g, now)
                /\ ~e.ok /\ ~e.rested /\ ~(c.until > now) /\ c.errors + 1 < MaxErrors =>
                     ErrorsOf([errors |-> c.errors + 1, until |-> c.until], g, now)
                /\ ~e.ok /\ ~e.rested /\ c.errors + 1 >= MaxErrors =>
                     /\ Len(g) = MaxErrors
                     /\ \A i \in 1 .. MaxErrors : ~g[i].ok /\ ~g[i].rested
<1>1. /\ MaxErrors = 0 => Len(g) = 0
      /\ MaxErrors > 0 =>
           /\ Len(g) = IF Len(h) < MaxErrors THEN Len(h) + 1 ELSE MaxErrors
           /\ g[Len(g)] = e
           /\ \A i \in 1 .. Len(g) - 1 : g[i] = h[Len(h) - Len(g) + 1 + i]
  BY DEF Extends
<1>1a. /\ Len(h) \in Nat /\ MaxErrors \in Nat /\ Cooldown \in Nat
      /\ Len(h) <= MaxErrors /\ c.errors <= Len(h) /\ c.errors \in Nat /\ c.until \in Nat
  BY Bounds DEF ErrorsOf
<1> USE <1>1a
<1>2. ErrorsOf(NoCooldown, g, now)
  BY <1>1 DEF ErrorsOf, NoCooldown
<1>3. c.errors = 0 => ErrorsOf(c, g, now)
  BY <1>1 DEF ErrorsOf
<1>4. ASSUME MaxErrors > 0, Cooldown > 0
      PROVE  ErrorsOf([errors |-> 0, until |-> now + Cooldown], g, now)
  BY <1>1, <1>4 DEF ErrorsOf
<1>5. ASSUME MaxErrors > 0, ~e.ok, ~e.rested
      PROVE  /\ Len(g) > c.errors \/ Len(g) = MaxErrors
             /\ \A i \in Len(g) - c.errors .. Len(g) : i >= 1 => ~g[i].ok /\ ~g[i].rested
  <2>1. Len(g) > c.errors \/ Len(g) = MaxErrors
    BY <1>1, <1>5
  <2>2. ASSUME NEW i \in Len(g) - c.errors .. Len(g), i >= 1, i # Len(g)
        PROVE  ~g[i].ok /\ ~g[i].rested
    <3>1. Len(g) \in Nat /\ i \in 1 .. Len(g) - 1
      BY <1>1, <1>5, <2>2
    <3>2. g[i] = h[Len(h) - Len(g) + 1 + i]
      BY <1>1, <1>5, <3>1
    <3>3. Len(h) - Len(g) + 1 + i \in Len(h) - c.errors + 1 .. Len(h)
      BY <1>1, <2>2, <3>1
    <3>4. QED
      BY <3>2, <3>3 DEF ErrorsOf
  <2>3. QED
    BY <1>1, <1>5, <2>1, <2>2
<1>6. ASSUME MaxErrors > 0, Cooldown > 0, ~e.ok, ~e.rested, ~(c.until > now),
             c.errors + 1 < MaxErrors
      PROVE  ErrorsOf([errors |-> c.errors + 1, until |-> c.until], g, now)
  <2>1. c.errors + 1 <= Len(g) /\ Len(g) <= MaxErrors /\ Len(g) \in Nat
    BY <1>1, <1>6
  <2>2. \A i \in Len(g) - (c.errors + 1) + 1 .. Len(g) : ~g[i].ok /\ ~g[i].rested
    BY <1>1, <1>5, <1>6, <2>1
  <2>3. QED
    BY <1>1, <1>6, <2>1, <2>2 DEF ErrorsOf
<1>7. ASSUME MaxErrors > 0, Cooldown > 0, ~e.ok, ~e.rested, c.errors + 1 >= MaxErrors
      PROVE  /\ Len(g) = MaxErrors
             /\ \A i \in 1 .. MaxErrors : ~g[i].ok /\ ~g[i].rested
  <2>1. c.errors < MaxErrors
    BY <1>7 DEF ErrorsOf
  <2>2. c.errors = MaxErrors - 1 /\ Len(g) = MaxErrors
    BY <1>1, <1>7, <2>1
  <2>3. QED
    BY <1>1, <1>5, <1>7, <2>2
<1>8. QED
  BY <1>2, <1>3, <1>4, <1>6, <1>7

LEMMA PolicyKeepsErrors ==
    ASSUME PolicyIInv, PolicyStep
    PROVE  ErrorsAreResults'
<1> DEFINE R == [ok : BOOLEAN, rested : BOOLEAN]
<1>1. /\ \A d \in Bridges : ErrorsOf(cooldowns[d], results[d], clock)
      /\ cooldowns \in [Bridges -> [errors : Nat, until : Nat]]
      /\ results \in [Bridges -> Seq(R)] /\ clock \in Nat
      /\ MaxErrors \in Nat /\ Cooldown \in Nat
      /\ \A d \in Bridges : Len(results[d]) \in Nat /\ Len(results[d]) <= MaxErrors
  BY ErrorsSplit, Bounds DEF PolicyIInv, PolicyTypes, ErrorsOf
<1>2. SUFFICES ASSUME NEW d \in Bridges
               PROVE  ErrorsOf(cooldowns'[d], results'[d], clock')
  BY ErrorsSplit
<1>3. CASE UNCHANGED <<clock, cooldowns, results>>
  BY <1>1, <1>3
<1>4. CASE Tick
  <2>1. clock' = clock + 1 /\ cooldowns' = cooldowns /\ results' = results
    BY <1>4 DEF Tick
  <2>2. cooldowns[d].until \in Nat
    BY <1>1
  <2>3. QED
    BY <1>1, <2>1, <2>2 DEF ErrorsOf
<1>5. ASSUME NEW t \in Routers, BridgeFails(t) \/ BridgeAnswers(t)
      PROVE  ErrorsOf(cooldowns'[d], results'[d], clock')
  <2> DEFINE b == route[t].to
  <2>1. b \in Bridges /\ clock' = clock
    BY <1>5 DEF BridgeFails, BridgeAnswers, PolicyIInv, PolicyTypes
  <2>2. CASE d # b
    <3>1. cooldowns'[d] = cooldowns[d] /\ results'[d] = results[d]
      BY <1>1, <1>5, <2>1, <2>2, ResultEffect DEF BridgeFails, BridgeAnswers, PolicyIInv
    <3>2. QED
      BY <1>1, <2>1, <3>1
  <2>3. ASSUME d = b, BridgeFails(t)
        PROVE  ErrorsOf(cooldowns'[d], results'[d], clock')
    <3> DEFINE e == [ok |-> FALSE, rested |-> Cooling(d)]
    <3>1. /\ Extends(results[d], e, results'[d])
          /\ cooldowns'[d] = CooldownAfter(d) /\ Cooling(d) \in BOOLEAN
      BY <1>1, <2>1, <2>3, ResultEffect DEF BridgeFails, PolicyIInv
    <3>2. ~e.ok /\ (e.rested <=> Cooling(d))
      BY <3>1
    <3> HIDE DEF e
    <3>3. CASE Cooling(d) \/ MaxErrors = 0 \/ Cooldown = 0
      <4>1. cooldowns[d].errors = 0
        BY <1>1, <3>3 DEF Cooling, ErrorsOf, NoCooldown
      <4>2. cooldowns'[d] = cooldowns[d]
        BY <3>1, <3>3 DEF CooldownAfter
      <4>3. ErrorsOf(cooldowns[d], results'[d], clock)
        BY <1>1, <3>1, <4>1, ErrorsGoOn
      <4>4. QED
        BY <2>1, <3>1, <4>2, <4>3
    <3>4. CASE ~(Cooling(d) \/ MaxErrors = 0 \/ Cooldown = 0)
      <4>1. MaxErrors > 0 /\ Cooldown > 0 /\ ~(cooldowns[d].until > clock)
        BY <1>1, <3>4 DEF Cooling
      <4>2. cooldowns'[d] = IF cooldowns[d].errors + 1 >= MaxErrors
                            THEN [errors |-> 0, until |-> clock + Cooldown]
                            ELSE [errors |-> cooldowns[d].errors + 1, until |-> cooldowns[d].until]
        <5>1. cooldowns[d] \in [errors : Nat, until : Nat]
          BY <1>1
        <5>2. [cooldowns[d] EXCEPT !.errors = @ + 1] =
                [errors |-> cooldowns[d].errors + 1, until |-> cooldowns[d].until]
          BY <5>1
        <5>3. QED
          BY <3>1, <3>4, <5>2 DEF CooldownAfter
      <4>3. CASE cooldowns[d].errors + 1 >= MaxErrors
        <5>1. ErrorsOf([errors |-> 0, until |-> clock + Cooldown], results'[d], clock)
          BY <1>1, <3>1, <4>1, ErrorsGoOn
        <5>2. QED
          BY <2>1, <3>1, <4>2, <4>3, <5>1
      <4>4. CASE ~(cooldowns[d].errors + 1 >= MaxErrors)
        <5>1. cooldowns[d].errors + 1 < MaxErrors
          BY <1>1, <4>4
        <5>2. ErrorsOf([errors |-> cooldowns[d].errors + 1, until |-> cooldowns[d].until],
                       results'[d], clock)
          BY <1>1, <3>1, <3>2, <3>4, <4>1, <5>1, ErrorsGoOn
        <5>3. QED
          BY <2>1, <3>1, <4>2, <4>4, <5>2
      <4>5. QED
        BY <4>3, <4>4
    <3>5. QED
      BY <3>3, <3>4
  <2>4. ASSUME d = b, BridgeAnswers(t)
        PROVE  ErrorsOf(cooldowns'[d], results'[d], clock')
    <3> DEFINE e == [ok |-> TRUE, rested |-> Cooling(d)]
    <3>1. /\ Extends(results[d], e, results'[d])
          /\ cooldowns'[d] = AfterSuccess(d) /\ Cooling(d) \in BOOLEAN
      BY <1>1, <2>1, <2>4, ResultEffect DEF BridgeAnswers, PolicyIInv
    <3>2. cooldowns'[d] = NoCooldown
      BY <1>1, <3>1 DEF AfterSuccess, ErrorsOf
    <3> HIDE DEF e
    <3>3. ErrorsOf(NoCooldown, results'[d], clock)
      BY <1>1, <3>1, ErrorsGoOn
    <3>4. QED
      BY <2>1, <3>1, <3>2, <3>3
  <2>5. QED
    BY <1>5, <2>2, <2>3, <2>4
<1>6. CASE /\ cooldowns' = [b \in Bridges |-> NoCooldown]
           /\ results' = [b \in Bridges |-> <<>>] /\ clock' = clock
  BY <1>1, <1>6 DEF ErrorsOf, NoCooldown
<1>7. ASSUME NEW t \in Routers, AllowRate(t) \/ AllowCooldown(t)
      PROVE  UNCHANGED <<clock, cooldowns, results>>
  BY <1>7 DEF AllowRate, AllowCooldown
<1>8. ASSUME NEW b \in Bridges, ReadPolicyStatus(b)
      PROVE  UNCHANGED <<clock, cooldowns, results>>
  BY <1>8 DEF ReadPolicyStatus
<1>9. QED
  BY <1>3, <1>4, <1>5, <1>6, <1>7, <1>8 DEF PolicyStep, Route, policyVars

LEMMA PolicyInvariant ==
    ASSUME PolicyIInv, PolicyStep
    PROVE  PolicyIInv'
  BY PolicyKeepsTypes, PassedIsKept, PolicyKeepsErrors DEF PolicyIInv

\* A rest begins when the last failure that is counted ends such a history.
LEMMA RestIsEarned ==
    ASSUME PolicyIInv, PolicyStep, NEW d \in Bridges, cooldowns'[d].until > cooldowns[d].until
    PROVE  /\ cooldowns'[d].until = clock + Cooldown
           /\ Len(results'[d]) = MaxErrors
           /\ \A i \in 1 .. MaxErrors : ~results'[d][i].ok /\ ~results'[d][i].rested
<1> DEFINE R == [ok : BOOLEAN, rested : BOOLEAN]
<1>1. /\ ErrorsOf(cooldowns[d], results[d], clock)
      /\ cooldowns \in [Bridges -> [errors : Nat, until : Nat]] /\ cooldowns[d].until \in Nat
      /\ results \in [Bridges -> Seq(R)] /\ clock \in Nat /\ cooldowns[d].errors \in Nat
      /\ MaxErrors \in Nat /\ Cooldown \in Nat
      /\ \A b \in Bridges : Len(results[b]) \in Nat /\ Len(results[b]) <= MaxErrors
  BY ErrorsSplit, Bounds DEF PolicyIInv, PolicyTypes, ErrorsOf
<1>2. cooldowns'[d] # cooldowns[d] /\ cooldowns'[d] # NoCooldown
  BY <1>1 DEF NoCooldown
<1>3. PICK t \in Routers : BridgeFails(t) \/ BridgeAnswers(t)
  BY <1>2 DEF PolicyStep, Route, Tick, AllowRate, AllowCooldown, ReadPolicyStatus, policyVars
<1>4. route[t].to \in Bridges
  BY <1>3 DEF BridgeFails, BridgeAnswers, PolicyIInv, PolicyTypes
<1>5. d = route[t].to /\ BridgeFails(t)
  <2>1. d = route[t].to
    BY <1>1, <1>2, <1>3, <1>4 DEF BridgeFails, BridgeAnswers
  <2>2. ASSUME BridgeAnswers(t)
        PROVE  FALSE
    <3>1. cooldowns'[d] = AfterSuccess(d)
      BY <1>1, <2>1, <2>2 DEF BridgeAnswers
    <3>2. QED
      BY <1>2, <3>1 DEF AfterSuccess
  <2>3. QED
    BY <1>3, <2>1, <2>2
<1>6. /\ cooldowns'[d] = CooldownAfter(d) /\ Cooling(d) \in BOOLEAN
      /\ Extends(results[d], [ok |-> FALSE, rested |-> Cooling(d)], results'[d])
  BY <1>1, <1>5, ResultEffect DEF BridgeFails, PolicyIInv
<1>7. /\ ~Cooling(d) /\ MaxErrors > 0 /\ Cooldown > 0 /\ cooldowns[d].errors + 1 >= MaxErrors
      /\ cooldowns'[d].until = clock + Cooldown
  <2>1. ~Cooling(d) /\ MaxErrors # 0 /\ Cooldown # 0
    BY <1>2, <1>6 DEF CooldownAfter
  <2>2. [cooldowns[d] EXCEPT !.errors = @ + 1].until = cooldowns[d].until
    BY <1>1
  <2>3. cooldowns[d].errors + 1 >= MaxErrors
    BY <1>1, <1>6, <2>1, <2>2 DEF CooldownAfter
  <2>4. QED
    BY <1>1, <1>6, <2>1, <2>3 DEF CooldownAfter
<1>8. /\ Len(results'[d]) = MaxErrors
      /\ \A i \in 1 .. MaxErrors : ~results'[d][i].ok /\ ~results'[d][i].rested
  <2> DEFINE e == [ok |-> FALSE, rested |-> Cooling(d)]
  <2>1. ~e.ok /\ ~e.rested /\ Extends(results[d], e, results'[d])
        /\ cooldowns[d] \in [errors : Nat, until : Nat]
    BY <1>1, <1>6, <1>7
  <2> HIDE DEF e
  <2>2. QED
    BY <1>1, <1>7, <2>1, ErrorsGoOn
<1>9. QED
  BY <1>7, <1>8

-----------------------------------------------------------------------------
TurnRecord ==
    [step : {"none", "resolve", "listening", "route", "bridge", "reply", "spoken",
             "remember", "over", "gone"},
     live : BOOLEAN, owes : BOOLEAN, by : {"nobody", "reader", "pump"},
     profile : Profiles \cup {None}, audio : {"good", "yellow"},
     heard : {"nothing", "text", "command"}, cleared : {"no", "live", "dead"}]

LEMMA ResolvedTypes ==
    ASSUME RouterTypeOK
    PROVE  ActiveProfile \in Profiles /\ Resolved \in Profiles \cup {None}
  BY Bounds DEF RouterTypeOK, ActiveProfile, Resolved

\* The updates of a turn.
LEMMA TurnUpdates ==
    ASSUME NEW r \in TurnRecord
    PROVE  /\ \A b \in BOOLEAN :
                /\ [r EXCEPT !.live = FALSE, !.owes = b] \in TurnRecord
                /\ [r EXCEPT !.step = "gone", !.owes = b] \in TurnRecord
                /\ [r EXCEPT !.owes = b] \in TurnRecord
                /\ [r EXCEPT !.live = b] \in TurnRecord
           /\ \A step \in {"resolve", "listening", "route", "bridge", "reply", "spoken"} :
                /\ [r EXCEPT !.step = step] \in TurnRecord
                /\ \A heard \in {"text", "command"} :
                     [r EXCEPT !.heard = heard, !.step = step] \in TurnRecord
                /\ \A profile \in Profiles :
                     [r EXCEPT !.step = step, !.profile = profile] \in TurnRecord
           /\ [r EXCEPT !.audio = "yellow"] \in TurnRecord
           /\ \A by \in {"nobody", "reader", "pump"} :
                [r EXCEPT !.owes = FALSE, !.by = by] \in TurnRecord
           /\ \A cleared \in {"live", "dead"} :
                [r EXCEPT !.step = "remember", !.cleared = cleared] \in TurnRecord
           /\ [r EXCEPT !.live = FALSE, !.cleared = IF @ = "live" THEN "dead" ELSE @] \in TurnRecord
<1>1. \A b \in BOOLEAN :
        /\ [r EXCEPT !.live = FALSE, !.owes = b] \in TurnRecord
        /\ [r EXCEPT !.step = "gone", !.owes = b] \in TurnRecord
  BY DEF TurnRecord
<1>2. \A b \in BOOLEAN :
        [r EXCEPT !.owes = b] \in TurnRecord /\ [r EXCEPT !.live = b] \in TurnRecord
  BY DEF TurnRecord
<1>3. ASSUME NEW step \in {"resolve", "listening", "route", "bridge", "reply", "spoken"}
      PROVE  /\ [r EXCEPT !.step = step] \in TurnRecord
             /\ \A heard \in {"text", "command"} :
                  [r EXCEPT !.heard = heard, !.step = step] \in TurnRecord
             /\ \A profile \in Profiles :
                  [r EXCEPT !.step = step, !.profile = profile] \in TurnRecord
  <2>1. [r EXCEPT !.step = step] \in TurnRecord
    BY DEF TurnRecord
  <2>2. \A heard \in {"text", "command"} :
          [r EXCEPT !.heard = heard, !.step = step] \in TurnRecord
    BY DEF TurnRecord
  <2>3. \A profile \in Profiles :
          [r EXCEPT !.step = step, !.profile = profile] \in TurnRecord
    BY DEF TurnRecord
  <2>4. QED
    BY <2>1, <2>2, <2>3
<1>4. [r EXCEPT !.audio = "yellow"] \in TurnRecord
  BY DEF TurnRecord
<1>5. \A by \in {"nobody", "reader", "pump"} : [r EXCEPT !.owes = FALSE, !.by = by] \in TurnRecord
  BY DEF TurnRecord
<1>6. \A cleared \in {"live", "dead"} :
        [r EXCEPT !.step = "remember", !.cleared = cleared] \in TurnRecord
  BY DEF TurnRecord
<1>7. [r EXCEPT !.live = FALSE, !.cleared = IF @ = "live" THEN "dead" ELSE @] \in TurnRecord
  BY DEF TurnRecord
<1>8. QED
  BY <1>1, <1>2, <1>3, <1>4, <1>5, <1>6, <1>7

LEMMA PastTypes ==
    ASSUME TurnTypes, NEW t \in Turns, NEW who \in {"reader", "pump"}
    PROVE  Past(t, who) \in TurnRecord /\ By(t, who) \in {"nobody", "reader", "pump"}
<1>1. turn[t] \in TurnRecord
  BY DEF TurnTypes, TurnRecord
<1>2. turn[t].by \in {"nobody", "reader", "pump"} /\ turn[t].owes \in BOOLEAN
  BY <1>1 DEF TurnRecord
<1>3. By(t, who) \in {"nobody", "reader", "pump"}
  BY <1>2 DEF By
<1> DEFINE b == By(t, who)
           o == turn[t].owes
<1>4. Past(t, who) = [NewTurn EXCEPT !.step = "over", !.by = b, !.owes = o]
  BY DEF Past
<1> HIDE DEF b, o
<1>5. [NewTurn EXCEPT !.step = "over", !.by = b, !.owes = o] \in TurnRecord
  BY <1>2, <1>3 DEF NewTurn, TurnRecord, b, o
<1>6. QED
  BY <1>3, <1>4, <1>5 DEF b

LEMMA CancelledTypes ==
    ASSUME TurnTypes
    PROVE  /\ Cancelled \in [Turns -> TurnRecord]
           /\ CloseTurns => turn' \in [Turns -> TurnRecord] /\ active' = 0
           /\ Gone \in [Turns -> TurnRecord]
<1>1. turn \in [Turns -> TurnRecord]
  BY DEF TurnTypes, TurnRecord
<1>2. \A t \in Turns, b \in BOOLEAN :
        /\ [turn[t] EXCEPT !.live = FALSE, !.owes = b] \in TurnRecord
        /\ [turn[t] EXCEPT !.step = "gone", !.owes = b] \in TurnRecord
  BY <1>1, TurnUpdates
<1>3. Cancelled \in [Turns -> TurnRecord]
  BY <1>1, <1>2 DEF Cancelled
<1>4. Gone \in [Turns -> TurnRecord]
  BY <1>1, <1>2 DEF Gone
<1>5. \A t \in Turns :
        [Cancelled[t] EXCEPT !.live = FALSE, !.cleared = IF @ = "live" THEN "dead" ELSE @]
          \in TurnRecord
  BY <1>3, TurnUpdates
<1>6. ASSUME CloseTurns
      PROVE  turn' \in [Turns -> TurnRecord] /\ active' = 0
  <2>1. \A t \in Turns : turn'[t] \in TurnRecord
    BY <1>1, <1>5, <1>6 DEF CloseTurns
  <2>2. QED
    BY <1>6, <2>1 DEF CloseTurns
<1>7. QED
  BY <1>3, <1>4, <1>6

\* A turn at a time, or all of them.
LEMMA OneTurnTypes ==
    ASSUME TurnTypes, NEW t \in Turns, turn'[t] \in TurnRecord,
           turn' = [turn EXCEPT ![t] = turn'[t]], active' \in Turns \cup {0}
    PROVE  TurnTypes'
  BY DEF TurnTypes, TurnRecord

LEMMA TurnTypesKept ==
    ASSUME TurnTypes, RouterTypeOK, [Next]_vars
    PROVE  TurnTypes'
<1>1. turn \in [Turns -> TurnRecord] /\ active \in Turns \cup {0}
  BY DEF TurnTypes, TurnRecord
<1>2. CASE UNCHANGED turnVars
  BY <1>2 DEF turnVars, TurnTypes
<1>3. ASSUME NEW t \in Turns, RecordCut(t) \/ ResolveProviders(t) \/ Hear(t) \/ FirstAudioIsLate(t)
                              \/ CommandMode(t) \/ CommandProfile(t) \/ AskBridge(t)
                              \/ ClearRuntime(t)
      PROVE  TurnTypes'
  <2>0. turn[t] \in TurnRecord
    BY <1>1
  <2>1. turn' = [turn EXCEPT ![t] = turn'[t]] /\ turn'[t] \in TurnRecord
    <3>1. CASE FirstAudioIsLate(t) \/ CommandMode(t) \/ CommandProfile(t) \/ AskBridge(t)
      BY <1>1, <2>0, <3>1, TurnUpdates DEF FirstAudioIsLate, CommandMode, CommandProfile,
         AskBridge, Step
    <3>1a. CASE RecordCut(t)
      <4>1. PICK by \in {"nobody", "reader", "pump"} :
              turn' = [turn EXCEPT ![t].owes = FALSE, ![t].by = by]
        BY <3>1a, PastTypes DEF RecordCut
      <4>2. QED
        BY <1>1, <2>0, <4>1, TurnUpdates
    <3>2. CASE ResolveProviders(t)
      BY <1>1, <2>0, <3>2, TurnUpdates, ResolvedTypes DEF ResolveProviders
    <3>3. CASE Hear(t)
      <4>1. PICK heard \in {"text", "command"}, step \in {"reply", "route"} :
              turn' = [turn EXCEPT ![t].heard = heard, ![t].step = step]
        BY <3>3 DEF Hear
      <4>2. QED
        BY <1>1, <2>0, <4>1, TurnUpdates
    <3>4. CASE ClearRuntime(t)
      <4>1. PICK cleared \in {"live", "dead"} :
              turn' = [turn EXCEPT ![t].step = "remember", ![t].cleared = cleared]
        BY <3>4 DEF ClearRuntime
      <4>2. QED
        BY <1>1, <2>0, <4>1, TurnUpdates
    <3>5. QED
      BY <1>3, <3>1, <3>1a, <3>2, <3>3, <3>4
  <2>2. active' \in Turns \cup {0}
    BY <1>1, <1>3 DEF RecordCut, ResolveProviders, Hear, FirstAudioIsLate,
       CommandMode, CommandProfile, AskBridge, ClearRuntime, Clear
  <2>3. QED
    BY <2>1, <2>2, OneTurnTypes
<1>4. ASSUME NEW t \in Turns, ListenStartFails(t) \/ BridgeReturns(t) \/ PumpFails(t) \/ PumpStops(t)
                              \/ FinishReply(t) \/ RecordTurnComplete(t)
      PROVE  TurnTypes'
  <2>0. turn[t] \in TurnRecord
    BY <1>1
  <2>1. /\ \A who \in {"reader", "pump"}, b \in BOOLEAN :
             /\ [Past(t, who) EXCEPT !.owes = b] \in TurnRecord
             /\ [Past(t, who) EXCEPT !.live = b] \in TurnRecord
        /\ \A s \in {"reply", "spoken"} : [turn[t] EXCEPT !.step = s] \in TurnRecord
    BY <2>0, PastTypes, TurnUpdates
  <2>2. \A error \in BOOLEAN : (feature # "device" \/ (turn[t].live /\ ~error)) \in BOOLEAN
    OBVIOUS
  <2>3. \A error \in BOOLEAN :
          Over(t, error) => turn' = [turn EXCEPT ![t] = turn'[t]] /\ turn'[t] \in TurnRecord
    BY <1>1, <2>1, <2>2 DEF Over
  <2>4. turn' = [turn EXCEPT ![t] = turn'[t]] /\ turn'[t] \in TurnRecord
    BY <1>1, <1>4, <2>1, <2>3 DEF ListenStartFails, BridgeReturns, PumpFails, PumpStops,
       FinishReply, RecordTurnComplete, Step
  <2>5. active' \in Turns \cup {0}
    BY <1>1, <1>4 DEF ListenStartFails, BridgeReturns, PumpFails, PumpStops, FinishReply,
       RecordTurnComplete, Clear
  <2>6. QED
    BY <2>4, <2>5, OneTurnTypes
<1>5. CASE ListenStart
  <2>1. PICK t \in Turns : turn' = [Cancelled EXCEPT ![t].step = "resolve"] /\ active' = t
    BY <1>5 DEF ListenStart
  <2>2. [Cancelled[t] EXCEPT !.step = "resolve"] \in TurnRecord
    BY CancelledTypes DEF TurnRecord
  <2>3. turn' \in [Turns -> TurnRecord]
    BY <2>1, <2>2, CancelledTypes
  <2>4. QED
    BY <2>1, <2>3 DEF TurnTypes, TurnRecord
<1>6. CASE Abort \/ Disconnect \/ CloseAll \/ Exit
  BY <1>6, CancelledTypes DEF Abort, Disconnect, CloseAll, Exit, Vanish, TurnTypes, TurnRecord
<1>7. ASSUME NEW t \in Turns, CallTool(t)
      PROVE  TurnTypes'
  BY <1>7, CancelledTypes DEF CallTool, Vanish, TurnTypes, TurnRecord, turnVars
<1>8. CASE \/ \E t \in Turns : UseDevice(t) \/ WriteMemories(t) \/ RecordConversationTurn(t)
           \/ PutProviderProfile \/ DeleteProviderProfile \/ PutAgentMode
           \/ DeleteAgentMode \/ GetAgentRuntimeStatus \/ WriteMemoryByAdmin \/ CompactGoesOn
           \/ Boot \/ BootDevice \/ CloseResources \/ Start
           \/ DeviceGoesOn \/ ObserveVoiceTurn \/ RouteAgentTurn \/ TimePasses
           \/ UNCHANGED vars
  BY <1>2, <1>8 DEF UseDevice, WriteMemories, RecordConversationTurn, PutProviderProfile,
     DeleteProviderProfile, PutAgentMode, DeleteAgentMode, GetAgentRuntimeStatus,
     WriteMemoryByAdmin, CompactGoesOn, Boot, BootDevice, CloseResources, Start, DeviceGoesOn,
     ObserveVoiceTurn, RouteAgentTurn, TimePasses, Request, vars
<1>9. QED
  BY <1>3, <1>4, <1>5, <1>6, <1>7, <1>8, Cases DEF NextCases

-----------------------------------------------------------------------------
\* What a step of the gateway is for the provider router.
RouterStep ==
    \/ UNCHANGED routerVars
    \/ \E t \in Turns, profile \in Profiles, outcome \in Outcomes :
         /\ obs[t] = Idle /\ StartObservation(t, profile, outcome)
         /\ UNCHANGED <<manual, auto, streak, counted>>
    \/ \E p \in Profiles : SetDeviceProfile(p)
    \/ ClearDeviceProfile
    \/ Observe
    \/ obs = [t \in Turns |-> Idle] /\ RouterInit'

\* The gateway starts an observation of a turn that nobody has recorded.
LEMMA RecordsObserve ==
    ASSUME TurnTypes, RouterTypeOK, ObservedOnce, NEW t \in Turns, NEW error \in BOOLEAN,
           Observes(t, error), UNCHANGED <<manual, auto, streak, counted>>
    PROVE  RouterStep
<1>1. CASE UNCHANGED obs
  BY <1>1 DEF RouterStep, routerVars
<1>2. CASE ~UNCHANGED obs
  <2>1. /\ turn[t].by = "nobody" /\ turn[t].profile # None /\ feature = "profiles"
        /\ StartObservation(t, turn[t].profile, IF error THEN "error" ELSE turn[t].audio)
    BY <1>2 DEF Observes
  <2>2. turn[t] \in TurnRecord
    BY DEF TurnTypes, TurnRecord
  <2>3. /\ turn[t].profile \in Profiles
        /\ (IF error THEN "error" ELSE turn[t].audio) \in Outcomes
    BY <2>1, <2>2 DEF TurnRecord, Outcomes
  <2>4. obs[t] = Idle
    BY <2>1 DEF ObservedOnce
  <2>5. QED
    BY <2>1, <2>3, <2>4 DEF RouterStep
<1>3. QED
  BY <1>1, <1>2

LEMMA RouterSteps ==
    ASSUME TurnTypes, RouterTypeOK, ObservedOnce, ProcessIsStaged, [Next]_vars
    PROVE  RouterStep
<1>1. CASE \/ ListenStart \/ Abort \/ Disconnect
           \/ \E t \in Turns :
                \/ ResolveProviders(t)
                \/ Hear(t) \/ CommandMode(t) \/ AskBridge(t)
                \/ CallTool(t) \/ UseDevice(t) \/ FirstAudioIsLate(t)
                \/ ClearRuntime(t) \/ WriteMemories(t) \/ RecordConversationTurn(t)
           \/ PutAgentMode \/ DeleteAgentMode \/ GetAgentRuntimeStatus
           \/ WriteMemoryByAdmin \/ CompactGoesOn
           \/ Boot \/ BootDevice \/ CloseAll \/ CloseResources \/ Exit
           \/ DeviceGoesOn \/ RouteAgentTurn \/ TimePasses
           \/ UNCHANGED vars
  BY <1>1 DEF ListenStart, Abort, Disconnect, ResolveProviders, Hear, CommandMode, AskBridge,
     CallTool, UseDevice, FirstAudioIsLate, ClearRuntime, WriteMemories,
     RecordConversationTurn, PutAgentMode, DeleteAgentMode, GetAgentRuntimeStatus,
     WriteMemoryByAdmin, CompactGoesOn, Boot, BootDevice, CloseAll, CloseResources, Exit,
     DeviceGoesOn, RouteAgentTurn, TimePasses, vars, RouterStep
<1>2. ASSUME NEW t \in Turns, \/ RecordCut(t) \/ BridgeReturns(t) \/ PumpFails(t) \/ PumpStops(t)
                              \/ FinishReply(t) \/ RecordTurnComplete(t)
      PROVE  RouterStep
  <2>1. UNCHANGED obs \/ \E error \in BOOLEAN : Observes(t, error)
    BY <1>2 DEF RecordCut, BridgeReturns, PumpFails, PumpStops, FinishReply, RecordTurnComplete,
       Over
  <2>2. UNCHANGED <<manual, auto, streak, counted>>
    BY <1>2 DEF RecordCut, BridgeReturns, PumpFails, PumpStops, FinishReply, RecordTurnComplete
  <2>3. CASE UNCHANGED obs
    BY <2>2, <2>3 DEF RouterStep, routerVars
  <2>4. QED
    BY <2>1, <2>2, <2>3, RecordsObserve
<1>3. ASSUME NEW t \in Turns, ListenStartFails(t)
      PROVE  RouterStep
  <2>1. UNCHANGED <<manual, auto, streak, counted>>
    BY <1>3 DEF ListenStartFails
  <2>2. CASE UNCHANGED obs
    BY <2>1, <2>2 DEF RouterStep, routerVars
  <2>3. CASE ~UNCHANGED obs
    <3>1. Resolved # None /\ turn[t].by = "nobody" /\ StartObservation(t, Resolved, "error")
      BY <1>3, <2>3 DEF ListenStartFails
    <3>2. Resolved \in Profiles /\ obs[t] = Idle /\ "error" \in Outcomes
      BY <3>1, ResolvedTypes DEF ObservedOnce, Outcomes
    <3>3. QED
      BY <2>1, <3>1, <3>2 DEF RouterStep
  <2>4. QED
    BY <2>2, <2>3
<1>4. CASE (\E t \in Turns : CommandProfile(t)) \/ PutProviderProfile \/ DeleteProviderProfile
  BY <1>4, GatewayAssumption DEF CommandProfile, PutProviderProfile, DeleteProviderProfile,
     RouterStep, routerVars
<1>5. CASE ObserveVoiceTurn
  BY <1>5 DEF ObserveVoiceTurn, RouterStep
<1>6. CASE Start
  <2>1. feature # "profiles"
    BY <1>6 DEF Start, ProcessIsStaged
  <2>2. \A t \in Turns : obs[t] = Idle
    BY <2>1 DEF ObservedOnce
  <2>3. obs = [t \in Turns |-> Idle]
    BY <2>2, Bounds DEF RouterTypeOK
  <2>4. RouterInit'
    BY <1>6, Bounds DEF Start, RouterInit
  <2>5. QED
    BY <2>3, <2>4 DEF RouterStep
<1>7. QED
  BY <1>1, <1>2, <1>3, <1>4, <1>5, <1>6, Cases DEF NextCases

\* A set of places of a list has a first one.
LEMMA LeastExists ==
    ASSUME NEW S \in SUBSET Nat, S # {}
    PROVE  \E m \in S : \A k \in S : m <= k
<1> DEFINE T == {0 .. n : n \in S}
<1>1. IsWellFoundedOn(StrictSubsetOrdering(Nat), FiniteSubsetsOf(Nat))
  BY FS_StrictSubsetOrderingWellFounded
<1>2. T \subseteq FiniteSubsetsOf(Nat) /\ T # {}
  <2>1. \A n \in S : IsFiniteSet(0 .. n) /\ 0 .. n \in SUBSET Nat
    BY FS_Interval
  <2>2. QED
    BY <2>1 DEF FiniteSubsetsOf
<1> HIDE DEF T
<1>3. PICK x \in T : \A y \in T : ~(<<y, x>> \in StrictSubsetOrdering(Nat))
  BY <1>1, <1>2, WFMin
<1>4. PICK m \in S : x = 0 .. m
  BY <1>3 DEF T
<1>5. \A k \in S : m <= k
  <2>1. SUFFICES ASSUME NEW k \in S, k < m
                 PROVE  FALSE
    OBVIOUS
  <2>2. 0 .. k \in T /\ 0 .. k \subseteq 0 .. m /\ 0 .. k # 0 .. m
    BY <2>1 DEF T
  <2>3. <<0 .. k, 0 .. m>> \in StrictSubsetOrdering(Nat)
    BY <2>2 DEF StrictSubsetOrdering
  <2>4. QED
    BY <1>3, <1>4, <2>2, <2>3
<1>6. QED
  BY <1>5

LEMMA RouterTypesKept ==
    ASSUME RouterTypeOK, RouterStep
    PROVE  RouterTypeOK'
<1> DEFINE O == [step : {"idle", "count", "install", "done"}, profile : Profiles \cup {None},
                 outcome : Outcomes, target : Profiles \cup {None}]
<1>1. /\ obs \in [Observers -> O] /\ Observers = Turns
      /\ manual \in Profiles \cup {None} /\ auto \in Profiles \cup {None}
      /\ streak \in [yellow : Nat, errors : Nat]
  BY Bounds DEF RouterTypeOK
<1>2. Idle \in O /\ [Idle EXCEPT !.step = "done"] \in O /\ NoStreak \in [yellow : Nat, errors : Nat]
  BY DEF Idle, Outcomes, NoStreak
<1>3. CASE UNCHANGED routerVars
  BY <1>1, <1>3 DEF routerVars, RouterTypeOK
<1>4. ASSUME NEW t \in Turns, NEW profile \in Profiles, NEW outcome \in Outcomes,
             StartObservation(t, profile, outcome), UNCHANGED <<manual, auto, streak, counted>>
      PROVE  RouterTypeOK'
  <2>1. [Idle EXCEPT !.step = "count", !.profile = profile, !.outcome = outcome] \in O
    BY DEF Idle
  <2>2. PICK o \in O : obs' = [obs EXCEPT ![t] = o]
    BY <1>2, <1>4, <2>1 DEF StartObservation
  <2>3. obs' \in [Observers -> O]
    BY <1>1, <2>2
  <2>4. QED
    BY <1>1, <1>4, <2>3 DEF RouterTypeOK
<1>5. CASE (\E p \in Profiles : SetDeviceProfile(p)) \/ ClearDeviceProfile
  BY <1>1, <1>2, <1>5 DEF SetDeviceProfile, ClearDeviceProfile, Reset, RouterTypeOK
<1>6. ASSUME NEW t \in Observers, CountOutcome(t)
      PROVE  RouterTypeOK'
  <2> DEFINE o == obs[t].outcome
  <2>1. streak' = StreakAfter(o) /\ UNCHANGED <<manual, auto>>
    BY <1>6 DEF CountOutcome
  <2>2. StreakAfter(o) \in [yellow : Nat, errors : Nat]
    BY <1>1, <1>2 DEF StreakAfter
  <2>3. NextFallback(obs[t].profile) \in Profiles \cup {None}
    <3> DEFINE Others == {i \in DOMAIN Fallbacks : Fallbacks[i] # obs[t].profile}
               k == CHOOSE i \in Others : \A j \in Others : i <= j
    <3>1. CASE Others = {}
      BY <3>1 DEF NextFallback
    <3>2. CASE Others # {} /\ \E i \in Others : \A j \in Others : i <= j
      <4>1. k \in Others
        BY <3>2
      <4>2. QED
        BY <3>2, <4>1, Bounds DEF NextFallback
    <3>3. Others # {} => \E i \in Others : \A j \in Others : i <= j
      BY Bounds, LeastExists
    <3>4. QED
      BY <3>1, <3>2, <3>3
  <2>4. Target(t, StreakAfter(o)) \in Profiles \cup {None}
    BY <2>3 DEF Target
  <2>5. \A x \in Profiles \cup {None} : [obs[t] EXCEPT !.step = "install", !.target = x] \in O
    <3>1. obs[t] \in O
      BY <1>1
    <3>2. \A r \in O, x \in Profiles \cup {None} : [r EXCEPT !.step = "install", !.target = x] \in O
      OBVIOUS
    <3> HIDE DEF O
    <3>3. QED
      BY <3>1, <3>2
  <2>6. PICK x \in O : obs' = [obs EXCEPT ![t] = x]
    BY <1>2, <1>6, <2>4, <2>5 DEF CountOutcome
  <2>7. obs' \in [Observers -> O]
    BY <1>1, <2>6
  <2>8. QED
    BY <1>1, <2>1, <2>2, <2>7 DEF RouterTypeOK
<1>7. ASSUME NEW t \in Observers, InstallFallback(t)
      PROVE  RouterTypeOK'
  <2>1. obs' \in [Observers -> O] /\ auto' \in Profiles \cup {None}
    BY <1>1, <1>2, <1>7 DEF InstallFallback
  <2>2. QED
    BY <1>1, <1>2, <1>7, <2>1 DEF InstallFallback, Reset, RouterTypeOK
<1>8. CASE RouterInit'
  BY <1>2, <1>8 DEF RouterInit, RouterTypeOK
<1>9. QED
  BY <1>3, <1>4, <1>5, <1>6, <1>7, <1>8 DEF RouterStep, Observe

\* A run that an outcome prolongs, and a history cut to what can matter.
LEMMA RunAppend ==
    ASSUME NEW h \in Seq(Outcomes), NEW o \in Outcomes, NEW x \in Outcomes, NEW n \in Nat \ {0}
    PROVE  RunOf(x, n, Append(h, o)) <=> x = o /\ (n = 1 \/ RunOf(x, n - 1, h))
<1> DEFINE a == Append(h, o)
<1>1. /\ Len(a) = Len(h) + 1 /\ a[Len(a)] = o /\ Len(h) \in Nat
      /\ \A i \in 1 .. Len(h) : a[i] = h[i]
  BY AppendProperties
<1> HIDE DEF a
<1>2. ASSUME RunOf(x, n, a)
      PROVE  x = o /\ (n = 1 \/ RunOf(x, n - 1, h))
  <2>1. a[Len(a)] = x
    BY <1>1, <1>2 DEF RunOf
  <2>2. n # 1 => RunOf(x, n - 1, h)
    BY <1>1, <1>2 DEF RunOf
  <2>3. QED
    BY <1>1, <2>1, <2>2
<1>3. ASSUME x = o, n = 1 \/ RunOf(x, n - 1, h)
      PROVE  RunOf(x, n, a)
  BY <1>1, <1>3 DEF RunOf
<1>4. QED
  BY <1>2, <1>3 DEF a

LEMMA RunLast ==
    ASSUME NEW a \in Seq(Outcomes), Len(a) <= Longest + 1, NEW g, g = LastOf(a)
    PROVE  /\ g \in Seq(Outcomes) /\ Len(g) <= Longest
           /\ \A x \in Outcomes, n \in 1 .. Longest : RunOf(x, n, g) <=> RunOf(x, n, a)
<1>0. Len(a) \in Nat /\ Longest \in Nat
  BY Bounds DEF Longest
<1>1. CASE Len(a) <= Longest
  BY <1>1 DEF LastOf
<1>2. CASE Len(a) = Longest + 1
  <2>1. g = SubSeq(a, 2, Longest + 1)
    BY <1>0, <1>2 DEF LastOf
  <2>2. /\ g \in Seq(Outcomes) /\ Len(g) = Longest
        /\ \A i \in 1 .. Longest : g[i] = a[i + 1]
    BY <1>0, <1>2, <2>1, SubSeqProperties
  <2>3. ASSUME NEW x \in Outcomes, NEW n \in 1 .. Longest
        PROVE  RunOf(x, n, g) <=> RunOf(x, n, a)
    <3>1. ASSUME RunOf(x, n, g)
          PROVE  RunOf(x, n, a)
      <4>1. SUFFICES ASSUME NEW i \in Len(a) - n + 1 .. Len(a)
                     PROVE  a[i] = x
        BY <1>0, <1>2 DEF RunOf
      <4>2. i - 1 \in Len(g) - n + 1 .. Len(g) /\ i - 1 \in 1 .. Longest /\ i - 1 + 1 = i
        BY <1>0, <1>2, <2>2
      <4>3. QED
        BY <2>2, <3>1, <4>2 DEF RunOf
    <3>2. ASSUME RunOf(x, n, a)
          PROVE  RunOf(x, n, g)
      <4>0. Len(g) >= n
        BY <1>0, <2>2
      <4>1. SUFFICES ASSUME NEW i \in Len(g) - n + 1 .. Len(g)
                     PROVE  g[i] = x
        BY <4>0, Zenon DEF RunOf
      <4>2. i + 1 \in Len(a) - n + 1 .. Len(a) /\ i \in 1 .. Longest
        BY <1>0, <1>2, <2>2
      <4>3. QED
        BY <2>2, <3>2, <4>2 DEF RunOf
    <3>3. QED
      BY <3>1, <3>2
  <2>4. QED
    BY <2>2, <2>3
<1>3. QED
  BY <1>0, <1>1, <1>2

\* The streak after an outcome is counted.
LEMMA StreakGoesOn ==
    ASSUME RouterTypeOK, StreakIsRun, NEW o \in Outcomes
    PROVE  /\ LastOf(Append(counted, o)) \in Seq(Outcomes)
           /\ Len(LastOf(Append(counted, o))) <= Longest
           /\ \A n \in 1 .. Longest :
                /\ RunOf("error", n, LastOf(Append(counted, o))) <=>
                     RunOf("error", n, Append(counted, o))
                /\ RunOf("yellow", n, LastOf(Append(counted, o))) <=>
                     RunOf("yellow", n, Append(counted, o))
                /\ RunOf("error", n, Append(counted, o)) <=> StreakAfter(o).errors >= n
                /\ RunOf("yellow", n, Append(counted, o)) <=> StreakAfter(o).yellow >= n
<1> DEFINE a == Append(counted, o)
<1>1. /\ counted \in Seq(Outcomes) /\ Len(counted) <= Longest /\ Longest \in Nat
      /\ streak.errors \in Nat /\ streak.yellow \in Nat
      /\ "error" \in Outcomes /\ "yellow" \in Outcomes
  BY Bounds DEF StreakIsRun, RouterTypeOK, Longest, Outcomes
<1>2. a \in Seq(Outcomes) /\ Len(a) <= Longest + 1
  BY <1>1, AppendProperties
<1>3. /\ LastOf(a) \in Seq(Outcomes) /\ Len(LastOf(a)) <= Longest
      /\ \A n \in 1 .. Longest :
           /\ RunOf("error", n, LastOf(a)) <=> RunOf("error", n, a)
           /\ RunOf("yellow", n, LastOf(a)) <=> RunOf("yellow", n, a)
  <2> HIDE DEF a
  <2>1. QED
    BY <1>1, <1>2, RunLast
<1>4. ASSUME NEW n \in 1 .. Longest
      PROVE  /\ RunOf("error", n, a) <=> StreakAfter(o).errors >= n
             /\ RunOf("yellow", n, a) <=> StreakAfter(o).yellow >= n
  <2>1. /\ RunOf("error", n, a) <=> "error" = o /\ (n = 1 \/ RunOf("error", n - 1, counted))
        /\ RunOf("yellow", n, a) <=> "yellow" = o /\ (n = 1 \/ RunOf("yellow", n - 1, counted))
    <3>1. n \in Nat \ {0}
      BY <1>1
    <3>2. QED
      BY <1>1, <3>1, RunAppend
  <2>2. n # 1 => /\ RunOf("error", n - 1, counted) <=> streak.errors >= n - 1
                 /\ RunOf("yellow", n - 1, counted) <=> streak.yellow >= n - 1
    <3>1. n # 1 => n - 1 \in 1 .. Longest
      BY <1>1
    <3>2. QED
      BY <3>1 DEF StreakIsRun
  <2>3. /\ StreakAfter(o).errors = IF o = "error" THEN streak.errors + 1 ELSE 0
        /\ StreakAfter(o).yellow = IF o = "yellow" THEN streak.yellow + 1 ELSE 0
    BY DEF StreakAfter, NoStreak, Outcomes
  <2>4. QED
    BY <1>1, <2>1, <2>2, <2>3
<1>5. QED
  BY <1>3, <1>4

LEMMA StreakKept ==
    ASSUME RouterTypeOK, StreakIsRun, RouterStep
    PROVE  StreakIsRun'
<1>1. CASE UNCHANGED <<streak, counted>>
  BY <1>1 DEF StreakIsRun, RunOf
<1>2. CASE streak' = NoStreak /\ counted' = <<>>
  <2>1. Len(<<>>) = 0 /\ <<>> \in Seq(Outcomes) /\ Longest \in Nat
    BY Bounds DEF Longest
  <2>2. QED
    BY <1>2, <2>1 DEF StreakIsRun, RunOf, NoStreak
<1>3. ASSUME NEW t \in Observers, CountOutcome(t)
      PROVE  StreakIsRun'
  <2>1. obs[t].outcome \in Outcomes
    BY DEF RouterTypeOK
  <2>2. streak' = StreakAfter(obs[t].outcome) /\ counted' = LastOf(Append(counted, obs[t].outcome))
    BY <1>3 DEF CountOutcome
  <2>3. QED
    BY <2>1, <2>2, StreakGoesOn DEF StreakIsRun
<1>4. QED
  BY <1>1, <1>2, <1>3 DEF RouterStep, routerVars, SetDeviceProfile, ClearDeviceProfile, Reset,
     Observe, InstallFallback, RouterInit

\* What FallbackIsEarned says of a step.
LEMMA FallbackStep ==
    ASSUME RouterTypeOK, StreakIsRun, RouterStep, NEW t \in Observers,
           obs[t].step = "count", obs'[t] # obs[t]
    PROVE  obs'[t].step = "install" <=>
             /\ Ran(Append(counted, obs[t].outcome))
             /\ NextFallback(obs[t].profile) \notin Unbuildable \cup {None}
<1>1. CountOutcome(t)
  <2>1. obs[t] # Idle /\ obs # [s \in Turns |-> Idle]
    BY Bounds DEF Idle
  <2>2. ASSUME NEW s \in Observers, s # t, CountOutcome(s) \/ InstallFallback(s)
        PROVE  FALSE
    BY <2>2 DEF CountOutcome, InstallFallback, RouterTypeOK
  <2>3. ~InstallFallback(t)
    BY DEF InstallFallback
  <2>4. ASSUME NEW s \in Turns, NEW profile \in Profiles, NEW outcome \in Outcomes,
               obs[s] = Idle, StartObservation(s, profile, outcome)
        PROVE  FALSE
    BY <2>1, <2>4 DEF StartObservation, RouterTypeOK
  <2>5. QED
    BY <2>1, <2>2, <2>3, <2>4 DEF RouterStep, routerVars, SetDeviceProfile, ClearDeviceProfile,
       Observe
<1> DEFINE o == obs[t].outcome
           next == NextFallback(obs[t].profile)
<1>2. obs'[t].step = "install" <=> Target(t, StreakAfter(o)) # None
  <2>1. obs \in [Observers -> [step : {"idle", "count", "install", "done"},
                               profile : Profiles \cup {None}, outcome : Outcomes,
                               target : Profiles \cup {None}]]
    BY DEF RouterTypeOK
  <2>2. obs'[t] = IF Target(t, StreakAfter(o)) = None THEN [Idle EXCEPT !.step = "done"]
                  ELSE [obs[t] EXCEPT !.step = "install", !.target = Target(t, StreakAfter(o))]
    BY <1>1, <2>1 DEF CountOutcome
  <2>3. QED
    BY <2>1, <2>2 DEF Idle
<1>3. Target(t, StreakAfter(o)) # None <=>
        Exhausted(StreakAfter(o)) /\ next # None /\ next \notin Unbuildable
  BY DEF Target
<1>4. Exhausted(StreakAfter(o)) <=> Ran(Append(counted, o))
  <2>1. ErrorLimit \in 1 .. Longest /\ YellowLimit \in 1 .. Longest /\ o \in Outcomes
    BY Bounds DEF Longest, RouterTypeOK
  <2>2. QED
    BY <2>1, StreakGoesOn DEF Exhausted, Ran
<1>5. QED
  BY <1>2, <1>3, <1>4

-----------------------------------------------------------------------------
LEMMA FeatureStays ==
    [Next]_vars => feature' = feature
<1> SUFFICES ASSUME [Next]_vars PROVE feature' = feature
  OBVIOUS
<1>1. CASE \/ ListenStart \/ Abort \/ Disconnect
           \/ \E t \in Turns :
                \/ RecordCut(t) \/ ResolveProviders(t) \/ ListenStartFails(t)
                \/ Hear(t) \/ CommandMode(t) \/ CommandProfile(t) \/ AskBridge(t)
                \/ BridgeReturns(t) \/ CallTool(t) \/ UseDevice(t) \/ FirstAudioIsLate(t)
                \/ PumpFails(t) \/ PumpStops(t)
                \/ FinishReply(t) \/ ClearRuntime(t) \/ WriteMemories(t)
                \/ RecordConversationTurn(t) \/ RecordTurnComplete(t)
  BY ZenonT(40), <1>1 DEF ListenStart, Abort, Disconnect, RecordCut, ResolveProviders, ListenStartFails,
     Hear, CommandMode, CommandProfile, AskBridge, BridgeReturns, CallTool, UseDevice,
     FirstAudioIsLate, PumpFails, PumpStops, FinishReply, ClearRuntime, WriteMemories,
     RecordConversationTurn, RecordTurnComplete, hostVars
<1>2. CASE \/ PutProviderProfile \/ DeleteProviderProfile \/ PutAgentMode
           \/ DeleteAgentMode \/ GetAgentRuntimeStatus \/ WriteMemoryByAdmin \/ CompactGoesOn
           \/ Boot \/ BootDevice \/ CloseAll \/ CloseResources \/ Exit \/ Start
           \/ DeviceGoesOn \/ ObserveVoiceTurn \/ RouteAgentTurn \/ TimePasses
           \/ UNCHANGED vars
  BY <1>2 DEF PutProviderProfile, DeleteProviderProfile, PutAgentMode, DeleteAgentMode,
     GetAgentRuntimeStatus, WriteMemoryByAdmin, CompactGoesOn, Boot, BootDevice, CloseAll,
     CloseResources, Exit, Start, DeviceGoesOn, ObserveVoiceTurn, RouteAgentTurn, TimePasses,
     Request, vars, hostVars
<1>3. QED
  BY <1>1, <1>2, Cases DEF NextCases

\* The completion of a turn is recorded once.
LEMMA ByStays ==
    ASSUME TurnTypes, [Next]_vars, NEW s \in Turns, turn[s].by # "nobody"
    PROVE  turn'[s].by # "nobody"
<1>1. turn \in [Turns -> TurnRecord]
  BY DEF TurnTypes, TurnRecord
<1>2. CASE UNCHANGED turn
  BY <1>2
<1>3. ASSUME NEW t \in Turns,
             \/ RecordCut(t) \/ ResolveProviders(t) \/ Hear(t) \/ FirstAudioIsLate(t)
             \/ CommandMode(t) \/ CommandProfile(t) \/ AskBridge(t) \/ ClearRuntime(t)
      PROVE  turn'[s].by # "nobody"
  <2>1. turn[s] \in TurnRecord /\ turn[t] \in TurnRecord
    BY <1>1
  <2>2. CASE s # t
    BY <1>1, <1>3, <2>2 DEF RecordCut, ResolveProviders, Hear, FirstAudioIsLate, CommandMode,
       CommandProfile, AskBridge, ClearRuntime, Step
  <2>3. CASE s = t /\ RecordCut(t)
    BY <1>1, <2>1, <2>3 DEF RecordCut, By, TurnRecord
  <2>4. CASE s = t /\ ~RecordCut(t)
    <3>1. CASE CommandMode(t) \/ CommandProfile(t) \/ AskBridge(t)
      BY <1>1, <2>1, <2>4, <3>1 DEF CommandMode, CommandProfile, AskBridge, Step, TurnRecord
    <3>2. CASE ResolveProviders(t)
      BY <1>1, <2>1, <2>4, <3>2 DEF ResolveProviders, TurnRecord
    <3>3. CASE FirstAudioIsLate(t)
      BY <1>1, <2>1, <2>4, <3>3 DEF FirstAudioIsLate, TurnRecord
    <3>4. CASE ClearRuntime(t)
      BY <1>1, <2>1, <2>4, <3>4 DEF ClearRuntime, TurnRecord
    <3>5. CASE Hear(t)
      <4>1. PICK heard, step : turn' = [turn EXCEPT ![t].heard = heard, ![t].step = step]
        BY <3>5 DEF Hear
      <4>2. QED
        BY <1>1, <2>1, <2>4, <4>1 DEF TurnRecord
    <3>6. QED
      BY <1>3, <2>4, <3>1, <3>2, <3>3, <3>4, <3>5
  <2>5. QED
    BY <2>2, <2>3, <2>4
<1>4. ASSUME NEW t \in Turns, \/ ListenStartFails(t) \/ BridgeReturns(t) \/ PumpFails(t)
                              \/ PumpStops(t) \/ FinishReply(t) \/ RecordTurnComplete(t)
      PROVE  turn'[s].by # "nobody"
  <2>1. \A who \in {"reader", "pump"} : Past(s, who).by = By(s, who)
    BY DEF Past, NewTurn
  <2>2. \A who \in {"reader", "pump"} : By(s, who) # "nobody"
    BY DEF By
  <2>3. \A error \in BOOLEAN : Over(t, error) => turn'[s].by \in {turn[s].by, By(s, "pump")}
    BY <1>1, <2>1, PastTypes DEF Over, TurnRecord
  <2>4. turn[s] \in TurnRecord
    BY <1>1
  <2>5. CASE ListenStartFails(t)
    <3>1. s = t => turn'[s].by = By(s, "reader")
      BY <1>1, <2>1, <2>5, PastTypes DEF ListenStartFails, TurnRecord
    <3>2. s # t => turn'[s] = turn[s]
      BY <1>1, <2>5 DEF ListenStartFails
    <3>3. QED
      BY <2>2, <3>1, <3>2
  <2>6. \A step : Step(t, step) => turn'[s].by = turn[s].by
    BY <1>1, <2>4 DEF Step, TurnRecord
  <2>7. \A error \in BOOLEAN : Over(t, error) => turn'[s].by # "nobody"
    BY <2>2, <2>3
  <2>8. QED
    BY <1>4, <2>5, <2>6, <2>7 DEF BridgeReturns, PumpFails, PumpStops, FinishReply,
       RecordTurnComplete
<1>5. /\ Cancelled[s].by = turn[s].by /\ Gone[s].by = turn[s].by
      /\ CloseTurns => turn'[s].by = turn[s].by
      /\ \A t \in Turns : turn' = [Cancelled EXCEPT ![t].step = "resolve"] => turn'[s].by = turn[s].by
  <2>1. Cancelled[s].by = turn[s].by
    BY <1>1 DEF Cancelled, TurnRecord
  <2>2. Gone[s].by = turn[s].by
    BY <1>1 DEF Gone, TurnRecord
  <2>3. \A t \in Turns : turn' = [Cancelled EXCEPT ![t].step = "resolve"] => turn'[s].by = turn[s].by
    BY <2>1, CancelledTypes DEF TurnRecord
  <2>4. CloseTurns => turn'[s].by = turn[s].by
    <3>1. \A r \in TurnRecord :
            [r EXCEPT !.live = FALSE, !.cleared = IF @ = "live" THEN "dead" ELSE @].by = r.by
      BY DEF TurnRecord
    <3>2. QED
      BY <2>1, <3>1, CancelledTypes DEF CloseTurns
  <2>5. QED
    BY <2>1, <2>2, <2>3, <2>4
<1>6. CASE ListenStart \/ Abort \/ Disconnect \/ CloseAll \/ Exit
  BY <1>5, <1>6 DEF ListenStart, Abort, Disconnect, CloseAll, Exit, Vanish
<1>7. ASSUME NEW t \in Turns, CallTool(t)
      PROVE  turn'[s].by # "nobody"
  BY <1>5, <1>7 DEF CallTool, Vanish, turnVars
<1>8. CASE \/ \E t \in Turns : UseDevice(t) \/ WriteMemories(t) \/ RecordConversationTurn(t)
           \/ PutProviderProfile \/ DeleteProviderProfile \/ PutAgentMode
           \/ DeleteAgentMode \/ GetAgentRuntimeStatus \/ WriteMemoryByAdmin \/ CompactGoesOn
           \/ Boot \/ BootDevice \/ CloseResources \/ Start
           \/ DeviceGoesOn \/ ObserveVoiceTurn \/ RouteAgentTurn \/ TimePasses
           \/ UNCHANGED vars
  BY <1>2, <1>8 DEF UseDevice, WriteMemories, RecordConversationTurn, PutProviderProfile,
     DeleteProviderProfile, PutAgentMode, DeleteAgentMode, GetAgentRuntimeStatus,
     WriteMemoryByAdmin, CompactGoesOn, Boot, BootDevice, CloseResources, Start, DeviceGoesOn,
     ObserveVoiceTurn, RouteAgentTurn, TimePasses, Request, vars, turnVars
<1>9. QED
  BY <1>3, <1>4, <1>6, <1>7, <1>8, Cases DEF NextCases

LEMMA ObservedKept ==
    ASSUME TurnTypes, RouterTypeOK, ObservedOnce, ProcessIsStaged, [Next]_vars
    PROVE  ObservedOnce'
<1>1. /\ turn \in [Turns -> TurnRecord] /\ feature' = feature
      /\ \A t \in Turns : turn'[t].by = "nobody" => turn[t].by = "nobody"
  BY FeatureStays, ByStays DEF TurnTypes, TurnRecord
<1>2. CASE UNCHANGED obs
  BY <1>1, <1>2 DEF ObservedOnce
<1>3. ASSUME NEW t \in Turns, NEW profile, NEW outcome, StartObservation(t, profile, outcome),
             feature = "profiles", turn'[t].by # "nobody"
      PROVE  ObservedOnce'
  <2>1. \A s \in Turns : s # t => obs'[s] = obs[s]
    BY <1>3, Bounds DEF StartObservation, RouterTypeOK
  <2>2. QED
    BY <1>1, <1>3, <2>1 DEF ObservedOnce
<1>4. ASSUME NEW t \in Turns, \/ RecordCut(t) \/ BridgeReturns(t) \/ PumpFails(t) \/ PumpStops(t)
                              \/ FinishReply(t) \/ RecordTurnComplete(t)
      PROVE  ObservedOnce'
  <2>1. \/ UNCHANGED obs
        \/ \E error \in BOOLEAN : Over(t, error)
        \/ Observes(t, FALSE) /\ turn' = [turn EXCEPT ![t].owes = FALSE, ![t].by = By(t, "reader")]
    BY <1>4 DEF RecordCut, BridgeReturns, PumpFails, PumpStops, FinishReply, RecordTurnComplete
  <2>2. Past(t, "pump").by = By(t, "pump") /\ By(t, "pump") # "nobody" /\ By(t, "reader") # "nobody"
        /\ Past(t, "pump") \in TurnRecord
    BY PastTypes DEF Past, By, NewTurn
  <2>3. ASSUME NEW error \in BOOLEAN, Over(t, error)
        PROVE  turn'[t].by # "nobody" /\ Observes(t, error)
    BY <1>1, <2>2, <2>3 DEF Over, TurnRecord
  <2>4. ASSUME turn' = [turn EXCEPT ![t].owes = FALSE, ![t].by = By(t, "reader")]
        PROVE  turn'[t].by # "nobody"
    BY <1>1, <2>2, <2>4 DEF TurnRecord
  <2>5. UNCHANGED obs \/ (turn'[t].by # "nobody" /\ \E error \in BOOLEAN : Observes(t, error))
    BY <2>1, <2>3, <2>4
  <2>6. QED
    BY <1>2, <1>3, <2>5 DEF Observes
<1>5. ASSUME NEW t \in Turns, ListenStartFails(t)
      PROVE  ObservedOnce'
  <2>1. Past(t, "reader").by = By(t, "reader") /\ By(t, "reader") # "nobody"
        /\ Past(t, "reader") \in TurnRecord
    BY PastTypes DEF Past, By, NewTurn
  <2>2. turn'[t].by # "nobody"
    BY <1>1, <1>5, <2>1 DEF ListenStartFails, TurnRecord
  <2>3. QED
    BY <1>2, <1>3, <1>5, <2>2 DEF ListenStartFails
<1>6. ASSUME NEW t \in Observers, CountOutcome(t) \/ InstallFallback(t)
      PROVE  ObservedOnce'
  <2>1. obs[t] # Idle /\ \A s \in Turns : s # t => obs'[s] = obs[s]
    BY <1>6, Bounds DEF CountOutcome, InstallFallback, Idle, RouterTypeOK
  <2>2. QED
    BY <1>1, <2>1, Bounds DEF ObservedOnce
<1>7. CASE Start
  BY <1>7 DEF Start, ObservedOnce
<1>8. CASE \/ ListenStart \/ Abort \/ Disconnect
           \/ \E t \in Turns :
                \/ ResolveProviders(t)
                \/ Hear(t) \/ CommandMode(t) \/ CommandProfile(t) \/ AskBridge(t)
                \/ CallTool(t) \/ UseDevice(t) \/ FirstAudioIsLate(t)
                \/ ClearRuntime(t) \/ WriteMemories(t) \/ RecordConversationTurn(t)
           \/ PutProviderProfile \/ DeleteProviderProfile
           \/ PutAgentMode \/ DeleteAgentMode \/ GetAgentRuntimeStatus
           \/ WriteMemoryByAdmin \/ CompactGoesOn
           \/ Boot \/ BootDevice \/ CloseAll \/ CloseResources \/ Exit
           \/ DeviceGoesOn \/ RouteAgentTurn \/ TimePasses
           \/ UNCHANGED vars
  BY <1>2, <1>8 DEF ListenStart, Abort, Disconnect, ResolveProviders, Hear, CommandMode,
     CommandProfile, AskBridge, CallTool, UseDevice, FirstAudioIsLate, ClearRuntime,
     WriteMemories, RecordConversationTurn, PutProviderProfile, DeleteProviderProfile,
     PutAgentMode, DeleteAgentMode, GetAgentRuntimeStatus, WriteMemoryByAdmin, CompactGoesOn,
     Boot, BootDevice, CloseAll, CloseResources, Exit, DeviceGoesOn, RouteAgentTurn,
     TimePasses, vars, routerVars, SetDeviceProfile, ClearDeviceProfile
<1>9. CASE ObserveVoiceTurn
  BY <1>6, <1>9 DEF ObserveVoiceTurn, Observe
<1>10. QED
  BY <1>4, <1>5, <1>7, <1>8, <1>9, Cases DEF NextCases

-----------------------------------------------------------------------------
\* The list r ends the list h.
IsEnd(r, h) ==
    Len(r) <= Len(h) /\ \A i \in 1 .. Len(r) : r[i] = h[Len(h) - Len(r) + i]

LEMMA NewestEnds ==
    ASSUME NEW S, NEW h \in Seq(S), NEW n \in Nat
    PROVE  /\ Newest(h, n) \in Seq(S) /\ IsEnd(Newest(h, n), h)
           /\ Len(Newest(h, n)) = IF Len(h) <= n THEN Len(h) ELSE n
<1>1. Len(h) \in Nat /\ \A i \in 1 .. Len(h) : h[i] \in S
  BY ElementOfSeq
<1>2. CASE Len(h) <= n
  BY <1>1, <1>2 DEF Newest, IsEnd
<1>3. CASE ~(Len(h) <= n)
  <2> DEFINE m == Len(h) - n + 1
             g == SubSeq(h, m, Len(h))
  <2>1. m \in Int /\ \A i \in m .. Len(h) : h[i] \in S
    BY <1>1, <1>3
  <2>2. /\ g \in Seq(S) /\ Len(g) = (IF m <= Len(h) THEN Len(h) - m + 1 ELSE 0)
        /\ \A i \in 1 .. Len(h) - m + 1 : g[i] = h[m + i - 1]
    BY <1>1, <2>1, SubSeqProperties
  <2>3. Newest(h, n) = g
    BY <1>3 DEF Newest
  <2> HIDE DEF g
  <2>4. Len(g) = n
    BY <1>1, <1>3, <2>2
  <2>5. \A i \in 1 .. Len(g) : g[i] = h[Len(h) - Len(g) + i]
    BY <1>1, <2>2, <2>4
  <2>6. QED
    BY <1>1, <1>3, <2>2, <2>3, <2>4, <2>5 DEF IsEnd
<1>4. QED
  BY <1>2, <1>3

LEMMA EndIsNewest ==
    ASSUME NEW S, NEW h \in Seq(S), NEW r \in Seq(S), IsEnd(r, h)
    PROVE  r = Newest(h, Len(r))
<1> DEFINE g == Newest(h, Len(r))
<1>1. Len(r) \in Nat /\ Len(h) \in Nat /\ Len(r) <= Len(h)
  BY DEF IsEnd
<1>2. g \in Seq(S) /\ IsEnd(g, h) /\ Len(g) = Len(r)
  BY <1>1, NewestEnds
<1>3. \A i \in 1 .. Len(r) : r[i] = g[i]
  <2> HIDE DEF g
  <2>1. QED
    BY <1>2 DEF IsEnd
<1>4. r = g
  <2> HIDE DEF g
  <2>1. QED
    BY <1>2, <1>3, SeqEqual
<1>5. QED
  BY <1>4

LEMMA EndOfEnd ==
    ASSUME NEW S, NEW h \in Seq(S), NEW r \in Seq(S), NEW g \in Seq(S), IsEnd(r, h), IsEnd(g, r)
    PROVE  IsEnd(g, h)
<1>1. /\ Len(r) \in Nat /\ Len(h) \in Nat /\ Len(g) \in Nat
      /\ Len(r) <= Len(h) /\ Len(g) <= Len(r)
  BY DEF IsEnd
<1>2. ASSUME NEW i \in 1 .. Len(g)
      PROVE  g[i] = h[Len(h) - Len(g) + i]
  <2>1. g[i] = r[Len(r) - Len(g) + i] /\ Len(r) - Len(g) + i \in 1 .. Len(r)
    BY <1>1 DEF IsEnd
  <2>2. r[Len(r) - Len(g) + i] = h[Len(h) - Len(r) + (Len(r) - Len(g) + i)]
    BY <2>1 DEF IsEnd
  <2>3. Len(h) - Len(r) + (Len(r) - Len(g) + i) = Len(h) - Len(g) + i
    BY <1>1
  <2>4. QED
    BY <2>1, <2>2, <2>3
<1>3. QED
  BY <1>1, <1>2 DEF IsEnd

LEMMA EndGrows ==
    ASSUME NEW S, NEW h \in Seq(S), NEW r \in Seq(S), NEW x \in S, IsEnd(r, h)
    PROVE  /\ IsEnd(Append(r, x), Append(h, x))
           /\ Append(r, x) \in Seq(S) /\ Append(h, x) \in Seq(S)
           /\ Len(Append(r, x)) = Len(r) + 1 /\ Len(Append(h, x)) = Len(h) + 1
<1> DEFINE g == Append(r, x)
           k == Append(h, x)
<1>1. /\ Len(r) \in Nat /\ Len(h) \in Nat /\ Len(r) <= Len(h)
      /\ g \in Seq(S) /\ Len(g) = Len(r) + 1 /\ g[Len(r) + 1] = x
      /\ \A i \in 1 .. Len(r) : g[i] = r[i]
      /\ k \in Seq(S) /\ Len(k) = Len(h) + 1 /\ k[Len(h) + 1] = x
      /\ \A i \in 1 .. Len(h) : k[i] = h[i]
  <2>1. /\ g \in Seq(S) /\ Len(g) = Len(r) + 1 /\ g[Len(r) + 1] = x
        /\ \A i \in 1 .. Len(r) : g[i] = r[i]
    BY AppendProperties
  <2>2. /\ k \in Seq(S) /\ Len(k) = Len(h) + 1 /\ k[Len(h) + 1] = x
        /\ \A i \in 1 .. Len(h) : k[i] = h[i]
    BY AppendProperties
  <2>3. QED
    BY <2>1, <2>2 DEF IsEnd
<1> HIDE DEF g, k
<1>2. ASSUME NEW i \in 1 .. Len(g)
      PROVE  g[i] = k[Len(k) - Len(g) + i]
  <2>1. CASE i = Len(r) + 1
    BY <1>1, <2>1
  <2>2. CASE i # Len(r) + 1
    <3>1. i \in 1 .. Len(r) /\ Len(h) - Len(r) + i \in 1 .. Len(h)
          /\ Len(k) - Len(g) + i = Len(h) - Len(r) + i
      BY <1>1, <2>2
    <3>2. r[i] = h[Len(h) - Len(r) + i]
      BY <3>1 DEF IsEnd
    <3>3. QED
      BY <1>1, <3>1, <3>2
  <2>3. QED
    BY <2>1, <2>2
<1>3. QED
  <2>1. IsEnd(g, k)
    BY <1>1, <1>2 DEF IsEnd
  <2>2. QED
    BY <1>1, <2>1 DEF g, k

\* The recent turns of the invariant.
RecentsEnd(r, h) ==
    IsEnd(r, h) /\ Len(r) >= IF Len(h) < RecentLimit THEN Len(h) ELSE RecentLimit

LEMMA RecentsAgree ==
    /\ MemoryTypes => (RecentsAreLast <=> RecentsEnd(recent, appended))
    /\ MemoryTypes' => (RecentsAreLast' <=> RecentsEnd(recent', appended'))
<1>1. ASSUME NEW r \in Seq(Writers), NEW h \in Seq(Writers)
      PROVE  (/\ Len(r) <= Len(h) /\ r = Newest(h, Len(r))
              /\ Len(r) >= IF Len(h) < RecentLimit THEN Len(h) ELSE RecentLimit)
             <=> RecentsEnd(r, h)
  <2>0. Len(r) \in Nat
    OBVIOUS
  <2>1. IsEnd(r, h) => r = Newest(h, Len(r)) /\ Len(r) <= Len(h)
    BY EndIsNewest DEF IsEnd
  <2>2. r = Newest(h, Len(r)) => IsEnd(r, h)
    BY <2>0, NewestEnds
  <2>3. QED
    BY <2>1, <2>2 DEF RecentsEnd
<1>2. MemoryTypes => (RecentsAreLast <=> RecentsEnd(recent, appended))
  BY <1>1 DEF MemoryTypes, RecentsAreLast
<1>3. MemoryTypes' => (RecentsAreLast' <=> RecentsEnd(recent', appended'))
  BY <1>1 DEF MemoryTypes, RecentsAreLast
<1>4. QED
  BY <1>2, <1>3

LEMMA RecentsFollow ==
    ASSUME MemoryTypes, RecentsAreLast
    PROVE  RecentsAreNewest
<1>1. /\ recent \in Seq(Writers) /\ appended \in Seq(Writers) /\ RecentsEnd(recent, appended)
      /\ Len(recent) \in Nat /\ Len(appended) \in Nat /\ PromptTurns \in Nat /\ RecentLimit \in Nat
  BY RecentsAgree, Bounds DEF MemoryTypes
<1> DEFINE g == Newest(recent, PromptTurns)
           k == Newest(appended, PromptTurns)
<1>2. ASSUME PromptTurns <= RecentLimit
      PROVE  g = k
  <2>1. /\ g \in Seq(Writers) /\ IsEnd(g, recent)
        /\ Len(g) = IF Len(recent) <= PromptTurns THEN Len(recent) ELSE PromptTurns
    BY <1>1, NewestEnds
  <2>2. /\ Len(k) = IF Len(appended) <= PromptTurns THEN Len(appended) ELSE PromptTurns
    BY <1>1, NewestEnds
  <2> HIDE DEF g
  <2>3. IsEnd(g, appended)
    BY <1>1, <2>1, EndOfEnd DEF RecentsEnd
  <2>4. g = Newest(appended, Len(g))
    BY <1>1, <2>1, <2>3, EndIsNewest
  <2>5. Len(g) = PromptTurns \/ (Len(g) = Len(appended) /\ Len(appended) <= PromptTurns)
    BY <1>1, <1>2, <2>1 DEF RecentsEnd, IsEnd
  <2>6. Newest(appended, Len(g)) = k
    BY <1>1, <2>5 DEF Newest
  <2>7. QED
    BY <2>4, <2>6
<1>3. PromptTurns <= RecentLimit => PromptOf.turns = k
  BY <1>2 DEF PromptOf
<1>4. QED
  BY <1>3 DEF RecentsAreNewest, RecentsAreLast

-----------------------------------------------------------------------------
\* What a step of the gateway is for the memory.
MemoryStep ==
    \/ UNCHANGED memoryVars
    \/ /\ \E t \in Turns : \/ \E facts \in ToWrite : writer' = [writer EXCEPT ![t].facts = facts]
                           \/ writer' = [writer EXCEPT ![t] = NothingToWrite]
       /\ \E t \in Turns : written' = written \/ written' = [written EXCEPT ![t] = {}]
       /\ UNCHANGED <<memoryOpen, sqlite, recent, appended>>
    \/ \E t \in Turns, live \in BOOLEAN : WriteFact(t, live)
    \/ \E t \in Turns : AppendRecent(t) \/ AppendFails(t) \/ PruneRecent(t)
    \/ /\ memoryOpen' \in BOOLEAN
       /\ UNCHANGED <<sqlite, recent, writer, written, appended>>
    \/ /\ memoryOpen' \in BOOLEAN /\ ~sqlite /\ recent' = <<>> /\ appended' = <<>>
       /\ UNCHANGED <<sqlite, writer, written>>

LEMMA MemorySteps ==
    ASSUME MemoryTypes, TurnTypes, [Next]_vars
    PROVE  MemoryStep
<1>0. /\ memoryOpen \in BOOLEAN /\ sqlite \in BOOLEAN
      /\ \A t \in Turns : turn[t].live \in BOOLEAN
  BY DEF MemoryTypes, TurnTypes
<1>1. CASE \/ ListenStart \/ Abort \/ Disconnect
           \/ \E t \in Turns :
                \/ RecordCut(t) \/ ResolveProviders(t) \/ ListenStartFails(t)
                \/ Hear(t) \/ CommandMode(t) \/ CommandProfile(t) \/ AskBridge(t)
                \/ BridgeReturns(t) \/ UseDevice(t) \/ FirstAudioIsLate(t)
                \/ PumpFails(t) \/ PumpStops(t) \/ FinishReply(t)
           \/ PutProviderProfile \/ DeleteProviderProfile \/ PutAgentMode
           \/ DeleteAgentMode \/ GetAgentRuntimeStatus
           \/ Boot \/ BootDevice \/ CloseAll
           \/ DeviceGoesOn \/ ObserveVoiceTurn \/ RouteAgentTurn \/ TimePasses
           \/ UNCHANGED vars
  BY <1>1 DEF ListenStart, Abort, Disconnect, RecordCut, ResolveProviders, ListenStartFails,
     Hear, CommandMode, CommandProfile, AskBridge, BridgeReturns, UseDevice, FirstAudioIsLate,
     PumpFails, PumpStops, FinishReply, PutProviderProfile, DeleteProviderProfile, PutAgentMode,
     DeleteAgentMode, GetAgentRuntimeStatus, Boot, BootDevice, CloseAll, DeviceGoesOn,
     ObserveVoiceTurn, RouteAgentTurn, TimePasses, vars, MemoryStep
<1>2. CASE (\E t \in Turns : CallTool(t)) \/ Exit \/ CloseResources
  BY <1>0, <1>2 DEF CallTool, Exit, Vanish, CloseResources, CloseMemory, MemoryStep
<1>3. CASE WriteMemoryByAdmin \/ CompactGoesOn
  BY <1>0, <1>3 DEF WriteMemoryByAdmin, CompactGoesOn, AdminPut, AdminDelete, CompactReads,
     CompactWrites, MemoryStep
<1>4. ASSUME NEW t \in Turns, ClearRuntime(t) \/ RecordTurnComplete(t)
      PROVE  MemoryStep
  <2>1. CASE ClearRuntime(t)
    <3>1. PICK facts \in ToWrite : writer' = [writer EXCEPT ![t].facts = facts]
      BY <2>1 DEF ClearRuntime, ToWrite
    <3>2. QED
      BY <2>1, <3>1 DEF ClearRuntime, MemoryStep
  <2>2. CASE RecordTurnComplete(t)
    BY <2>2 DEF RecordTurnComplete, MemoryStep
  <2>3. QED
    BY <1>4, <2>1, <2>2
<1>5. ASSUME NEW t \in Turns, WriteMemories(t) \/ RecordConversationTurn(t)
      PROVE  MemoryStep
  BY <1>0, <1>5 DEF WriteMemories, RecordConversationTurn, MemoryStep
<1>6. CASE Start
  BY <1>0, <1>6 DEF Start, MemoryStep
<1>7. QED
  BY <1>1, <1>2, <1>3, <1>4, <1>5, <1>6, Cases DEF NextCases

LEMMA MemoryTypesKept ==
    ASSUME MemoryTypes, MemoryStep
    PROVE  MemoryTypes'
<1> DEFINE W == [facts : ToWrite, row : {"none", "inserted", "kept", "lost"}]
<1>1. /\ writer \in [Writers -> W] /\ written \in [Writers -> SUBSET Facts] /\ Writers = Turns
      /\ recent \in Seq(Writers) /\ appended \in Seq(Writers)
      /\ memoryOpen \in BOOLEAN /\ sqlite \in BOOLEAN /\ RecentLimit \in Nat
  BY Bounds DEF MemoryTypes
<1>2. ASSUME NEW t \in Turns, NEW facts \in ToWrite, writer' = [writer EXCEPT ![t].facts = facts]
      PROVE  writer' \in [Writers -> W]
  <2>1. writer[t] \in W
    BY <1>1
  <2>2. [writer[t] EXCEPT !.facts = facts] \in W
    BY <2>1
  <2>3. QED
    BY <1>1, <1>2, <2>2
<1>3. ASSUME NEW t \in Turns, NEW row \in {"none", "inserted", "kept", "lost"},
             writer' = [writer EXCEPT ![t].row = row]
      PROVE  writer' \in [Writers -> W]
  <2>1. writer[t] \in W
    BY <1>1
  <2>2. [writer[t] EXCEPT !.row = row] \in W
    BY <2>1
  <2>3. QED
    BY <1>1, <1>3, <2>2
<1>4. NothingToWrite \in W
  BY DEF NothingToWrite, ToWrite
<1>5. Pruned(recent) \in Seq(Writers)
      /\ \A t \in Turns : /\ Append(recent, t) \in Seq(Writers)
                          /\ Append(appended, t) \in Seq(Writers)
                          /\ Pruned(Append(recent, t)) \in Seq(Writers)
  <2>1. \A s \in Seq(Writers) : Pruned(s) = Newest(s, RecentLimit)
    BY DEF Pruned, Newest
  <2>2. \A s \in Seq(Writers) : Pruned(s) \in Seq(Writers)
    BY <1>1, <2>1, NewestEnds
  <2>3. \A t \in Turns : Append(recent, t) \in Seq(Writers) /\ Append(appended, t) \in Seq(Writers)
    BY <1>1, AppendProperties
  <2>4. QED
    BY <1>1, <2>2, <2>3
<1>6. CASE UNCHANGED memoryVars
  BY <1>6 DEF memoryVars, MemoryTypes
<1>7. CASE /\ \E t \in Turns : \/ \E facts \in ToWrite : writer' = [writer EXCEPT ![t].facts = facts]
                               \/ writer' = [writer EXCEPT ![t] = NothingToWrite]
           /\ \E t \in Turns : written' = written \/ written' = [written EXCEPT ![t] = {}]
           /\ UNCHANGED <<memoryOpen, sqlite, recent, appended>>
  <2>1. writer' \in [Writers -> W]
    BY ZenonT(40), <1>1, <1>2, <1>4, <1>7
  <2>2. written' \in [Writers -> SUBSET Facts]
    BY <1>1, <1>7
  <2>3. QED
    BY <1>1, <1>7, <2>1, <2>2 DEF MemoryTypes
<1>8. ASSUME NEW t \in Turns, NEW live \in BOOLEAN, WriteFact(t, live)
      PROVE  MemoryTypes'
  <2>1. writer[t].facts \in ToWrite /\ writer[t].facts # <<>>
    BY <1>1, <1>8 DEF WriteFact
  <2>2. /\ <<>> \in ToWrite /\ Tail(writer[t].facts) \in ToWrite
        /\ Head(writer[t].facts) \in Facts
    <3>1. Tail(<<"likes">>) = <<>> /\ Tail(<<"name", "likes">>) = <<"likes">>
      OBVIOUS
    <3>2. Head(<<"likes">>) = "likes" /\ Head(<<"name", "likes">>) = "name"
      OBVIOUS
    <3>3. QED
      BY <2>1, <3>1, <3>2 DEF ToWrite, Facts
  <2>3. PICK facts \in ToWrite : writer' = [writer EXCEPT ![t].facts = facts]
    BY <1>8, <2>2 DEF WriteFact
  <2>4. written' \in [Writers -> SUBSET Facts]
    BY SMTT(30), <1>1, <1>8, <2>2 DEF WriteFact
  <2>5. writer' \in [Writers -> W]
    BY <1>2, <2>3
  <2>6. QED
    BY <1>1, <1>8, <2>4, <2>5 DEF WriteFact, MemoryTypes
<1>9. ASSUME NEW t \in Turns, AppendRecent(t) \/ AppendFails(t) \/ PruneRecent(t)
      PROVE  MemoryTypes'
  <2>1. PICK row \in {"none", "inserted", "kept", "lost"} : writer' = [writer EXCEPT ![t].row = row]
    BY <1>9 DEF AppendRecent, AppendFails, PruneRecent
  <2>2. writer' \in [Writers -> W]
    BY <1>3, <2>1
  <2>3. recent' \in Seq(Writers) /\ appended' \in Seq(Writers)
    BY <1>1, <1>5, <1>9 DEF AppendRecent, AppendFails, PruneRecent
  <2>4. QED
    BY <1>1, <1>9, <2>2, <2>3 DEF AppendRecent, AppendFails, PruneRecent, MemoryTypes
<1>10. CASE /\ memoryOpen' \in BOOLEAN
            /\ UNCHANGED <<sqlite, recent, writer, written, appended>>
  BY <1>10 DEF MemoryTypes
<1>11. CASE /\ memoryOpen' \in BOOLEAN /\ ~sqlite /\ recent' = <<>> /\ appended' = <<>>
            /\ UNCHANGED <<sqlite, writer, written>>
  BY <1>11 DEF MemoryTypes
<1>12. QED
  BY <1>6, <1>7, <1>8, <1>9, <1>10, <1>11 DEF MemoryStep

LEMMA RecentsKept ==
    ASSUME MemoryTypes, RecentsAreLast, MemoryStep
    PROVE  RecentsAreLast'
<1>1. /\ recent \in Seq(Writers) /\ appended \in Seq(Writers) /\ RecentsEnd(recent, appended)
      /\ Len(recent) \in Nat /\ Len(appended) \in Nat /\ RecentLimit \in Nat /\ Writers = Turns
  BY RecentsAgree, Bounds DEF MemoryTypes
<1>2. SUFFICES RecentsEnd(recent', appended')
  BY MemoryTypesKept, RecentsAgree
<1>3. CASE UNCHANGED <<recent, appended>>
  BY <1>1, <1>3
<1>4. ASSUME NEW r \in Seq(Writers), NEW h \in Seq(Writers), RecentsEnd(r, h)
      PROVE  RecentsEnd(Pruned(r), h)
  <2> DEFINE g == Pruned(r)
  <2>1. g = Newest(r, RecentLimit) /\ Len(r) \in Nat /\ Len(h) \in Nat
    BY DEF Pruned, Newest
  <2>2. /\ g \in Seq(Writers) /\ IsEnd(g, r)
        /\ Len(g) = IF Len(r) <= RecentLimit THEN Len(r) ELSE RecentLimit
    BY <1>1, <2>1, NewestEnds
  <2> HIDE DEF g
  <2>3. IsEnd(g, h)
    BY <1>4, <2>2, EndOfEnd DEF RecentsEnd
  <2>4. Len(g) >= IF Len(h) < RecentLimit THEN Len(h) ELSE RecentLimit
    BY <1>1, <1>4, <2>1, <2>2 DEF RecentsEnd
  <2>5. RecentsEnd(g, h)
    BY <2>3, <2>4 DEF RecentsEnd
  <2>6. QED
    BY <2>5 DEF g
<1>5. ASSUME NEW t \in Turns, AppendRecent(t)
      PROVE  RecentsEnd(recent', appended')
  <2> DEFINE r == Append(recent, t)
             h == Append(appended, t)
  <2>1. IsEnd(r, h) /\ r \in Seq(Writers) /\ h \in Seq(Writers)
        /\ Len(r) = Len(recent) + 1 /\ Len(h) = Len(appended) + 1
    BY <1>1, EndGrows DEF RecentsEnd
  <2>2. appended' = h /\ (recent' = r \/ recent' = Pruned(r))
    BY <1>5 DEF AppendRecent
  <2> HIDE DEF r, h
  <2>3. RecentsEnd(r, h)
    BY <1>1, <2>1 DEF RecentsEnd
  <2>4. QED
    BY <1>4, <2>1, <2>2, <2>3
<1>6. ASSUME NEW t \in Turns, PruneRecent(t)
      PROVE  RecentsEnd(recent', appended')
  BY <1>1, <1>4, <1>6 DEF PruneRecent
<1>7. CASE recent' = <<>> /\ appended' = <<>>
  BY <1>1, <1>7 DEF RecentsEnd, IsEnd
<1>8. QED
  BY <1>3, <1>5, <1>6, <1>7 DEF MemoryStep, memoryVars, WriteFact, AppendFails

-----------------------------------------------------------------------------
\* What a step of the gateway is for the device.
DeviceStep ==
    \/ UNCHANGED deviceVars
    \/ feature = "device" /\ process = "starting" /\ process' = "serving" /\ LoadSection
    \/ /\ feature = "device" /\ process = "serving" /\ process' = "serving"
       /\ \/ \E t \in Turns : AskModel(t) \/ CallDeviceTool(t) \/ ReportOutcome(t)
          \/ \E p \in Players, current \in BOOLEAN : PlayOn(p, current)
          \/ Discover \/ SendDisplayScene

LEMMA DeviceSteps ==
    ASSUME TurnTypes, ProcessIsStaged, [Next]_vars
    PROVE  DeviceStep
<1>1. CASE \/ ListenStart \/ Abort \/ Disconnect
           \/ \E t \in Turns :
                \/ RecordCut(t) \/ ResolveProviders(t) \/ ListenStartFails(t)
                \/ Hear(t) \/ CommandMode(t) \/ CommandProfile(t) \/ AskBridge(t)
                \/ BridgeReturns(t) \/ CallTool(t) \/ FirstAudioIsLate(t)
                \/ PumpFails(t) \/ PumpStops(t)
                \/ FinishReply(t) \/ ClearRuntime(t) \/ WriteMemories(t)
                \/ RecordConversationTurn(t) \/ RecordTurnComplete(t)
  BY ZenonT(40), <1>1 DEF ListenStart, Abort, Disconnect, RecordCut, ResolveProviders, ListenStartFails,
     Hear, CommandMode, CommandProfile, AskBridge, BridgeReturns, CallTool,
     FirstAudioIsLate, PumpFails, PumpStops, FinishReply, ClearRuntime, WriteMemories,
     RecordConversationTurn, RecordTurnComplete, hostVars, DeviceStep
<1>2. CASE \/ PutProviderProfile \/ DeleteProviderProfile \/ PutAgentMode
           \/ DeleteAgentMode \/ GetAgentRuntimeStatus \/ WriteMemoryByAdmin \/ CompactGoesOn
           \/ Boot \/ CloseAll \/ CloseResources \/ Exit \/ Start
           \/ ObserveVoiceTurn \/ RouteAgentTurn \/ TimePasses
           \/ UNCHANGED vars
  BY <1>2 DEF PutProviderProfile, DeleteProviderProfile, PutAgentMode, DeleteAgentMode,
     GetAgentRuntimeStatus, WriteMemoryByAdmin, CompactGoesOn, Boot, CloseAll,
     CloseResources, Exit, Start, ObserveVoiceTurn, RouteAgentTurn, TimePasses,
     Request, vars, hostVars, DeviceStep
<1>3. CASE BootDevice
  BY <1>3 DEF BootDevice, DeviceStep
<1>4. \A t \in Turns : LastTurn(t) \in BOOLEAN /\ \A x \in {"call"} \cup Triggers : <<t, x>> \in Players
  BY Bounds DEF LastTurn, TurnTypes, Players
<1>5. ASSUME NEW t \in Turns, UseDevice(t)
      PROVE  DeviceStep
  <2>1. /\ feature = "device" /\ process = "serving" /\ process' = "serving"
        /\ \/ AskModel(t) \/ CallDeviceTool(t) \/ ReportOutcome(t)
           \/ PlayOn(<<t, "call">>, LastTurn(t))
    BY <1>5 DEF UseDevice, Open, ProcessIsStaged
  <2>2. QED
    BY <1>4, <2>1 DEF DeviceStep
<1>6. CASE DeviceGoesOn
  <2>1. /\ feature = "device" /\ process = "serving" /\ process' = "serving"
        /\ \/ Discover \/ SendDisplayScene
           \/ \E t \in Turns, trigger \in Triggers : PlayOn(<<t, trigger>>, LastTurn(t))
    BY <1>6 DEF DeviceGoesOn
  <2>2. QED
    BY <1>4, <2>1 DEF DeviceStep
<1>7. QED
  BY <1>1, <1>2, <1>3, <1>5, <1>6, Cases DEF NextCases

LEMMA SectionStays ==
    ASSUME \/ \E t \in Turns : AskModel(t) \/ CallDeviceTool(t) \/ ReportOutcome(t)
           \/ \E p \in Players, current \in BOOLEAN : PlayOn(p, current)
           \/ Discover \/ SendDisplayScene
    PROVE  UNCHANGED <<section, cards, listed>>
<1>1. ASSUME NEW t, AskModel(t) \/ ReportOutcome(t)
      PROVE  UNCHANGED <<section, cards, listed>>
  BY <1>1 DEF AskModel, ReportOutcome
<1>2. \A t, r : Begins(t, r) => UNCHANGED <<section, cards, listed>>
  BY DEF Begins
<1>3. ASSUME NEW t, CallDeviceTool(t)
      PROVE  UNCHANGED <<section, cards, listed>>
  BY <1>2, <1>3 DEF CallDeviceTool, CallExpression, CallSequence, CallCard, CallRaw, CallOther
<1>4. \A p, r : Plays(p, r) => UNCHANGED <<section, cards, listed>>
  BY DEF Plays
<1>5. ASSUME NEW p, NEW current, PlayOn(p, current)
      PROVE  UNCHANGED <<section, cards, listed>>
  BY <1>4, <1>5 DEF PlayOn, PlayMotion, PlayLED, PlayScene, PassGap, PlayCard, PlayOther
<1>6. Discover \/ SendDisplayScene => UNCHANGED <<section, cards, listed>>
  BY DEF Discover, SendDisplayScene
<1>7. QED
  BY <1>1, <1>3, <1>5, <1>6

\* The steps of the process itself.
LEMMA ProcessMoves ==
    ASSUME ProcessIsStaged, [Next]_vars
    PROVE  \/ process' = process
           \/ /\ feature \in {"tools", "memory"} /\ process' = "exited"
              /\ process \in {"serving", "closing", "closed"}
              /\ turn' = Gone
           \/ feature = "tools" /\ process = "starting" /\ process' \in {"serving", "exited", "starting"}
              /\ UNCHANGED <<turn, memoryOpen, sqlite>>
           \/ feature = "device" /\ process = "starting" /\ process' \in {"serving", "exited"}
              /\ UNCHANGED <<turn, memoryOpen, sqlite>> /\ (process' = "serving" => LoadSection)
           \/ feature = "memory" /\ process = "serving" /\ process' = "closing"
              /\ UNCHANGED <<memoryOpen, sqlite>>
           \/ feature = "memory" /\ process = "closing" /\ process' = "closed"
              /\ UNCHANGED <<turn, sqlite>> /\ memoryOpen' = ~sqlite
           \/ /\ feature \in {"tools", "memory"} /\ process = "exited"
              /\ process' = (IF feature = "tools" THEN "starting" ELSE "serving")
              /\ UNCHANGED turn /\ memoryOpen' = TRUE
<1>1. CASE \/ ListenStart \/ Abort \/ Disconnect
           \/ \E t \in Turns :
                \/ RecordCut(t) \/ ResolveProviders(t) \/ ListenStartFails(t)
                \/ Hear(t) \/ CommandMode(t) \/ CommandProfile(t) \/ AskBridge(t)
                \/ BridgeReturns(t) \/ UseDevice(t) \/ FirstAudioIsLate(t)
                \/ PumpFails(t) \/ PumpStops(t)
                \/ FinishReply(t) \/ ClearRuntime(t) \/ WriteMemories(t)
                \/ RecordConversationTurn(t) \/ RecordTurnComplete(t)
           \/ PutProviderProfile \/ DeleteProviderProfile \/ PutAgentMode
           \/ DeleteAgentMode \/ GetAgentRuntimeStatus \/ WriteMemoryByAdmin \/ CompactGoesOn
           \/ DeviceGoesOn \/ ObserveVoiceTurn \/ RouteAgentTurn \/ TimePasses
           \/ UNCHANGED vars
  BY ZenonT(40), <1>1 DEF ListenStart, Abort, Disconnect, RecordCut, ResolveProviders, ListenStartFails,
     Hear, CommandMode, CommandProfile, AskBridge, BridgeReturns, UseDevice, FirstAudioIsLate,
     PumpFails, PumpStops, FinishReply, ClearRuntime, WriteMemories, RecordConversationTurn,
     RecordTurnComplete, PutProviderProfile, DeleteProviderProfile, PutAgentMode,
     DeleteAgentMode, GetAgentRuntimeStatus, WriteMemoryByAdmin, CompactGoesOn, DeviceGoesOn,
     ObserveVoiceTurn, RouteAgentTurn, TimePasses, Request, vars, hostVars
<1>2. ASSUME NEW t \in Turns, CallTool(t)
      PROVE  \/ process' = process
             \/ /\ feature = "tools" /\ process' = "exited"
                /\ process \in {"serving", "closing", "closed"}
                /\ turn' = Gone
  BY <1>2 DEF CallTool, Vanish, Open
<1>3. CASE Exit
  BY <1>3 DEF Exit, Vanish, ProcessIsStaged
<1>4. CASE Boot
  BY <1>4 DEF Boot, memoryVars, turnVars
<1>5. CASE BootDevice
  BY <1>5 DEF BootDevice, memoryVars, turnVars
<1>6. CASE CloseAll
  BY <1>6 DEF CloseAll, memoryVars
<1>7. CASE CloseResources
  BY <1>7 DEF CloseResources, CloseMemory, turnVars, ProcessIsStaged
<1>8. CASE Start
  BY <1>8, Bounds DEF Start, ProcessIsStaged, turnVars
<1>9. QED
  BY <1>1, <1>2, <1>3, <1>4, <1>5, <1>6, <1>7, <1>8, Cases DEF NextCases

\* While the process has no sessions, turns do not move.
LEMMA NoTurnMoves ==
    ASSUME ProcessIsStaged, [Next]_vars, process \in {"starting", "exited"}
    PROVE  UNCHANGED turn
<1>0. process \notin {"serving", "closing"} /\ \A t \in Turns : ~Open(t)
  BY DEF Open
<1>1. CASE \/ ListenStart \/ Abort \/ Disconnect
           \/ \E t \in Turns :
                \/ RecordCut(t) \/ ResolveProviders(t) \/ ListenStartFails(t)
                \/ Hear(t) \/ CommandMode(t) \/ CommandProfile(t) \/ AskBridge(t)
                \/ BridgeReturns(t) \/ CallTool(t) \/ UseDevice(t) \/ FirstAudioIsLate(t)
                \/ PumpFails(t) \/ PumpStops(t)
                \/ FinishReply(t) \/ ClearRuntime(t) \/ WriteMemories(t)
                \/ RecordConversationTurn(t) \/ RecordTurnComplete(t)
           \/ DeviceGoesOn \/ CloseAll \/ CloseResources
  BY ZenonT(40), <1>0, <1>1 DEF ListenStart, Abort, Disconnect, RecordCut, ResolveProviders, Resolving,
     ListenStartFails, Hear, CommandMode, CommandProfile, AskBridge, BridgeReturns, CallTool,
     UseDevice, FirstAudioIsLate, PumpFails, PumpStops, FinishReply, ClearRuntime,
     WriteMemories, RecordConversationTurn, RecordTurnComplete, DeviceGoesOn, CloseAll,
     CloseResources
<1>2. CASE \/ PutProviderProfile \/ DeleteProviderProfile \/ PutAgentMode
           \/ DeleteAgentMode \/ GetAgentRuntimeStatus \/ WriteMemoryByAdmin \/ CompactGoesOn
           \/ Boot \/ BootDevice \/ Start
           \/ ObserveVoiceTurn \/ RouteAgentTurn \/ TimePasses
           \/ UNCHANGED vars
  BY <1>2 DEF PutProviderProfile, DeleteProviderProfile, PutAgentMode, DeleteAgentMode,
     GetAgentRuntimeStatus, WriteMemoryByAdmin, CompactGoesOn, Boot, BootDevice, Start,
     ObserveVoiceTurn, RouteAgentTurn, TimePasses, Request, turnVars, vars
<1>3. CASE Exit
  BY <1>3 DEF Exit, ProcessIsStaged
<1>4. QED
  BY <1>1, <1>2, <1>3, Cases DEF NextCases

\* Memory is closed in two ways.
LEMMA MemoryCloses ==
    ASSUME TurnTypes, MemoryTypes, ProcessIsStaged, [Next]_vars
    PROVE  /\ sqlite' = sqlite
           /\ memoryOpen' # memoryOpen =>
                \/ process' = "exited" \/ Start \/ CloseResources
<1>1. sqlite' = sqlite
  BY MemorySteps DEF MemoryStep, memoryVars, WriteFact, AppendRecent, AppendFails, PruneRecent
<1>2. CASE \/ ListenStart \/ Abort \/ Disconnect
           \/ \E t \in Turns :
                \/ RecordCut(t) \/ ResolveProviders(t) \/ ListenStartFails(t)
                \/ Hear(t) \/ CommandMode(t) \/ CommandProfile(t) \/ AskBridge(t)
                \/ BridgeReturns(t) \/ UseDevice(t) \/ FirstAudioIsLate(t)
                \/ PumpFails(t) \/ PumpStops(t)
                \/ FinishReply(t) \/ ClearRuntime(t) \/ WriteMemories(t)
                \/ RecordConversationTurn(t) \/ RecordTurnComplete(t)
           \/ PutProviderProfile \/ DeleteProviderProfile \/ PutAgentMode
           \/ DeleteAgentMode \/ GetAgentRuntimeStatus \/ WriteMemoryByAdmin \/ CompactGoesOn
           \/ Boot \/ BootDevice \/ CloseAll
           \/ DeviceGoesOn \/ ObserveVoiceTurn \/ RouteAgentTurn \/ TimePasses
           \/ UNCHANGED vars
  BY ZenonT(40), <1>1, <1>2 DEF ListenStart, Abort, Disconnect, RecordCut, ResolveProviders, ListenStartFails,
     Hear, CommandMode, CommandProfile, AskBridge, BridgeReturns, UseDevice, FirstAudioIsLate,
     PumpFails, PumpStops, FinishReply, ClearRuntime, WriteMemories, WriteFact,
     RecordConversationTurn, AppendRecent, AppendFails, PruneRecent,
     RecordTurnComplete, PutProviderProfile, DeleteProviderProfile, PutAgentMode,
     DeleteAgentMode, GetAgentRuntimeStatus, WriteMemoryByAdmin, AdminPut, AdminDelete,
     CompactReads, CompactGoesOn, CompactWrites, Boot, BootDevice, CloseAll, DeviceGoesOn,
     ObserveVoiceTurn, RouteAgentTurn, TimePasses, memoryVars, vars
<1>3. ASSUME NEW t \in Turns, CallTool(t)
      PROVE  memoryOpen' # memoryOpen => process' = "exited"
  BY <1>3 DEF CallTool, memoryVars
<1>4. CASE Exit
  BY <1>1, <1>4 DEF Exit
<1>5. QED
  BY <1>1, <1>2, <1>3, <1>4, Cases DEF NextCases

LEMMA ProcessKept ==
    ASSUME TurnTypes, MemoryTypes, ProcessIsStaged, [Next]_vars
    PROVE  ProcessIsStaged'
<1>1. feature' = feature /\ feature \in Features /\ Features \subseteq {"profiles", "agents", "memory", "tools", "device"}
  BY FeatureStays, Bounds DEF ProcessIsStaged
<1>2. process' \in CASE feature \in {"profiles", "agents"} -> {"serving"}
                     [] feature = "memory" -> {"serving", "closing", "closed", "exited"}
                     [] OTHER              -> {"starting", "serving", "exited"}
  BY <1>1, ProcessMoves DEF ProcessIsStaged
<1>3. turn' = Gone => Running' = {}
  <2>1. \A t \in Turns : Gone[t].step \in {"none", "over", "gone"}
    BY DEF Gone, TurnTypes
  <2>2. QED
    BY <2>1 DEF Running
<1>4. process' \in {"starting", "exited"} => Running' = {}
  <2>1. process \in {"starting", "exited"} => Running' = {}
    BY NoTurnMoves DEF ProcessIsStaged, Running
  <2>2. process \notin {"starting", "exited"} /\ process' \in {"starting", "exited"} => turn' = Gone
    BY ProcessMoves
  <2>3. QED
    BY <1>3, <2>1, <2>2
<1>5. ~memoryOpen' => sqlite' \/ process' = "exited"
  <2>1. CASE memoryOpen' = memoryOpen
    <3>1. process = "exited" /\ process' # "exited" => memoryOpen' = TRUE
      BY ProcessMoves
    <3>2. QED
      BY <2>1, <3>1, MemoryCloses DEF ProcessIsStaged
  <2>2. CASE memoryOpen' # memoryOpen
    BY <2>2, MemoryCloses DEF Start, CloseResources, CloseMemory, MemoryTypes
  <2>3. QED
    BY <2>1, <2>2
<1>6. feature' = "device" /\ process' = "serving" => SectionIsLoaded'
  <2>1. CASE UNCHANGED deviceVars
    <3>1. SectionIsLoaded' = SectionIsLoaded
      BY <2>1 DEF deviceVars, SectionIsLoaded
    <3>2. feature = "device" /\ process' = "serving" => process = "serving" \/ LoadSection
      BY ProcessMoves
    <3>3. LoadSection => SectionIsLoaded'
      BY DEF LoadSection, SectionIsLoaded, CatalogCards
    <3>4. QED
      BY <1>1, <2>1, <3>1, <3>2, <3>3 DEF ProcessIsStaged
  <2>2. CASE LoadSection
    BY <2>2 DEF LoadSection, SectionIsLoaded, CatalogCards
  <2>3. CASE /\ feature = "device" /\ process = "serving"
             /\ UNCHANGED <<section, cards, listed>>
    <3>1. SectionIsLoaded' = SectionIsLoaded
      BY <2>3 DEF SectionIsLoaded
    <3>2. QED
      BY <2>3, <3>1 DEF ProcessIsStaged
  <2>4. QED
    BY <2>1, <2>2, <2>3, DeviceSteps, SectionStays DEF DeviceStep
<1>7. feature' # "device" \/ process' # "serving" =>
        /\ play' = [p \in Players |-> NoPlay] /\ screens' = <<>> /\ last' = NoCommand
  <2>1. process' # "serving" => process # "serving" \/ feature # "device"
    BY ProcessMoves
  <2>2. QED
    BY <1>1, <2>1, DeviceSteps DEF DeviceStep, deviceVars, LoadSection, ProcessIsStaged
<1>8. QED
  BY <1>1, <1>2, <1>4, <1>5, <1>6, <1>7 DEF ProcessIsStaged

-----------------------------------------------------------------------------
Early == {"none", "resolve", "listening", "route", "bridge", "reply", "spoken"}

\* How turn s may move, but for the end of its reply.
TurnMove(s) ==
    /\ turn'[s].step \in Early =>
         turn[s].step \in Early /\ (turn[s].cleared = "no" => turn'[s].cleared = "no")
    /\ turn'[s].step = "remember" =>
         /\ turn[s].step = "remember" /\ turn'[s].heard = turn[s].heard
         /\ turn[s].cleared # "no" => turn'[s].cleared # "no"
         /\ turn'[s].cleared = "live" =>
              turn[s].cleared = "live" /\ (turn[s].live /\ active # s => turn'[s].live)
         /\ active # s => active' # s

LEMMA TurnMovesAll ==
    ASSUME TurnTypes, NEW s \in Turns,
           \/ turn' = Cancelled \/ turn' = Gone \/ CloseTurns
           \/ \E t \in Turns : /\ turn[t].step = "none" /\ active' = t
                               /\ turn' = [Cancelled EXCEPT ![t].step = "resolve"],
           turn' = Cancelled \/ turn' = Gone => active' = 0
    PROVE  TurnMove(s)
<1>1. /\ turn \in [Turns -> TurnRecord] /\ turn[s] \in TurnRecord
      /\ Cancelled \in [Turns -> TurnRecord]
  BY CancelledTypes DEF TurnTypes, TurnRecord
<1>2. /\ Cancelled[s].step = turn[s].step /\ Cancelled[s].heard = turn[s].heard
      /\ Cancelled[s].cleared = turn[s].cleared
      /\ active # s => Cancelled[s].live = turn[s].live
  BY <1>1 DEF Cancelled, TurnRecord
<1>3. CASE turn' = Cancelled
  BY <1>2, <1>3, Bounds DEF TurnMove
<1>4. CASE turn' = Gone
  <2>1. CASE turn[s].step \in {"none", "over"}
    <3>1. turn'[s] = turn[s]
      BY <1>4, <2>1 DEF Gone
    <3>2. QED
      BY <2>1, <3>1 DEF TurnMove
  <2>2. CASE turn[s].step \notin {"none", "over"}
    <3>1. turn'[s] = [turn[s] EXCEPT !.step = "gone", !.owes = FALSE]
      BY <1>4, <2>2 DEF Gone
    <3>2. turn'[s].step = "gone"
      BY <1>1, <3>1 DEF TurnRecord
    <3>3. QED
      BY <3>2 DEF TurnMove, Early
  <2>3. QED
    BY <2>1, <2>2
<1>5. CASE CloseTurns
  <2>1. active' = 0
    BY <1>5 DEF CloseTurns
  <2>2. CASE turn[s].step = "none"
    BY <1>1, <1>5, <2>2 DEF CloseTurns, TurnMove
  <2>3. CASE turn[s].step # "none"
    <3> DEFINE c == Cancelled[s]
    <3>1. c \in TurnRecord
      BY <1>1
    <3>2. turn'[s] = [c EXCEPT !.live = FALSE, !.cleared = IF @ = "live" THEN "dead" ELSE @]
      BY <1>5, <2>3 DEF CloseTurns
    <3> HIDE DEF c
    <3>3. /\ turn'[s].step = c.step /\ turn'[s].heard = c.heard
          /\ turn'[s].cleared = IF c.cleared = "live" THEN "dead" ELSE c.cleared
      BY <3>1, <3>2 DEF TurnRecord
    <3>4. QED
      BY <1>2, <2>1, <3>3, Bounds DEF TurnMove, c
  <2>4. QED
    BY <2>2, <2>3
<1>6. ASSUME NEW t \in Turns, turn[t].step = "none", active' = t,
             turn' = [Cancelled EXCEPT ![t].step = "resolve"]
      PROVE  TurnMove(s)
  <2>1. CASE s = t
    <3>1. turn'[s].step = "resolve" /\ turn'[s].cleared = turn[s].cleared
      BY <1>1, <1>2, <1>6, <2>1 DEF TurnRecord
    <3>2. QED
      BY <1>6, <2>1, <3>1 DEF TurnMove, Early
  <2>2. CASE s # t
    BY <1>1, <1>2, <1>6, <2>2 DEF TurnMove
  <2>3. QED
    BY <2>1, <2>2
<1>7. QED
  BY <1>3, <1>4, <1>5, <1>6

\* A step of another turn, or one within the reply or out of it.
LEMMA TurnMovesOne ==
    ASSUME TurnTypes, NEW s \in Turns, active' \in {active, 0},
           \/ turn'[s] = turn[s]
           \/ turn[s].step \in Early /\ turn'[s].step \in Early /\ turn'[s].cleared = turn[s].cleared
           \/ turn'[s].step = "over"
           \/ /\ turn'[s].step = turn[s].step /\ turn'[s].heard = turn[s].heard
              /\ turn'[s].cleared = turn[s].cleared /\ turn'[s].live = turn[s].live
    PROVE  TurnMove(s)
  BY Bounds DEF TurnMove, Early

LEMMA TurnMoves ==
    ASSUME TurnTypes, [Next]_vars, NEW s \in Turns
    PROVE  TurnMove(s) \/ ClearRuntime(s)
<1>1. turn \in [Turns -> TurnRecord] /\ turn[s] \in TurnRecord
  BY DEF TurnTypes, TurnRecord
<1>2. CASE UNCHANGED turnVars
  BY <1>2, TurnMovesOne DEF turnVars
<1>3. CASE Abort \/ Disconnect \/ CloseAll \/ Exit \/ ListenStart
  <2>1. CASE CloseTurns
    <3>1. turn' = Cancelled \/ turn' = Gone => active' = 0
      BY <2>1 DEF CloseTurns
    <3>2. QED
      BY <2>1, <3>1, TurnMovesAll
  <2>2. CASE Abort \/ Exit
    <3>1. (turn' = Cancelled \/ turn' = Gone) /\ active' = 0
      BY <2>2 DEF Abort, Exit, Vanish
    <3>2. QED
      BY <3>1, TurnMovesAll
  <2>3. CASE ListenStart
    <3>1. PICK t \in Turns : /\ turn[t].step = "none" /\ active' = t
                             /\ turn' = [Cancelled EXCEPT ![t].step = "resolve"]
      BY <2>3 DEF ListenStart
    <3>2. turn'[t].step = "resolve" /\ Cancelled[t].step = "none" /\ Gone[t].step = "none"
      <4>1. Cancelled \in [Turns -> TurnRecord] /\ turn[t] \in TurnRecord
        BY <1>1, CancelledTypes
      <4>2. turn'[t].step = "resolve"
        BY <3>1, <4>1 DEF TurnRecord
      <4>3. Cancelled[t].step = "none"
        BY <3>1, <4>1 DEF Cancelled, TurnRecord
      <4>4. Gone[t] = turn[t]
        BY <3>1 DEF Gone
      <4>5. QED
        BY <3>1, <4>2, <4>3, <4>4
    <3>3. turn' # Cancelled /\ turn' # Gone
      BY <3>2
    <3>4. QED
      BY <3>1, <3>3, TurnMovesAll
  <2>4. QED
    BY <1>3, <2>1, <2>2, <2>3 DEF Disconnect, CloseAll
<1>4. ASSUME NEW t \in Turns, CallTool(t)
      PROVE  TurnMove(s)
  <2>1. CASE called'.outcome = "panic"
    <3>1. turn' = Gone /\ active' = 0
      BY <1>4, <2>1 DEF CallTool, Vanish
    <3>2. QED
      BY <3>1, TurnMovesAll
  <2>2. CASE called'.outcome # "panic"
    <3>1. UNCHANGED turnVars
      BY <1>4, <2>2 DEF CallTool, turnVars
    <3>2. QED
      BY <3>1, TurnMovesOne DEF turnVars
  <2>3. QED
    BY <2>1, <2>2
<1>5. ASSUME NEW t \in Turns, \/ RecordCut(t) \/ ResolveProviders(t) \/ Hear(t)
                              \/ FirstAudioIsLate(t) \/ CommandMode(t) \/ CommandProfile(t)
                              \/ AskBridge(t)
      PROVE  TurnMove(s)
  <2>1. active' = active
    BY <1>5 DEF RecordCut, ResolveProviders, Hear, FirstAudioIsLate, CommandMode, CommandProfile,
       AskBridge
  <2>2. CASE s # t
    <3>1. turn'[s] = turn[s]
      BY <1>1, <1>5, <2>2 DEF RecordCut, ResolveProviders, Hear, FirstAudioIsLate, CommandMode,
         CommandProfile, AskBridge, Step
    <3>2. QED
      BY <2>1, <3>1, TurnMovesOne
  <2>3. CASE s = t /\ RecordCut(t)
    <3>1. /\ turn'[s].step = turn[s].step /\ turn'[s].heard = turn[s].heard
          /\ turn'[s].cleared = turn[s].cleared /\ turn'[s].live = turn[s].live
      BY <1>1, <2>3 DEF RecordCut, TurnRecord
    <3>2. QED
      BY <2>1, <3>1, TurnMovesOne
  <2>4. CASE s = t /\ ~RecordCut(t)
    <3>1. CASE CommandMode(t) \/ CommandProfile(t) \/ AskBridge(t)
      <4>1. turn[s].step \in Early /\ turn'[s].step \in Early /\ turn'[s].cleared = turn[s].cleared
        BY <1>1, <2>4, <3>1 DEF CommandMode, CommandProfile, AskBridge, Step, TurnRecord, Early
      <4>2. QED
        BY <2>1, <4>1, TurnMovesOne
    <3>2. CASE ResolveProviders(t)
      <4>1. turn[s].step \in Early /\ turn'[s].step \in Early /\ turn'[s].cleared = turn[s].cleared
        BY <1>1, <2>4, <3>2 DEF ResolveProviders, Resolving, TurnRecord, Early
      <4>2. QED
        BY <2>1, <4>1, TurnMovesOne
    <3>3. CASE FirstAudioIsLate(t)
      <4>1. turn[s].step \in Early /\ turn'[s].step \in Early /\ turn'[s].cleared = turn[s].cleared
        BY <1>1, <2>4, <3>3 DEF FirstAudioIsLate, TurnRecord, Early
      <4>2. QED
        BY <2>1, <4>1, TurnMovesOne
    <3>4. CASE Hear(t)
      <4>1. PICK heard \in {"text", "command"}, step \in Early : turn' = [turn EXCEPT ![t].heard = heard, ![t].step = step]
        BY <3>4 DEF Hear, Early
      <4>2. turn[s].step \in Early
        BY <2>4, <3>4 DEF Hear, Early
      <4>3. turn'[s].step \in Early /\ turn'[s].cleared = turn[s].cleared
        BY <1>1, <2>4, <4>1 DEF TurnRecord
      <4>4. QED
        BY <2>1, <4>2, <4>3, TurnMovesOne
    <3>5. QED
      BY <1>5, <2>4, <3>1, <3>2, <3>3, <3>4
  <2>5. QED
    BY <2>2, <2>3, <2>4
<1>6. ASSUME NEW t \in Turns, \/ ListenStartFails(t) \/ BridgeReturns(t) \/ PumpFails(t)
                              \/ PumpStops(t) \/ FinishReply(t) \/ RecordTurnComplete(t)
      PROVE  TurnMove(s)
  <2>1. active' \in {active, 0}
    BY <1>6 DEF ListenStartFails, BridgeReturns, PumpFails, PumpStops, FinishReply,
       RecordTurnComplete, Clear
  <2>2. \/ turn' = [turn EXCEPT ![t] = [Past(t, "reader") EXCEPT !.owes = FALSE]]
        \/ \E error \in BOOLEAN : Over(t, error)
        \/ turn[t].step \in Early /\ \E step \in Early : Step(t, step)
    BY <1>6 DEF ListenStartFails, BridgeReturns, PumpFails, PumpStops, FinishReply,
       RecordTurnComplete, Early
  <2>3. s # t => turn'[s] = turn[s]
    BY <1>1, <2>2 DEF Over, Step
  <2>4. \A who \in {"reader", "pump"}, b \in BOOLEAN :
          /\ [Past(t, who) EXCEPT !.owes = b].step = "over"
          /\ [Past(t, who) EXCEPT !.live = b].step = "over"
    BY DEF Past, NewTurn
  <2>5. \A error \in BOOLEAN : (feature # "device" \/ (turn[t].live /\ ~error)) \in BOOLEAN
    OBVIOUS
  <2>6. \A error \in BOOLEAN : Over(t, error) => turn'[t].step = "over"
    BY <1>1, <2>4, <2>5 DEF Over
  <2>7. \A step \in Early : Step(t, step) => /\ turn'[t].step \in Early
                                             /\ turn'[t].cleared = turn[t].cleared
    BY <1>1 DEF Step, TurnRecord
  <2>8. \/ turn'[t].step = "over"
        \/ turn[t].step \in Early /\ turn'[t].step \in Early /\ turn'[t].cleared = turn[t].cleared
    BY <1>1, <2>2, <2>4, <2>6, <2>7
  <2>9. QED
    BY <2>1, <2>3, <2>8, TurnMovesOne
<1>7. ASSUME NEW t \in Turns, ClearRuntime(t), t # s
      PROVE  TurnMove(s)
  <2>1. active' \in {active, 0} /\ turn'[s] = turn[s]
    BY <1>1, <1>7 DEF ClearRuntime, Clear
  <2>2. QED
    BY <2>1, TurnMovesOne
<1>8. CASE \/ \E t \in Turns : UseDevice(t) \/ WriteMemories(t) \/ RecordConversationTurn(t)
           \/ PutProviderProfile \/ DeleteProviderProfile \/ PutAgentMode
           \/ DeleteAgentMode \/ GetAgentRuntimeStatus \/ WriteMemoryByAdmin \/ CompactGoesOn
           \/ Boot \/ BootDevice \/ CloseResources \/ Start
           \/ DeviceGoesOn \/ ObserveVoiceTurn \/ RouteAgentTurn \/ TimePasses
           \/ UNCHANGED vars
  BY <1>2, <1>8 DEF UseDevice, WriteMemories, RecordConversationTurn, PutProviderProfile,
     DeleteProviderProfile, PutAgentMode, DeleteAgentMode, GetAgentRuntimeStatus,
     WriteMemoryByAdmin, CompactGoesOn, Boot, BootDevice, CloseResources, Start, DeviceGoesOn,
     ObserveVoiceTurn, RouteAgentTurn, TimePasses, Request, vars
<1>9. QED
  BY <1>3, <1>4, <1>5, <1>6, <1>7, <1>8, Cases DEF NextCases

-----------------------------------------------------------------------------
\* WritesAreLast, of turn s.
WritesOf(s) ==
    /\ turn[s].step \in Early =>
         /\ writer[s] = NothingToWrite /\ written[s] = {} /\ TimesOf(appended, s) = {}
         /\ turn[s].cleared = "no"
    /\ turn[s].step = "remember" =>
         /\ turn[s].cleared # "no" /\ active # s
         /\ turn[s].cleared = "live" => turn[s].live
         /\ turn[s].heard # "text" => writer[s].row = "none"
         /\ turn[s].heard = "text" /\ sqlite /\ memoryOpen /\ turn[s].cleared = "live" =>
              written[s] = CASE writer[s].facts = <<>>        -> Facts
                             [] writer[s].facts = <<"likes">> -> {"name"}
                             [] OTHER                         -> {}
         /\ writer[s].row = "none" => TimesOf(appended, s) = {}
         /\ writer[s].row \in {"inserted", "kept"} => \E i \in DOMAIN appended :
              TimesOf(appended, s) = {i}
         /\ writer[s].row = "lost" => ~memoryOpen
         /\ writer[s].row = "kept" /\ memoryOpen => FewRecents

LEMMA WritesSplit ==
    /\ WritesAreLast <=> \A s \in Turns : WritesOf(s)
    /\ WritesAreLast' <=> \A s \in Turns : WritesOf(s)'
  BY DEF WritesAreLast, WritesOf, Early

\* The writers between their insert and their prune.
Inserted == {t \in Writers : writer[t].row = "inserted"}

LEMMA FewStay ==
    ASSUME recent' = recent,
           \A t \in Turns : writer'[t].row = "inserted" <=> writer[t].row = "inserted"
    PROVE  FewRecents => FewRecents'
<1>1. Inserted' = Inserted
  BY Bounds DEF Inserted
<1>2. FewRecents' <=> Len(recent') <= RecentLimit + Cardinality(Inserted')
  BY DEF FewRecents, Inserted
<1>3. FewRecents <=> Len(recent) <= RecentLimit + Cardinality(Inserted)
  BY DEF FewRecents, Inserted
<1>4. QED
  BY <1>1, <1>2, <1>3

\* A turn whose own writes do not move.
LEMMA WritesStay ==
    ASSUME TurnTypes, NEW s \in Turns, WritesOf(s), TurnMove(s), sqlite' = sqlite,
           writer'[s] = writer[s], written'[s] = written[s],
           TimesOf(appended', s) = TimesOf(appended, s),
           memoryOpen' => memoryOpen,
           memoryOpen' /\ FewRecents => FewRecents'
    PROVE  WritesOf(s)'
<1>1. ASSUME turn'[s].step \in Early
      PROVE  /\ writer'[s] = NothingToWrite /\ written'[s] = {} /\ TimesOf(appended', s) = {}
             /\ turn'[s].cleared = "no"
  BY <1>1 DEF WritesOf, TurnMove
<1>2. ASSUME turn'[s].step = "remember"
      PROVE  /\ turn[s].step = "remember" /\ turn'[s].heard = turn[s].heard
             /\ turn'[s].cleared # "no" /\ active' # s
             /\ turn'[s].cleared = "live" => turn'[s].live /\ turn[s].cleared = "live"
  BY <1>2 DEF WritesOf, TurnMove
<1>3. ASSUME turn'[s].step = "remember", NEW i \in DOMAIN appended, TimesOf(appended, s) = {i}
      PROVE  i \in DOMAIN appended' /\ TimesOf(appended', s) = {i}
  <2>1. i \in TimesOf(appended', s)
    BY <1>3
  <2>2. QED
    BY <1>3, <2>1 DEF TimesOf
<1>4. ASSUME turn'[s].step = "remember"
      PROVE  /\ turn'[s].heard # "text" => writer'[s].row = "none"
             /\ turn'[s].heard = "text" /\ sqlite' /\ memoryOpen' /\ turn'[s].cleared = "live" =>
                  written'[s] = CASE writer'[s].facts = <<>>        -> Facts
                                  [] writer'[s].facts = <<"likes">> -> {"name"}
                                  [] OTHER                          -> {}
             /\ writer'[s].row = "none" => TimesOf(appended', s) = {}
             /\ writer'[s].row \in {"inserted", "kept"} => \E i \in DOMAIN appended' :
                  TimesOf(appended', s) = {i}
             /\ writer'[s].row = "lost" => ~memoryOpen'
             /\ writer'[s].row = "kept" /\ memoryOpen' => FewRecents'
  <2>1. /\ turn[s].heard # "text" => writer[s].row = "none"
        /\ turn[s].heard = "text" /\ sqlite /\ memoryOpen /\ turn[s].cleared = "live" =>
             written[s] = CASE writer[s].facts = <<>>        -> Facts
                            [] writer[s].facts = <<"likes">> -> {"name"}
                            [] OTHER                         -> {}
        /\ writer[s].row = "none" => TimesOf(appended, s) = {}
        /\ writer[s].row = "lost" => ~memoryOpen
        /\ writer[s].row = "kept" /\ memoryOpen => FewRecents
    BY <1>2, <1>4 DEF WritesOf
  <2>2. writer[s].row \in {"inserted", "kept"} => \E i \in DOMAIN appended :
          TimesOf(appended, s) = {i}
    BY <1>2, <1>4 DEF WritesOf
  <2>3. writer'[s].row \in {"inserted", "kept"} => \E i \in DOMAIN appended' :
          TimesOf(appended', s) = {i}
    BY <1>3, <1>4, <2>2
  <2>4. QED
    BY <1>2, <1>4, <2>1, <2>3
<1>5. QED
  BY <1>1, <1>2, <1>4 DEF WritesOf

\* clearRuntime opens the writes of a turn.
LEMMA WritesOpen ==
    ASSUME TurnTypes, MemoryTypes, NEW t \in Turns, ClearRuntime(t),
           \A s \in Turns : WritesOf(s), NEW s \in Turns
    PROVE  WritesOf(s)'
<1> DEFINE facts == IF sqlite /\ turn[t].heard = "text" THEN <<"name", "likes">> ELSE <<>>
<1>1. /\ turn \in [Turns -> TurnRecord] /\ turn[t] \in TurnRecord /\ t # 0
      /\ writer \in [Turns -> [facts : ToWrite, row : {"none", "inserted", "kept", "lost"}]]
  BY Bounds DEF TurnTypes, TurnRecord, MemoryTypes
<1>2. /\ turn[t].step = "spoken" /\ active' = (IF active = t THEN 0 ELSE active)
      /\ turn' = [turn EXCEPT ![t].step = "remember",
                              ![t].cleared = IF turn[t].live THEN "live" ELSE "dead"]
      /\ UNCHANGED <<memoryOpen, sqlite, recent, written, appended>>
  BY DEF ClearRuntime, Clear
<1>3. writer' = [writer EXCEPT ![t].facts = facts] /\ facts \in ToWrite
  BY DEF ClearRuntime, ToWrite
<1> HIDE DEF facts
<1>4. CASE s # t
  <2>1. TurnMove(s)
    <3>1. turn'[s] = turn[s] /\ active' \in {active, 0}
      BY <1>1, <1>2, <1>4
    <3>2. QED
      BY <3>1, TurnMovesOne
  <2>2. \A u \in Turns : writer'[u].row = writer[u].row
    BY <1>1, <1>3
  <2>3. writer'[s] = writer[s]
    BY <1>1, <1>3, <1>4
  <2>4. FewRecents => FewRecents'
    BY <1>2, <2>2, FewStay
  <2>5. QED
    BY <1>2, <2>1, <2>3, <2>4, WritesStay
<1>5. CASE s = t
  <2>1. /\ writer[t] = NothingToWrite /\ written[t] = {} /\ TimesOf(appended, t) = {}
    BY <1>2 DEF WritesOf, Early
  <2>2. writer'[t] = [NothingToWrite EXCEPT !.facts = facts]
    BY <1>1, <1>3, <2>1
  <2>3. writer'[t].facts = facts /\ writer'[t].row = "none"
    BY <2>2 DEF NothingToWrite
  <2>4. /\ turn'[t].step = "remember" /\ turn'[t].live = turn[t].live
        /\ turn'[t].cleared = (IF turn[t].live THEN "live" ELSE "dead")
        /\ turn'[t].heard = turn[t].heard
    BY <1>1, <1>2 DEF TurnRecord
  <2>5. turn[t].live \in BOOLEAN /\ active' # t
    BY <1>1, <1>2 DEF TurnRecord
  <2>6. turn'[t].heard = "text" /\ sqlite' => facts = <<"name", "likes">>
    BY <1>2, <2>4 DEF facts
  <2>7. <<"name", "likes">> # <<>> /\ <<"name", "likes">> # <<"likes">>
    OBVIOUS
  <2>8. turn'[t].heard = "text" /\ sqlite' =>
          written'[t] = CASE writer'[t].facts = <<>>        -> Facts
                          [] writer'[t].facts = <<"likes">> -> {"name"}
                          [] OTHER                          -> {}
    BY <1>2, <2>1, <2>3, <2>6, <2>7
  <2>9. TimesOf(appended', t) = {}
    BY <1>2, <2>1
  <2>10. QED
    BY <1>5, <2>3, <2>4, <2>5, <2>8, <2>9 DEF WritesOf, Early
<1>6. QED
  BY <1>4, <1>5

\* A fact is written, or the writes are given up.
LEMMA WritesGoOn ==
    ASSUME TurnTypes, MemoryTypes, NEW t \in Turns, WriteMemories(t),
           \A s \in Turns : WritesOf(s), NEW s \in Turns
    PROVE  WritesOf(s)'
<1>1. /\ turn \in [Turns -> TurnRecord] /\ turn[t] \in TurnRecord
      /\ writer \in [Turns -> [facts : ToWrite, row : {"none", "inserted", "kept", "lost"}]]
      /\ written \in [Turns -> SUBSET Facts]
      /\ turn[t].live \in BOOLEAN /\ memoryOpen \in BOOLEAN
  BY Bounds DEF TurnTypes, TurnRecord, MemoryTypes
<1>2. /\ turn[t].step = "remember" /\ writer[t].facts # <<>>
      /\ UNCHANGED <<memoryOpen, sqlite, recent, appended, turn, active>>
  BY DEF WriteMemories, WriteFact, turnVars
<1>3. /\ writer' = [writer EXCEPT ![t].facts = IF turn[t].live /\ memoryOpen
                                               THEN Tail(writer[t].facts) ELSE <<>>]
      /\ written' = IF turn[t].live /\ memoryOpen
                    THEN [written EXCEPT ![t] = @ \cup {Head(writer[t].facts)}] ELSE written
  BY <1>1 DEF WriteMemories, WriteFact
<1>4. \A u \in Turns : writer'[u].row = writer[u].row
  BY <1>1, <1>3
<1>5. FewRecents => FewRecents'
  BY <1>2, <1>4, FewStay
<1>6. CASE s # t
  <2>1. writer'[s] = writer[s] /\ written'[s] = written[s]
    BY <1>1, <1>3, <1>6
  <2>2. TurnMove(s)
    BY <1>2, TurnMovesOne
  <2>3. QED
    BY <1>2, <1>5, <2>1, <2>2, WritesStay
<1>7. CASE s = t
  <2>1. /\ turn'[t] = turn[t] /\ writer'[t].row = writer[t].row /\ active' = active
        /\ appended' = appended /\ memoryOpen' = memoryOpen /\ sqlite' = sqlite
    BY <1>2, <1>4
  <2>2. ASSUME turn[t].heard = "text", sqlite, memoryOpen, turn[t].cleared = "live"
        PROVE  written'[t] = CASE writer'[t].facts = <<>>        -> Facts
                               [] writer'[t].facts = <<"likes">> -> {"name"}
                               [] OTHER                          -> {}
    <3>1. turn[t].live
      BY <1>2, <2>2 DEF WritesOf
    <3>2. writer[t].facts \in {<<"likes">>, <<"name", "likes">>}
      BY <1>1, <1>2 DEF ToWrite
    <3>3. /\ writer'[t].facts = Tail(writer[t].facts)
          /\ written'[t] = written[t] \cup {Head(writer[t].facts)}
      BY <1>1, <1>3, <2>2, <3>1
    <3>4. written[t] = CASE writer[t].facts = <<>>        -> Facts
                         [] writer[t].facts = <<"likes">> -> {"name"}
                         [] OTHER                         -> {}
      BY <1>2, <2>2 DEF WritesOf
    <3>5. /\ Tail(<<"likes">>) = <<>> /\ Head(<<"likes">>) = "likes"
          /\ Tail(<<"name", "likes">>) = <<"likes">> /\ Head(<<"name", "likes">>) = "name"
          /\ <<"likes">> # <<>> /\ <<"name", "likes">> # <<>> /\ <<"name", "likes">> # <<"likes">>
      OBVIOUS
    <3>6. CASE writer[t].facts = <<"likes">>
      BY <3>3, <3>4, <3>5, <3>6 DEF Facts
    <3>7. CASE writer[t].facts = <<"name", "likes">>
      BY <3>3, <3>4, <3>5, <3>7
    <3>8. QED
      BY <3>2, <3>6, <3>7
  <2>3. /\ turn[t].cleared # "no" /\ active # t
        /\ turn[t].cleared = "live" => turn[t].live
        /\ turn[t].heard # "text" => writer[t].row = "none"
        /\ writer[t].row = "none" => TimesOf(appended, t) = {}
        /\ writer[t].row = "lost" => ~memoryOpen
        /\ writer[t].row = "kept" /\ memoryOpen => FewRecents
    BY <1>2 DEF WritesOf
  <2>4. writer[t].row \in {"inserted", "kept"} => \E i \in DOMAIN appended :
          TimesOf(appended, t) = {i}
    BY <1>2 DEF WritesOf
  <2>5. QED
    BY <1>2, <1>5, <1>7, <2>1, <2>2, <2>3, <2>4 DEF WritesOf, Early
<1>8. QED
  BY <1>6, <1>7

\* A turn is recorded.
LEMMA TimesGrow ==
    ASSUME NEW S, NEW h \in Seq(S), NEW t \in S, NEW s \in S
    PROVE  TimesOf(Append(h, t), s) = IF s = t THEN TimesOf(h, s) \cup {Len(h) + 1}
                                      ELSE TimesOf(h, s)
<1>1. /\ Len(h) \in Nat /\ DOMAIN Append(h, t) = 1 .. Len(h) + 1 /\ DOMAIN h = 1 .. Len(h)
      /\ \A i \in 1 .. Len(h) : Append(h, t)[i] = h[i]
      /\ Append(h, t)[Len(h) + 1] = t
  OBVIOUS
<1>2. TimesOf(h, s) \subseteq 1 .. Len(h)
  BY <1>1 DEF TimesOf
<1>3. \A i : i \in TimesOf(Append(h, t), s) <=> i \in TimesOf(h, s) \/ (i = Len(h) + 1 /\ s = t)
  BY <1>1 DEF TimesOf
<1>4. QED
  BY <1>3

LEMMA InsertedCount ==
    ASSUME IsFiniteSet(Inserted), NEW t \in Turns, t \notin Inserted
    PROVE  Cardinality(Inserted \cup {t}) = Cardinality(Inserted) + 1
  BY FS_AddElement

LEMMA PruneIsShort ==
    ASSUME NEW S, NEW r \in Seq(S)
    PROVE  Len(Pruned(r)) <= RecentLimit
<1>1. RecentLimit \in Nat /\ Len(r) \in Nat
  BY Bounds
<1>2. Pruned(r) = Newest(r, RecentLimit)
  BY DEF Pruned, Newest
<1>3. QED
  BY <1>1, <1>2, NewestEnds

\* The row of a turn, its prune, or its loss.
LEMMA WritesRecord ==
    ASSUME TurnTypes, MemoryTypes, NEW t \in Turns, RecordConversationTurn(t),
           \A s \in Turns : WritesOf(s), NEW s \in Turns
    PROVE  WritesOf(s)'
<1>1. /\ turn \in [Turns -> TurnRecord] /\ Writers = Turns /\ IsFiniteSet(Turns)
      /\ writer \in [Turns -> [facts : ToWrite, row : {"none", "inserted", "kept", "lost"}]]
      /\ memoryOpen \in BOOLEAN /\ sqlite \in BOOLEAN /\ RecentLimit \in Nat
      /\ recent \in Seq(Turns) /\ appended \in Seq(Turns)
  BY Bounds DEF TurnTypes, TurnRecord, MemoryTypes
<1>2. /\ turn[t].step = "remember" /\ writer[t].facts = <<>> /\ turn[t].heard = "text"
      /\ UNCHANGED <<memoryOpen, sqlite, written, turn, active>>
  BY DEF RecordConversationTurn, Told, AppendRecent, AppendFails, PruneRecent, turnVars
<1>3. PICK row \in {"inserted", "kept", "lost"} :
        /\ writer' = [writer EXCEPT ![t].row = row]
        /\ \/ /\ writer[t].row = "none" /\ memoryOpen /\ appended' = Append(appended, t)
              /\ IF sqlite THEN row = "inserted" /\ recent' = Append(recent, t)
                 ELSE row = "kept" /\ recent' = Pruned(Append(recent, t))
           \/ /\ writer[t].row = "none" /\ row = "lost" /\ ~memoryOpen /\ UNCHANGED <<recent, appended>>
           \/ /\ writer[t].row = "inserted" /\ row = "kept" /\ appended' = appended
              /\ recent' = IF memoryOpen THEN Pruned(recent) ELSE recent
  BY <1>1 DEF RecordConversationTurn, AppendRecent, AppendFails, PruneRecent
<1>4. /\ writer'[t].row = row /\ writer'[t].facts = writer[t].facts
      /\ \A u \in Turns \ {t} : writer'[u] = writer[u]
  BY <1>1, <1>3
<1>5. IsFiniteSet(Inserted) /\ IsFiniteSet(Inserted')
  <2>1. Inserted \subseteq Turns /\ Inserted' \subseteq Turns
    BY <1>1 DEF Inserted
  <2>2. QED
    BY <1>1, <2>1, FS_Subset
<1>6. Cardinality(Inserted) \in Nat /\ Cardinality(Inserted') \in Nat
  BY <1>5, FS_CardinalityType
<1>7. FewRecents' <=> Len(recent') <= RecentLimit + Cardinality(Inserted')
  BY DEF FewRecents, Inserted
<1>8. memoryOpen' /\ (FewRecents \/ row = "kept") => FewRecents'
  <2>1. CASE row = "kept"
    <3>1. memoryOpen => Len(recent') \in Nat /\ Len(recent') <= RecentLimit
      <4>1. \A r \in Seq(Turns) : Len(Pruned(r)) <= RecentLimit /\ Pruned(r) \in Seq(Turns)
        <5>1. \A r \in Seq(Turns) : Pruned(r) = Newest(r, RecentLimit)
          BY DEF Pruned, Newest
        <5>2. QED
          BY <1>1, <5>1, NewestEnds, PruneIsShort
      <4>2. Append(recent, t) \in Seq(Turns)
        BY <1>1
      <4>3. recent' \in Seq(Turns) => Len(recent') \in Nat
        OBVIOUS
      <4>4. QED
        BY <1>1, <1>3, <2>1, <4>1, <4>2, <4>3
    <3>2. QED
      BY <1>1, <1>2, <1>6, <1>7, <3>1
  <2>2. CASE row = "inserted"
    <3>1. t \notin Inserted
      BY <1>3, <2>2 DEF Inserted
    <3>2. Inserted' = Inserted \cup {t}
      BY <1>1, <1>4, <2>2 DEF Inserted
    <3>3. Cardinality(Inserted') = Cardinality(Inserted) + 1
      BY <1>5, <3>1, <3>2, InsertedCount
    <3>4. Len(recent') = Len(recent) + 1 /\ Len(recent) \in Nat
      BY <1>1, <1>3, <2>2
    <3>5. FewRecents <=> Len(recent) <= RecentLimit + Cardinality(Inserted)
      BY DEF FewRecents, Inserted
    <3>6. QED
      BY <1>1, <1>6, <1>7, <2>2, <3>3, <3>4, <3>5
  <2>3. CASE row = "lost"
    BY <1>2, <1>3, <2>3
  <2>4. QED
    BY <2>1, <2>2, <2>3
<1>9. TimesOf(appended', s) = IF s = t /\ row # "lost" /\ writer[t].row = "none"
                              THEN TimesOf(appended, s) \cup {Len(appended) + 1}
                              ELSE TimesOf(appended, s)
  <2>1. CASE writer[t].row = "none" /\ row # "lost"
    <3>1. appended' = Append(appended, t)
      BY <1>3, <2>1
    <3>2. TimesOf(Append(appended, t), s) = IF s = t THEN TimesOf(appended, s) \cup {Len(appended) + 1}
                                            ELSE TimesOf(appended, s)
      BY <1>1, TimesGrow
    <3>3. QED
      BY <2>1, <3>1, <3>2
  <2>2. CASE ~(writer[t].row = "none" /\ row # "lost")
    <3>1. appended' = appended
      BY <1>3, <2>2
    <3>2. QED
      BY <2>2, <3>1
  <2>3. QED
    BY <2>1, <2>2
<1>10. CASE s # t
  <2>1. TurnMove(s)
    BY <1>2, TurnMovesOne
  <2>2. QED
    BY <1>2, <1>4, <1>8, <1>9, <1>10, <2>1, WritesStay
<1>11. CASE s = t
  <2>1. /\ turn'[t] = turn[t] /\ active' = active /\ written' = written
        /\ memoryOpen' = memoryOpen /\ sqlite' = sqlite
    BY <1>2
  <2>2. /\ turn[t].cleared # "no" /\ active # t
        /\ turn[t].cleared = "live" => turn[t].live
        /\ sqlite /\ memoryOpen /\ turn[t].cleared = "live" =>
             written[t] = CASE writer[t].facts = <<>>        -> Facts
                            [] writer[t].facts = <<"likes">> -> {"name"}
                            [] OTHER                         -> {}
    BY <1>2 DEF WritesOf
  <2>3. row = "lost" => ~memoryOpen
    BY <1>3
  <2>4. row \in {"inserted", "kept"} => \E i \in DOMAIN appended' : TimesOf(appended', t) = {i}
    <3>1. CASE writer[t].row = "none" /\ row # "lost"
      <4>1. TimesOf(appended, t) = {}
        BY <1>2, <3>1 DEF WritesOf
      <4>2. TimesOf(appended', t) = {Len(appended) + 1}
        BY <1>9, <1>11, <3>1, <4>1
      <4>3. Len(appended) + 1 \in DOMAIN appended'
        BY <1>1, <1>3, <3>1
      <4>4. QED
        BY <4>2, <4>3
    <3>2. CASE writer[t].row = "inserted" /\ row = "kept"
      <4>1. appended' = appended
        BY <1>3, <3>2
      <4>2. \E i \in DOMAIN appended : TimesOf(appended, t) = {i}
        BY <1>2, <3>2 DEF WritesOf
      <4>3. QED
        BY <4>1, <4>2
    <3>3. QED
      BY <1>3, <3>1, <3>2
  <2>5. QED
    BY <1>2, <1>4, <1>8, <1>11, <2>1, <2>2, <2>3, <2>4 DEF WritesOf, Early
<1>12. QED
  BY <1>10, <1>11

\* A turn is over.
LEMMA WritesEnd ==
    ASSUME TurnTypes, MemoryTypes, NEW t \in Turns, RecordTurnComplete(t),
           \A s \in Turns : WritesOf(s), NEW s \in Turns, TurnMove(s), turn'[t].step = "over"
    PROVE  WritesOf(s)'
<1>1. /\ turn \in [Turns -> TurnRecord]
      /\ writer \in [Turns -> [facts : ToWrite, row : {"none", "inserted", "kept", "lost"}]]
      /\ written \in [Turns -> SUBSET Facts]
      /\ turn[t].heard \in {"nothing", "text", "command"}
  BY Bounds DEF TurnTypes, TurnRecord, MemoryTypes
<1>2. /\ turn[t].step = "remember" /\ (turn[t].heard = "text" => writer[t].row \in {"kept", "lost"})
      /\ writer' = [writer EXCEPT ![t] = NothingToWrite] /\ written' = [written EXCEPT ![t] = {}]
      /\ UNCHANGED <<memoryOpen, sqlite, recent, appended, active>>
  BY DEF RecordTurnComplete, Told
<1>3. writer[t].row # "inserted" /\ NothingToWrite.row = "none"
  BY <1>2 DEF WritesOf, NothingToWrite
<1>4. \A u \in Turns : writer'[u].row = "inserted" <=> writer[u].row = "inserted"
  BY <1>1, <1>2, <1>3
<1>5. FewRecents => FewRecents'
  BY <1>2, <1>4, FewStay
<1>6. CASE s # t
  <2>1. writer'[s] = writer[s] /\ written'[s] = written[s]
    BY <1>1, <1>2, <1>6
  <2>2. QED
    BY <1>2, <1>5, <2>1, WritesStay
<1>7. CASE s = t
  BY <1>7 DEF WritesOf, Early
<1>8. QED
  BY <1>6, <1>7

LEMMA ReplyIsOver ==
    ASSUME TurnTypes, NEW t \in Turns, NEW error \in BOOLEAN, Over(t, error)
    PROVE  turn'[t].step = "over"
<1>1. turn \in [Turns -> TurnRecord]
  BY DEF TurnTypes, TurnRecord
<1>2. \A b \in BOOLEAN : [Past(t, "pump") EXCEPT !.live = b].step = "over"
  BY DEF Past, NewTurn
<1>3. (feature # "device" \/ (turn[t].live /\ ~error)) \in BOOLEAN
  OBVIOUS
<1>4. QED
  BY <1>1, <1>2, <1>3 DEF Over

\* A start of the process finds no pump at its writes.
LEMMA WritesAtStart ==
    ASSUME TurnTypes, MemoryTypes, ProcessIsStaged, Start, NEW s \in Turns, WritesOf(s)
    PROVE  WritesOf(s)'
<1>1. turn[s].step \in {"none", "over", "gone"}
  BY DEF ProcessIsStaged, Start, Running
<1>2. turn' = turn /\ writer' = writer /\ written' = written
  BY DEF Start, turnVars
<1>3. appended' = appended \/ appended' = <<>>
  BY DEF Start
<1>4. TimesOf(<<>>, s) = {}
  BY DEF TimesOf
<1>5. TimesOf(appended, s) = {} => TimesOf(appended', s) = {}
  BY <1>3, <1>4
<1>6. turn[s].step = "none" =>
        /\ writer[s] = NothingToWrite /\ written[s] = {} /\ TimesOf(appended, s) = {}
        /\ turn[s].cleared = "no"
  BY DEF WritesOf, Early
<1>7. turn'[s].step # "remember" /\ (turn'[s].step \in Early => turn[s].step = "none")
  BY <1>1, <1>2 DEF Early
<1>8. QED
  BY <1>2, <1>5, <1>6, <1>7 DEF WritesOf

LEMMA WritesKept ==
    ASSUME TurnTypes, MemoryTypes, ProcessIsStaged, WritesAreLast, [Next]_vars
    PROVE  WritesAreLast'
<1>1. SUFFICES ASSUME NEW s \in Turns PROVE WritesOf(s)'
  BY WritesSplit
<1>2. \A u \in Turns : WritesOf(u)
  BY WritesSplit
<1>3. TurnMove(s) \/ ClearRuntime(s)
  BY TurnMoves
<1>4. sqlite' = sqlite
  BY MemoryCloses
<1>5. ASSUME UNCHANGED <<recent, writer, written, appended>>, memoryOpen' => memoryOpen,
             ~ClearRuntime(s)
      PROVE  WritesOf(s)'
  <2>1. FewRecents => FewRecents'
    BY <1>5, FewStay
  <2>2. TurnMove(s)
    BY <1>3, <1>5
  <2>3. QED
    BY <1>2, <1>4, <1>5, <2>1, <2>2, WritesStay
<1>6. CASE \E t \in Turns : ClearRuntime(t)
  BY <1>2, <1>6, WritesOpen
<1>7. CASE \E t \in Turns : WriteMemories(t)
  BY <1>2, <1>7, WritesGoOn
<1>8. CASE \E t \in Turns : RecordConversationTurn(t)
  BY <1>2, <1>8, WritesRecord
<1>9. ASSUME NEW t \in Turns, RecordTurnComplete(t), ~ClearRuntime(s)
      PROVE  WritesOf(s)'
  <2>1. turn'[t].step = "over"
    BY <1>9, ReplyIsOver DEF RecordTurnComplete
  <2>2. QED
    BY <1>2, <1>3, <1>9, <2>1, WritesEnd
<1>10. CASE Start
  BY <1>2, <1>10, WritesAtStart
<1>11. CASE /\ \/ ListenStart \/ Abort \/ Disconnect
               \/ \E t \in Turns :
                    \/ RecordCut(t) \/ ResolveProviders(t) \/ ListenStartFails(t)
                    \/ Hear(t) \/ CommandMode(t) \/ CommandProfile(t) \/ AskBridge(t)
                    \/ BridgeReturns(t) \/ UseDevice(t) \/ FirstAudioIsLate(t)
                    \/ PumpFails(t) \/ PumpStops(t) \/ FinishReply(t)
               \/ PutProviderProfile \/ DeleteProviderProfile \/ PutAgentMode
               \/ DeleteAgentMode \/ GetAgentRuntimeStatus
               \/ Boot \/ BootDevice \/ CloseAll
               \/ DeviceGoesOn \/ ObserveVoiceTurn \/ RouteAgentTurn \/ TimePasses
               \/ UNCHANGED vars
            /\ ~ClearRuntime(s)
  <2>1. UNCHANGED memoryVars
    BY <1>11 DEF ListenStart, Abort, Disconnect, RecordCut, ResolveProviders, ListenStartFails,
       Hear, CommandMode, CommandProfile, AskBridge, BridgeReturns, UseDevice, FirstAudioIsLate,
       PumpFails, PumpStops, FinishReply, PutProviderProfile, DeleteProviderProfile, PutAgentMode,
       DeleteAgentMode, GetAgentRuntimeStatus, Boot, BootDevice, CloseAll, DeviceGoesOn,
       ObserveVoiceTurn, RouteAgentTurn, TimePasses, vars
  <2>2. QED
    BY <1>5, <1>11, <2>1 DEF memoryVars
<1>12. CASE /\ (\E t \in Turns : CallTool(t)) \/ Exit \/ WriteMemoryByAdmin \/ CompactGoesOn
            /\ ~ClearRuntime(s)
  <2>1. UNCHANGED <<recent, writer, written, appended>> /\ (memoryOpen' => memoryOpen)
    BY <1>12 DEF CallTool, Exit, Vanish, WriteMemoryByAdmin, CompactGoesOn, AdminPut, AdminDelete,
       CompactReads, CompactWrites, memoryVars
  <2>2. QED
    BY <1>5, <1>12, <2>1
<1>13. CASE CloseResources /\ ~ClearRuntime(s)
  <2>1. UNCHANGED <<recent, writer, written, appended>> /\ memoryOpen' = ~sqlite
    BY <1>13 DEF CloseResources, CloseMemory
  <2>2. ~memoryOpen => sqlite
    BY <1>13 DEF CloseResources, ProcessIsStaged
  <2>3. QED
    BY <1>5, <1>13, <2>1, <2>2
<1>14. QED
  BY <1>6, <1>7, <1>8, <1>9, <1>10, <1>11, <1>12, <1>13, Cases DEF NextCases

\* A pump records its turn after its reply in one way only.
LEMMA CompletionIsLast ==
    ASSUME TurnTypes, [Next]_vars, NEW t \in Turns, Completes(t)
    PROVE  RecordTurnComplete(t)
<1>1. /\ turn \in [Turns -> TurnRecord] /\ turn[t] \in TurnRecord
      /\ turn[t].step = "remember" /\ turn'[t].step = "over"
      /\ Cancelled \in [Turns -> TurnRecord] /\ Cancelled[t].step = "remember"
  <2>1. turn \in [Turns -> TurnRecord] /\ turn[t].step = "remember" /\ turn'[t].step = "over"
    BY DEF TurnTypes, TurnRecord, Completes
  <2>2. turn[t] \in TurnRecord
    BY <2>1
  <2>3. Cancelled[t].step = turn[t].step
    BY <2>2 DEF Cancelled, TurnRecord
  <2>4. QED
    BY <2>1, <2>2, <2>3, CancelledTypes
<1>2. CASE UNCHANGED turnVars
  BY <1>1, <1>2 DEF turnVars
<1>3. CASE CloseTurns
  <2>1. turn'[t] = [Cancelled[t] EXCEPT !.live = FALSE,
                                        !.cleared = IF @ = "live" THEN "dead" ELSE @]
    BY <1>1, <1>3 DEF CloseTurns
  <2>2. turn'[t].step = Cancelled[t].step
    BY <1>1, <2>1 DEF TurnRecord
  <2>3. QED
    BY <1>1, <2>2
<1>4. CASE turn' = Gone
  <2>1. turn'[t] = [turn[t] EXCEPT !.step = "gone", !.owes = FALSE]
    BY <1>1, <1>4 DEF Gone
  <2>2. turn'[t].step = "gone"
    BY <1>1, <2>1 DEF TurnRecord
  <2>3. QED
    BY <1>1, <2>2
<1>5. CASE Abort
  BY <1>1, <1>5 DEF Abort
<1>6. CASE ListenStart
  <2>1. PICK u \in Turns : turn' = [Cancelled EXCEPT ![u].step = "resolve"]
    BY <1>6 DEF ListenStart
  <2>2. turn'[t] = Cancelled[t] \/ turn'[t].step = "resolve"
    BY <1>1, <2>1 DEF TurnRecord
  <2>3. QED
    BY <1>1, <2>2
<1>7. ASSUME NEW u \in Turns, RecordCut(u)
      PROVE  FALSE
  <2>1. turn'[t] = turn[t] \/ turn'[t].step = turn[t].step
    BY <1>1, <1>7 DEF RecordCut, TurnRecord
  <2>2. QED
    BY <1>1, <2>1
<1>8. ASSUME NEW u \in Turns, \/ ResolveProviders(u) \/ ListenStartFails(u) \/ Hear(u)
                              \/ CommandMode(u) \/ CommandProfile(u) \/ AskBridge(u)
                              \/ BridgeReturns(u) \/ FirstAudioIsLate(u) \/ PumpFails(u)
                              \/ PumpStops(u) \/ FinishReply(u) \/ ClearRuntime(u)
      PROVE  FALSE
  <2>1. turn[u].step # "remember"
    BY <1>8 DEF ResolveProviders, Resolving, ListenStartFails, Hear, CommandMode, CommandProfile,
       AskBridge, BridgeReturns, FirstAudioIsLate, PumpFails, PumpStops, FinishReply, ClearRuntime
  <2>2. u # t
    BY <1>1, <2>1
  <2>3. turn'[t] = turn[t]
    BY <1>1, <1>8, <2>2 DEF ResolveProviders, ListenStartFails, Hear, CommandMode, CommandProfile,
       AskBridge, BridgeReturns, FirstAudioIsLate, PumpFails, PumpStops, FinishReply, ClearRuntime,
       Step, Over
  <2>4. QED
    BY <1>1, <2>3
<1>9. ASSUME NEW u \in Turns, RecordTurnComplete(u)
      PROVE  RecordTurnComplete(t)
  <2>1. u # t => turn'[t] = turn[t]
    BY <1>1, <1>9 DEF RecordTurnComplete, Over
  <2>2. u = t
    BY <1>1, <2>1
  <2>3. QED
    BY <1>9, <2>2
<1>10. ASSUME NEW u \in Turns, CallTool(u)
       PROVE  RecordTurnComplete(t)
  <2>1. turn' = Gone \/ UNCHANGED turnVars
    BY <1>10 DEF CallTool, Vanish, turnVars
  <2>2. QED
    BY <1>2, <1>4, <2>1 DEF turnVars
<1>11. CASE \/ \E u \in Turns : UseDevice(u) \/ WriteMemories(u) \/ RecordConversationTurn(u)
            \/ PutProviderProfile \/ DeleteProviderProfile \/ PutAgentMode
            \/ DeleteAgentMode \/ GetAgentRuntimeStatus \/ WriteMemoryByAdmin \/ CompactGoesOn
            \/ Boot \/ BootDevice \/ CloseResources \/ Start
            \/ DeviceGoesOn \/ ObserveVoiceTurn \/ RouteAgentTurn \/ TimePasses
            \/ UNCHANGED vars
  BY <1>2, <1>11 DEF UseDevice, WriteMemories, RecordConversationTurn, PutProviderProfile,
     DeleteProviderProfile, PutAgentMode, DeleteAgentMode, GetAgentRuntimeStatus,
     WriteMemoryByAdmin, CompactGoesOn, Boot, BootDevice, CloseResources, Start, DeviceGoesOn,
     ObserveVoiceTurn, RouteAgentTurn, TimePasses, Request, vars
<1>12. CASE Disconnect \/ CloseAll \/ Exit
  BY <1>3, <1>4, <1>12 DEF Disconnect, CloseAll, Exit, Vanish
<1>13. QED
  BY <1>5, <1>6, <1>7, <1>8, <1>9, <1>10, <1>11, <1>12, Cases DEF NextCases

LEMMA FactsStep ==
    ASSUME TurnTypes, WritesAreLast, [Next]_vars, NEW t \in Turns,
           Completes(t), turn[t].heard = "text", sqlite, memoryOpen, turn[t].cleared = "live"
    PROVE  written[t] = Facts
<1>1. writer[t].facts = <<>>
  BY CompletionIsLast DEF RecordTurnComplete
<1>2. WritesOf(t) /\ turn[t].step = "remember"
  BY WritesSplit DEF Completes
<1>3. QED
  BY <1>1, <1>2 DEF WritesOf

\* The history grows by a record of a turn, and is forgotten by a start.
LEMMA HistoryMoves ==
    ASSUME [Next]_vars
    PROVE  \/ appended' = appended
           \/ appended' = <<>>
           \/ \E t \in Turns : RecordConversationTurn(t) /\ AppendRecent(t)
<1>1. CASE \/ ListenStart \/ Abort \/ Disconnect
           \/ \E t \in Turns :
                \/ RecordCut(t) \/ ResolveProviders(t) \/ ListenStartFails(t)
                \/ Hear(t) \/ CommandMode(t) \/ CommandProfile(t) \/ AskBridge(t)
                \/ BridgeReturns(t) \/ UseDevice(t) \/ FirstAudioIsLate(t)
                \/ PumpFails(t) \/ PumpStops(t) \/ FinishReply(t) \/ CallTool(t)
           \/ PutProviderProfile \/ DeleteProviderProfile \/ PutAgentMode
           \/ DeleteAgentMode \/ GetAgentRuntimeStatus
           \/ Boot \/ BootDevice \/ CloseAll \/ Exit
           \/ DeviceGoesOn \/ ObserveVoiceTurn \/ RouteAgentTurn \/ TimePasses
           \/ UNCHANGED vars
  BY ZenonT(40), <1>1 DEF ListenStart, Abort, Disconnect, RecordCut, ResolveProviders, ListenStartFails,
     Hear, CommandMode, CommandProfile, AskBridge, BridgeReturns, UseDevice, FirstAudioIsLate,
     PumpFails, PumpStops, FinishReply, CallTool, Vanish, PutProviderProfile,
     DeleteProviderProfile, PutAgentMode, DeleteAgentMode, GetAgentRuntimeStatus, Boot, BootDevice,
     CloseAll, Exit, DeviceGoesOn, ObserveVoiceTurn, RouteAgentTurn, TimePasses, vars, memoryVars
<1>2. CASE \/ \E t \in Turns : ClearRuntime(t) \/ WriteMemories(t) \/ RecordConversationTurn(t)
                               \/ RecordTurnComplete(t)
           \/ WriteMemoryByAdmin \/ CompactGoesOn \/ CloseResources \/ Start
  BY <1>2 DEF ClearRuntime, WriteMemories, WriteFact, RecordConversationTurn, AppendFails,
     PruneRecent, RecordTurnComplete, WriteMemoryByAdmin, AdminPut, AdminDelete, CompactReads,
     CompactGoesOn, CompactWrites, CloseResources, CloseMemory, Start
<1>3. QED
  BY <1>1, <1>2, Cases DEF NextCases

LEMMA RecordStep ==
    ASSUME TurnTypes, MemoryTypes, WritesAreLast, [Next]_vars, NEW t \in Turns
    PROVE  /\ Cardinality(TimesOf(appended', t)) > Cardinality(TimesOf(appended, t)) =>
                /\ Cardinality(TimesOf(appended', t)) = 1
                /\ turn[t].heard = "text" /\ turn[t].cleared # "no"
           /\ Completes(t) /\ turn[t].heard = "text" =>
                (Cardinality(TimesOf(appended, t)) = 1 /\ FewRecents) \/ ~memoryOpen
<1>1. /\ appended \in Seq(Turns) /\ WritesOf(t)
      /\ \A i : Cardinality({i}) = 1 /\ Cardinality(TimesOf(<<>>, t)) = 0
  <2>1. \A i : Cardinality({i}) = 1
    BY FS_Singleton
  <2>2. TimesOf(<<>>, t) = {}
    BY DEF TimesOf
  <2>3. Cardinality(TimesOf(<<>>, t)) = 0
    BY <2>2, FS_EmptySet
  <2>4. QED
    BY <2>1, <2>3, WritesSplit, Bounds DEF MemoryTypes
<1>2. Cardinality(TimesOf(appended, t)) \in Nat
  <2>1. Len(appended) \in Nat /\ TimesOf(appended, t) \subseteq 1 .. Len(appended)
    BY <1>1 DEF TimesOf
  <2>2. IsFiniteSet(1 .. Len(appended))
    BY <2>1, FS_Interval
  <2>3. QED
    BY <2>1, <2>2, FS_Subset, FS_CardinalityType
<1>3. ASSUME Cardinality(TimesOf(appended', t)) > Cardinality(TimesOf(appended, t))
      PROVE  /\ Cardinality(TimesOf(appended', t)) = 1
             /\ turn[t].heard = "text" /\ turn[t].cleared # "no"
  <2>1. appended' # appended /\ appended' # <<>>
    BY <1>1, <1>2, <1>3
  <2>2. PICK u \in Turns : RecordConversationTurn(u) /\ AppendRecent(u)
    BY <2>1, HistoryMoves
  <2>3. appended' = Append(appended, u)
    BY <2>2 DEF AppendRecent
  <2>4. TimesOf(appended', t) = IF t = u THEN TimesOf(appended, t) \cup {Len(appended) + 1}
                                ELSE TimesOf(appended, t)
    BY <1>1, <2>3, TimesGrow
  <2>5. t = u
    BY <1>2, <1>3, <2>4
  <2>6. turn[t].step = "remember" /\ turn[t].heard = "text" /\ writer[t].row = "none"
    BY <2>2, <2>5 DEF RecordConversationTurn, Told, AppendRecent
  <2>7. turn[t].cleared # "no" /\ TimesOf(appended, t) = {}
    BY <1>1, <2>6 DEF WritesOf
  <2>8. TimesOf(appended', t) = {Len(appended) + 1}
    BY <2>4, <2>5, <2>7
  <2>9. QED
    BY <1>1, <2>6, <2>7, <2>8
<1>4. ASSUME Completes(t), turn[t].heard = "text", memoryOpen
      PROVE  Cardinality(TimesOf(appended, t)) = 1 /\ FewRecents
  <2>1. turn[t].step = "remember" /\ writer[t].row \in {"kept", "lost"}
    BY <1>4, CompletionIsLast DEF Completes, RecordTurnComplete, Told
  <2>2. writer[t].row = "kept" /\ FewRecents
    BY <1>1, <1>4, <2>1 DEF WritesOf
  <2>3. \E i \in DOMAIN appended : TimesOf(appended, t) = {i}
    BY <1>1, <2>1, <2>2 DEF WritesOf
  <2>4. QED
    BY <1>1, <2>2, <2>3
<1>5. QED
  BY <1>3, <1>4

-----------------------------------------------------------------------------
\* What a step of the gateway is for the service tools.
ToolStep ==
    \/ UNCHANGED toolVars /\ (feature = "tools" => process' \in {process, "exited"})
    \/ /\ feature = "tools" /\ process = "starting" /\ StartUp
       /\ process' = CASE stage' = "serving"   -> "serving"
                       [] stage' \in Failures  -> "exited"
                       [] OTHER                -> "starting"
    \/ /\ feature = "tools" /\ process = "serving" /\ process' \in {"serving", "exited"}
       /\ \E tool \in Tools : ExecuteTool(tool, ActiveMode)
    \/ /\ feature = "tools" /\ process' = "starting"
       /\ stage' = "off" /\ held' = {} /\ UNCHANGED <<conf, sent>>

LEMMA ToolSteps ==
    ASSUME ProcessIsStaged, [Next]_vars
    PROVE  ToolStep
<1>1. CASE \/ ListenStart \/ Abort \/ Disconnect
           \/ \E t \in Turns :
                \/ RecordCut(t) \/ ResolveProviders(t) \/ ListenStartFails(t)
                \/ Hear(t) \/ CommandMode(t) \/ CommandProfile(t) \/ AskBridge(t)
                \/ BridgeReturns(t) \/ UseDevice(t) \/ FirstAudioIsLate(t)
                \/ PumpFails(t) \/ PumpStops(t)
                \/ FinishReply(t) \/ ClearRuntime(t) \/ WriteMemories(t)
                \/ RecordConversationTurn(t) \/ RecordTurnComplete(t)
  <2>1. UNCHANGED hostVars => ToolStep
    BY DEF hostVars, ToolStep
  <2>2. \A t \in Turns : UseDevice(t) => ToolStep
    BY DEF UseDevice, ToolStep
  <2>3. QED
    BY <1>1, <2>1, <2>2 DEF ListenStart, Abort, Disconnect, RecordCut, ResolveProviders,
       ListenStartFails, Hear, CommandMode, CommandProfile, AskBridge, BridgeReturns,
       FirstAudioIsLate, PumpFails, PumpStops, FinishReply, ClearRuntime, WriteMemories,
       RecordConversationTurn, RecordTurnComplete
<1>2. CASE \/ PutProviderProfile \/ DeleteProviderProfile \/ PutAgentMode
           \/ DeleteAgentMode \/ GetAgentRuntimeStatus \/ WriteMemoryByAdmin \/ CompactGoesOn
           \/ DeviceGoesOn \/ ObserveVoiceTurn \/ RouteAgentTurn \/ TimePasses
           \/ UNCHANGED vars
  <2>1. CASE Request
    BY <2>1 DEF Request, ToolStep
  <2>2. CASE UNCHANGED hostVars
    BY <2>2 DEF hostVars, ToolStep
  <2>3. CASE DeviceGoesOn
    BY <2>3 DEF DeviceGoesOn, ToolStep
  <2>4. UNCHANGED vars => UNCHANGED hostVars
    BY DEF vars
  <2>5. QED
    BY <1>2, <2>1, <2>2, <2>3, <2>4 DEF PutProviderProfile, DeleteProviderProfile, PutAgentMode,
       DeleteAgentMode, GetAgentRuntimeStatus, WriteMemoryByAdmin, CompactGoesOn,
       ObserveVoiceTurn, RouteAgentTurn, TimePasses
<1>3. CASE BootDevice \/ CloseAll \/ Exit
  BY <1>3 DEF BootDevice, CloseAll, Exit, ToolStep
<1>4. CASE CloseResources
  <2>1. feature # "tools" /\ UNCHANGED toolVars
    BY <1>4 DEF CloseResources, ProcessIsStaged
  <2>2. QED
    BY <2>1 DEF ToolStep
<1>5. CASE Boot
  BY <1>5 DEF Boot, ToolStep
<1>6. CASE Start
  BY <1>6 DEF Start, ToolStep, toolVars
<1>7. ASSUME NEW t \in Turns, CallTool(t)
      PROVE  ToolStep
  <2>1. feature = "tools" /\ process = "serving"
    BY <1>7 DEF CallTool, Open, ProcessIsStaged
  <2>2. process' \in {"serving", "exited"}
    <3>1. CASE called'.outcome = "panic"
      BY <1>7, <3>1 DEF CallTool
    <3>2. CASE called'.outcome # "panic"
      BY <1>7, <2>1, <3>2 DEF CallTool
    <3>3. QED
      BY <3>1, <3>2
  <2>3. \E tool \in Tools : ExecuteTool(tool, ActiveMode)
    BY <1>7 DEF CallTool
  <2>4. QED
    BY <2>1, <2>2, <2>3 DEF ToolStep
<1>8. QED
  BY <1>1, <1>2, <1>3, <1>4, <1>5, <1>6, <1>7, Cases DEF NextCases

\* Whatever is configured, what is registered is allowed and permitted.
LEMMA RegisteredIsAllowed ==
    ASSUME NEW c
    PROVE  /\ Registered(c) \subseteq AllowedTools(c)
           /\ \A tool \in Registered(c) : Permission[tool] \in Permissions(c)
<1>1. Registered(c) \subseteq AllowedTools(c)
  BY DEF Registered, AllowedTools, On
<1>2. /\ "read" \in Permissions(c)
      /\ {"v21", "home_assistant", "search"} \cap c.parts # {} => "external" \in Permissions(c)
      /\ {"camera", "reminder"} \cap c.parts # {} => "device_control" \in Permissions(c)
      /\ "feishu" \in c.parts => "write" \in Permissions(c)
      /\ "home_assistant" \in c.parts /\ c.actions # <<>> => "write" \in Permissions(c)
  BY DEF Permissions, On
<1>3. /\ "memory_lookup" \in Registered(c) => "memory" \in c.parts
      /\ "get_state" \in Registered(c) => "home_assistant" \in c.parts
      /\ "call_action" \in Registered(c) => "home_assistant" \in c.parts /\ c.actions # <<>>
      /\ "web_search" \in Registered(c) => "search" \in c.parts
      /\ "list_targets" \in Registered(c) => "feishu" \in c.parts
      /\ "send_text" \in Registered(c) => "feishu" \in c.parts
      /\ "request_capture" \in Registered(c) => "camera" \in c.parts
      /\ "announce" \in Registered(c) => "reminder" \in c.parts
      /\ "voice_query" \in Registered(c) => "v21" \in c.parts
  BY DEF Registered, On
<1>4. Registered(c) \subseteq {"memory_lookup", "get_state", "call_action", "web_search",
        "list_targets", "send_text", "request_capture", "announce", "voice_query"}
  BY DEF Registered, On
<1>5. /\ Permission["memory_lookup"] = "read" /\ Permission["get_state"] = "external"
      /\ Permission["call_action"] = "write" /\ Permission["web_search"] = "external"
      /\ Permission["list_targets"] = "read" /\ Permission["send_text"] = "write"
      /\ Permission["request_capture"] = "device_control"
      /\ Permission["announce"] = "device_control" /\ Permission["voice_query"] = "external"
  BY DEF Permission
<1>6. \A tool \in Registered(c) : Permission[tool] \in Permissions(c)
  BY <1>2, <1>3, <1>4, <1>5
<1>7. QED
  BY <1>1, <1>6

\* What was accepted is built, but for a token that is blank.
LEMMA ValidBuilds ==
    ASSUME NEW c \in Configs, Valid(c), ~ToolsBuild(c)
    PROVE  c.env["home_assistant"] = "blank"
<1>1. c.env["home_assistant"] \in Values
  BY ToolsConfigAssumption DEF Secrets
<1>2. "search" \in c.parts => SearchBuilds(c)
  BY DEF Valid, ValidSearch, SearchBuilds
<1>3. "feishu" \in c.parts => FeishuBuilds(c)
  BY DEF Valid, ValidFeishu, FeishuBuilds
<1>4. "home_assistant" \in c.parts /\ ~HomeAssistantBuilds(c)
  BY <1>2, <1>3 DEF ToolsBuild
<1>5. c.env["home_assistant"] \notin {"unset", "set"}
  BY <1>4 DEF Valid, ValidHomeAssistant, HomeAssistantBuilds
<1>6. QED
  BY <1>1, <1>5 DEF Values

\* New checks and opens one thing after another.
LEMMA StagesKept ==
    ASSUME StagesAreChecked, ToolStep
    PROVE  StagesAreChecked' /\ conf' = conf
<1>1. conf' = conf
  BY DEF ToolStep, toolVars, StartUp, LoadFile, BuildOTA, OpenTrace, BuildPrompts, BuildTools, Idly,
     ExecuteTool
<1>2. CASE UNCHANGED <<stage, held>>
  BY <1>1, <1>2 DEF StagesAreChecked
<1>3. CASE stage' = "off" /\ held' = {}
  BY <1>1, <1>3 DEF StagesAreChecked
<1>4. CASE LoadFile
  BY <1>1, <1>4 DEF LoadFile, StagesAreChecked
<1>5. CASE BuildOTA
  BY <1>1, <1>5 DEF BuildOTA, StagesAreChecked
<1>6. CASE OpenTrace
  BY <1>1, <1>6 DEF OpenTrace, StagesAreChecked
<1>7. CASE BuildPrompts
  BY <1>1, <1>7 DEF BuildPrompts, StagesAreChecked
<1>8. CASE BuildTools
  BY <1>1, <1>8 DEF BuildTools, StagesAreChecked
<1>9. QED
  BY <1>1, <1>2, <1>3, <1>4, <1>5, <1>6, <1>7, <1>8 DEF ToolStep, toolVars, StartUp, ExecuteTool

LEMMA StagesAccept ==
    ASSUME StagesAreChecked
    PROVE  AcceptedStarts
  BY RegisteredIsAllowed, ValidBuilds DEF StagesAreChecked, AcceptedStarts, Failures

LEMMA ToolsAreStagedKept ==
    ASSUME StagesAreChecked, ToolsAreStaged, ProcessIsStaged, [Next]_vars
    PROVE  ToolsAreStaged'
<1>1. ToolStep /\ conf' = conf /\ feature' = feature
  BY ToolSteps, StagesKept, FeatureStays
<1>2. SUFFICES ASSUME feature = "tools", process' = "serving"
               PROVE  stage' = "serving" /\ Valid(conf)
  BY <1>1 DEF ToolsAreStaged
<1>3. CASE UNCHANGED toolVars /\ process' \in {process, "exited"}
  BY <1>2, <1>3 DEF ToolsAreStaged, toolVars
<1>4. CASE /\ StartUp
           /\ process' = CASE stage' = "serving"   -> "serving"
                           [] stage' \in Failures  -> "exited"
                           [] OTHER                -> "starting"
  <2>1. stage' = "serving"
    BY <1>2, <1>4
  <2>2. BuildTools
    BY <1>4, <2>1 DEF StartUp, LoadFile, BuildOTA, OpenTrace, BuildPrompts
  <2>3. QED
    BY <2>1, <2>2 DEF BuildTools, StagesAreChecked
<1>5. CASE process = "serving" /\ \E tool \in Tools : ExecuteTool(tool, ActiveMode)
  BY <1>2, <1>5 DEF ToolsAreStaged, ExecuteTool
<1>6. QED
  BY <1>1, <1>2, <1>3, <1>4, <1>5 DEF ToolStep

LEMMA SentKept ==
    ASSUME StagesAreChecked, ToolsAreStaged, SentIsConfigured, ProcessIsStaged, [Next]_vars
    PROVE  SentIsConfigured'
<1>1. ToolStep /\ conf' = conf
  BY ToolSteps, StagesKept
<1>2. CASE UNCHANGED sent \/ sent' = Nothing
  BY <1>1, <1>2 DEF SentIsConfigured
<1>3. ASSUME NEW tool \in Tools, ExecuteTool(tool, ActiveMode), feature = "tools", process = "serving",
             sent' # Nothing
      PROVE  SentIsConfigured'
  <2>1. Valid(conf) /\ Runnable(tool) /\ (GetState(tool) \/ CallAction(tool))
    BY <1>3 DEF ToolsAreStaged, ExecuteTool, Refuse, Returns, LookUpMemory, SearchWeb, Announce,
       ListTargets, SendText, RequestCapture, AnswersOrFails, AsksOrFails, AskV21, CallNoAction
  <2>2. tool \in {"get_state", "call_action"} /\ tool \in Registered(conf)
    BY <2>1 DEF GetState, CallAction, CallWrongSlots, CallPanics, CallSends, Runnable
  <2>3. "home_assistant" \in conf.parts
    BY <2>2 DEF Registered, On
  <2>4. \A i \in DOMAIN conf.actions : conf.actions[i].entities \subseteq conf.entities
    BY <2>1, <2>3 DEF Valid, ValidHomeAssistant
  <2>5. CASE GetState(tool)
    <3>1. PICK e \in Entities : e \in conf.entities /\ sent' = [Nothing EXCEPT !.to = {e}]
      BY <1>3, <2>5 DEF GetState, Returns
    <3>2. sent'.to = {e} /\ sent'.keys = {}
      BY <3>1 DEF Nothing
    <3>3. QED
      BY <1>1, <2>3, <3>1, <3>2 DEF SentIsConfigured
  <2>6. CASE CallAction(tool)
    <3>1. PICK i \in DOMAIN conf.actions, args \in Arguments : CallSends(tool, conf.actions[i], args)
      BY <1>3, <2>6 DEF CallAction, CallWrongSlots, CallPanics, Returns
    <3> DEFINE a == conf.actions[i]
    <3>2. /\ sent' = [to |-> a.entities, keys |-> a.data \cup Passed(a, args),
                      valid |-> Wrong(a, args) = {}]
          /\ Wrong(a, args) = {}
      BY <3>1 DEF CallSends, SlotsOf, Returns
    <3>3. sent'.to = a.entities /\ sent'.keys = a.data \cup Passed(a, args) /\ sent'.valid
      BY <3>2
    <3>4. Passed(a, args) \subseteq a.slots
      BY DEF Passed
    <3>5. QED
      BY <1>1, <2>3, <2>4, <3>3, <3>4 DEF SentIsConfigured
  <2>7. QED
    BY <2>1, <2>5, <2>6
<1>4. QED
  BY <1>1, <1>2, <1>3 DEF ToolStep, toolVars, StartUp, LoadFile, BuildOTA, OpenTrace, BuildPrompts,
     BuildTools, Idly

-----------------------------------------------------------------------------
\* What is played by p, on its own.
PlayRecord ==
    [at : Playing \cup {"idle", "asked", "card", "other", "done", "reported"},
     tool : {"none", "sequence", "play", "card", "other"}, id : AskedIds \cup {"none"},
     cues : Seq(Cues), n : Nat \ {0}, got : BOOLEAN,
     err : {"none", "not_allowed", "unavailable", "device", "refused"},
     tried : BOOLEAN, fair : BOOLEAN,
     outcome : {"none", "ok", "skipped", "failed", "invalid"}]

PlayIsValid(p, r) ==
    /\ r.at \in Playing => r.n <= Len(r.cues)
    /\ r.at = "gap" => r.n < Len(r.cues)
    /\ r.at \in Playing /\ p[2] = "call" => r.tool \in {"sequence", "play"}
    /\ r.at = "card" => r.tool = "card" /\ r.id \in DOMAIN cards
    /\ r.at = "other" => r.tool = "other"
    /\ r.tool \in {"sequence", "play"} /\ r.outcome # "invalid" => ValidList(r.cues)
    /\ r.outcome = "invalid" =>
         /\ r.at = "done" /\ ~r.tried
         /\ r.tool = "play" => r.id \notin IdsOf(section.sequences)
         /\ r.tool = "card" => r.id \notin DOMAIN cards

FairGoesOn(r) ==
    r.fair /\ ~r.tried =>
        /\ r.at \in {"motion", "led", "scene", "card", "other"}
        /\ r.at = "motion" => MayExpress
        /\ r.at = "led" => AllowedCommands \cap {"led", "scene"} # {}
        /\ r.at \in {"scene", "card"} => "scene" \in AllowedCommands
        /\ r.at = "other" => "volume" \in AllowedCommands

PlayFits(p, r) ==
    r \in PlayRecord /\ PlayIsValid(p, r) /\ (p[2] = "call" => FairGoesOn(r))

LEMMA PlaysSplit ==
    /\ PlayTypes <=> play \in [Players -> PlayRecord]
    /\ PlayTypes' <=> play' \in [Players -> PlayRecord]
    /\ PlayTypes /\ PlaysAreValid /\ FairCallsGoOn =>
         \A p \in Players : PlayFits(p, play[p])
    /\ play' \in [Players -> PlayRecord] /\ (\A p \in Players : PlayFits(p, play[p])') =>
         PlayTypes' /\ PlaysAreValid' /\ FairCallsGoOn'
<1>1. \A t \in Speakers : <<t, "call">> \in Players /\ <<t, "call">>[2] = "call"
  BY DEF Players
<1>2. (PlayTypes <=> play \in [Players -> PlayRecord]) /\ (PlayTypes' <=> play' \in [Players -> PlayRecord])
  BY DEF PlayTypes, PlayRecord
<1>3. ASSUME PlayTypes, PlaysAreValid, FairCallsGoOn, NEW p \in Players
      PROVE  PlayFits(p, play[p])
  <2>1. play[p] \in PlayRecord /\ PlayIsValid(p, play[p])
    BY <1>2, <1>3 DEF PlaysAreValid, PlayIsValid
  <2>2. ASSUME p[2] = "call"
        PROVE  FairGoesOn(play[p])
    <3>1. PICK t \in Speakers : p = <<t, "call">>
      BY <2>2 DEF Players
    <3>2. QED
      BY <1>3, <3>1 DEF FairCallsGoOn, FairGoesOn
  <2>3. QED
    BY <2>1, <2>2 DEF PlayFits
<1>4. ASSUME play' \in [Players -> PlayRecord], \A p \in Players : PlayFits(p, play[p])'
      PROVE  PlayTypes' /\ PlaysAreValid' /\ FairCallsGoOn'
  <2>1. PlayTypes'
    BY <1>2, <1>4
  <2>2. PlaysAreValid'
    BY <1>4 DEF PlayFits, PlaysAreValid, PlayIsValid
  <2>3. FairCallsGoOn'
    BY <1>1, <1>4 DEF PlayFits, FairCallsGoOn, FairGoesOn
  <2>4. QED
    BY <2>1, <2>2, <2>3
<1>5. QED
  BY <1>2, <1>3, <1>4

\* Nothing that fits depends on more than the section, its cards and what was found.
LEMMA FitsLater ==
    ASSUME UNCHANGED <<section, cards>>, found \subseteq found', NEW p, NEW r, PlayFits(p, r)
    PROVE  /\ r \in PlayRecord
           /\ PlayIsValid(p, r) /\ (p[2] = "call" => FairGoesOn(r))
           /\ r = play'[p] => PlayFits(p, play[p])'
<1>1. AllowedCommands \subseteq AllowedCommands' /\ (MayExpress => MayExpress')
  BY DEF AllowedCommands, MayExpress
<1>2. ASSUME r = play'[p]
      PROVE  PlayFits(p, play[p])'
  <2>1. play'[p] \in PlayRecord /\ PlayIsValid(p, play'[p])
    BY <1>2 DEF PlayFits
  <2>2. PlayIsValid(p, play[p])'
    BY <2>1 DEF PlayIsValid
  <2>3. p[2] = "call" => FairGoesOn(play'[p])
    BY <1>2 DEF PlayFits
  <2>4. p[2] = "call" => FairGoesOn(play[p])'
    BY <1>1, <2>3 DEF FairGoesOn
  <2>5. QED
    BY <2>1, <2>2, <2>4 DEF PlayFits, PlayRecord
<1>3. QED
  BY <1>2 DEF PlayFits

LEMMA PlaysFollow ==
    ASSUME UNCHANGED <<section, cards>>, found \subseteq found',
           PlayTypes, PlaysAreValid, FairCallsGoOn,
           play' \in [Players -> PlayRecord],
           \A p \in Players : play'[p] = play[p] \/ PlayFits(p, play'[p])
    PROVE  PlayTypes' /\ PlaysAreValid' /\ FairCallsGoOn'
<1>1. \A p \in Players : PlayFits(p, play'[p])
  BY PlaysSplit
<1>2. \A p \in Players : PlayFits(p, play[p])'
  BY <1>1, FitsLater
<1>3. QED
  BY <1>2, PlaysSplit

LEMMA NoPlayFits ==
    ASSUME NEW p
    PROVE  PlayFits(p, NoPlay)
<1>1. NoPlay \in PlayRecord
  BY DEF NoPlay, PlayRecord
<1>2. QED
  BY <1>1 DEF PlayFits, PlayIsValid, FairGoesOn, NoPlay, Playing

\* What a call or a cue begins with.
LEMMA NewPlayFits ==
    ASSUME NEW p, NEW r \in PlayRecord, r.n = 1, ~r.tried,
           r.at \in {"motion", "card", "other", "done", "reported"},
           r.at = "motion" => 1 <= Len(r.cues),
           r.at = "motion" /\ p[2] = "call" => r.tool \in {"sequence", "play"},
           r.at = "card" => r.tool = "card" /\ r.id \in DOMAIN cards,
           r.at = "other" => r.tool = "other",
           r.tool \in {"sequence", "play"} /\ r.outcome # "invalid" => ValidList(r.cues),
           r.outcome = "invalid" => /\ r.at = "done"
                                    /\ r.tool = "play" => r.id \notin IdsOf(section.sequences)
                                    /\ r.tool = "card" => r.id \notin DOMAIN cards,
           r.fair => /\ r.at \in {"motion", "card", "other"}
                     /\ r.at = "motion" => MayExpress
                     /\ r.at = "card" => "scene" \in AllowedCommands
                     /\ r.at = "other" => "volume" \in AllowedCommands
    PROVE  PlayFits(p, r)
<1>1. PlayIsValid(p, r)
  BY DEF PlayIsValid, Playing
<1>2. FairGoesOn(r)
  BY DEF FairGoesOn
<1>3. QED
  BY <1>1, <1>2 DEF PlayFits

LEMMA NoPlayFields ==
    /\ NoPlay \in PlayRecord /\ NoPlay.at = "idle" /\ NoPlay.tool = "none" /\ NoPlay.n = 1
    /\ NoPlay.cues = <<>> /\ ~NoPlay.fair /\ ~NoPlay.tried /\ NoPlay.outcome = "none"
<1>1. NoPlay \in PlayRecord
  BY DEF NoPlay, PlayRecord
<1>2. QED
  BY <1>1 DEF NoPlay

\* The goroutine of a cue.
LEMMA CueFits ==
    ASSUME NEW t \in Speakers, NEW trigger \in Triggers, NEW cue \in Cues
    PROVE  PlayFits(<<t, trigger>>, [NoPlay EXCEPT !.at = "motion", !.cues = <<cue>>])
<1> DEFINE p == <<t, trigger>>
           r == [NoPlay EXCEPT !.at = "motion", !.cues = <<cue>>]
<1>1. <<cue>> \in Seq(Cues) /\ Len(<<cue>>) = 1 /\ p[2] # "call"
  BY DEF Triggers
<1>2. /\ r \in PlayRecord /\ r.at = "motion" /\ r.tool = "none" /\ r.n = 1
      /\ ~r.fair /\ ~r.tried /\ r.outcome = "none" /\ r.cues = <<cue>>
  BY <1>1, NoPlayFields DEF PlayRecord, Playing
<1>3. Len(r.cues) = 1
  BY <1>1, <1>2
<1> HIDE DEF p, r
<1>4. PlayIsValid(p, r)
  BY <1>1, <1>2, <1>3 DEF PlayIsValid, Playing
<1>5. FairGoesOn(r)
  BY <1>2 DEF FairGoesOn
<1>6. PlayFits(p, r)
  BY <1>2, <1>4, <1>5 DEF PlayFits
<1>7. QED
  BY <1>6 DEF p, r

LEMMA ConvertedIs ==
    ASSUME NEW entries
    PROVE  /\ DOMAIN Converted(entries) = IdsOf(entries)
           /\ \A id \in IdsOf(entries) :
                Converted(entries)[id] \in entries /\ Converted(entries)[id].id = id
<1>1. ASSUME NEW id \in IdsOf(entries)
      PROVE  Converted(entries)[id] \in entries /\ Converted(entries)[id].id = id
  <2>1. \E e \in entries : e.id = id
    BY DEF IdsOf
  <2>2. Converted(entries)[id] = CHOOSE e \in entries : e.id = id
    BY DEF Converted
  <2>3. QED
    BY <2>1, <2>2
<1>2. QED
  BY <1>1 DEF Converted

LEMMA CuedPlays ==
    ASSUME NEW plays \in [Players -> PlayRecord], NEW t \in Speakers, NEW trigger \in Triggers,
           NEW name, NEW entries, NEW names, ValidTriggers(entries, names)
    PROVE  /\ Cued(plays, t, trigger, name, entries) \in [Players -> PlayRecord]
           /\ \A p \in Players : \/ Cued(plays, t, trigger, name, entries)[p] = plays[p]
                                 \/ PlayFits(p, Cued(plays, t, trigger, name, entries)[p])
<1> DEFINE new == Cued(plays, t, trigger, name, entries)
<1>1. CASE name \notin IdsOf(entries)
  BY <1>1, ConvertedIs DEF Cued
<1>2. CASE name \in IdsOf(entries)
  <2> DEFINE cue == Converted(entries)[name].cue
             r == [NoPlay EXCEPT !.at = "motion", !.cues = <<cue>>]
  <2>1. cue \in Cues
    BY <1>2, ConvertedIs DEF ValidTriggers
  <2>2. PlayFits(<<t, trigger>>, r) /\ r \in PlayRecord
    BY <2>1, CueFits DEF PlayFits
  <2>3. new = [plays EXCEPT ![<<t, trigger>>] = r]
    BY <1>2, ConvertedIs DEF Cued
  <2>4. <<t, trigger>> \in Players
    BY DEF Players
  <2> HIDE DEF new, r
  <2>5. new \in [Players -> PlayRecord] /\ \A p \in Players : new[p] = plays[p] \/ PlayFits(p, new[p])
    BY <2>2, <2>3, <2>4
  <2>6. QED
    BY <2>5 DEF new
<1>3. QED
  BY <1>1, <1>2

\* The records that a call begins with, and goes on or ends with.
LEMMA CallFits ==
    ASSUME NEW p, p[2] = "call"
    PROVE  /\ \A outcome \in {"skipped", "invalid"} : PlayFits(p, Refused(outcome))
           /\ \A id \in AskedIds :
                /\ id \notin IdsOf(section.sequences) =>
                     PlayFits(p, [Refused("invalid") EXCEPT !.tool = "play", !.id = id])
                /\ id \notin DOMAIN cards =>
                     PlayFits(p, [Refused("invalid") EXCEPT !.tool = "card", !.id = id])
           /\ PlayFits(p, [NoPlay EXCEPT !.at = "reported"])
<1>1. ASSUME NEW outcome \in {"skipped", "invalid"}
      PROVE  PlayFits(p, Refused(outcome))
  <2> DEFINE r == Refused(outcome)
  <2>1. /\ r \in PlayRecord /\ r.at = "done" /\ r.tool = "none" /\ r.n = 1
        /\ ~r.fair /\ ~r.tried /\ r.outcome = outcome
    BY <1>1, NoPlayFields DEF PlayRecord, Playing, Refused
  <2> HIDE DEF r
  <2>2. PlayFits(p, r)
    BY <2>1, NewPlayFits
  <2>3. QED
    BY <2>2 DEF r
<1>2. ASSUME NEW id \in AskedIds, NEW tool \in {"play", "card"},
             tool = "play" => id \notin IdsOf(section.sequences),
             tool = "card" => id \notin DOMAIN cards
      PROVE  PlayFits(p, [Refused("invalid") EXCEPT !.tool = tool, !.id = id])
  <2> DEFINE s == [Refused("invalid") EXCEPT !.tool = tool, !.id = id]
  <2>1. /\ s \in PlayRecord /\ s.at = "done" /\ s.tool = tool /\ s.n = 1
        /\ ~s.fair /\ ~s.tried /\ s.outcome = "invalid" /\ s.id = id
    BY <1>2, NoPlayFields DEF PlayRecord, Playing, Refused
  <2> HIDE DEF s
  <2>2. PlayFits(p, s)
    BY <1>2, <2>1, NewPlayFits
  <2>3. QED
    BY <2>2 DEF s
<1>3. PlayFits(p, [NoPlay EXCEPT !.at = "reported"])
  <2> DEFINE r == [NoPlay EXCEPT !.at = "reported"]
  <2>1. /\ r \in PlayRecord /\ r.at = "reported" /\ r.tool = "none" /\ r.n = 1
        /\ ~r.fair /\ ~r.tried /\ r.outcome = "none"
    BY NoPlayFields DEF PlayRecord, Playing
  <2> HIDE DEF r
  <2>2. PlayFits(p, r)
    BY <2>1, NewPlayFits
  <2>3. QED
    BY <2>2 DEF r
<1>4. QED
  BY <1>1, <1>2, <1>3

LEMMA SequenceFits ==
    ASSUME NEW p, p[2] = "call", NEW cues \in Seq(STRING), ValidList(cues), NEW fair \in BOOLEAN,
           fair => MayExpress
    PROVE  /\ PlayFits(p, [NoPlay EXCEPT !.at = "motion", !.tool = "sequence",
                                         !.cues = cues, !.fair = fair])
           /\ \A id \in AskedIds :
                PlayFits(p, [NoPlay EXCEPT !.at = "motion", !.tool = "play", !.id = id,
                                           !.cues = cues, !.fair = fair])
<1>1. cues \in Seq(Cues) /\ 1 <= Len(cues)
  <2>1. Len(cues) \in 1 .. 3 /\ \A i \in 1 .. Len(cues) : cues[i] \in Cues
    BY DEF ValidList, MaxCues
  <2>2. cues \in [1 .. Len(cues) -> Cues] /\ Len(cues) \in Nat
    BY <2>1
  <2>3. QED
    BY <2>1, <2>2 DEF Seq
<1>2. PlayFits(p, [NoPlay EXCEPT !.at = "motion", !.tool = "sequence", !.cues = cues, !.fair = fair])
  <2> DEFINE r == [NoPlay EXCEPT !.at = "motion", !.tool = "sequence", !.cues = cues, !.fair = fair]
  <2>1. /\ r \in PlayRecord /\ r.at = "motion" /\ r.tool = "sequence" /\ r.n = 1
        /\ r.fair = fair /\ ~r.tried /\ r.outcome = "none" /\ r.cues = cues
    BY <1>1, NoPlayFields DEF PlayRecord, Playing
  <2> HIDE DEF r
  <2>2. PlayFits(p, r)
    BY <1>1, <2>1, NewPlayFits
  <2>3. QED
    BY <2>2 DEF r
<1>3. ASSUME NEW id \in AskedIds
      PROVE  PlayFits(p, [NoPlay EXCEPT !.at = "motion", !.tool = "play", !.id = id,
                                        !.cues = cues, !.fair = fair])
  <2> DEFINE r == [NoPlay EXCEPT !.at = "motion", !.tool = "play", !.id = id,
                                 !.cues = cues, !.fair = fair]
  <2>1. /\ r \in PlayRecord /\ r.at = "motion" /\ r.tool = "play" /\ r.n = 1
        /\ r.fair = fair /\ ~r.tried /\ r.outcome = "none" /\ r.cues = cues
    BY <1>1, <1>3, NoPlayFields DEF PlayRecord, Playing
  <2> HIDE DEF r
  <2>2. PlayFits(p, r)
    BY <1>1, <2>1, NewPlayFits
  <2>3. QED
    BY <2>2 DEF r
<1>4. QED
  BY <1>2, <1>3

LEMMA CardFits ==
    ASSUME NEW p, p[2] = "call", NEW fair \in BOOLEAN
    PROVE  /\ \A id \in AskedIds : id \in DOMAIN cards /\ (fair => "scene" \in AllowedCommands) =>
                PlayFits(p, [NoPlay EXCEPT !.at = "card", !.tool = "card", !.id = id, !.fair = fair])
           /\ (fair => "volume" \in AllowedCommands) =>
                PlayFits(p, [NoPlay EXCEPT !.at = "other", !.tool = "other", !.fair = fair])
<1>1. ASSUME NEW id \in AskedIds, id \in DOMAIN cards, fair => "scene" \in AllowedCommands
      PROVE  PlayFits(p, [NoPlay EXCEPT !.at = "card", !.tool = "card", !.id = id, !.fair = fair])
  <2> DEFINE r == [NoPlay EXCEPT !.at = "card", !.tool = "card", !.id = id, !.fair = fair]
  <2>1. /\ r \in PlayRecord /\ r.at = "card" /\ r.tool = "card" /\ r.n = 1
        /\ r.fair = fair /\ ~r.tried /\ r.outcome = "none" /\ r.id = id
    BY <1>1, NoPlayFields DEF PlayRecord, Playing
  <2> HIDE DEF r
  <2>2. PlayFits(p, r)
    BY <1>1, <2>1, NewPlayFits
  <2>3. QED
    BY <2>2 DEF r
<1>2. ASSUME fair => "volume" \in AllowedCommands
      PROVE  PlayFits(p, [NoPlay EXCEPT !.at = "other", !.tool = "other", !.fair = fair])
  <2> DEFINE r == [NoPlay EXCEPT !.at = "other", !.tool = "other", !.fair = fair]
  <2>1. /\ r \in PlayRecord /\ r.at = "other" /\ r.tool = "other" /\ r.n = 1
        /\ r.fair = fair /\ ~r.tried /\ r.outcome = "none"
    BY NoPlayFields DEF PlayRecord, Playing
  <2> HIDE DEF r
  <2>2. PlayFits(p, r)
    BY <1>2, <2>1, NewPlayFits
  <2>3. QED
    BY <2>2 DEF r
<1>3. QED
  BY <1>1, <1>2

-----------------------------------------------------------------------------
\* A command that was not sent is not one that the device has.
LEMMA ResultIs ==
    ASSUME NEW command, NEW result \in Results(command)
    PROVE  /\ result \in {"none", "not_allowed", "unavailable", "device"}
           /\ ~Sent(result) => command \notin AllowedCommands
  BY DEF Results, Sent, AllowedCommands

\* One field of a play is changed at a time.
LEMMA FieldsSet ==
    ASSUME NEW u \in PlayRecord
    PROVE  /\ \A n \in Nat \ {0} : [u EXCEPT !.n = n] \in PlayRecord
           /\ \A b \in BOOLEAN : [u EXCEPT !.got = b] \in PlayRecord
           /\ \A b \in BOOLEAN : [u EXCEPT !.tried = b] \in PlayRecord
           /\ \A e \in {"none", "not_allowed", "unavailable", "device", "refused"} :
                [u EXCEPT !.err = e] \in PlayRecord
  BY DEF PlayRecord

\* The fields of a play after a command, and at its end.
LEMMA AfterIs ==
    ASSUME NEW r \in PlayRecord, NEW at \in {"led", "scene", "card", "other"},
           NEW result \in {"none", "not_allowed", "unavailable", "device", "refused"}
    PROVE  /\ After(r, result, at) \in PlayRecord
           /\ After(r, result, at).at = at
           /\ After(r, result, at).tool = r.tool /\ After(r, result, at).id = r.id
           /\ After(r, result, at).cues = r.cues /\ After(r, result, at).n = r.n
           /\ After(r, result, at).fair = r.fair /\ After(r, result, at).outcome = r.outcome
           /\ After(r, result, at).tried <=> r.tried \/ Sent(result) \/ result = "refused"
<1> DEFINE b == (r.tried \/ Sent(result) \/ result = "refused")
           g == (r.got \/ result = "none")
           e == IF r.err = "none" THEN result ELSE r.err
<1>1. /\ b \in BOOLEAN /\ g \in BOOLEAN
      /\ e \in {"none", "not_allowed", "unavailable", "device", "refused"}
  BY DEF PlayRecord
<1>2. After(r, result, at) = [r EXCEPT !.at = at, !.got = g, !.err = e, !.tried = b]
  BY DEF After
<1>3. b <=> r.tried \/ Sent(result) \/ result = "refused"
  OBVIOUS
<1> HIDE DEF b, g, e
<1> DEFINE s == [r EXCEPT !.at = at, !.got = g, !.err = e, !.tried = b]
<1>4. /\ s \in PlayRecord /\ s.at = at /\ s.tool = r.tool /\ s.id = r.id /\ s.cues = r.cues
      /\ s.n = r.n /\ s.fair = r.fair /\ s.outcome = r.outcome /\ s.tried = b
  <2>1. s \in PlayRecord
    <3> DEFINE u == [r EXCEPT !.at = at, !.got = g]
    <3>1. u \in PlayRecord
      BY <1>1 DEF PlayRecord, Playing
    <3>2. [[u EXCEPT !.err = e] EXCEPT !.tried = b] \in PlayRecord
      BY <1>1, <3>1, FieldsSet
    <3>3. s = [[u EXCEPT !.err = e] EXCEPT !.tried = b]
      BY DEF PlayRecord
    <3>4. QED
      BY <3>2, <3>3
  <2>2. /\ s.at = at /\ s.tool = r.tool /\ s.id = r.id /\ s.cues = r.cues
        /\ s.n = r.n /\ s.outcome = r.outcome
    BY DEF PlayRecord
  <2>3. s.fair = r.fair /\ s.tried = b
    BY <1>1 DEF PlayRecord
  <2>4. QED
    BY <2>1, <2>2, <2>3
<1> HIDE DEF s
<1>5. After(r, result, at) = s
  BY <1>2 DEF s
<1>6. QED
  BY <1>3, <1>4, <1>5

LEMMA EndsIs ==
    ASSUME NEW r \in PlayRecord, NEW outcome \in {"ok", "skipped", "failed"}
    PROVE  /\ Ends(r, outcome) \in PlayRecord /\ Ends(r, outcome).at = "done"
           /\ Ends(r, outcome).tool = r.tool /\ Ends(r, outcome).id = r.id
           /\ Ends(r, outcome).cues = r.cues /\ Ends(r, outcome).fair = r.fair
           /\ Ends(r, outcome).tried = r.tried /\ Ends(r, outcome).outcome = outcome
<1> DEFINE s == [r EXCEPT !.at = "done", !.outcome = outcome, !.n = 1, !.got = FALSE,
                          !.err = "none"]
<1>1. /\ s \in PlayRecord /\ s.at = "done" /\ s.tool = r.tool /\ s.id = r.id /\ s.cues = r.cues
      /\ s.fair = r.fair /\ s.outcome = outcome /\ s.tried = r.tried
  <2>1. s \in PlayRecord
    <3> DEFINE u == [r EXCEPT !.at = "done", !.outcome = outcome]
    <3>1. u \in PlayRecord
      BY DEF PlayRecord, Playing
    <3>2. [[[u EXCEPT !.n = 1] EXCEPT !.got = FALSE] EXCEPT !.err = "none"] \in PlayRecord
      <4> DEFINE v == [u EXCEPT !.n = 1]
      <4>1. v \in PlayRecord
        BY <3>1, FieldsSet, 1 \in Nat \ {0}
      <4> HIDE DEF v
      <4>2. [v EXCEPT !.got = FALSE] \in PlayRecord
        BY <4>1, FieldsSet
      <4>3. [[v EXCEPT !.got = FALSE] EXCEPT !.err = "none"] \in PlayRecord
        BY <4>2, FieldsSet
      <4>4. QED
        BY <4>3 DEF v
    <3>3. s = [[[u EXCEPT !.n = 1] EXCEPT !.got = FALSE] EXCEPT !.err = "none"]
      BY DEF PlayRecord
    <3>4. QED
      BY <3>2, <3>3
  <2>2. /\ s.at = "done" /\ s.tool = r.tool /\ s.id = r.id /\ s.cues = r.cues
        /\ s.outcome = outcome
    BY DEF PlayRecord
  <2>3. s.fair = r.fair /\ s.tried = r.tried
    BY DEF PlayRecord
  <2>4. QED
    BY <2>1, <2>2, <2>3
<1>2. Ends(r, outcome) = s
  BY DEF Ends
<1> HIDE DEF s
<1>3. QED
  BY <1>1, <1>2

\* An end fits where the play before it did, if what is fair was tried.
LEMMA EndFits ==
    ASSUME NEW p, NEW r \in PlayRecord, NEW outcome \in {"ok", "skipped", "failed"},
           r.tool \in {"sequence", "play"} => ValidList(r.cues),
           p[2] = "call" /\ r.fair => r.tried
    PROVE  PlayFits(p, Ends(r, outcome))
<1> DEFINE s == Ends(r, outcome)
<1>1. /\ s \in PlayRecord /\ s.at = "done" /\ s.tool = r.tool /\ s.cues = r.cues
      /\ s.fair = r.fair /\ s.outcome = outcome /\ s.tried = r.tried
  BY EndsIs
<1> HIDE DEF s
<1>2. PlayIsValid(p, s)
  BY <1>1 DEF PlayIsValid, Playing
<1>3. p[2] = "call" => FairGoesOn(s)
  BY <1>1 DEF FairGoesOn
<1>4. QED
  BY <1>1, <1>2, <1>3 DEF PlayFits, s

\* A cue is played.
LEMMA PlayedFits ==
    ASSUME NEW p, NEW r \in PlayRecord, r.n <= Len(r.cues),
           p[2] = "call" => r.tool \in {"sequence", "play"},
           r.tool \in {"sequence", "play"} => ValidList(r.cues), r.outcome # "invalid",
           p[2] = "call" /\ r.fair => r.tried
    PROVE  PlayFits(p, Played(r))
<1>1. Outcome(r.err) \in {"ok", "skipped", "failed"}
  BY DEF Outcome
<1>2. CASE ~r.got
  BY <1>1, <1>2, EndFits DEF Played
<1>3. CASE r.got /\ r.n = Len(r.cues)
  BY <1>3, EndFits DEF Played
<1>4. CASE r.got /\ r.n # Len(r.cues)
  <2> DEFINE s == [r EXCEPT !.at = "gap"]
  <2>1. /\ s \in PlayRecord /\ s.at = "gap" /\ s.tool = r.tool /\ s.cues = r.cues /\ s.n = r.n
        /\ s.fair = r.fair /\ s.outcome = r.outcome /\ s.tried = r.tried
    BY DEF PlayRecord, Playing
  <2>2. Played(r) = s
    BY <1>4 DEF Played
  <2>3. r.n < Len(r.cues)
    <3>1. r.n \in Nat /\ Len(r.cues) \in Nat
      BY DEF PlayRecord
    <3>2. QED
      BY <1>4, <3>1
  <2> HIDE DEF s
  <2>4. PlayIsValid(p, s)
    BY <2>1, <2>3 DEF PlayIsValid
  <2>5. p[2] = "call" => FairGoesOn(s)
    BY <2>1 DEF FairGoesOn
  <2>6. QED
    BY <2>1, <2>2, <2>4, <2>5 DEF PlayFits
<1>5. QED
  BY <1>2, <1>3, <1>4

\* What goes on with a command goes on fairly.
LEMMA AfterFits ==
    ASSUME NEW p, NEW r, PlayFits(p, r), r.at \in {"motion", "led", "scene"},
           NEW at \in {"led", "scene"},
           NEW result \in {"none", "not_allowed", "unavailable", "device", "refused"},
           p[2] = "call" /\ r.fair /\ ~r.tried /\ ~Sent(result) /\ result # "refused" =>
             /\ at = "led" => AllowedCommands \cap {"led", "scene"} # {}
             /\ at = "scene" => "scene" \in AllowedCommands
    PROVE  /\ PlayFits(p, After(r, result, at))
           /\ After(r, result, at).n <= Len(After(r, result, at).cues)
           /\ After(r, result, at).outcome # "invalid"
<1> DEFINE s == After(r, result, at)
<1>1. r \in PlayRecord /\ PlayIsValid(p, r) /\ (p[2] = "call" => FairGoesOn(r))
  BY DEF PlayFits
<1>2. /\ s \in PlayRecord /\ s.at = at /\ s.tool = r.tool /\ s.id = r.id /\ s.cues = r.cues
      /\ s.n = r.n /\ s.fair = r.fair /\ s.outcome = r.outcome
      /\ s.tried <=> r.tried \/ Sent(result) \/ result = "refused"
  BY <1>1, AfterIs
<1> HIDE DEF s
<1>3. r.outcome # "invalid" /\ r.n <= Len(r.cues)
  BY <1>1 DEF PlayIsValid, Playing
<1>4. PlayIsValid(p, s)
  BY <1>1, <1>2, <1>3 DEF PlayIsValid, Playing
<1>5. p[2] = "call" => FairGoesOn(s)
  BY <1>2 DEF FairGoesOn
<1>6. QED
  BY <1>2, <1>3, <1>4, <1>5 DEF PlayFits, s

\* A player goes on with a record that fits.
LEMMA PlayGoesOn ==
    ASSUME PlayTypes, PlaysAreValid, FairCallsGoOn, NEW p \in Players, NEW r,
           PlayFits(p, r), Plays(p, r)
    PROVE  PlayTypes' /\ PlaysAreValid' /\ FairCallsGoOn'
<1> DEFINE s == IF p[2] # "call" /\ r.at = "done" THEN NoPlay ELSE r
<1>1. PlayFits(p, s) /\ s \in PlayRecord
  BY NoPlayFits DEF PlayFits
<1>2. play \in [Players -> PlayRecord]
  BY PlaysSplit
<1>3. play' = [play EXCEPT ![p] = s] /\ UNCHANGED <<section, cards>> /\ found \subseteq found'
  BY DEF Plays
<1> HIDE DEF s
<1>4. play' \in [Players -> PlayRecord] /\ \A q \in Players : play'[q] = play[q] \/ PlayFits(q, play'[q])
  BY <1>1, <1>2, <1>3
<1>5. QED
  BY <1>3, <1>4, PlaysFollow

LEMMA MotionKept ==
    ASSUME PlayTypes, PlaysAreValid, FairCallsGoOn, NEW p \in Players, NEW current,
           PlayMotion(p, current)
    PROVE  PlayTypes' /\ PlaysAreValid' /\ FairCallsGoOn'
<1>1. PlayFits(p, play[p]) /\ play[p].at = "motion"
  BY PlaysSplit DEF PlayMotion
<1>2. PICK result \in {"refused"} \cup Results("head") : Plays(p, After(play[p], result, "led"))
  BY DEF PlayMotion
<1>3. /\ result \in {"none", "not_allowed", "unavailable", "device", "refused"}
      /\ ~Sent(result) /\ result # "refused" => "head" \notin AllowedCommands
  BY ResultIs
<1>4. p[2] = "call" /\ play[p].fair /\ ~play[p].tried => MayExpress
  BY <1>1 DEF PlayFits, FairGoesOn
<1>5. MayExpress /\ "head" \notin AllowedCommands => AllowedCommands \cap {"led", "scene"} # {}
  BY DEF MayExpress, Commands
<1>6. PlayFits(p, After(play[p], result, "led"))
  BY <1>1, <1>3, <1>4, <1>5, AfterFits
<1>7. QED
  BY <1>2, <1>6, PlayGoesOn

LEMMA LEDKept ==
    ASSUME PlayTypes, PlaysAreValid, FairCallsGoOn, NEW p \in Players, NEW current,
           PlayLED(p, current)
    PROVE  PlayTypes' /\ PlaysAreValid' /\ FairCallsGoOn'
<1>1. PlayFits(p, play[p]) /\ play[p].at = "led"
  BY PlaysSplit DEF PlayLED
<1>2. PICK result \in {"refused"} \cup Results("led") :
        LET r == After(play[p], result, "scene")
        IN  Plays(p, IF p[2] = "call" THEN r ELSE Played(r))
  BY DEF PlayLED
<1>3. /\ result \in {"none", "not_allowed", "unavailable", "device", "refused"}
      /\ ~Sent(result) /\ result # "refused" => "led" \notin AllowedCommands
  BY ResultIs
<1>4. p[2] = "call" /\ play[p].fair /\ ~play[p].tried => AllowedCommands \cap {"led", "scene"} # {}
  BY <1>1 DEF PlayFits, FairGoesOn
<1> DEFINE r == After(play[p], result, "scene")
<1>5. PlayFits(p, r) /\ r.n <= Len(r.cues) /\ r.outcome # "invalid"
  BY <1>1, <1>3, <1>4, AfterFits
<1>6. Plays(p, IF p[2] = "call" THEN r ELSE Played(r))
  BY <1>2
<1> HIDE DEF r
<1>7. CASE p[2] = "call"
  BY <1>5, <1>6, <1>7, PlayGoesOn
<1>8. CASE p[2] # "call"
  <2>1. r \in PlayRecord /\ (r.tool \in {"sequence", "play"} => ValidList(r.cues))
    BY <1>5 DEF PlayFits, PlayIsValid
  <2>2. PlayFits(p, Played(r))
    BY <1>5, <1>8, <2>1, PlayedFits
  <2>3. QED
    BY <1>6, <1>8, <2>2, PlayGoesOn
<1>9. QED
  BY <1>7, <1>8

LEMMA SceneKept ==
    ASSUME PlayTypes, PlaysAreValid, FairCallsGoOn, NEW p \in Players, PlayScene(p)
    PROVE  PlayTypes' /\ PlaysAreValid' /\ FairCallsGoOn'
<1>1. PlayFits(p, play[p]) /\ play[p].at = "scene"
  BY PlaysSplit DEF PlayScene
<1>2. PICK result \in Results("scene") : Plays(p, Played(After(play[p], result, "scene")))
  BY DEF PlayScene
<1>3. /\ result \in {"none", "not_allowed", "unavailable", "device", "refused"}
      /\ ~Sent(result) => "scene" \notin AllowedCommands
  BY ResultIs
<1>4. p[2] = "call" /\ play[p].fair /\ ~play[p].tried => "scene" \in AllowedCommands
  BY <1>1 DEF PlayFits, FairGoesOn
<1> DEFINE r == After(play[p], result, "scene")
<1>5. PlayFits(p, r) /\ r.n <= Len(r.cues) /\ r.outcome # "invalid"
  BY <1>1, <1>3, <1>4, AfterFits
<1>6. p[2] = "call" /\ r.fair => r.tried
  BY <1>1, <1>3, <1>4, AfterIs DEF PlayFits
<1>7. Plays(p, Played(r))
  BY <1>2
<1> HIDE DEF r
<1>8. /\ r \in PlayRecord /\ (r.tool \in {"sequence", "play"} => ValidList(r.cues))
      /\ p[2] = "call" => r.tool \in {"sequence", "play"}
  <2>1. r \in PlayRecord /\ PlayIsValid(p, r)
    BY <1>5 DEF PlayFits
  <2>2. r.at = "scene"
    BY <1>1, <1>3, AfterIs DEF PlayFits, r
  <2>3. QED
    BY <1>5, <2>1, <2>2 DEF PlayIsValid, Playing
<1>9. PlayFits(p, Played(r))
  BY <1>5, <1>6, <1>8, PlayedFits
<1>10. QED
  BY <1>7, <1>9, PlayGoesOn

LEMMA GapKept ==
    ASSUME PlayTypes, PlaysAreValid, FairCallsGoOn, NEW p \in Players, PassGap(p)
    PROVE  PlayTypes' /\ PlaysAreValid' /\ FairCallsGoOn'
<1> DEFINE r == play[p]
           s == [r EXCEPT !.at = "motion", !.n = @ + 1, !.got = FALSE, !.err = "none"]
<1>1. PlayFits(p, r) /\ r.at = "gap"
  BY PlaysSplit DEF PassGap
<1>2. Plays(p, s) \/ Plays(p, Ends(r, "failed"))
  BY DEF PassGap
<1>3. r \in PlayRecord /\ PlayIsValid(p, r) /\ (p[2] = "call" => FairGoesOn(r))
  BY <1>1 DEF PlayFits
<1>4. /\ r.n < Len(r.cues) /\ r.outcome # "invalid"
      /\ r.tool \in {"sequence", "play"} => ValidList(r.cues)
      /\ p[2] = "call" => r.tool \in {"sequence", "play"}
      /\ p[2] = "call" /\ r.fair => r.tried
  BY <1>1, <1>3 DEF PlayIsValid, FairGoesOn, Playing
<1>5. PlayFits(p, Ends(r, "failed"))
  BY <1>3, <1>4, EndFits
<1>6. PlayFits(p, s)
  <2> HIDE DEF r
  <2>1. r.n \in Nat \ {0} /\ r.n + 1 \in Nat \ {0} /\ Len(r.cues) \in Nat
    BY <1>3 DEF PlayRecord
  <2>2. s \in PlayRecord
    <3> DEFINE u == [r EXCEPT !.at = "motion"]
               v == [u EXCEPT !.n = r.n + 1]
    <3>1. u \in PlayRecord
      BY <1>3 DEF PlayRecord, Playing
    <3> HIDE DEF u
    <3>2. v \in PlayRecord
      BY <2>1, <3>1, FieldsSet
    <3> HIDE DEF v
    <3>3. [v EXCEPT !.got = FALSE] \in PlayRecord
      BY <3>2, FieldsSet
    <3>4. [[v EXCEPT !.got = FALSE] EXCEPT !.err = "none"] \in PlayRecord
      BY <3>3, FieldsSet
    <3>5. s = [[v EXCEPT !.got = FALSE] EXCEPT !.err = "none"]
      BY <1>3 DEF PlayRecord, u, v
    <3>6. QED
      BY <3>4, <3>5
  <2>3. /\ s.at = "motion" /\ s.tool = r.tool /\ s.cues = r.cues /\ s.outcome = r.outcome
        /\ s.n = r.n + 1
    BY <1>3 DEF PlayRecord
  <2>4. s.fair = r.fair /\ s.tried = r.tried
    BY <1>3 DEF PlayRecord
  <2> HIDE DEF s
  <2>5. s.n <= Len(s.cues)
    BY <1>4, <2>1, <2>3
  <2>6. PlayIsValid(p, s)
    BY <1>4, <2>3, <2>5 DEF PlayIsValid, Playing
  <2>7. p[2] = "call" => FairGoesOn(s)
    BY <1>4, <2>4 DEF FairGoesOn
  <2>8. QED
    BY <2>2, <2>6, <2>7 DEF PlayFits
<1> HIDE DEF r, s
<1>7. QED
  BY <1>2, <1>5, <1>6, PlayGoesOn

\* A card, or a tool of the device's own, is one command.
LEMMA OneCommandKept ==
    ASSUME PlayTypes, PlaysAreValid, FairCallsGoOn, NEW p \in Players,
           PlayCard(p) \/ PlayOther(p)
    PROVE  PlayTypes' /\ PlaysAreValid' /\ FairCallsGoOn'
<1> DEFINE r == play[p]
<1>1. PICK command \in {"scene", "volume"}, at \in {"card", "other"} :
        \E result \in Results(command) :
            /\ r.at = at /\ (at = "card" <=> command = "scene")
            /\ Plays(p, CallEnds(result, After(r, result, at)))
  BY DEF PlayCard, PlayOther
<1>2. PICK result \in Results(command) :
        /\ r.at = at /\ (at = "card" <=> command = "scene")
        /\ Plays(p, CallEnds(result, After(r, result, at)))
  BY <1>1
<1>3. /\ result \in {"none", "not_allowed", "unavailable", "device", "refused"}
      /\ ~Sent(result) => command \notin AllowedCommands
  BY ResultIs
<1>4. r \in PlayRecord /\ PlayIsValid(p, r) /\ (p[2] = "call" => FairGoesOn(r))
  BY PlaysSplit DEF PlayFits
<1> DEFINE s == After(r, result, at)
<1>5. /\ s \in PlayRecord /\ s.tool = r.tool /\ s.fair = r.fair
      /\ s.tried <=> r.tried \/ Sent(result) \/ result = "refused"
  BY <1>3, <1>4, AfterIs
<1>6. Plays(p, CallEnds(result, s))
  BY <1>2
<1> HIDE DEF s, r
<1>7. s.tool \notin {"sequence", "play"}
  BY <1>2, <1>4, <1>5 DEF PlayIsValid
<1>8. p[2] = "call" /\ s.fair => s.tried
  BY <1>2, <1>3, <1>4, <1>5 DEF FairGoesOn
<1>9. PICK outcome \in {"ok", "skipped", "failed"} : CallEnds(result, s) = Ends(s, outcome)
  BY DEF CallEnds, Outcome
<1>10. PlayFits(p, Ends(s, outcome))
  BY <1>5, <1>7, <1>8, EndFits
<1>11. QED
  BY <1>6, <1>9, <1>10, PlayGoesOn

LEMMA PlayOnKept ==
    ASSUME PlayTypes, PlaysAreValid, FairCallsGoOn, NEW p \in Players, NEW current,
           PlayOn(p, current)
    PROVE  PlayTypes' /\ PlaysAreValid' /\ FairCallsGoOn'
  BY MotionKept, LEDKept, SceneKept, GapKept, OneCommandKept DEF PlayOn

LEMMA DiscoverKept ==
    ASSUME PlayTypes, PlaysAreValid, FairCallsGoOn, Discover \/ SendDisplayScene
    PROVE  PlayTypes' /\ PlaysAreValid' /\ FairCallsGoOn'
<1>1. UNCHANGED <<section, cards, play>> /\ found \subseteq found'
  BY DEF Discover, SendDisplayScene
<1>2. play' \in [Players -> PlayRecord]
  BY <1>1, PlaysSplit
<1>3. QED
  BY <1>1, <1>2, PlaysFollow

\* A step of a player that starts the goroutine of a cue.
LEMMA CuedKept ==
    ASSUME PlayTypes, PlaysAreValid, FairCallsGoOn, UNCHANGED <<section, cards, found>>,
           NEW p \in Players, NEW r, PlayFits(p, r),
           NEW t \in Speakers, NEW trigger \in Triggers, NEW name,
           NEW entries, NEW names, ValidTriggers(entries, names),
           play' = Cued([play EXCEPT ![p] = r], t, trigger, name, entries)
    PROVE  PlayTypes' /\ PlaysAreValid' /\ FairCallsGoOn'
<1> DEFINE plays == [play EXCEPT ![p] = r]
<1>1. play \in [Players -> PlayRecord] /\ r \in PlayRecord
  BY PlaysSplit DEF PlayFits
<1>2. /\ plays \in [Players -> PlayRecord]
      /\ \A q \in Players : plays[q] = play[q] \/ PlayFits(q, plays[q])
  BY <1>1
<1>3. play' = Cued(plays, t, trigger, name, entries)
  OBVIOUS
<1> HIDE DEF plays
<1>4. /\ play' \in [Players -> PlayRecord]
      /\ \A q \in Players : play'[q] = plays[q] \/ PlayFits(q, play'[q])
  <2> DEFINE new == Cued(plays, t, trigger, name, entries)
  <2>1. /\ new \in [Players -> PlayRecord]
        /\ \A q \in Players : new[q] = plays[q] \/ PlayFits(q, new[q])
    BY <1>2, CuedPlays
  <2>2. play' = new
    BY <1>3
  <2> HIDE DEF new
  <2>3. QED
    BY <2>1, <2>2
<1>5. \A q \in Players : play'[q] = play[q] \/ PlayFits(q, play'[q])
  BY <1>2, <1>4
<1>6. QED
  BY <1>4, <1>5, PlaysFollow

LEMMA AskKept ==
    ASSUME PlayTypes, PlaysAreValid, FairCallsGoOn, ValidSection(section),
           NEW t \in Speakers, AskModel(t)
    PROVE  PlayTypes' /\ PlaysAreValid' /\ FairCallsGoOn'
<1> DEFINE p == <<t, "call">>
           r == play[p]
           s == [r EXCEPT !.at = "asked"]
<1>1. p \in Players /\ p[2] = "call"
  BY DEF Players
<1>2. PlayFits(p, r) /\ r.at = "idle"
  BY <1>1, PlaysSplit DEF AskModel
<1>3. play' = Cued([play EXCEPT ![p] = s], t, "thinking", "thinking", section.lifecycleCues)
  BY <1>1, PlaysSplit DEF AskModel
<1> HIDE DEF r
<1>4. /\ s \in PlayRecord /\ s.at = "asked" /\ s.tool = r.tool /\ s.cues = r.cues
      /\ s.fair = r.fair /\ s.tried = r.tried /\ s.outcome = r.outcome
  BY <1>2 DEF PlayFits, PlayRecord, Playing
<1> HIDE DEF s
<1>5. PlayIsValid(p, s)
  BY <1>2, <1>4 DEF PlayFits, PlayIsValid, Playing
<1>6. FairGoesOn(s)
  BY <1>1, <1>2, <1>4 DEF PlayFits, FairGoesOn
<1>7. PlayFits(p, s)
  BY <1>4, <1>5, <1>6 DEF PlayFits
<1>8. ValidTriggers(section.lifecycleCues, Lifecycles) /\ UNCHANGED <<section, cards, found>>
  BY DEF ValidSection, AskModel
<1> HIDE DEF p
<1>9. "thinking" \in Triggers
  BY DEF Triggers
<1>10. QED
  BY <1>1, <1>3, <1>7, <1>8, <1>9, CuedKept

LEMMA BeginsKept ==
    ASSUME PlayTypes, PlaysAreValid, FairCallsGoOn, ValidSection(section),
           NEW t \in Speakers, NEW r, PlayFits(<<t, "call">>, r), Begins(t, r)
    PROVE  PlayTypes' /\ PlaysAreValid' /\ FairCallsGoOn'
<1>1. <<t, "call">> \in Players /\ "tool.running" \in Triggers
  BY DEF Players, Triggers
<1>2. play' = Cued([play EXCEPT ![<<t, "call">>] = r], t, "tool.running", "tool.running",
                   section.eventCues)
  BY DEF Begins
<1>3. ValidTriggers(section.eventCues, Events) /\ UNCHANGED <<section, cards, found>>
  BY DEF ValidSection, Begins
<1>4. QED
  BY <1>1, <1>2, <1>3, CuedKept

\* A call begins with a record that fits, whatever is asked for.
LEMMA ExpressionBegins ==
    ASSUME DeviceTypes, OffersAreAllowed, NEW t \in Speakers, CallExpression(t)
    PROVE  \E r : PlayFits(<<t, "call">>, r) /\ Begins(t, r)
<1> DEFINE p == <<t, "call">>
           fair == offered[t].express
<1>1. PICK cues \in AskedCues :
        Begins(t, IF Resolvable(cues)
                  THEN [NoPlay EXCEPT !.at = "motion", !.tool = "sequence", !.cues = cues,
                                      !.fair = offered[t].express]
                  ELSE Refused("invalid"))
  BY DEF CallExpression
<1>2. p[2] = "call" /\ fair \in BOOLEAN /\ (fair => MayExpress) /\ cues \in Seq(STRING)
  BY DeviceAssumption DEF DeviceTypes, OffersAreAllowed
<1>3. CASE ValidList(cues)
  <2> DEFINE r == [NoPlay EXCEPT !.at = "motion", !.tool = "sequence", !.cues = cues, !.fair = fair]
  <2>1. Begins(t, r)
    BY <1>1, <1>3 DEF Resolvable
  <2> HIDE DEF fair
  <2>2. PlayFits(p, r)
    BY <1>2, <1>3, SequenceFits
  <2>3. QED
    BY <2>1, <2>2
<1>4. CASE ~ValidList(cues)
  <2>1. Begins(t, Refused("invalid"))
    BY <1>1, <1>4 DEF Resolvable
  <2>2. PlayFits(p, Refused("invalid"))
    BY <1>2, CallFits
  <2>3. QED
    BY <2>1, <2>2
<1>5. QED
  BY <1>3, <1>4

LEMMA SequenceBegins ==
    ASSUME DeviceTypes, ValidSection(section), OffersAreAllowed, NEW t \in Speakers,
           CallSequence(t)
    PROVE  \E r : PlayFits(<<t, "call">>, r) /\ Begins(t, r)
<1> DEFINE p == <<t, "call">>
           sequences == Converted(section.sequences)
<1>1. PICK id \in AskedIds :
        Begins(t, IF id \in DOMAIN sequences
                  THEN [NoPlay EXCEPT !.at = "motion", !.tool = "play", !.id = id,
                                      !.cues = sequences[id].cues,
                                      !.fair = id \in offered[t].sequences]
                  ELSE [Refused("invalid") EXCEPT !.tool = "play", !.id = id])
  BY DEF CallSequence
<1>2. p[2] = "call" /\ DOMAIN sequences = IdsOf(section.sequences)
  BY ConvertedIs
<1>3. CASE id \in DOMAIN sequences
  <2> DEFINE cues == sequences[id].cues
             fair == id \in offered[t].sequences
             r == [NoPlay EXCEPT !.at = "motion", !.tool = "play", !.id = id, !.cues = cues,
                                 !.fair = fair]
  <2>1. Begins(t, r)
    BY <1>1, <1>3
  <2>2. sequences[id] \in section.sequences
    BY <1>2, <1>3, ConvertedIs
  <2>3. cues \in Seq(STRING) /\ ValidList(cues)
    BY <2>2, DeviceAssumption DEF DeviceTypes, ValidSection, ValidSequences
  <2>4. fair \in BOOLEAN /\ (fair => MayExpress)
    BY DEF OffersAreAllowed
  <2> HIDE DEF fair, cues
  <2>5. PlayFits(p, r)
    BY <1>2, <2>3, <2>4, SequenceFits
  <2>6. QED
    BY <2>1, <2>5
<1>4. CASE id \notin DOMAIN sequences
  <2>1. Begins(t, [Refused("invalid") EXCEPT !.tool = "play", !.id = id])
    BY <1>1, <1>4
  <2>2. PlayFits(p, [Refused("invalid") EXCEPT !.tool = "play", !.id = id])
    BY <1>2, <1>4, CallFits
  <2>3. QED
    BY <2>1, <2>2
<1>5. QED
  BY <1>3, <1>4

LEMMA CardBegins ==
    ASSUME OffersAreAllowed, NEW t \in Speakers, CallCard(t)
    PROVE  \E r : PlayFits(<<t, "call">>, r) /\ Begins(t, r)
<1> DEFINE p == <<t, "call">>
<1>1. PICK id \in AskedIds :
        Begins(t, IF id \in DOMAIN cards
                  THEN [NoPlay EXCEPT !.at = "card", !.tool = "card", !.id = id,
                                      !.fair = id \in offered[t].cards]
                  ELSE [Refused("invalid") EXCEPT !.tool = "card", !.id = id])
  BY DEF CallCard
<1>2. p[2] = "call"
  OBVIOUS
<1>3. CASE id \in DOMAIN cards
  <2> DEFINE fair == id \in offered[t].cards
             r == [NoPlay EXCEPT !.at = "card", !.tool = "card", !.id = id, !.fair = fair]
  <2>1. Begins(t, r)
    BY <1>1, <1>3
  <2>2. fair \in BOOLEAN /\ (fair => "scene" \in AllowedCommands)
    BY DEF OffersAreAllowed
  <2> HIDE DEF fair
  <2>3. PlayFits(p, r)
    BY <1>2, <1>3, <2>2, CardFits
  <2>4. QED
    BY <2>1, <2>3
<1>4. CASE id \notin DOMAIN cards
  <2>1. Begins(t, [Refused("invalid") EXCEPT !.tool = "card", !.id = id])
    BY <1>1, <1>4
  <2>2. PlayFits(p, [Refused("invalid") EXCEPT !.tool = "card", !.id = id])
    BY <1>2, <1>4, CallFits
  <2>3. QED
    BY <2>1, <2>2
<1>5. QED
  BY <1>3, <1>4

LEMMA OtherBegins ==
    ASSUME OffersAreAllowed, NEW t \in Speakers, CallRaw(t) \/ CallOther(t)
    PROVE  \E r : PlayFits(<<t, "call">>, r) /\ Begins(t, r)
<1> DEFINE p == <<t, "call">>
           fair == "volume" \in offered[t].others
           r == [NoPlay EXCEPT !.at = "other", !.tool = "other", !.fair = fair]
<1>1. p[2] = "call" /\ fair \in BOOLEAN /\ (fair => "volume" \in AllowedCommands)
  BY DEF OffersAreAllowed
<1>2. Begins(t, Refused("skipped")) \/ Begins(t, r)
  BY DEF CallRaw, CallOther
<1> HIDE DEF fair
<1>3. PlayFits(p, Refused("skipped")) /\ PlayFits(p, r)
  BY <1>1, CallFits, CardFits
<1>4. QED
  BY <1>2, <1>3

LEMMA CallKept ==
    ASSUME DeviceTypes, PlaysAreValid, FairCallsGoOn, ValidSection(section), OffersAreAllowed,
           NEW t \in Speakers, CallDeviceTool(t)
    PROVE  PlayTypes' /\ PlaysAreValid' /\ FairCallsGoOn'
<1>1. PICK r : PlayFits(<<t, "call">>, r) /\ Begins(t, r)
  BY ExpressionBegins, SequenceBegins, CardBegins, OtherBegins DEF CallDeviceTool
<1>2. QED
  BY <1>1, BeginsKept DEF DeviceTypes

LEMMA ReportKept ==
    ASSUME PlayTypes, PlaysAreValid, FairCallsGoOn, ValidSection(section),
           NEW t \in Speakers, ReportOutcome(t)
    PROVE  PlayTypes' /\ PlaysAreValid' /\ FairCallsGoOn'
<1> DEFINE p == <<t, "call">>
           r == [NoPlay EXCEPT !.at = "reported"]
           event == IF play[p].outcome = "ok" THEN "tool.succeeded" ELSE "tool.failed"
<1>1. p \in Players /\ p[2] = "call" /\ "tool.ended" \in Triggers
  BY DEF Players, Triggers
<1>2. play' = Cued([play EXCEPT ![p] = r], t, "tool.ended", event, section.eventCues)
  BY DEF ReportOutcome
<1>3. PlayFits(p, r)
  BY <1>1, CallFits
<1>4. ValidTriggers(section.eventCues, Events) /\ UNCHANGED <<section, cards, found>>
  BY DEF ValidSection, ReportOutcome
<1> HIDE DEF p, r, event
<1>5. QED
  BY <1>1, <1>2, <1>3, <1>4, CuedKept

-----------------------------------------------------------------------------
\* What the admin API says of a command, on its own.
CommandIsListed(c) ==
    /\ c.kind = "head" =>
         /\ c.cue \in IdsOf({e \in section.cues : e.motion # <<>>}) =>
              c.value = CatalogPlan(c.cue).motion
         /\ section.yaw # <<0, 0>> => Within(c.value[1], section.yaw)
         /\ section.pitch # <<0, 0>> => Within(c.value[2], section.pitch)
    /\ c.kind = "scene" => c.value = CatalogPlan(c.cue).scene
    /\ c.kind = "card" =>
         /\ c.of \in DOMAIN listed
         /\ Distinct(section.cards) => c.value = CardScene(listed[c.of])
    /\ c.kind = "event" => [id |-> c.of, scene |-> c.value] \in CatalogEvents

RefusedIsUnlisted(r) ==
    r.outcome = "invalid" =>
        /\ r.tool = "play" => r.id \notin CatalogSequences
        /\ r.tool = "card" => r.id \notin DOMAIN listed

LEMMA CatalogSplit ==
    /\ CatalogIsTrue => CommandIsListed(last)
    /\ CommandIsListed(last)' /\ (\A t \in Speakers : RefusedIsUnlisted(play[<<t, "call">>])') =>
         CatalogIsTrue'
<1>1. CatalogIsTrue <=> CommandIsListed(last) /\ \A t \in Speakers : RefusedIsUnlisted(play[<<t, "call">>])
  BY Zenon DEF CatalogIsTrue, CommandIsListed, RefusedIsUnlisted
<1>2. CatalogIsTrue' <=> CommandIsListed(last)' /\ \A t \in Speakers : RefusedIsUnlisted(play[<<t, "call">>])'
  BY Zenon DEF CatalogIsTrue, CommandIsListed, RefusedIsUnlisted
<1>3. QED
  BY <1>1, <1>2

LEMMA CommandLater ==
    ASSUME UNCHANGED <<section, listed>>, CommandIsListed(last')
    PROVE  CommandIsListed(last)'
  BY DEF CommandIsListed, CatalogPlan, CatalogEvents

LEMMA NoCommandIsListed == CommandIsListed(NoCommand)
<1>1. NoCommand.kind = "none"
  BY DEF NoCommand
<1>2. QED
  BY <1>1 DEF CommandIsListed

LEMMA DefaultMotions == \A cue \in Cues : DefaultPlan[cue].motion \in Int \X Int
  BY DEF Cues, DefaultPlan

\* A configured motion is sent as it is, and no motion goes beyond the limits.
LEMMA HeadIsListed ==
    ASSUME section \in Sections, ValidSection(section), NEW cue \in Cues, NEW of
    PROVE  CommandIsListed([kind |-> "head", of |-> of, cue |-> cue,
                            value |-> ClampMotion(Plan(cue).motion)])
<1> DEFINE policies == Converted(section.cues)
           m == Plan(cue).motion
           v == ClampMotion(m)
<1>1. CatalogPlan(cue) = Plan(cue)
  BY DEF CatalogPlan, Plan, Converted
<1>2. /\ section.yaw \in Int \X Int /\ section.pitch \in Int \X Int
      /\ \A e \in section.cues : e.motion \in {<<>>} \cup (Int \X Int)
  BY DeviceAssumption
<1>3. /\ section.yaw[1] <= section.yaw[2] /\ section.pitch[1] <= section.pitch[2]
      /\ Distinct(section.cues)
      /\ \A e \in section.cues :
           e.motion # <<>> => Within(e.motion[1], section.yaw) /\ Within(e.motion[2], section.pitch)
  BY DEF ValidSection, ValidBody, ValidCues
<1>4. cue \in IdsOf(section.cues) =>
        /\ policies[cue] \in section.cues /\ policies[cue].id = cue
        /\ m = IF policies[cue].motion = <<>> THEN DefaultPlan[cue].motion ELSE policies[cue].motion
  BY ConvertedIs DEF Plan, PlanWith, Merged
<1>5. cue \notin IdsOf(section.cues) => m = DefaultPlan[cue].motion
  BY ConvertedIs DEF Plan, PlanWith
<1>6. m \in Int \X Int
  BY <1>2, <1>4, <1>5, DefaultMotions
<1>7. cue \in IdsOf({e \in section.cues : e.motion # <<>>}) =>
        Within(m[1], section.yaw) /\ Within(m[2], section.pitch)
  <2>1. ASSUME cue \in IdsOf({e \in section.cues : e.motion # <<>>})
        PROVE  Within(m[1], section.yaw) /\ Within(m[2], section.pitch)
    <3>1. PICK e \in section.cues : e.motion # <<>> /\ e.id = cue
      BY <2>1 DEF IdsOf
    <3>2. policies[cue] = e /\ cue \in IdsOf(section.cues)
      BY <1>3, <1>4, <3>1 DEF Distinct, IdsOf
    <3>3. m = e.motion
      BY <1>4, <3>1, <3>2
    <3>4. QED
      BY <1>3, <3>1, <3>3
  <2>2. QED
    BY <2>1
<1> HIDE DEF m, policies
<1>8. v = <<Clamp(m[1], Effective(section.yaw, <<-45, 45>>)),
            Clamp(m[2], Effective(section.pitch, <<0, 45>>))>>
  BY DEF ClampMotion
<1>9. m[1] \in Int /\ m[2] \in Int /\ m = <<m[1], m[2]>>
  BY <1>6
<1>10. /\ section.yaw[1] \in Int /\ section.yaw[2] \in Int
       /\ section.pitch[1] \in Int /\ section.pitch[2] \in Int
  BY <1>2
<1>11. /\ Within(m[1], section.yaw) => Clamp(m[1], Effective(section.yaw, <<-45, 45>>)) = m[1]
       /\ Within(m[2], section.pitch) => Clamp(m[2], Effective(section.pitch, <<0, 45>>)) = m[2]
  BY <1>9, <1>10 DEF Within, Clamp, Effective
<1>12. /\ section.yaw # <<0, 0>> => Within(Clamp(m[1], Effective(section.yaw, <<-45, 45>>)), section.yaw)
       /\ section.pitch # <<0, 0>> =>
            Within(Clamp(m[2], Effective(section.pitch, <<0, 45>>)), section.pitch)
  BY <1>3, <1>9, <1>10 DEF Within, Clamp, Effective
<1>13. cue \in IdsOf({e \in section.cues : e.motion # <<>>}) => v = m
  BY <1>7, <1>8, <1>9, <1>11
<1>14. /\ section.yaw # <<0, 0>> => Within(v[1], section.yaw)
       /\ section.pitch # <<0, 0>> => Within(v[2], section.pitch)
  BY <1>8, <1>12
<1> HIDE DEF v
<1> DEFINE c == [kind |-> "head", of |-> of, cue |-> cue, value |-> v]
<1>15. c.kind = "head" /\ c.cue = cue /\ c.value = v
  OBVIOUS
<1> HIDE DEF c
<1>16. CommandIsListed(c)
  BY <1>1, <1>13, <1>14, <1>15 DEF CommandIsListed, m
<1>17. QED
  BY <1>16 DEF c, v, m

LEMMA LEDIsListed ==
    ASSUME NEW of, NEW cue, NEW value
    PROVE  /\ CommandIsListed([kind |-> "led", of |-> of, cue |-> cue, value |-> value])
           /\ CommandIsListed([NoCommand EXCEPT !.kind = "other"])
<1>1. [NoCommand EXCEPT !.kind = "other"].kind = "other"
  BY DEF NoCommand
<1>2. QED
  BY <1>1 DEF CommandIsListed

LEMMA SceneIsListed ==
    ASSUME NEW of, NEW cue
    PROVE  CommandIsListed([kind |-> "scene", of |-> of, cue |-> cue, value |-> Plan(cue).scene])
<1>1. CatalogPlan(cue) = Plan(cue)
  BY DEF CatalogPlan, Plan, Converted
<1>2. QED
  BY <1>1 DEF CommandIsListed

LEMMA CardIsListed ==
    ASSUME SectionIsLoaded, NEW id \in DOMAIN cards
    PROVE  CommandIsListed([kind |-> "card", of |-> id, cue |-> "none",
                            value |-> CardScene(cards[id])])
<1>1. /\ cards \in [IdsOf(section.cards) -> section.cards]
      /\ listed \in [IdsOf(section.cards) -> section.cards]
      /\ \A i \in IdsOf(section.cards) : cards[i].id = i /\ listed[i].id = i
  BY DEF SectionIsLoaded, Choices
<1>2. id \in DOMAIN listed /\ (Distinct(section.cards) => cards[id] = listed[id])
  BY <1>1 DEF Distinct
<1>3. QED
  BY <1>2 DEF CommandIsListed

LEMMA ScreenIsListed ==
    ASSUME NEW c \in {LifecycleScreen("thinking")} \cup {EventScreen(e) : e \in section.events}
    PROVE  CommandIsListed(c)
<1>1. CASE c = LifecycleScreen("thinking")
  <2>1. c.kind = "lifecycle"
    BY <1>1 DEF LifecycleScreen
  <2>2. QED
    BY <2>1 DEF CommandIsListed
<1>2. ASSUME NEW e \in section.events, c = EventScreen(e)
      PROVE  CommandIsListed(c)
  <2>1. c.kind = "event" /\ c.of = e.id /\ c.value = EventSceneOf(e)
    BY <1>2 DEF EventScreen
  <2>2. [id |-> e.id, scene |-> EventSceneOf(e)] \in CatalogEvents
    BY DEF CatalogEvents
  <2>3. QED
    BY <2>1, <2>2 DEF CommandIsListed
<1>3. QED
  BY <1>1, <1>2

Screens == {LifecycleScreen("thinking")} \cup {EventScreen(e) : e \in section.events}

LEMMA EventScreensAre == ASSUME NEW name PROVE EventScreens(name) \subseteq Screens
<1> DEFINE plain == {e \in section.events : e.form = "plain"}
<1>1. ASSUME NEW id \in {name} \cap DOMAIN Converted(plain)
      PROVE  [kind |-> "event", of |-> id, cue |-> "none",
              value |-> EventSceneOf(Converted(plain)[id])] \in Screens
  <2>1. Converted(plain)[id] \in plain /\ Converted(plain)[id].id = id
    BY <1>1, ConvertedIs
  <2>2. PICK e \in section.events : e = Converted(plain)[id] /\ e.id = id
    BY <2>1
  <2>3. EventScreen(e) = [kind |-> "event", of |-> id, cue |-> "none",
                          value |-> EventSceneOf(Converted(plain)[id])]
    BY <2>2 DEF EventScreen
  <2>4. QED
    BY <2>2, <2>3 DEF Screens
<1>2. EventScreens(name) = {[kind |-> "event", of |-> id, cue |-> "none",
                             value |-> EventSceneOf(Converted(plain)[id])] :
                               id \in {name} \cap DOMAIN Converted(plain)}
  BY DEF EventScreens, ConvertedScenes
<1>3. QED
  BY <1>1, <1>2

LEMMA EnqueuedIs ==
    ASSUME screens \in Seq(Screens), NEW scenes, scenes \subseteq Screens
    PROVE  Enqueued(scenes) \in Seq(Screens)
<1>1. CASE scenes = {} \/ Len(screens) = QueueSize
  BY <1>1 DEF Enqueued
<1>2. CASE ~(scenes = {} \/ Len(screens) = QueueSize)
  <2>1. (CHOOSE s \in scenes : TRUE) \in Screens
    BY <1>2
  <2>2. QED
    BY <1>2, <2>1 DEF Enqueued
<1>3. QED
  BY <1>1, <1>2

\* What the steps of the device leave alone.
DeviceActs ==
    \/ \E t \in Turns : AskModel(t) \/ CallDeviceTool(t) \/ ReportOutcome(t)
    \/ \E p \in Players, current \in BOOLEAN : PlayOn(p, current)
    \/ Discover \/ SendDisplayScene

LEMMA ActCases ==
    ASSUME DeviceActs
    PROVE  \/ \E t \in Turns : AskModel(t)
           \/ \E t \in Turns : \E r : Begins(t, r)
           \/ \E t \in Turns : ReportOutcome(t)
           \/ \E p \in Players, current \in BOOLEAN : PlayOn(p, current) /\ \E r : Plays(p, r)
           \/ Discover \/ SendDisplayScene
<1>1. \A t \in Turns : CallDeviceTool(t) => \E r : Begins(t, r)
  BY DEF CallDeviceTool, CallExpression, CallSequence, CallCard, CallRaw, CallOther
<1>2. \A p \in Players, current \in BOOLEAN : PlayOn(p, current) => \E r : Plays(p, r)
  BY DEF PlayOn, PlayMotion, PlayLED, PlayScene, PassGap, PlayCard, PlayOther
<1>3. QED
  BY <1>1, <1>2 DEF DeviceActs

LEMMA ScreensKept ==
    ASSUME screens \in Seq(Screens), DeviceActs
    PROVE  screens' \in Seq(Screens')
<1>1. UNCHANGED section
  BY SectionStays DEF DeviceActs
<1>2. Screens' = Screens
  BY <1>1 DEF Screens, LifecycleScreen
<1>3. ASSUME NEW t, AskModel(t)
      PROVE  screens' \in Seq(Screens)
  <2>1. {LifecycleScreen("thinking")} \subseteq Screens
    BY DEF Screens
  <2>2. QED
    BY <1>3, <2>1, EnqueuedIs DEF AskModel
<1>4. ASSUME NEW t, NEW r, Begins(t, r)
      PROVE  screens' \in Seq(Screens)
  BY <1>4, EventScreensAre, EnqueuedIs DEF Begins
<1>5. ASSUME NEW t, ReportOutcome(t)
      PROVE  screens' \in Seq(Screens)
  BY <1>5, EventScreensAre, EnqueuedIs DEF ReportOutcome
<1>6. \A p, r : Plays(p, r) => screens' \in Seq(Screens)
  BY DEF Plays
<1>7. CASE Discover
  BY <1>2, <1>7 DEF Discover
<1>8. CASE SendDisplayScene
  BY <1>2, <1>8 DEF SendDisplayScene
<1>9. QED
  BY <1>2, <1>3, <1>4, <1>5, <1>6, <1>7, <1>8, ActCases

\* The offer of a turn is what was allowed, and more is allowed later.
LEMMA OffersKept ==
    ASSUME DeviceTypes, OffersAreAllowed, DeviceActs
    PROVE  /\ DOMAIN offered' = Speakers /\ \A t \in Speakers : offered'[t].express \in BOOLEAN
           /\ found' # {} => known'
           /\ OffersAreAllowed'
<1>1. UNCHANGED section
  BY SectionStays DEF DeviceActs
<1>2. /\ DOMAIN offered = Speakers /\ \A t \in Speakers : offered[t].express \in BOOLEAN
      /\ found # {} => known
  BY DEF DeviceTypes
<1>3. CASE UNCHANGED <<offered, found, known>>
  <2>1. AllowedCommands' = AllowedCommands /\ MayExpress' = MayExpress
    BY <1>1, <1>3 DEF AllowedCommands, MayExpress
  <2>2. QED
    BY <1>2, <1>3, <2>1 DEF OffersAreAllowed
<1>4. CASE Discover
  <2>1. UNCHANGED offered /\ known' = TRUE
    BY <1>4 DEF Discover
  <2>2. found \subseteq found'
    BY <1>4 DEF Discover
  <2>3. AllowedCommands \subseteq AllowedCommands' /\ (MayExpress => MayExpress')
    BY <1>1, <2>2 DEF AllowedCommands, MayExpress
  <2>4. OffersAreAllowed'
    BY <2>1, <2>3 DEF OffersAreAllowed
  <2>5. QED
    BY <1>2, <2>1, <2>4
<1>5. ASSUME NEW t \in Turns, AskModel(t)
      PROVE  /\ DOMAIN offered' = Speakers /\ \A s \in Speakers : offered'[s].express \in BOOLEAN
             /\ found' # {} => known'
             /\ OffersAreAllowed'
  <2>1. offered' = [offered EXCEPT ![t] = Offer] /\ UNCHANGED <<found, known>>
    BY <1>5 DEF AskModel
  <2>2. AllowedCommands' = AllowedCommands /\ MayExpress' = MayExpress
    BY <1>1, <2>1 DEF AllowedCommands, MayExpress
  <2>3. Offer.express \in BOOLEAN /\ (Offer.express => MayExpress)
    BY DeviceAssumption DEF DeviceTypes, Offer
  <2>4. Offer.sequences # {} => MayExpress
    BY DeviceAssumption DEF DeviceTypes, Offer
  <2>5. Offer.cards # {} => "scene" \in AllowedCommands
    BY DEF Offer
  <2>6. Offer.others \subseteq AllowedCommands
    BY DEF Offer
  <2>7. \A s \in Speakers : offered'[s] = offered[s] \/ offered'[s] = Offer
    BY <1>2, <2>1
  <2>8. OffersAreAllowed'
    BY <2>2, <2>3, <2>4, <2>5, <2>6, <2>7 DEF OffersAreAllowed
  <2>9. QED
    BY <1>2, <2>1, <2>3, <2>7, <2>8
<1>6. \/ UNCHANGED <<offered, found, known>> \/ Discover \/ \E t \in Turns : AskModel(t)
  BY ActCases DEF Begins, ReportOutcome, Plays, SendDisplayScene
<1>7. QED
  BY <1>3, <1>4, <1>5, <1>6

LEMMA CommandKept ==
    ASSUME DeviceTypes, PlaysAreValid, SectionIsLoaded, DeviceActs
    PROVE  CommandIsListed(last')
<1>1. section \in Sections /\ ValidSection(section) /\ play \in [Players -> PlayRecord]
  BY PlaysSplit DEF DeviceTypes, SectionIsLoaded
<1>2. \A result, c : Commanded(result, c) /\ CommandIsListed(c) => CommandIsListed(last')
  BY NoCommandIsListed DEF Commanded
<1>3. ASSUME NEW p \in Players, NEW current, PlayMotion(p, current)
      PROVE  CommandIsListed(last')
  <2> DEFINE r == play[p]
  <2>1. PICK result : Commanded(result, [kind |-> "head", of |-> r.id, cue |-> CueOf(r),
                                         value |-> ClampMotion(Plan(CueOf(r)).motion)])
    BY <1>3 DEF PlayMotion
  <2>2. CueOf(r) \in Cues
    <3>1. r \in PlayRecord /\ r.n <= Len(r.cues)
      BY <1>1, <1>3 DEF PlaysAreValid, PlayMotion, Playing
    <3>2. r.cues \in Seq(Cues) /\ r.n \in 1 .. Len(r.cues)
      BY <3>1 DEF PlayRecord
    <3>3. QED
      BY <3>2 DEF CueOf
  <2>3. QED
    BY <1>1, <1>2, <2>1, <2>2, HeadIsListed
<1>4. ASSUME NEW p, NEW current, PlayLED(p, current)
      PROVE  CommandIsListed(last')
  <2>1. PICK result, of, cue, value :
          Commanded(result, [kind |-> "led", of |-> of, cue |-> cue, value |-> value])
    BY <1>4 DEF PlayLED
  <2>2. QED
    BY <1>2, <2>1, LEDIsListed
<1>5. ASSUME NEW p, PlayScene(p)
      PROVE  CommandIsListed(last')
  <2>1. PICK result, of, cue :
          Commanded(result, [kind |-> "scene", of |-> of, cue |-> cue, value |-> Plan(cue).scene])
    BY <1>5 DEF PlayScene
  <2>2. QED
    BY <1>2, <2>1, SceneIsListed
<1>6. ASSUME NEW p \in Players, PlayCard(p)
      PROVE  CommandIsListed(last')
  <2> DEFINE r == play[p]
  <2>1. PICK result : Commanded(result, [kind |-> "card", of |-> r.id, cue |-> "none",
                                         value |-> CardScene(cards[r.id])])
    BY <1>6 DEF PlayCard
  <2>2. r.id \in DOMAIN cards
    BY <1>6 DEF PlaysAreValid, PlayCard
  <2>3. QED
    BY <1>2, <2>1, <2>2, CardIsListed
<1>7. ASSUME NEW p, PlayOther(p)
      PROVE  CommandIsListed(last')
  BY <1>2, <1>7, LEDIsListed DEF PlayOther
<1>8. CASE SendDisplayScene
  <2>1. last' = NoCommand \/ (last' = Head(screens) /\ screens # <<>>)
    BY <1>8 DEF SendDisplayScene
  <2>2. screens \in Seq(Screens)
    BY DEF DeviceTypes, Screens
  <2>3. screens # <<>> => Head(screens) \in Screens
    BY <2>2
  <2>4. QED
    BY <2>1, <2>3, NoCommandIsListed, ScreenIsListed DEF Screens
<1>9. \A p : PassGap(p) => last' = NoCommand
  BY DEF PassGap
<1>10. ASSUME NEW p \in Players, NEW current, PlayOn(p, current)
       PROVE  CommandIsListed(last')
  BY <1>3, <1>4, <1>5, <1>6, <1>7, <1>9, <1>10, NoCommandIsListed DEF PlayOn
<1>11. \/ last' = NoCommand \/ SendDisplayScene
       \/ \E p \in Players, current \in BOOLEAN : PlayOn(p, current)
  BY ActCases DEF AskModel, Begins, ReportOutcome, Discover
<1>12. QED
  BY <1>8, <1>10, <1>11, NoCommandIsListed

\* A call that is refused asked for something that no catalog lists.
LEMMA RefusedKept ==
    ASSUME PlaysAreValid', SectionIsLoaded', NEW t \in Speakers
    PROVE  RefusedIsUnlisted(play[<<t, "call">>])'
<1> DEFINE p == <<t, "call">>
<1>1. p \in Players
  BY DEF Players
<1>2. /\ (play[p].outcome = "invalid" /\ play[p].tool = "play" =>
            play[p].id \notin IdsOf(section.sequences))'
      /\ (play[p].outcome = "invalid" /\ play[p].tool = "card" =>
            play[p].id \notin DOMAIN cards)'
  BY <1>1 DEF PlaysAreValid
<1>3. (DOMAIN cards = DOMAIN listed)'
  BY DEF SectionIsLoaded, Choices
<1>4. (CatalogSequences \subseteq IdsOf(section.sequences))'
  BY DEF CatalogSequences, IdsOf
<1>5. QED
  BY <1>2, <1>3, <1>4 DEF RefusedIsUnlisted

LEMMA DeviceKept ==
    ASSUME TurnTypes, MemoryTypes, ProcessIsStaged, DeviceTypes, PlaysAreValid, OffersAreAllowed,
           FairCallsGoOn, CatalogIsTrue, [Next]_vars
    PROVE  /\ DeviceTypes' /\ PlaysAreValid' /\ OffersAreAllowed' /\ FairCallsGoOn'
           /\ CatalogIsTrue'
<1>1. CASE UNCHANGED deviceVars
  <2>1. UNCHANGED <<section, cards, listed, found, known, offered, play, screens, last>>
    BY <1>1 DEF deviceVars
  <2>2. AllowedCommands' = AllowedCommands /\ MayExpress' = MayExpress
    BY <2>1 DEF AllowedCommands, MayExpress
  <2>3. DeviceTypes'
    BY <2>1 DEF DeviceTypes, PlayTypes, LifecycleScreen
  <2>4. PlaysAreValid' /\ OffersAreAllowed' /\ FairCallsGoOn'
    BY <2>1, <2>2 DEF PlaysAreValid, OffersAreAllowed, FairCallsGoOn
  <2>5. CatalogIsTrue' = CatalogIsTrue
    BY <2>1 DEF CatalogIsTrue, CatalogPlan, CatalogEvents, CatalogSequences
  <2>6. QED
    BY <2>3, <2>4, <2>5
<1>2. CASE process # "serving" /\ LoadSection
  <2>1. /\ UNCHANGED <<section, found, known, offered, play, screens, last>>
        /\ play = [p \in Players |-> NoPlay] /\ last = NoCommand
    BY <1>2 DEF LoadSection, ProcessIsStaged
  <2>2. AllowedCommands' = AllowedCommands /\ MayExpress' = MayExpress
    BY <2>1 DEF AllowedCommands, MayExpress
  <2>3. DeviceTypes'
    BY <2>1 DEF DeviceTypes, PlayTypes, LifecycleScreen
  <2>4. OffersAreAllowed' /\ FairCallsGoOn'
    BY <2>1, <2>2 DEF OffersAreAllowed, FairCallsGoOn
  <2>5. \A p \in Players : play'[p] = NoPlay
    BY <2>1
  <2>6. PlaysAreValid'
    BY <2>5, NoPlayFields DEF PlaysAreValid, Playing
  <2>7. \A t \in Speakers : RefusedIsUnlisted(play[<<t, "call">>])'
    <3>1. \A t \in Speakers : play'[<<t, "call">>].outcome = "none"
      BY <2>5, NoPlayFields DEF Players
    <3>2. QED
      BY <3>1 DEF RefusedIsUnlisted
  <2>8. CommandIsListed(last)'
    <3>1. last'.kind = "none"
      BY <2>1 DEF NoCommand
    <3>2. QED
      BY <3>1 DEF CommandIsListed
  <2>9. QED
    BY <2>3, <2>4, <2>6, <2>7, <2>8, CatalogSplit
<1>3. CASE feature = "device" /\ process = "serving" /\ process' = "serving" /\ DeviceActs
  <2>1. SectionIsLoaded /\ ValidSection(section) /\ PlayTypes
    BY <1>3 DEF ProcessIsStaged, SectionIsLoaded, DeviceTypes
  <2>2. PlayTypes' /\ PlaysAreValid' /\ FairCallsGoOn'
    BY <1>3, <2>1, AskKept, CallKept, ReportKept, PlayOnKept, DiscoverKept, Bounds DEF DeviceActs
  <2>3. UNCHANGED <<section, cards, listed>>
    BY <1>3, SectionStays DEF DeviceActs
  <2>4. screens' \in Seq(Screens')
    BY <1>3, ScreensKept DEF DeviceTypes, Screens
  <2>5. /\ DOMAIN offered' = Speakers /\ \A t \in Speakers : offered'[t].express \in BOOLEAN
        /\ found' # {} => known'
        /\ OffersAreAllowed'
    BY <1>3, OffersKept
  <2>6. DeviceTypes'
    BY <2>2, <2>3, <2>4, <2>5 DEF DeviceTypes, Screens
  <2>7. CommandIsListed(last)'
    BY <1>3, <2>1, <2>3, CommandKept, CommandLater
  <2>8. SectionIsLoaded'
    BY <1>3, ProcessKept, FeatureStays DEF ProcessIsStaged
  <2>9. \A t \in Speakers : RefusedIsUnlisted(play[<<t, "call">>])'
    BY <2>2, <2>8, RefusedKept
  <2>10. QED
    BY <2>2, <2>5, <2>6, <2>7, <2>9, CatalogSplit
<1>4. QED
  BY <1>1, <1>2, <1>3, DeviceSteps DEF DeviceStep, DeviceActs

LEMMA DeviceHolds ==
    /\ PlaysAreValid => ListIsCheckedFirst
    /\ FairCallsGoOn => OfferedIsTried
<1>1. \A t \in Speakers : <<t, "call">> \in Players
  BY DEF Players
<1>2. PlaysAreValid => ListIsCheckedFirst
  BY <1>1 DEF PlaysAreValid, ListIsCheckedFirst
<1>3. FairCallsGoOn => OfferedIsTried
  BY DEF FairCallsGoOn, OfferedIsTried
<1>4. QED
  BY <1>2, <1>3

-----------------------------------------------------------------------------
\* What a prompt is given is the end of the conversation.
LEMMA PromptIsNewest ==
    ASSUME MemoryTypes, RecentsAreLast
    PROVE  RecentsAreNewest
<1>1. /\ recent \in Seq(Writers) /\ appended \in Seq(Writers) /\ IsEnd(recent, appended)
      /\ Len(recent) >= IF Len(appended) < RecentLimit THEN Len(appended) ELSE RecentLimit
  BY RecentsAgree DEF MemoryTypes, RecentsEnd
<1>2. RecentLimit \in Nat /\ PromptTurns \in Nat
  BY Bounds
<1>3. ASSUME PromptTurns <= RecentLimit
      PROVE  PromptOf.turns = Newest(appended, PromptTurns)
  <2> DEFINE g == Newest(recent, PromptTurns)
  <2>1. /\ g \in Seq(Writers) /\ IsEnd(g, recent)
        /\ Len(g) = IF Len(recent) <= PromptTurns THEN Len(recent) ELSE PromptTurns
    BY <1>1, <1>2, NewestEnds
  <2>2. PromptOf.turns = g
    BY DEF PromptOf
  <2> HIDE DEF g
  <2>3. IsEnd(g, appended)
    BY <1>1, <2>1, EndOfEnd
  <2>4. g = Newest(appended, Len(g))
    BY <1>1, <2>1, <2>3, EndIsNewest
  <2>5. Len(recent) \in Nat /\ Len(appended) \in Nat /\ Len(recent) <= Len(appended)
    BY <1>1 DEF RecentsAreLast
  <2>6. CASE Len(g) = PromptTurns
    BY <2>2, <2>4, <2>6
  <2>7. CASE Len(g) # PromptTurns
    <3>1. Len(g) = Len(recent) /\ Len(recent) < PromptTurns
      BY <1>2, <2>1, <2>5, <2>7
    <3>2. Len(recent) = Len(appended)
      BY <1>1, <1>2, <1>3, <2>5, <3>1
    <3>3. Newest(appended, Len(g)) = appended /\ Newest(appended, PromptTurns) = appended
      BY <1>2, <2>5, <3>1, <3>2 DEF Newest
    <3>4. QED
      BY <2>2, <2>4, <3>3
  <2>8. QED
    BY <2>6, <2>7
<1>4. QED
  BY <1>3 DEF RecentsAreNewest, RecentsAreLast

-----------------------------------------------------------------------------
LEMMA TurnsAtInit ==
    ASSUME Init
    PROVE  TurnTypes /\ ProcessIsStaged /\ ObservedOnce /\ WritesAreLast
<1>1. /\ turn = [t \in Turns |-> NewTurn] /\ active = 0 /\ feature \in Features
      /\ memoryOpen = TRUE /\ play = [p \in Players |-> NoPlay] /\ screens = <<>>
      /\ last = NoCommand
  BY DEF Init, MemoryInit, DeviceInit
<1>2. TurnTypes
  BY <1>1 DEF TurnTypes, NewTurn
<1>3. Running = {}
  BY <1>1 DEF Running, NewTurn
<1>4. process = IF feature \in {"tools", "device"} THEN "starting" ELSE "serving"
  BY DEF Init
<1>5. Features \subseteq {"profiles", "agents", "memory", "tools", "device"}
  BY Bounds
<1>6. ProcessIsStaged
  BY <1>1, <1>3, <1>4, <1>5 DEF ProcessIsStaged
<1>7. ObservedOnce
  BY Bounds DEF Init, RouterInit, ObservedOnce
<1>8. WritesAreLast
  <2>1. \A t \in Turns : turn[t].step = "none" /\ turn[t].cleared = "no"
    BY <1>1 DEF NewTurn
  <2>2. \A t \in Turns : writer[t] = NothingToWrite /\ written[t] = {} /\ TimesOf(appended, t) = {}
    BY Bounds DEF Init, MemoryInit, TimesOf
  <2>3. QED
    BY <2>1, <2>2 DEF WritesAreLast
<1>9. QED
  BY <1>2, <1>6, <1>7, <1>8

LEMMA RouterAtInit ==
    ASSUME RouterInit
    PROVE  RouterTypeOK /\ StreakIsRun
<1>1. RouterTypeOK
  BY DEF RouterInit, RouterTypeOK, NoStreak, Idle, Outcomes
<1>2. counted = <<>> /\ streak.errors = 0 /\ streak.yellow = 0
  BY DEF RouterInit, NoStreak
<1>3. counted \in Seq(Outcomes) /\ Len(counted) = 0 /\ Longest \in Nat
  BY <1>2, Bounds DEF Longest
<1>4. \A n \in 1 .. Longest : ~RunOf("error", n, counted) /\ ~RunOf("yellow", n, counted)
  BY <1>3 DEF RunOf
<1>5. StreakIsRun
  BY <1>2, <1>3, <1>4 DEF StreakIsRun
<1>6. QED
  BY <1>1, <1>5

LEMMA PolicyAtInit ==
    ASSUME PolicyInit
    PROVE  PolicyIInv
<1>1. PolicyTypes
  BY Bounds DEF PolicyInit, PolicyTypes, NoCooldown, NoRoute
<1>2. \A d \in Bridges : /\ passed[d] = {} /\ seen[d] = {} /\ results[d] = <<>>
                         /\ cooldowns[d] = NoCooldown
  BY DEF PolicyInit
<1>3. SeenIsPassed
  <2>1. \A d \in Bridges : Kept(d) = {}
    BY <1>2 DEF Kept, PlacesWithin
  <2>2. QED
    BY <1>2, <2>1, FS_EmptySet DEF SeenIsPassed
<1>4. RateIsKept
  <2>1. Cardinality({}) = 0 /\ RateLimit \in Nat
    BY Bounds, FS_EmptySet
  <2>2. \A d \in Bridges : Cardinality(passed[d]) = 0
    BY <1>2, <2>1, Zenon
  <2>3. QED
    BY <2>1, <2>2 DEF RateIsKept
<1>5. ErrorsAreResults
  BY <1>2, Bounds DEF ErrorsAreResults, NoCooldown
<1>6. QED
  BY <1>1, <1>3, <1>4, <1>5 DEF PolicyIInv

LEMMA MemoryAtInit ==
    ASSUME MemoryInit
    PROVE  MemoryTypes /\ RecentsAreLast
<1>1. recent = <<>> /\ appended = <<>>
  BY DEF MemoryInit
<1>2. MemoryTypes
  BY DEF MemoryInit, MemoryTypes, NothingToWrite, ToWrite
<1>3. Newest(<<>>, 0) = <<>>
  BY DEF Newest
<1>4. RecentsAreLast
  BY <1>1, <1>3, Bounds DEF RecentsAreLast
<1>5. QED
  BY <1>2, <1>4

LEMMA ToolsAtInit ==
    ASSUME Init
    PROVE  ToolsAreStaged /\ StagesAreChecked /\ SentIsConfigured
<1>1. conf \in Configs
  BY ToolsConfigAssumption DEF Init
<1>2. stage \in {"off", "serving"} /\ held = {}
  BY DEF Init
<1>3. StagesAreChecked
  BY <1>1, <1>2 DEF StagesAreChecked
<1>4. ToolsAreStaged
  BY DEF Init, ToolsAreStaged
<1>5. SentIsConfigured
  BY DEF Init, SentIsConfigured
<1>6. QED
  BY <1>3, <1>4, <1>5

LEMMA DeviceAtInit ==
    ASSUME DeviceInit
    PROVE  DeviceTypes /\ PlaysAreValid /\ OffersAreAllowed /\ FairCallsGoOn /\ CatalogIsTrue
<1>1. \A p \in Players : play[p] = NoPlay
  BY DEF DeviceInit
<1>2. play \in [Players -> PlayRecord]
  BY NoPlayFields DEF DeviceInit
<1>3. DeviceTypes
  <2>1. DOMAIN offered = Speakers /\ \A t \in Speakers : offered[t].express \in BOOLEAN
    BY DEF DeviceInit, NoOffer
  <2>2. section \in Sections /\ found = {} /\ screens = <<>>
    BY DEF DeviceInit
  <2>3. screens \in Seq(Screens)
    BY <2>2
  <2>4. PlayTypes
    BY <1>2, PlaysSplit
  <2>5. QED
    BY <2>1, <2>2, <2>3, <2>4 DEF DeviceTypes, Screens
<1>4. PlaysAreValid
  BY <1>1, NoPlayFields DEF PlaysAreValid, Playing
<1>5. OffersAreAllowed
  BY DEF DeviceInit, OffersAreAllowed, NoOffer
<1>6. \A t \in Speakers : play[<<t, "call">>] = NoPlay
  BY <1>1 DEF Players
<1>7. FairCallsGoOn
  BY <1>6, NoPlayFields DEF FairCallsGoOn
<1>8. CatalogIsTrue
  <2>1. last.kind = "none"
    BY DEF DeviceInit, NoCommand
  <2>2. QED
    BY <1>6, <2>1, NoPlayFields DEF CatalogIsTrue
<1>9. QED
  BY <1>3, <1>4, <1>5, <1>7, <1>8

LEMMA InvariantAtInit == Init => IInv
<1>1. SUFFICES ASSUME Init PROVE IInv
  OBVIOUS
<1>2. RouterInit /\ PolicyInit /\ MemoryInit /\ DeviceInit
  BY <1>1 DEF Init
<1>3. QED
  BY <1>1, <1>2, TurnsAtInit, RouterAtInit, PolicyAtInit, MemoryAtInit, ToolsAtInit, StagesAccept,
     DeviceAtInit DEF IInv, PolicyIInv

LEMMA InvariantKept == IInv /\ [Next]_vars => IInv'
<1>1. SUFFICES ASSUME IInv, [Next]_vars PROVE IInv'
  OBVIOUS
<1>2. /\ TurnTypes /\ ProcessIsStaged /\ RouterTypeOK /\ StreakIsRun /\ ObservedOnce
      /\ PolicyIInv /\ MemoryTypes /\ RecentsAreLast /\ WritesAreLast
      /\ ToolsAreStaged /\ StagesAreChecked /\ AcceptedStarts /\ SentIsConfigured
      /\ DeviceTypes /\ PlaysAreValid /\ OffersAreAllowed /\ FairCallsGoOn /\ CatalogIsTrue
  BY <1>1 DEF IInv, PolicyIInv
<1>3. TurnTypes' /\ ProcessIsStaged'
  BY <1>1, <1>2, TurnTypesKept, ProcessKept
<1>4. RouterTypeOK' /\ StreakIsRun' /\ ObservedOnce'
  BY <1>1, <1>2, RouterSteps, RouterTypesKept, StreakKept, ObservedKept
<1>5. PolicyIInv'
  BY <1>1, <1>2, PolicySteps, PolicyInvariant
<1>6. MemoryTypes' /\ RecentsAreLast' /\ WritesAreLast'
  BY <1>1, <1>2, MemorySteps, MemoryTypesKept, RecentsKept, WritesKept
<1>7. ToolsAreStaged' /\ SentIsConfigured'
  BY <1>1, <1>2, ToolsAreStagedKept, SentKept
<1>8. StagesAreChecked' /\ AcceptedStarts'
  <2>1. StagesAreChecked'
    BY <1>1, <1>2, ToolSteps, StagesKept
  <2>2. (StagesAreChecked => AcceptedStarts)'
    BY StagesAccept, PTL
  <2>3. QED
    BY <2>1, <2>2
<1>9. DeviceTypes' /\ PlaysAreValid' /\ OffersAreAllowed' /\ FairCallsGoOn' /\ CatalogIsTrue'
  BY <1>1, <1>2, DeviceKept
<1>10. QED
  BY <1>3, <1>4, <1>5, <1>6, <1>7, <1>8, <1>9 DEF IInv, PolicyIInv

\* The inductive invariant holds in every reachable state.
THEOREM InductiveInvariant == Spec => []IInv
<1>1. Init => IInv
  BY InvariantAtInit
<1>2. IInv /\ [Next]_vars => IInv'
  BY InvariantKept
<1>3. QED
  BY <1>1, <1>2, PTL DEF Spec

\* The states and histories of everything that turns share have their types.
THEOREM TypeCorrect == Spec => [](TurnTypes /\ RouterTypeOK /\ PolicyTypes /\ MemoryTypes /\ DeviceTypes)
<1>1. IInv => TurnTypes /\ RouterTypeOK /\ PolicyTypes /\ MemoryTypes /\ DeviceTypes
  BY DEF IInv
<1>2. QED
  BY <1>1, InductiveInvariant, PTL

\* Within any minute no more calls to a bridge pass its limiter than its limit.
THEOREM RateHolds == Spec => []RateIsKept
<1>1. IInv => RateIsKept
  BY DEF IInv
<1>2. QED
  BY <1>1, InductiveInvariant, PTL

\* The recent turns, and what a prompt is given of them, are the end of the conversation.
THEOREM RecentsHold == Spec => []RecentsAreNewest
<1>1. IInv => RecentsAreNewest
  BY PromptIsNewest DEF IInv
<1>2. QED
  BY <1>1, InductiveInvariant, PTL

\* What is served is an accepted configuration with the permitted tools alone, and a
\* start that fails after the memory was opened closes it.
THEOREM AcceptedHold == Spec => []AcceptedStarts
<1>1. IInv => AcceptedStarts
  BY DEF IInv
<1>2. QED
  BY <1>1, InductiveInvariant, PTL

\* Home Assistant is sent nothing but what the operator configured.
THEOREM SentHolds == Spec => []SentIsConfigured
<1>1. IInv => SentIsConfigured
  BY DEF IInv
<1>2. QED
  BY <1>1, InductiveInvariant, PTL

\* A device tool that was offered, called as it was offered, gets to a command.
THEOREM OffersHold == Spec => []OfferedIsTried
<1>1. IInv => OfferedIsTried
  BY DeviceHolds DEF IInv
<1>2. QED
  BY <1>1, InductiveInvariant, PTL

\* No command of a list of cues is sent unless all of the list is known.
THEOREM ListsHold == Spec => []ListIsCheckedFirst
<1>1. IInv => ListIsCheckedFirst
  BY DeviceHolds DEF IInv
<1>2. QED
  BY <1>1, InductiveInvariant, PTL

\* What the catalogs of the admin API list is what the device is sent.
THEOREM CatalogHolds == Spec => []CatalogIsTrue
<1>1. IInv => CatalogIsTrue
  BY DEF IInv
<1>2. QED
  BY <1>1, InductiveInvariant, PTL

-----------------------------------------------------------------------------
\* A fallback is installed exactly for a turn that completes a run of bad outcomes.
THEOREM FallbacksAreEarned == Spec => FallbackIsEarned
<1>1. ASSUME IInv, [Next]_vars, NEW t \in Observers, obs[t].step = "count", obs'[t] # obs[t]
      PROVE  obs'[t].step = "install" <=>
               /\ Ran(Append(counted, obs[t].outcome))
               /\ NextFallback(obs[t].profile) \notin Unbuildable \cup {None}
  BY <1>1, RouterSteps, FallbackStep DEF IInv
<1>2. IInv /\ [Next]_vars =>
        [\A t \in Observers :
           obs[t].step = "count" /\ obs'[t] # obs[t] =>
              (obs'[t].step = "install" <=>
                  /\ Ran(Append(counted, obs[t].outcome))
                  /\ NextFallback(obs[t].profile) \notin Unbuildable \cup {None})]_routerVars
  BY <1>1
<1>3. QED
  BY <1>2, InductiveInvariant, PTL DEF Spec, FallbackIsEarned

\* A bridge begins to rest only after a run of failures, and no longer than configured.
THEOREM CooldownsAreEarned == Spec => CooldownIsEarned
<1>1. ASSUME IInv, [Next]_vars, NEW d \in Bridges, cooldowns'[d].until > cooldowns[d].until
      PROVE  /\ cooldowns'[d].until = clock + Cooldown
             /\ Len(results'[d]) = MaxErrors
             /\ \A i \in 1 .. MaxErrors : ~results'[d][i].ok /\ ~results'[d][i].rested
  BY <1>1, PolicySteps, RestIsEarned DEF IInv, PolicyIInv
<1>2. IInv /\ [Next]_vars =>
        [\A d \in Bridges :
           cooldowns'[d].until > cooldowns[d].until =>
              /\ cooldowns'[d].until = clock + Cooldown
              /\ Len(results'[d]) = MaxErrors
              /\ \A i \in 1 .. MaxErrors : ~results'[d][i].ok /\ ~results'[d][i].rested]_policyVars
  BY <1>1
<1>3. QED
  BY <1>2, InductiveInvariant, PTL DEF Spec, CooldownIsEarned

\* A turn that was spoken to its end leaves all the facts it told behind.
THEOREM FactsSurvive == Spec => FactsAreKept
<1>1. IInv /\ [Next]_vars =>
        [\A t \in Turns :
           /\ Completes(t) /\ turn[t].heard = "text" /\ sqlite /\ memoryOpen
           /\ turn[t].cleared = "live"
           => written[t] = Facts]_vars
  BY FactsStep DEF IInv
<1>2. QED
  BY <1>1, InductiveInvariant, PTL DEF Spec, FactsAreKept

\* A conversation turn is recorded once, when it was spoken to its end, and then always
\* unless the memory is closed.
THEOREM ConversationsAreRecorded == Spec => ConversationIsRecorded
<1>1. ASSUME IInv, [Next]_vars
      PROVE  \A t \in Turns :
               LET times(h) == Cardinality({i \in DOMAIN h : h[i] = t}) IN
               /\ times(appended') > times(appended) =>
                     times(appended') = 1 /\ turn[t].heard = "text" /\ turn[t].cleared # "no"
               /\ Completes(t) /\ turn[t].heard = "text" =>
                     (times(appended) = 1 /\ FewRecents) \/ ~memoryOpen
  BY <1>1, RecordStep, Zenon DEF IInv, TimesOf
<1>2. IInv /\ [Next]_vars =>
        [\A t \in Turns :
           LET times(h) == Cardinality({i \in DOMAIN h : h[i] = t}) IN
           /\ times(appended') > times(appended) =>
                 times(appended') = 1 /\ turn[t].heard = "text" /\ turn[t].cleared # "no"
           /\ Completes(t) /\ turn[t].heard = "text" =>
                 (times(appended) = 1 /\ FewRecents) \/ ~memoryOpen]_vars
  BY <1>1
<1>3. QED
  BY <1>2, InductiveInvariant, PTL DEF Spec, ConversationIsRecorded
=============================================================================
