--------------------------- MODULE ProviderRouter ---------------------------
(***************************************************************************)
(* The provider profile of a device (providerrouter/router.go): a user's    *)
(* override, else the profile an observer of turns fell back to, else the   *)
(* default.  An observation takes the mutex three times, to read the active *)
(* profile, to count the outcome and to install the fallback, and other     *)
(* turns and the user may act between them.  Devices do not share state:    *)
(* there is one.                                                            *)
(***************************************************************************)
EXTENDS Integers, Sequences, FiniteSets

CONSTANTS
    Profiles,        \* providers.profiles
    DefaultProfile,  \* providers.default_profile
    Fallbacks,       \* auto_fallback.profiles, in order
    Unbuildable,     \* profiles whose providers lack their environment
    YellowLimit, ErrorLimit,  \* consecutive_yellow, consecutive_errors
    Observers        \* the turns whose outcome is observed

None == "none"

ASSUME RouterAssumption ==
    /\ None \notin Profiles /\ DefaultProfile \in Profiles
    /\ Fallbacks \in Seq(Profiles)
    /\ Unbuildable \subseteq Profiles
    /\ YellowLimit \in Nat \ {0} /\ ErrorLimit \in Nat \ {0}

Outcomes == {"good", "yellow", "error"}
Idle == [step |-> "idle", profile |-> None, outcome |-> "good", target |-> None]

VARIABLES
    manual, auto,    \* manualOverrides, autoOverrides of the device
    streak,          \* outcomes: consecutive yellow turns and errors
    obs,             \* the ObserveVoiceTurn calls: how far each has come
    counted          \* history: the last outcomes counted since a reset, in lock order

routerVars == <<manual, auto, streak, obs, counted>>

NoStreak == [yellow |-> 0, errors |-> 0]

RouterInit ==
    /\ manual = None /\ auto = None /\ streak = NoStreak
    /\ obs = [t \in Observers |-> Idle] /\ counted = <<>>

-----------------------------------------------------------------------------
\* activeProfile.
ActiveProfile == CASE manual # None -> manual
                   [] manual = None /\ auto # None -> auto
                   [] OTHER -> DefaultProfile

\* ResolveVoiceProviders: buildProviderSet of the active profile, or an error.
Resolved == IF ActiveProfile \in Unbuildable THEN None ELSE ActiveProfile

\* SetDeviceProfile, from the admin API or a spoken command: one critical section.
Settable(p) == p \in Profiles \ Unbuildable

\* Mutant: an override keeps the turns counted for the profile before it.
KeepStreak == UNCHANGED streak /\ counted' = <<>>

Reset == streak' = NoStreak /\ counted' = <<>>

SetDeviceProfile(p) ==
    /\ Settable(p)
    /\ manual' = p /\ auto' = None /\ Reset
    /\ UNCHANGED obs

ClearDeviceProfile ==
    /\ manual' = None /\ auto' = None /\ Reset
    /\ UNCHANGED obs

-----------------------------------------------------------------------------
\* ObserveVoiceTurn, with auto_fallback enabled: the early returns, and the read of the active profile.
Observed(profile) == manual = None /\ profile = ActiveProfile

StartObservation(t, profile, outcome) ==
    obs' = [obs EXCEPT ![t] = IF Observed(profile)
                              THEN [Idle EXCEPT !.step = "count", !.profile = profile,
                                                !.outcome = outcome]
                              ELSE [Idle EXCEPT !.step = "done"]]

\* recordOutcomeAndSelectFallback, under the mutex.
StreakAfter(outcome) ==
    CASE outcome = "error"  -> [yellow |-> 0, errors |-> streak.errors + 1]
      [] outcome = "yellow" -> [yellow |-> streak.yellow + 1, errors |-> 0]
      [] OTHER              -> NoStreak

Exhausted(s) == s.errors >= ErrorLimit \/ s.yellow >= YellowLimit

\* nextFallbackProfile: the first one listed that is not the turn's.  Only this
\* candidate is tried: when it cannot be built there is no fallback.
NextFallback(current) ==
    LET Others == {i \in DOMAIN Fallbacks : Fallbacks[i] # current}
    IN  IF Others = {} THEN None
        ELSE Fallbacks[CHOOSE i \in Others : \A j \in Others : i <= j]

Target(t, s) ==
    LET next == NextFallback(obs[t].profile)
    IN  IF Exhausted(s) /\ next # None /\ next \notin Unbuildable THEN next ELSE None

\* As many of the last outcomes as can matter.
Longest == IF YellowLimit > ErrorLimit THEN YellowLimit ELSE ErrorLimit

LastOf(h) == IF Len(h) <= Longest THEN h ELSE SubSeq(h, Len(h) - Longest + 1, Len(h))

CountOutcome(t) ==
    LET s == StreakAfter(obs[t].outcome) IN
    /\ obs[t].step = "count"
    /\ streak' = s /\ counted' = LastOf(Append(counted, obs[t].outcome))
    /\ obs' = [obs EXCEPT ![t] = IF Target(t, s) = None THEN [Idle EXCEPT !.step = "done"]
                                 ELSE [@ EXCEPT !.step = "install", !.target = Target(t, s)]]
    /\ UNCHANGED <<manual, auto>>

InstallFallback(t) ==
    /\ obs[t].step = "install"
    /\ auto' = obs[t].target /\ Reset
    /\ obs' = [obs EXCEPT ![t] = [Idle EXCEPT !.step = "done"]]
    /\ UNCHANGED <<manual>>

Observing(t) == obs[t].step \in {"count", "install"}

\* The rest of ObserveVoiceTurn, in the goroutine of whoever ends the turn.
Observe == \E t \in Observers : CountOutcome(t) \/ InstallFallback(t)

-----------------------------------------------------------------------------
RouterTypeOK ==
    /\ manual \in Profiles \cup {None} /\ auto \in Profiles \cup {None}
    /\ streak \in [yellow : Nat, errors : Nat]
    /\ obs \in [Observers -> [step : {"idle", "count", "install", "done"},
                               profile : Profiles \cup {None}, outcome : Outcomes,
                               target : Profiles \cup {None}]]

\* The last n outcomes counted since a reset are all o.
RunOf(o, n, h) == Len(h) >= n /\ \A i \in Len(h) - n + 1 .. Len(h) : h[i] = o

Ran(h) == RunOf("error", ErrorLimit, h) \/ RunOf("yellow", YellowLimit, h)

\* "switch to a configured fallback profile after consecutive yellow first-audio
\* turns or provider errors": whatever turns, overrides and other observations come
\* between the reads and writes of an observation, it goes on to install a fallback
\* exactly when the turn it counts completes such a run, which an override or another
\* fallback cuts, and the candidate for its profile can be built.
FallbackIsEarned ==
    [][\A t \in Observers :
         obs[t].step = "count" /\ obs'[t] # obs[t] =>
            (obs'[t].step = "install" <=>
                /\ Ran(Append(counted, obs[t].outcome))
                /\ NextFallback(obs[t].profile) \notin Unbuildable \cup {None})]_routerVars

-----------------------------------------------------------------------------
(* The inductive strengthening used by the proofs.                          *)

\* A streak is the run of outcomes that the history ends with, as far as it goes.
StreakIsRun ==
    /\ counted \in Seq(Outcomes) /\ Len(counted) <= Longest
    /\ \A n \in 1 .. Longest :
         /\ RunOf("error", n, counted) <=> streak.errors >= n
         /\ RunOf("yellow", n, counted) <=> streak.yellow >= n
=============================================================================
