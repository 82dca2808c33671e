----------------------------- MODULE ToolCalls -----------------------------
(***************************************************************************)
(* What mcp.Broker promises the callers of CallTool: a call ends, for its   *)
(* caller, with what the device has answered to that very call, or with an  *)
(* error.  Requests, ids and time-outs are McpBroker's business.            *)
(***************************************************************************)
EXTENDS Integers

CONSTANT Callers        \* goroutines that call tools, one call at a time

VARIABLES
    calls,      \* how many calls a caller has begun
    state,      \* of the caller's last call
    answered    \* the calls the device has answered

vars == <<calls, state, answered>>

Call(c) == [by |-> c, n |-> calls[c]]

Init ==
    /\ calls = [c \in Callers |-> 0]
    /\ state = [c \in Callers |-> "idle"]
    /\ answered = {}

Turn(c, from, to) == state[c] = from /\ state' = [state EXCEPT ![c] = to]

Begin(c) ==
    /\ Turn(c, "idle", "open")
    /\ calls' = [calls EXCEPT ![c] = @ + 1]
    /\ UNCHANGED answered

\* The device may answer late: the call need not be open any more.
DeviceAnswers(c, n) ==
    /\ n \in 1 .. calls[c]
    /\ answered' = answered \cup {[by |-> c, n |-> n]}
    /\ UNCHANGED <<calls, state>>

Succeed(c) ==
    /\ Call(c) \in answered
    /\ Turn(c, "open", "answered")
    /\ UNCHANGED <<calls, answered>>

Fail(c) ==
    /\ Turn(c, "open", "failed")
    /\ UNCHANGED <<calls, answered>>

Return(c) ==
    /\ \E from \in {"answered", "failed"} : Turn(c, from, "idle")
    /\ UNCHANGED <<calls, answered>>

Next ==
    \E c \in Callers :
        \/ Begin(c)
        \/ \E n \in 1 .. calls[c] : DeviceAnswers(c, n)
        \/ Succeed(c)
        \/ Fail(c)
        \/ Return(c)

Spec == Init /\ [][Next]_vars
=============================================================================
