-------------------------- MODULE ProviderStreams --------------------------
(***************************************************************************)
(* One stream of one provider client: the model's answer (LLM.Stream), a   *)
(* synthesis (TTS.Stream) or a recognition (ASR.Start).  The caller opens  *)
(* it in a handshake; a reader goroutine then decodes the service's        *)
(* messages into items and sends them into a channel; a watcher goroutine, *)
(* where the client has one, closes the connection when the caller's       *)
(* context ends; a recognition also takes audio, a finish and a close from *)
(* other goroutines, under its mutex.                                      *)
(*                                                                         *)
(* A message is an element of Messages, its text and audio replaced by the *)
(* place at which it was read.  The service sends what it likes, when it   *)
(* likes, or nothing; the connection may fail at any step.                 *)
(***************************************************************************)
EXTENDS Naturals, Sequences, FiniteSets, SequencesExt, FiniteSetsExt

CONSTANTS
    Providers,     \* the clients the run opens a stream of
    Reads,         \* bound: messages read from one stream after its handshake
    EventsCap,     \* capacity of a recognition's channel (8 in the code)
    MockItems      \* chunks or frames of a mock, in their order

ASSUME BoundsAssumption == Reads \in Nat /\ EventsCap \in Nat \ {0} /\ MockItems \in Seq(Nat)

(* An item stands for its place among the mock's, not for its text.        *)
ASSUME MockItemsAssumption == IsInjective(MockItems)

VARIABLES
    provider,      \* whose stream this is
    call,          \* Stream or Start: "idle", "dialling", a place in the handshake, "open", "failed"
    cancelled,     \* the caller's context has ended
    link,          \* response body or WebSocket: "none", "open", "closed"
    got,           \* messages the reader has read
    meant,         \* history: what these messages mean (only the properties read it)
    kept,          \* what the decoder keeps from one message to the next
    hand,          \* items decoded and not yet sent
    last,          \* nothing is read after the items in hand
    reader,        \* reader goroutine: "none", "top", "reading", "leaving", "gone"
    events,        \* items in the channel
    delivered,     \* items the receiver took
    codec,         \* the stream's own Opus encoder or decoder: "none", "live", "freed"
    mu,            \* who holds the recognition's mutex
    accept,        \* AcceptOpus: "idle", "decoding", "checking", "writing"
    finish,        \* Finish: "idle", "writing"
    finished, closed,
    closing        \* Close, per caller: "idle", "marked", "done"

callVars == <<provider, call, cancelled>>
readVars == <<got, meant, kept, hand, last, reader>>
userVars == <<mu, accept, finish, finished, closed, closing>>
vars == <<callVars, link, readVars, events, delivered, codec, userVars>>

-----------------------------------------------------------------------------
(* The clients.  "own" codecs belong to one stream and are freed with it;  *)
(* a "shared" one lives as long as the provider.  The handshake is what    *)
(* the caller does after the connection is there, step by step.            *)

Client(kind, decode, codecOf, watched, handshake) ==
    [kind |-> kind, decode |-> decode, codec |-> codecOf, watched |-> watched, handshake |-> handshake]

HTTPClient(decode) == Client("llm", decode, "none", TRUE, <<>>)

DeepSeek == HTTPClient("openai")
Moonshot == HTTPClient("openai")
StepFun == HTTPClient("openai")
DoubaoLLM == HTTPClient("openai")
MiniMaxLLM == HTTPClient("openai")
SiliconFlow == HTTPClient("openai")
DashscopeLLM == HTTPClient("openai")
Anthropic == HTTPClient("sse")

DashscopeTTS == Client("tts", "pcm", "own", TRUE, <<"write", "wait", "write", "write">>)
DoubaoTTS == Client("tts", "delta", "shared", TRUE, <<"write", "wait", "write", "write">>)
MiniMaxTTS == Client("tts", "hex", "shared", TRUE, <<"wait", "write", "wait", "write", "write">>)
DashscopeASR == Client("asr", "sentence", "own", FALSE, <<"write", "wait">>)
DoubaoASR == Client("asr", "transcript", "shared", TRUE, <<"write", "wait">>)

MockLLM == Client("llm", "mock", "none", FALSE, <<>>)
MockTTS == Client("tts", "mock", "none", FALSE, <<>>)
MockASR == Client("asr", "mock", "none", FALSE, <<>>)

ClientOf ==
    [deepseek |-> DeepSeek, moonshot |-> Moonshot, stepfun |-> StepFun, doubao_llm |-> DoubaoLLM,
     minimax_llm |-> MiniMaxLLM, siliconflow |-> SiliconFlow, dashscope_llm |-> DashscopeLLM,
     anthropic |-> Anthropic, dashscope_tts |-> DashscopeTTS, doubao_tts |-> DoubaoTTS,
     minimax_tts |-> MiniMaxTTS, dashscope_asr |-> DashscopeASR, doubao_asr |-> DoubaoASR,
     mock_llm |-> MockLLM, mock_tts |-> MockTTS, mock_asr |-> MockASR]

ASSUME ProvidersAssumption == Providers \subseteq DOMAIN ClientOf

Self == ClientOf[provider]
IsASR == Self.kind = "asr"
IsMock == Self.decode = "mock"
Decodes(d) == Self.decode = d

-----------------------------------------------------------------------------
(* The messages a service can send, as the decoders tell them apart.       *)

MessagesOf(kinds, ns, sounds) ==
    [kind : kinds, text : {FALSE}, final : {FALSE}, n : ns, sound : sounds]

(* A line of an OpenAI-style answer: text, a fragment of tool call n, a    *)
(* finish reason, or several at once.  The fragment that is not sound      *)
(* leaves the call's arguments unreadable.                                 *)
OpenAIMessages ==
    [kind : {"line"}, text : BOOLEAN, final : BOOLEAN, n : {0}, sound : {TRUE}]
    \cup [kind : {"line"}, text : {FALSE}, final : BOOLEAN, n : {1, 2}, sound : {TRUE}]
    \cup MessagesOf({"line"}, {1}, {FALSE})
    \cup MessagesOf({"done", "bad"}, {0}, {TRUE})

SSEMessages == MessagesOf({"blank", "eof"}, {0}, {TRUE})
               \cup MessagesOf({"event"}, 1..3, {TRUE})
               \cup MessagesOf({"data"}, 0..3, {TRUE})

(* Audio of n half frames (pcm) or of n frames (delta, hex); unsound audio *)
(* fails in the encoder or the converter.                                  *)
AudioMessages(ns) == MessagesOf({"audio"}, ns, BOOLEAN)
                     \cup MessagesOf({"other", "finished", "failed"}, {0}, {TRUE})

PCMMessages == AudioMessages(1..2)
               \cup MessagesOf({"sentence"}, {0}, {TRUE}) \cup MessagesOf({"finished"}, {0}, {FALSE})
DeltaMessages == AudioMessages(0..2)
HexMessages == DeltaMessages
               \cup [kind : {"audio"}, text : {FALSE}, final : {TRUE}, n : {1}, sound : {TRUE}]

ASRMessages == MessagesOf({"partial", "final", "other", "finished", "failed"}, {0}, {TRUE})

Messages == CASE Decodes("openai") -> OpenAIMessages
              [] Decodes("sse") -> SSEMessages
              [] Decodes("pcm") -> PCMMessages
              [] Decodes("delta") -> DeltaMessages
              [] Decodes("hex") -> HexMessages
              [] IsMock -> MessagesOf({"timer"}, {0}, {TRUE})
              [] OTHER -> ASRMessages

-----------------------------------------------------------------------------
(* Decoding: what one message, read i-th, makes of what is kept.           *)

Outcome(items, keeps, ends) == [items |-> items, kept |-> keeps, ends |-> ends]
Nothing == Outcome(<<>>, kept, FALSE)
Broken == Outcome(<<>>, kept, TRUE)

Begins == CASE Decodes("openai") -> <<>>
            [] Decodes("sse") -> [type |-> 0, data |-> <<>>]
            [] Decodes("pcm") -> [expect |-> FALSE, halves |-> <<>>]
            [] IsMock -> ~IsASR
            [] OTHER -> FALSE

(* Mutant: a fragment goes to the call opened last.                        *)
AddToLast(calls, m, i) ==
    IF m.n = 0 THEN calls
    ELSE IF calls = <<>> THEN <<[index |-> m.n, parts |-> <<i>>, sound |-> m.sound]>>
    ELSE [calls EXCEPT ![Len(calls)].parts = Append(@, i)]

(* A fragment goes to the call of its index, or opens one at the end.      *)
Add(calls, m, i) ==
    LET known == {k \in DOMAIN calls : calls[k].index = m.n}
        k == CHOOSE k \in known : TRUE
    IN  IF m.n = 0 THEN calls
        ELSE IF known = {} THEN Append(calls, [index |-> m.n, parts |-> <<i>>, sound |-> m.sound])
        ELSE [calls EXCEPT ![k].parts = Append(@, i), ![k].sound = @ /\ m.sound]

Flush(calls) == [k \in DOMAIN calls |-> calls[k].parts]

DecodeOpenAI(m, i) ==
    LET calls == Add(kept, m, i)
    IN  IF m.kind # "line" THEN Broken
        ELSE IF ~m.text /\ ~m.final THEN Outcome(<<>>, calls, FALSE)
        ELSE IF ~m.final THEN Outcome(<<[at |-> i, calls |-> <<>>]>>, calls, FALSE)
        ELSE IF \E k \in DOMAIN calls : ~calls[k].sound THEN Broken
        ELSE Outcome(<<[at |-> i, calls |-> Flush(calls)]>>, <<>>, FALSE)

(* Several data lines are joined, which leaves no JSON; the event line's   *)
(* type wins over the one in the data.                                     *)
Dispatch(type, data, keeps, ends) ==
    LET d == data[1]
        t == IF type = 0 THEN d.n ELSE type
    IN  IF data = <<>> THEN Outcome(<<>>, keeps, ends)
        ELSE IF Len(data) > 1 \/ d.n = 0 \/ t = 3 THEN Broken
        ELSE IF t = 1 /\ d.n # 1 THEN Outcome(<<>>, keeps, ends)
        ELSE Outcome(<<d.at>>, keeps, ends)

DecodeSSE(m, i) ==
    CASE m.kind = "data" -> Outcome(<<>>, [kept EXCEPT !.data = Append(@, [n |-> m.n, at |-> i])], FALSE)
      [] m.kind = "event" -> Dispatch(kept.type, kept.data, [type |-> m.n, data |-> <<>>], FALSE)
      [] m.kind = "blank" -> Dispatch(kept.type, kept.data, [type |-> 0, data |-> <<>>], FALSE)
      [] m.kind = "eof" -> Dispatch(kept.type, kept.data, kept, TRUE)

(* The pieces of an audio message: half frames of PCM, or what the         *)
(* converter returns of a delta.                                           *)
Pieces(m, i) == [f \in 1..m.n |-> <<i, f>>]

(* Whole frames of two halves go to the encoder, the last one padded; one  *)
(* the encoder refuses is lost.                                            *)
FlushPCM(halves, padded, m) ==
    LET whole == Len(halves) >= 2
        frame == SubSeq(halves, 1, IF whole THEN 2 ELSE 1)
        frames == IF whole \/ (padded /\ halves # <<>>) THEN <<frame>> ELSE <<>>
    IN  Outcome(IF m.sound THEN frames ELSE <<>>,
                [expect |-> FALSE, halves |-> IF whole THEN SubSeq(halves, 3, Len(halves)) ELSE halves],
                padded)

DecodePCM(m, i) ==
    CASE m.kind = "sentence" -> Outcome(<<>>, [kept EXCEPT !.expect = TRUE], FALSE)
      [] m.kind = "audio" /\ kept.expect ->
            FlushPCM(kept.halves \o Pieces(m, i), FALSE, m)
      [] m.kind = "finished" -> FlushPCM(kept.halves, TRUE, m)
      [] m.kind = "failed" -> Broken
      [] OTHER -> Nothing

(* Base64 deltas of Doubao and hexadecimal ones of MiniMax, through the    *)
(* converter, which may return no frame or fail.                           *)
DecodeDelta(m, i) ==
    CASE m.kind = "audio" /\ m.sound -> Outcome(Pieces(m, i), kept, FALSE)
      [] m.kind = "other" -> Nothing
      [] OTHER -> Broken

DecodeHex(m, i) ==
    CASE m.kind = "audio" /\ m.sound -> Outcome(Pieces(m, i), kept, m.final)
      [] m.kind = "other" -> Nothing
      [] OTHER -> Broken

DecodeSentence(m, i) ==
    CASE m.kind \in {"partial", "final"} -> Outcome(<<i>>, kept, FALSE)
      [] m.kind = "other" -> Nothing
      [] OTHER -> Broken

DecodeTranscript(m, i) ==
    CASE m.kind = "partial" -> Outcome(<<i>>, kept, FALSE)
      [] m.kind = "final" -> Outcome(<<i>>, kept, TRUE)
      [] m.kind = "other" -> Nothing
      [] OTHER -> Broken

Decode(m, i) ==
    CASE Decodes("openai") -> DecodeOpenAI(m, i)
      [] Decodes("sse") -> DecodeSSE(m, i)
      [] Decodes("pcm") -> DecodePCM(m, i)
      [] Decodes("delta") -> DecodeDelta(m, i)
      [] Decodes("hex") -> DecodeHex(m, i)
      [] Decodes("sentence") -> DecodeSentence(m, i)
      [] Decodes("transcript") -> DecodeTranscript(m, i)
      [] IsMock -> Outcome(MockItems, kept, TRUE)

-----------------------------------------------------------------------------
(* What the messages mean, said of the whole history g of a stream and    *)
(* not message by message.                                                 *)

(* The elements of S in an order of S, a set of pairs.                     *)
InOrder(S, order) ==
    [k \in 1..Cardinality(S) |-> CHOOSE x \in S : Cardinality({y \in S : <<y, x>> \in order}) = k]

Sorted(S) == InOrder(S, {p \in S \X S : p[1] <= p[2]})

(* The pieces of the messages at the places of S, one after the other.     *)
PiecesAt(g, S) == UNION {{<<i, f>> : f \in 1..g[i].n} : i \in S}
Reading(P) == {p \in P \X P : \/ p[1][1] < p[2][1]
                              \/ p[1][1] = p[2][1] /\ p[1][2] <= p[2][2]}
Joined(g, S) == InOrder(PiecesAt(g, S), Reading(PiecesAt(g, S)))

(* The calls a finish reason at i completes: the fragments since the last  *)
(* one, by index, the indexes in the order of their first fragment.        *)
CallsAt(g, i) ==
    LET before == {j \in 1..(i - 1) : g[j].final}
        since == (IF before = {} THEN 1 ELSE 1 + Max(before))..i
        Parts(n) == {j \in since : g[j].n = n}
        firsts == {j \in since : g[j].n # 0 /\ j = Min(Parts(g[j].n))}
    IN  [k \in 1..Cardinality(firsts) |-> Sorted(Parts(g[Sorted(firsts)[k]].n))]

MeaningOpenAI(g) ==
    LET Unreadable(i) == \E k \in DOMAIN CallsAt(g, i) :
                            \E j \in Range(CallsAt(g, i)[k]) : ~g[j].sound
        chunks == {i \in DOMAIN g : /\ g[i].kind = "line"
                                    /\ g[i].text \/ g[i].final
                                    /\ g[i].final => ~Unreadable(i)}
    IN  [k \in 1..Cardinality(chunks) |->
            LET i == Sorted(chunks)[k]
            IN  [at |-> i, calls |-> IF g[i].final THEN CallsAt(g, i) ELSE <<>>]]

(* An event is one data line, alone between its event line, if it has one, *)
(* and the line that ends it.                                              *)
MeaningSSE(g) ==
    LET Alone(j) == /\ j > 1 => g[j - 1].kind # "data"
                    /\ j < Len(g) /\ g[j + 1].kind # "data"
        TypeLine(j) == {e \in 1..(j - 1) : g[e].kind = "event"
                                           /\ \A k \in e..j : g[k].kind # "blank"}
        Type(j) == IF TypeLine(j) = {} THEN g[j].n ELSE g[Max(TypeLine(j))].n
    IN  Sorted({j \in DOMAIN g : g[j].kind = "data" /\ g[j].n # 0 /\ Alone(j)
                                 /\ ((Type(j) = 1 /\ g[j].n = 1) \/ Type(j) = 2)})

(* Binary messages count when a sentence was announced since the last one. *)
MeaningPCM(g) ==
    LET Since(i) == {j \in 1..(i - 1) : g[j].kind \in {"sentence", "audio"}}
        Counts(i) == g[i].kind = "audio" /\ Since(i) # {} /\ g[Max(Since(i))].kind = "sentence"
        halves == Joined(g, {i \in DOMAIN g : Counts(i)})
        ended == g # <<>> /\ g[Len(g)].kind = "finished"
        frames == IF ended THEN (Len(halves) + 1) \div 2 ELSE Len(halves) \div 2
        Frame(k) == SubSeq(halves, 2 * k - 1, IF 2 * k <= Len(halves) THEN 2 * k ELSE Len(halves))
        By(k) == IF 2 * k <= Len(halves) THEN halves[2 * k][1] ELSE Len(g)
    IN  [k \in 1..Cardinality({f \in 1..frames : g[By(f)].sound}) |->
            Frame(Sorted({f \in 1..frames : g[By(f)].sound})[k])]

MeaningAudio(g) == Joined(g, {i \in DOMAIN g : g[i].kind = "audio" /\ g[i].sound})

Meaning(g) == CASE Decodes("openai") -> MeaningOpenAI(g)
                [] Decodes("sse") -> MeaningSSE(g)
                [] Decodes("pcm") -> MeaningPCM(g)
                [] Decodes("delta") \/ Decodes("hex") -> MeaningAudio(g)
                [] IsMock -> IF g = <<>> THEN <<>> ELSE MockItems
                [] OTHER -> Sorted({i \in DOMAIN g : g[i].kind \in {"partial", "final"}})

-----------------------------------------------------------------------------
(* The stream's context: the caller's, and for a recognition also the one  *)
(* Close cancels.                                                          *)
Done == cancelled \/ (IsASR /\ \E c \in DOMAIN closing : closing[c] = "done")

Closers == {"caller", "watcher"}

Init == /\ provider \in Providers
        /\ call = "idle" /\ cancelled = FALSE /\ link = "none"
        /\ got = <<>> /\ meant = <<>> /\ kept = Begins /\ hand = <<>> /\ last = FALSE /\ reader = "none"
        /\ events = <<>> /\ delivered = <<>>
        /\ codec = "none" /\ mu = "none" /\ accept = "idle" /\ finish = "idle"
        /\ finished = FALSE /\ closed = FALSE /\ closing = [c \in Closers |-> "idle"]

(* The caller's context ends: the turn is cancelled or over.               *)
CancelContext == /\ ~cancelled /\ cancelled' = TRUE
                 /\ UNCHANGED <<provider, call, link, readVars, events, delivered, codec, userVars>>

-----------------------------------------------------------------------------
(* Opening.                                                                *)

Unwinds == /\ call' = "failed"
           /\ link' = IF link = "open" THEN "closed" ELSE link
           /\ codec' = IF codec = "live" THEN "freed" ELSE codec
           /\ UNCHANGED <<provider, cancelled, readVars, events, delivered, userVars>>

(* No key, no text, no converter, or the codec cannot be made.             *)
OpenRefused == call = "idle" /\ ~IsMock /\ Unwinds

Opens == /\ call = "idle"
         /\ call' = "dialling"
         /\ codec' = IF Self.codec = "own" THEN "live" ELSE "none"
         /\ UNCHANGED <<provider, cancelled, link, readVars, events, delivered, userVars>>

Place == IF call \in {"step1", "step2", "step3", "step4", "step5"}
         THEN CHOOSE k \in 1..5 : call = <<"step1", "step2", "step3", "step4", "step5">>[k]
         ELSE 0

(* The next step of the handshake; after the last one the stream is handed *)
(* out and its reader runs.                                                *)
Proceeds == /\ IF Place < Len(Self.handshake)
               THEN /\ call' = <<"step1", "step2", "step3", "step4", "step5">>[Place + 1]
                    /\ UNCHANGED reader
               ELSE /\ call' = "open"
                    /\ reader' = IF IsASR /\ ~IsMock THEN "top" ELSE "reading"
            /\ UNCHANGED <<provider, cancelled, got, meant, kept, hand, last, events, delivered, codec, userVars>>

Connected == /\ call = "dialling"
             /\ link' = IF IsMock THEN "none" ELSE "open"
             /\ Proceeds

(* The dial or the request fails, is refused, or its context has ended.    *)
DialFails == call = "dialling" /\ ~IsMock /\ Unwinds

Writes == Place > 0 /\ Self.handshake[Place] = "write" /\ Proceeds /\ UNCHANGED link

WriteFails == Place > 0 /\ Self.handshake[Place] = "write" /\ Unwinds

(* The next message is the one the handshake waits for, or anything else.  *)
(* The wait has no deadline and does not look at the context.              *)
Started == Place > 0 /\ Self.handshake[Place] = "wait" /\ Proceeds /\ UNCHANGED link

NotStarted == Place > 0 /\ Self.handshake[Place] = "wait" /\ Unwinds

-----------------------------------------------------------------------------
(* The reader.                                                             *)

Then(ends) == IF ends THEN "leaving" ELSE IF IsASR THEN "top" ELSE "reading"

Top == /\ reader = "top"
       /\ reader' = IF Done THEN "leaving" ELSE "reading"
       /\ UNCHANGED <<callVars, link, got, meant, kept, hand, last, events, delivered, codec, userVars>>

(* The next message; what the connection had received before it was closed *)
(* can still be read.  A mock reads its timer, which a recognition starts  *)
(* when it has been told to finish.                                        *)
Read(m) ==
    LET outcome == Decode(m, Len(got) + 1)
    IN  /\ reader = "reading" /\ hand = <<>> /\ Len(got) < Reads
        /\ IsMock => kept
        /\ got' = Append(got, m) /\ meant' = Meaning(got')
        /\ kept' = outcome.kept
        /\ hand' = outcome.items
        /\ last' = outcome.ends
        /\ reader' = IF outcome.items = <<>> THEN Then(outcome.ends) ELSE reader
        /\ UNCHANGED <<callVars, link, events, delivered, codec, userVars>>

(* The connection fails or ends, or was closed; the error is not told.     *)
ReadFails == /\ reader = "reading" /\ hand = <<>> /\ ~IsMock
             /\ reader' = "leaving"
             /\ UNCHANGED <<callVars, link, got, meant, kept, hand, last, events, delivered, codec, userVars>>

MockStops == /\ reader = "reading" /\ hand = <<>> /\ IsMock /\ Done
             /\ reader' = "leaving"
             /\ UNCHANGED <<callVars, link, got, meant, kept, hand, last, events, delivered, codec, userVars>>

SentOne == /\ hand' = Tail(hand)
           /\ reader' = IF Len(hand) = 1 THEN Then(last) ELSE reader
           /\ UNCHANGED <<callVars, link, got, meant, kept, last, codec, userVars>>

(* A chunk or a frame is taken by the receiver directly.                   *)
Send == /\ hand # <<>> /\ ~IsASR
        /\ delivered' = Append(delivered, Head(hand))
        /\ SentOne /\ UNCHANGED events

(* Mutant: an event is dropped when the channel is full.                   *)
SendEventOrDrop == /\ hand # <<>> /\ IsASR
                   /\ events' = IF Len(events) < EventsCap THEN Append(events, Head(hand)) ELSE events
                   /\ SentOne /\ UNCHANGED delivered

SendEvent == /\ hand # <<>> /\ IsASR
             /\ Len(events) < EventsCap
             /\ events' = Append(events, Head(hand))
             /\ SentOne /\ UNCHANGED delivered

Receive == /\ events # <<>>
           /\ delivered' = Append(delivered, Head(events))
           /\ events' = Tail(events)
           /\ UNCHANGED <<callVars, link, readVars, codec, userVars>>

(* The select finds the context done.  Anthropic's dispatch and the        *)
(* flush of PCM return to the loop, the others end the reader.             *)
Abandon == /\ hand # <<>> /\ Done
           /\ hand' = <<>>
           /\ reader' = IF Self.decode \in {"sse", "pcm"} THEN Then(last) ELSE "leaving"
           /\ UNCHANGED <<callVars, link, got, meant, kept, last, events, delivered, codec, userVars>>

(* The deferred calls; a recognition leaves connection and decoder to      *)
(* Close.                                                                  *)
Leave == /\ reader = "leaving"
         /\ reader' = "gone"
         /\ IF IsASR THEN UNCHANGED <<link, codec>>
            ELSE /\ link' = IF link = "open" THEN "closed" ELSE link
                 /\ codec' = IF codec = "live" THEN "freed" ELSE codec
         /\ UNCHANGED <<callVars, got, meant, kept, hand, last, events, delivered, userVars>>

(* Mutant: there is no watcher.                                            *)
NobodyCloses == Self.watched /\ ~IsASR /\ cancelled /\ reader = "none" /\ UNCHANGED vars

(* The watcher of a response body or of a synthesis's connection.          *)
WatcherCloses == /\ Self.watched /\ ~IsASR
                 /\ cancelled /\ reader \notin {"none", "gone"} /\ link = "open"
                 /\ link' = "closed"
                 /\ UNCHANGED <<callVars, readVars, events, delivered, codec, userVars>>

-----------------------------------------------------------------------------
(* A recognition's audio, finish and close.                                *)

userFrame == UNCHANGED <<callVars, got, meant, hand, last, reader, events, delivered>>
Free == call = "open" /\ IsASR /\ mu = "none"

(* Mutant: it decodes before it takes the mutex.                           *)
AcceptUnlocked == /\ call = "open" /\ IsASR /\ Self.codec = "own" /\ accept = "idle"
                  /\ ~closed /\ ~finished
                  /\ accept' = "decoding"
                  /\ userFrame /\ UNCHANGED <<mu, link, kept, codec, finish, finished, closed, closing>>

(* Dashscope's decoder belongs to the stream: it decodes under the mutex.  *)
AcceptLocked == /\ Free /\ Self.codec = "own" /\ accept = "idle"
                /\ ~closed /\ ~finished
                /\ mu' = "accept" /\ accept' = "decoding"
                /\ userFrame /\ UNCHANGED <<link, kept, codec, finish, finished, closed, closing>>

(* Doubao's decoder is the provider's: it decodes first, then looks.       *)
AcceptShared == /\ call = "open" /\ IsASR /\ Self.codec = "shared" /\ accept = "idle"
                /\ accept' = "decoding"
                /\ userFrame /\ UNCHANGED <<mu, link, kept, codec, finish, finished, closed, closing>>

AcceptDecoded == /\ accept = "decoding"
                 /\ accept' = IF Self.codec = "own" THEN "writing" ELSE "checking"
                 /\ userFrame /\ UNCHANGED <<mu, link, kept, codec, finish, finished, closed, closing>>

AcceptUndecoded == /\ accept = "decoding"
                   /\ accept' = "idle"
                   /\ mu' = IF mu = "accept" THEN "none" ELSE mu
                   /\ userFrame /\ UNCHANGED <<link, kept, codec, finish, finished, closed, closing>>

AcceptChecks == /\ Free /\ accept = "checking"
                /\ IF closed \/ finished THEN accept' = "idle" /\ UNCHANGED mu
                   ELSE accept' = "writing" /\ mu' = "accept"
                /\ userFrame /\ UNCHANGED <<link, kept, codec, finish, finished, closed, closing>>

AcceptWritten == /\ accept = "writing"
                 /\ accept' = "idle" /\ mu' = "none"
                 /\ userFrame /\ UNCHANGED <<link, kept, codec, finish, finished, closed, closing>>

(* A mock only counts the frame; configured so, the first is its trigger.  *)
AcceptMock == /\ Free /\ IsMock /\ ~closed /\ ~finished
              /\ kept' = TRUE
              /\ userFrame /\ UNCHANGED <<link, codec, userVars>>

FinishLocked == /\ Free /\ finish = "idle" /\ ~closed /\ ~finished
                /\ IF IsMock THEN finished' = TRUE /\ kept' = TRUE /\ UNCHANGED <<mu, finish>>
                   ELSE mu' = "finish" /\ finish' = "writing" /\ UNCHANGED <<finished, kept>>
                /\ userFrame /\ UNCHANGED <<link, codec, accept, closed, closing>>

FinishWritten == /\ finish = "writing"
                 /\ finish' = "idle" /\ mu' = "none"
                 /\ finished' \in BOOLEAN
                 /\ userFrame /\ UNCHANGED <<link, kept, codec, accept, closed, closing>>

(* Close marks the stream under the mutex; Doubao's watcher calls it when  *)
(* the context is done.                                                    *)
CloseMarks(c) == /\ Free /\ ~closed
                 /\ c = "watcher" => Self.watched /\ Done
                 /\ closed' = TRUE
                 /\ closing' = [closing EXCEPT ![c] = "marked"]
                 /\ userFrame /\ UNCHANGED <<link, kept, codec, mu, accept, finish, finished>>

(* Then it cancels the context, frees the decoder and closes the           *)
(* connection.                                                             *)
CloseReleases(c) == /\ closing[c] = "marked"
                    /\ closing' = [closing EXCEPT ![c] = "done"]
                    /\ link' = IF link = "open" THEN "closed" ELSE link
                    /\ codec' = IF codec = "live" THEN "freed" ELSE codec
                    /\ userFrame /\ UNCHANGED <<kept, mu, accept, finish, finished, closed>>

-----------------------------------------------------------------------------
OpeningNext == OpenRefused \/ Opens \/ Connected \/ DialFails \/ Writes \/ WriteFails \/ Started \/ NotStarted

ReaderNext == Top \/ (\E m \in Messages : Read(m)) \/ ReadFails \/ MockStops
              \/ Send \/ SendEvent \/ Abandon \/ Leave

UserNext == \/ AcceptLocked \/ AcceptShared \/ AcceptDecoded \/ AcceptUndecoded \/ AcceptChecks
            \/ AcceptWritten \/ AcceptMock \/ FinishLocked \/ FinishWritten
            \/ \E c \in Closers : CloseMarks(c) \/ CloseReleases(c)

Next == CancelContext \/ OpeningNext \/ ReaderNext \/ Receive \/ WatcherCloses \/ UserNext

Spec == Init /\ [][Next]_vars

(* The client's own steps are taken: a dial whose context is done fails,   *)
(* a write ends, a closed connection fails the read, locks are handed on.  *)
(* The service may be silent, the receiver and the user stop at any time.  *)
Fairness == /\ WF_vars(cancelled /\ DialFails)
            /\ WF_vars(Writes \/ WriteFails)
            /\ WF_vars(Top) /\ WF_vars(link = "closed" /\ ReadFails) /\ WF_vars(MockStops)
            /\ WF_vars(Abandon) /\ WF_vars(Leave) /\ WF_vars(WatcherCloses)
            /\ WF_vars(AcceptDecoded \/ AcceptUndecoded) /\ WF_vars(AcceptWritten) /\ WF_vars(FinishWritten)
            /\ SF_vars(CloseMarks("watcher"))
            /\ \A c \in Closers : WF_vars(CloseReleases(c))

FairSpec == Spec /\ Fairness

-----------------------------------------------------------------------------
Streams == INSTANCE OrderedStream WITH givenUp <- Done, over <- reader = "gone"

(* Every client is an OrderedStream: the receiver gets the text, the tool  *)
(* calls with all their fragments, the frames and the transcripts the      *)
(* service's messages mean, each once and in their order, and without a    *)
(* gap until the stream is given up (the decode and read functions of the  *)
(* clients).  After that there may be one: Anthropic's dispatch and the    *)
(* flush of PCM drop an item and read on.                                  *)
ImplementsOrderedStream == Streams!Spec

(* A stream whose reader has ended without anybody giving it up has left   *)
(* nothing out: the flush of a last padded frame, the events still in the  *)
(* channel, the calls before a finish reason (readTTSFrames, readLoop,     *)
(* ReadLLMStream).                                                         *)
NothingIsDropped == reader = "gone" /\ ~cancelled /\ ~closed => delivered \o events = meant

(* The Opus encoder of a synthesis and the decoder of a recognition hold   *)
(* memory outside Go's: neither is used after it was freed, however a      *)
(* frame of audio, a finish and a Close interleave (ASRStream.AcceptOpus,  *)
(* ASRStream.Close, readTTSFrames).                                        *)
CodecIsAlive == /\ accept = "decoding" /\ Self.codec = "own" => codec = "live"
                /\ reader = "reading" /\ Decodes("pcm") => codec = "live"

(* A stream that was handed out and is given up, an answer or a synthesis  *)
(* by its context, a recognition by Close, ends although the service is    *)
(* silent and the receiver gone: no goroutine, connection or codec of a    *)
(* cancelled turn stays (the watchers, Close, the selects).                *)
GivenUpEnds == call = "open" /\ (IF IsASR THEN closed ELSE cancelled)
               ~> reader = "gone" /\ link # "open" /\ codec # "live"

TypeOK == /\ call \in {"idle", "dialling", "step1", "step2", "step3", "step4", "step5", "open", "failed"}
          /\ link \in {"none", "open", "closed"} /\ codec \in {"none", "live", "freed"}
          /\ reader \in {"none", "top", "reading", "leaving", "gone"}
          /\ mu \in {"none", "accept", "finish"}
          /\ accept \in {"idle", "decoding", "checking", "writing"} /\ finish \in {"idle", "writing"}
          /\ Len(got) <= Reads /\ Len(events) <= EventsCap
          /\ closing \in [Closers -> {"idle", "marked", "done"}]
          /\ reader = "none" <=> call # "open"
=============================================================================
