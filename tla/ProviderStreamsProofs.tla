----------------------- MODULE ProviderStreamsProofs -----------------------
(***************************************************************************)
(* What holds of a provider's stream for every set of clients, every bound *)
(* on the messages read and every capacity of a recognition's channel: its *)
(* mutex is held by whoever writes or decodes, its Opus codec is not used  *)
(* after it was freed, every decoder makes of a history message by message *)
(* what the history means, no item is left out of a stream that nobody     *)
(* gave up, and each client implements OrderedStream.                      *)
(***************************************************************************)
EXTENDS ProviderStreams, FiniteSetTheorems, SequenceTheorems, TLAPS

\* What the proof uses of a client: PCM and hexadecimal audio belong to a
\* synthesis, and only a synthesis frees its codec with the reader.
ClientFacts(c) == /\ c.decode = "pcm" => c.kind # "asr" /\ c.codec = "own"
                  /\ Len(c.handshake) \in 0..5
                  /\ c.decode \in {"openai", "sse", "pcm", "delta", "hex", "sentence",
                                   "transcript", "mock"}

\* The table of the clients keeps the facts the proof uses.
LEMMA ClientsAreSound ==
    ASSUME NEW p \in DOMAIN ClientOf
    PROVE  ClientFacts(ClientOf[p])
  BY DEF ClientFacts, ClientOf, Client, HTTPClient, DeepSeek, Moonshot, StepFun, DoubaoLLM,
         MiniMaxLLM, SiliconFlow, DashscopeLLM, Anthropic, DashscopeTTS, DoubaoTTS, MiniMaxTTS,
         DashscopeASR, DoubaoASR, MockLLM, MockTTS, MockASR

\* The items of a stream: the place of a transcript or an event, a frame of
\* a synthesis, a frame of PCM with the halves it is made of, a chunk with
\* the tool calls it completes.
Halves == Nat \X Nat
Items == Nat \cup Halves \cup Seq(Halves) \cup [at : Nat, calls : Seq(Seq(Nat))]

\* What a decoder keeps between two messages.
OpenCalls == Seq([index : 1..2, parts : Seq(Nat), sound : BOOLEAN])
OpenEvents == [type : 0..3, data : Seq([n : 0..3, at : Nat])]
OpenFrames == [expect : BOOLEAN, halves : Seq(Halves)]

KeptType == CASE Decodes("openai") -> OpenCalls
              [] Decodes("sse") -> OpenEvents
              [] Decodes("pcm") -> OpenFrames
              [] OTHER -> BOOLEAN

OutcomeType(K) == [items : Seq(Items), kept : K, ends : BOOLEAN]

\* What is read of a message: its number is small, its soundness a Boolean.
IsMessage(m) == m.n \in 0..3 /\ m.sound \in BOOLEAN /\ m.text \in BOOLEAN /\ m.final \in BOOLEAN

\* Of the fields of a message one says what the set of messages says.
LEMMA FieldsOfMessages ==
    ASSUME NEW kinds, NEW texts, NEW finals, NEW ns, NEW sounds,
           NEW m \in [kind : kinds, text : texts, final : finals, n : ns, sound : sounds]
    PROVE  m.kind \in kinds /\ m.text \in texts /\ m.final \in finals
           /\ m.n \in ns /\ m.sound \in sounds
  BY Zenon

\* Whatever a service sends is a message.
LEMMA MessagesAreTyped == ASSUME NEW m \in Messages PROVE IsMessage(m)
<1>1. ASSUME NEW kinds, NEW texts, NEW finals, NEW ns, NEW sounds,
             texts \subseteq BOOLEAN, finals \subseteq BOOLEAN,
             ns \subseteq 0..3, sounds \subseteq BOOLEAN,
             m \in [kind : kinds, text : texts, final : finals, n : ns, sound : sounds]
      PROVE  IsMessage(m)
  BY <1>1, FieldsOfMessages, Zenon DEF IsMessage
<1>2. ASSUME NEW kinds, NEW ns, NEW sounds, ns \subseteq 0..3, sounds \subseteq BOOLEAN,
             m \in MessagesOf(kinds, ns, sounds)
      PROVE  IsMessage(m)
  BY <1>1, <1>2, {FALSE} \subseteq BOOLEAN, Zenon DEF MessagesOf
<1>3. /\ {0} \subseteq 0..3 /\ {1} \subseteq 0..3 /\ {1, 2} \subseteq 0..3
      /\ 0..2 \subseteq 0..3 /\ 1..2 \subseteq 0..3 /\ 1..3 \subseteq 0..3 /\ 0..3 \subseteq 0..3
  OBVIOUS
<1>4. {TRUE} \subseteq BOOLEAN /\ {FALSE} \subseteq BOOLEAN /\ BOOLEAN \subseteq BOOLEAN
  OBVIOUS
<1>5. m \in OpenAIMessages => IsMessage(m)
  <2>1. m \in [kind : {"line"}, text : BOOLEAN, final : BOOLEAN, n : {0}, sound : {TRUE}]
        => IsMessage(m)
    BY <1>1, <1>3, <1>4, Zenon
  <2>2. m \in [kind : {"line"}, text : {FALSE}, final : BOOLEAN, n : {1, 2}, sound : {TRUE}]
        => IsMessage(m)
    BY <1>1, <1>3, <1>4, Zenon
  <2>3. QED
    BY <2>1, <2>2, <1>2, <1>3, <1>4, Zenon DEF OpenAIMessages
<1>6. m \in SSEMessages => IsMessage(m)
  BY <1>2, <1>3, <1>4, Zenon DEF SSEMessages
<1>7. ASSUME NEW ns, ns \subseteq 0..3, m \in AudioMessages(ns) PROVE IsMessage(m)
  <2>1. m \in MessagesOf({"audio"}, ns, BOOLEAN) => IsMessage(m)
    BY <1>2, <1>4, <1>7, Zenon
  <2>2. m \in MessagesOf({"other", "finished", "failed"}, {0}, {TRUE}) => IsMessage(m)
    <3> DEFINE kinds == {"other", "finished", "failed"}
    <3> HIDE DEF kinds
    <3>1. m \in MessagesOf(kinds, {0}, {TRUE}) => IsMessage(m)
      BY <1>2, <1>3, <1>4, Zenon
    <3>2. QED
      BY <3>1 DEF kinds
  <2>3. QED
    BY <1>7, <2>1, <2>2, Zenon DEF AudioMessages
<1>8. m \in PCMMessages => IsMessage(m)
  BY <1>2, <1>3, <1>4, <1>7, Zenon DEF PCMMessages
<1>9. m \in DeltaMessages => IsMessage(m)
  BY <1>3, <1>7, Zenon DEF DeltaMessages
<1>10. m \in HexMessages => IsMessage(m)
  <2>1. m \in [kind : {"audio"}, text : {FALSE}, final : {TRUE}, n : {1}, sound : {TRUE}]
        => IsMessage(m)
    BY <1>1, <1>3, <1>4, Zenon
  <2>2. QED
    BY <1>9, <2>1, Zenon DEF HexMessages
<1>11. m \in ASRMessages => IsMessage(m)
  <2> DEFINE kinds == {"partial", "final", "other", "finished", "failed"}
  <2> HIDE DEF kinds
  <2>1. m \in MessagesOf(kinds, {0}, {TRUE}) => IsMessage(m)
    BY <1>2, <1>3, <1>4, Zenon
  <2>2. QED
    BY <2>1 DEF kinds, ASRMessages
<1>12. m \in MessagesOf({"timer"}, {0}, {TRUE}) => IsMessage(m)
  BY <1>2, <1>3, <1>4, Zenon
<1>13. QED
  BY <1>5, <1>6, <1>8, <1>9, <1>10, <1>11, <1>12, Zenon DEF Messages

\* The fields of an outcome are what it was made of.
LEMMA OutcomeFields ==
    ASSUME NEW items, NEW keeps, NEW ends
    PROVE  /\ Outcome(items, keeps, ends).items = items
           /\ Outcome(items, keeps, ends).kept = keeps
           /\ Outcome(items, keeps, ends).ends = ends
  BY DEF Outcome

\* An outcome that fits the decoder of the stream.
Fits(o) == o.items \in Seq(Items) /\ o.kept \in KeptType

\* An outcome of items and of something that can be kept fits.
LEMMA OutcomeFits ==
    ASSUME NEW items \in Seq(Items), NEW keeps \in KeptType, NEW ends
    PROVE  Fits(Outcome(items, keeps, ends))
  BY OutcomeFields DEF Fits

\* A message that is passed over or ends the stream keeps what was kept.
LEMMA NothingFits == ASSUME kept \in KeptType PROVE Fits(Nothing) /\ Fits(Broken)
<1>1. <<>> \in Seq(Items)
  OBVIOUS
<1>2. QED
  BY <1>1, OutcomeFits DEF Nothing, Broken

\* Three kinds of items that a decoder makes one or more of.
LEMMA ItemsAreItems ==
    /\ <<>> \in Seq(Items)
    /\ \A i \in Nat : <<i>> \in Seq(Items)
    /\ \A f \in Seq(Halves) : <<f>> \in Seq(Items)
    /\ \A i \in Nat, c \in Seq(Seq(Nat)) : <<[at |-> i, calls |-> c]>> \in Seq(Items)
    /\ \A s \in Seq(Nat) : s \in Seq(Items)
    /\ \A s \in Seq(Halves) : s \in Seq(Items)
<1>1. \A x \in Items : <<x>> \in Seq(Items)
  OBVIOUS
<1>2. Nat \subseteq Items /\ Halves \subseteq Items /\ Seq(Halves) \subseteq Items
  BY DEF Items
<1>3. \A i \in Nat, c \in Seq(Seq(Nat)) : [at |-> i, calls |-> c] \in Items
  BY DEF Items
<1>4. \A S \in SUBSET Items : Seq(S) \subseteq Seq(Items)
  OBVIOUS
<1>5. QED
  BY <1>1, <1>2, <1>3, <1>4

\* The pieces of an audio message are items.
LEMMA PiecesAreHalves ==
    ASSUME NEW m, IsMessage(m), NEW i \in Nat
    PROVE  Pieces(m, i) \in Seq(Halves) /\ Len(Pieces(m, i)) = m.n
<1>1. m.n \in Nat
  BY DEF IsMessage
<1>2. \A f \in 1..m.n : <<i, f>> \in Halves
  BY <1>1 DEF Halves
<1>3. QED
  BY <1>1, <1>2 DEF Pieces

\* What the decoders make of a message fits.
LEMMA OpenAIFits ==
    ASSUME Decodes("openai"), kept \in KeptType, NEW m, IsMessage(m), NEW i \in Nat,
           m.n \in 0..2
    PROVE  Fits(DecodeOpenAI(m, i))
<1> DEFINE Call == [index : 1..2, parts : Seq(Nat), sound : BOOLEAN]
<1>1. KeptType = Seq(Call)
  BY Zenon DEF KeptType, OpenCalls, Decodes
<1> DEFINE calls == Add(kept, m, i)
<1>2. calls \in Seq(Call)
  <2> DEFINE known == {k \in DOMAIN kept : kept[k].index = m.n}
             k == CHOOSE j \in known : TRUE
  <2>1. CASE m.n = 0
    BY <1>1, <2>1 DEF Add
  <2>2. CASE m.n # 0 /\ known = {}
    <3>1. [index |-> m.n, parts |-> <<i>>, sound |-> m.sound] \in Call
      BY <2>2 DEF IsMessage
    <3>2. calls = Append(kept, [index |-> m.n, parts |-> <<i>>, sound |-> m.sound])
      BY <2>2 DEF Add
    <3>3. QED
      BY <1>1, <3>1, <3>2
  <2>3. CASE m.n # 0 /\ known # {}
    <3>1. k \in DOMAIN kept
      BY <2>3
    <3> DEFINE call1 == [kept[k] EXCEPT !.parts = Append(@, i)]
               call2 == [call1 EXCEPT !.sound = @ /\ m.sound]
    <3> HIDE DEF k
    <3>2. kept[k] \in Call
      <4> HIDE DEF Call
      <4>1. QED
        BY <1>1, <3>1
    <3>3. call1 \in Call
      <4> DEFINE open == kept[k]
      <4>1. Append(open.parts, i) \in Seq(Nat)
        BY <3>2
      <4> HIDE DEF open
      <4>2. open \in Call => [open EXCEPT !.parts = Append(@, i)] \in Call
        BY <4>1
      <4>3. QED
        BY <3>2, <4>2 DEF open
    <3>4. call2 \in Call
      <4> HIDE DEF call1
      <4>1. call2 = [index |-> call1.index, parts |-> call1.parts, sound |-> call1.sound /\ m.sound]
        BY <3>3
      <4>2. (call1.sound /\ m.sound) \in BOOLEAN
        OBVIOUS
      <4>3. QED
        BY <3>3, <4>1, <4>2
    <3>5. calls = [kept EXCEPT ![k] = call2]
      BY <2>3 DEF Add, k
    <3> HIDE DEF call2
    <3>6. QED
      BY <1>1, <3>1, <3>4, <3>5
  <2>4. QED
    BY <2>1, <2>2, <2>3
<1>3. Flush(calls) \in Seq(Seq(Nat))
  <2> HIDE DEF calls
  <2>1. ASSUME NEW k \in DOMAIN calls PROVE calls[k].parts \in Seq(Nat)
    <3>1. calls[k] \in Call
      <4> HIDE DEF Call
      <4>1. QED
        BY <1>2
    <3>2. QED
      BY <3>1
  <2>2. DOMAIN calls = 1..Len(calls) /\ Len(calls) \in Nat
    BY <1>2
  <2>3. QED
    BY <2>1, <2>2 DEF Flush
<1> HIDE DEF calls
<1>4. CASE m.kind # "line" \/ (m.final /\ \E k \in DOMAIN calls : ~calls[k].sound)
  <2>1. DecodeOpenAI(m, i) \in {Broken, Outcome(<<>>, calls, FALSE)}
    BY <1>4 DEF DecodeOpenAI, calls
  <2>2. QED
    BY <1>1, <1>2, <2>1, NothingFits, OutcomeFits, ItemsAreItems
<1>5. CASE m.kind = "line" /\ ~m.text /\ ~m.final
  <2>1. DecodeOpenAI(m, i) = Outcome(<<>>, calls, FALSE)
    BY <1>5 DEF DecodeOpenAI, calls
  <2>2. QED
    BY <1>1, <1>2, <2>1, OutcomeFits, ItemsAreItems
<1>6. CASE m.kind = "line" /\ m.text /\ ~m.final
  <2>1. DecodeOpenAI(m, i) = Outcome(<<[at |-> i, calls |-> <<>>]>>, calls, FALSE)
    BY <1>6 DEF DecodeOpenAI, calls
  <2>2. <<>> \in Seq(Seq(Nat))
    OBVIOUS
  <2>3. QED
    BY <1>1, <1>2, <2>1, <2>2, OutcomeFits, ItemsAreItems
<1>7. CASE m.kind = "line" /\ m.final /\ ~\E k \in DOMAIN calls : ~calls[k].sound
  <2>1. DecodeOpenAI(m, i) = Outcome(<<[at |-> i, calls |-> Flush(calls)]>>, <<>>, FALSE)
    BY <1>7 DEF DecodeOpenAI, calls
  <2>2. <<>> \in KeptType
    BY <1>1
  <2>3. QED
    BY <1>3, <2>1, <2>2, OutcomeFits, ItemsAreItems
<1>8. QED
  BY <1>4, <1>5, <1>6, <1>7 DEF IsMessage

\* Frames cut from halves are items, and halves are kept.
LEMMA PCMFits ==
    ASSUME Decodes("pcm"), kept \in KeptType, NEW m, IsMessage(m), NEW i \in Nat
    PROVE  Fits(DecodePCM(m, i))
<1>1. KeptType = OpenFrames
  BY Zenon DEF KeptType, Decodes
<1>2. ASSUME NEW halves \in Seq(Halves), NEW padded \in BOOLEAN
      PROVE  Fits(FlushPCM(halves, padded, m))
  <2> DEFINE whole == Len(halves) >= 2
             frame == SubSeq(halves, 1, IF whole THEN 2 ELSE 1)
             frames == IF whole \/ (padded /\ halves # <<>>) THEN <<frame>> ELSE <<>>
             items == IF m.sound THEN frames ELSE <<>>
             rest == IF whole THEN SubSeq(halves, 3, Len(halves)) ELSE halves
  <2>1. halves # <<>> => frame \in Seq(Halves)
    <3>1. CASE whole
      BY <3>1
    <3>2. CASE ~whole /\ halves # <<>>
      <4>1. Len(halves) = 1
        <5>1. Len(halves) \in Nat /\ Len(halves) # 0
          BY <3>2
        <5>2. \A n \in Nat : n # 0 /\ ~(n >= 2) => n = 1
          OBVIOUS
        <5>3. QED
          BY <3>2, <5>1, <5>2
      <4>2. QED
        BY <3>2, <4>1
    <3>3. QED
      BY <3>1, <3>2
  <2>2. whole => halves # <<>>
    OBVIOUS
  <2>3. items \in Seq(Items)
    <3> HIDE DEF frame, whole
    <3>1. QED
      BY <2>1, <2>2, ItemsAreItems
  <2>4. rest \in Seq(Halves)
    BY <1>2
  <2>5. [expect |-> FALSE, halves |-> rest] \in KeptType
    BY <1>1, <2>4 DEF OpenFrames
  <2>6. FlushPCM(halves, padded, m) = Outcome(items, [expect |-> FALSE, halves |-> rest], padded)
    BY DEF FlushPCM
  <2>7. QED
    BY <2>3, <2>5, <2>6, OutcomeFits
<1>3. kept.halves \in Seq(Halves)
  BY <1>1 DEF OpenFrames
<1>4. [kept EXCEPT !.expect = TRUE] \in KeptType
  BY <1>1 DEF OpenFrames
<1>5. kept.halves \o Pieces(m, i) \in Seq(Halves)
  BY <1>3, PiecesAreHalves
<1>6. QED
  BY <1>2, <1>3, <1>4, <1>5, NothingFits, OutcomeFits, ItemsAreItems DEF DecodePCM

\* The kinds of the messages of each decoder.
LEMMA KindsAreKnown ==
    ASSUME NEW m
    PROVE  /\ m \in OpenAIMessages => m.n \in 0..2
           /\ m \in SSEMessages => m.kind \in {"data", "event", "blank", "eof"}
<1>1. m \in OpenAIMessages => m.n \in 0..2
  <2>1. {0} \subseteq 0..2 /\ {1} \subseteq 0..2 /\ {1, 2} \subseteq 0..2
    OBVIOUS
  <2>2. m \in OpenAIMessages => m.n \in {0} \/ m.n \in {1} \/ m.n \in {1, 2}
    BY FieldsOfMessages, Zenon DEF OpenAIMessages, MessagesOf
  <2>3. QED
    BY <2>1, <2>2
<1>2. m \in SSEMessages => m.kind \in {"data", "event", "blank", "eof"}
  BY DEF SSEMessages, MessagesOf
<1>3. QED
  BY <1>1, <1>2

\* The place of a data line is an item, and lines are kept.
LEMMA SSEFits ==
    ASSUME Decodes("sse"), kept \in KeptType, NEW m, IsMessage(m), NEW i \in Nat,
           m.kind \in {"data", "event", "blank", "eof"}
    PROVE  Fits(DecodeSSE(m, i))
<1> DEFINE Line == [n : 0..3, at : Nat]
<1>1. KeptType = OpenEvents
  BY Zenon DEF KeptType, Decodes
<1>2. kept.data \in Seq(Line) /\ kept.type \in 0..3
  BY <1>1 DEF OpenEvents
<1>3. ASSUME NEW type \in 0..3, NEW data \in Seq(Line), NEW keeps \in KeptType, NEW ends
      PROVE  Fits(Dispatch(type, data, keeps, ends))
  <2>1. data # <<>> => data[1].at \in Nat
    <3>1. data # <<>> => data[1] \in Line
      <4> HIDE DEF Line
      <4>1. QED
        BY <1>3
    <3>2. QED
      BY <3>1
  <2>2. \/ Dispatch(type, data, keeps, ends) = Outcome(<<>>, keeps, ends)
        \/ Dispatch(type, data, keeps, ends) = Broken
        \/ data # <<>> /\ Dispatch(type, data, keeps, ends) = Outcome(<<data[1].at>>, keeps, ends)
    BY DEF Dispatch
  <2>3. QED
    BY <2>1, <2>2, NothingFits, OutcomeFits, ItemsAreItems
<1>4. ASSUME NEW t \in 0..3 PROVE [type |-> t, data |-> <<>>] \in KeptType
  <2>1. <<>> \in Seq(Line)
    OBVIOUS
  <2>2. QED
    BY <1>1, <2>1 DEF OpenEvents
<1>5. CASE m.kind = "data"
  <2>1. [n |-> m.n, at |-> i] \in Line
    BY DEF IsMessage
  <2>2. Append(kept.data, [n |-> m.n, at |-> i]) \in Seq(Line)
    <3> DEFINE d == [n |-> m.n, at |-> i]
    <3> HIDE DEF Line, d
    <3>1. Append(kept.data, d) \in Seq(Line)
      BY <1>2, <2>1 DEF d
    <3>2. QED
      BY <3>1 DEF d
  <2> DEFINE data == Append(kept.data, [n |-> m.n, at |-> i])
             keeps == [kept EXCEPT !.data = Append(@, [n |-> m.n, at |-> i])]
  <2>3. keeps = [type |-> kept.type, data |-> data]
    <3>1. keeps = [kept EXCEPT !.data = data]
      OBVIOUS
    <3> HIDE DEF data, keeps
    <3>2. QED
      BY <1>1, <3>1 DEF OpenEvents
  <2>4. DecodeSSE(m, i) = Outcome(<<>>, keeps, FALSE)
    BY <1>5 DEF DecodeSSE
  <2> HIDE DEF data, keeps
  <2>5. keeps \in KeptType
    BY <1>1, <1>2, <2>2, <2>3 DEF OpenEvents, data
  <2>6. QED
    BY <2>4, <2>5, OutcomeFits, ItemsAreItems
<1>6. CASE m.kind = "event"
  <2>1. DecodeSSE(m, i) = Dispatch(kept.type, kept.data, [type |-> m.n, data |-> <<>>], FALSE)
    BY <1>6 DEF DecodeSSE
  <2>2. [type |-> m.n, data |-> <<>>] \in KeptType
    BY <1>4 DEF IsMessage
  <2>3. QED
    BY <1>2, <1>3, <2>1, <2>2
<1>7. CASE m.kind = "blank"
  <2>1. DecodeSSE(m, i) = Dispatch(kept.type, kept.data, [type |-> 0, data |-> <<>>], FALSE)
    BY <1>7 DEF DecodeSSE
  <2>2. [type |-> 0, data |-> <<>>] \in KeptType
    BY <1>4
  <2>3. 0 \in 0..3
    OBVIOUS
  <2>4. QED
    BY <1>2, <1>3, <2>1, <2>2
<1>8. CASE m.kind = "eof"
  <2>1. DecodeSSE(m, i) = Dispatch(kept.type, kept.data, kept, TRUE)
    BY <1>8 DEF DecodeSSE
  <2>2. QED
    BY <1>2, <1>3, <2>1
<1>9. QED
  BY <1>5, <1>6, <1>7, <1>8

\* Every decoder makes items and keeps what its client keeps.
LEMMA DecodeFits ==
    ASSUME provider \in DOMAIN ClientOf, kept \in KeptType, NEW m \in Messages, NEW i \in Nat
    PROVE  Fits(Decode(m, i))
<1>1. IsMessage(m)
  BY MessagesAreTyped
<1>2. CASE Decodes("openai")
  <2>1. m \in OpenAIMessages
    BY <1>2, Zenon DEF Messages, Decodes, IsMock
  <2>2. Decode(m, i) = DecodeOpenAI(m, i)
    BY <1>2, Zenon DEF Decode, Decodes, IsMock
  <2>3. QED
    BY <1>1, <1>2, <2>1, <2>2, OpenAIFits, KindsAreKnown
<1>3. CASE Decodes("sse")
  <2>1. m \in SSEMessages
    BY <1>3, Zenon DEF Messages, Decodes, IsMock
  <2>2. Decode(m, i) = DecodeSSE(m, i)
    BY <1>3, Zenon DEF Decode, Decodes, IsMock
  <2>3. QED
    BY <1>1, <1>3, <2>1, <2>2, SSEFits, KindsAreKnown
<1>4. CASE Decodes("pcm")
  <2>1. Decode(m, i) = DecodePCM(m, i)
    BY <1>4, Zenon DEF Decode, Decodes, IsMock
  <2>2. QED
    BY <1>1, <1>4, <2>1, PCMFits
<1>5. KeptType = BOOLEAN \/ Decodes("openai") \/ Decodes("sse") \/ Decodes("pcm")
  BY Zenon DEF KeptType
<1>6. CASE Decodes("delta")
  <2>1. Decode(m, i) = DecodeDelta(m, i)
    BY <1>6, Zenon DEF Decode, Decodes, IsMock
  <2>2. QED
    BY <1>1, <2>1, NothingFits, OutcomeFits, ItemsAreItems, PiecesAreHalves DEF DecodeDelta
<1>7. CASE Decodes("hex")
  <2>1. Decode(m, i) = DecodeHex(m, i)
    BY <1>7, Zenon DEF Decode, Decodes, IsMock
  <2>2. QED
    BY <1>1, <2>1, NothingFits, OutcomeFits, ItemsAreItems, PiecesAreHalves DEF DecodeHex
<1>8. CASE Decodes("sentence")
  <2>1. Decode(m, i) = DecodeSentence(m, i)
    BY <1>8, Zenon DEF Decode, Decodes, IsMock
  <2>2. QED
    BY <2>1, NothingFits, OutcomeFits, ItemsAreItems DEF DecodeSentence
<1>9. CASE Decodes("transcript")
  <2>1. Decode(m, i) = DecodeTranscript(m, i)
    BY <1>9, Zenon DEF Decode, Decodes, IsMock
  <2>2. QED
    BY <2>1, NothingFits, OutcomeFits, ItemsAreItems DEF DecodeTranscript
<1>10. CASE IsMock
  <2>1. Decode(m, i) = Outcome(MockItems, kept, TRUE)
    BY <1>10, Zenon DEF Decode, Decodes, IsMock
  <2>2. QED
    BY <2>1, OutcomeFits, ItemsAreItems, BoundsAssumption
<1>11. Decodes("openai") \/ Decodes("sse") \/ Decodes("pcm") \/ Decodes("delta")
       \/ Decodes("hex") \/ Decodes("sentence") \/ Decodes("transcript") \/ IsMock
  BY ClientsAreSound DEF Self, ClientFacts, Decodes, IsMock
<1>12. QED
  BY <1>2, <1>3, <1>4, <1>6, <1>7, <1>8, <1>9, <1>10, <1>11

HasLock == /\ Self.codec = "own" /\ accept = "decoding" => mu = "accept"
           /\ accept = "writing" => mu = "accept"
           /\ finish = "writing" => mu = "finish"
           /\ accept # "idle" \/ finish # "idle" \/ mu # "none" => call = "open" /\ IsASR

CloseIsMarked == /\ \A c \in Closers : closing[c] # "idle" => closed
                 /\ closed => call = "open" /\ IsASR
                 /\ closing \in [Closers -> {"idle", "marked", "done"}]

\* The own codec of a stream that is open lives until the reader of a
\* synthesis leaves or the Close of a recognition has been marked.
CodecLives == /\ call \in {"dialling", "step1", "step2", "step3", "step4", "step5"}
                    /\ Self.codec = "own" => codec = "live"
              /\ call = "open" /\ Self.codec = "own" /\ ~IsASR /\ reader # "gone" => codec = "live"
              /\ call = "open" /\ Self.codec = "own" /\ IsASR /\ ~closed => codec = "live"
              /\ accept = "decoding" /\ Self.codec = "own" => ~closed

ControlTypes == /\ provider \in DOMAIN ClientOf
                /\ call \in {"idle", "dialling", "step1", "step2", "step3", "step4", "step5",
                             "open", "failed"}
                /\ reader # "none" <=> call = "open"
                /\ reader \in {"none", "top", "reading", "leaving", "gone"}
                /\ mu \in {"none", "accept", "finish"}
                /\ accept \in {"idle", "decoding", "checking", "writing"}
                /\ finish \in {"idle", "writing"}
                /\ ~IsASR => reader # "top"

ReadTypes == /\ kept \in KeptType /\ hand \in Seq(Items) /\ got \in Seq(Messages)
             /\ hand # <<>> => reader = "reading"

ControlInv == ControlTypes /\ ReadTypes /\ HasLock /\ CloseIsMarked /\ CodecLives

\* A stream keeps its client, and so what its messages and its state can be.
LEMMA ClientIsFixed ==
    ASSUME provider' = provider
    PROVE  /\ Self' = Self /\ IsASR' = IsASR /\ IsMock' = IsMock
           /\ KeptType' = KeptType /\ Messages' = Messages
  BY DEF Self, IsASR, IsMock, KeptType, Messages, Decodes, OpenCalls, OpenEvents, OpenFrames

\* A step that leaves the reader's data alone.
LEMMA ReadIsTyped ==
    ASSUME ReadTypes, provider' = provider, UNCHANGED <<kept, hand, got>>,
           reader' = reader \/ hand = <<>>
    PROVE  ReadTypes'
  BY ClientIsFixed DEF ReadTypes

\* Before the stream is opened nobody holds its lock and it has no codec.
LEMMA InitControl == Init => ControlInv
<1> SUFFICES ASSUME Init PROVE ControlInv
  OBVIOUS
<1>1. Begins \in KeptType
  <2>1. <<>> \in OpenCalls /\ [expect |-> FALSE, halves |-> <<>>] \in OpenFrames
    BY DEF OpenCalls, OpenFrames
  <2>2. [type |-> 0, data |-> <<>>] \in OpenEvents
    BY DEF OpenEvents
  <2>3. IsASR \in BOOLEAN
    BY DEF IsASR
  <2>4. QED
    BY <2>1, <2>2, <2>3, Zenon DEF Begins, KeptType, Decodes, IsMock
<1>2. <<>> \in Seq(Items) /\ <<>> \in Seq(Messages)
  OBVIOUS
<1>3. ReadTypes
  BY <1>1, <1>2 DEF Init, ReadTypes
<1>4. ControlTypes
  BY ProvidersAssumption DEF Init, ControlTypes
<1>5. HasLock /\ CloseIsMarked /\ CodecLives
  BY DEF Init, HasLock, CloseIsMarked, CodecLives, Closers
<1>6. QED
  BY <1>3, <1>4, <1>5 DEF ControlInv

\* A handshake that fails frees the codec and hands nothing out.
LEMMA UnwindsControl ==
    ASSUME ControlInv, Unwinds,
           call \in {"idle", "dialling", "step1", "step2", "step3", "step4", "step5"}
    PROVE  ControlInv'
<1>1. ReadTypes'
  BY ReadIsTyped DEF ControlInv, Unwinds, readVars
<1>2. QED
  BY <1>1, ClientIsFixed
  DEF ControlInv, ControlTypes, HasLock, CloseIsMarked, CodecLives, Unwinds, readVars, userVars

\* The place in the handshake is one of its five, or none.
LEMMA PlaceIsAStep ==
    /\ Place \in 0..5
    /\ Place > 0 => call \in {"step1", "step2", "step3", "step4", "step5"}
  BY DEF Place

\* The handshake goes on with the codec it made.
LEMMA ProceedsControl ==
    ASSUME ControlInv, Proceeds,
           call \in {"dialling", "step1", "step2", "step3", "step4", "step5"}
    PROVE  ControlInv'
<1> DEFINE Names == <<"step1", "step2", "step3", "step4", "step5">>
<1>1. ClientFacts(Self)
  BY ClientsAreSound DEF ControlInv, ControlTypes, Self
<1>2. Self' = Self
  BY DEF Proceeds, Self
<1>r. ReadTypes'
  BY ReadIsTyped DEF ControlInv, ControlTypes, ReadTypes, Proceeds
<1>3. CASE Place < Len(Self.handshake)
  <2>1. Place + 1 \in 1..5
    <3>1. ASSUME NEW p \in 0..5, NEW n \in 0..5, p < n
          PROVE  p + 1 \in 1..5
      BY <3>1
    <3>2. Len(Self.handshake) \in 0..5 /\ Place \in 0..5
      BY <1>1, PlaceIsAStep DEF ClientFacts
    <3>3. QED
      BY <1>3, <3>1, <3>2, Zenon
  <2>2. call' = Names[Place + 1] /\ reader' = reader
    BY <1>3 DEF Proceeds
  <2>3. call' \in {"step1", "step2", "step3", "step4", "step5"}
    BY <2>1, <2>2
  <2>4. QED
    BY <1>r, ClientIsFixed, <2>2, <2>3
    DEF ControlInv, ControlTypes, HasLock, CloseIsMarked, CodecLives, Proceeds, userVars
<1>4. CASE ~(Place < Len(Self.handshake))
  <2>1. call' = "open" /\ reader' \in {"top", "reading"} /\ (reader' = "top" => IsASR)
    BY <1>4 DEF Proceeds
  <2>2. QED
    BY <1>r, ClientIsFixed, <2>1
    DEF ControlInv, ControlTypes, HasLock, CloseIsMarked, CodecLives, Proceeds, userVars
<1>5. QED
  BY <1>3, <1>4

\* A handshake goes on or unwinds.
LEMMA OpeningControl == ASSUME ControlInv, OpeningNext PROVE ControlInv'
<1>1. CASE OpenRefused \/ DialFails \/ WriteFails \/ NotStarted
  BY <1>1, UnwindsControl, PlaceIsAStep DEF OpenRefused, DialFails, WriteFails, NotStarted
<1>2. CASE Opens
  <2>1. ReadTypes'
    BY <1>2, ReadIsTyped DEF ControlInv, Opens, readVars
  <2>2. QED
    BY <1>2, <2>1, ClientIsFixed
    DEF ControlInv, ControlTypes, HasLock, CloseIsMarked, CodecLives, Opens, readVars, userVars
<1>3. CASE Connected \/ Writes \/ Started
  BY <1>3, ProceedsControl, PlaceIsAStep DEF Connected, Writes, Started
<1>4. QED
  BY <1>1, <1>2, <1>3 DEF OpeningNext

\* The reader touches neither lock nor marks; its end frees a synthesis's
\* codec and leaves a recognition's to Close.
LEMMA ReaderControl == ASSUME ControlInv, ReaderNext PROVE ControlInv'
<1>1. CASE Leave
  <2>1. ReadTypes'
    BY <1>1, ReadIsTyped DEF ControlInv, ReadTypes, Leave, callVars
  <2>2. QED
    BY <1>1, <2>1, ClientIsFixed
    DEF ControlInv, ControlTypes, HasLock, CloseIsMarked, CodecLives, Leave, callVars, userVars
<1>2. ASSUME UNCHANGED <<provider, call, cancelled, codec>>, UNCHANGED userVars, ReadTypes',
             reader \notin {"none", "gone"}, reader' \in {"top", "reading", "leaving"},
             reader' = "top" => IsASR \/ reader = "top"
      PROVE  ControlInv'
  <2>1. Self' = Self /\ IsASR' = IsASR
    BY <1>2, ClientIsFixed
  <2>2. ControlTypes'
    BY <1>2, <2>1 DEF ControlInv, ControlTypes, userVars
  <2>3. HasLock' /\ CloseIsMarked' /\ CodecLives'
    BY <1>2, <2>1 DEF ControlInv, HasLock, CloseIsMarked, CodecLives, userVars
  <2>4. QED
    BY <1>2, <2>2, <2>3 DEF ControlInv
<1>3. CASE Top \/ ReadFails \/ MockStops
  <2>1. ReadTypes'
    BY <1>3, ReadIsTyped DEF ControlInv, ReadTypes, Top, ReadFails, MockStops, callVars
  <2>2. QED
    BY <1>2, <1>3, <2>1 DEF Top, ReadFails, MockStops, callVars
<1>4. ASSUME NEW m \in Messages, Read(m) PROVE ControlInv'
  <2> DEFINE outcome == Decode(m, Len(got) + 1)
  <2>1. Len(got) + 1 \in Nat
    BY DEF ControlInv, ReadTypes
  <2>2. Fits(outcome)
    BY <2>1, DecodeFits DEF ControlInv, ControlTypes, ReadTypes
  <2>3. ReadTypes'
    <3>1. kept' \in KeptType /\ hand' \in Seq(Items) /\ provider' = provider
      BY <1>4, <2>2 DEF Read, Fits, callVars
    <3>2. got' \in Seq(Messages)
      BY <1>4 DEF Read, ControlInv, ReadTypes
    <3>3. hand' # <<>> => reader' = "reading"
      BY <1>4 DEF Read
    <3>4. QED
      BY <3>1, <3>2, <3>3, ClientIsFixed DEF ReadTypes
  <2>4. QED
    BY <1>2, <1>4, <2>3 DEF Read, Then, callVars
<1>5. CASE Send \/ SendEvent
  <2>1. hand # <<>> /\ SentOne /\ UNCHANGED callVars
    BY <1>5 DEF Send, SendEvent, SentOne
  <2>2. hand' \in Seq(Items) /\ (hand' # <<>> => reader' = reader)
    BY <2>1 DEF SentOne, ControlInv, ReadTypes
  <2>3. ReadTypes'
    BY <2>1, <2>2, ClientIsFixed DEF SentOne, ControlInv, ReadTypes, callVars
  <2>4. QED
    BY <1>2, <1>5, <2>1, <2>3 DEF SentOne, Then, Send, SendEvent, callVars, ControlInv, ReadTypes
<1>6. CASE Abandon
  <2>1. ReadTypes'
    <3>1. <<>> \in Seq(Items)
      OBVIOUS
    <3>2. QED
      BY <1>6, <3>1, ClientIsFixed DEF Abandon, ControlInv, ReadTypes, callVars
  <2>2. QED
    BY <1>2, <1>6, <2>1 DEF Abandon, Then, callVars, ControlInv, ReadTypes
<1>7. QED
  BY <1>1, <1>3, <1>4, <1>5, <1>6 DEF ReaderNext

\* Audio, finish and close take the mutex in turn; a Close that has been
\* marked keeps the next audio out before the decoder is freed.
LEMMA UserControl == ASSUME ControlInv, UserNext PROVE ControlInv'
<1>1. /\ UNCHANGED <<provider, call, reader, got, hand>>
      /\ kept' = kept \/ (kept' = TRUE /\ IsMock)
  BY DEF UserNext, AcceptLocked, AcceptShared, AcceptDecoded, AcceptUndecoded, AcceptChecks,
         AcceptWritten, AcceptMock, FinishLocked, FinishWritten, CloseMarks, CloseReleases,
         userFrame, callVars
<1>2. Self' = Self /\ IsASR' = IsASR
  BY <1>1, ClientIsFixed
<1>3. ReadTypes'
  <2>1. IsMock => KeptType = BOOLEAN
    BY Zenon DEF KeptType, Decodes, IsMock
  <2>2. kept' \in KeptType
    BY <1>1, <2>1 DEF ControlInv, ReadTypes
  <2>3. QED
    BY <1>1, <2>2, ClientIsFixed DEF ControlInv, ReadTypes
<1>4. CASE AcceptLocked
  BY <1>1, <1>2, <1>3, <1>4
  DEF ControlInv, ControlTypes, HasLock, CloseIsMarked, CodecLives, AcceptLocked, Free
<1>5. CASE AcceptShared
  BY <1>1, <1>2, <1>3, <1>5
  DEF ControlInv, ControlTypes, HasLock, CloseIsMarked, CodecLives, AcceptShared
<1>6. CASE AcceptDecoded
  BY <1>1, <1>2, <1>3, <1>6
  DEF ControlInv, ControlTypes, HasLock, CloseIsMarked, CodecLives, AcceptDecoded
<1>7. CASE AcceptUndecoded
  BY <1>1, <1>2, <1>3, <1>7
  DEF ControlInv, ControlTypes, HasLock, CloseIsMarked, CodecLives, AcceptUndecoded
<1>8. CASE AcceptChecks
  BY <1>1, <1>2, <1>3, <1>8
  DEF ControlInv, ControlTypes, HasLock, CloseIsMarked, CodecLives, AcceptChecks, Free
<1>9. CASE AcceptWritten
  BY <1>1, <1>2, <1>3, <1>9
  DEF ControlInv, ControlTypes, HasLock, CloseIsMarked, CodecLives, AcceptWritten
<1>10. CASE AcceptMock
  BY <1>1, <1>2, <1>3, <1>10
  DEF ControlInv, ControlTypes, HasLock, CloseIsMarked, CodecLives, AcceptMock, userVars
<1>11. CASE FinishLocked
  BY <1>1, <1>2, <1>3, <1>11
  DEF ControlInv, ControlTypes, HasLock, CloseIsMarked, CodecLives, FinishLocked, Free
<1>12. CASE FinishWritten
  BY <1>1, <1>2, <1>3, <1>12
  DEF ControlInv, ControlTypes, HasLock, CloseIsMarked, CodecLives, FinishWritten
<1>13. ASSUME NEW c \in Closers, CloseMarks(c) PROVE ControlInv'
  BY <1>1, <1>2, <1>3, <1>13
  DEF ControlInv, ControlTypes, HasLock, CloseIsMarked, CodecLives, CloseMarks, Free
<1>14. ASSUME NEW c \in Closers, CloseReleases(c) PROVE ControlInv'
  BY <1>1, <1>2, <1>3, <1>14
  DEF ControlInv, ControlTypes, HasLock, CloseIsMarked, CodecLives, CloseReleases
<1>15. QED
  BY <1>4, <1>5, <1>6, <1>7, <1>8, <1>9, <1>10, <1>11, <1>12, <1>13, <1>14 DEF UserNext

\* Every step of a stream keeps who holds what.
LEMMA ControlStep == ASSUME ControlInv, [Next]_vars PROVE ControlInv'
<1>1. CASE CancelContext \/ Receive \/ WatcherCloses \/ UNCHANGED vars
  <2>1. /\ UNCHANGED <<provider, call, reader, codec, mu, accept, finish, closed, closing>>
        /\ UNCHANGED <<kept, hand, got>>
    BY <1>1 DEF CancelContext, Receive, WatcherCloses, vars, callVars, readVars, userVars
  <2>2. ReadTypes'
    BY <2>1, ReadIsTyped DEF ControlInv
  <2>3. QED
    BY <2>1, <2>2, ClientIsFixed
    DEF ControlInv, ControlTypes, HasLock, CloseIsMarked, CodecLives
<1>2. QED
  BY <1>1, OpeningControl, ReaderControl, UserControl DEF Next

\* The inductive invariant of the goroutines of a stream: who holds the
\* mutex, what Close has marked and how long the codec lives.
THEOREM ControlInvariant == Spec => []ControlInv
  BY InitControl, ControlStep, PTL DEF Spec

\* Neither the encoder of a synthesis nor the decoder of a recognition is
\* used after it was freed, however audio, finish and Close interleave
\* (ASRStream.AcceptOpus, ASRStream.Close, readTTSFrames).
THEOREM CodecStaysAlive == Spec => []CodecIsAlive
<1>1. ControlInv => CodecIsAlive
  <2> SUFFICES ASSUME ControlInv PROVE CodecIsAlive
    OBVIOUS
  <2>1. ClientFacts(Self)
    BY ClientsAreSound DEF ControlInv, ControlTypes, Self
  <2>2. Decodes("pcm") => ~IsASR /\ Self.codec = "own"
    BY <2>1 DEF ClientFacts, Decodes, IsASR
  <2>3. reader = "reading" => call = "open" /\ reader # "gone"
    BY DEF ControlInv, ControlTypes
  <2>4. QED
    BY <2>2, <2>3 DEF CodecIsAlive, ControlInv, CodecLives, HasLock
<1>2. QED
  BY <1>1, ControlInvariant, PTL

\* Audio and finish never write to the connection at the same time: the
\* mutex of a recognition serialises them (ASRStream.AcceptOpus, Finish).
THEOREM WritesTakeTurns == Spec => []~(accept = "writing" /\ finish = "writing")
<1>1. ControlInv => ~(accept = "writing" /\ finish = "writing")
  BY DEF ControlInv, HasLock
<1>2. QED
  BY <1>1, ControlInvariant, PTL

-----------------------------------------------------------------------------
(* Finite sets in an order, and histories that grow by one message.        *)

\* An order of a set: the pairs of a total order on it.
IsOrder(order, S) ==
    /\ \A x \in S : <<x, x>> \in order
    /\ \A x, y \in S : <<x, y>> \in order \/ <<y, x>> \in order
    /\ \A x, y \in S : <<x, y>> \in order /\ <<y, x>> \in order => x = y
    /\ \A x, y, z \in S : <<x, y>> \in order /\ <<y, z>> \in order => <<x, z>> \in order

UpTo(order, S, x) == {y \in S : <<y, x>> \in order}
Rank(order, S, x) == Cardinality(UpTo(order, S, x))

\* A set in its order, said with ranks.
LEMMA InOrderIs ==
    ASSUME NEW S, NEW order
    PROVE  InOrder(S, order) = [k \in 1..Cardinality(S) |-> CHOOSE x \in S : Rank(order, S, x) = k]
  BY DEF InOrder, Rank, UpTo

\* Elements of a finite set have their ranks in its order, each its own.
LEMMA RanksDiffer ==
    ASSUME NEW S, IsFiniteSet(S), NEW order, IsOrder(order, S)
    PROVE  /\ \A x \in S : Rank(order, S, x) \in 1..Cardinality(S)
           /\ \A x, y \in S : <<x, y>> \in order /\ x # y => Rank(order, S, x) < Rank(order, S, y)
<1>0. Cardinality(S) \in Nat
  BY FS_CardinalityType
<1>1. ASSUME NEW x \in S PROVE Rank(order, S, x) \in 1..Cardinality(S)
  <2>1. UpTo(order, S, x) \in SUBSET S /\ x \in UpTo(order, S, x)
    BY DEF UpTo, IsOrder
  <2>2. IsFiniteSet(UpTo(order, S, x)) /\ Cardinality(UpTo(order, S, x)) <= Cardinality(S)
    BY <2>1, FS_Subset
  <2>3. Cardinality(UpTo(order, S, x)) \in Nat /\ Cardinality(UpTo(order, S, x)) # 0
    BY <2>1, <2>2, FS_CardinalityType, FS_EmptySet
  <2>4. QED
    BY <1>0, <2>2, <2>3 DEF Rank
<1>2. ASSUME NEW x \in S, NEW y \in S, <<x, y>> \in order, x # y
      PROVE  Rank(order, S, x) < Rank(order, S, y)
  <2>1. UpTo(order, S, x) \in SUBSET UpTo(order, S, y)
    BY <1>2 DEF UpTo, IsOrder
  <2>2. y \in UpTo(order, S, y) /\ y \notin UpTo(order, S, x)
    BY <1>2 DEF UpTo, IsOrder
  <2>3. UpTo(order, S, y) \in SUBSET S
    BY DEF UpTo
  <2>4. IsFiniteSet(UpTo(order, S, y))
    BY <2>3, FS_Subset
  <2>5. /\ Cardinality(UpTo(order, S, x)) <= Cardinality(UpTo(order, S, y))
        /\ Cardinality(UpTo(order, S, x)) # Cardinality(UpTo(order, S, y))
    BY <2>1, <2>2, <2>4, FS_Subset
  <2>6. QED
    BY <1>1, <2>5 DEF Rank
<1>3. QED
  BY <1>1, <1>2

\* A finite set put in its order: each element at its rank.
LEMMA InOrderRanks ==
    ASSUME NEW S, IsFiniteSet(S), NEW order, IsOrder(order, S)
    PROVE  /\ InOrder(S, order) \in [1..Cardinality(S) -> S]
           /\ \A k \in 1..Cardinality(S) : Rank(order, S, InOrder(S, order)[k]) = k
           /\ \A x \in S : InOrder(S, order)[Rank(order, S, x)] = x
<1> DEFINE n == Cardinality(S)
           rank == [x \in S |-> Rank(order, S, x)]
<1>1. n \in Nat
  BY FS_CardinalityType
<1>2. \A x, y \in S : Rank(order, S, x) = Rank(order, S, y) => x = y
  <2>1. ASSUME NEW x \in S, NEW y \in S, x # y PROVE Rank(order, S, x) # Rank(order, S, y)
    <3>1. \/ <<x, y>> \in order /\ Rank(order, S, x) < Rank(order, S, y)
          \/ <<y, x>> \in order /\ Rank(order, S, y) < Rank(order, S, x)
      BY <2>1, RanksDiffer DEF IsOrder
    <3>2. Rank(order, S, x) \in 1..n /\ Rank(order, S, y) \in 1..n
      BY RanksDiffer
    <3>3. QED
      BY <1>1, <3>1, <3>2
  <2>2. QED
    BY <2>1
<1>3. rank \in Injection(S, 1..n)
  <2>1. rank \in [S -> 1..n]
    BY RanksDiffer
  <2>2. \A x, y \in S : rank[x] = rank[y] => x = y
    BY <1>2
  <2>3. QED
    BY <2>1, <2>2 DEF Injection, IsInjective
<1>4. rank \in Surjection(S, 1..n)
  <2>1. IsFiniteSet(1..n) /\ Cardinality(1..n) = n
    BY <1>1, FS_Interval
  <2>2. QED
    BY <1>3, <2>1, FS_Injection
<1>5. \A k \in 1..n : \E x \in S : Rank(order, S, x) = k
  BY <1>4 DEF Surjection
<1>6. ASSUME NEW k \in 1..n
      PROVE  /\ InOrder(S, order)[k] \in S
             /\ Rank(order, S, InOrder(S, order)[k]) = k
  <2>1. InOrder(S, order)[k] = CHOOSE x \in S : Rank(order, S, x) = k
    BY InOrderIs
  <2>2. QED
    BY <1>5, <2>1
<1>7. InOrder(S, order) \in [1..n -> S]
  BY <1>6, InOrderIs
<1>8. ASSUME NEW x \in S PROVE InOrder(S, order)[Rank(order, S, x)] = x
  BY <1>2, <1>6, RanksDiffer
<1>9. QED
  BY <1>6, <1>7, <1>8

Adds(T, S, x) == x \notin S /\ T = S \cup {x}
Agree(order1, order, S) == \A y, z \in S : <<y, z>> \in order1 <=> <<y, z>> \in order
IsGreatest(order, S, x) == \A y \in S : <<y, x>> \in order

\* A new greatest element comes at the end.
LEMMA GreatestIsLast ==
    ASSUME NEW S, IsFiniteSet(S), NEW order, IsOrder(order, S),
           NEW x, NEW T, Adds(T, S, x), NEW order1, IsOrder(order1, T),
           Agree(order1, order, S), IsGreatest(order1, S, x)
    PROVE  InOrder(T, order1) = Append(InOrder(S, order), x)
<1>0. x \notin S /\ T = S \cup {x}
  BY DEF Adds
<1> DEFINE n == Cardinality(S)
           f == InOrder(S, order)
           g == InOrder(T, order1)
<1>1. n \in Nat /\ IsFiniteSet(T) /\ Cardinality(T) = n + 1
  BY <1>0, FS_CardinalityType, FS_AddElement
<1>2. f \in [1..n -> S] /\ g \in [1..(n + 1) -> T]
  BY <1>1, InOrderRanks
<1>3. ASSUME NEW y \in S PROVE Rank(order1, T, y) = Rank(order, S, y)
  <2>1. <<x, y>> \notin order1
    BY <1>0 DEF IsOrder, IsGreatest
  <2>2. UpTo(order1, T, y) = UpTo(order, S, y)
    BY <1>0, <2>1 DEF UpTo, Agree
  <2>3. QED
    BY <2>2 DEF Rank
<1>4. Rank(order1, T, x) = n + 1
  <2>1. UpTo(order1, T, x) = T
    BY <1>0 DEF UpTo, IsOrder, IsGreatest
  <2>2. QED
    BY <1>1, <2>1 DEF Rank
<1>5. g[n + 1] = x
  BY <1>0, <1>1, <1>4, InOrderRanks
<1>6. ASSUME NEW k \in 1..n PROVE g[k] = f[k]
  <2>1. f[k] \in S /\ Rank(order, S, f[k]) = k
    BY <1>2, InOrderRanks
  <2>2. Rank(order1, T, f[k]) = k
    BY <1>3, <2>1
  <2>3. QED
    BY <1>0, <1>1, <2>1, <2>2, InOrderRanks
<1> HIDE DEF f, g
<1>7. Append(f, x) \in [1..(n + 1) -> T] /\ Append(f, x)[n + 1] = x
      /\ \A k \in 1..n : Append(f, x)[k] = f[k]
  <2>1. f \in Seq(T) /\ Len(f) = n
    <3>1. f \in Seq(S) /\ Len(f) = n
      BY <1>1, <1>2
    <3>2. S \subseteq T
      BY <1>0
    <3>3. QED
      BY <3>1, <3>2
  <2>2. /\ Append(f, x) \in Seq(T) /\ Len(Append(f, x)) = n + 1
        /\ \A k \in 1..n : Append(f, x)[k] = f[k]
        /\ Append(f, x)[n + 1] = x
    BY <1>0, <2>1, AppendProperties
  <2>3. QED
    BY <2>2, LenProperties
<1>8. g = Append(f, x)
  <2>1. \A k \in 1..(n + 1) : k \in 1..n \/ k = n + 1
    BY <1>1
  <2>2. \A k \in 1..(n + 1) : g[k] = Append(f, x)[k]
    BY <1>5, <1>6, <1>7, <2>1
  <2>3. ASSUME NEW D, NEW u \in [D -> T], NEW v \in [D -> T], \A d \in D : u[d] = v[d]
        PROVE  u = v
    BY <2>3
  <2> DEFINE h == Append(f, x)
             D == 1..(n + 1)
  <2>4. g \in [D -> T] /\ h \in [D -> T] /\ \A d \in D : g[d] = h[d]
    BY <1>2, <1>7, <2>2
  <2> HIDE DEF h, D
  <2>5. g = h
    BY <2>3, <2>4
  <2>6. QED
    BY <2>5 DEF h
<1>9. QED
  BY <1>8 DEF f, g

NatOrder(S) == {p \in S \X S : p[1] <= p[2]}

\* Numbers are ordered by their size.
LEMMA NatOrderIsOrder ==
    ASSUME NEW S \in SUBSET Nat
    PROVE  /\ IsOrder(NatOrder(S), S)
           /\ \A x, y \in S : <<x, y>> \in NatOrder(S) <=> x <= y
<1>1. \A x, y \in S : <<x, y>> \in NatOrder(S) <=> x <= y
  BY DEF NatOrder
<1>2. \A x \in S : x \in Nat
  OBVIOUS
<1> HIDE DEF NatOrder
<1>3. QED
  BY <1>1, <1>2 DEF IsOrder

\* Sorted puts numbers in that order.
LEMMA SortedIs == ASSUME NEW S PROVE Sorted(S) = InOrder(S, NatOrder(S))
  BY DEF Sorted, NatOrder

\* Numbers in their order: a greater one comes at the end.
LEMMA SortedGrows ==
    ASSUME NEW S \in SUBSET Nat, IsFiniteSet(S), NEW x \in Nat, \A y \in S : y < x
    PROVE  Sorted(S \cup {x}) = Append(Sorted(S), x)
<1> DEFINE T == S \cup {x}
<1>1. T \in SUBSET Nat /\ S \subseteq T /\ x \in T /\ Adds(T, S, x)
  BY DEF Adds
<1> HIDE DEF T
<1>2. IsOrder(NatOrder(S), S) /\ IsOrder(NatOrder(T), T)
  BY <1>1, NatOrderIsOrder
<1>3. Agree(NatOrder(T), NatOrder(S), S)
  BY <1>1, NatOrderIsOrder DEF Agree
<1>4. IsGreatest(NatOrder(T), S, x)
  <2>1. \A y \in S : y <= x
    OBVIOUS
  <2>2. QED
    BY <1>1, <2>1, NatOrderIsOrder DEF IsGreatest
<1>5. InOrder(T, NatOrder(T)) = Append(InOrder(S, NatOrder(S)), x)
  BY <1>1, <1>2, <1>3, <1>4, GreatestIsLast
<1>6. QED
  BY <1>5, SortedIs DEF T

\* Sorted numbers are the numbers of the set, and all of them.
LEMMA SortedRanks ==
    ASSUME NEW S \in SUBSET Nat, IsFiniteSet(S)
    PROVE  /\ Sorted(S) \in Seq(S) /\ Len(Sorted(S)) = Cardinality(S)
           /\ Cardinality(S) \in Nat /\ DOMAIN Sorted(S) = 1..Cardinality(S)
           /\ \A k \in 1..Cardinality(S) : Sorted(S)[k] \in S
           /\ \A x \in S : \E k \in 1..Cardinality(S) : Sorted(S)[k] = x
<1>1. IsOrder(NatOrder(S), S) /\ Cardinality(S) \in Nat
  BY NatOrderIsOrder, FS_CardinalityType
<1>2. Sorted(S) \in [1..Cardinality(S) -> S]
  BY <1>1, InOrderRanks, SortedIs
<1>3. \A x \in S : \E k \in 1..Cardinality(S) : Sorted(S)[k] = x
  BY <1>1, InOrderRanks, RanksDiffer, SortedIs
<1>4. Sorted(S) \in Seq(S) /\ Len(Sorted(S)) = Cardinality(S)
  BY <1>1, <1>2
<1>5. QED
  BY <1>1, <1>2, <1>3, <1>4

\* Of nothing there is nothing in order.
LEMMA SortedEmpty == Sorted({}) = <<>>
<1>1. Cardinality({}) = 0
  BY FS_EmptySet
<1>2. Sorted({}) \in Seq({}) /\ Len(Sorted({})) = 0
  BY <1>1, SortedRanks, FS_EmptySet
<1>3. QED
  BY <1>2, EmptySeq

\* Pieces in the order in which they are read.
LEMMA ReadingIsOrder ==
    ASSUME NEW P \in SUBSET (Nat \X Nat)
    PROVE  /\ IsOrder(Reading(P), P)
           /\ \A p, q \in P : <<p, q>> \in Reading(P)
                                <=> p[1] < q[1] \/ (p[1] = q[1] /\ p[2] <= q[2])
<1>1. \A p, q \in P : <<p, q>> \in Reading(P)
                      <=> p[1] < q[1] \/ (p[1] = q[1] /\ p[2] <= q[2])
  BY DEF Reading
<1>2. \A p \in P : p[1] \in Nat /\ p[2] \in Nat
  OBVIOUS
<1>3. \A p, q \in P : p[1] = q[1] /\ p[2] = q[2] => p = q
  OBVIOUS
<1>4. QED
  BY <1>1, <1>2, <1>3 DEF IsOrder

\* A piece that is read after the others comes at the end.
LEMMA PiecesGrow ==
    ASSUME NEW P \in SUBSET (Nat \X Nat), IsFiniteSet(P), NEW x \in Nat \X Nat,
           \A p \in P : p[1] < x[1] \/ (p[1] = x[1] /\ p[2] < x[2])
    PROVE  InOrder(P \cup {x}, Reading(P \cup {x})) = Append(InOrder(P, Reading(P)), x)
<1> DEFINE T == P \cup {x}
<1>1. T \in SUBSET (Nat \X Nat) /\ P \subseteq T /\ x \in T /\ Adds(T, P, x)
  BY DEF Adds
<1> HIDE DEF T
<1>2. IsOrder(Reading(P), P) /\ IsOrder(Reading(T), T)
  BY <1>1, ReadingIsOrder
<1>3. Agree(Reading(T), Reading(P), P)
  BY <1>1, ReadingIsOrder DEF Agree
<1>4. IsGreatest(Reading(T), P, x)
  BY <1>1, ReadingIsOrder DEF IsGreatest
<1>5. InOrder(T, Reading(T)) = Append(InOrder(P, Reading(P)), x)
  BY <1>1, <1>2, <1>3, <1>4, GreatestIsLast
<1>6. QED
  BY <1>5 DEF T

\* The greatest and the least of some numbers.
LEMMA MaxIs ==
    ASSUME NEW S \in SUBSET Nat, IsFiniteSet(S), S # {}
    PROVE  Max(S) \in S /\ \A y \in S : y <= Max(S)
<1>1. \E x \in S : \A y \in S : x >= y
  <2> DEFINE n == Cardinality(S)
             x == Sorted(S)[n]
             order == NatOrder(S)
  <2>1. n \in Nat /\ n # 0
    BY FS_CardinalityType, FS_EmptySet
  <2>2. IsOrder(order, S) /\ \A y, z \in S : <<y, z>> \in order <=> y <= z
    BY NatOrderIsOrder
  <2>3. x \in S /\ Rank(order, S, x) = n
    BY <2>1, <2>2, InOrderRanks, SortedIs
  <2>4. ASSUME NEW y \in S PROVE x >= y
    <3>1. Rank(order, S, y) \in 1..n
      BY <2>2, RanksDiffer
    <3> HIDE DEF n, x, order
    <3>a. <<x, y>> \in order /\ x # y => Rank(order, S, x) < Rank(order, S, y)
      BY <2>2, <2>3, RanksDiffer
    <3>2. ~(<<x, y>> \in order /\ x # y)
      BY <2>1, <2>3, <3>1, <3>a
    <3>3. ~(x <= y /\ x # y) /\ x \in Nat /\ y \in Nat
      BY <2>2, <2>3, <3>2
    <3> HIDE DEF x
    <3>4. QED
      BY <3>3
  <2>5. QED
    BY <2>3, <2>4
<1>2. Max(S) \in S /\ \A y \in S : Max(S) >= y
  BY <1>1 DEF Max
<1>3. QED
  BY <1>2

\* The places of a history, and what a history that grows by one message keeps.
Grown(h, g, m) == /\ Len(g) \in Nat /\ DOMAIN g = 1..Len(g)
                  /\ Len(h) = Len(g) + 1 /\ DOMAIN h = 1..(Len(g) + 1)
                  /\ \A j \in 1..Len(g) : h[j] = g[j]
                  /\ h[Len(g) + 1] = m

\* A message that is read makes the history one longer.
LEMMA HistoryGrows ==
    ASSUME NEW g \in Seq(Messages), NEW m \in Messages
    PROVE  Grown(Append(g, m), g, m)
  BY DEF Grown

\* A history has finitely many places.
LEMMA UpToIsFinite == ASSUME NEW n \in Nat PROVE IsFiniteSet(1..n)
<1>1. 1 \in Int /\ n \in Int
  OBVIOUS
<1>2. QED
  BY <1>1, FS_Interval

\* A new place comes behind all places of the history.
LEMMA PlacesGrow ==
    ASSUME NEW n \in Nat, NEW S \in SUBSET (1..n)
    PROVE  /\ IsFiniteSet(S) /\ S \in SUBSET Nat /\ n + 1 \notin S
           /\ Sorted(S \cup {n + 1}) = Append(Sorted(S), n + 1)
<1>1. IsFiniteSet(S)
  BY UpToIsFinite, FS_Subset
<1>2. IsFiniteSet(S) /\ S \in SUBSET Nat /\ \A y \in S : y < n + 1
  BY <1>1
<1>3. QED
  BY <1>2, SortedGrows

\* The items of a history, one message longer, are those of the history and
\* those the decoder makes of the message.
Said(before, items, after) == /\ before \in Seq(Items) /\ items \in Seq(Items)
                              /\ after = before \o items

\* No item, nothing said.
LEMMA SaysNothing == ASSUME NEW s \in Seq(Items) PROVE Said(s, <<>>, s)
  BY DEF Said

\* One item more.
LEMMA SaysOne ==
    ASSUME NEW s \in Seq(Items), NEW x \in Items
    PROVE  Said(s, <<x>>, Append(s, x))
  BY DEF Said

Heard(g) == {i \in DOMAIN g : g[i].kind \in {"partial", "final"}}

\* A partial or a final is one transcript more, nothing else is.
LEMMA HeardGrows ==
    ASSUME NEW g, NEW m, NEW h, Grown(h, g, m), Sorted(Heard(g)) \in Seq(Items)
    PROVE  IF m.kind \in {"partial", "final"}
           THEN Said(Sorted(Heard(g)), <<Len(g) + 1>>, Sorted(Heard(h)))
           ELSE Sorted(Heard(h)) = Sorted(Heard(g))
<1>1. Len(g) \in Nat /\ Heard(g) \in SUBSET (1..Len(g))
  BY DEF Heard, Grown
<1>2. CASE m.kind \in {"partial", "final"}
  <2>1. Heard(h) = Heard(g) \cup {Len(g) + 1}
    BY <1>2 DEF Heard, Grown
  <2>2. Sorted(Heard(h)) = Append(Sorted(Heard(g)), Len(g) + 1)
    BY <1>1, <2>1, PlacesGrow
  <2>3. Len(g) + 1 \in Items
    BY <1>1 DEF Items
  <2>4. QED
    BY <1>2, <2>2, <2>3, SaysOne
<1>3. CASE m.kind \notin {"partial", "final"}
  <2>1. Heard(h) = Heard(g)
    BY <1>3 DEF Heard, Grown
  <2>2. QED
    BY <1>3, <2>1
<1>4. QED
  BY <1>2, <1>3

Cut(i, n) == [f \in 1..n |-> <<i, f>>]
PiecesUpTo(P, i, n) == P \cup {<<i, f>> : f \in 1..n}
PiecesOf(P) == InOrder(P, Reading(P))

\* The pieces of a message, one more of them.
LEMMA CutGrows ==
    ASSUME NEW i \in Nat, NEW n \in Nat, NEW s \in Seq(Halves)
    PROVE  /\ s \o Cut(i, n) \in Seq(Halves)
           /\ s \o Cut(i, n + 1) = Append(s \o Cut(i, n), <<i, n + 1>>)
<1>1. Cut(i, n) \in Seq(Halves) /\ Len(Cut(i, n)) = n /\ <<i, n + 1>> \in Halves
  <2>1. Cut(i, n) \in [1..n -> Halves]
    BY DEF Cut, Halves
  <2>2. QED
    BY <2>1 DEF Halves
<1>2. Cut(i, n + 1) \in Seq(Halves) /\ Len(Cut(i, n + 1)) = n + 1
  <2>1. Cut(i, n + 1) \in [1..(n + 1) -> Halves]
    BY DEF Cut, Halves
  <2>2. QED
    BY <2>1
<1> DEFINE a == Cut(i, n)
           b == Cut(i, n + 1)
           x == <<i, n + 1>>
<1>3. (\A f \in 1..n : b[f] = a[f]) /\ b[n + 1] = x
  BY DEF Cut
<1> HIDE DEF a, b, x
<1>4. /\ s \o a \in Seq(Halves) /\ Len(s \o a) = Len(s) + n
      /\ \A k \in 1..(Len(s) + n) : (s \o a)[k] = IF k <= Len(s) THEN s[k] ELSE a[k - Len(s)]
  BY <1>1, ConcatProperties DEF a
<1>5. /\ s \o b \in Seq(Halves) /\ Len(s \o b) = Len(s) + (n + 1)
      /\ \A k \in 1..(Len(s) + (n + 1)) : (s \o b)[k] = IF k <= Len(s) THEN s[k] ELSE b[k - Len(s)]
  <2>1. ASSUME NEW t \in Seq(Halves)
        PROVE  /\ s \o t \in Seq(Halves) /\ Len(s \o t) = Len(s) + Len(t)
               /\ \A k \in 1..(Len(s) + Len(t)) : (s \o t)[k] = IF k <= Len(s) THEN s[k] ELSE t[k - Len(s)]
    BY ConcatProperties
  <2>2. b \in Seq(Halves) /\ Len(b) = n + 1
    BY <1>2 DEF b
  <2>3. QED
    BY <2>1, <2>2
<1> DEFINE u == s \o a
           v == s \o b
<1>6. x \in Halves /\ Len(s) \in Nat
  BY <1>1, LenProperties DEF x
<1>7. /\ u \in Seq(Halves) /\ v \in Seq(Halves) /\ Len(v) = Len(u) + 1 /\ Len(u) \in Nat
      /\ \A k \in 1..Len(u) : v[k] = u[k]
      /\ v[Len(u) + 1] = x
  <2>1. \A k \in 1..Len(u) : v[k] = u[k]
    <3>1. ASSUME NEW k \in 1..(Len(s) + n), k > Len(s) PROVE k - Len(s) \in 1..n
      BY <1>6, <3>1
    <3>2. QED
      BY <1>3, <1>4, <1>5, <1>6, <3>1
  <2>2. v[Len(u) + 1] = x
    BY <1>3, <1>4, <1>5, <1>6
  <2>3. QED
    BY <1>4, <1>5, <1>6, <2>1, <2>2
<1> HIDE DEF u, v
<1>8. v = Append(u, x)
  <2>1. Append(u, x) \in Seq(Halves) /\ Len(Append(u, x)) = Len(v)
        /\ \A k \in 1..Len(u) : Append(u, x)[k] = u[k]
        /\ Append(u, x)[Len(u) + 1] = x
    BY <1>6, <1>7, AppendProperties
  <2>2. \A k \in 1..Len(v) : k \in 1..Len(u) \/ k = Len(u) + 1
    BY <1>7
  <2>3. \A k \in 1..Len(v) : v[k] = Append(u, x)[k]
    BY <1>7, <2>1, <2>2
  <2>4. QED
    BY <1>7, <2>1, <2>3, SeqEqual
<1>9. QED
  BY <1>7, <1>8 DEF a, b, u, v, x

\* The pieces of the last message come last, one after the other.
LEMMA CutComesLast ==
    ASSUME NEW i \in Nat, NEW n \in Nat, NEW P \in SUBSET Halves, IsFiniteSet(P),
           \A p \in P : p[1] < i,
           PiecesOf(P) \in Seq(Halves),
           IsFiniteSet(PiecesUpTo(P, i, n)),
           PiecesOf(PiecesUpTo(P, i, n)) = PiecesOf(P) \o Cut(i, n)
    PROVE  /\ IsFiniteSet(PiecesUpTo(P, i, n + 1))
           /\ PiecesOf(PiecesUpTo(P, i, n + 1)) = PiecesOf(P) \o Cut(i, n + 1)
<1> DEFINE Q == PiecesUpTo(P, i, n)
           R == PiecesUpTo(P, i, n + 1)
           x == <<i, n + 1>>
<1>1. R = Q \cup {x}
  <2>1. \A f : f \in 1..(n + 1) <=> f \in 1..n \/ f = n + 1
    OBVIOUS
  <2>2. QED
    BY <2>1 DEF PiecesUpTo
<1>2. x \in Nat \X Nat /\ Q \in SUBSET (Nat \X Nat)
      /\ \A q \in Q : q[1] < x[1] \/ (q[1] = x[1] /\ q[2] < x[2])
  <2>1. ASSUME NEW q \in Q PROVE q \in Nat \X Nat /\ (q[1] < i \/ (q[1] = i /\ q[2] < n + 1))
    <3>1. CASE q \in P
      BY <3>1 DEF Halves
    <3>2. CASE q \notin P
      <4>1. PICK f \in 1..n : q = <<i, f>>
        BY <3>2 DEF PiecesUpTo
      <4>2. QED
        BY <4>1
    <3>3. QED
      BY <3>1, <3>2
  <2>2. QED
    BY <2>1
<1>3. IsFiniteSet(Q)
  OBVIOUS
<1>6. PiecesOf(Q) = PiecesOf(P) \o Cut(i, n)
  OBVIOUS
<1> HIDE DEF Q, R, x
<1>4. IsFiniteSet(R)
  BY <1>1, <1>3, FS_AddElement
<1>5. PiecesOf(R) = Append(PiecesOf(Q), x)
  BY <1>1, <1>2, <1>3, PiecesGrow DEF PiecesOf
<1>7. QED
  BY <1>4, <1>5, <1>6, CutGrows, ZenonT(60) DEF R, x

HasPieces(g, m) == m.n \in 0..3 /\ \A j \in 1..Len(g) : g[j].n \in 0..3

JoinedGrows(g, m, h, S) ==
    /\ Joined(h, S) = Joined(g, S)
    /\ Joined(h, S \cup {Len(g) + 1}) = Joined(g, S) \o Pieces(m, Len(g) + 1)
    /\ Joined(g, S) \in Seq(Halves)
    /\ \A k \in 1..Len(Joined(g, S)) : Joined(g, S)[k][1] \in 1..Len(g)

\* The pieces at some places of a history are finitely many.
LEMMA PiecesAreFinite ==
    ASSUME NEW n \in Nat, NEW g, \A j \in 1..n : g[j].n \in 0..3, NEW S \in SUBSET (1..n)
    PROVE  PiecesAt(g, S) \in SUBSET ((1..n) \X (1..3)) /\ IsFiniteSet(PiecesAt(g, S))
<1>1. ASSUME NEW p \in PiecesAt(g, S) PROVE p \in (1..n) \X (1..3)
  <2>1. PICK j \in S : p \in {<<j, f>> : f \in 1..g[j].n}
    BY DEF PiecesAt
  <2>2. PICK f \in 1..g[j].n : p = <<j, f>>
    BY <2>1
  <2>3. j \in 1..n /\ f \in 1..3
    BY <2>1, <2>2
  <2>4. QED
    BY <2>2, <2>3
<1>2. IsFiniteSet(1..n) /\ IsFiniteSet(1..3)
  BY UpToIsFinite
<1>3. PiecesAt(g, S) \in SUBSET ((1..n) \X (1..3))
  BY <1>1
<1>4. QED
  BY <1>2, <1>3, FS_Product, FS_Subset

\* The pieces of one more message come after the others, in their order.
LEMMA PiecesAtGrow ==
    ASSUME NEW g, NEW m, NEW h, Grown(h, g, m), HasPieces(g, m),
           NEW S \in SUBSET (1..Len(g))
    PROVE  JoinedGrows(g, m, h, S)
<1> DEFINE P == PiecesAt(g, S)
           i == Len(g) + 1
<1>0. m.n \in 0..3 /\ \A j \in 1..Len(g) : g[j].n \in 0..3
  BY DEF HasPieces
<1>1. Len(g) \in Nat /\ i \in Nat
  BY DEF Grown
<1>2. PiecesAt(h, S) = P
  <2>1. \A j \in S : h[j] = g[j]
    BY DEF Grown
  <2>2. QED
    BY <2>1 DEF PiecesAt
<1>3. P \in SUBSET Halves /\ P \in SUBSET ((1..Len(g)) \X (1..3)) /\ \A p \in P : p[1] < i
  <2>1. P \in SUBSET ((1..Len(g)) \X (1..3))
    BY <1>0, <1>1, PiecesAreFinite
  <2> HIDE DEF P
  <2>2. QED
    BY <1>1, <2>1 DEF Halves
<1>4. IsFiniteSet(P)
  BY <1>0, <1>1, PiecesAreFinite
<1>5. /\ PiecesOf(P) \in Seq(Halves)
      /\ \A k \in 1..Len(PiecesOf(P)) : PiecesOf(P)[k][1] \in 1..Len(g)
  <2>1. Cardinality(P) \in Nat /\ IsOrder(Reading(P), P)
    BY <1>3, <1>4, FS_CardinalityType, ReadingIsOrder DEF Halves
  <2>2. PiecesOf(P) \in [1..Cardinality(P) -> P]
    BY <1>4, <2>1, InOrderRanks DEF PiecesOf
  <2>3. PiecesOf(P) \in Seq(P) /\ PiecesOf(P) \in Seq(Halves)
    BY <1>3, <2>1, <2>2, SMTT(60)
  <2>4. \A k \in 1..Len(PiecesOf(P)) : PiecesOf(P)[k][1] \in 1..Len(g)
    <3>1. \A k \in 1..Len(PiecesOf(P)) : PiecesOf(P)[k] \in P
      BY <2>3, ElementOfSeq
    <3>2. \A p \in P : p[1] \in 1..Len(g)
      BY <1>3
    <3>3. QED
      BY <3>1, <3>2
  <2>5. QED
    BY <2>3, <2>4
<1>6. /\ Joined(g, S) = PiecesOf(P) /\ Joined(h, S) = PiecesOf(P)
      /\ Joined(h, S \cup {i}) = PiecesOf(PiecesUpTo(P, i, m.n))
      /\ Pieces(m, i) = Cut(i, m.n)
  <2>1. PiecesAt(h, S \cup {i}) = PiecesUpTo(P, i, m.n)
    <3>1. h[i] = m
      BY DEF Grown
    <3> DEFINE C(j) == {<<j, f>> : f \in 1..h[j].n}
    <3>a. PiecesAt(h, S \cup {i}) = UNION {C(j) : j \in S \cup {i}} /\ PiecesAt(h, S) = UNION {C(j) : j \in S}
      BY DEF PiecesAt
    <3>2. PiecesAt(h, S \cup {i}) = PiecesAt(h, S) \cup C(i)
      <4> HIDE DEF C, i
      <4>1. UNION {C(j) : j \in S \cup {i}} = (UNION {C(j) : j \in S}) \cup C(i)
        OBVIOUS
      <4>2. QED
        BY <3>a, <4>1
    <3>3. QED
      BY <1>2, <3>1, <3>2 DEF PiecesUpTo
  <2>2. QED
    BY <1>2, <2>1 DEF Joined, PiecesOf, Pieces, Cut
<1> HIDE DEF P, i
<1> DEFINE Comes(n) == /\ IsFiniteSet(PiecesUpTo(P, i, n))
                       /\ PiecesOf(PiecesUpTo(P, i, n)) = PiecesOf(P) \o Cut(i, n)
<1>7. Comes(0)
  <2>1. PiecesUpTo(P, i, 0) = P /\ Cut(i, 0) = <<>>
    BY DEF PiecesUpTo, Cut
  <2>2. QED
    BY <1>4, <1>5, <2>1, ConcatEmptySeq
<1>8. \A n \in Nat : Comes(n) => Comes(n + 1)
  BY <1>1, <1>3, <1>4, <1>5, CutComesLast
<1> HIDE DEF Comes
<1>9. Comes(0) /\ Comes(1) /\ Comes(2) /\ Comes(3)
  <2>1. Comes(0 + 1)
    BY <1>7, <1>8
  <2>2. Comes(1 + 1)
    BY <1>8, <2>1
  <2>3. Comes(2 + 1)
    BY <1>8, <2>2
  <2>4. QED
    BY <1>7, <2>1, <2>2, <2>3
<1>10. Comes(m.n)
  BY <1>0, <1>9
<1>11. PiecesOf(PiecesUpTo(P, i, m.n)) = PiecesOf(P) \o Cut(i, m.n)
  BY <1>10 DEF Comes
<1>12. QED
  BY <1>5, <1>6, <1>11 DEF i, JoinedGrows

\* What f makes of the elements of S, in their order.
Mapped(f, S) == [k \in 1..Cardinality(S) |-> f[Sorted(S)[k]]]

MappedGrown(f, e, n, S) == /\ Mapped(e, S) = Mapped(f, S)
                           /\ Mapped(e, S \cup {n + 1}) = Append(Mapped(f, S), e[n + 1])

\* What comes behind a set in order comes behind what is made of it.
LEMMA MappedGrows ==
    ASSUME NEW n \in Nat, NEW S \in SUBSET (1..n), NEW f, NEW e, \A j \in S : e[j] = f[j]
    PROVE  MappedGrown(f, e, n, S)
<1>1. /\ IsFiniteSet(S) /\ S \in SUBSET Nat /\ n + 1 \notin S
      /\ Sorted(S \cup {n + 1}) = Append(Sorted(S), n + 1)
  BY PlacesGrow
<1> DEFINE c == Cardinality(S)
           v == Sorted(S)
           w == Sorted(S \cup {n + 1})
<1>2. c \in Nat /\ v \in Seq(S) /\ Len(v) = c /\ \A k \in 1..c : v[k] \in S
  BY <1>1, SortedRanks
<1>3. Cardinality(S \cup {n + 1}) = c + 1
  BY <1>1, FS_AddElement
<1>4. w = Append(v, n + 1)
  BY <1>1
<1> HIDE DEF v, w, c
<1>5. w[c + 1] = n + 1 /\ \A k \in 1..c : w[k] = v[k]
  BY <1>2, <1>4
<1> DEFINE x == Mapped(f, S)
           y == Mapped(e, S \cup {n + 1})
           z == e[n + 1]
<1>6. /\ x = [k \in 1..c |-> f[v[k]]] /\ Mapped(e, S) = [k \in 1..c |-> e[v[k]]]
      /\ y = [k \in 1..(c + 1) |-> e[w[k]]]
  BY <1>3 DEF Mapped, v, w, c
<1>7. Mapped(e, S) = x
  <2>1. \A k \in 1..c : e[v[k]] = f[v[k]]
    BY <1>2
  <2> HIDE DEF x
  <2>2. QED
    BY <1>6, <2>1
<1> HIDE DEF x, y, z
<1>8. /\ \A k \in 1..c : y[k] = x[k]
      /\ y[c + 1] = z
  <2>1. ASSUME NEW k \in 1..c PROVE y[k] = x[k]
    <3>1. k \in 1..(c + 1) /\ w[k] = v[k] /\ v[k] \in S
      BY <1>2, <1>5
    <3>2. y[k] = e[w[k]] /\ x[k] = f[v[k]]
      BY <1>6, <3>1
    <3>3. QED
      BY <3>1, <3>2
  <2>2. y[c + 1] = z
    BY <1>2, <1>5, <1>6 DEF z
  <2>3. QED
    BY <2>1, <2>2
<1> DEFINE V == {x[k] : k \in 1..c} \cup {z}
<1>9. x \in [1..c -> V] /\ y \in [1..(c + 1) -> V] /\ z \in V
  <2>1. \A k \in 1..(c + 1) : k \in 1..c \/ k = c + 1
    BY <1>2
  <2>2. (\A k \in 1..c : x[k] \in V) /\ z \in V
    OBVIOUS
  <2>3. \A k \in 1..(c + 1) : y[k] \in V
    BY <1>8, <2>1, <2>2
  <2> HIDE DEF V
  <2>4. QED
    BY <1>6, <2>2, <2>3
<1> HIDE DEF V
<1>10. x \in Seq(V) /\ Len(x) = c /\ y \in Seq(V) /\ Len(y) = c + 1
  BY <1>2, <1>9
<1>11. y = Append(x, z)
  <2>1. /\ Append(x, z) \in Seq(V) /\ Len(Append(x, z)) = c + 1
        /\ \A k \in 1..c : Append(x, z)[k] = x[k]
        /\ Append(x, z)[c + 1] = z
    BY <1>9, <1>10, AppendProperties
  <2>2. \A k \in 1..(c + 1) : k \in 1..c \/ k = c + 1
    BY <1>2
  <2>3. \A k \in 1..Len(y) : y[k] = Append(x, z)[k]
    BY <1>8, <1>10, <2>1, <2>2
  <2>4. QED
    BY <1>10, <2>1, <2>3, SeqEqual
<1>12. QED
  BY <1>7, <1>11 DEF x, y, z, MappedGrown

-----------------------------------------------------------------------------
(* Transcripts, frames of a delta and events: what a message adds to the   *)
(* meaning of a history, and what the decoder of events keeps.             *)

\* What a client's decoder makes of the next message is what the message adds
\* to the meaning of the history.
Adding(before, o, after) == Said(before, o.items, after)

\* A message without items adds nothing.
LEMMA AddsNothing ==
    ASSUME NEW s \in Seq(Items), NEW keeps, NEW ends
    PROVE  Adding(s, Nothing, s) /\ Adding(s, Broken, s) /\ Adding(s, Outcome(<<>>, keeps, ends), s)
<1>1. Said(s, <<>>, s)
  BY SaysNothing
<1>2. ASSUME NEW o, o.items = <<>> PROVE Adding(s, o, s)
  BY <1>1, <1>2 DEF Adding
<1>3. Nothing.items = <<>> /\ Broken.items = <<>> /\ Outcome(<<>>, keeps, ends).items = <<>>
  BY DEF Nothing, Broken, Outcome
<1>4. QED
  BY <1>2, <1>3

\* A recognition's message is one transcript or none
\* (decodeASRServerEvent of Dashscope and of Doubao).
LEMMA TranscriptAdds ==
    ASSUME NEW g, NEW m, NEW h, Grown(h, g, m), Sorted(Heard(g)) \in Seq(Items)
    PROVE  /\ Adding(Sorted(Heard(g)), DecodeSentence(m, Len(g) + 1), Sorted(Heard(h)))
           /\ Adding(Sorted(Heard(g)), DecodeTranscript(m, Len(g) + 1), Sorted(Heard(h)))
<1> DEFINE i == Len(g) + 1
           s == Sorted(Heard(g))
           t == Sorted(Heard(h))
<1>1. IF m.kind \in {"partial", "final"} THEN Said(s, <<i>>, t) ELSE t = s
  BY HeardGrows
<1>2. \A keeps, ends : Said(s, <<i>>, t) => Adding(s, Outcome(<<i>>, keeps, ends), t)
  BY OutcomeFields DEF Adding
<1> HIDE DEF s, t, i
<1>3. s \in Seq(Items)
  BY DEF s
<1>4. CASE m.kind = "partial"
  <2>1. DecodeSentence(m, i) = Outcome(<<i>>, kept, FALSE)
        /\ DecodeTranscript(m, i) = Outcome(<<i>>, kept, FALSE)
    BY <1>4 DEF DecodeSentence, DecodeTranscript
  <2>2. QED
    BY <1>1, <1>2, <1>4, <2>1 DEF i, s, t
<1>5. CASE m.kind = "final"
  <2>1. DecodeSentence(m, i) = Outcome(<<i>>, kept, FALSE)
        /\ DecodeTranscript(m, i) = Outcome(<<i>>, kept, TRUE)
    BY <1>5 DEF DecodeSentence, DecodeTranscript
  <2>2. QED
    BY <1>1, <1>2, <1>5, <2>1 DEF i, s, t
<1>6. CASE m.kind # "partial" /\ m.kind # "final"
  <2>1. DecodeSentence(m, i) \in {Nothing, Broken} /\ DecodeTranscript(m, i) \in {Nothing, Broken}
    BY <1>6 DEF DecodeSentence, DecodeTranscript
  <2>2. t = s
    BY <1>1, <1>6
  <2>3. QED
    BY <1>3, <2>1, <2>2, AddsNothing DEF i, s, t
<1>7. QED
  BY <1>4, <1>5, <1>6

AudioAt(g) == {i \in DOMAIN g : g[i].kind = "audio" /\ g[i].sound}

\* A delta adds the frames the converter returns (Doubao's, MiniMax's).
LEMMA AudioAdds ==
    ASSUME NEW g, NEW m, NEW h, Grown(h, g, m), IsMessage(m), \A i \in 1..Len(g) : IsMessage(g[i]),
           MeaningAudio(g) \in Seq(Items)
    PROVE  /\ Adding(MeaningAudio(g), DecodeDelta(m, Len(g) + 1), MeaningAudio(h))
           /\ Adding(MeaningAudio(g), DecodeHex(m, Len(g) + 1), MeaningAudio(h))
<1> DEFINE i == Len(g) + 1
           s == Joined(g, AudioAt(g))
           t == Joined(h, AudioAt(h))
<1>1. MeaningAudio(g) = s /\ MeaningAudio(h) = t
  BY DEF MeaningAudio, AudioAt
<1>2. /\ Joined(h, AudioAt(g)) = s
      /\ Joined(h, AudioAt(g) \cup {i}) = s \o Pieces(m, i)
  <2>1. AudioAt(g) \in SUBSET (1..Len(g))
    BY DEF AudioAt, Grown
  <2>2. HasPieces(g, m)
    BY DEF IsMessage, HasPieces
  <2> HIDE DEF i
  <2>3. JoinedGrows(g, m, h, AudioAt(g))
    BY <2>1, <2>2, PiecesAtGrow
  <2>4. QED
    BY <2>3 DEF i, JoinedGrows
<1>3. AudioAt(h) = IF m.kind = "audio" /\ m.sound THEN AudioAt(g) \cup {i} ELSE AudioAt(g)
  BY DEF AudioAt, Grown
<1>4. i \in Nat /\ Pieces(m, i) \in Seq(Items)
  BY PiecesAreHalves, ItemsAreItems DEF Grown
<1>5. s \in Seq(Items)
  BY <1>1
<1> HIDE DEF s, t
<1>6. CASE m.kind = "audio" /\ m.sound
  <2>1. t = s \o Pieces(m, i)
    BY <1>2, <1>3, <1>6 DEF t
  <2>2. Said(s, Pieces(m, i), t)
    BY <1>4, <1>5, <2>1 DEF Said
  <2>3. DecodeDelta(m, i) = Outcome(Pieces(m, i), kept, FALSE)
        /\ DecodeHex(m, i) = Outcome(Pieces(m, i), kept, m.final)
    BY <1>6 DEF DecodeDelta, DecodeHex
  <2>4. ASSUME NEW o, o.items = Pieces(m, i) PROVE Adding(s, o, t)
    BY <2>2, <2>4 DEF Adding
  <2>5. Adding(s, DecodeDelta(m, i), t) /\ Adding(s, DecodeHex(m, i), t)
    BY <2>3, <2>4 DEF Outcome
  <2>6. QED
    BY <1>1, <2>5
<1>7. CASE ~(m.kind = "audio" /\ m.sound)
  <2>1. t = s
    BY <1>2, <1>3, <1>7 DEF t
  <2>2. DecodeDelta(m, i) \in {Nothing, Broken} /\ DecodeHex(m, i) \in {Nothing, Broken}
    BY <1>7 DEF DecodeDelta, DecodeHex
  <2>3. QED
    BY <1>1, <1>5, <2>1, <2>2, AddsNothing
<1>8. QED
  BY <1>6, <1>7

-----------------------------------------------------------------------------
\* A decoder of server-sent events keeps the last event line since the last
\* blank one, and the data lines since the last other one.
EventLines(g) == {e \in DOMAIN g : /\ g[e].kind = "event"
                                   /\ \A k \in e..Len(g) : g[k].kind # "blank"}

EventsKept(g, k) ==
    /\ k.type = IF EventLines(g) = {} THEN 0 ELSE g[Max(EventLines(g))].n
    /\ k.data = <<>> <=> Len(g) = 0 \/ g[Len(g)].kind # "data"
    /\ Len(k.data) = 1 => /\ k.data[1].n = g[Len(g)].n /\ k.data[1].at = Len(g)
                          /\ Len(g) > 1 => g[Len(g) - 1].kind # "data"
    /\ Len(k.data) > 1 => Len(g) > 1 /\ g[Len(g) - 1].kind = "data"

\* The event line that types the next data line: the last since a blank.
LEMMA EventLinesGrow ==
    ASSUME NEW g, NEW m, NEW h, Grown(h, g, m)
    PROVE  /\ m.kind = "blank" => EventLines(h) = {}
           /\ m.kind = "event" => /\ EventLines(h) = EventLines(g) \cup {Len(g) + 1}
                                  /\ EventLines(h) # {} /\ Max(EventLines(h)) = Len(g) + 1
           /\ m.kind \notin {"blank", "event"} => EventLines(h) = EventLines(g)
           /\ EventLines(g) \subseteq 1..Len(g)
<1> DEFINE n == Len(g)
<1>1. n \in Nat /\ DOMAIN g = 1..n /\ DOMAIN h = 1..(n + 1) /\ Len(h) = n + 1 /\ h[n + 1] = m
      /\ \A j \in 1..n : h[j] = g[j]
  BY DEF Grown
<1> HIDE DEF n
<1>3. CASE m.kind = "blank"
  <2>1. \A e \in 1..(n + 1) : n + 1 \in e..(n + 1)
    BY <1>1
  <2>2. EventLines(h) = {}
    BY <1>1, <1>3, <2>1 DEF EventLines
  <2>3. QED
    BY <1>1, <1>3, <2>2 DEF EventLines, n
<1>4. CASE m.kind # "blank"
  <2>1. \A e \in 1..n : \A k : k \in e..(n + 1) <=> k \in e..n \/ k = n + 1
    BY <1>1
  <2>2. \A e \in 1..n : \A k \in e..n : k \in 1..n
    BY <1>1
  <2>3. \A e \in 1..n : e \in EventLines(h) <=> e \in EventLines(g)
    BY <1>1, <1>4, <2>1, <2>2 DEF EventLines, n
  <2>4. n + 1 \in EventLines(h) <=> m.kind = "event"
    <3>1. \A k \in (n + 1)..(n + 1) : k = n + 1
      BY <1>1
    <3>2. QED
      BY <1>1, <1>4, <3>1 DEF EventLines
  <2>5. EventLines(h) \subseteq 1..(n + 1) /\ EventLines(g) \subseteq 1..n
    BY <1>1 DEF EventLines
  <2>6. \A e : e \in 1..(n + 1) <=> e \in 1..n \/ e = n + 1
    BY <1>1
  <2>7. CASE m.kind = "event"
    <3>1. EventLines(h) = EventLines(g) \cup {n + 1}
      BY <2>3, <2>4, <2>5, <2>6, <2>7
    <3>2. Max(EventLines(h)) = n + 1
      <4>1. EventLines(h) \in SUBSET Nat /\ IsFiniteSet(EventLines(h)) /\ EventLines(h) # {}
        BY <1>1, <2>5, <3>1, UpToIsFinite, FS_Subset
      <4>2. Max(EventLines(h)) \in EventLines(h) /\ n + 1 <= Max(EventLines(h))
        BY <4>1, <3>1, MaxIs
      <4>3. QED
        BY <1>1, <2>5, <4>2
    <3>3. QED
      BY <2>5, <2>7, <3>1, <3>2 DEF n
  <2>8. CASE m.kind # "event"
    <3>1. EventLines(h) = EventLines(g)
      BY <2>3, <2>4, <2>5, <2>6, <2>8
    <3>2. QED
      BY <1>4, <2>5, <2>8, <3>1 DEF n
  <2>9. QED
    BY <2>7, <2>8
<1>5. QED
  BY <1>3, <1>4

\* The data lines that are events, each alone between two other lines.
TypeLines(g, j) == {e \in 1..(j - 1) : /\ g[e].kind = "event"
                                       /\ \A k \in e..j : g[k].kind # "blank"}
TypeAt(g, j) == IF TypeLines(g, j) = {} THEN g[j].n ELSE g[Max(TypeLines(g, j))].n
Tells(g, j) == /\ g[j].kind = "data" /\ g[j].n # 0
               /\ j > 1 => g[j - 1].kind # "data"
               /\ (TypeAt(g, j) = 1 /\ g[j].n = 1) \/ TypeAt(g, j) = 2
EventPlaces(g) == {j \in DOMAIN g : Tells(g, j) /\ j < Len(g) /\ g[j + 1].kind # "data"}

\* The meaning of event lines, with the names used here.
LEMMA MeaningSSEIs == ASSUME NEW g PROVE MeaningSSE(g) = Sorted(EventPlaces(g))
<1> DEFINE Alone(j) == /\ j > 1 => g[j - 1].kind # "data"
                       /\ j < Len(g) /\ g[j + 1].kind # "data"
           S == {j \in DOMAIN g : g[j].kind = "data" /\ g[j].n # 0 /\ Alone(j)
                                  /\ ((TypeAt(g, j) = 1 /\ g[j].n = 1) \/ TypeAt(g, j) = 2)}
<1>1. MeaningSSE(g) = Sorted(S)
  BY DEF MeaningSSE, TypeAt, TypeLines
<1>2. S = EventPlaces(g)
  BY DEF EventPlaces, Tells
<1>3. QED
  BY <1>1, <1>2

\* What a data line tells does not change with later lines.
LEMMA TellsKeeps ==
    ASSUME NEW g, NEW m, NEW h, Grown(h, g, m), NEW j \in 1..Len(g)
    PROVE  Tells(h, j) <=> Tells(g, j)
<1>1. Len(g) \in Nat /\ \A k \in 1..Len(g) : h[k] = g[k]
  BY DEF Grown
<1> DEFINE n == Len(g)
<1> HIDE DEF n
<1>2. n \in Nat /\ j \in 1..n /\ \A k \in 1..n : h[k] = g[k]
  BY <1>1 DEF n
<1>3. \A e \in 1..(j - 1) : e \in 1..n /\ \A k \in e..j : k \in 1..n
  BY <1>2
<1>4. TypeLines(h, j) = TypeLines(g, j)
  BY <1>2, <1>3 DEF TypeLines
<1>5. TypeLines(g, j) # {} => Max(TypeLines(g, j)) \in 1..n
  <2>1. TypeLines(g, j) \in SUBSET (1..n)
    BY <1>3 DEF TypeLines
  <2>2. IsFiniteSet(TypeLines(g, j)) /\ TypeLines(g, j) \in SUBSET Nat
    BY <1>2, <2>1, PlacesGrow
  <2>3. QED
    BY <2>1, <2>2, MaxIs
<1>6. TypeAt(h, j) = TypeAt(g, j)
  BY <1>2, <1>4, <1>5 DEF TypeAt
<1>7. j > 1 => j - 1 \in 1..n
  BY <1>2
<1>8. QED
  BY <1>2, <1>6, <1>7 DEF Tells

\* Only the line before the new one can become an event.
LEMMA EventPlacesGrow ==
    ASSUME NEW g, NEW m, NEW h, Grown(h, g, m)
    PROVE  /\ EventPlaces(g) \subseteq 1..(Len(g) - 1)
           /\ EventPlaces(h) = IF Len(g) > 0 /\ Tells(g, Len(g)) /\ m.kind # "data"
                               THEN EventPlaces(g) \cup {Len(g)} ELSE EventPlaces(g)
<1> DEFINE n == Len(g)
<1>1. /\ n \in Nat /\ DOMAIN g = 1..n /\ DOMAIN h = 1..(n + 1) /\ Len(h) = n + 1 /\ h[n + 1] = m
      /\ \A j \in 1..n : h[j] = g[j]
  BY DEF Grown
<1>2. \A j \in 1..n : Tells(h, j) <=> Tells(g, j)
  BY TellsKeeps
<1>n. n = Len(g)
  OBVIOUS
<1> HIDE DEF n
<1>3. EventPlaces(g) \subseteq 1..(n - 1) /\ EventPlaces(h) \subseteq 1..n
  BY <1>1, <1>n DEF EventPlaces
<1>4. ASSUME NEW j \in 1..(n - 1) PROVE j \in EventPlaces(h) <=> j \in EventPlaces(g)
  <2>1. j \in 1..n /\ j + 1 \in 1..n /\ j < n /\ j < n + 1 /\ j \in 1..(n + 1)
    BY <1>1
  <2>2. QED
    BY <1>1, <1>2, <1>n, <2>1 DEF EventPlaces
<1>5. n \in EventPlaces(h) <=> n > 0 /\ Tells(g, n) /\ m.kind # "data"
  BY <1>1, <1>2 DEF EventPlaces
<1>6. \A j \in 1..n : j \in 1..(n - 1) \/ j = n
  BY <1>1
<1>7. n \notin EventPlaces(g)
  BY <1>1, <1>3
<1>8. EventPlaces(h) = IF n > 0 /\ Tells(g, n) /\ m.kind # "data"
                       THEN EventPlaces(g) \cup {n} ELSE EventPlaces(g)
  <2>1. CASE n > 0 /\ Tells(g, n) /\ m.kind # "data"
    <3> DEFINE A == EventPlaces(h)
               B == EventPlaces(g)
    <3>1. A \subseteq 1..n /\ B \subseteq 1..(n - 1) /\ n \in A /\ n \in 1..n
      BY <1>1, <1>3, <1>5, <2>1
    <3>2. \A j \in 1..(n - 1) : j \in A <=> j \in B
      BY <1>4
    <3> HIDE DEF A, B
    <3>3. \A j \in 1..(n - 1) : j \in 1..n
      BY <1>1
    <3>4. A = B \cup {n}
      BY <1>6, <3>1, <3>2, <3>3
    <3>5. QED
      BY <2>1, <3>4 DEF A, B
  <2>2. CASE ~(n > 0 /\ Tells(g, n) /\ m.kind # "data")
    <3> DEFINE A == EventPlaces(h)
               B == EventPlaces(g)
    <3>1. A \subseteq 1..n /\ B \subseteq 1..(n - 1) /\ n \notin A
      BY <1>3, <1>5, <2>2
    <3>2. \A j \in 1..(n - 1) : j \in A <=> j \in B
      BY <1>4
    <3> HIDE DEF A, B
    <3>3. A = B
      BY <1>6, <3>1, <3>2
    <3>4. QED
      BY <2>2, <3>3 DEF A, B
  <2>3. QED
    BY <2>1, <2>2
<1>9. QED
  BY <1>3, <1>8 DEF n

\* The last line tells an event when the decoder keeps it alone, and its
\* type is the one the decoder kept or the line's own.
LEMMA KeptTells ==
    ASSUME NEW g, NEW k, EventsKept(g, k), Len(g) \in Nat, DOMAIN g = 1..Len(g),
           k.data \in Seq([n : 0..3, at : Nat]), k.type \in 0..3,
           \A j \in 1..Len(g) : g[j].n \in 0..3 /\ (g[j].kind = "event" => g[j].n # 0)
    PROVE  Len(g) > 0 /\ Tells(g, Len(g)) <=>
             /\ Len(k.data) = 1 /\ k.data[1].n # 0
             /\ LET t == IF k.type = 0 THEN k.data[1].n ELSE k.type
                IN  (t = 1 /\ k.data[1].n = 1) \/ t = 2
<1> DEFINE n == Len(g)
           l == Len(k.data)
           d == k.data[1]
<1>1. l \in Nat /\ n \in Nat /\ (l = 0 <=> k.data = <<>>)
  OBVIOUS
<1>2. /\ l = 0 <=> n = 0 \/ g[n].kind # "data"
      /\ l = 1 => d.n = g[n].n /\ (n > 1 => g[n - 1].kind # "data")
      /\ l > 1 => n > 1 /\ g[n - 1].kind = "data"
      /\ k.type = IF EventLines(g) = {} THEN 0 ELSE g[Max(EventLines(g))].n
  BY <1>1 DEF EventsKept
<1>n. DOMAIN g = 1..n /\ Len(g) = n
  OBVIOUS
<1> HIDE DEF n, l, d
<1>3. CASE l # 1
  <2>1. l = 0 \/ l > 1
    BY <1>1, <1>3
  <2>2. ~(n > 0 /\ Tells(g, n))
    BY <1>1, <1>2, <2>1 DEF Tells
  <2>3. QED
    BY <1>3, <2>2 DEF n, l
<1>4. CASE l = 1
  <2>1. n > 0 /\ g[n].kind = "data" /\ n \in 1..n
    BY <1>1, <1>2, <1>4
  <2>2. TypeLines(g, n) = EventLines(g)
    <3>1. \A e : e \in 1..n <=> e \in 1..(n - 1) \/ e = n
      BY <1>1, <2>1
    <3>2. g[n].kind # "event"
      BY <2>1
    <3>3. QED
      BY <1>n, <3>1, <3>2 DEF TypeLines, EventLines
  <2>3. EventLines(g) # {} => g[Max(EventLines(g))].n # 0
    <3>1. EventLines(g) \in SUBSET (1..n)
      BY <1>n DEF EventLines
    <3>2. IsFiniteSet(EventLines(g)) /\ EventLines(g) \in SUBSET Nat
      BY <1>1, <3>1, PlacesGrow
    <3>3. EventLines(g) # {} => Max(EventLines(g)) \in EventLines(g)
      BY <3>2, MaxIs
    <3>4. \A e \in EventLines(g) : e \in 1..Len(g) /\ g[e].kind = "event"
      BY <1>n DEF EventLines
    <3>5. QED
      BY <3>3, <3>4
  <2>4. TypeAt(g, n) = IF k.type = 0 THEN d.n ELSE k.type
    <3>1. CASE EventLines(g) = {}
      BY <1>2, <1>4, <2>2, <3>1 DEF TypeAt
    <3>2. CASE EventLines(g) # {}
      BY <1>2, <1>4, <2>2, <2>3, <3>2 DEF TypeAt
    <3>3. QED
      BY <3>1, <3>2
  <2>5. Tells(g, n) <=> d.n # 0 /\ ((TypeAt(g, n) = 1 /\ d.n = 1) \/ TypeAt(g, n) = 2)
    BY <1>2, <1>4, <2>1 DEF Tells
  <2>6. QED
    BY <1>4, <2>1, <2>4, <2>5 DEF n, l, d
<1>5. QED
  BY <1>3, <1>4

SSELines(g) == \A j \in 1..Len(g) :
    /\ g[j].n \in 0..3 /\ g[j].kind \in {"data", "event", "blank", "eof"}
    /\ g[j].kind = "event" => g[j].n # 0

\* What a line makes of the lines the decoder has kept is the event the line
\* adds to the history.
LEMMA SSEAdds ==
    ASSUME NEW g, NEW m, NEW h, Grown(h, g, m), SSELines(g), SSELines(h),
           Decodes("sse"), kept \in KeptType, EventsKept(g, kept),
           MeaningSSE(g) \in Seq(Items)
    PROVE  /\ Adding(MeaningSSE(g), DecodeSSE(m, Len(g) + 1), MeaningSSE(h))
           /\ ~DecodeSSE(m, Len(g) + 1).ends => EventsKept(h, DecodeSSE(m, Len(g) + 1).kept)
<1> DEFINE n == Len(g)
           o == DecodeSSE(m, n + 1)
           d == kept.data[1]
           l == Len(kept.data)
           t == IF kept.type = 0 THEN d.n ELSE kept.type
           Line == [n : 0..3, at : Nat]
<1>1. /\ n \in Nat /\ DOMAIN g = 1..n /\ DOMAIN h = 1..(n + 1) /\ Len(h) = n + 1 /\ h[n + 1] = m
      /\ \A j \in 1..n : h[j] = g[j]
  BY DEF Grown
<1>2. kept \in OpenEvents /\ kept.data \in Seq(Line) /\ kept.type \in 0..3
  <2>1. KeptType = OpenEvents
    BY Zenon DEF KeptType, Decodes
  <2>2. QED
    BY <2>1 DEF OpenEvents
<1>3. l \in Nat /\ (l = 0 <=> kept.data = <<>>)
  BY <1>2
<1>4. m.n \in 0..3 /\ m.kind \in {"data", "event", "blank", "eof"} /\ (m.kind = "event" => m.n # 0)
  BY <1>1 DEF SSELines
<1>5. n > 0 /\ Tells(g, n) <=> l = 1 /\ d.n # 0 /\ ((t = 1 /\ d.n = 1) \/ t = 2)
  <2>1. \A j \in 1..n : g[j].n \in 0..3 /\ (g[j].kind = "event" => g[j].n # 0)
    BY DEF SSELines
  <2>2. QED
    BY <1>1, <1>2, <2>1, KeptTells
<1>6. MeaningSSE(h) = IF n > 0 /\ Tells(g, n) /\ m.kind # "data"
                      THEN Append(MeaningSSE(g), n) ELSE MeaningSSE(g)
  <2>1. CASE n > 0 /\ Tells(g, n) /\ m.kind # "data"
    <3>1. EventPlaces(h) = EventPlaces(g) \cup {(n - 1) + 1} /\ n - 1 \in Nat
          /\ EventPlaces(g) \in SUBSET (1..(n - 1))
      BY <1>1, <2>1, EventPlacesGrow
    <3>2. Sorted(EventPlaces(h)) = Append(Sorted(EventPlaces(g)), (n - 1) + 1)
      BY <3>1, PlacesGrow
    <3>3. (n - 1) + 1 = n
      BY <1>1
    <3>4. QED
      BY <2>1, <3>2, <3>3, MeaningSSEIs
  <2>2. CASE ~(n > 0 /\ Tells(g, n) /\ m.kind # "data")
    <3>1. EventPlaces(h) = EventPlaces(g)
      BY <2>2, EventPlacesGrow
    <3>2. QED
      BY <2>2, <3>1, MeaningSSEIs
  <2>3. QED
    BY <2>1, <2>2
<1>7. l = 1 => d.at = n
  BY DEF EventsKept
<1> DEFINE s == MeaningSSE(g)
           u == MeaningSSE(h)
<1>8. s \in Seq(Items)
  OBVIOUS
<1>d. \A keeps, ends : Dispatch(kept.type, kept.data, keeps, ends) =
          IF kept.data = <<>> THEN Outcome(<<>>, keeps, ends)
          ELSE IF l > 1 \/ d.n = 0 \/ t = 3 THEN Broken
          ELSE IF t = 1 /\ d.n # 1 THEN Outcome(<<>>, keeps, ends)
          ELSE Outcome(<<d.at>>, keeps, ends)
  BY DEF Dispatch
<1>t. l >= 1 => d \in Line
  <2> HIDE DEF Line
  <2>1. QED
    BY <1>2, <1>3
<1>e. l >= 1 => d.n \in 0..3
  BY <1>t
<1>f. (kept.type = 0 => t = d.n) /\ (kept.type # 0 => t = kept.type)
  OBVIOUS
<1> HIDE DEF n, l, d, t, s, u
<1>g. (l >= 1 => t \in 0..3)
  BY <1>2, <1>e, <1>f
<1>9. ASSUME m.kind # "data", NEW p, Adding(s, p, u) <=> FALSE,
             \E keeps, ends : p = Dispatch(kept.type, kept.data, keeps, ends)
      PROVE  FALSE
  <2>1. PICK keeps, ends : p = Dispatch(kept.type, kept.data, keeps, ends)
    BY <1>9
  <2>2. CASE n > 0 /\ Tells(g, n)
    <3>1. p = Outcome(<<n>>, keeps, ends)
      <4>1. kept.data # <<>> /\ ~(l > 1 \/ d.n = 0 \/ t = 3) /\ ~(t = 1 /\ d.n # 1)
        BY <1>3, <1>5, <2>2 DEF n
      <4>2. d.at = n
        BY <1>5, <1>7, <2>2 DEF n
      <4>3. QED
        BY <1>d, <2>1, <4>1, <4>2
    <3>2. u = Append(s, n)
      BY <1>6, <1>9, <2>2 DEF u, s
    <3>3. Said(s, <<n>>, u)
      <4>1. n \in Items
        BY <1>1 DEF Items
      <4>2. QED
        BY <1>8, <3>2, <4>1, SaysOne
    <3>4. p.items = <<n>>
      BY <3>1 DEF Outcome
    <3>5. QED
      BY <1>9, <3>3, <3>4 DEF Adding
  <2>3. CASE ~(n > 0 /\ Tells(g, n))
    <3>1. u = s
      BY <1>6, <2>3 DEF u, s
    <3>2. p = Outcome(<<>>, keeps, ends) \/ p = Broken
      <4>1. l = 0 \/ l > 1 \/ (l = 1 /\ (d.n = 0 \/ t \notin {1, 2} \/ (t = 1 /\ d.n # 1)))
        BY <1>3, <1>5, <2>3
      <4>2. l = 1 => t # 0 \/ d.n = 0
        BY <1>f
      <4>3. l = 1 => t \in 0..3
        BY <1>g
      <4>4. QED
        BY <1>3, <1>d, <2>1, <4>1, <4>2, <4>3
    <3>3. QED
      BY <1>8, <1>9, <3>1, <3>2, AddsNothing
  <2>4. QED
    BY <2>2, <2>3
<1>k. \A keeps, ends : \/ Dispatch(kept.type, kept.data, keeps, ends) = Broken
                       \/ \E items : Dispatch(kept.type, kept.data, keeps, ends)
                                      = Outcome(items, keeps, ends)
  BY <1>d
<1>l. ASSUME NEW keeps, NEW ends,
             o = Dispatch(kept.type, kept.data, keeps, ends)
      PROVE  o.ends = TRUE \/ (o.ends = ends /\ o.kept = keeps)
  <2> HIDE DEF o
  <2>1. CASE o = Broken
    BY <2>1 DEF Broken, Outcome
  <2>2. ASSUME NEW items, o = Outcome(items, keeps, ends)
        PROVE  o.ends = ends /\ o.kept = keeps
    BY <2>2 DEF Outcome
  <2>3. QED
    BY <1>k, <1>l, <2>1, <2>2
<1>10. CASE m.kind = "data"
  <2>1. o = Outcome(<<>>, [kept EXCEPT !.data = Append(@, [n |-> m.n, at |-> n + 1])], FALSE)
    BY <1>10 DEF DecodeSSE
  <2>2. u = s
    BY <1>6, <1>10 DEF u, s
  <2>3. Adding(s, o, u)
    BY <1>8, <2>1, <2>2, AddsNothing
  <2>4. EventsKept(h, o.kept)
    <3> DEFINE x == [n |-> m.n, at |-> n + 1]
               k == [kept EXCEPT !.data = Append(@, x)]
    <3>1. o.kept = k
      BY <2>1 DEF Outcome
    <3>2. k.type = kept.type /\ k.data = Append(kept.data, x)
      BY <1>2 DEF OpenEvents
    <3>3. x \in Line
      BY <1>1, <1>4
    <3> HIDE DEF Line, x
    <3>4. /\ Len(k.data) = l + 1 /\ k.data # <<>> /\ k.data[l + 1] = x
      BY <1>2, <3>2, <3>3, AppendProperties DEF l
    <3> HIDE DEF k
    <3>5. k.type = IF EventLines(h) = {} THEN 0 ELSE h[Max(EventLines(h))].n
      <4>1. EventLines(h) = EventLines(g) /\ EventLines(g) \in SUBSET (1..n)
        BY <1>10, EventLinesGrow DEF n
      <4>2. IsFiniteSet(EventLines(g)) /\ EventLines(g) \in SUBSET Nat
        BY <1>1, <4>1, PlacesGrow
      <4>3. EventLines(g) # {} => Max(EventLines(g)) \in 1..n
        BY <4>1, <4>2, MaxIs
      <4>4. kept.type = IF EventLines(g) = {} THEN 0 ELSE g[Max(EventLines(g))].n
        BY DEF EventsKept
      <4>5. QED
        BY <1>1, <3>2, <4>1, <4>3, <4>4
    <3>6. Len(k.data) = 1 => k.data[1].n = m.n /\ k.data[1].at = n + 1 /\ (n = 0 \/ g[n].kind # "data")
      <4>1. Len(k.data) = 1 => l = 0
        BY <1>3, <3>4
      <4>2. l = 0 => n = 0 \/ g[n].kind # "data"
        BY <1>3 DEF EventsKept, n
      <4>3. l = 0 => k.data[1] = x
        BY <3>4
      <4>4. x.n = m.n /\ x.at = n + 1
        BY DEF x
      <4>5. QED
        BY <4>1, <4>2, <4>3, <4>4
    <3>7. Len(k.data) > 1 => n > 0 /\ g[n].kind = "data"
      <4>1. Len(k.data) > 1 => l # 0
        BY <1>3, <3>4
      <4>2. l # 0 => n # 0 /\ g[n].kind = "data"
        BY <1>3 DEF EventsKept, n
      <4>3. QED
        BY <1>1, <4>1, <4>2
    <3>8. /\ n + 1 > 1 => n \in 1..n /\ h[n] = g[n]
          /\ (n + 1) - 1 = n /\ n + 1 # 0
      BY <1>1
    <3>9. EventsKept(h, k)
      BY <1>1, <1>10, <3>4, <3>5, <3>6, <3>7, <3>8 DEF EventsKept
    <3>10. QED
      BY <3>1, <3>9
  <2>5. QED
    BY <2>1, <2>3, <2>4 DEF n, s, u
<1>11. CASE m.kind = "event"
  <2>1. o = Dispatch(kept.type, kept.data, [type |-> m.n, data |-> <<>>], FALSE)
    BY <1>11 DEF DecodeSSE
  <2>2. Adding(s, o, u)
    BY <1>9, <1>11, <2>1
  <2>3. EventsKept(h, [type |-> m.n, data |-> <<>>])
    <3>1. EventLines(h) # {} /\ Max(EventLines(h)) = n + 1
      BY <1>11, EventLinesGrow DEF n
    <3>2. QED
      BY <1>1, <1>11, <3>1 DEF EventsKept
  <2>4. ~o.ends => o.kept = [type |-> m.n, data |-> <<>>]
    BY <1>l, <2>1
  <2>5. QED
    BY <2>2, <2>3, <2>4 DEF n, s, u
<1>12. CASE m.kind = "blank"
  <2>1. o = Dispatch(kept.type, kept.data, [type |-> 0, data |-> <<>>], FALSE)
    BY <1>12 DEF DecodeSSE
  <2>2. Adding(s, o, u)
    BY <1>9, <1>12, <2>1
  <2>3. EventsKept(h, [type |-> 0, data |-> <<>>])
    <3>1. EventLines(h) = {}
      BY <1>12, EventLinesGrow
    <3>2. QED
      BY <1>1, <1>12, <3>1 DEF EventsKept
  <2>4. ~o.ends => o.kept = [type |-> 0, data |-> <<>>]
    BY <1>l, <2>1
  <2>5. QED
    BY <2>2, <2>3, <2>4 DEF n, s, u
<1>13. CASE m.kind = "eof"
  <2>1. o = Dispatch(kept.type, kept.data, kept, TRUE)
    BY <1>13 DEF DecodeSSE
  <2>2. Adding(s, o, u)
    BY <1>9, <1>13, <2>1
  <2>3. o.ends
    BY <1>l, <2>1
  <2>4. QED
    BY <2>2, <2>3 DEF n, s, u
<1>14. QED
  BY <1>4, <1>10, <1>11, <1>12, <1>13

-----------------------------------------------------------------------------
(* Frames of PCM: the halves a decoder keeps are those that no whole frame *)
(* has used.                                                               *)

\* The binary messages of a synthesis that count, and the frames of their halves.
SaidBefore(g, i) == {j \in 1..(i - 1) : g[j].kind \in {"sentence", "audio"}}
Expects(g, i) == SaidBefore(g, i) # {} /\ g[Max(SaidBefore(g, i))].kind = "sentence"
CountedAt(g) == {i \in DOMAIN g : g[i].kind = "audio" /\ Expects(g, i)}
HalvesOf(g) == Joined(g, CountedAt(g))
IsEnded(g) == g # <<>> /\ g[Len(g)].kind = "finished"
FrameOf(s, k) == SubSeq(s, 2 * k - 1, IF 2 * k <= Len(s) THEN 2 * k ELSE Len(s))
LastOf(g, k) == IF 2 * k <= Len(HalvesOf(g)) THEN HalvesOf(g)[2 * k][1] ELSE Len(g)
HowMany(g) == IF IsEnded(g) THEN (Len(HalvesOf(g)) + 1) \div 2 ELSE Len(HalvesOf(g)) \div 2
FramesHeard(g) == {f \in 1..HowMany(g) : g[LastOf(g, f)].sound}
FramesAt(s, F) == [k \in 1..Cardinality(F) |-> FrameOf(s, Sorted(F)[k])]

\* The meaning of PCM, with the names used here.
LEMMA MeaningPCMIs == ASSUME NEW g PROVE MeaningPCM(g) = FramesAt(HalvesOf(g), FramesHeard(g))
<1> DEFINE Since(i) == {j \in 1..(i - 1) : g[j].kind \in {"sentence", "audio"}}
           Counts(i) == g[i].kind = "audio" /\ Since(i) # {} /\ g[Max(Since(i))].kind = "sentence"
           halves == Joined(g, {i \in DOMAIN g : Counts(i)})
           ended == g # <<>> /\ g[Len(g)].kind = "finished"
           frames == IF ended THEN (Len(halves) + 1) \div 2 ELSE Len(halves) \div 2
           Frame(k) == SubSeq(halves, 2 * k - 1, IF 2 * k <= Len(halves) THEN 2 * k ELSE Len(halves))
           By(k) == IF 2 * k <= Len(halves) THEN halves[2 * k][1] ELSE Len(g)
           F == {f \in 1..frames : g[By(f)].sound}
<1>1. MeaningPCM(g) = [k \in 1..Cardinality(F) |-> Frame(Sorted(F)[k])]
  BY DEF MeaningPCM
<1>2. halves = HalvesOf(g)
  BY DEF HalvesOf, CountedAt, Expects, SaidBefore
<1> HIDE DEF halves
<1>3. F = FramesHeard(g)
  BY <1>2 DEF FramesHeard, HowMany, LastOf, IsEnded
<1> HIDE DEF F
<1>4. QED
  BY <1>1, <1>2, <1>3 DEF FramesAt, FrameOf

\* Whole frames do not change when halves come after theirs.
Starts(s, t) == /\ s \in Seq(Halves) /\ t \in Seq(Halves) /\ Len(s) <= Len(t)
                /\ \A k \in 1..Len(s) : t[k] = s[k]

\* A whole frame stays when halves come after its own.
LEMMA FrameStays ==
    ASSUME NEW s, NEW t, Starts(s, t), NEW k \in Nat, k # 0, 2 * k <= Len(s)
    PROVE  FrameOf(t, k) = FrameOf(s, k)
<1>1. /\ Len(s) \in Nat /\ Len(t) \in Nat /\ 2 * k <= Len(t)
      /\ 2 * k - 1 \in 1..Len(s) /\ 2 * k \in 1..Len(s) /\ 2 * k - 1 \in Int /\ 2 * k \in Int
      /\ \A j \in (2 * k - 1)..(2 * k) : j \in 1..Len(s) /\ j \in 1..Len(t)
      /\ s \in Seq(Halves) /\ t \in Seq(Halves)
  BY DEF Starts
<1>2. FrameOf(t, k) = SubSeq(t, 2 * k - 1, 2 * k) /\ FrameOf(s, k) = SubSeq(s, 2 * k - 1, 2 * k)
  BY <1>1 DEF FrameOf
<1> DEFINE a == 2 * k - 1
           b == 2 * k
<1>3. /\ a \in Int /\ b \in Int /\ b - a + 1 = 2 /\ a <= b
      /\ \A j \in a..b : j \in 1..Len(s) /\ j \in 1..Len(t)
      /\ \A i \in 1..2 : a + i - 1 \in a..b
  BY <1>1
<1> HIDE DEF a, b
<1>4. /\ SubSeq(t, a, b) \in Seq(Halves) /\ Len(SubSeq(t, a, b)) = 2
      /\ \A i \in 1..2 : SubSeq(t, a, b)[i] = t[a + i - 1]
      /\ SubSeq(s, a, b) \in Seq(Halves) /\ Len(SubSeq(s, a, b)) = 2
      /\ \A i \in 1..2 : SubSeq(s, a, b)[i] = s[a + i - 1]
  <2>1. ASSUME NEW u \in Seq(Halves), \A j \in a..b : j \in 1..Len(u)
        PROVE  /\ SubSeq(u, a, b) \in Seq(Halves) /\ Len(SubSeq(u, a, b)) = 2
               /\ \A i \in 1..2 : SubSeq(u, a, b)[i] = u[a + i - 1]
    <3>1. \A j \in a..b : u[j] \in Halves
      BY <2>1, ElementOfSeq
    <3>2. /\ SubSeq(u, a, b) \in Seq(Halves)
          /\ Len(SubSeq(u, a, b)) = IF a <= b THEN b - a + 1 ELSE 0
          /\ \A i \in 1..(b - a + 1) : SubSeq(u, a, b)[i] = u[a + i - 1]
      BY <1>3, <3>1, SubSeqProperties
    <3>3. QED
      BY <1>3, <3>2
  <2>2. QED
    BY <1>1, <1>3, <2>1
<1>5. \A i \in 1..2 : t[a + i - 1] = s[a + i - 1]
  BY <1>3 DEF Starts
<1>6. SubSeq(t, a, b) = SubSeq(s, a, b)
  <2> DEFINE x == SubSeq(t, a, b)
             y == SubSeq(s, a, b)
  <2>1. x \in Seq(Halves) /\ y \in Seq(Halves) /\ Len(x) = Len(y) /\ \A i \in 1..Len(x) : x[i] = y[i]
    BY <1>4, <1>5
  <2> HIDE DEF x, y
  <2>2. x = y
    BY <2>1, SeqEqual
  <2>3. QED
    BY <2>2 DEF x, y
<1>7. QED
  BY <1>2, <1>6 DEF a, b

FramesGrown(s, t, q, F) ==
    /\ FramesAt(t, F) = FramesAt(s, F)
    /\ FramesAt(t, F \cup {q + 1}) = Append(FramesAt(s, F), FrameOf(t, q + 1))

Frames(s) == [k \in Nat |-> FrameOf(s, k)]

\* The frames of a stream are made of their numbers in order.
LEMMA FramesAreMapped ==
    ASSUME NEW s, NEW q \in Nat, NEW F \in SUBSET (1..q)
    PROVE  FramesAt(s, F) = Mapped(Frames(s), F)
<1>1. IsFiniteSet(F) /\ F \in SUBSET Nat
  BY PlacesGrow
<1>2. \A k \in 1..Cardinality(F) : Sorted(F)[k] \in Nat
  BY <1>1, SortedRanks
<1>3. QED
  BY <1>2 DEF Mapped, FramesAt, Frames

\* A frame more comes behind the frames of before.
LEMMA FramesGrow ==
    ASSUME NEW s, NEW t, Starts(s, t), NEW q \in Nat, 2 * q <= Len(s), NEW F \in SUBSET (1..q)
    PROVE  FramesGrown(s, t, q, F)
<1>1. ASSUME NEW f \in F PROVE Frames(t)[f] = Frames(s)[f]
  <2>1. f \in 1..q /\ s \in Seq(Halves)
    BY DEF Starts
  <2>2. f \in Nat /\ f # 0 /\ 2 * f <= Len(s)
    BY <2>1
  <2>3. QED
    BY <2>2, FrameStays DEF Frames
<1>2. MappedGrown(Frames(s), Frames(t), q, F)
  BY <1>1, MappedGrows
<1> DEFINE G == F \cup {q + 1}
           n == q + 1
<1>3. Mapped(Frames(t), F) = Mapped(Frames(s), F)
      /\ Mapped(Frames(t), G) = Append(Mapped(Frames(s), F), Frames(t)[n])
  BY <1>2 DEF MappedGrown
<1>4. n \in Nat /\ G \in SUBSET (1..n)
  OBVIOUS
<1>5. Frames(t)[n] = FrameOf(t, n)
  BY <1>4 DEF Frames
<1> HIDE DEF G, n
<1>6. FramesAt(t, G) = Mapped(Frames(t), G)
  BY <1>4, FramesAreMapped
<1>7. FramesAt(t, F) = Mapped(Frames(t), F) /\ FramesAt(s, F) = Mapped(Frames(s), F)
  BY FramesAreMapped
<1>8. QED
  BY <1>3, <1>5, <1>6, <1>7 DEF G, n, FramesGrown

\* A part of a sequence.
LEMMA PartOf ==
    ASSUME NEW S, NEW u \in Seq(S), NEW a \in Int, NEW b \in Int, a >= 1, b <= Len(u), a <= b
    PROVE  /\ SubSeq(u, a, b) \in Seq(S) /\ Len(SubSeq(u, a, b)) = b - a + 1
           /\ \A i \in 1..(b - a + 1) : SubSeq(u, a, b)[i] = u[a + i - 1]
  OBVIOUS

\* The halves r that are left of s after q whole frames.
Rest(r, s, q) == /\ r \in Seq(Halves) /\ s \in Seq(Halves)
                 /\ Len(s) = 2 * q + Len(r) /\ \A k \in 1..Len(r) : r[k] = s[2 * q + k]

\* The next frame is cut from the halves that are left.
LEMMA FirstOfRest ==
    ASSUME NEW r, NEW s, NEW q \in Nat, Rest(r, s, q), Len(r) # 0
    PROVE  /\ FrameOf(s, q + 1) = SubSeq(r, 1, IF Len(r) >= 2 THEN 2 ELSE 1)
           /\ FrameOf(s, q + 1) \in Seq(Halves)
<1> DEFINE d == IF Len(r) >= 2 THEN 2 ELSE 1
           c == 2 * q
<1>1. r \in Seq(Halves) /\ s \in Seq(Halves) /\ Len(r) \in Nat /\ Len(s) \in Nat
      /\ Len(s) = c + Len(r) /\ \A k \in 1..Len(r) : r[k] = s[c + k]
  BY DEF Rest
<1>2. c \in Nat /\ d \in {1, 2} /\ d <= Len(r) /\ c + d <= Len(s) /\ (Len(r) < 2 => Len(s) = c + 1 /\ d = 1)
      /\ (Len(r) >= 2 => d = 2)
  BY <1>1
<1>3. FrameOf(s, q + 1) = SubSeq(s, c + 1, c + d)
  <2>1. FrameOf(s, q + 1) = SubSeq(s, 2 * (q + 1) - 1, IF 2 * (q + 1) <= Len(s) THEN 2 * (q + 1) ELSE Len(s))
    BY DEF FrameOf
  <2>2. 2 * (q + 1) - 1 = c + 1
    OBVIOUS
  <2>3. (IF 2 * (q + 1) <= Len(s) THEN 2 * (q + 1) ELSE Len(s)) = c + d
    BY <1>1, <1>2, SMTT(60)
  <2>4. QED
    BY <2>1, <2>2, <2>3
<1> DEFINE x == SubSeq(s, c + 1, c + d)
           y == SubSeq(r, 1, d)
<1> HIDE DEF c, d
<1>4. /\ x \in Seq(Halves) /\ Len(x) = d
      /\ \A i \in 1..d : x[i] = s[c + i]
  <2>1. c + 1 \in Int /\ c + d \in Int /\ c + 1 >= 1 /\ c + 1 <= c + d /\ (c + d) - (c + 1) + 1 = d
        /\ \A i \in 1..d : c + 1 + i - 1 = c + i
    BY <1>2
  <2>2. /\ x \in Seq(Halves) /\ Len(x) = (c + d) - (c + 1) + 1
        /\ \A i \in 1..((c + d) - (c + 1) + 1) : x[i] = s[c + 1 + i - 1]
    BY <1>1, <1>2, <2>1, PartOf
  <2>3. QED
    BY <2>1, <2>2
<1>5. /\ y \in Seq(Halves) /\ Len(y) = d
      /\ \A i \in 1..d : y[i] = r[i]
  <2>1. d \in Int /\ 1 <= d /\ d - 1 + 1 = d /\ \A i \in 1..d : 1 + i - 1 = i
    BY <1>2
  <2>2. /\ y \in Seq(Halves) /\ Len(y) = d - 1 + 1
        /\ \A i \in 1..(d - 1 + 1) : y[i] = r[1 + i - 1]
    BY <1>1, <1>2, <2>1, PartOf
  <2>3. QED
    BY <2>1, <2>2
<1>6. \A i \in 1..d : i \in 1..Len(r)
  BY <1>1, <1>2
<1>7. x = y
  <2> HIDE DEF x, y
  <2>1. \A i \in 1..Len(x) : x[i] = y[i]
    BY <1>1, <1>4, <1>5, <1>6
  <2>2. QED
    BY <1>4, <1>5, <2>1, SeqEqual
<1>8. QED
  BY <1>3, <1>4, <1>7 DEF d

\* After one more frame at most one half is left.
LEMMA RestOfRest ==
    ASSUME NEW r, NEW s, NEW q \in Nat, Rest(r, s, q), Len(r) >= 2, Len(r) <= 3
    PROVE  Rest(SubSeq(r, 3, Len(r)), s, q + 1) /\ Len(SubSeq(r, 3, Len(r))) <= 1
<1> DEFINE l == Len(r)
           x == SubSeq(r, 3, l)
<1>1. /\ r \in Seq(Halves) /\ s \in Seq(Halves) /\ l \in Nat /\ Len(s) = 2 * q + l
      /\ \A k \in 1..l : r[k] = s[2 * q + k]
  BY DEF Rest
<1>2. l = 2 \/ l = 3
  <2>1. \A n \in Nat : n >= 2 /\ n <= 3 => n = 2 \/ n = 3
    OBVIOUS
  <2>2. QED
    BY <1>1, <2>1
<1>3. CASE l = 2
  <2>1. x \in Seq(Halves) /\ Len(x) = 0
    BY <1>1, <1>3
  <2>2. QED
    BY <1>1, <1>3, <2>1 DEF Rest
<1>4. CASE l = 3
  <2>1. x \in Seq(Halves) /\ Len(x) = 3 - 3 + 1 /\ \A i \in 1..(3 - 3 + 1) : x[i] = r[3 + i - 1]
    BY <1>1, <1>4, PartOf
  <2>2. Len(x) = 1 /\ x[1] = r[3]
    BY <2>1
  <2>3. r[3] = s[2 * q + 3] /\ 2 * (q + 1) + 1 = 2 * q + 3 /\ Len(s) = 2 * (q + 1) + 1
    BY <1>1, <1>4
  <2>4. \A k \in 1..1 : k = 1
    OBVIOUS
  <2> HIDE DEF x
  <2>5. Rest(x, s, q + 1)
    BY <1>1, <2>1, <2>2, <2>3, <2>4 DEF Rest
  <2>6. QED
    BY <2>2, <2>5 DEF x
<1>5. QED
  BY <1>2, <1>3, <1>4

\* The frames G that count when the halves hv are flushed after the frames F.
Completes(F, G, q, hv, padded, m) ==
    G = IF m.sound /\ (Len(hv) >= 2 \/ (padded /\ Len(hv) # 0)) THEN F \cup {q + 1} ELSE F

Flushes(s, t, F, G, hv, padded, m) ==
    /\ Adding(FramesAt(s, F), FlushPCM(hv, padded, m), FramesAt(t, G))
    /\ \E p \in Nat : Rest(FlushPCM(hv, padded, m).kept.halves, t, p)
    /\ Len(FlushPCM(hv, padded, m).kept.halves) <= 1
    /\ FlushPCM(hv, padded, m).kept.expect = FALSE
    /\ FlushPCM(hv, padded, m).ends = padded

\* What the flush of the halves hv makes is the frame they add.
LEMMA PCMFlushes ==
    ASSUME NEW s, NEW t, Starts(s, t), NEW q \in Nat, 2 * q <= Len(s), NEW F \in SUBSET (1..q), NEW G,
           FramesAt(s, F) \in Seq(Items),
           NEW hv, Rest(hv, t, q), Len(hv) <= 3, NEW padded \in BOOLEAN, NEW m,
           Completes(F, G, q, hv, padded, m)
    PROVE  Flushes(s, t, F, G, hv, padded, m)
<1> DEFINE whole == Len(hv) >= 2
           frame == SubSeq(hv, 1, IF whole THEN 2 ELSE 1)
           frames == IF whole \/ (padded /\ hv # <<>>) THEN <<frame>> ELSE <<>>
           items == IF m.sound THEN frames ELSE <<>>
           rest == IF whole THEN SubSeq(hv, 3, Len(hv)) ELSE hv
           o == FlushPCM(hv, padded, m)
<1>1. o = Outcome(items, [expect |-> FALSE, halves |-> rest], padded)
  BY DEF FlushPCM
<1>2. o.items = items /\ o.kept.halves = rest /\ o.kept.expect = FALSE /\ o.ends = padded
  BY <1>1 DEF Outcome
<1>3. hv \in Seq(Halves) /\ (hv = <<>> <=> Len(hv) = 0) /\ Len(hv) \in Nat
  BY DEF Rest
<1>4. \E p \in Nat : Rest(rest, t, p) /\ Len(rest) <= 1
  <2>1. CASE whole
    BY <2>1, RestOfRest
  <2>2. CASE ~whole
    BY <1>3, <2>2
  <2>3. QED
    BY <2>1, <2>2
<1>f. /\ FramesAt(t, F) = FramesAt(s, F)
      /\ FramesAt(t, F \cup {q + 1}) = Append(FramesAt(s, F), FrameOf(t, q + 1))
  <2> HIDE DEF whole, frame, frames, items, rest, o
  <2>1. FramesGrown(s, t, q, F)
    BY FramesGrow
  <2>2. QED
    BY <2>1 DEF FramesGrown
<1> DEFINE x == FramesAt(s, F)
           y == FramesAt(t, G)
<1>5. Said(x, items, y)
  <2>1. CASE m.sound /\ (whole \/ (padded /\ Len(hv) # 0))
    <3>1. G = F \cup {q + 1}
      BY <2>1 DEF Completes
    <3>2. y = Append(x, FrameOf(t, q + 1))
      BY <1>f, <3>1
    <3>3. Len(hv) # 0
      BY <1>3, <2>1
    <3>4. FrameOf(t, q + 1) = frame /\ frame \in Seq(Halves)
      BY <3>3, FirstOfRest
    <3>5. items = <<frame>>
      BY <1>3, <2>1
    <3> HIDE DEF items, frame, x, y
    <3>6. frame \in Items /\ x \in Seq(Items)
      BY <3>4 DEF Items, x
    <3>7. Said(x, <<frame>>, Append(x, frame))
      BY <3>6, SaysOne
    <3>8. QED
      BY <3>2, <3>4, <3>5, <3>7
  <2>2. CASE ~(m.sound /\ (whole \/ (padded /\ Len(hv) # 0)))
    <3>1. G = F
      BY <2>2 DEF Completes
    <3>2. y = x
      BY <1>f, <3>1
    <3>3. items = <<>>
      BY <1>3, <2>2
    <3>4. QED
      BY <3>2, <3>3, SaysNothing
  <2>3. QED
    BY <2>1, <2>2
<1> HIDE DEF items, rest, o, x, y
<1>6. Adding(x, o, y)
  BY <1>2, <1>5 DEF Adding
<1>7. QED
  BY <1>2, <1>4, <1>6 DEF o, x, y, Flushes

\* A decoder of PCM keeps whether a sentence was announced, and the halves
\* after the last whole frame.
FramesKept(g, k) == /\ k.expect <=> Expects(g, Len(g) + 1)
                    /\ \E q \in Nat : Rest(k.halves, HalvesOf(g), q)
                    /\ Len(k.halves) <= 1
                    /\ ~IsEnded(g)

\* The decoder expects audio when a sentence was announced last.
LEMMA ExpectsGrow ==
    ASSUME NEW g, NEW m, NEW h, Grown(h, g, m)
    PROVE  /\ \A i \in 1..(Len(g) + 1) : Expects(h, i) <=> Expects(g, i)
           /\ Expects(h, Len(h) + 1) <=> IF m.kind \in {"sentence", "audio"}
                                         THEN m.kind = "sentence" ELSE Expects(g, Len(g) + 1)
<1> DEFINE n == Len(g)
<1>1. /\ n \in Nat /\ DOMAIN g = 1..n /\ DOMAIN h = 1..(n + 1) /\ Len(h) = n + 1 /\ h[n + 1] = m
      /\ \A j \in 1..n : h[j] = g[j]
  BY DEF Grown
<1>n. Len(g) = n
  OBVIOUS
<1> HIDE DEF n
<1>2. ASSUME NEW i \in 1..(n + 1)
      PROVE  /\ SaidBefore(h, i) = SaidBefore(g, i)
             /\ SaidBefore(g, i) \in SUBSET (1..n)
             /\ SaidBefore(g, i) # {} => Max(SaidBefore(g, i)) \in 1..n
  <2>1. \A j \in 1..(i - 1) : j \in 1..n
    BY <1>1
  <2>2. SaidBefore(h, i) = SaidBefore(g, i) /\ SaidBefore(g, i) \in SUBSET (1..n)
    BY <1>1, <2>1 DEF SaidBefore
  <2>3. IsFiniteSet(SaidBefore(g, i)) /\ SaidBefore(g, i) \in SUBSET Nat
    BY <1>1, <2>2, PlacesGrow
  <2>4. SaidBefore(g, i) # {} => Max(SaidBefore(g, i)) \in SaidBefore(g, i)
    BY <2>3, MaxIs
  <2>5. QED
    BY <2>2, <2>4
<1>3. \A i \in 1..(n + 1) : Expects(h, i) <=> Expects(g, i)
  BY <1>1, <1>2 DEF Expects
<1> DEFINE A == SaidBefore(g, n + 1)
           B == SaidBefore(h, n + 2)
<1>4. n + 1 \in 1..(n + 1) /\ Len(h) + 1 = n + 2
  BY <1>1
<1>5. A \in SUBSET (1..n) /\ (A # {} => Max(A) \in 1..n)
  BY <1>2, <1>4
<1>6. B = IF m.kind \in {"sentence", "audio"} THEN A \cup {n + 1} ELSE A
  <2>1. \A j : j \in 1..((n + 2) - 1) <=> j \in 1..((n + 1) - 1) \/ j = n + 1
    BY <1>1
  <2>2. \A j \in 1..((n + 1) - 1) : h[j] = g[j]
    BY <1>1
  <2>3. n + 1 \notin 1..((n + 1) - 1)
    BY <1>1
  <2>4. QED
    BY <1>1, <2>1, <2>2, <2>3 DEF SaidBefore
<1>7. CASE m.kind \in {"sentence", "audio"}
  <2>1. B = A \cup {n + 1}
    BY <1>6, <1>7
  <2>2. B \in SUBSET (1..(n + 1)) /\ n + 1 \in Nat
    BY <1>1, <1>5, <2>1
  <2> HIDE DEF A, B
  <2>3. IsFiniteSet(B) /\ B \in SUBSET Nat /\ n + 1 \in B
    BY <2>1, <2>2, PlacesGrow
  <2>4. Max(B) \in B /\ n + 1 <= Max(B)
    BY <2>3, MaxIs
  <2>5. Max(B) = n + 1
    <3>1. Max(B) \in 1..(n + 1)
      BY <2>2, <2>4
    <3>2. QED
      BY <1>1, <2>4, <3>1
  <2>6. Expects(h, n + 2) <=> m.kind = "sentence"
    BY <1>1, <2>3, <2>5 DEF Expects, B
  <2>7. QED
    BY <1>3, <1>4, <1>7, <1>n, <2>6
<1>8. CASE m.kind \notin {"sentence", "audio"}
  <2>1. B = A
    BY <1>6, <1>8
  <2>2. Expects(h, n + 2) <=> Expects(g, n + 1)
    BY <1>1, <1>5, <2>1 DEF Expects
  <2>3. QED
    BY <1>3, <1>4, <1>8, <1>n, <2>2
<1>9. QED
  BY <1>7, <1>8

\* An audio message counts when the decoder expects it.
LEMMA CountedGrow ==
    ASSUME NEW g, NEW m, NEW h, Grown(h, g, m)
    PROVE  /\ CountedAt(g) \in SUBSET (1..Len(g))
           /\ CountedAt(h) = IF m.kind = "audio" /\ Expects(g, Len(g) + 1)
                             THEN CountedAt(g) \cup {Len(g) + 1} ELSE CountedAt(g)
<1> DEFINE n == Len(g)
<1>1. /\ n \in Nat /\ DOMAIN g = 1..n /\ DOMAIN h = 1..(n + 1) /\ Len(h) = n + 1 /\ h[n + 1] = m
      /\ \A j \in 1..n : h[j] = g[j]
  BY DEF Grown
<1>2. \A i \in 1..(n + 1) : Expects(h, i) <=> Expects(g, i)
  BY ExpectsGrow
<1>3. \A i : i \in 1..(n + 1) <=> i \in 1..n \/ i = n + 1
  BY <1>1
<1> HIDE DEF n
<1>4. /\ CountedAt(g) \in SUBSET (1..n)
      /\ CountedAt(h) = IF m.kind = "audio" /\ Expects(g, n + 1)
                        THEN CountedAt(g) \cup {n + 1} ELSE CountedAt(g)
  BY <1>1, <1>2, <1>3 DEF CountedAt
<1>5. QED
  BY <1>4 DEF n

\* The frames that are heard, before and after a message that leaves hv.
LEMMA HeardFramesGrow ==
    ASSUME NEW g, NEW m, NEW h, Grown(h, g, m), NEW s, s = HalvesOf(g), NEW t, t = HalvesOf(h),
           Starts(s, t), NEW q \in Nat, NEW r, Rest(r, s, q), Len(r) <= 1,
           NEW hv, Rest(hv, t, q), Len(hv) <= 3, ~IsEnded(g), IsEnded(h) => t = s,
           \A k \in 1..Len(s) : s[k][1] \in 1..Len(g),
           \A k \in 1..Len(t) : k > Len(s) => t[k][1] = Len(g) + 1,
           NEW padded \in BOOLEAN, padded <=> IsEnded(h)
    PROVE  /\ FramesHeard(g) \in SUBSET (1..q) /\ 2 * q <= Len(s)
           /\ Completes(FramesHeard(g), FramesHeard(h), q, hv, padded, m)
<1> DEFINE n == Len(g)
           a == Len(r)
           b == Len(hv)
           S == Len(s)
           T == Len(t)
<1>1. /\ n \in Nat /\ Len(h) = n + 1 /\ h[n + 1] = m /\ \A j \in 1..n : h[j] = g[j]
  BY DEF Grown
<1>2. /\ a \in Nat /\ b \in Nat /\ S = 2 * q + a /\ T = 2 * q + b /\ S \in Nat /\ T \in Nat
      /\ a <= 1 /\ b <= 3 /\ S <= T /\ \A k \in 1..S : t[k] = s[k]
  BY DEF Rest, Starts
<1>3. HowMany(g) = S \div 2 /\ HowMany(h) = IF IsEnded(h) THEN (T + 1) \div 2 ELSE T \div 2
  BY DEF HowMany
<1>4. /\ \A f : LastOf(g, f) = IF 2 * f <= S THEN s[2 * f][1] ELSE n
      /\ \A f : LastOf(h, f) = IF 2 * f <= T THEN t[2 * f][1] ELSE n + 1
  BY <1>1 DEF LastOf
<1>5. IsEnded(h) => b = a /\ T = S
  <2>1. IsEnded(h) => T = S
    OBVIOUS
  <2> HIDE DEF a, b, S, T
  <2>2. QED
    BY <1>2, <2>1
<1>6. \A k \in 1..S : s[k][1] \in 1..n
  OBVIOUS
<1>7. \A k \in 1..T : k > S => t[k][1] = n + 1
  OBVIOUS
<1>r. Len(g) = n /\ Len(hv) = b /\ Len(s) = S
  OBVIOUS
<1> HIDE DEF n, a, b, S, T
<1>8. HowMany(g) = q
  BY <1>2, <1>3
<1> DEFINE more == b >= 2 \/ (IsEnded(h) /\ b # 0)
<1>9. HowMany(h) = IF more THEN q + 1 ELSE q
  <2>1. CASE IsEnded(h)
    BY <1>2, <1>3, <1>5, <2>1
  <2>2. CASE ~IsEnded(h)
    <3>1. (2 * q + 0) \div 2 = q /\ (2 * q + 1) \div 2 = q
          /\ (2 * q + 2) \div 2 = q + 1 /\ (2 * q + 3) \div 2 = q + 1
      OBVIOUS
    <3>2. b = 0 \/ b = 1 \/ b = 2 \/ b = 3
      BY <1>2
    <3>3. T \div 2 = IF b >= 2 THEN q + 1 ELSE q
      BY <1>2, <3>1, <3>2
    <3>4. QED
      BY <1>3, <2>2, <3>3
  <2>3. QED
    BY <2>1, <2>2
<1>10. ASSUME NEW f \in 1..q PROVE h[LastOf(h, f)] = g[LastOf(g, f)]
  <2>1. 2 * f \in 1..S /\ 2 * f <= S /\ 2 * f <= T
    BY <1>2
  <2>2. LastOf(g, f) = s[2 * f][1] /\ LastOf(h, f) = t[2 * f][1] /\ t[2 * f] = s[2 * f]
    BY <1>2, <1>4, <2>1
  <2>3. s[2 * f][1] \in 1..n
    BY <1>6, <2>1
  <2>4. QED
    BY <1>1, <2>2, <2>3
<1>11. more => h[LastOf(h, q + 1)] = m
  <2>1. CASE b >= 2
    <3>1. 2 * (q + 1) \in 1..T /\ 2 * (q + 1) > S /\ 2 * (q + 1) <= T
      BY <1>2, <2>1
    <3>2. QED
      BY <1>1, <1>4, <1>7, <3>1
  <2>2. CASE IsEnded(h) /\ ~(b >= 2)
    <3>1. ~(2 * (q + 1) <= T)
      BY <1>2, <2>2
    <3>2. QED
      BY <1>1, <1>4, <3>1
  <2>3. QED
    BY <2>1, <2>2
<1> HIDE DEF more
<1>12. FramesHeard(g) = {f \in 1..q : g[LastOf(g, f)].sound}
  BY <1>8 DEF FramesHeard
<1>13. \A f : f \in 1..(q + 1) <=> f \in 1..q \/ f = q + 1
  OBVIOUS
<1>14. FramesHeard(h) = IF m.sound /\ more THEN FramesHeard(g) \cup {q + 1} ELSE FramesHeard(g)
  <2>1. CASE more
    <3>1. FramesHeard(h) = {f \in 1..(q + 1) : h[LastOf(h, f)].sound}
      BY <1>9, <2>1 DEF FramesHeard
    <3>2. \A f : f \in FramesHeard(h) <=> (f \in 1..q /\ g[LastOf(g, f)].sound) \/ (f = q + 1 /\ m.sound)
      BY <1>10, <1>11, <1>13, <2>1, <3>1
    <3>3. QED
      BY <1>12, <2>1, <3>2
  <2>2. CASE ~more
    <3>1. FramesHeard(h) = {f \in 1..q : h[LastOf(h, f)].sound}
      BY <1>9, <2>2 DEF FramesHeard
    <3>2. QED
      BY <1>10, <1>12, <2>2, <3>1
  <2>3. QED
    BY <2>1, <2>2
<1>15. FramesHeard(g) \in SUBSET (1..q) /\ 2 * q <= S
  BY <1>2, <1>12
<1>16. QED
  BY <1>14, <1>15, <1>r DEF more, Completes

PCMLines(g) == \A j \in 1..Len(g) :
    /\ g[j].n \in 0..3 /\ (g[j].kind = "audio" => g[j].n \in 1..2)
    /\ g[j].kind \in {"audio", "sentence", "finished", "failed", "other"}

\* The halves of a message that counts come after those of the history.
LEMMA HalvesGrow ==
    ASSUME NEW g, NEW m, NEW h, Grown(h, g, m), PCMLines(g), PCMLines(h)
    PROVE  /\ HalvesOf(h) = IF m.kind = "audio" /\ Expects(g, Len(g) + 1)
                            THEN HalvesOf(g) \o Pieces(m, Len(g) + 1) ELSE HalvesOf(g)
           /\ HalvesOf(g) \in Seq(Halves)
           /\ \A k \in 1..Len(HalvesOf(g)) : HalvesOf(g)[k][1] \in 1..Len(g)
<1>1. Len(h) = Len(g) + 1 /\ h[Len(g) + 1] = m /\ Len(g) + 1 \in 1..(Len(g) + 1)
  BY DEF Grown
<1>2. HasPieces(g, m)
  BY <1>1 DEF PCMLines, HasPieces
<1>3. CountedAt(g) \in SUBSET (1..Len(g))
  BY CountedGrow
<1>4. JoinedGrows(g, m, h, CountedAt(g))
  BY <1>2, <1>3, PiecesAtGrow
<1>5. /\ Joined(h, CountedAt(g)) = HalvesOf(g)
      /\ Joined(h, CountedAt(g) \cup {Len(g) + 1}) = HalvesOf(g) \o Pieces(m, Len(g) + 1)
      /\ HalvesOf(g) \in Seq(Halves)
      /\ \A k \in 1..Len(HalvesOf(g)) : HalvesOf(g)[k][1] \in 1..Len(g)
  BY <1>4 DEF JoinedGrows, HalvesOf
<1>6. HalvesOf(h) = Joined(h, CountedAt(h))
  BY DEF HalvesOf
<1>7. CASE m.kind = "audio" /\ Expects(g, Len(g) + 1)
  <2>1. CountedAt(h) = CountedAt(g) \cup {Len(g) + 1}
    BY <1>7, CountedGrow
  <2>2. QED
    BY <1>5, <1>6, <1>7, <2>1
<1>8. CASE ~(m.kind = "audio" /\ Expects(g, Len(g) + 1))
  <2>1. CountedAt(h) = CountedAt(g)
    BY <1>8, CountedGrow
  <2>2. QED
    BY <1>5, <1>6, <1>8, <2>1
<1>9. QED
  BY <1>7, <1>8

\* Halves that come behind all of them come behind those that are left.
LEMMA ConcatRest ==
    ASSUME NEW s, NEW r, NEW q \in Nat, Rest(r, s, q), NEW u \in Seq(Halves)
    PROVE  Rest(r \o u, s \o u, q) /\ Starts(s, s \o u) /\ Len(r \o u) = Len(r) + Len(u)
           /\ \A k \in 1..Len(s \o u) : k > Len(s) => k - Len(s) \in 1..Len(u) /\ (s \o u)[k] = u[k - Len(s)]
<1> DEFINE a == Len(r)
           S == Len(s)
           b == Len(u)
           x == r \o u
           y == s \o u
<1>1. /\ r \in Seq(Halves) /\ s \in Seq(Halves) /\ S = 2 * q + a /\ a \in Nat /\ S \in Nat /\ b \in Nat
      /\ \A k \in 1..a : r[k] = s[2 * q + k]
  BY DEF Rest
<1>2. /\ x \in Seq(Halves) /\ Len(x) = a + b
      /\ \A k \in 1..(a + b) : x[k] = IF k <= a THEN r[k] ELSE u[k - a]
  BY <1>1, ConcatProperties, ZenonT(60)
<1>3. /\ y \in Seq(Halves) /\ Len(y) = S + b
      /\ \A k \in 1..(S + b) : y[k] = IF k <= S THEN s[k] ELSE u[k - S]
  BY <1>1, ConcatProperties, ZenonT(60)
<1>n. Len(r) = a /\ Len(s) = S /\ Len(u) = b
  OBVIOUS
<1> HIDE DEF a, b, S, x, y
<1>4. Rest(x, y, q)
  <2>1. ASSUME NEW k \in 1..(a + b) PROVE x[k] = y[2 * q + k]
    <3>1. 2 * q + k \in 1..(S + b) /\ (k <= a <=> 2 * q + k <= S) /\ (2 * q + k) - S = k - a
      BY <1>1
    <3>2. k <= a => k \in 1..a
      BY <1>1
    <3>3. QED
      BY <1>1, <1>2, <1>3, <3>1, <3>2
  <2>2. S + b = 2 * q + (a + b)
    BY <1>1
  <2>3. QED
    BY <1>2, <1>3, <2>1, <2>2 DEF Rest
<1>5. Starts(s, y)
  <2>1. S <= S + b /\ \A k \in 1..S : k \in 1..(S + b) /\ k <= S
    BY <1>1
  <2>2. QED
    BY <1>1, <1>3, <1>n, <2>1 DEF Starts
<1>6. \A k \in 1..(S + b) : k > S => k - S \in 1..b /\ y[k] = u[k - S]
  <2>1. \A k \in 1..(S + b) : k > S => k - S \in 1..b /\ ~(k <= S)
    BY <1>1
  <2>2. QED
    BY <1>3, <2>1
<1>7. QED
  BY <1>2, <1>3, <1>4, <1>5, <1>6, <1>n DEF x, y

\* A sequence begins with itself.
LEMMA StartsItself == ASSUME NEW s \in Seq(Halves) PROVE Starts(s, s)
  BY DEF Starts

\* What a message makes of the halves the decoder has kept is the frame the
\* message adds to the history.
LEMMA PCMAdds ==
    ASSUME NEW g, NEW m, NEW h, Grown(h, g, m), PCMLines(g), PCMLines(h), IsMessage(m),
           Decodes("pcm"), kept \in KeptType, FramesKept(g, kept), MeaningPCM(g) \in Seq(Items)
    PROVE  /\ Adding(MeaningPCM(g), DecodePCM(m, Len(g) + 1), MeaningPCM(h))
           /\ ~DecodePCM(m, Len(g) + 1).ends => FramesKept(h, DecodePCM(m, Len(g) + 1).kept)
<1> DEFINE i == Len(g) + 1
           s == HalvesOf(g)
           t == HalvesOf(h)
           F == FramesHeard(g)
           G == FramesHeard(h)
           r == kept.halves
           o == DecodePCM(m, i)
<1>1. Len(g) \in Nat /\ i \in Nat /\ Len(h) = i /\ h[i] = m /\ i \in 1..i
  BY DEF Grown
<1>2. kept \in OpenFrames /\ r \in Seq(Halves)
  <2>1. KeptType = OpenFrames
    BY Zenon DEF KeptType, Decodes
  <2>2. QED
    BY <2>1 DEF OpenFrames
<1>3. PICK q \in Nat : Rest(r, s, q)
  BY DEF FramesKept
<1>4. Len(r) <= 1 /\ ~IsEnded(g) /\ (kept.expect <=> Expects(g, i))
  BY DEF FramesKept
<1>5. s \in Seq(Halves) /\ \A k \in 1..Len(s) : s[k][1] \in 1..Len(g)
  BY HalvesGrow
<1>6. IsEnded(h) <=> m.kind = "finished"
  <2>1. h # <<>>
    <3>1. Len(<<>>) = 0 /\ \A k \in Nat : k + 1 # 0
      OBVIOUS
    <3>2. QED
      BY <1>1, <3>1
  <2>2. QED
    BY <1>1, <2>1 DEF IsEnded
<1>7. MeaningPCM(g) = FramesAt(s, F) /\ MeaningPCM(h) = FramesAt(t, G)
  BY MeaningPCMIs
<1>8. m.kind \in {"audio", "sentence", "finished", "failed", "other"} /\ (m.kind = "audio" => m.n \in 1..2)
  BY <1>1 DEF PCMLines
<1>9. Expects(h, Len(h) + 1) <=> IF m.kind \in {"sentence", "audio"}
                                 THEN m.kind = "sentence" ELSE Expects(g, i)
  BY ExpectsGrow
<1>10. t = IF m.kind = "audio" /\ kept.expect THEN s \o Pieces(m, i) ELSE s
  BY <1>4, HalvesGrow
<1>11. FramesAt(s, F) \in Seq(Items)
  BY <1>7
<1>n. s = HalvesOf(g) /\ t = HalvesOf(h) /\ i = Len(g) + 1
  OBVIOUS
<1>12. CASE m.kind = "audio" /\ kept.expect
  <2> DEFINE hv == r \o Pieces(m, i)
  <2>1. Pieces(m, i) \in Seq(Halves) /\ Len(Pieces(m, i)) = m.n
    BY <1>1, PiecesAreHalves
  <2>2. t = s \o Pieces(m, i)
    BY <1>10, <1>12
  <2>3. \A k \in 1..m.n : Pieces(m, i)[k][1] = i
    BY DEF Pieces
  <2> DEFINE u == Pieces(m, i)
  <2> HIDE DEF u
  <2>4. Rest(hv, t, q) /\ Starts(s, t) /\ Len(hv) = Len(r) + Len(u)
        /\ \A k \in 1..Len(t) : k > Len(s) => k - Len(s) \in 1..Len(u) /\ t[k] = u[k - Len(s)]
    <3>1. u \in Seq(Halves) /\ hv = r \o u /\ t = s \o u
      BY <2>1, <2>2 DEF u
    <3> HIDE DEF hv, s, t, r
    <3>2. QED
      BY <1>3, <3>1, ConcatRest
  <2>5. \A k \in 1..Len(t) : k > Len(s) => t[k][1] = i
    BY <2>1, <2>3, <2>4 DEF u
  <2>6. Len(hv) <= 3 /\ Len(hv) \in Nat
    <3>1. Len(u) \in 1..2
      BY <1>8, <1>12, <2>1 DEF u
    <3>2. Len(r) \in Nat
      BY <1>2
    <3>3. \A a \in Nat, b \in 1..2 : \A c : c = a + b /\ a <= 1 => c <= 3 /\ c \in Nat
      OBVIOUS
    <3>4. Len(hv) = Len(r) + Len(u)
      BY <2>4
    <3> DEFINE a == Len(r)
               b == Len(u)
               c == Len(hv)
    <3>5. a \in Nat /\ b \in 1..2 /\ c = a + b /\ a <= 1
      BY <1>4, <3>1, <3>2, <3>4
    <3> HIDE DEF a, b, c
    <3>6. c <= 3 /\ c \in Nat
      BY <3>3, <3>5
    <3>7. QED
      BY <3>6 DEF c
  <2>7. ~IsEnded(h)
    BY <1>6, <1>12
  <2> HIDE DEF hv, s, t, F, G, i, r
  <2>8. /\ F \in SUBSET (1..q) /\ 2 * q <= Len(s)
        /\ Completes(F, G, q, hv, FALSE, m)
    BY <1>3, <1>4, <1>5, <1>n, <2>4, <2>5, <2>6, <2>7, HeardFramesGrow DEF F, G
  <2>9. Flushes(s, t, F, G, hv, FALSE, m)
    BY <1>11, <2>4, <2>6, <2>8, PCMFlushes
  <2>10. o = FlushPCM(hv, FALSE, m)
    BY <1>12 DEF DecodePCM, hv, r
  <2>11. ~Expects(h, Len(h) + 1)
    BY <1>9, <1>12
  <2> HIDE DEF o
  <2>12. FramesKept(h, o.kept)
    BY <1>n, <2>7, <2>9, <2>10, <2>11 DEF FramesKept, Flushes
  <2>13. QED
    BY <1>7, <2>9, <2>10, <2>12 DEF o, i, s, t, F, G, Flushes
<1>13. CASE ~(m.kind = "audio" /\ kept.expect)
  <2>1. t = s
    BY <1>10, <1>13
  <2>2. Starts(s, t) /\ Rest(r, t, q) /\ Len(r) <= 3 /\ Len(r) \in Nat
    BY <1>2, <1>3, <1>4, <1>5, <2>1, StartsItself
  <2>3. \A k \in 1..Len(t) : k > Len(s) => t[k][1] = i
    <3>1. Len(s) \in Nat
      BY <1>5
    <3> HIDE DEF s, t
    <3>2. QED
      BY <2>1, <3>1
  <2> HIDE DEF s, t, F, G, i, r
  <2>a. ASSUME IsEnded(h)
        PROVE  F \in SUBSET (1..q) /\ 2 * q <= Len(s) /\ Completes(F, G, q, r, TRUE, m)
    BY <1>3, <1>4, <1>5, <1>n, <2>1, <2>2, <2>3, <2>a, HeardFramesGrow DEF F, G
  <2>4. ASSUME ~IsEnded(h)
        PROVE  F \in SUBSET (1..q) /\ 2 * q <= Len(s) /\ Completes(F, G, q, r, FALSE, m)
    BY <1>3, <1>4, <1>5, <1>n, <2>1, <2>2, <2>3, <2>4, HeardFramesGrow DEF F, G
  <2>5. CASE m.kind = "finished"
    <3>1. F \in SUBSET (1..q) /\ 2 * q <= Len(s) /\ Completes(F, G, q, r, TRUE, m)
      BY <1>6, <2>a, <2>5
    <3>2. Flushes(s, t, F, G, r, TRUE, m)
      BY <1>11, <2>2, <3>1, PCMFlushes
    <3>3. o = FlushPCM(r, TRUE, m)
      BY <2>5 DEF DecodePCM, r
    <3> HIDE DEF o
    <3>4. QED
      BY <1>7, <3>2, <3>3 DEF o, i, s, t, F, G, Flushes
  <2>6. CASE m.kind # "finished"
    <3>1. ~IsEnded(h) /\ ~(Len(r) >= 2)
      BY <1>4, <1>6, <2>2, <2>6
    <3>2. G = F
      <4>1. Completes(F, G, q, r, FALSE, m)
        BY <2>4, <3>1
      <4>2. QED
        BY <3>1, <4>1 DEF Completes
    <3>3. MeaningPCM(h) = MeaningPCM(g)
      BY <1>7, <2>1, <3>2 DEF s, t, F, G
    <3> DEFINE k == [kept EXCEPT !.expect = TRUE]
    <3>k. k.expect = TRUE /\ k.halves = r
      BY <1>2 DEF OpenFrames, r
    <3>4. /\ o = Broken \/ (o = Outcome(<<>>, k, FALSE) /\ m.kind = "sentence")
             \/ (o = Nothing /\ m.kind # "sentence" /\ m.kind # "failed")
      BY <1>8, <1>13, <2>6 DEF DecodePCM
    <3> HIDE DEF o, k
    <3>5. Adding(MeaningPCM(g), o, MeaningPCM(h))
      BY <3>3, <3>4, AddsNothing
    <3>6. ASSUME ~o.ends PROVE FramesKept(h, o.kept)
      <4>1. o # Broken
        BY <3>6 DEF Broken, Outcome
      <4>2. CASE m.kind = "sentence"
        <5>1. o.kept = k
          BY <3>4, <4>1, <4>2 DEF Outcome
        <5>2. o.kept.expect = TRUE /\ o.kept.halves = r
          BY <3>k, <5>1
        <5>3. QED
          BY <1>4, <1>9, <1>n, <2>2, <3>1, <4>2, <5>2 DEF FramesKept
      <4>3. CASE m.kind # "sentence"
        <5>1. o.kept = kept
          BY <3>4, <4>1, <4>3 DEF Nothing, Outcome
        <5>2. Expects(h, Len(h) + 1) <=> kept.expect
          BY <1>4, <1>8, <1>9, <1>13, <4>3
        <5>3. QED
          BY <1>4, <1>n, <2>2, <3>1, <5>1, <5>2 DEF FramesKept, r
      <4>4. QED
        BY <4>2, <4>3
    <3>7. QED
      BY <3>5, <3>6 DEF o, i
  <2>7. QED
    BY <2>5, <2>6
<1>14. QED
  BY <1>12, <1>13

-----------------------------------------------------------------------------
(* Chunks with tool calls: the calls a decoder keeps are those whose       *)
(* fragments came since the last finish reason.                            *)

\* The least of some numbers.
LEMMA MinIs ==
    ASSUME NEW S \in SUBSET Nat, IsFiniteSet(S), S # {}
    PROVE  Min(S) \in S /\ \A y \in S : Min(S) <= y
<1>1. \E x \in S : \A y \in S : x <= y
  <2> DEFINE n == Cardinality(S)
             x == Sorted(S)[1]
             order == NatOrder(S)
  <2>1. n \in Nat /\ n # 0
    BY FS_CardinalityType, FS_EmptySet
  <2>2. IsOrder(order, S) /\ \A y, z \in S : <<y, z>> \in order <=> y <= z
    BY NatOrderIsOrder
  <2>3. x \in S /\ Rank(order, S, x) = 1
    BY <2>1, <2>2, InOrderRanks, SortedIs
  <2>4. ASSUME NEW y \in S PROVE x <= y
    <3>1. Rank(order, S, y) \in 1..n
      BY <2>2, RanksDiffer
    <3> HIDE DEF n, x, order
    <3>a. <<y, x>> \in order /\ x # y => Rank(order, S, y) < Rank(order, S, x)
      BY <2>2, <2>3, RanksDiffer
    <3>2. ~(<<y, x>> \in order /\ x # y)
      BY <2>1, <2>3, <3>1, <3>a
    <3>3. ~(y <= x /\ x # y) /\ x \in Nat /\ y \in Nat
      BY <2>2, <2>3, <3>2
    <3> HIDE DEF x
    <3>4. QED
      BY <3>3
  <2>5. QED
    BY <2>3, <2>4
<1>2. Min(S) \in S /\ \A y \in S : Min(S) <= y
  BY <1>1 DEF Min
<1>3. QED
  BY <1>2

\* The fragments of tool calls at the places D of a history, the calls they
\* make, and the calls a decoder has open.
PartsIn(g, D, n) == {j \in D : g[j].n = n}
FirstsIn(g, D) == {j \in D : g[j].n # 0 /\ j = Min(PartsIn(g, D, g[j].n))}
CallsIn(g, D) == [k \in 1..Cardinality(FirstsIn(g, D)) |->
                     Sorted(PartsIn(g, D, g[Sorted(FirstsIn(g, D))[k]].n))]
IsOpenCall(g, D, k, c) == /\ c.index = g[Sorted(FirstsIn(g, D))[k]].n
                          /\ c.parts = Sorted(PartsIn(g, D, c.index))
                          /\ c.sound <=> \A j \in PartsIn(g, D, c.index) : g[j].sound
CallsKept(g, D, calls) == /\ Len(calls) = Cardinality(FirstsIn(g, D))
                          /\ \A k \in 1..Len(calls) : IsOpenCall(g, D, k, calls[k])

\* The fragments of a call and the first of them.
LEMMA PartsAndFirsts ==
    ASSUME NEW n \in Nat, NEW g, NEW D \in SUBSET (1..n)
    PROVE  /\ FirstsIn(g, D) \in SUBSET (1..n) /\ FirstsIn(g, D) \in SUBSET Nat
           /\ IsFiniteSet(FirstsIn(g, D)) /\ Cardinality(FirstsIn(g, D)) \in Nat
           /\ \A x : /\ PartsIn(g, D, x) \in SUBSET (1..n) /\ PartsIn(g, D, x) \in SUBSET Nat
                     /\ IsFiniteSet(PartsIn(g, D, x))
           /\ \A x : x # 0 /\ PartsIn(g, D, x) # {} =>
                 /\ Min(PartsIn(g, D, x)) \in FirstsIn(g, D) 
                 /\ g[Min(PartsIn(g, D, x))].n = x
<1>1. FirstsIn(g, D) \in SUBSET (1..n) /\ \A x : PartsIn(g, D, x) \in SUBSET (1..n)
  BY DEF FirstsIn, PartsIn
<1>2. FirstsIn(g, D) \in SUBSET Nat /\ IsFiniteSet(FirstsIn(g, D))
  BY <1>1, PlacesGrow
<1>3. \A x : PartsIn(g, D, x) \in SUBSET Nat /\ IsFiniteSet(PartsIn(g, D, x))
  BY <1>1, PlacesGrow
<1>4. ASSUME NEW x, x # 0, PartsIn(g, D, x) # {}
      PROVE  Min(PartsIn(g, D, x)) \in FirstsIn(g, D) /\ g[Min(PartsIn(g, D, x))].n = x
  <2>1. Min(PartsIn(g, D, x)) \in PartsIn(g, D, x)
    BY <1>3, <1>4, MinIs
  <2> DEFINE j == Min(PartsIn(g, D, x))
  <2>2. j \in D /\ g[j].n = x
    BY <2>1 DEF PartsIn
  <2>3. j \in FirstsIn(g, D)
    BY <1>4, <2>2 DEF FirstsIn
  <2>4. QED
    BY <2>2, <2>3
<1>5. Cardinality(FirstsIn(g, D)) \in Nat
  BY <1>2, FS_CardinalityType
<1>6. QED
  BY <1>1, <1>2, <1>3, <1>4, <1>5

CallsAreOpen(g, D, calls) ==
    /\ \A k, l \in 1..Len(calls) : calls[k].index = calls[l].index => k = l
    /\ \A k \in 1..Len(calls) : calls[k].index # 0 /\ PartsIn(g, D, calls[k].index) # {}
    /\ \A x : x # 0 /\ PartsIn(g, D, x) # {} => \E k \in 1..Len(calls) : calls[k].index = x

\* No two calls are open with one index; a fragment's call is open once its
\* first fragment was read.
LEMMA OpenCallsAre ==
    ASSUME NEW n \in Nat, NEW g, NEW D \in SUBSET (1..n), NEW calls, CallsKept(g, D, calls)
    PROVE  CallsAreOpen(g, D, calls)
<1> DEFINE F == FirstsIn(g, D)
           N == Cardinality(F)
           s == Sorted(F)
<1>1. /\ F \in SUBSET Nat /\ IsFiniteSet(F) /\ N \in Nat
      /\ \A x : x # 0 /\ PartsIn(g, D, x) # {} =>
            Min(PartsIn(g, D, x)) \in F /\ g[Min(PartsIn(g, D, x))].n = x
  BY PartsAndFirsts
<1>2. Len(calls) = N /\ \A k \in 1..N : calls[k].index = g[s[k]].n
  BY DEF CallsKept, IsOpenCall
<1>3. (\A k \in 1..N : s[k] \in F) /\ (\A x \in F : \E k \in 1..N : s[k] = x)
  BY <1>1, SortedRanks
<1>4. \A k, l \in 1..N : s[k] = s[l] => k = l
  <2>1. \A k \in 1..N : Rank(NatOrder(F), F, s[k]) = k
    BY <1>1, NatOrderIsOrder, InOrderRanks, SortedIs
  <2> HIDE DEF s, N, F
  <2>2. QED
    BY <2>1
<1>5. \A j \in F : g[j].n # 0 /\ j = Min(PartsIn(g, D, g[j].n)) /\ j \in D
  BY DEF FirstsIn
<1> HIDE DEF F, N, s
<1>6. ASSUME NEW k \in 1..N, NEW l \in 1..N, calls[k].index = calls[l].index PROVE k = l
  <2>1. s[k] = Min(PartsIn(g, D, calls[k].index)) /\ s[l] = Min(PartsIn(g, D, calls[l].index))
    BY <1>2, <1>3, <1>5
  <2>2. QED
    BY <1>4, <1>6, <2>1
<1>7. ASSUME NEW k \in 1..N PROVE calls[k].index # 0 /\ PartsIn(g, D, calls[k].index) # {}
  <2>1. s[k] \in D /\ g[s[k]].n = calls[k].index /\ calls[k].index # 0
    BY <1>2, <1>3, <1>5
  <2>2. QED
    BY <2>1 DEF PartsIn
<1>8. ASSUME NEW x, x # 0, PartsIn(g, D, x) # {} PROVE \E k \in 1..N : calls[k].index = x
  <2> DEFINE y == Min(PartsIn(g, D, x))
  <2>1. y \in F /\ g[y].n = x
    BY <1>1, <1>8
  <2> HIDE DEF y
  <2>2. PICK k \in 1..N : s[k] = y
    BY <1>3, <2>1
  <2>3. calls[k].index = x
    BY <1>2, <2>1, <2>2
  <2>4. QED
    BY <2>3
<1>9. QED
  BY <1>2, <1>6, <1>7, <1>8 DEF CallsAreOpen

\* The places E of the history h are those of D and that of the new message.
More(E, D, g) == E = D \cup {Len(g) + 1}

PartsGrown(g, m, h, D, E) ==
    /\ \A x : PartsIn(h, E, x) = IF x = m.n THEN PartsIn(g, D, x) \cup {Len(g) + 1}
                                  ELSE PartsIn(g, D, x)
    /\ FirstsIn(h, E) = IF m.n # 0 /\ PartsIn(g, D, m.n) = {}
                        THEN FirstsIn(g, D) \cup {Len(g) + 1} ELSE FirstsIn(g, D)

\* The fragments after one more message.
LEMMA PartsGrow ==
    ASSUME NEW g, NEW m, NEW h, Grown(h, g, m), NEW D \in SUBSET (1..Len(g)),
           NEW E, More(E, D, g)
    PROVE  PartsGrown(g, m, h, D, E)
<1> DEFINE n == Len(g)
           i == n + 1
<1>1. n \in Nat /\ i \notin D /\ h[i] = m /\ \A j \in D : j \in 1..n /\ h[j] = g[j]
  BY DEF Grown
<1>n. Len(g) + 1 = i /\ Len(g) = n /\ E = D \cup {i}
  BY DEF More
<1>i. i \in Nat /\ \A j \in 1..n : j <= i /\ ~(i <= j)
  BY <1>1
<1> HIDE DEF i
<1>2. \A x : PartsIn(h, E, x) = IF x = m.n THEN PartsIn(g, D, x) \cup {i} ELSE PartsIn(g, D, x)
  BY <1>1, <1>n DEF PartsIn
<1>3. ASSUME NEW j \in D PROVE Min(PartsIn(h, E, g[j].n)) = Min(PartsIn(g, D, g[j].n))
  <2> DEFINE P == PartsIn(g, D, g[j].n)
             Q == PartsIn(h, E, g[j].n)
  <2>1. P # {} /\ P \in SUBSET (1..n) /\ j \in P
    BY <1>n DEF PartsIn
  <2>2. Q = P \/ Q = P \cup {i}
    BY <1>2
  <2> HIDE DEF P, Q
  <2>3. CASE Q = P
    BY <2>3 DEF P, Q
  <2>4. CASE Q = P \cup {i}
    <3>1. P \in SUBSET Nat /\ IsFiniteSet(P)
      BY <1>1, <2>1, PlacesGrow
    <3>2. Q \in SUBSET Nat /\ IsFiniteSet(Q) /\ Q # {}
      BY <1>i, <2>4, <3>1, FS_AddElement
    <3>3. Min(P) \in P /\ (\A y \in P : Min(P) <= y) /\ Min(Q) \in Q /\ (\A y \in Q : Min(Q) <= y)
      BY <2>1, <3>1, <3>2, MinIs
    <3>4. Min(P) <= i
      BY <1>i, <2>1, <3>3
    <3>5. Min(P) \in Q /\ \A y \in Q : Min(P) <= y
      BY <2>4, <3>3, <3>4
    <3> DEFINE a == Min(P)
               b == Min(Q)
    <3>6. a \in Q /\ b \in Q /\ a \in Nat /\ b \in Nat /\ a <= b /\ b <= a
      BY <3>2, <3>3, <3>5
    <3> HIDE DEF a, b
    <3>7. a = b
      BY <3>6
    <3>8. QED
      BY <3>7 DEF a, b, P, Q
  <2>5. QED
    BY <2>2, <2>3, <2>4
<1>4. ASSUME NEW j \in D PROVE j \in FirstsIn(h, E) <=> j \in FirstsIn(g, D)
  BY <1>1, <1>3, <1>n DEF FirstsIn
<1>5. i \in FirstsIn(h, E) <=> m.n # 0 /\ PartsIn(g, D, m.n) = {}
  <2> DEFINE P == PartsIn(g, D, m.n)
             Q == PartsIn(h, E, m.n)
  <2>1. Q = P \cup {i} /\ P \in SUBSET (1..n)
    BY <1>2, <1>n DEF PartsIn
  <2>2. i \in FirstsIn(h, E) <=> m.n # 0 /\ i = Min(Q)
    BY <1>1, <1>n DEF FirstsIn
  <2> HIDE DEF P, Q
  <2>3. P \in SUBSET Nat /\ IsFiniteSet(P)
    BY <1>1, <2>1, PlacesGrow
  <2>4. Q \in SUBSET Nat /\ IsFiniteSet(Q) /\ Q # {}
    BY <1>i, <2>1, <2>3, FS_AddElement
  <2>5. Min(Q) \in Q /\ \A y \in Q : Min(Q) <= y
    BY <2>4, MinIs
  <2>6. P = {} => Min(Q) = i
    BY <2>1, <2>5
  <2>7. P # {} => Min(Q) # i
    <3>1. ASSUME NEW y \in P PROVE Min(Q) # i
      <4>1. Min(Q) <= y /\ y \in 1..n
        BY <2>1, <2>5
      <4>2. ~(i <= y)
        BY <1>i, <4>1
      <4>3. QED
        BY <4>1, <4>2
    <3>2. QED
      BY <3>1
  <2>8. QED
    BY <2>2, <2>6, <2>7 DEF P
<1>6. FirstsIn(h, E) \subseteq E /\ FirstsIn(g, D) \subseteq D
  BY DEF FirstsIn
<1>7. FirstsIn(h, E) = IF m.n # 0 /\ PartsIn(g, D, m.n) = {}
                       THEN FirstsIn(g, D) \cup {i} ELSE FirstsIn(g, D)
  <2> DEFINE A == FirstsIn(h, E)
             B == FirstsIn(g, D)
             p == m.n # 0 /\ PartsIn(g, D, m.n) = {}
  <2>1. A \subseteq D \cup {i} /\ B \subseteq D /\ (\A j \in D : j \in A <=> j \in B) /\ (i \in A <=> p)
    BY <1>4, <1>5, <1>6, <1>n
  <2> HIDE DEF A, B, p
  <2>2. p => A = B \cup {i}
    BY <2>1
  <2>3. ~p => A = B
    BY <2>1
  <2>4. QED
    BY <2>2, <2>3 DEF A, B, p
<1>8. QED
  BY <1>2, <1>7, <1>n DEF PartsGrown

Call == [index : 1..2, parts : Seq(Nat), sound : BOOLEAN]

\* A call a message has no fragment of stays as it is.
LEMMA StaysOpen ==
    ASSUME NEW g, NEW m, NEW h, Grown(h, g, m), NEW D \in SUBSET (1..Len(g)),
           NEW E, More(E, D, g), NEW k, NEW c, IsOpenCall(g, D, k, c), c.index # m.n,
           Sorted(FirstsIn(h, E))[k] = Sorted(FirstsIn(g, D))[k], Sorted(FirstsIn(g, D))[k] \in D
    PROVE  IsOpenCall(h, E, k, c)
<1>1. \A j \in D : h[j] = g[j]
  BY DEF Grown
<1>2. PartsIn(h, E, c.index) = PartsIn(g, D, c.index)
  <2>1. PartsGrown(g, m, h, D, E)
    BY PartsGrow
  <2>2. QED
    BY <2>1 DEF PartsGrown
<1>3. c.index = h[Sorted(FirstsIn(h, E))[k]].n
  BY <1>1 DEF IsOpenCall
<1>4. c.parts = Sorted(PartsIn(h, E, c.index))
  BY <1>2 DEF IsOpenCall
<1>5. c.sound <=> \A j \in PartsIn(h, E, c.index) : h[j].sound
  <2>1. \A j \in PartsIn(g, D, c.index) : h[j] = g[j]
    BY <1>1 DEF PartsIn
  <2>2. c.sound <=> \A j \in PartsIn(g, D, c.index) : g[j].sound
    BY DEF IsOpenCall
  <2>3. QED
    BY <1>2, <2>1, <2>2
<1>6. QED
  BY <1>3, <1>4, <1>5 DEF IsOpenCall

\* The first fragment of a call.
LEMMA OpensOne ==
    ASSUME NEW g, NEW m, NEW h, Grown(h, g, m), NEW D \in SUBSET (1..Len(g)),
           NEW E, More(E, D, g), NEW calls \in Seq(Call), CallsKept(g, D, calls),
           m.n # 0, PartsIn(g, D, m.n) = {}, NEW one \in Call,
           one.index = m.n, one.parts = <<Len(g) + 1>>, one.sound <=> m.sound
    PROVE  CallsKept(h, E, Append(calls, one))
<1>g. PartsGrown(g, m, h, D, E) /\ CallsAreOpen(g, D, calls)
  <2>1. Len(g) \in Nat
    BY DEF Grown
  <2>2. QED
    BY <2>1, PartsGrow, OpenCallsAre
<1> DEFINE i == Len(g) + 1
           F == FirstsIn(g, D)
           G == FirstsIn(h, E)
           N == Cardinality(F)
           s == Sorted(F)
           t == Sorted(G)
           after == Append(calls, one)
<1>1. /\ Len(g) \in Nat /\ i \in Nat /\ h[i] = m
  BY DEF Grown
<1>2. F \in SUBSET (1..Len(g)) /\ F \in SUBSET Nat /\ IsFiniteSet(F) /\ N \in Nat
  BY <1>1, PartsAndFirsts
<1>3. G = F \cup {i}
  BY <1>g DEF PartsGrown
<1>4. t = Append(s, i) /\ Cardinality(G) = N + 1
  <2>1. i \notin F /\ Sorted(F \cup {i}) = Append(Sorted(F), i)
    BY <1>1, <1>2, PlacesGrow
  <2>2. QED
    BY <1>2, <1>3, <2>1, FS_AddElement
<1>5. s \in Seq(F) /\ Len(s) = N /\ \A k \in 1..N : s[k] \in F
  BY <1>2, SortedRanks
<1>n. CallsKept(g, D, calls) /\ F = FirstsIn(g, D)
  OBVIOUS
<1>6. Len(calls) = N /\ \A k \in 1..N : IsOpenCall(g, D, k, calls[k])
  BY <1>n DEF CallsKept
<1>7. \A k \in 1..Len(calls) : PartsIn(g, D, calls[k].index) # {}
  BY <1>g DEF CallsAreOpen
<1>d. F \subseteq D
  BY DEF FirstsIn
<1> HIDE DEF F, G, N, s, t, i, after
<1>8. Len(after) = N + 1 /\ after[N + 1] = one /\ \A k \in 1..N : after[k] = calls[k]
  <2> HIDE DEF Call
  <2>1. QED
    BY <1>2, <1>6, AppendProperties DEF after
<1>9. t[N + 1] = i /\ \A k \in 1..N : t[k] = s[k]
  BY <1>2, <1>4, <1>5, AppendProperties
<1>10. ASSUME NEW k \in 1..N PROVE IsOpenCall(h, E, k, after[k])
  <2>1. after[k] = calls[k] /\ t[k] = s[k] /\ s[k] \in D
    BY <1>5, <1>8, <1>9, <1>d
  <2>2. calls[k].index # m.n
    BY <1>6, <1>7
  <2>3. IsOpenCall(g, D, k, calls[k])
    BY <1>6
  <2>4. IsOpenCall(h, E, k, calls[k])
    BY <2>1, <2>2, <2>3, StaysOpen DEF s, t, F, G
  <2>5. QED
    BY <2>1, <2>4
<1>11. IsOpenCall(h, E, N + 1, one)
  <2>1. PartsIn(h, E, m.n) = {i}
    <3>1. PartsIn(h, E, m.n) = PartsIn(g, D, m.n) \cup {Len(g) + 1}
      BY <1>g DEF PartsGrown
    <3>2. QED
      BY <3>1 DEF i
  <2>2. Sorted({i}) = <<i>>
    <3>1. {} \in SUBSET Nat /\ IsFiniteSet({}) /\ \A y \in {} : y < i
      BY FS_EmptySet
    <3>2. Sorted({} \cup {i}) = Append(Sorted({}), i)
      BY <1>1, <3>1, SortedGrows
    <3>3. {} \cup {i} = {i} /\ Append(<<>>, i) = <<i>>
      OBVIOUS
    <3>4. QED
      BY <3>2, <3>3, SortedEmpty
  <2>3. one.index = h[Sorted(FirstsIn(h, E))[N + 1]].n
    BY <1>1, <1>9 DEF t, G
  <2>4. one.parts = Sorted(PartsIn(h, E, one.index))
    BY <2>1, <2>2 DEF i
  <2>5. one.sound <=> \A j \in PartsIn(h, E, one.index) : h[j].sound
    BY <1>1, <2>1
  <2>6. QED
    BY <2>3, <2>4, <2>5 DEF IsOpenCall
<1>12. \A k \in 1..(N + 1) : k \in 1..N \/ k = N + 1
  BY <1>2
<1>13. QED
  BY <1>4, <1>8, <1>10, <1>11, <1>12 DEF CallsKept, G, after

\* A fragment of a call that is open.
LEMMA AddsToOne ==
    ASSUME NEW g, NEW m, NEW h, Grown(h, g, m), NEW D \in SUBSET (1..Len(g)),
           NEW E, More(E, D, g), NEW calls \in Seq(Call), CallsKept(g, D, calls),
           m.n # 0, NEW k \in 1..Len(calls), calls[k].index = m.n, NEW one \in Call,
           one.index = m.n, one.parts = Append(calls[k].parts, Len(g) + 1),
           one.sound <=> calls[k].sound /\ m.sound
    PROVE  CallsKept(h, E, [calls EXCEPT ![k] = one])
<1>g. PartsGrown(g, m, h, D, E) /\ CallsAreOpen(g, D, calls)
  <2>1. Len(g) \in Nat
    BY DEF Grown
  <2>2. QED
    BY <2>1, PartsGrow, OpenCallsAre
<1> DEFINE i == Len(g) + 1
           F == FirstsIn(g, D)
           G == FirstsIn(h, E)
           N == Cardinality(F)
           s == Sorted(F)
           after == [calls EXCEPT ![k] = one]
           P == PartsIn(g, D, m.n)
           Q == PartsIn(h, E, m.n)
<1>1. /\ Len(g) \in Nat /\ i \in Nat /\ h[i] = m /\ \A j \in D : h[j] = g[j]
  BY DEF Grown
<1>2. F \in SUBSET (1..Len(g)) /\ F \in SUBSET Nat /\ IsFiniteSet(F) /\ N \in Nat
      /\ P \in SUBSET (1..Len(g))
  BY <1>1, PartsAndFirsts
<1>3. /\ \A l \in 1..Len(calls) : calls[l].index = m.n => l = k
      /\ P # {}
  <2>1. k \in 1..Len(calls) /\ calls[k].index = m.n
    OBVIOUS
  <2>2. QED
    BY <1>g, <2>1 DEF CallsAreOpen
<1>4. G = F
  BY <1>3, <1>g DEF PartsGrown
<1>5. \A l \in 1..N : s[l] \in F
  BY <1>2, SortedRanks
<1>n. CallsKept(g, D, calls) /\ F = FirstsIn(g, D)
  OBVIOUS
<1>6. Len(calls) = N /\ \A l \in 1..N : IsOpenCall(g, D, l, calls[l])
  BY <1>n DEF CallsKept
<1>d. F \subseteq D
  BY DEF FirstsIn
<1>q. Q = P \cup {i}
  <2>1. PartsIn(h, E, m.n) = PartsIn(g, D, m.n) \cup {Len(g) + 1}
    BY <1>g DEF PartsGrown
  <2>2. QED
    BY <2>1
<1>p. Sorted(Q) = Append(Sorted(P), i)
  BY <1>1, <1>2, <1>q, PlacesGrow
<1> HIDE DEF F, G, N, s, after, P, Q, i
<1>8. Len(after) = N /\ after[k] = one /\ \A l \in 1..N : l # k => after[l] = calls[l]
  <2> HIDE DEF Call
  <2>1. QED
    BY <1>6 DEF after
<1>9. ASSUME NEW l \in 1..N, l # k PROVE IsOpenCall(h, E, l, after[l])
  <2>1. after[l] = calls[l] /\ s[l] \in D
    BY <1>5, <1>8, <1>9, <1>d
  <2>2. calls[l].index # m.n
    BY <1>3, <1>6, <1>9
  <2>3. IsOpenCall(g, D, l, calls[l])
    BY <1>6
  <2>4. IsOpenCall(h, E, l, calls[l])
    BY <1>4, <2>1, <2>2, <2>3, StaysOpen DEF s, F, G
  <2>5. QED
    BY <2>1, <2>4
<1>10. IsOpenCall(h, E, k, one)
  <2>1. IsOpenCall(g, D, k, calls[k]) /\ s[k] \in D
    BY <1>5, <1>6, <1>d
  <2>2. m.n = g[s[k]].n /\ calls[k].parts = Sorted(P) /\ (calls[k].sound <=> \A j \in P : g[j].sound)
    BY <2>1 DEF IsOpenCall, s, F, P
  <2>3. one.index = h[Sorted(FirstsIn(h, E))[k]].n
    BY <1>1, <1>4, <2>1, <2>2 DEF s, F, G
  <2>4. one.parts = Sorted(Q)
    BY <1>p, <2>2 DEF i
  <2>5. one.sound <=> \A j \in Q : h[j].sound
    <3>1. \A j \in P : h[j] = g[j]
      BY <1>1 DEF P, PartsIn
    <3>2. QED
      BY <1>1, <1>q, <2>2, <3>1
  <2>6. QED
    BY <2>3, <2>4, <2>5 DEF IsOpenCall, Q
<1>11. QED
  BY <1>4, <1>6, <1>8, <1>9, <1>10 DEF CallsKept, F, G, N, after

\* A fragment goes to the call of its index or opens one; the open calls
\* are those of the longer history.
LEMMA AddKeeps ==
    ASSUME NEW g, NEW m, NEW h, Grown(h, g, m), NEW D \in SUBSET (1..Len(g)),
           NEW E, More(E, D, g), NEW calls \in Seq(Call), CallsKept(g, D, calls),
           IsMessage(m), m.n \in 0..2
    PROVE  CallsKept(h, E, Add(calls, m, Len(g) + 1)) /\ Add(calls, m, Len(g) + 1) \in Seq(Call)
<1>g. PartsGrown(g, m, h, D, E) /\ CallsAreOpen(g, D, calls)
  <2>1. Len(g) \in Nat
    BY DEF Grown
  <2>2. QED
    BY <2>1, PartsGrow, OpenCallsAre
<1> DEFINE i == Len(g) + 1
           known == {k \in DOMAIN calls : calls[k].index = m.n}
           k == CHOOSE j \in known : TRUE
           after == Add(calls, m, i)
<1>1. Len(g) \in Nat /\ i \in Nat
  BY DEF Grown
<1>2. DOMAIN calls = 1..Len(calls) /\ Len(calls) \in Nat
  OBVIOUS
<1>3. CASE m.n = 0
  <2> DEFINE F == FirstsIn(g, D)
             N == Cardinality(F)
             s == Sorted(F)
  <2>1. after = calls
    BY <1>3 DEF Add
  <2>2. FirstsIn(h, E) = F
    BY <1>3, <1>g DEF PartsGrown
  <2>3. F \in SUBSET Nat /\ IsFiniteSet(F) /\ F \subseteq D
    <3>1. F \in SUBSET Nat /\ IsFiniteSet(F)
      BY <1>1, PartsAndFirsts
    <3>2. F \subseteq D
      BY DEF FirstsIn
    <3>3. QED
      BY <3>1, <3>2
  <2>4. \A l \in 1..N : s[l] \in D
    BY <2>3, SortedRanks
  <2>5. Len(calls) = N /\ \A l \in 1..N : IsOpenCall(g, D, l, calls[l])
    BY DEF CallsKept
  <2>6. \A l \in 1..Len(calls) : calls[l].index # 0
    BY <1>g DEF CallsAreOpen
  <2> HIDE DEF F, N, s
  <2>7. ASSUME NEW l \in 1..N PROVE IsOpenCall(h, E, l, calls[l])
    <3>1. IsOpenCall(g, D, l, calls[l]) /\ calls[l].index # m.n /\ s[l] \in D
      BY <1>3, <2>4, <2>5, <2>6
    <3>2. QED
      BY <2>2, <3>1, StaysOpen DEF s, F
  <2>8. QED
    BY <2>1, <2>2, <2>5, <2>7 DEF CallsKept, N, F
<1>4. CASE m.n # 0 /\ known = {}
  <2> DEFINE one == [index |-> m.n, parts |-> <<i>>, sound |-> m.sound]
  <2>1. after = Append(calls, one)
    BY <1>4 DEF Add
  <2>2. PartsIn(g, D, m.n) = {}
    BY <1>2, <1>4, <1>g DEF CallsAreOpen
  <2>3. one \in Call /\ one.index = m.n /\ one.parts = <<i>> /\ one.sound = m.sound
    BY <1>1, <1>4 DEF IsMessage, Call
  <2>4. Append(calls, one) \in Seq(Call)
    <3> HIDE DEF Call, one
    <3>1. QED
      BY <2>3
  <2>5. CallsKept(h, E, Append(calls, one))
    <3> HIDE DEF one, known, k
    <3>1. QED
      BY <1>4, <2>2, <2>3, OpensOne
  <2>6. QED
    BY <2>1, <2>4, <2>5
<1>5. CASE m.n # 0 /\ known # {}
  <2>1. k \in 1..Len(calls) /\ calls[k].index = m.n
    BY <1>2, <1>5
  <2> DEFINE open == calls[k]
             call1 == [open EXCEPT !.parts = Append(@, i)]
             call2 == [call1 EXCEPT !.sound = @ /\ m.sound]
  <2>2. after = [calls EXCEPT ![k] = call2]
    BY <1>5 DEF Add
  <2> HIDE DEF k, known, after
  <2>3. open \in Call
    <3> HIDE DEF Call
    <3>1. QED
      BY <2>1
  <2> HIDE DEF open
  <2>4. /\ call1 \in Call /\ call1.index = open.index /\ call1.parts = Append(open.parts, i)
        /\ call1.sound = open.sound
    <3>1. Append(open.parts, i) \in Seq(Nat)
      BY <1>1, <2>3 DEF Call
    <3>2. QED
      BY <2>3, <3>1 DEF Call
  <2> HIDE DEF call1
  <2> DEFINE b == call1.sound /\ m.sound
  <2>5. call2 = [call1 EXCEPT !.sound = b]
    OBVIOUS
  <2>6. b \in BOOLEAN
    OBVIOUS
  <2> HIDE DEF b
  <2>7. call2 = [index |-> call1.index, parts |-> call1.parts, sound |-> b]
    <3> HIDE DEF call2
    <3>1. QED
      BY <2>4, <2>5 DEF Call
  <2> HIDE DEF call2
  <2>8. call2 \in Call /\ call2.index = call1.index /\ call2.parts = call1.parts /\ call2.sound = b
    BY <2>4, <2>6, <2>7 DEF Call
  <2>9. call2.index = m.n /\ call2.parts = Append(open.parts, i)
    BY <2>1, <2>4, <2>8 DEF open
  <2>10. call2.sound <=> open.sound /\ m.sound
    BY <2>4, <2>8, Zenon DEF b
  <2>11. CallsKept(h, E, [calls EXCEPT ![k] = call2])
    BY <1>5, <2>1, <2>8, <2>9, <2>10, AddsToOne DEF open
  <2>12. [calls EXCEPT ![k] = call2] \in Seq(Call)
    <3> HIDE DEF Call
    <3>1. QED
      BY <2>1, <2>8
  <2>13. QED
    BY <2>2, <2>11, <2>12 DEF after
<1>6. QED
  BY <1>3, <1>4, <1>5

\* The fragments since the last finish reason before i.
FinalsBefore(g, i) == {j \in 1..(i - 1) : g[j].final}
Start(g, i) == IF FinalsBefore(g, i) = {} THEN 1 ELSE 1 + Max(FinalsBefore(g, i))
OpenPlaces(g) == Start(g, Len(g) + 1)..Len(g)

\* The calls a finish reason completes, with the names used here.
LEMMA CallsAtIs == ASSUME NEW g, NEW i PROVE CallsAt(g, i) = CallsIn(g, Start(g, i)..i)
<1> DEFINE since == (IF FinalsBefore(g, i) = {} THEN 1 ELSE 1 + Max(FinalsBefore(g, i)))..i
           Parts(n) == {j \in since : g[j].n = n}
           firsts == {j \in since : g[j].n # 0 /\ j = Min(Parts(g[j].n))}
<1>1. CallsAt(g, i) = [k \in 1..Cardinality(firsts) |-> Sorted(Parts(g[Sorted(firsts)[k]].n))]
  BY DEF CallsAt, FinalsBefore
<1>2. since = Start(g, i)..i
  BY DEF Start
<1> HIDE DEF since
<1>3. QED
  BY <1>1, <1>2 DEF CallsIn, FirstsIn, PartsIn

\* The fragments of the next call begin behind the last finish reason.
LEMMA StartGrows ==
    ASSUME NEW g, NEW m, NEW h, Grown(h, g, m)
    PROVE  /\ \A i \in 1..(Len(g) + 1) : Start(h, i) = Start(g, i) /\ Start(g, i) \in 1..i
           /\ Start(h, Len(g) + 2) = IF m.final THEN Len(g) + 2 ELSE Start(g, Len(g) + 1)
<1> DEFINE n == Len(g)
<1>1. n \in Nat /\ h[n + 1] = m /\ \A j \in 1..n : h[j] = g[j]
  BY DEF Grown
<1>n. Len(g) = n
  OBVIOUS
<1> HIDE DEF n
<1>2. ASSUME NEW i \in 1..(n + 1)
      PROVE  Start(h, i) = Start(g, i) /\ Start(g, i) \in 1..i
  <2>1. i - 1 \in Nat /\ \A j \in 1..(i - 1) : j \in 1..n
    BY <1>1
  <2>2. FinalsBefore(h, i) = FinalsBefore(g, i) /\ FinalsBefore(g, i) \in SUBSET (1..(i - 1))
    BY <1>1, <2>1 DEF FinalsBefore
  <2>3. FinalsBefore(g, i) \in SUBSET Nat /\ IsFiniteSet(FinalsBefore(g, i))
    BY <2>1, <2>2, PlacesGrow, ZenonT(60)
  <2>4. FinalsBefore(g, i) # {} => Max(FinalsBefore(g, i)) \in 1..(i - 1)
    BY <2>2, <2>3, MaxIs
  <2>5. \A j \in 1..(i - 1) : 1 + j \in 1..i
    BY <1>1
  <2>6. 1 \in 1..i
    BY <1>1
  <2>7. QED
    BY <2>2, <2>4, <2>5, <2>6 DEF Start
<1> DEFINE A == FinalsBefore(g, n + 1)
           B == FinalsBefore(h, n + 2)
<1>3. A \in SUBSET (1..n) /\ B = IF m.final THEN A \cup {n + 1} ELSE A
  <2>1. \A j : j \in 1..((n + 2) - 1) <=> j \in 1..((n + 1) - 1) \/ j = n + 1
    BY <1>1
  <2>2. \A j : j \in 1..((n + 1) - 1) <=> j \in 1..n
    BY <1>1
  <2>3. QED
    BY <1>1, <2>1, <2>2 DEF FinalsBefore
<1>4. Start(h, n + 2) = IF m.final THEN n + 2 ELSE Start(g, n + 1)
  <2>1. CASE m.final
    <3>1. B = A \cup {n + 1}
      BY <1>3, <2>1
    <3>2. B \in SUBSET (1..(n + 1)) /\ n + 1 \in Nat /\ n + 1 \in B
      BY <1>1, <1>3, <3>1
    <3> HIDE DEF A, B
    <3>3. B \in SUBSET Nat /\ IsFiniteSet(B) /\ B # {}
      BY <3>2, PlacesGrow
    <3>4. Max(B) \in B /\ n + 1 <= Max(B)
      BY <3>2, <3>3, MaxIs
    <3>5. Max(B) = n + 1
      <4>1. Max(B) \in 1..(n + 1)
        BY <3>2, <3>4
      <4>2. QED
        BY <1>1, <3>4, <4>1
    <3>6. 1 + (n + 1) = n + 2
      BY <1>1
    <3>7. QED
      BY <2>1, <3>3, <3>5, <3>6 DEF Start, B
  <2>2. CASE ~m.final
    BY <1>3, <2>2 DEF Start
  <2>3. QED
    BY <2>1, <2>2
<1>5. QED
  BY <1>2, <1>4, <1>n

\* Calls do not change with later lines.
LEMMA CallsStay ==
    ASSUME NEW g, NEW h, NEW n \in Nat, NEW D \in SUBSET (1..n), \A j \in 1..n : h[j] = g[j]
    PROVE  CallsIn(h, D) = CallsIn(g, D)
<1>1. \A x : PartsIn(h, D, x) = PartsIn(g, D, x)
  BY DEF PartsIn
<1>2. FirstsIn(h, D) = FirstsIn(g, D)
  BY <1>1 DEF FirstsIn
<1> DEFINE F == FirstsIn(g, D)
           s == Sorted(F)
<1>3. F \in SUBSET (1..n) /\ F \in SUBSET Nat /\ IsFiniteSet(F)
  BY PartsAndFirsts
<1>4. \A k \in 1..Cardinality(F) : s[k] \in F
  BY <1>3, SortedRanks
<1>f. F = FirstsIn(g, D)
  OBVIOUS
<1> HIDE DEF F, s
<1>5. \A k \in 1..Cardinality(F) : h[s[k]].n = g[s[k]].n
  BY <1>3, <1>4
<1>6. /\ CallsIn(g, D) = [k \in 1..Cardinality(F) |-> Sorted(PartsIn(g, D, g[s[k]].n))]
      /\ CallsIn(h, D) = [k \in 1..Cardinality(F) |-> Sorted(PartsIn(h, D, h[s[k]].n))]
  BY <1>2, <1>f DEF CallsIn, s
<1>7. QED
  BY <1>1, <1>5, <1>6

\* The calls a decoder has open are those of the fragments, and unreadable
\* when one of these is.
LEMMA FlushedCalls ==
    ASSUME NEW n \in Nat, NEW g, NEW D \in SUBSET (1..n), NEW calls \in Seq(Call),
           CallsKept(g, D, calls)
    PROVE  /\ Flush(calls) = CallsIn(g, D)
           /\ (\E k \in DOMAIN calls : ~calls[k].sound)
                <=> \E k \in DOMAIN CallsIn(g, D) : \E j \in Range(CallsIn(g, D)[k]) : ~g[j].sound
<1> DEFINE F == FirstsIn(g, D)
           N == Cardinality(F)
           P(k) == PartsIn(g, D, g[Sorted(F)[k]].n)
<1>1. \A k \in 1..N : P(k) \in SUBSET Nat /\ IsFiniteSet(P(k))
  BY PartsAndFirsts
<1>2. CallsIn(g, D) = [k \in 1..N |-> Sorted(P(k))]
  BY DEF CallsIn
<1>3. Len(calls) = N /\ \A k \in 1..N : /\ calls[k].parts = Sorted(P(k))
                                        /\ calls[k].sound <=> \A j \in P(k) : g[j].sound
  BY DEF CallsKept, IsOpenCall
<1>4. DOMAIN calls = 1..N
  BY <1>3
<1> HIDE DEF N, P
<1>5. Flush(calls) = CallsIn(g, D)
  <2>1. Flush(calls) = [k \in 1..N |-> calls[k].parts]
    BY <1>4 DEF Flush
  <2>2. QED
    BY <1>2, <1>3, <2>1
<1>6. \A k \in 1..N : Range(CallsIn(g, D)[k]) = P(k)
  <2>1. ASSUME NEW k \in 1..N PROVE Range(Sorted(P(k))) = P(k)
    <3> DEFINE S == P(k)
    <3>1. S \in SUBSET Nat /\ IsFiniteSet(S)
      BY <1>1
    <3> HIDE DEF S
    <3>2. /\ DOMAIN Sorted(S) = 1..Cardinality(S)
          /\ \A l \in 1..Cardinality(S) : Sorted(S)[l] \in S
          /\ \A x \in S : \E l \in 1..Cardinality(S) : Sorted(S)[l] = x
      BY <3>1, SortedRanks
    <3>3. Range(Sorted(S)) = S
      BY <3>2 DEF Range
    <3>4. QED
      BY <3>3 DEF S
  <2>2. QED
    BY <1>2, <2>1
<1>7. DOMAIN CallsIn(g, D) = 1..N
  BY <1>2
<1>8. QED
  BY <1>3, <1>4, <1>5, <1>6, <1>7

Unreadable(g, i) == \E k \in DOMAIN CallsAt(g, i) : \E j \in Range(CallsAt(g, i)[k]) : ~g[j].sound
IsChunk(g, i) == /\ g[i].kind = "line"
                 /\ g[i].text \/ g[i].final
                 /\ g[i].final => ~Unreadable(g, i)
Chunks(g) == {i \in DOMAIN g : IsChunk(g, i)}
ChunkAt(g, i) == [at |-> i, calls |-> IF g[i].final THEN CallsAt(g, i) ELSE <<>>]
ChunksOf(g) == [i \in Nat |-> ChunkAt(g, i)]

\* The meaning of lines, with the names used here.
LEMMA MeaningOpenAIIs ==
    ASSUME NEW g, NEW n \in Nat, DOMAIN g = 1..n
    PROVE  MeaningOpenAI(g) = Mapped(ChunksOf(g), Chunks(g))
<1> DEFINE chunks == {i \in DOMAIN g : /\ g[i].kind = "line"
                                       /\ g[i].text \/ g[i].final
                                       /\ g[i].final => ~Unreadable(g, i)}
<1>1. MeaningOpenAI(g) = [k \in 1..Cardinality(chunks) |-> ChunkAt(g, Sorted(chunks)[k])]
  BY DEF MeaningOpenAI, Unreadable, ChunkAt
<1>2. chunks = Chunks(g)
  BY DEF Chunks, IsChunk
<1>3. Chunks(g) \in SUBSET (1..n)
  BY DEF Chunks
<1> HIDE DEF chunks
<1>4. Chunks(g) \in SUBSET Nat /\ IsFiniteSet(Chunks(g))
  BY <1>3, PlacesGrow
<1>5. \A k \in 1..Cardinality(Chunks(g)) : Sorted(Chunks(g))[k] \in Nat
  BY <1>4, SortedRanks
<1>6. \A i \in Nat : ChunksOf(g)[i] = ChunkAt(g, i)
  BY DEF ChunksOf
<1>7. QED
  BY <1>1, <1>2, <1>5, <1>6 DEF Mapped

OpenAILines(g) == \A j \in 1..Len(g) : IsMessage(g[j]) /\ g[j].n \in 0..2

\* Where the history ends, its chunks and open calls grow by the message's.
LEMMA ChunksGrow ==
    ASSUME NEW g, NEW m, NEW h, Grown(h, g, m), OpenAILines(h)
    PROVE  /\ OpenPlaces(g) \in SUBSET (1..Len(g))
           /\ CallsAt(h, Len(g) + 1) = CallsIn(h, Start(g, Len(g) + 1)..(Len(g) + 1))
           /\ More(Start(g, Len(g) + 1)..(Len(g) + 1), OpenPlaces(g), g)
           /\ OpenPlaces(h) = IF m.final THEN {} ELSE Start(g, Len(g) + 1)..(Len(g) + 1)
           /\ MeaningOpenAI(h) = IF IsChunk(h, Len(g) + 1)
                                 THEN Append(MeaningOpenAI(g), ChunkAt(h, Len(g) + 1))
                                 ELSE MeaningOpenAI(g)
<1> DEFINE n == Len(g)
           i == n + 1
           E == Start(g, i)..i
<1>1. /\ n \in Nat /\ DOMAIN g = 1..n /\ DOMAIN h = 1..i /\ Len(h) = i /\ h[i] = m
      /\ \A j \in 1..n : h[j] = g[j]
  BY DEF Grown
<1>n. Len(g) = n /\ i \in Nat /\ i = n + 1
  BY <1>1
<1>2. \A j \in 1..i : Start(h, j) = Start(g, j) /\ Start(g, j) \in 1..j
  BY StartGrows
<1>3. Start(h, i + 1) = IF m.final THEN i + 1 ELSE Start(g, i)
  <2>1. Start(h, n + 2) = IF m.final THEN n + 2 ELSE Start(g, n + 1)
    BY StartGrows
  <2>2. n + 2 = i + 1
    BY <1>1
  <2>3. QED
    BY <2>1, <2>2
<1> HIDE DEF n, i
<1>4. i \in 1..i /\ Start(g, i) \in 1..i /\ Start(h, i) = Start(g, i)
  BY <1>2, <1>n
<1>5. OpenPlaces(g) = Start(g, i)..n /\ OpenPlaces(g) \in SUBSET (1..n)
  BY <1>1, <1>4, <1>n DEF OpenPlaces
<1>6. E = OpenPlaces(g) \cup {i}
  BY <1>1, <1>4, <1>5, <1>n
<1>7. OpenPlaces(h) = IF m.final THEN {} ELSE E
  <2>1. OpenPlaces(h) = Start(h, i + 1)..i
    BY <1>1 DEF OpenPlaces
  <2>2. (i + 1)..i = {}
    BY <1>n
  <2>3. QED
    BY <1>3, <2>1, <2>2
<1>8. CallsAt(h, i) = CallsIn(h, E)
  BY <1>4, CallsAtIs
<1>9. ASSUME NEW j \in 1..n
      PROVE  CallsAt(h, j) = CallsAt(g, j) /\ h[j] = g[j] /\ CallsAt(g, j) = CallsIn(g, Start(g, j)..j)
             /\ Start(g, j)..j \in SUBSET (1..n)
  <2>1. j \in 1..i /\ h[j] = g[j]
    BY <1>1, <1>n
  <2>2. Start(h, j) = Start(g, j) /\ Start(g, j) \in 1..j
    BY <1>2, <2>1
  <2>3. Start(g, j)..j \in SUBSET (1..n)
    BY <1>1, <2>2
  <2>4. CallsIn(h, Start(g, j)..j) = CallsIn(g, Start(g, j)..j)
    BY <1>1, <2>3, CallsStay, ZenonT(60)
  <2>5. QED
    BY <2>1, <2>2, <2>3, <2>4, CallsAtIs
<1>10. ASSUME NEW j \in 1..n
       PROVE  Unreadable(h, j) <=> Unreadable(g, j)
  <2> DEFINE C == CallsAt(g, j)
             D == Start(g, j)..j
  <2>1. C = CallsIn(g, D) /\ CallsAt(h, j) = C /\ D \in SUBSET (1..n)
    BY <1>9
  <2>2. \A k \in DOMAIN C : \A l \in Range(C[k]) : l \in 1..n
    <3> DEFINE F == FirstsIn(g, D)
    <3>1. C = [k \in 1..Cardinality(F) |-> Sorted(PartsIn(g, D, g[Sorted(F)[k]].n))]
      BY <2>1 DEF CallsIn
    <3>2. ASSUME NEW x PROVE Range(Sorted(PartsIn(g, D, x))) \subseteq 1..n
      <4> DEFINE P == PartsIn(g, D, x)
      <4>1. P \in SUBSET (1..n) /\ P \in SUBSET Nat /\ IsFiniteSet(P)
        BY <1>1, <2>1, PartsAndFirsts
      <4> HIDE DEF P
      <4>2. DOMAIN Sorted(P) = 1..Cardinality(P) /\ \A l \in 1..Cardinality(P) : Sorted(P)[l] \in P
        BY <4>1, SortedRanks
      <4>3. Range(Sorted(P)) \subseteq P
        BY <4>2 DEF Range
      <4>4. QED
        BY <4>1, <4>3 DEF P
    <3> HIDE DEF F, C, D
    <3>3. QED
      BY <3>1, <3>2
  <2> HIDE DEF C, D
  <2>3. QED
    BY <1>1, <2>1, <2>2 DEF Unreadable, C
<1>11. \A j \in 1..n : (IsChunk(h, j) <=> IsChunk(g, j)) /\ ChunkAt(h, j) = ChunkAt(g, j)
  BY <1>9, <1>10 DEF IsChunk, ChunkAt
<1>12. Chunks(h) = IF IsChunk(h, i) THEN Chunks(g) \cup {i} ELSE Chunks(g)
  <2>1. \A j : j \in 1..i <=> j \in 1..n \/ j = i
    BY <1>1, <1>n
  <2>2. QED
    BY <1>1, <1>11, <2>1 DEF Chunks
<1>13. /\ MeaningOpenAI(g) = Mapped(ChunksOf(g), Chunks(g))
       /\ MeaningOpenAI(h) = Mapped(ChunksOf(h), Chunks(h))
  BY <1>1, <1>n, MeaningOpenAIIs
<1>14. MappedGrown(ChunksOf(g), ChunksOf(h), n, Chunks(g))
  <2>1. Chunks(g) \in SUBSET (1..n)
    BY <1>1 DEF Chunks
  <2>2. \A j \in Chunks(g) : ChunksOf(h)[j] = ChunksOf(g)[j]
    <3>1. \A j \in 1..n : ChunksOf(h)[j] = ChunkAt(h, j) /\ ChunksOf(g)[j] = ChunkAt(g, j)
      BY <1>1 DEF ChunksOf
    <3>2. QED
      BY <1>11, <2>1, <3>1
  <2>3. QED
    BY <1>1, <2>1, <2>2, MappedGrows
<1>15. ChunksOf(h)[i] = ChunkAt(h, i)
  BY <1>n DEF ChunksOf
<1>16. MeaningOpenAI(h) = IF IsChunk(h, i) THEN Append(MeaningOpenAI(g), ChunkAt(h, i))
                          ELSE MeaningOpenAI(g)
  BY <1>12, <1>13, <1>14, <1>15, <1>n DEF MappedGrown
<1>17. QED
  BY <1>5, <1>6, <1>7, <1>8, <1>16, <1>n DEF More

\* What a line makes of the calls the decoder has open is the chunk the line
\* adds to the history, with the calls it completes.
LEMMA OpenAIAdds ==
    ASSUME NEW g, NEW m, NEW h, Grown(h, g, m), OpenAILines(h),
           Decodes("openai"), kept \in KeptType, CallsKept(g, OpenPlaces(g), kept),
           MeaningOpenAI(g) \in Seq(Items)
    PROVE  /\ Adding(MeaningOpenAI(g), DecodeOpenAI(m, Len(g) + 1), MeaningOpenAI(h))
           /\ ~DecodeOpenAI(m, Len(g) + 1).ends =>
                 CallsKept(h, OpenPlaces(h), DecodeOpenAI(m, Len(g) + 1).kept)
<1> DEFINE i == Len(g) + 1
           D == OpenPlaces(g)
           E == Start(g, i)..i
           calls == Add(kept, m, i)
           o == DecodeOpenAI(m, i)
           s == MeaningOpenAI(g)
           u == MeaningOpenAI(h)
<1>1. Len(g) \in Nat /\ i \in Nat /\ Len(h) = i /\ h[i] = m
  BY DEF Grown
<1>2. IsMessage(m) /\ m.n \in 0..2
  <2>1. i \in 1..i
    BY <1>1
  <2>2. QED
    BY <1>1, <2>1 DEF OpenAILines
<1>3. kept \in Seq(Call)
  BY Zenon DEF KeptType, OpenCalls, Decodes, Call
<1>4. /\ D \in SUBSET (1..Len(g)) /\ CallsAt(h, i) = CallsIn(h, E) /\ More(E, D, g)
      /\ OpenPlaces(h) = (IF m.final THEN {} ELSE E)
      /\ u = (IF IsChunk(h, i) THEN Append(s, ChunkAt(h, i)) ELSE s)
  BY ChunksGrow
<1>5. CallsKept(h, E, calls) /\ calls \in Seq(Call)
  <2> HIDE DEF E, D
  <2>1. CallsKept(g, D, kept)
    BY DEF D
  <2>2. QED
    BY <1>2, <1>3, <1>4, <2>1, AddKeeps
<1>6. E \in SUBSET (1..i)
  <2>1. Start(g, i) \in 1..i
    <3>1. i \in 1..i
      BY <1>1
    <3>2. QED
      BY <3>1, StartGrows
  <2>2. QED
    BY <1>1, <2>1
<1> HIDE DEF E, D, calls, o, s, u
<1>7. /\ Flush(calls) = CallsAt(h, i)
      /\ (\E k \in DOMAIN calls : ~calls[k].sound) <=> Unreadable(h, i)
  BY <1>1, <1>4, <1>5, <1>6, FlushedCalls DEF Unreadable
<1>8. IsChunk(h, i) <=> m.kind = "line" /\ (m.text \/ m.final)
                        /\ (m.final => ~\E k \in DOMAIN calls : ~calls[k].sound)
  BY <1>1, <1>7 DEF IsChunk
<1>9. ChunkAt(h, i) = [at |-> i, calls |-> IF m.final THEN Flush(calls) ELSE <<>>]
  BY <1>1, <1>7 DEF ChunkAt
<1>s. s \in Seq(Items)
  BY DEF s
<1>10. CASE m.kind # "line" \/ (m.final /\ \E k \in DOMAIN calls : ~calls[k].sound)
  <2>1. u = s
    BY <1>4, <1>8, <1>10
  <2>2. o = Broken \/ (o = Outcome(<<>>, calls, FALSE) /\ m.kind = "line" /\ ~m.final)
    BY <1>10 DEF DecodeOpenAI, calls, o
  <2>3. o = Broken
    BY <1>10, <2>2
  <2>4. Adding(s, o, u) /\ o.ends
    <3>1. Adding(s, Broken, s)
      BY <1>s, AddsNothing
    <3>2. Broken.ends
      BY DEF Broken, Outcome
    <3>3. QED
      BY <2>1, <2>3, <3>1, <3>2
  <2>5. QED
    BY <2>4 DEF o, s, u, i
<1>11. CASE m.kind = "line" /\ ~m.text /\ ~m.final
  <2>1. u = s
    BY <1>4, <1>8, <1>11
  <2>2. o = Outcome(<<>>, calls, FALSE)
    BY <1>11 DEF DecodeOpenAI, calls, o
  <2>3. Adding(s, o, u)
    BY <1>s, <2>1, <2>2, AddsNothing
  <2>4. CallsKept(h, OpenPlaces(h), o.kept)
    <3>1. o.kept = calls
      BY <2>2 DEF Outcome
    <3>2. QED
      BY <1>4, <1>5, <1>11, <3>1
  <2>5. QED
    BY <2>3, <2>4 DEF o, s, u, i
<1>12. CASE m.kind = "line" /\ m.text /\ ~m.final
  <2> DEFINE c == [at |-> i, calls |-> <<>>]
  <2>1. c = ChunkAt(h, i) /\ u = Append(s, ChunkAt(h, i))
    BY <1>4, <1>8, <1>9, <1>12
  <2>2. o = Outcome(<<c>>, calls, FALSE)
    BY <1>12 DEF DecodeOpenAI, calls, o
  <2>3. c \in Items
    <3>1. <<>> \in Seq(Seq(Nat))
      OBVIOUS
    <3>2. QED
      BY <1>1, <3>1 DEF Items
  <2> HIDE DEF c
  <2>4. Said(s, <<c>>, u)
    BY <1>s, <2>1, <2>3, SaysOne
  <2>5. o.items = <<c>> /\ o.kept = calls
    BY <2>2 DEF Outcome
  <2>6. Adding(s, o, u)
    BY <2>4, <2>5 DEF Adding
  <2>7. CallsKept(h, OpenPlaces(h), o.kept)
    BY <1>4, <1>5, <1>12, <2>5
  <2>8. QED
    BY <2>6, <2>7 DEF o, s, u, i
<1>13. CASE m.kind = "line" /\ m.final /\ ~\E k \in DOMAIN calls : ~calls[k].sound
  <2> DEFINE c == [at |-> i, calls |-> Flush(calls)]
  <2>1. c = ChunkAt(h, i) /\ u = Append(s, ChunkAt(h, i))
    BY <1>4, <1>8, <1>9, <1>13
  <2>2. o = Outcome(<<c>>, <<>>, FALSE)
    BY <1>13 DEF DecodeOpenAI, calls, o
  <2>3. c \in Items
    <3>1. Flush(calls) \in Seq(Seq(Nat))
      <4>1. \A k \in DOMAIN calls : calls[k].parts \in Seq(Nat)
        <5>1. ASSUME NEW k \in DOMAIN calls PROVE calls[k].parts \in Seq(Nat)
          <6>1. calls[k] \in Call
            BY <1>5
          <6>2. QED
            BY <6>1 DEF Call
        <5>2. QED
          BY <5>1
      <4>2. DOMAIN calls = 1..Len(calls) /\ Len(calls) \in Nat
        BY <1>5
      <4>3. QED
        BY <4>1, <4>2 DEF Flush
    <3>2. QED
      BY <1>1, <3>1 DEF Items
  <2> HIDE DEF c
  <2>4. Said(s, <<c>>, u)
    BY <1>s, <2>1, <2>3, SaysOne
  <2>5. o.items = <<c>> /\ o.kept = <<>>
    BY <2>2 DEF Outcome
  <2>6. Adding(s, o, u)
    BY <2>4, <2>5 DEF Adding
  <2>7. CallsKept(h, {}, <<>>)
    <3>1. FirstsIn(h, {}) = {}
      BY DEF FirstsIn
    <3>2. Cardinality({}) = 0 /\ Len(<<>>) = 0
      BY FS_EmptySet
    <3>3. \A k \in 1..0 : FALSE
      OBVIOUS
    <3>4. QED
      BY <3>1, <3>2, <3>3 DEF CallsKept
  <2>8. QED
    BY <1>4, <1>13, <2>5, <2>6, <2>7 DEF o, s, u, i
<1>14. QED
  BY <1>10, <1>11, <1>12, <1>13

-----------------------------------------------------------------------------
(* Every decoder, and the stream.                                          *)

\* What a decoder keeps is what the messages read so far have left open.
KeptIs(g, k) == /\ Decodes("openai") => CallsKept(g, OpenPlaces(g), k)
                /\ Decodes("sse") => EventsKept(g, k)
                /\ Decodes("pcm") => FramesKept(g, k)
                /\ IsMock => g = <<>>

\* The kinds of event lines and of PCM messages.
LEMMA LinesOfMessages ==
    ASSUME NEW m
    PROVE  /\ m \in SSEMessages /\ m.kind = "event" => m.n # 0
           /\ m \in PCMMessages => /\ m.kind = "audio" => m.n \in 1..2
                                   /\ m.kind \in {"audio", "sentence", "finished", "failed", "other"}
<1>1. m \in SSEMessages /\ m.kind = "event" => m.n # 0
  <2>1. ASSUME m \in MessagesOf({"event"}, 1..3, {TRUE}) PROVE m.n # 0
    <3>1. m.n \in 1..3
      BY <2>1, FieldsOfMessages, Zenon DEF MessagesOf
    <3>2. QED
      BY <3>1
  <2>2. ASSUME m \in MessagesOf({"data"}, 0..3, {TRUE}) PROVE m.kind = "data"
    <3>1. m.kind \in {"data"}
      BY <2>2, FieldsOfMessages, Zenon DEF MessagesOf
    <3>2. QED
      BY <3>1
  <2>3. ASSUME m \in MessagesOf({"blank", "eof"}, {0}, {TRUE}) PROVE m.kind \in {"blank", "eof"}
    BY <2>3, FieldsOfMessages, Zenon DEF MessagesOf
  <2>4. QED
    BY <2>1, <2>2, <2>3 DEF SSEMessages
<1>2. ASSUME m \in PCMMessages
      PROVE  /\ m.kind = "audio" => m.n \in 1..2
             /\ m.kind \in {"audio", "sentence", "finished", "failed", "other"}
  <2> DEFINE kinds == {"other", "finished", "failed"}
  <2>1. m \in MessagesOf({"audio"}, 1..2, BOOLEAN) => m.kind \in {"audio"} /\ m.n \in 1..2
    BY FieldsOfMessages, Zenon DEF MessagesOf
  <2>2. m \in MessagesOf(kinds, {0}, {TRUE}) => m.kind \in kinds
    <3> HIDE DEF kinds
    <3>1. QED
      BY FieldsOfMessages, Zenon DEF MessagesOf
  <2>3. m \in MessagesOf({"sentence"}, {0}, {TRUE}) => m.kind \in {"sentence"}
    BY FieldsOfMessages, Zenon DEF MessagesOf
  <2>4. m \in MessagesOf({"finished"}, {0}, {FALSE}) => m.kind \in {"finished"}
    BY FieldsOfMessages, Zenon DEF MessagesOf
  <2>5. \/ m \in MessagesOf({"audio"}, 1..2, BOOLEAN) \/ m \in MessagesOf(kinds, {0}, {TRUE})
        \/ m \in MessagesOf({"sentence"}, {0}, {TRUE}) \/ m \in MessagesOf({"finished"}, {0}, {FALSE})
    BY <1>2, Zenon DEF PCMMessages, AudioMessages
  <2>6. QED
    BY <2>1, <2>2, <2>3, <2>4, <2>5
<1>3. QED
  BY <1>1, <1>2

\* What a history of a client's messages consists of.
LEMMA LinesAre ==
    ASSUME NEW g \in Seq(Messages)
    PROVE  /\ \A j \in 1..Len(g) : IsMessage(g[j])
           /\ Decodes("openai") => OpenAILines(g)
           /\ Decodes("sse") => SSELines(g)
           /\ Decodes("pcm") => PCMLines(g)
<1>1. \A j \in 1..Len(g) : g[j] \in Messages
  OBVIOUS
<1>2. \A j \in 1..Len(g) : IsMessage(g[j])
  BY <1>1, MessagesAreTyped
<1>3. ASSUME Decodes("openai") PROVE OpenAILines(g)
  <2>1. Messages = OpenAIMessages
    BY <1>3, Zenon DEF Messages, Decodes, IsMock
  <2>2. QED
    BY <1>1, <1>2, <2>1, KindsAreKnown DEF OpenAILines
<1>4. ASSUME Decodes("sse") PROVE SSELines(g)
  <2>1. Messages = SSEMessages
    BY <1>4, Zenon DEF Messages, Decodes, IsMock
  <2>2. QED
    BY <1>1, <1>2, <2>1, KindsAreKnown, LinesOfMessages DEF SSELines, IsMessage
<1>5. ASSUME Decodes("pcm") PROVE PCMLines(g)
  <2>1. Messages = PCMMessages
    BY <1>5, Zenon DEF Messages, Decodes, IsMock
  <2>2. QED
    BY <1>1, <1>2, <2>1, LinesOfMessages DEF PCMLines, IsMessage
<1>6. QED
  BY <1>2, <1>3, <1>4, <1>5

\* What one message is decoded to is what it adds to the meaning of the
\* history, and what is kept then is what the longer history has left open.
LEMMA DecodeAdds ==
    ASSUME provider \in DOMAIN ClientOf, kept \in KeptType,
           NEW g \in Seq(Messages), NEW m \in Messages, KeptIs(g, kept), Meaning(g) \in Seq(Items)
    PROVE  /\ Adding(Meaning(g), Decode(m, Len(g) + 1), Meaning(Append(g, m)))
           /\ ~Decode(m, Len(g) + 1).ends => KeptIs(Append(g, m), Decode(m, Len(g) + 1).kept)
<1> DEFINE h == Append(g, m)
           i == Len(g) + 1
<1>1. h \in Seq(Messages) /\ Grown(h, g, m) /\ IsMessage(m) /\ i \in Nat
  BY HistoryGrows, MessagesAreTyped
<1>n. i = Len(g) + 1
  OBVIOUS
<1> HIDE DEF h, i
<1>2. CASE Decodes("openai")
  <2>1. Decode(m, i) = DecodeOpenAI(m, i) /\ Meaning(g) = MeaningOpenAI(g) /\ Meaning(h) = MeaningOpenAI(h)
    BY <1>2, Zenon DEF Decode, Meaning, Decodes, IsMock
  <2>2. OpenAILines(h) /\ CallsKept(g, OpenPlaces(g), kept)
    BY <1>1, <1>2, LinesAre DEF KeptIs
  <2>3. \A k : CallsKept(h, OpenPlaces(h), k) => KeptIs(h, k)
    BY <1>2 DEF KeptIs, Decodes, IsMock
  <2>4. QED
    BY <1>1, <1>2, <1>n, <2>1, <2>2, <2>3, OpenAIAdds DEF h
<1>3. CASE Decodes("sse")
  <2>1. Decode(m, i) = DecodeSSE(m, i) /\ Meaning(g) = MeaningSSE(g) /\ Meaning(h) = MeaningSSE(h)
    BY <1>3, Zenon DEF Decode, Meaning, Decodes, IsMock
  <2>2. SSELines(g) /\ SSELines(h) /\ EventsKept(g, kept)
    BY <1>1, <1>3, LinesAre DEF KeptIs
  <2>3. \A k : EventsKept(h, k) => KeptIs(h, k)
    BY <1>3 DEF KeptIs, Decodes, IsMock
  <2>4. QED
    BY <1>1, <1>3, <1>n, <2>1, <2>2, <2>3, SSEAdds DEF h
<1>4. CASE Decodes("pcm")
  <2>1. Decode(m, i) = DecodePCM(m, i) /\ Meaning(g) = MeaningPCM(g) /\ Meaning(h) = MeaningPCM(h)
    BY <1>4, Zenon DEF Decode, Meaning, Decodes, IsMock
  <2>2. PCMLines(g) /\ PCMLines(h) /\ FramesKept(g, kept)
    BY <1>1, <1>4, LinesAre DEF KeptIs
  <2>3. \A k : FramesKept(h, k) => KeptIs(h, k)
    BY <1>4 DEF KeptIs, Decodes, IsMock
  <2>4. QED
    BY <1>1, <1>4, <1>n, <2>1, <2>2, <2>3, PCMAdds DEF h
<1>5. ASSUME ~Decodes("openai"), ~Decodes("sse"), ~Decodes("pcm"), ~IsMock, NEW k PROVE KeptIs(h, k)
  BY <1>5 DEF KeptIs
<1>6. CASE Decodes("delta") \/ Decodes("hex")
  <2>1. Meaning(g) = MeaningAudio(g) /\ Meaning(h) = MeaningAudio(h)
    BY <1>6, Zenon DEF Meaning, Decodes, IsMock
  <2>2. Decode(m, i) = DecodeDelta(m, i) \/ Decode(m, i) = DecodeHex(m, i)
    BY <1>6, Zenon DEF Decode, Decodes, IsMock
  <2>3. \A j \in 1..Len(g) : IsMessage(g[j])
    BY LinesAre
  <2>4. Adding(Meaning(g), Decode(m, i), Meaning(h))
    BY <1>1, <1>n, <2>1, <2>2, <2>3, AudioAdds
  <2>5. KeptIs(h, Decode(m, i).kept)
    BY <1>5, <1>6 DEF Decodes, IsMock
  <2>6. QED
    BY <1>n, <2>4, <2>5 DEF h
<1>7. CASE Decodes("sentence") \/ Decodes("transcript")
  <2>1. Meaning(g) = Sorted(Heard(g)) /\ Meaning(h) = Sorted(Heard(h))
    BY <1>7, Zenon DEF Meaning, Decodes, IsMock, Heard
  <2>2. Decode(m, i) = DecodeSentence(m, i) \/ Decode(m, i) = DecodeTranscript(m, i)
    BY <1>7, Zenon DEF Decode, Decodes, IsMock
  <2>3. Adding(Meaning(g), Decode(m, i), Meaning(h))
    BY <1>1, <1>n, <2>1, <2>2, TranscriptAdds
  <2>4. KeptIs(h, Decode(m, i).kept)
    BY <1>5, <1>7 DEF Decodes, IsMock
  <2>5. QED
    BY <1>n, <2>3, <2>4 DEF h
<1>8. CASE IsMock
  <2>1. Decode(m, i) = Outcome(MockItems, kept, TRUE)
    BY <1>8, Zenon DEF Decode, Decodes, IsMock
  <2>2. Meaning(g) = <<>> /\ Meaning(h) = MockItems
    <3>1. g = <<>> /\ h # <<>>
      <4>1. h # <<>>
        BY DEF h
      <4>2. g = <<>>
        BY <1>8, Zenon DEF KeptIs
      <4>3. QED
        BY <4>1, <4>2
    <3>2. \A x : Meaning(x) = IF x = <<>> THEN <<>> ELSE MockItems
      BY <1>8, Zenon DEF Meaning, Decodes, IsMock
    <3>3. QED
      BY <3>1, <3>2
  <2>3. MockItems \in Seq(Items) /\ <<>> \in Seq(Items) /\ <<>> \o MockItems = MockItems
    BY ItemsAreItems, BoundsAssumption
  <2>4. Decode(m, i).items = MockItems /\ Decode(m, i).ends = TRUE
    <3>1. Outcome(MockItems, kept, TRUE).items = MockItems
      BY DEF Outcome
    <3>2. Outcome(MockItems, kept, TRUE).ends = TRUE
      BY Zenon DEF Outcome
    <3>3. QED
      BY <2>1, <3>1, <3>2, Zenon
  <2>5. Adding(Meaning(g), Decode(m, i), Meaning(h))
    BY <2>2, <2>3, <2>4 DEF Adding, Said
  <2>6. QED
    BY <1>n, <2>4, <2>5 DEF h
<1>9. Decodes("openai") \/ Decodes("sse") \/ Decodes("pcm") \/ Decodes("delta")
      \/ Decodes("hex") \/ Decodes("sentence") \/ Decodes("transcript") \/ IsMock
  BY ClientsAreSound DEF Self, ClientFacts, Decodes, IsMock
<1>10. QED
  BY <1>2, <1>3, <1>4, <1>6, <1>7, <1>8, <1>9

\* Before the first message nothing is meant and nothing is open.
LEMMA EmptyHistory == ASSUME provider \in DOMAIN ClientOf PROVE Meaning(<<>>) = <<>> /\ KeptIs(<<>>, Begins)
<1> DEFINE g == <<>>
<1>1. Len(g) = 0 /\ DOMAIN g = {} /\ \A k : k \in 1..0 <=> FALSE
  OBVIOUS
<1>2. Cardinality({}) = 0
  BY FS_EmptySet
<1>3. \A order : InOrder({}, order) = <<>>
  BY <1>2 DEF InOrder
<1>4. \A S : S = {} => Joined(g, S) = <<>>
  <2>1. PiecesAt(g, {}) = {}
    BY DEF PiecesAt
  <2>2. QED
    BY <1>3, <2>1 DEF Joined
<1> HIDE DEF g
<1>5. HalvesOf(g) = <<>>
  <2>1. CountedAt(g) = {}
    BY <1>1 DEF CountedAt
  <2>2. QED
    BY <1>4, <2>1 DEF HalvesOf
<1>6. MeaningOpenAI(g) = <<>>
  <2>1. 0 \in Nat /\ DOMAIN g = 1..0
    BY <1>1
  <2>2. MeaningOpenAI(g) = Mapped(ChunksOf(g), Chunks(g))
    BY <2>1, MeaningOpenAIIs
  <2>3. Chunks(g) = {}
    BY <1>1 DEF Chunks
  <2>4. QED
    BY <1>2, <2>2, <2>3 DEF Mapped
<1>7. MeaningSSE(g) = <<>>
  <2>1. EventPlaces(g) = {}
    BY <1>1 DEF EventPlaces
  <2>2. QED
    BY <2>1, MeaningSSEIs, SortedEmpty
<1>8. MeaningPCM(g) = <<>>
  <2>1. HowMany(g) = 0
    <3>1. ~IsEnded(g) /\ 0 \div 2 = 0
      BY DEF IsEnded, g
    <3>2. QED
      BY <1>1, <1>5, <3>1 DEF HowMany, g
  <2>2. FramesHeard(g) = {}
    BY <1>1, <2>1 DEF FramesHeard
  <2>3. QED
    <3>1. MeaningPCM(g) = FramesAt(HalvesOf(g), {})
      BY <2>2, MeaningPCMIs
    <3>2. QED
      BY <1>2, <3>1 DEF FramesAt
<1>9. MeaningAudio(g) = <<>>
  <2>1. AudioAt(g) = {}
    BY <1>1 DEF AudioAt
  <2>2. QED
    BY <1>4, <2>1 DEF MeaningAudio, AudioAt
<1>10. Sorted(Heard(g)) = <<>>
  <2>1. Heard(g) = {}
    BY <1>1 DEF Heard
  <2>2. QED
    BY <2>1, SortedEmpty
<1>g. g = <<>>
  BY DEF g
<1>11. Meaning(g) = <<>>
  BY <1>6, <1>7, <1>8, <1>9, <1>10, <1>g, Zenon DEF Meaning, Heard
<1>12. CallsKept(g, OpenPlaces(g), <<>>)
  <2>1. FinalsBefore(g, 1) = {}
    <3>1. \A k : k \in 1..(1 - 1) <=> FALSE
      OBVIOUS
    <3>2. QED
      BY <3>1 DEF FinalsBefore
  <2>2. OpenPlaces(g) = {}
    <3>1. Len(g) + 1 = 1
      BY <1>1
    <3>2. QED
      BY <1>1, <2>1, <3>1 DEF OpenPlaces, Start
  <2>3. FirstsIn(g, {}) = {}
    BY DEF FirstsIn
  <2>4. Len(<<>>) = 0
    OBVIOUS
  <2>5. QED
    BY <1>1, <1>2, <2>2, <2>3, <2>4 DEF CallsKept
<1>13. EventsKept(g, [type |-> 0, data |-> <<>>])
  <2>1. EventLines(g) = {}
    BY <1>1 DEF EventLines
  <2>2. Len(<<>>) = 0
    OBVIOUS
  <2>3. QED
    BY <1>1, <2>1, <2>2 DEF EventsKept
<1>14. FramesKept(g, [expect |-> FALSE, halves |-> <<>>])
  <2>1. ~Expects(g, Len(g) + 1)
    <3>1. \A k : k \in 1..((Len(g) + 1) - 1) <=> FALSE
      BY <1>1
    <3>2. SaidBefore(g, Len(g) + 1) = {}
      BY <3>1 DEF SaidBefore
    <3>3. QED
      BY <3>2 DEF Expects
  <2>2. Rest(<<>>, HalvesOf(g), 0)
    <3>1. <<>> \in Seq(Halves) /\ Len(<<>>) = 0 /\ 0 = 2 * 0 + 0
      OBVIOUS
    <3>2. QED
      BY <1>1, <1>5, <3>1 DEF Rest
  <2>3. ~IsEnded(g)
    BY <1>g DEF IsEnded
  <2>4. Len(<<>>) <= 1 /\ 0 \in Nat
    OBVIOUS
  <2>5. QED
    BY <2>1, <2>2, <2>3, <2>4 DEF FramesKept
<1>15. KeptIs(g, Begins)
  <2>1. Decodes("openai") => Begins = <<>>
    BY Zenon DEF Begins, Decodes, IsMock
  <2>2. Decodes("sse") => Begins = [type |-> 0, data |-> <<>>]
    BY Zenon DEF Begins, Decodes, IsMock
  <2>3. Decodes("pcm") => Begins = [expect |-> FALSE, halves |-> <<>>]
    BY Zenon DEF Begins, Decodes, IsMock
  <2>4. QED
    BY <1>12, <1>13, <1>14, <1>g, <2>1, <2>2, <2>3 DEF KeptIs
<1>16. QED
  BY <1>11, <1>15, <1>g

\* The reader still decodes: it is not sending the last items of the stream.
StillReads == reader \in {"none", "top", "reading"} /\ ~(hand # <<>> /\ last)

ItemTypes == /\ meant \in Seq(Items) /\ events \in Seq(Items) /\ delivered \in Seq(Items)
             /\ ~IsASR => events = <<>>

\* The items a stream has made, sent or not.
Made == (delivered \o events) \o hand

\* What the messages meant is what was delivered, waits in the channel and is
\* in the reader's hand, as long as nobody has given the stream up.
StreamInv == /\ ItemTypes
             /\ meant = Meaning(got)
             /\ StillReads => KeptIs(got, kept)
             /\ ~Done => Made = meant

\* A step of a stream that leaves what was read alone leaves what it means alone.
LEMMA MeaningIsFixed ==
    ASSUME provider' = provider, got' = got
    PROVE  /\ Meaning(got)' = Meaning(got)
           /\ kept' = kept \/ IsMock => (KeptIs(got, kept)' <=> KeptIs(got, kept))
<1>1. Self' = Self
  BY DEF Self
<1>2. Meaning(got)' = Meaning(got)
  BY <1>1 DEF Meaning, Decodes, IsMock
<1>3. ASSUME kept' = kept \/ IsMock PROVE KeptIs(got, kept)' <=> KeptIs(got, kept)
  BY <1>1, <1>3 DEF KeptIs, Decodes, IsMock
<1>4. QED
  BY <1>2, <1>3

\* Nobody takes back that a stream was given up.
LEMMA DoneStays == ASSUME ControlInv, [Next]_vars PROVE Done => Done'
<1>1. provider' = provider /\ IsASR' = IsASR /\ (cancelled => cancelled')
  <2>1. provider' = provider /\ (cancelled => cancelled')
    BY DEF Next, CancelContext, OpeningNext, OpenRefused, Opens, Connected, DialFails, Writes,
           WriteFails, Started, NotStarted, Unwinds, Proceeds, ReaderNext, Top, Read, ReadFails,
           MockStops, Send, SendEvent, SentOne, Abandon, Leave, Receive, WatcherCloses, UserNext,
           AcceptLocked, AcceptShared, AcceptDecoded, AcceptUndecoded, AcceptChecks, AcceptWritten,
           AcceptMock, FinishLocked, FinishWritten, CloseMarks, CloseReleases, userFrame, callVars, vars
  <2>2. QED
    BY <2>1, ClientIsFixed
<1>2. \A c \in Closers : closing[c] = "done" => closing'[c] = "done"
  <2>1. CASE closing' = closing
    BY <2>1
  <2>2. CASE closing' # closing
    <3>1. PICK c \in Closers : CloseMarks(c) \/ CloseReleases(c)
      BY <2>2 DEF Next, CancelContext, OpeningNext, OpenRefused, Opens, Connected, DialFails, Writes,
           WriteFails, Started, NotStarted, Unwinds, Proceeds, ReaderNext, Top, Read, ReadFails,
           MockStops, Send, SendEvent, SentOne, Abandon, Leave, Receive, WatcherCloses, UserNext,
           AcceptLocked, AcceptShared, AcceptDecoded, AcceptUndecoded, AcceptChecks, AcceptWritten,
           AcceptMock, FinishLocked, FinishWritten, userVars, vars
    <3>2. closing[c] # "done"
      BY <3>1 DEF CloseMarks, CloseReleases, ControlInv, CloseIsMarked
    <3>3. \A d \in Closers : d # c => closing'[d] = closing[d]
      BY <3>1 DEF CloseMarks, CloseReleases, ControlInv, CloseIsMarked
    <3>4. QED
      BY <3>2, <3>3
  <2>3. QED
    BY <2>1, <2>2
<1>3. DOMAIN closing = Closers /\ DOMAIN closing' = Closers
  <2>1. ControlInv'
    BY ControlStep
  <2>2. QED
    BY <2>1 DEF ControlInv, CloseIsMarked
<1>4. QED
  BY <1>1, <1>2, <1>3 DEF Done

\* A step that moves no item.
LEMMA QuietStep ==
    ASSUME StreamInv, UNCHANGED <<provider, got, meant, hand, last, events, delivered>>,
           kept' = kept \/ IsMock, StillReads' => StillReads, Done => Done'
    PROVE  StreamInv'
<1>1. ItemTypes' /\ Made' = Made
  BY ClientIsFixed DEF StreamInv, ItemTypes, Made
<1>2. meant' = Meaning(got)'
  BY MeaningIsFixed DEF StreamInv
<1>3. StillReads' => KeptIs(got, kept)'
  BY MeaningIsFixed DEF StreamInv
<1>4. QED
  BY <1>1, <1>2, <1>3 DEF StreamInv

\* A stream begins with nothing said and nothing kept.
LEMMA InitStream == Init => StreamInv
<1> SUFFICES ASSUME Init PROVE StreamInv
  OBVIOUS
<1>1. Meaning(<<>>) = <<>> /\ KeptIs(<<>>, Begins)
  BY EmptyHistory, ProvidersAssumption DEF Init
<1>2. meant = Meaning(got) /\ KeptIs(got, kept)
  BY <1>1, Zenon DEF Init
<1>3. ItemTypes
  BY DEF Init, ItemTypes
<1>4. Made = <<>> /\ meant = <<>>
  BY DEF Init, Made
<1>5. QED
  BY <1>2, <1>3, <1>4 DEF StreamInv

\* What is read is what it means that comes into the hand.
LEMMA ReadStep ==
    ASSUME ControlInv, StreamInv, NEW m \in Messages, Read(m), Done => Done' PROVE StreamInv'
<1> DEFINE outcome == Decode(m, Len(got) + 1)
           g == got
<1>1. provider \in DOMAIN ClientOf /\ kept \in KeptType /\ got \in Seq(Messages)
  BY DEF ControlInv, ControlTypes, ReadTypes
<1>2. KeptIs(got, kept) /\ Meaning(got) \in Seq(Items) /\ meant = Meaning(got)
  BY DEF Read, StreamInv, StillReads, ItemTypes
<1>3. /\ Adding(Meaning(got), outcome, Meaning(Append(got, m)))
      /\ ~outcome.ends => KeptIs(Append(got, m), outcome.kept)
  BY <1>1, <1>2, DecodeAdds
<1>4. provider' = provider /\ got' = Append(got, m) /\ kept' = outcome.kept /\ hand' = outcome.items
      /\ last' = outcome.ends /\ UNCHANGED <<events, delivered>> /\ hand = <<>>
      /\ reader' = (IF outcome.items = <<>> THEN Then(outcome.ends) ELSE reader)
  BY DEF Read, callVars
<1> HIDE DEF outcome
<1>5. meant' = Meaning(Append(got, m)) /\ meant' = Meaning(got)'
  <2>1. meant' = Meaning(got')
    BY DEF Read
  <2>2. Meaning(got') = Meaning(got)'
    <3>1. Self' = Self
      BY <1>4 DEF Self
    <3>2. QED
      BY <3>1 DEF Meaning, Decodes, IsMock
  <2>3. QED
    BY <1>4, <2>1, <2>2, Zenon
<1>6. Said(meant, hand', meant')
  BY <1>2, <1>3, <1>4, <1>5 DEF Adding
<1>7. meant' \in Seq(Items) /\ hand' \in Seq(Items) /\ meant' = meant \o hand'
  BY <1>6 DEF Said
<1>8. ItemTypes'
  BY <1>4, <1>7, ClientIsFixed DEF StreamInv, ItemTypes
<1>9. ASSUME StillReads' PROVE KeptIs(got, kept)'
  <2>1. ~outcome.ends
    BY <1>4, <1>9 DEF StillReads, Then
  <2>2. KeptIs(got', kept')
    BY <1>3, <1>4, <2>1, Zenon
  <2>3. QED
    BY <1>4, <2>2, ClientIsFixed DEF KeptIs, Decodes
<1>10. ~Done => Made' = meant'
  <2>1. Made = delivered \o events /\ Made' = (delivered \o events) \o hand'
    <3>1. delivered \o events \in Seq(Items)
      BY DEF StreamInv, ItemTypes
    <3>2. QED
      BY <1>4, <3>1 DEF Made
  <2>2. QED
    BY <1>7, <2>1 DEF StreamInv
<1>11. QED
  BY <1>5, <1>8, <1>9, <1>10 DEF StreamInv

\* The head of what is to be sent goes behind what was.
LEMMA OneMoves ==
    ASSUME NEW a \in Seq(Items), NEW b \in Seq(Items), b # <<>>
    PROVE  /\ Append(a, Head(b)) \o Tail(b) = a \o b
           /\ Append(a, Head(b)) \in Seq(Items) /\ Tail(b) \in Seq(Items)
<1>1. Head(b) \in Items /\ Tail(b) \in Seq(Items) /\ b = <<Head(b)>> \o Tail(b)
  OBVIOUS
<1>2. Append(a, Head(b)) = a \o <<Head(b)>> /\ Append(a, Head(b)) \in Seq(Items)
  BY <1>1
<1>3. (a \o <<Head(b)>>) \o Tail(b) = a \o (<<Head(b)>> \o Tail(b))
  BY <1>1, ConcatAssociative
<1>4. QED
  BY <1>1, <1>2, <1>3

\* An item that is sent or received leaves what is made as it is.
LEMMA MoveStep ==
    ASSUME ControlInv, StreamInv, Send \/ SendEvent \/ Receive, Done => Done'
    PROVE  StreamInv' /\ Made' = Made
<1>1. UNCHANGED <<provider, got, meant, kept, last>>
  BY DEF Send, SendEvent, Receive, SentOne, callVars, readVars
<1>2. delivered \in Seq(Items) /\ events \in Seq(Items) /\ hand \in Seq(Items)
  BY DEF ControlInv, ReadTypes, StreamInv, ItemTypes
<1>3. Made' = Made /\ ItemTypes'
  <2>1. CASE Send
    <3>1. events = <<>> /\ events' = <<>> /\ delivered' = Append(delivered, Head(hand)) /\ hand' = Tail(hand)
          /\ hand # <<>>
      BY <2>1 DEF Send, SentOne, StreamInv, ItemTypes
    <3>2. Made = delivered \o hand /\ Made' = delivered' \o hand' /\ delivered' \in Seq(Items)
      BY <1>2, <3>1, OneMoves DEF Made
    <3>3. QED
      BY <1>1, <1>2, <3>1, <3>2, OneMoves, ClientIsFixed DEF StreamInv, ItemTypes
  <2>2. CASE SendEvent
    <3>1. delivered' = delivered /\ events' = Append(events, Head(hand)) /\ hand' = Tail(hand) /\ hand # <<>>
          /\ IsASR
      BY <2>2 DEF SendEvent, SentOne
    <3>2. Made = delivered \o (events \o hand) /\ Made' = delivered \o (events' \o hand')
      <4>1. events' \in Seq(Items) /\ hand' \in Seq(Items)
        BY <1>2, <3>1, OneMoves
      <4>2. \A e, k \in Seq(Items) : (delivered \o e) \o k = delivered \o (e \o k)
        BY <1>2, ConcatAssociative, SMTT(60)
      <4>3. Made' = (delivered \o events') \o hand'
        BY <3>1 DEF Made
      <4>4. QED
        BY <1>2, <4>1, <4>2, <4>3 DEF Made
    <3>3. QED
      BY <1>1, <1>2, <3>1, <3>2, OneMoves, ClientIsFixed DEF StreamInv, ItemTypes
  <2>3. CASE Receive
    <3>1. hand' = hand /\ delivered' = Append(delivered, Head(events)) /\ events' = Tail(events) /\ events # <<>>
      BY <2>3 DEF Receive, readVars
    <3>2. QED
      BY <1>1, <1>2, <3>1, OneMoves, ClientIsFixed DEF StreamInv, ItemTypes, Made
  <2>4. QED
    BY <2>1, <2>2, <2>3
<1>4. StillReads' => StillReads
  <2>1. hand' # <<>> => hand # <<>> 
    BY <1>2 DEF Send, SendEvent, Receive, SentOne, readVars
  <2>2. ControlInv
    OBVIOUS
  <2>3. CASE Receive
    BY <2>3 DEF Receive, readVars, StillReads
  <2>4. CASE Send \/ SendEvent
    <3>1. hand # <<>> /\ reader = "reading" /\ hand' = Tail(hand)
          /\ reader' = IF Len(hand) = 1 THEN Then(last) ELSE reader
      BY <2>4 DEF Send, SendEvent, SentOne, ControlInv, ReadTypes
    <3>2. CASE Len(hand) = 1
      BY <1>1, <3>1, <3>2 DEF StillReads, Then
    <3>3. CASE Len(hand) # 1
      <4>1. hand' # <<>>
        <5>1. Len(Tail(hand)) = Len(hand) - 1 /\ Len(hand) \in Nat /\ Len(hand) # 0
          BY <1>2, <3>1
        <5>2. Len(Tail(hand)) # 0
          BY <3>3, <5>1
        <5>3. Len(<<>>) = 0 /\ hand' = Tail(hand)
          BY <3>1
        <5>4. QED
          BY <5>2, <5>3, Zenon
      <4>2. QED
        BY <1>1, <3>1, <4>1 DEF StillReads
    <3>4. QED
      BY <3>2, <3>3
  <2>5. QED
    BY <2>3, <2>4
<1>5. StillReads' => KeptIs(got, kept)'
  BY <1>1, <1>4, MeaningIsFixed DEF StreamInv
<1>6. meant' = Meaning(got)'
  BY <1>1, MeaningIsFixed DEF StreamInv
<1>7. QED
  BY <1>1, <1>3, <1>5, <1>6 DEF StreamInv

\* What is given up may be dropped; the decoder goes on from what it kept.
LEMMA AbandonStep == ASSUME ControlInv, StreamInv, Abandon, Done => Done' PROVE StreamInv'
<1>1. UNCHANGED <<provider, got, meant, kept, last, events, delivered>> /\ Done'
  BY DEF Abandon, callVars
<1>2. StillReads' => StillReads
  BY <1>1 DEF Abandon, StillReads, Then, ControlInv, ReadTypes
<1>3. StillReads' => KeptIs(got, kept)'
  BY <1>1, <1>2, MeaningIsFixed DEF StreamInv
<1>4. meant' = Meaning(got)' /\ ItemTypes'
  BY <1>1, MeaningIsFixed, ClientIsFixed DEF StreamInv, ItemTypes
<1>5. QED
  BY <1>1, <1>3, <1>4 DEF StreamInv

\* Every other step moves no item.
Moves == \/ \E m \in Messages : Read(m)
         \/ Send \/ SendEvent \/ Receive \/ Abandon

\* A step that is not the reader's or the receiver's moves no item.
LEMMA OtherStepsAreQuiet ==
    ASSUME ControlInv, [Next]_vars, ~Moves
    PROVE  /\ UNCHANGED <<provider, got, meant, hand, last, events, delivered>>
           /\ kept' = kept \/ IsMock
           /\ StillReads' => StillReads
<1>1. CASE CancelContext \/ WatcherCloses \/ UNCHANGED vars
  BY <1>1 DEF CancelContext, WatcherCloses, vars, callVars, readVars, StillReads
<1>2. CASE OpeningNext
  <2>1. CASE OpenRefused \/ DialFails \/ WriteFails \/ NotStarted \/ Opens
    BY <2>1 DEF OpenRefused, DialFails, WriteFails, NotStarted, Opens, Unwinds, readVars, StillReads
  <2>2. CASE Connected \/ Writes \/ Started
    <3>1. Proceeds /\ reader = "none"
      BY <2>2, PlaceIsAStep DEF Connected, Writes, Started, ControlInv, ControlTypes
    <3>2. QED
      BY <3>1 DEF Proceeds, StillReads
  <2>3. QED
    BY <1>2, <2>1, <2>2 DEF OpeningNext
<1>3. CASE ReaderNext
  <2>1. Top \/ ReadFails \/ MockStops \/ Leave
    BY <1>3 DEF ReaderNext, Moves
  <2>2. QED
    BY <2>1 DEF Top, ReadFails, MockStops, Leave, callVars, StillReads
<1>4. CASE UserNext
  BY <1>4 DEF UserNext, AcceptLocked, AcceptShared, AcceptDecoded, AcceptUndecoded, AcceptChecks,
         AcceptWritten, AcceptMock, FinishLocked, FinishWritten, CloseMarks, CloseReleases,
         userFrame, callVars, StillReads
<1>5. QED
  BY <1>1, <1>2, <1>3, <1>4 DEF Next, Moves

\* Every step keeps what is delivered and what is kept true to what was read.
LEMMA StreamStep == ASSUME ControlInv, StreamInv, [Next]_vars PROVE StreamInv'
<1>1. Done => Done'
  BY DoneStays
<1>2. CASE Moves
  BY <1>1, <1>2, ReadStep, MoveStep, AbandonStep DEF Moves
<1>3. CASE ~Moves
  BY <1>1, <1>3, QuietStep, OtherStepsAreQuiet
<1>4. QED
  BY <1>2, <1>3

\* The inductive invariant of what a stream delivers: what the decoder keeps
\* is what the messages read so far have left open, and what was delivered,
\* waits and is in hand is what they mean.
THEOREM StreamInvariant == Spec => []StreamInv
<1>1. ControlInv /\ StreamInv /\ [Next]_vars => StreamInv'
  BY StreamStep
<1>2. QED
  BY <1>1, InitStream, ControlInvariant, PTL DEF Spec

\* A stream whose reader has ended without anybody giving it up has left
\* nothing out, whatever the service sent and however it was cut
\* (readTTSFrames, readLoop, ReadLLMStream).
THEOREM StreamsAreComplete == Spec => []NothingIsDropped
<1>1. ControlInv /\ StreamInv => NothingIsDropped
  <2> SUFFICES ASSUME ControlInv, StreamInv, reader = "gone", ~cancelled, ~closed
               PROVE  delivered \o events = meant
    BY DEF NothingIsDropped
  <2>1. hand = <<>> /\ ~Done
    BY DEF ControlInv, ReadTypes, CloseIsMarked, Done
  <2>2. delivered \o events \in Seq(Items)
    BY DEF StreamInv, ItemTypes
  <2>3. QED
    BY <2>1, <2>2 DEF StreamInv, Made
<1>2. QED
  BY <1>1, ControlInvariant, StreamInvariant, PTL

-----------------------------------------------------------------------------
(* No item twice, and the refinement of OrderedStream.                     *)

\* What is in an order is there once.
LEMMA InOrderIsDistinct ==
    ASSUME NEW S, IsFiniteSet(S), NEW order, IsOrder(order, S)
    PROVE  IsInjective(InOrder(S, order))
<1>1. /\ DOMAIN InOrder(S, order) = 1..Cardinality(S)
      /\ \A k \in 1..Cardinality(S) : Rank(order, S, InOrder(S, order)[k]) = k
  BY InOrderRanks
<1>2. QED
  BY <1>1 DEF IsInjective

\* No place is there twice.
LEMMA SortedIsDistinct ==
    ASSUME NEW n \in Nat, NEW S \in SUBSET (1..n)
    PROVE  IsInjective(Sorted(S))
  BY PlacesGrow, NatOrderIsOrder, SortedIs, InOrderIsDistinct

\* No piece is there twice.
LEMMA JoinedIsDistinct ==
    ASSUME NEW n \in Nat, NEW g, \A j \in 1..n : g[j].n \in 0..3, NEW S \in SUBSET (1..n)
    PROVE  IsInjective(Joined(g, S))
<1> DEFINE P == PiecesAt(g, S)
<1>1. P \in SUBSET ((1..n) \X (1..3)) /\ IsFiniteSet(P)
  BY PiecesAreFinite
<1> HIDE DEF P
<1>2. P \in SUBSET (Nat \X Nat)
  BY <1>1
<1>3. IsInjective(InOrder(P, Reading(P)))
  BY <1>1, <1>2, ReadingIsOrder, InOrderIsDistinct
<1>4. QED
  BY <1>3 DEF P, Joined

\* Different things made of a set, in its order, are there once.
LEMMA MappedIsDistinct ==
    ASSUME NEW n \in Nat, NEW S \in SUBSET (1..n), NEW f, \A i, j \in S : f[i] = f[j] => i = j
    PROVE  IsInjective(Mapped(f, S))
<1> DEFINE c == Cardinality(S)
           v == Sorted(S)
<1>1. IsFiniteSet(S) /\ S \in SUBSET Nat /\ IsInjective(v)
  BY PlacesGrow, SortedIsDistinct
<1>2. DOMAIN v = 1..c /\ \A k \in 1..c : v[k] \in S
  BY <1>1, SortedRanks
<1>3. Mapped(f, S) = [k \in 1..c |-> f[v[k]]]
  BY DEF Mapped
<1> HIDE DEF c, v
<1>4. ASSUME NEW j \in 1..c, NEW k \in 1..c, f[v[j]] = f[v[k]] PROVE j = k
  <2>1. v[j] = v[k]
    BY <1>2, <1>4
  <2>2. QED
    BY <1>1, <1>2, <2>1 DEF IsInjective
<1> DEFINE u == [k \in 1..c |-> f[v[k]]]
<1>5. DOMAIN u = 1..c /\ \A k \in 1..c : u[k] = f[v[k]]
  OBVIOUS
<1> HIDE DEF u
<1>6. IsInjective(u)
  BY <1>4, <1>5 DEF IsInjective
<1>7. QED
  BY <1>3, <1>6 DEF u

\* A chunk bears the place of its line.
LEMMA ChunksAreDistinct ==
    ASSUME NEW g, NEW n \in Nat, DOMAIN g = 1..n
    PROVE  IsInjective(MeaningOpenAI(g))
<1>1. Chunks(g) \in SUBSET (1..n)
  BY DEF Chunks
<1>2. \A i \in 1..n : ChunksOf(g)[i].at = i
  BY DEF ChunksOf, ChunkAt
<1>3. \A i, j \in Chunks(g) : ChunksOf(g)[i] = ChunksOf(g)[j] => i = j
  BY <1>1, <1>2
<1>4. QED
  BY <1>1, <1>3, MappedIsDistinct, MeaningOpenAIIs

\* A frame begins with a half of its own.
LEMMA FramesAreDistinct ==
    ASSUME NEW g, NEW n \in Nat, Len(g) = n, DOMAIN g = 1..n, \A j \in 1..n : g[j].n \in 0..3
    PROVE  IsInjective(MeaningPCM(g))
<1> DEFINE s == HalvesOf(g)
           q == HowMany(g)
           F == FramesHeard(g)
           frame == Frames(s)
<1>1. CountedAt(g) \in SUBSET (1..n)
  BY DEF CountedAt
<1>2. IsInjective(s)
  BY <1>1, JoinedIsDistinct DEF HalvesOf
<1>3. s \in Seq(Halves)
  <2> DEFINE P == PiecesAt(g, CountedAt(g))
  <2>1. P \in SUBSET ((1..n) \X (1..3)) /\ IsFiniteSet(P)
    BY <1>1, PiecesAreFinite
  <2>2. s = InOrder(P, Reading(P))
    BY DEF HalvesOf, Joined
  <2> HIDE DEF P, s
  <2>3. P \in SUBSET Halves
    BY <2>1 DEF Halves
  <2>4. Cardinality(P) \in Nat /\ IsOrder(Reading(P), P)
    BY <2>1, <2>3, FS_CardinalityType, ReadingIsOrder DEF Halves
  <2>5. s \in [1..Cardinality(P) -> P]
    BY <2>1, <2>2, <2>4, InOrderRanks
  <2>6. QED
    BY <2>3, <2>4, <2>5
<1> HIDE DEF s
<1>4. q \in Nat /\ \A k \in 1..q : 2 * k - 1 \in 1..Len(s)
  <2>1. q = IF IsEnded(g) THEN (Len(s) + 1) \div 2 ELSE Len(s) \div 2
    BY DEF HowMany, s
  <2>2. Len(s) \in Nat
    BY <1>3
  <2> DEFINE L == Len(s)
  <2> HIDE DEF q, L
  <2>3. L \in Nat /\ (q = (L + 1) \div 2 \/ q = L \div 2)
    BY <2>1, <2>2 DEF L
  <2>4. q \in Nat /\ \A k \in 1..q : 2 * k - 1 \in 1..L
    BY <2>3
  <2>5. QED
    BY <2>4 DEF L
<1>5. F \in SUBSET (1..q)
  BY DEF FramesHeard
<1> HIDE DEF q, F
<1>6. ASSUME NEW k \in 1..q PROVE frame[k][1] = s[2 * k - 1]
  <2> DEFINE a == 2 * k - 1
             b == IF 2 * k <= Len(s) THEN 2 * k ELSE Len(s)
  <2>1. a \in Int /\ b \in Int /\ a >= 1 /\ b <= Len(s) /\ a <= b /\ k \in Nat
        /\ 1 \in 1..(b - a + 1) /\ a + 1 - 1 = a
    BY <1>3, <1>4
  <2>2. frame[k] = SubSeq(s, a, b)
    BY <2>1 DEF FrameOf, Frames
  <2> HIDE DEF a, b
  <2>3. SubSeq(s, a, b)[1] = s[a + 1 - 1]
    BY <1>3, <2>1, PartOf
  <2>4. QED
    BY <2>1, <2>2, <2>3 DEF a
<1> HIDE DEF frame
<1>7. ASSUME NEW i \in 1..q, NEW j \in 1..q, frame[i] = frame[j] PROVE i = j
  <2>1. 2 * i - 1 \in 1..Len(s) /\ 2 * j - 1 \in 1..Len(s) /\ s[2 * i - 1] = s[2 * j - 1]
    BY <1>4, <1>6, <1>7
  <2>2. 2 * i - 1 = 2 * j - 1
    BY <1>2, <1>3, <2>1 DEF IsInjective
  <2>3. QED
    BY <1>4, <2>2
<1>8. IsInjective(Mapped(frame, F))
  BY <1>4, <1>5, <1>7, MappedIsDistinct
<1>9. Mapped(frame, F) = FramesAt(s, F)
  BY <1>4, <1>5, FramesAreMapped DEF frame
<1>10. QED
  BY <1>8, <1>9, MeaningPCMIs DEF s, F

\* No two items of a stream are the same.
LEMMA MeaningIsDistinct ==
    ASSUME provider \in DOMAIN ClientOf, NEW g \in Seq(Messages)
    PROVE  IsInjective(Meaning(g))
<1> DEFINE n == Len(g)
<1>1. n \in Nat /\ DOMAIN g = 1..n /\ \A j \in 1..n : g[j].n \in 0..3
  BY LinesAre DEF IsMessage
<1>n. Len(g) = n
  OBVIOUS
<1> HIDE DEF n
<1>2. IsInjective(MeaningOpenAI(g)) /\ IsInjective(MeaningPCM(g))
  BY <1>1, <1>n, ChunksAreDistinct, FramesAreDistinct
<1>3. IsInjective(MeaningSSE(g))
  <2>1. EventPlaces(g) \in SUBSET (1..n)
    BY <1>1 DEF EventPlaces
  <2>2. QED
    BY <1>1, <2>1, MeaningSSEIs, SortedIsDistinct
<1>4. IsInjective(MeaningAudio(g))
  <2>1. AudioAt(g) \in SUBSET (1..n)
    BY <1>1 DEF AudioAt
  <2>2. QED
    BY <1>1, <2>1, JoinedIsDistinct DEF MeaningAudio, AudioAt
<1>5. IsInjective(Sorted(Heard(g)))
  <2>1. Heard(g) \in SUBSET (1..n)
    BY <1>1 DEF Heard
  <2>2. QED
    BY <1>1, <2>1, SortedIsDistinct
<1>6. IsInjective(<<>>)
  BY DEF IsInjective
<1>7. QED
  BY <1>2, <1>3, <1>4, <1>5, <1>6, MockItemsAssumption, Zenon DEF Meaning, Heard

\* The items of a are items of s, in the order they have there.
InPlace(a, s) ==
    /\ \A k \in 1..Len(a) : \E j \in 1..Len(s) : s[j] = a[k]
    /\ \A k, l \in 1..Len(a) : k < l =>
          \A i, j \in 1..Len(s) : s[i] = a[k] /\ s[j] = a[l] => i < j

\* What was made is what the messages mean, in its order, also after the
\* stream was given up and items of it were dropped.
OrderInv == InPlace(Made, meant)

\* Two sequences, one after the other.
LEMMA ConcatIs ==
    ASSUME NEW a \in Seq(Items), NEW b \in Seq(Items)
    PROVE  /\ a \o b \in Seq(Items) /\ Len(a \o b) = Len(a) + Len(b)
           /\ Len(a) \in Nat /\ Len(b) \in Nat /\ DOMAIN (a \o b) = 1..(Len(a) + Len(b))
           /\ \A k \in 1..Len(a) : (a \o b)[k] = a[k] /\ k \in 1..(Len(a) + Len(b))
           /\ \A k \in 1..Len(b) : (a \o b)[Len(a) + k] = b[k] /\ Len(a) + k \in 1..(Len(a) + Len(b))
           /\ \A k \in 1..(Len(a) + Len(b)) : k \in 1..Len(a) \/ \E l \in 1..Len(b) : k = Len(a) + l
<1> DEFINE m == Len(a)
           n == Len(b)
           c == a \o b
<1>1. m \in Nat /\ n \in Nat
  OBVIOUS
<1>2. /\ c \in Seq(Items) /\ Len(c) = m + n
      /\ \A k \in 1..(m + n) : c[k] = IF k <= m THEN a[k] ELSE b[k - m]
  BY ConcatProperties
<1>3. DOMAIN c = 1..(m + n)
  BY <1>2
<1> HIDE DEF m, n, c
<1>4. ASSUME NEW k \in 1..m PROVE c[k] = a[k] /\ k \in 1..(m + n)
  <2>1. k \in 1..(m + n) /\ k <= m
    BY <1>1
  <2>2. QED
    BY <1>2, <2>1
<1>5. ASSUME NEW k \in 1..n PROVE c[m + k] = b[k] /\ m + k \in 1..(m + n)
  <2>1. m + k \in 1..(m + n) /\ ~(m + k <= m) /\ (m + k) - m = k
    BY <1>1
  <2> DEFINE x == m + k
  <2>2. x \in 1..(m + n) /\ ~(x <= m) /\ x - m = k
    BY <2>1
  <2> HIDE DEF x
  <2>3. c[x] = b[k]
    BY <1>2, <2>2
  <2>4. QED
    BY <2>2, <2>3 DEF x
<1>6. ASSUME NEW k \in 1..(m + n) PROVE k \in 1..m \/ \E l \in 1..n : k = m + l
  <2>1. k \in 1..m \/ (k - m \in 1..n /\ k = m + (k - m))
    BY <1>1
  <2>2. QED
    BY <2>1
<1>7. QED
  BY <1>1, <1>2, <1>3, <1>4, <1>5, <1>6 DEF m, n, c

\* More is said, and made at once.
LEMMA SayingKeepsPlaces ==
    ASSUME NEW a \in Seq(Items), NEW s \in Seq(Items), NEW u \in Seq(Items),
           InPlace(a, s), IsInjective(s \o u)
    PROVE  InPlace(a \o u, s \o u)
<1> DEFINE p == Len(a)
           q == Len(s)
           n == Len(u)
           b == a \o u
           t == s \o u
<1>1. /\ p \in Nat /\ q \in Nat /\ n \in Nat /\ Len(b) = p + n /\ Len(t) = q + n /\ DOMAIN t = 1..(q + n)
      /\ \A k \in 1..p : b[k] = a[k]
      /\ \A k \in 1..n : b[p + k] = u[k]
      /\ \A k \in 1..(p + n) : k \in 1..p \/ \E l \in 1..n : k = p + l
      /\ \A k \in 1..q : t[k] = s[k] /\ k \in 1..(q + n)
      /\ \A k \in 1..n : t[q + k] = u[k] /\ q + k \in 1..(q + n)
  BY ConcatIs
<1>2. /\ \A k \in 1..p : \E j \in 1..q : s[j] = a[k]
      /\ \A k, l \in 1..p : k < l => \A i, j \in 1..q : s[i] = a[k] /\ s[j] = a[l] => i < j
  BY DEF InPlace
<1>3. \A i, j \in 1..(q + n) : t[i] = t[j] => i = j
  BY <1>1 DEF IsInjective
<1> HIDE DEF p, q, n, b, t
<1>4. ASSUME NEW k \in 1..p PROVE \E j \in 1..q : t[j] = b[k] /\ s[j] = a[k]
  BY <1>1, <1>2
<1>5. ASSUME NEW k \in 1..n PROVE t[q + k] = b[p + k]
  BY <1>1
<1>6. ASSUME NEW k \in 1..(p + n) PROVE \E j \in 1..(q + n) : t[j] = b[k]
  <2>1. CASE k \in 1..p
    BY <1>1, <1>4, <2>1
  <2>2. CASE \E l \in 1..n : k = p + l
    BY <1>1, <1>5, <2>2
  <2>3. QED
    BY <1>1, <2>1, <2>2
<1>7. ASSUME NEW k \in 1..(p + n), NEW l \in 1..(p + n), k < l,
             NEW i \in 1..(q + n), NEW j \in 1..(q + n), t[i] = b[k], t[j] = b[l]
      PROVE  i < j
  <2>1. ASSUME k \in 1..p, l \in 1..p PROVE i < j
    <3>1. i \in 1..q /\ s[i] = a[k]
      <4>1. PICK x \in 1..q : t[x] = b[k] /\ s[x] = a[k]
        BY <1>4, <2>1
      <4>2. x = i
        BY <1>1, <1>3, <1>7, <4>1
      <4>3. QED
        BY <4>1, <4>2
    <3>2. j \in 1..q /\ s[j] = a[l]
      <4>1. PICK x \in 1..q : t[x] = b[l] /\ s[x] = a[l]
        BY <1>4, <2>1
      <4>2. x = j
        BY <1>1, <1>3, <1>7, <4>1
      <4>3. QED
        BY <4>1, <4>2
    <3>3. QED
      BY <1>2, <1>7, <2>1, <3>1, <3>2
  <2>2. ASSUME k \in 1..p, NEW y \in 1..n, l = p + y PROVE i < j
    <3>1. i \in 1..q
      <4>1. PICK x \in 1..q : t[x] = b[k] /\ s[x] = a[k]
        BY <1>4, <2>2
      <4>2. x = i
        BY <1>1, <1>3, <1>7, <4>1
      <4>3. QED
        BY <4>1, <4>2
    <3>2. j = q + y
      BY <1>1, <1>3, <1>5, <1>7, <2>2
    <3>3. QED
      BY <1>1, <3>1, <3>2
  <2>3. ASSUME NEW x \in 1..n, k = p + x, NEW y \in 1..n, l = p + y PROVE i < j
    <3>1. i = q + x /\ j = q + y
      BY <1>1, <1>3, <1>5, <1>7, <2>3
    <3>2. x < y
      BY <1>1, <1>7, <2>3
    <3>3. q + x < q + y
      BY <1>1, <3>2
    <3>4. QED
      BY <3>1, <3>3
  <2>4. ASSUME NEW x \in 1..n, k = p + x, l \in 1..p PROVE FALSE
    BY <1>1, <1>7, <2>4
  <2>5. QED
    BY <1>1, <2>1, <2>2, <2>3, <2>4
<1>8. InPlace(b, t)
  <2>1. Len(b) = p + n /\ Len(t) = q + n
    BY <1>1
  <2>2. QED
    <3>1. \A k \in 1..Len(b) : \E j \in 1..Len(t) : t[j] = b[k]
      BY <1>6, <2>1
    <3>2. \A k, l \in 1..Len(b) : k < l =>
             \A i, j \in 1..Len(t) : t[i] = b[k] /\ t[j] = b[l] => i < j
      BY <1>7, <2>1
    <3>3. QED
      BY <3>1, <3>2, Zenon DEF InPlace
<1>9. QED
  BY <1>8 DEF b, t

\* What is left when the end is dropped keeps its order.
LEMMA DroppingKeepsPlaces ==
    ASSUME NEW a \in Seq(Items), NEW b \in Seq(Items), NEW s, InPlace(a \o b, s)
    PROVE  InPlace(a, s)
<1> DEFINE c == a \o b
<1>1. \A k \in 1..Len(a) : k \in 1..Len(c) /\ c[k] = a[k]
  <2>1. /\ Len(c) = Len(a) + Len(b)
        /\ \A k \in 1..Len(a) : c[k] = a[k] /\ k \in 1..(Len(a) + Len(b))
    BY ConcatIs
  <2> HIDE DEF c
  <2>2. QED
    BY <2>1, Zenon
<1> HIDE DEF c
<1>2. /\ \A k \in 1..Len(c) : \E j \in 1..Len(s) : s[j] = c[k]
      /\ \A k, l \in 1..Len(c) : k < l => \A i, j \in 1..Len(s) : s[i] = c[k] /\ s[j] = c[l] => i < j
  BY Zenon DEF InPlace, c
<1>3. \A k \in 1..Len(a) : \E j \in 1..Len(s) : s[j] = a[k]
  BY <1>1, <1>2
<1>4. \A k, l \in 1..Len(a) : k < l => \A i, j \in 1..Len(s) : s[i] = a[k] /\ s[j] = a[l] => i < j
  BY <1>1, <1>2
<1>5. QED
  BY <1>3, <1>4, Zenon DEF InPlace

\* The items that were made, when the hand is empty.
LEMMA MadeIs ==
    ASSUME ControlInv, StreamInv
    PROVE  /\ delivered \o events \in Seq(Items) /\ Made \in Seq(Items)
           /\ hand = <<>> => Made = delivered \o events
<1> DEFINE a == delivered \o events
<1>1. a \in Seq(Items) /\ hand \in Seq(Items)
  BY ConcatIs DEF ControlInv, ReadTypes, StreamInv, ItemTypes
<1>2. Made = a \o hand
  BY DEF Made
<1> HIDE DEF a
<1>3. a \o hand \in Seq(Items) /\ (hand = <<>> => a \o hand = a)
  BY <1>1
<1>4. QED
  BY <1>1, <1>2, <1>3 DEF a

\* At first nothing was made.
LEMMA InitOrder == Init => OrderInv
<1>1. Len(<<>>) = 0 /\ \A k \in 1..0 : FALSE
  OBVIOUS
<1>2. Init => Made = <<>>
  BY DEF Init, Made
<1>3. QED
  BY <1>1, <1>2 DEF OrderInv, InPlace

\* What a message adds to the meaning comes into the hand, no item of it twice.
LEMMA ReadSays ==
    ASSUME ControlInv, StreamInv, NEW m \in Messages, Read(m)
    PROVE  /\ meant' = meant \o hand' /\ hand' \in Seq(Items) /\ IsInjective(meant')
           /\ Made = delivered \o events /\ Made' = Made \o hand'
<1>1. provider \in DOMAIN ClientOf /\ kept \in KeptType /\ got \in Seq(Messages)
  BY DEF ControlInv, ControlTypes, ReadTypes
<1>2. KeptIs(got, kept) /\ Meaning(got) \in Seq(Items) /\ meant = Meaning(got)
  BY DEF Read, StreamInv, StillReads, ItemTypes
<1>3. Adding(Meaning(got), Decode(m, Len(got) + 1), Meaning(Append(got, m)))
  BY <1>1, <1>2, DecodeAdds
<1>4. meant' = Meaning(Append(got, m)) /\ hand' = Decode(m, Len(got) + 1).items
      /\ UNCHANGED <<events, delivered>> /\ hand = <<>>
  <2>1. meant' = Meaning(got') /\ got' = Append(got, m)
    BY DEF Read
  <2>2. QED
    BY <2>1 DEF Read
<1>5. meant' = meant \o hand' /\ hand' \in Seq(Items)
  BY <1>2, <1>3, <1>4 DEF Adding, Said
<1>6. IsInjective(meant')
  <2>1. Append(got, m) \in Seq(Messages)
    BY <1>1
  <2>2. QED
    BY <1>1, <1>4, <2>1, MeaningIsDistinct
<1>7. Made = delivered \o events
  BY <1>4, MadeIs
<1>8. Made' = Made \o hand'
  BY <1>4, <1>7 DEF Made
<1>9. QED
  BY <1>5, <1>6, <1>7, <1>8

\* Every step keeps the items in the order of the messages.
LEMMA OrderStep == ASSUME ControlInv, StreamInv, OrderInv, [Next]_vars PROVE OrderInv'
<1>1. ASSUME NEW m \in Messages, Read(m) PROVE OrderInv'
  <2>1. /\ meant' = meant \o hand' /\ hand' \in Seq(Items) /\ IsInjective(meant')
        /\ Made' = Made \o hand'
    BY <1>1, ReadSays
  <2>2. Made \in Seq(Items) /\ meant \in Seq(Items)
    BY MadeIs DEF StreamInv, ItemTypes
  <2>3. InPlace(Made \o hand', meant \o hand')
    BY <2>1, <2>2, SayingKeepsPlaces DEF OrderInv
  <2>4. QED
    BY <2>1, <2>3 DEF OrderInv
<1>2. CASE Send \/ SendEvent \/ Receive
  <2>1. Made' = Made /\ meant' = meant
    BY <1>2, DoneStays, MoveStep DEF Send, SendEvent, Receive, SentOne, readVars
  <2>2. QED
    BY <2>1 DEF OrderInv
<1>3. CASE Abandon
  <2>1. hand' = <<>> /\ UNCHANGED <<delivered, events, meant>>
    BY <1>3 DEF Abandon
  <2>2. delivered \o events \in Seq(Items) /\ hand \in Seq(Items)
    BY MadeIs DEF ControlInv, ReadTypes
  <2>3. Made' = delivered \o events
    BY <2>1, <2>2 DEF Made
  <2>4. InPlace(delivered \o events, meant)
    BY <2>2, DroppingKeepsPlaces DEF OrderInv, Made
  <2>5. QED
    BY <2>1, <2>3, <2>4 DEF OrderInv
<1>4. CASE ~Moves
  <2>1. UNCHANGED <<meant, hand, events, delivered>>
    BY <1>4, OtherStepsAreQuiet
  <2>2. QED
    BY <2>1 DEF OrderInv, Made
<1>5. QED
  BY <1>1, <1>2, <1>3, <1>4 DEF Moves

\* Only the reader's own end ends the reading, and neither the reader nor
\* the receiver gives the stream up.
LEMMA MapIsFixed ==
    ASSUME ControlInv, [Next]_vars
    PROVE  /\ ~Leave => (reader' = "gone") = (reader = "gone")
           /\ Moves \/ Leave => Done' = Done
<1>1. ASSUME ~Leave PROVE (reader' = "gone") = (reader = "gone")
  <2>1. CASE OpeningNext
    <3>1. CASE Connected \/ Writes \/ Started
      <4>1. reader = "none" /\ Proceeds
        BY <3>1, PlaceIsAStep DEF Connected, Writes, Started, ControlInv, ControlTypes
      <4>2. QED
        BY <4>1 DEF Proceeds
    <3>2. QED
      BY <2>1, <3>1 DEF OpeningNext, OpenRefused, DialFails, WriteFails, NotStarted, Opens, Unwinds, readVars
  <2>2. CASE ReaderNext
    <3>1. CASE Top \/ (\E m \in Messages : Read(m)) \/ ReadFails \/ MockStops
      BY <3>1 DEF Top, Read, ReadFails, MockStops, Then
    <3>2. CASE Send \/ SendEvent \/ Abandon
      BY <3>2 DEF Send, SendEvent, SentOne, Abandon, Then, ControlInv, ReadTypes
    <3>3. QED
      BY <1>1, <2>2, <3>1, <3>2 DEF ReaderNext
  <2>3. CASE UserNext
    BY <2>3 DEF UserNext, AcceptLocked, AcceptShared, AcceptDecoded, AcceptUndecoded, AcceptChecks,
         AcceptWritten, AcceptMock, FinishLocked, FinishWritten, CloseMarks, CloseReleases, userFrame
  <2>4. CASE CancelContext \/ Receive \/ WatcherCloses \/ UNCHANGED vars
    BY <2>4 DEF CancelContext, Receive, WatcherCloses, vars, readVars
  <2>5. QED
    BY <2>1, <2>2, <2>3, <2>4 DEF Next
<1>2. ASSUME Moves \/ Leave PROVE Done' = Done
  <2>1. UNCHANGED <<provider, cancelled, closing>>
    BY <1>2 DEF Moves, Leave, Read, Send, SendEvent, SentOne, Receive, Abandon, callVars, userVars
  <2>2. QED
    BY <2>1 DEF Done, IsASR, Self
<1>3. QED
  BY <1>1, <1>2

\* What is said longer begins with what was said.
LEMMA PrefixOfConcat ==
    ASSUME NEW a \in Seq(Items), NEW b \in Seq(Items)
    PROVE  IsPrefix(a, a \o b)
<1> DEFINE c == a \o b
           n == Len(a)
<1>1. c \in Seq(Items) /\ n \in Nat /\ Len(c) \in Nat /\ n <= Len(c) /\ \A k \in 1..n : c[k] = a[k]
  BY ConcatIs
<1> HIDE DEF c
<1>2. SubSeq(a, 1, n) = SubSeq(c, 1, n)
  BY <1>1
<1>3. QED
  BY <1>1, <1>2 DEF IsPrefix, c

\* The item that is received is one of the messages' meaning, behind the one
\* that was received before it, and the next one unless the stream is given up.
LEMMA NextIsTaken ==
    ASSUME NEW d \in Seq(Items), NEW r \in Seq(Items), r # <<>>, NEW s \in Seq(Items),
           InPlace(d \o r, s)
    PROVE  \E k \in DOMAIN s : /\ \A j \in DOMAIN s : d # <<>> /\ s[j] = Last(d) => j < k
                               /\ d \o r = s => k = Len(d) + 1
                               /\ Append(d, Head(r)) = Append(d, s[k])
<1> DEFINE a == d \o r
           n == Len(d)
           c == Len(r)
           x == n + 1
<1>1. n \in Nat /\ c \in Nat /\ c # 0 /\ Head(r) = r[1] /\ DOMAIN s = 1..Len(s)
  OBVIOUS
<1>2. /\ Len(a) = n + c
      /\ \A k \in 1..n : a[k] = d[k] /\ k \in 1..(n + c)
      /\ \A k \in 1..c : a[n + k] = r[k] /\ n + k \in 1..(n + c)
  BY ConcatIs
<1>3. d # <<>> => n # 0 /\ Last(d) = d[n]
  BY DEF Last
<1>4. Len(d) + 1 = x
  OBVIOUS
<1>5. /\ \A k \in 1..Len(a) : \E j \in 1..Len(s) : s[j] = a[k]
      /\ \A k, l \in 1..Len(a) : k < l => \A i, j \in 1..Len(s) : s[i] = a[k] /\ s[j] = a[l] => i < j
  BY DEF InPlace
<1>a. a = d \o r
  OBVIOUS
<1> HIDE DEF n, a, c
<1>6. 1 \in 1..c /\ n < x /\ (n # 0 => n \in 1..n)
  BY <1>1
<1>7. x \in 1..Len(a) /\ a[x] = Head(r)
  BY <1>1, <1>2, <1>6
<1>8. d # <<>> => n \in 1..Len(a) /\ a[n] = Last(d)
  BY <1>2, <1>3, <1>6
<1> HIDE DEF x
<1>9. ASSUME NEW k \in 1..Len(s), s[k] = a[x], NEW j \in 1..Len(s), d # <<>>, s[j] = Last(d)
      PROVE  j < k
  BY <1>5, <1>6, <1>7, <1>8, <1>9
<1>10. PICK k \in 1..Len(s) : s[k] = a[x] /\ (a = s => k = x)
  <2>1. CASE a = s
    BY <1>7, <2>1
  <2>2. CASE a # s
    BY <1>5, <1>7, <2>2
  <2>3. QED
    BY <2>1, <2>2
<1>11. Append(d, Head(r)) = Append(d, s[k])
  BY <1>7, <1>10
<1>12. QED
  BY <1>1, <1>4, <1>9, <1>10, <1>11, <1>a

\* Send and Receive take the next item, or a later one of a stream given up.
LEMMA TakeIsTaken ==
    ASSUME ControlInv, StreamInv, OrderInv, Send \/ Receive, Next
    PROVE  Streams!Take
<1>1. delivered \in Seq(Items) /\ events \in Seq(Items) /\ hand \in Seq(Items) /\ meant \in Seq(Items)
  BY DEF ControlInv, ReadTypes, StreamInv, ItemTypes
<1>2. UNCHANGED meant /\ Done' = Done /\ (reader' = "gone") = (reader = "gone")
  <2>1. meant' = meant
    BY DEF Send, Receive, SentOne, readVars
  <2>2. ~Leave
    BY DEF Send, Receive, SentOne, Leave, readVars, ControlInv, ReadTypes
  <2>3. QED
    BY <2>1, <2>2, MapIsFixed DEF Moves
<1>3. PICK r \in Seq(Items) : /\ r # <<>> /\ delivered' = Append(delivered, Head(r))
                              /\ delivered \o r = Made
  <2>1. CASE Send
    <3>1. events = <<>> /\ hand # <<>> /\ delivered' = Append(delivered, Head(hand))
      BY <2>1 DEF Send, StreamInv, ItemTypes
    <3>2. delivered \o hand = Made
      BY <1>1, <3>1 DEF Made
    <3>3. QED
      BY <1>1, <3>1, <3>2
  <2>2. CASE Receive
    <3> DEFINE r == events \o hand
    <3>1. events # <<>> /\ delivered' = Append(delivered, Head(events))
      BY <2>2 DEF Receive
    <3>2. r \in Seq(Items) /\ r # <<>> /\ Head(r) = Head(events)
      BY <1>1, <3>1
    <3>3. delivered \o r = Made
      <4>1. \A u, v, w \in Seq(Items) : (u \o v) \o w = u \o (v \o w)
        BY ConcatAssociative
      <4>2. QED
        BY <1>1, <4>1, ZenonT(60) DEF Made
    <3> HIDE DEF r
    <3>4. QED
      BY <3>1, <3>2, <3>3
  <2>3. QED
    BY <2>1, <2>2
<1>4. InPlace(delivered \o r, meant) /\ (~Done => delivered \o r = meant)
  BY <1>3 DEF OrderInv, StreamInv
<1>5. PICK k \in DOMAIN meant :
         /\ \A j \in DOMAIN meant : delivered # <<>> /\ meant[j] = Last(delivered) => j < k
         /\ delivered \o r = meant => k = Len(delivered) + 1
         /\ Append(delivered, Head(r)) = Append(delivered, meant[k])
  BY <1>1, <1>3, <1>4, NextIsTaken
<1>6. ~Done => k = Len(delivered) + 1
  BY <1>4, <1>5, Zenon
<1>7. delivered' = Append(delivered, meant[k])
  BY <1>3, <1>5, Zenon
<1>8. QED
  BY <1>2, <1>5, <1>6, <1>7, Zenon DEF Streams!Take, Streams!Last, Last

\* Every step of a stream is one of the promised stream, or changes nothing
\* of it.
LEMMA StepIsPromised ==
    ASSUME ControlInv, StreamInv, OrderInv, [Next]_vars
    PROVE  [Streams!Next]_(Streams!vars)
<1>1. ASSUME NEW m \in Messages, Read(m) PROVE Streams!Say
  <2>1. meant' = meant \o hand' /\ hand' \in Seq(Items) /\ meant \in Seq(Items)
    BY <1>1, ReadSays DEF StreamInv, ItemTypes
  <2>2. IsPrefix(meant, meant')
    BY <2>1, PrefixOfConcat
  <2>3. delivered' = delivered /\ reader = "reading" /\ ~Leave
    BY <1>1 DEF Read, Leave
  <2>4. Done' = Done /\ (reader' = "gone") = (reader = "gone")
    BY <1>1, <2>3, MapIsFixed DEF Moves
  <2>5. QED
    <3>1. ~(reader = "gone") /\ UNCHANGED <<delivered, Done, reader = "gone">>
      BY <2>3, <2>4
    <3>2. QED
      BY <2>2, <3>1, Zenon DEF Streams!Say, Streams!IsPrefix, IsPrefix
<1>2. CASE Send \/ Receive
  <2>1. Next
    BY <1>2 DEF Next, ReaderNext
  <2>2. QED
    BY <1>2, <2>1, TakeIsTaken DEF Streams!Next
<1>3. CASE SendEvent \/ Abandon
  <2>1. UNCHANGED <<meant, delivered>> /\ ~Leave
    BY <1>3 DEF SendEvent, SentOne, Abandon, Leave, ControlInv, ReadTypes
  <2>2. Done' = Done /\ (reader' = "gone") = (reader = "gone")
    BY <1>3, <2>1, MapIsFixed DEF Moves
  <2>3. QED
    BY <2>1, <2>2 DEF Streams!vars
<1>4. CASE Leave
  <2>1. UNCHANGED <<meant, delivered>> /\ reader # "gone" /\ reader' = "gone"
    BY <1>4 DEF Leave
  <2>2. Done' = Done
    BY <1>4, MapIsFixed
  <2>3. Streams!End
    BY <2>1, <2>2 DEF Streams!End
  <2>4. QED
    BY <2>3 DEF Streams!Next
<1>5. ASSUME ~Moves, ~Leave PROVE [Streams!Next]_(Streams!vars)
  <2>1. UNCHANGED <<meant, delivered>> /\ (reader' = "gone") = (reader = "gone")
    BY <1>5, OtherStepsAreQuiet, MapIsFixed
  <2>2. Done => Done'
    BY DoneStays
  <2>3. Done \in BOOLEAN /\ Done' \in BOOLEAN
    BY DEF Done
  <2>4. CASE Done' = Done
    BY <2>1, <2>4 DEF Streams!vars
  <2>5. CASE ~Done /\ Done'
    BY <2>1, <2>5 DEF Streams!Next, Streams!GiveUp
  <2>6. QED
    BY <2>2, <2>3, <2>4, <2>5
<1>6. QED
  BY <1>1, <1>2, <1>3, <1>4, <1>5 DEF Moves, Streams!Next

\* A stream begins as the promised one.
LEMMA InitIsPromised == Init => Streams!Init
<1> SUFFICES ASSUME Init PROVE Streams!Init
  OBVIOUS
<1>1. meant = <<>> /\ delivered = <<>> /\ reader # "gone"
  BY DEF Init
<1>2. ~Done
  BY DEF Init, Done, Closers
<1>3. QED
  BY <1>1, <1>2 DEF Streams!Init

\* Each client, whatever its protocol, delivers what the service's messages
\* mean, each item once and in order, without a gap until the stream is given
\* up (the decode and read functions of the clients).
THEOREM StreamsAreOrdered == Spec => ImplementsOrderedStream
<1>1. ControlInv /\ StreamInv /\ OrderInv /\ [Next]_vars => OrderInv'
  BY OrderStep
<1>2. Spec => []OrderInv
  BY <1>1, InitOrder, ControlInvariant, StreamInvariant, PTL DEF Spec
<1>3. ControlInv /\ StreamInv /\ OrderInv /\ [Next]_vars => [Streams!Next]_(Streams!vars)
  BY StepIsPromised
<1>4. QED
  BY <1>2, <1>3, InitIsPromised, ControlInvariant, StreamInvariant, PTL
  DEF Spec, ImplementsOrderedStream, Streams!Spec
=============================================================================
