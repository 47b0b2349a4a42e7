-------------------------- MODULE ProxyStream_proofs --------------------------
(***************************************************************************)
(* Theorems about ProxyStream, for every number of streams, follow-up      *)
(* requests and connection attempts.                                       *)
(***************************************************************************)
EXTENDS ProxyStream, TLAPS

SetupPlaces == {"idle", "checked", "connecting", "refused", "booking_refusal", "returned"}
GeneratorPlaces == {"reading", "shown", "tools", "failing", "finally"}
LastPlaces == {"booking", "handing_over", "over", "abandoned"}
Places == SetupPlaces \cup GeneratorPlaces \cup LastPlaces

\* How the variables of one stream hang together.
Sound(s) ==
    \* a stream that is not opened has no key, and only the direct kind has one
    /\ pc[s] = "idle" => key[s] = "none"
    /\ kind[s] # "direct" => key[s] = "none"
    /\ kind[s] = "direct" /\ pc[s] # "idle" => key[s] # "none"
    /\ pc[s] \in {"idle", "checked", "booking_refusal", "tools"} => kind[s] = "direct"
    \* there is an attempt left as long as the stream connects
    /\ pc[s] \in {"idle", "checked", "connecting"} => attempt[s] < Attempts
    \* the places at which a response may be open
    /\ up[s] = "open" =>
          pc[s] \in {"refused", "returned", "reading", "shown", "abandoned"}
    \* one outcome, and messages only once the generator is past its finally
    /\ pc[s] \notin {"handing_over", "over"} => booked[s] = 0
    /\ pending[s] # {} => pc[s] \in {"booking", "handing_over", "over"}
    \* a complete event is parsed before the next chunk is asked for
    /\ pc[s] \in SetupPlaces => buffer[s] = "empty"
    /\ pc[s] = "reading" => buffer[s] # "complete"
    \* usage that got here is known or still in the buffer, until it is booked
    /\ sent[s] /\ kind[s] # "bedrock" =>
          usage[s] \/ buffer[s] \in {"unended", "complete"}
    /\ sent[s] /\ kind[s] # "bedrock" /\ pc[s] \in {"booking", "handing_over"} => usage[s]

Soundness ==
    /\ TypeOK
    /\ pc \in [Streams -> Places]
    /\ \A s \in Streams : Sound(s)

-----------------------------------------------------------------------------
(* Type correctness, with what the variables of one stream have to do with     *)
(* each other: a step changes those of one stream.                             *)

\* The variables of stream t stay as they are.
Kept(t) ==
    /\ pc'[t] = pc[t] /\ kind'[t] = kind[t] /\ key'[t] = key[t]
    /\ attempt'[t] = attempt[t] /\ up'[t] = up[t]
    /\ buffer'[t] = buffer[t] /\ usage'[t] = usage[t] /\ whole'[t] = whole[t]
    /\ pending'[t] = pending[t] /\ sent'[t] = sent[t] /\ booked'[t] = booked[t]

\* A stream whose variables stay as they are stays sound.
LEMMA KeptSound ==
    ASSUME NEW t \in Streams, Sound(t), Kept(t)
    PROVE  Sound(t)'
BY DEF Sound, Kept

\* What giving a key back does to the keys, the queue and the messages.
LEMMA ReleaseType ==
    ASSUME TypeOK, NEW s \in Streams, NEW drain \in BOOLEAN, ReleaseKey(s, drain)
    PROVE  /\ active' \subseteq {"named", "coarse"} /\ queue' \subseteq Messages
           /\ pending' \in [Streams -> SUBSET Messages]
           /\ heard' \in [Messages -> SUBSET Streams]
           /\ message' \in
                [Messages -> {"unsent", "queued", "drained", "delivered", "dropped"}]
           /\ \A t \in Streams \ {s} : pending'[t] = pending[t]
           /\ ~drain => pending'[s] = {}
<1> DEFINE mine == IF key[s] = "named" THEN queue ELSE {}
<1>1. mine \subseteq Messages /\ (IF drain THEN mine ELSE {}) \subseteq Messages
  BY DEF TypeOK
<1>2. /\ active' = active \ {key[s]} /\ queue' = queue \ mine /\ UNCHANGED heard
      /\ pending' = [pending EXCEPT ![s] = IF drain THEN mine ELSE {}]
      /\ message' = [m \in Messages |->
                       IF m \in mine THEN IF drain THEN "drained" ELSE "dropped"
                       ELSE message[m]]
  BY DEF ReleaseKey
<1> HIDE DEF mine
<1>3. QED
  BY <1>1, <1>2 DEF TypeOK

\* What a chunk may leave in the buffer.
LEMMA FedType ==
    ASSUME NEW held \in {"empty", "half", "unended", "torn"}
    PROVE  /\ Fed(held) \subseteq {"empty", "half", "unended", "complete", "torn"}
           /\ held = "unended" => Fed(held) = {"complete"}
BY DEF Fed

\* A stream is opened by one of the four handlers.
LEMMA OpenSound ==
    ASSUME Soundness, NEW s \in Streams,
           Arrive(s) \/ ArriveBedrock(s) \/ ArriveBackend(s) \/ ArrivePassthrough(s)
    PROVE  Soundness'
<1>1. PICK k \in Kinds, name \in Keys, where \in {"checked", "returned", "connecting"} :
         /\ Opens(s, k, name, where)
         /\ k # "direct" <=> name = "none"
         /\ where = "checked" => k = "direct"
  BY DEF Arrive, ArriveBedrock, ArriveBackend, ArrivePassthrough, Kinds, Keys
<1>2. TypeOK' /\ pc' \in [Streams -> Places]
  BY <1>1 DEF Opens, Goto, Soundness, TypeOK, Places, SetupPlaces, reading, steering, ghosts
<1>3. \A t \in Streams \ {s} : Kept(t)
  BY <1>1 DEF Opens, Goto, Soundness, TypeOK, Kept, reading, steering, ghosts
<1>4. Sound(s)'
  BY <1>1 DEF Opens, Goto, Soundness, TypeOK, Sound, SetupPlaces, reading, steering, ghosts
<1>5. QED
  BY <1>2, <1>3, <1>4, KeptSound DEF Soundness

\* The steps before the response is returned, and their cancellation.
LEMMA SetupSound ==
    ASSUME Soundness, StreamAssumption, NEW s \in Streams, SetupStep(s) \/ CancelSetup(s)
    PROVE  Soundness'
<1> USE DEF Goto, Soundness, TypeOK, Places, SetupPlaces, GeneratorPlaces, LastPlaces,
            place, reading, steering, ghosts
<1>1. Attempts \in Nat \ {0} /\ attempt[s] \in 0 .. Attempts /\ Sound(s)
  BY DEF StreamAssumption
<1>2. CASE TakeKey(s)
  <2>1. key[s] \in {"named", "coarse"}
    BY <1>1, <1>2 DEF TakeKey, Sound, Keys
  <2>2. TypeOK' /\ pc' \in [Streams -> Places]
    BY <1>2, <2>1 DEF TakeKey
  <2>3. \A t \in Streams \ {s} : Kept(t)
    BY <1>2 DEF TakeKey, Kept
  <2>4. Sound(s)'
    BY <1>1, <1>2 DEF TakeKey, Sound
  <2>5. QED
    BY <2>2, <2>3, <2>4, KeptSound
<1>3. CASE PassthroughFails(s)
  BY <1>1, <1>3, KeptSound DEF PassthroughFails, Sound, Kept
<1>4. CASE Overloaded(s)
  BY <1>1, <1>4, KeptSound DEF Overloaded, Sound, Kept
<1>5. CASE UpstreamRefuses(s)
  BY <1>1, <1>5, KeptSound DEF UpstreamRefuses, Sound, Kept
<1>6. CASE ReadRefusal(s)
  BY <1>1, <1>6, KeptSound DEF ReadRefusal, RefusalRead, Sound, Kept
<1>7. CASE PassthroughRefusal(s)
  BY <1>1, <1>7, KeptSound DEF PassthroughRefusal, RefusalRead, Sound, Kept
<1>8. CASE UpstreamAccepts(s)
  BY <1>1, <1>8, KeptSound DEF UpstreamAccepts, Sound, Kept
<1>9. ASSUME NEW n \in 0 .. Attempts, NEW u \in {"none", "closed"}, NEW b \in 0 .. 1,
              pc[s] \in {"connecting", "refused", "booking_refusal"},
              Goto(s, "over"), ReleaseKey(s, FALSE),
              attempt' = [attempt EXCEPT ![s] = n],
              up' = [up EXCEPT ![s] = u],
              booked' = [booked EXCEPT ![s] = b],
              UNCHANGED <<kind, key, buffer, usage, whole, sent>>
       PROVE  Soundness'
  <2>1. TypeOK' /\ pc' \in [Streams -> Places]
    BY <1>9, ReleaseType
  <2>2. ASSUME NEW t \in Streams \ {s} PROVE Kept(t)
    <3>1. pending'[t] = pending[t]
      BY <1>9, ReleaseType
    <3>2. /\ pc'[t] = pc[t] /\ attempt'[t] = attempt[t] /\ up'[t] = up[t]
          /\ booked'[t] = booked[t]
      BY <1>9
    <3>3. QED
      BY <1>9, <3>1, <3>2 DEF Kept
  <2>3. pending'[s] = {}
    BY <1>9, ReleaseType
  <2>4. Sound(s)'
    <3>1. /\ pc'[s] = "over" /\ up'[s] \in {"none", "closed"}
          /\ kind'[s] = kind[s] /\ key'[s] = key[s] /\ sent'[s] = sent[s]
          /\ kind[s] # "direct" => key[s] = "none"
          /\ kind[s] = "direct" => key[s] # "none"
      BY <1>1, <1>9 DEF Goto, Sound
    <3>2. /\ buffer'[s] = buffer[s] /\ usage'[s] = usage[s]
          /\ sent[s] /\ kind[s] # "bedrock" =>
                usage[s] \/ buffer[s] \in {"unended", "complete"}
      BY <1>1, <1>9 DEF Sound
    <3>3. QED
      BY <2>3, <3>1, <3>2 DEF Sound, SetupPlaces
  <2>5. QED
    BY <2>1, <2>2, <2>4, KeptSound
<1>10. CASE ConnectFails(s)
  <2>1. CASE attempt[s] + 1 < Attempts
    <3>1. /\ pc[s] = "connecting" /\ attempt' = [attempt EXCEPT ![s] = attempt[s] + 1]
          /\ UNCHANGED <<pc, kind, key, up, reading, steering, ghosts>>
      BY <1>10, <2>1 DEF ConnectFails
    <3>2. QED
      BY <1>1, <2>1, <3>1, KeptSound DEF Sound, Kept
  <2>2. CASE ~(attempt[s] + 1 < Attempts)
    <3>1. /\ attempt[s] + 1 \in 0 .. Attempts /\ booked[s] \in 0 .. 1 /\ up[s] \in {"none", "closed"}
          /\ attempt' = [attempt EXCEPT ![s] = attempt[s] + 1]
          /\ up' = [up EXCEPT ![s] = up[s]] /\ booked' = [booked EXCEPT ![s] = booked[s]]
      BY <1>1, <1>10 DEF ConnectFails, Sound
    <3>2. QED
      BY <1>9, <1>10, <2>2, <3>1 DEF ConnectFails
  <2>3. QED
    BY <2>1, <2>2
<1>11. CASE BookRefusal(s)
  <2>1. PICK b \in 0 .. 1 : booked' = [booked EXCEPT ![s] = b]
    BY <1>1, <1>11 DEF BookRefusal, Sound
  <2>2. /\ up[s] \in {"none", "closed"}
        /\ attempt' = [attempt EXCEPT ![s] = attempt[s]] /\ up' = [up EXCEPT ![s] = up[s]]
    BY <1>1, <1>11 DEF BookRefusal, Sound
  <2>3. QED
    BY <1>1, <1>9, <1>11, <2>1, <2>2 DEF BookRefusal
<1>12. CASE CancelSetup(s)
  <2>1. PICK u \in {"none", "closed"} : up' = [up EXCEPT ![s] = u]
    BY <1>1, <1>12 DEF CancelSetup
  <2>2. /\ attempt' = [attempt EXCEPT ![s] = attempt[s]]
        /\ booked[s] \in 0 .. 1 /\ booked' = [booked EXCEPT ![s] = booked[s]]
    BY <1>1, <1>12 DEF CancelSetup, Sound
  <2>3. QED
    BY <1>1, <1>9, <1>12, <2>1, <2>2 DEF CancelSetup
<1>13. QED
  BY <1>2, <1>3, <1>4, <1>5, <1>6, <1>7, <1>8, <1>10, <1>11, <1>12 DEF SetupStep

\* What the generator does while it runs.
LEMMA ReadingSound ==
    ASSUME Soundness, NEW s \in Streams,
           \/ Start(s) \/ NeverStarted(s) \/ UpstreamEnds(s) \/ AfterEnd(s)
           \/ UpstreamBreaks(s) \/ ShowError(s) \/ ClientLeaves(s)
    PROVE  Soundness'
<1> USE DEF Goto, Soundness, TypeOK, Places, SetupPlaces, GeneratorPlaces, LastPlaces,
            place, reading, steering, ghosts
<1>1. Sound(s)
  OBVIOUS
<1>2. CASE Start(s)
  BY <1>1, <1>2, KeptSound DEF Start, Sound, Kept
<1>3. CASE NeverStarted(s)
  BY <1>1, <1>3, KeptSound DEF NeverStarted, Sound, Kept
<1>4. CASE UpstreamEnds(s)
  BY <1>1, <1>4, KeptSound DEF UpstreamEnds, Sound, Kept
<1>5. CASE AfterEnd(s)
  <2>1. PICK where \in {"finally", "failing"}, w \in BOOLEAN :
           pc' = [pc EXCEPT ![s] = where] /\ whole' = [whole EXCEPT ![s] = w]
    <3>1. whole[s] \in BOOLEAN /\ whole = [whole EXCEPT ![s] = whole[s]]
      OBVIOUS
    <3>2. \/ whole' = [whole EXCEPT ![s] = TRUE] /\ pc' = [pc EXCEPT ![s] = "finally"]
          \/ whole' = whole /\ pc' = [pc EXCEPT ![s] = "finally"]
          \/ whole' = whole /\ pc' = [pc EXCEPT ![s] = "failing"]
      BY <1>5 DEF AfterEnd
    <3>3. QED
      BY <3>1, <3>2
  <2>2. TypeOK' /\ pc' \in [Streams -> Places]
    BY <1>5, <2>1 DEF AfterEnd
  <2>3. \A t \in Streams \ {s} : Kept(t)
    BY <1>5, <2>1 DEF AfterEnd, Kept
  <2>4. Sound(s)'
    BY <1>1, <1>5, <2>1 DEF AfterEnd, Sound
  <2>5. QED
    BY <2>2, <2>3, <2>4, KeptSound
<1>6. CASE UpstreamBreaks(s)
  BY <1>1, <1>6, KeptSound DEF UpstreamBreaks, Sound, Kept
<1>7. CASE ShowError(s)
  BY <1>1, <1>7, KeptSound DEF ShowError, Sound, Kept
<1>8. CASE ClientLeaves(s)
  BY <1>1, <1>8, KeptSound DEF ClientLeaves, Sound, Kept
<1>9. QED
  BY <1>2, <1>3, <1>4, <1>5, <1>6, <1>7, <1>8

\* A chunk is read, and what is in the buffer is parsed at its time.
LEMMA ChunkSound ==
    ASSUME Soundness, NEW s \in Streams,
           \/ Chunk(s) \/ BedrockEvent(s) \/ BackendChunk(s) \/ PassthroughChunk(s)
           \/ Resume(s) \/ BedrockResume(s)
    PROVE  Soundness'
<1> USE DEF Goto, Soundness, TypeOK, Places, SetupPlaces, GeneratorPlaces, LastPlaces,
            place, reading, steering, ghosts
<1>1. Sound(s)
  OBVIOUS
\* the stream shows a chunk and has this in its buffer
<1>2. ASSUME NEW held \in {"empty", "half", "unended", "complete", "torn"},
             pc[s] = "reading", Shown(s, held),
             NEW b \in {"empty", "half", "unended", "complete", "torn"}, NEW u \in BOOLEAN,
             buffer' = [buffer EXCEPT ![s] = b], usage' = [usage EXCEPT ![s] = u],
             usage[s] => u,
             kind[s] # "bedrock" /\ (held \in {"unended", "complete"} \/ buffer[s] = "unended")
                => u \/ b \in {"unended", "complete"}
      PROVE  Soundness'
  <2>1. TypeOK' /\ pc' \in [Streams -> Places]
    BY <1>1, <1>2 DEF Shown
  <2>2. \A t \in Streams \ {s} : Kept(t)
    BY <1>2 DEF Shown, Kept
  <2>3. Sound(s)'
    BY <1>1, <1>2 DEF Shown, Sound
  <2>4. QED
    BY <2>1, <2>2, <2>3, KeptSound
<1>3. pc[s] = "reading" =>
         /\ Fed(buffer[s]) \subseteq {"empty", "half", "unended", "complete", "torn"}
         /\ buffer[s] = "unended" => Fed(buffer[s]) = {"complete"}
  BY <1>1, FedType DEF Sound
<1>4. CASE Chunk(s)
  <2>1. PICK held \in Fed(buffer[s]) : Shown(s, held) /\ buffer' = [buffer EXCEPT ![s] = held]
    BY <1>4 DEF Chunk
  <2>2. pc[s] = "reading" /\ usage' = [usage EXCEPT ![s] = usage[s]]
    BY <1>4 DEF Chunk
  <2>3. QED
    BY <1>2, <1>3, <2>1, <2>2
<1>5. CASE BedrockEvent(s)
  <2>1. PICK held \in {"empty", "complete"} :
           Shown(s, held) /\ buffer' = [buffer EXCEPT ![s] = held]
    BY <1>5 DEF BedrockEvent
  <2>2. /\ pc[s] = "reading" /\ kind[s] = "bedrock"
        /\ usage' = [usage EXCEPT ![s] = usage[s]]
    BY <1>5 DEF BedrockEvent
  <2>3. QED
    BY <1>2, <2>1, <2>2
<1>6. CASE BackendChunk(s) \/ PassthroughChunk(s)
  <2>1. PICK held \in Fed(buffer[s]) : Shown(s, held) /\ Parse(s, held)
    BY <1>6 DEF BackendChunk, PassthroughChunk
  <2>2. pc[s] = "reading"
    BY <1>6 DEF BackendChunk, PassthroughChunk
  <2>3. /\ buffer' = [buffer EXCEPT ![s] = IF held = "complete" THEN "empty" ELSE held]
        /\ usage' = [usage EXCEPT ![s] = usage[s] \/ held = "complete"]
    BY <2>1 DEF Parse
  <2>4. QED
    BY <1>2, <1>3, <2>1, <2>2, <2>3
<1>7. CASE Resume(s) \/ BedrockResume(s)
  <2>1. AsksForMore(s) /\ Parse(s, buffer[s])
    BY <1>7 DEF Resume, BedrockResume
  <2>2. TypeOK' /\ pc' \in [Streams -> Places]
    BY <2>1 DEF AsksForMore, Parse
  <2>3. \A t \in Streams \ {s} : Kept(t)
    BY <2>1 DEF AsksForMore, Parse, Kept
  <2>4. Sound(s)'
    BY <1>1, <2>1 DEF AsksForMore, Parse, Sound
  <2>5. QED
    BY <2>2, <2>3, <2>4, KeptSound
<1>8. QED
  BY <1>4, <1>5, <1>6, <1>7

\* The end of the generator.
LEMMA EndSound ==
    ASSUME Soundness, NEW s \in Streams,
           \/ Finally(s) \/ BedrockFinally(s) \/ BackendFinally(s) \/ PassthroughFinally(s)
           \/ Book(s) \/ HandOver(s)
    PROVE  Soundness'
<1> USE DEF Goto, Soundness, TypeOK, Places, SetupPlaces, GeneratorPlaces, LastPlaces,
            place, reading, steering, ghosts
<1>1. Sound(s)
  OBVIOUS
<1>2. CASE Finally(s)
  <2>1. TypeOK' /\ pc' \in [Streams -> Places]
    BY <1>2, ReleaseType DEF Finally, Leave, ReadRest
  <2>2. \A t \in Streams \ {s} : Kept(t)
    BY <1>2, ReleaseType DEF Finally, Leave, ReadRest, Kept
  <2>3. Sound(s)'
    BY <1>1, <1>2 DEF Finally, Leave, ReadRest, Sound
  <2>4. QED
    BY <2>1, <2>2, <2>3, KeptSound
<1>3. CASE BedrockFinally(s)
  BY <1>1, <1>3, KeptSound DEF BedrockFinally, Leave, Sound, Kept
<1>4. CASE BackendFinally(s) \/ PassthroughFinally(s)
  <2>1. Leave(s) /\ ReadRest(s) /\ UNCHANGED steering
    BY <1>4 DEF BackendFinally, PassthroughFinally
  <2>2. TypeOK' /\ pc' \in [Streams -> Places]
    BY <2>1 DEF Leave, ReadRest
  <2>3. \A t \in Streams \ {s} : Kept(t)
    BY <2>1 DEF Leave, ReadRest, Kept
  <2>4. Sound(s)'
    BY <1>1, <2>1 DEF Leave, ReadRest, Sound
  <2>5. QED
    BY <2>2, <2>3, <2>4, KeptSound
<1>5. CASE Book(s)
  <2>1. PICK b \in 0 .. 1, where \in {"handing_over", "over"} :
           booked' = [booked EXCEPT ![s] = b] /\ pc' = [pc EXCEPT ![s] = where]
    <3>1. booked[s] = 0 /\ booked = [booked EXCEPT ![s] = 0]
      BY <1>1, <1>5 DEF Book, Sound
    <3>2. \/ booked' = [booked EXCEPT ![s] = 1]
          \/ booked' = [booked EXCEPT ![s] = 0]
      BY <1>5, <3>1 DEF Book
    <3>3. pc' = [pc EXCEPT ![s] = "handing_over"] \/ pc' = [pc EXCEPT ![s] = "over"]
      BY <1>5 DEF Book
    <3>4. QED
      BY <3>2, <3>3
  <2>2. TypeOK' /\ pc' \in [Streams -> Places]
    BY <1>5, <2>1 DEF Book
  <2>3. \A t \in Streams \ {s} : Kept(t)
    BY <1>5, <2>1 DEF Book, Kept
  <2>4. Sound(s)'
    BY <1>1, <1>5, <2>1 DEF Book, Sound
  <2>5. QED
    BY <2>2, <2>3, <2>4, KeptSound
<1>6. CASE HandOver(s)
  <2>1. PICK fate \in {"delivered", "dropped"} :
          message' = [m \in Messages |-> IF m \in pending[s] THEN fate ELSE message[m]]
    BY <1>6 DEF HandOver
  <2>2. TypeOK' /\ pc' \in [Streams -> Places]
    BY <1>6, <2>1 DEF HandOver
  <2>3. QED
    BY <1>1, <1>6, <2>2, KeptSound DEF HandOver, Sound, Kept
<1>7. QED
  BY <1>2, <1>3, <1>4, <1>5, <1>6

\* Every step keeps every stream sound.
LEMMA NextSound == ASSUME Soundness, StreamAssumption, [Next]_vars PROVE Soundness'
<1>1. ASSUME NEW m \in Messages, QueueMessage(m)
      PROVE  Soundness'
  <2>1. UNCHANGED <<place, reading, active, pending, ghosts>>
    BY <1>1 DEF QueueMessage
  <2>2. TypeOK' /\ pc' = pc
    BY <1>1 DEF QueueMessage, Soundness, TypeOK, place, reading, ghosts
  <2>3. \A t \in Streams : Kept(t)
    BY <2>1 DEF Kept, place, reading, ghosts
  <2>4. QED
    BY <2>2, <2>3, KeptSound DEF Soundness
<1>2. CASE UNCHANGED vars
  BY <1>2 DEF vars, place, reading, steering, ghosts, Soundness, TypeOK, Sound
<1>3. QED
  BY <1>1, <1>2, OpenSound, SetupSound, ReadingSound, ChunkSound, EndSound
     DEF Next, GeneratorStep, Leaving

\* Soundness of every stream holds in every state.
LEMMA SoundAlways == Spec => []Soundness
<1>1. Init => Soundness
  BY StreamAssumption DEF Init, Soundness, TypeOK, Sound, Kinds, Keys, Places, SetupPlaces,
     StreamAssumption
<1>2. Soundness /\ [Next]_vars => Soundness'
  BY NextSound, StreamAssumption
<1>3. QED
  BY <1>1, <1>2, PTL DEF Spec

\* Every variable of every stream stays in its range; above all no stream records
\* two outcomes and none tries to connect more often than it may.
THEOREM TypeCorrect == Spec => []TypeOK
BY SoundAlways, PTL DEF Soundness

\* Whatever the upstream sends and wherever the client leaves, usage that reached
\* the proxy is known when the outcome is booked.
THEOREM UsageIsBooked == Spec => []UsageNotLost
<1>1. Soundness => UsageNotLost
  BY DEF Soundness, Sound, UsageNotLost
<1>2. QED
  BY <1>1, SoundAlways, PTL

-----------------------------------------------------------------------------
(* What a step does to the session keys and the follow-up requests.            *)

\* Of the streams other than s nothing changes that the keys and turns look at.
Others(s) ==
    \A t \in Streams \ {s} :
        /\ pc'[t] = pc[t] /\ kind'[t] = kind[t] /\ key'[t] = key[t]
        /\ whole'[t] = whole[t]

\* s goes on and keeps what it holds; if it is only opened, then not with the
\* name of a session whose key is taken.
Quiet(s) ==
    /\ UNCHANGED steering /\ Others(s)
    /\ key'[s] = key[s] \/ ~(key'[s] = "named" /\ "named" \in active)
    /\ HoldsKey(s) => HoldsKey(s)' /\ key'[s] = key[s]
    /\ whole[s] => whole'[s]

\* s gives its key back, and is handed the messages only if it is whole.
Giving(s) ==
    /\ \E drain \in {FALSE, whole[s]} : ReleaseKey(s, drain)
    /\ Others(s) /\ UNCHANGED <<key, whole>>
    /\ pending[s] = {}

\* Until the response is returned a step keeps the key, takes it or gives it back.
LEMMA SetupKinds ==
    ASSUME Soundness, NEW s \in Streams,
           \/ Arrive(s) \/ ArriveBedrock(s) \/ ArriveBackend(s) \/ ArrivePassthrough(s)
           \/ SetupStep(s) \/ CancelSetup(s)
    PROVE  Quiet(s) \/ Giving(s) \/ TakeKey(s)
<1> USE DEF Goto, Soundness, TypeOK, place, reading, steering, ghosts
<1>1. Sound(s)
  OBVIOUS
<1>2. CASE \/ Arrive(s) \/ ArriveBedrock(s) \/ ArriveBackend(s) \/ ArrivePassthrough(s)
  <2>1. PICK k \in Kinds, name \in Keys, where \in {"checked", "returned", "connecting"} :
           Opens(s, k, name, where) /\ ~(name = "named" /\ "named" \in active)
    BY <1>2 DEF Arrive, ArriveBedrock, ArriveBackend, ArrivePassthrough, Kinds, Keys, ShouldQueue
  <2>2. QED
    BY <2>1 DEF Opens, Quiet, Others, HoldsKey
<1>3. CASE ConnectFails(s)
  <2>1. CASE UNCHANGED <<pc, steering>>
    BY <1>3, <2>1 DEF ConnectFails, Quiet, Others, HoldsKey
  <2>2. CASE Goto(s, "over") /\ ReleaseKey(s, FALSE)
    <3>1. Others(s) /\ UNCHANGED <<key, whole>>
      BY <1>3, <2>2 DEF ConnectFails, Others
    <3>2. pending[s] = {}
      BY <1>1, <1>3 DEF ConnectFails, Sound
    <3>3. QED
      BY <2>2, <3>1, <3>2 DEF Giving
  <2>3. QED
    BY <1>3, <2>1, <2>2 DEF ConnectFails
<1>4. CASE PassthroughFails(s) \/ PassthroughRefusal(s)
  BY <1>4 DEF PassthroughFails, PassthroughRefusal, RefusalRead, Quiet, Others, HoldsKey
<1>5. CASE Overloaded(s) \/ UpstreamRefuses(s) \/ ReadRefusal(s) \/ UpstreamAccepts(s)
  BY <1>5 DEF Overloaded, UpstreamRefuses, ReadRefusal, RefusalRead, UpstreamAccepts,
              Quiet, Others, HoldsKey
<1>6. CASE BookRefusal(s) \/ CancelSetup(s)
  <2>1. ReleaseKey(s, FALSE)
    BY <1>6 DEF BookRefusal, CancelSetup
  <2>2. Others(s) /\ UNCHANGED <<key, whole>>
    BY <1>6 DEF BookRefusal, CancelSetup, Others
  <2>3. pending[s] = {}
    BY <1>1, <1>6 DEF BookRefusal, CancelSetup, Sound
  <2>4. QED
    BY <2>1, <2>2, <2>3 DEF Giving
<1>7. QED
  BY <1>2, <1>3, <1>4, <1>5, <1>6 DEF SetupStep

\* A generator keeps the key, gives it back at its end, or hands over.
LEMMA GeneratorKinds ==
    ASSUME Soundness, NEW s \in Streams,
           GeneratorStep(s) \/ NeverStarted(s) \/ ClientLeaves(s)
    PROVE  Quiet(s) \/ Giving(s) \/ HandOver(s)
<1> USE DEF Goto, Soundness, TypeOK, place, reading, steering, ghosts
<1>1. Sound(s)
  OBVIOUS
<1>2. CASE \/ Start(s) \/ NeverStarted(s) \/ UpstreamEnds(s) \/ UpstreamBreaks(s)
           \/ ShowError(s) \/ ClientLeaves(s)
  BY <1>2 DEF Start, NeverStarted, UpstreamEnds, UpstreamBreaks, ShowError, ClientLeaves,
              Quiet, Others, HoldsKey
<1>3. CASE \/ Chunk(s) \/ BedrockEvent(s) \/ BackendChunk(s) \/ PassthroughChunk(s)
  <2>1. pc[s] = "reading" /\ \E held : Shown(s, held)
    BY <1>3 DEF Chunk, BedrockEvent, BackendChunk, PassthroughChunk
  <2>2. QED
    BY <2>1 DEF Shown, Quiet, Others, HoldsKey
<1>4. CASE Resume(s) \/ BedrockResume(s)
  <2>1. AsksForMore(s)
    BY <1>4 DEF Resume, BedrockResume
  <2>2. QED
    BY <2>1 DEF AsksForMore, Quiet, Others, HoldsKey
<1>5. CASE AfterEnd(s)
  <2>1. /\ pc' \in {[pc EXCEPT ![s] = "finally"], [pc EXCEPT ![s] = "failing"]}
        /\ whole' \in {whole, [whole EXCEPT ![s] = TRUE]}
        /\ UNCHANGED <<kind, key, steering>>
    BY <1>5 DEF AfterEnd
  <2>2. QED
    BY <2>1 DEF Quiet, Others, HoldsKey
<1>6. CASE Finally(s)
  <2>1. ReleaseKey(s, whole[s]) /\ Leave(s)
    BY <1>6 DEF Finally
  <2>2. Others(s) /\ UNCHANGED <<key, whole>>
    BY <2>1 DEF Leave, Others
  <2>3. pending[s] = {}
    BY <1>1, <2>1 DEF Leave, Sound
  <2>4. QED
    BY <2>1, <2>2, <2>3 DEF Giving
<1>7. CASE BedrockFinally(s) \/ BackendFinally(s) \/ PassthroughFinally(s)
  <2>1. Leave(s) /\ kind[s] # "direct" /\ UNCHANGED steering
    BY <1>7 DEF BedrockFinally, BackendFinally, PassthroughFinally
  <2>2. QED
    BY <2>1 DEF Leave, Quiet, Others, HoldsKey
<1>8. CASE Book(s)
  BY <1>8 DEF Book, Quiet, Others, HoldsKey
<1>9. QED
  BY <1>2, <1>3, <1>4, <1>5, <1>6, <1>7, <1>8 DEF GeneratorStep

\* Every step is one of five, or changes nothing.
LEMMA StepKinds ==
    ASSUME Soundness, [Next]_vars
    PROVE  \/ \E s \in Streams : Quiet(s) \/ Giving(s) \/ TakeKey(s) \/ HandOver(s)
           \/ \E m \in Messages : QueueMessage(m)
           \/ UNCHANGED vars
BY SetupKinds, GeneratorKinds DEF Next, Leaving

-----------------------------------------------------------------------------
(* The keys.                                                                   *)

\* Whoever made a key active still holds it.
KeysHeld == \A k \in active : \E s \in Streams : key[s] = k /\ HoldsKey(s)

\* Each kind of step keeps a holder for every active key.
LEMMA KeysStep ==
    ASSUME Soundness, KeysHeld, [Next]_vars
    PROVE  KeysHeld'
<1>1. ASSUME NEW s \in Streams, Quiet(s)
      PROVE  KeysHeld'
  <2>1. \A t \in Streams : HoldsKey(t) => HoldsKey(t)' /\ key'[t] = key[t]
    BY <1>1 DEF Quiet, Others, HoldsKey
  <2>2. QED
    BY <1>1, <2>1 DEF KeysHeld, Quiet, steering
<1>2. ASSUME NEW s \in Streams, Giving(s)
      PROVE  KeysHeld'
  <2>1. active' = active \ {key[s]}
    BY <1>2 DEF Giving, ReleaseKey
  <2>2. \A t \in Streams \ {s} : HoldsKey(t) => HoldsKey(t)' /\ key'[t] = key[t]
    BY <1>2 DEF Giving, Others, HoldsKey
  <2>3. QED
    BY <2>1, <2>2 DEF KeysHeld
<1>3. ASSUME NEW s \in Streams, TakeKey(s)
      PROVE  KeysHeld'
  <2>1. kind[s] = "direct" /\ active' = active \cup {key[s]}
    BY <1>3 DEF TakeKey, Soundness, Sound
  <2>2. HoldsKey(s)' /\ key'[s] = key[s]
    BY <1>3, <2>1 DEF TakeKey, Goto, HoldsKey, Soundness
  <2>3. \A t \in Streams \ {s} : HoldsKey(t) => HoldsKey(t)' /\ key'[t] = key[t]
    BY <1>3 DEF TakeKey, Goto, HoldsKey, Soundness
  <2>4. QED
    BY <2>1, <2>2, <2>3 DEF KeysHeld
<1>4. ASSUME NEW s \in Streams, HandOver(s)
      PROVE  KeysHeld'
  <2>1. active' = active /\ \A t \in Streams : HoldsKey(t) => HoldsKey(t)' /\ key'[t] = key[t]
    BY <1>4 DEF HandOver, Goto, HoldsKey, Soundness
  <2>2. QED
    BY <2>1 DEF KeysHeld
<1>5. CASE UNCHANGED vars \/ \E m \in Messages : QueueMessage(m)
  BY <1>5 DEF QueueMessage, vars, place, steering, KeysHeld, HoldsKey
<1>6. QED
  BY <1>1, <1>2, <1>3, <1>4, <1>5, StepKinds

\* An active key always has a holder.
LEMMA KeysAlways == Spec => []KeysHeld
<1>1. Init => KeysHeld
  BY DEF Init, KeysHeld
<1>2. Soundness /\ KeysHeld /\ [Next]_vars => KeysHeld'
  BY KeysStep
<1>3. QED
  BY <1>1, <1>2, SoundAlways, PTL DEF Spec

\* A stream that is over has closed its response, and no session key outlives
\* the streams that hold it: a follow-up is never queued behind a stream that is
\* gone, except behind one whose generator never started.
THEOREM StreamsReleaseWhatTheyHold == Spec => []EndsReleased
<1>1. Soundness /\ KeysHeld => EndsReleased
  BY DEF Soundness, Sound, KeysHeld, EndsReleased
<1>2. QED
  BY <1>1, SoundAlways, KeysAlways, PTL

-----------------------------------------------------------------------------
(* The turns. That a drained message belongs to its stream's client rests on   *)
(* what holds while it waits: its session's key is taken, hence no stream of   *)
(* that session opens, hence every one there is was there when it came.        *)

Turns ==
    /\ \A m \in Messages : m \in queue <=> message[m] = "queued"
    /\ queue # {} => "named" \in active
    /\ \A m \in queue, s \in Streams : key[s] = "named" => s \in heard[m]
    /\ \A m \in Messages, s \in Streams :
          m \in pending[s] =>
             /\ s \in heard[m] /\ whole[s] /\ message[m] \notin {"unsent", "queued"}
             /\ \A t \in Streams \ {s} : m \notin pending[t]

\* The messages of a session leave the queue together, with its key.
LEMMA GivingTurns ==
    ASSUME Soundness, Turns, NEW s \in Streams, Giving(s)
    PROVE  Turns'
<1> DEFINE mine == IF key[s] = "named" THEN queue ELSE {}
<1>1. PICK drain \in {FALSE, whole[s]} : ReleaseKey(s, drain)
  BY DEF Giving
<1>2. /\ active' = active \ {key[s]} /\ queue' = queue \ mine /\ heard' = heard
      /\ pending' = [pending EXCEPT ![s] = IF drain THEN mine ELSE {}]
      /\ message' = [m \in Messages |->
                       IF m \in mine THEN IF drain THEN "drained" ELSE "dropped"
                       ELSE message[m]]
  BY <1>1 DEF ReleaseKey
<1>3. \A t \in Streams : key'[t] = key[t] /\ whole'[t] = whole[t]
  BY DEF Giving
<1>4. pending \in [Streams -> SUBSET Messages] /\ queue \subseteq Messages
  BY DEF Soundness, TypeOK
<1>5. /\ \A m \in mine : m \in queue /\ message[m] = "queued" /\ s \in heard[m]
      /\ \A m \in mine : \A t \in Streams : m \notin pending[t]
      /\ queue' # {} => key[s] # "named"
  BY <1>2, <1>4 DEF Turns
<1>6. \A t \in Streams \ {s} : pending'[t] = pending[t]
  BY <1>2, <1>4
<1>7. \A m \in pending'[s] : m \in mine /\ drain
  BY <1>2, <1>4
<1> HIDE DEF mine
<1>8. \A m \in Messages : m \in queue' <=> message'[m] = "queued"
  BY <1>2, <1>5 DEF Turns
<1>9. queue' # {} => "named" \in active'
  BY <1>2, <1>5 DEF Turns
<1>10. \A m \in queue', t \in Streams : key'[t] = "named" => t \in heard'[m]
  BY <1>2, <1>3 DEF Turns
<1>11. ASSUME NEW m \in Messages, NEW t \in Streams, m \in pending'[t]
       PROVE  /\ t \in heard'[m] /\ whole'[t] /\ message'[m] \notin {"unsent", "queued"}
              /\ \A u \in Streams \ {t} : m \notin pending'[u]
  <2>1. CASE t = s
    BY <1>2, <1>3, <1>5, <1>6, <1>7, <1>11, <2>1
  <2>2. CASE t # s
    <3>1. m \in pending[t] /\ m \notin mine
      BY <1>5, <1>6, <1>11, <2>2
    <3>2. \A u \in Streams \ {t} : m \notin pending'[u]
      BY <1>6, <1>7, <3>1 DEF Turns
    <3>3. QED
      BY <1>2, <1>3, <3>1, <3>2 DEF Turns
  <2>3. QED
    BY <2>1, <2>2
<1>12. QED
  BY <1>8, <1>9, <1>10, <1>11 DEF Turns

\* Each kind of step keeps the turns.
LEMMA TurnsStep ==
    ASSUME Soundness, Turns, [Next]_vars
    PROVE  Turns'
<1>1. ASSUME NEW s \in Streams, Quiet(s)
      PROVE  Turns'
  <2>1. /\ \A t \in Streams : key'[t] = key[t] \/ ~(key'[t] = "named" /\ "named" \in active)
        /\ \A t \in Streams : whole[t] => whole'[t]
        /\ UNCHANGED <<active, queue, message, heard, pending>>
    BY <1>1 DEF Quiet, Others, steering
  <2>2. QED
    BY <2>1 DEF Turns
<1>2. ASSUME NEW s \in Streams, TakeKey(s)
      PROVE  Turns'
  <2>1. /\ active \subseteq active'
        /\ UNCHANGED <<key, whole, queue, message, heard, pending>>
    BY <1>2 DEF TakeKey, reading
  <2>2. QED
    BY <2>1 DEF Turns
<1>3. ASSUME NEW s \in Streams, HandOver(s)
      PROVE  Turns'
  <2>1. PICK fate \in {"delivered", "dropped"} :
          message' = [m \in Messages |-> IF m \in pending[s] THEN fate ELSE message[m]]
    BY <1>3 DEF HandOver
  <2>2. UNCHANGED <<key, whole, active, queue, heard, pending>>
    BY <1>3 DEF HandOver
  <2>3. \A m \in Messages : /\ message'[m] = "queued" <=> message[m] = "queued"
                            /\ message'[m] = "unsent" => message[m] = "unsent"
    BY <2>1 DEF Turns
  <2>4. QED
    BY <2>2, <2>3 DEF Turns
<1>4. ASSUME NEW m \in Messages, QueueMessage(m)
      PROVE  Turns'
  <2>1. /\ message[m] = "unsent" /\ "named" \in active
        /\ queue' = queue \cup {m} /\ message' = [message EXCEPT ![m] = "queued"]
        /\ heard' = [heard EXCEPT ![m] = {s \in Streams : pc[s] # "idle"}]
        /\ UNCHANGED <<key, whole, active, pending>>
    BY <1>4 DEF QueueMessage, ShouldQueue, place, reading
  <2>2. \A s \in Streams : key[s] = "named" => pc[s] # "idle"
    BY DEF Soundness, Sound
  <2>3. \A s \in Streams : m \notin pending[s]
    BY <2>1 DEF Turns
  <2>4. /\ \A x \in Messages \ {m} : message'[x] = message[x] /\ heard'[x] = heard[x]
        /\ message'[m] = "queued" /\ heard'[m] = {s \in Streams : pc[s] # "idle"}
        /\ queue \subseteq Messages
    BY <2>1 DEF Soundness, TypeOK
  <2>5. QED
    BY <2>1, <2>2, <2>3, <2>4 DEF Turns
<1>5. CASE UNCHANGED vars
  BY <1>5 DEF vars, place, reading, steering, Turns
<1>6. QED
  BY <1>1, <1>2, <1>3, <1>4, <1>5, GivingTurns, StepKinds

\* The turns hold in every state.
LEMMA TurnsAlways == Spec => []Turns
<1>1. Init => Turns
  BY DEF Init, Turns
<1>2. Soundness /\ Turns /\ [Next]_vars => Turns'
  BY TurnsStep
<1>3. QED
  BY <1>1, <1>2, SoundAlways, PTL DEF Spec

\* However streams of one session overlap, a follow-up that was queued is handed
\* over once, by a stream that was there when it was accepted and ran to its end;
\* and as long as it waits there is a key to release.
THEOREM FollowUpsKeepTheirTurn == Spec => []InItsTurn
<1>1. Turns => InItsTurn
  BY DEF Turns, InItsTurn
<1>2. QED
  BY <1>1, TurnsAlways, PTL

===============================================================================
