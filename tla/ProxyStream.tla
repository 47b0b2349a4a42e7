------------------------------ MODULE ProxyStream ------------------------------
(***************************************************************************)
(* The streamed replies of the proxy: StreamingMixin of                    *)
(* headroom/proxy/handlers/streaming.py and _handle_streaming_passthrough  *)
(* of openai.py.  Four kinds of stream forward an upstream's events and    *)
(* book one outcome; the direct kind also holds a session key, and while a *)
(* key is held a follow-up request of that session is queued and handed    *)
(* over at the end of the stream.                                          *)
(*                                                                         *)
(* An action runs from one await or yield to the next.  Of the bytes of a  *)
(* stream only what the parser's buffer holds of a usage event is kept.    *)
(* The memory's tool calls, the debug capture and the prefix tracker show  *)
(* in what can go wrong at their place.                                    *)
(***************************************************************************)
EXTENDS Naturals

CONSTANTS
    Streams,        \* the requests that open a stream
    Keyless,        \* bound: those of them that may be of another kind than
                    \* direct; their sessions are not shared
    Messages,       \* the follow-up requests of the named session
    Attempts        \* retry_max_attempts, at least one

ASSUME StreamAssumption ==
    /\ Keyless \subseteq Streams
    /\ Attempts \in Nat \ {0}

VARIABLES
    pc,             \* where the stream's handler or generator is
    kind,           \* which of the four it is
    key,            \* its session key: explicit header, or coarse hash
    attempt,        \* connection attempts that failed
    up,             \* the upstream response
    buffer,         \* what sse_buffer holds of a usage event
    usage,          \* whether the stream's usage is known
    whole,          \* completed_normally
    pending,        \* the messages drained for this stream's client
    active,         \* _active_streams
    queue,          \* _mid_turn_queues of the named session
    message,        \* ghost: what became of a follow-up request
    heard,          \* ghost: the streams under way when it was accepted
    sent,           \* ghost: a readable usage event reached the proxy
    booked          \* ghost: the outcomes recorded for the stream

place == <<pc, kind, key, attempt, up>>
reading == <<buffer, usage, whole>>
steering == <<active, queue, message, heard, pending>>
ghosts == <<sent, booked>>
vars == <<place, reading, steering, ghosts>>

Kinds == {"direct", "bedrock", "backend", "passthrough"}
Keys == {"named", "coarse", "none"}

Init ==
    /\ pc = [s \in Streams |-> "idle"]
    /\ kind = [s \in Streams |-> "direct"]
    /\ key = [s \in Streams |-> "none"]
    /\ attempt = [s \in Streams |-> 0]
    /\ up = [s \in Streams |-> "none"]
    /\ buffer = [s \in Streams |-> "empty"]
    /\ usage = [s \in Streams |-> FALSE]
    /\ whole = [s \in Streams |-> FALSE]
    /\ pending = [s \in Streams |-> {}]
    /\ active = {} /\ queue = {}
    /\ message = [m \in Messages |-> "unsent"]
    /\ heard = [m \in Messages |-> {}]
    /\ sent = [s \in Streams |-> FALSE]
    /\ booked = [s \in Streams |-> 0]

Goto(s, where) == pc' = [pc EXCEPT ![s] = where]

-----------------------------------------------------------------------------
(* Session keys and follow-up requests. *)

\* _should_queue_mid_turn: only a session named by a header is queued.
ShouldQueue(k) == k = "named" /\ k \in active

Opens(s, k, name, where) ==
    /\ pc[s] = "idle"
    /\ kind' = [kind EXCEPT ![s] = k]
    /\ key' = [key EXCEPT ![s] = name]
    /\ Goto(s, where)
    /\ UNCHANGED <<attempt, up, reading, steering, ghosts>>

\* A request that is not queued goes on to open a stream; its handler works
\* on the body before the stream takes the key.
Arrive(s) ==
    \E name \in {"named", "coarse"} :
        ~ShouldQueue(name) /\ Opens(s, "direct", name, "checked")

\* The other kinds hold no key.  Bedrock and the backend open their stream
\* when the first chunk is asked for.
ArriveBedrock(s) == s \in Keyless /\ Opens(s, "bedrock", "none", "returned")
ArriveBackend(s) == s \in Keyless /\ Opens(s, "backend", "none", "returned")
ArrivePassthrough(s) ==
    s \in Keyless /\ Opens(s, "passthrough", "none", "connecting")

QueueMessage(m) ==
    /\ message[m] = "unsent"
    /\ ShouldQueue("named")
    /\ queue' = queue \cup {m}
    /\ message' = [message EXCEPT ![m] = "queued"]
    /\ heard' = [heard EXCEPT ![m] = {s \in Streams : pc[s] # "idle"}]
    /\ UNCHANGED <<place, reading, active, pending, ghosts>>

TakeKey(s) ==
    /\ pc[s] = "checked"
    /\ active' = active \cup {key[s]}
    /\ Goto(s, "connecting")
    /\ UNCHANGED <<kind, key, attempt, up, reading, queue, message, heard,
                   pending, ghosts>>

\* Mistake: a queue that is not drained is left for the next.
ReleaseKeyOnly(s, drain) ==
    LET mine == IF key[s] = "named" /\ drain THEN queue ELSE {} IN
    /\ active' = active \ {key[s]}
    /\ queue' = queue \ mine
    /\ pending' = [pending EXCEPT ![s] = mine]
    /\ message' = [m \in Messages |-> IF m \in mine THEN "drained" ELSE message[m]]
    /\ UNCHANGED heard

\* _cleanup_mid_turn_stream: the queue goes with the key, whoever filled it.
ReleaseKey(s, drain) ==
    LET mine == IF key[s] = "named" THEN queue ELSE {} IN
    /\ active' = active \ {key[s]}
    /\ queue' = queue \ mine
    /\ pending' = [pending EXCEPT ![s] = IF drain THEN mine ELSE {}]
    /\ message' = [m \in Messages |->
                     IF m \in mine THEN IF drain THEN "drained" ELSE "dropped"
                     ELSE message[m]]
    /\ UNCHANGED heard

-----------------------------------------------------------------------------
(* Opening the upstream stream. *)

\* Any transport error is tried again while no byte has reached the client.
\* The last one is answered with an error event.
ConnectFails(s) ==
    /\ pc[s] = "connecting" /\ kind[s] = "direct"
    /\ attempt' = [attempt EXCEPT ![s] = @ + 1]
    /\ IF attempt[s] + 1 < Attempts
       THEN UNCHANGED <<pc, steering>>
       ELSE Goto(s, "over") /\ ReleaseKey(s, FALSE)
    /\ UNCHANGED <<kind, key, up, reading, ghosts>>

\* The passthrough tries once and answers 502.
PassthroughFails(s) ==
    /\ pc[s] = "connecting" /\ kind[s] = "passthrough"
    /\ Goto(s, "over")
    /\ UNCHANGED <<kind, key, attempt, up, reading, steering, ghosts>>

\* 429 and 529 are tried again after closing the response, but for the last.
Overloaded(s) ==
    /\ pc[s] = "connecting" /\ kind[s] = "direct"
    /\ attempt[s] + 1 < Attempts
    /\ attempt' = [attempt EXCEPT ![s] = @ + 1]
    /\ UNCHANGED <<pc, kind, key, up, reading, steering, ghosts>>

UpstreamRefuses(s) ==
    /\ pc[s] = "connecting"
    /\ up' = [up EXCEPT ![s] = "open"]
    /\ Goto(s, "refused")
    /\ UNCHANGED <<kind, key, attempt, reading, steering, ghosts>>

RefusalRead(s, where) ==
    /\ pc[s] = "refused"
    /\ up' = [up EXCEPT ![s] = "closed"]
    /\ Goto(s, where)
    /\ UNCHANGED <<kind, key, attempt, reading, steering, ghosts>>

\* A body that cannot be read is replaced; the response is closed either way.
ReadRefusal(s) == kind[s] = "direct" /\ RefusalRead(s, "booking_refusal")

\* The passthrough returns or raises, and records nothing.
PassthroughRefusal(s) == kind[s] = "passthrough" /\ RefusalRead(s, "over")

\* A failed record leaves through the guard of _stream_response.
BookRefusal(s) ==
    /\ pc[s] = "booking_refusal"
    /\ booked' = [booked EXCEPT ![s] = @ + 1] \/ UNCHANGED booked
    /\ ReleaseKey(s, FALSE)
    /\ Goto(s, "over")
    /\ UNCHANGED <<kind, key, attempt, up, reading, sent>>

\* The generator is handed to the server, which has not asked it for a chunk.
UpstreamAccepts(s) ==
    /\ pc[s] = "connecting"
    /\ up' = [up EXCEPT ![s] = "open"]
    /\ Goto(s, "returned")
    /\ UNCHANGED <<kind, key, attempt, reading, steering, ghosts>>

\* Mistake: the guard catches exceptions and no cancellation.
CancelUnguarded(s) ==
    /\ pc[s] \in {"connecting", "refused", "booking_refusal"}
    /\ up' = [up EXCEPT ![s] = IF @ = "open" THEN "closed" ELSE @]
    /\ Goto(s, "over")
    /\ UNCHANGED <<kind, key, attempt, reading, steering, ghosts>>

\* The guard: a cancelled set-up gives the key back.
CancelSetup(s) ==
    /\ pc[s] \in {"connecting", "refused", "booking_refusal"}
    /\ up' = [up EXCEPT ![s] = IF @ = "open" THEN "closed" ELSE @]
    /\ ReleaseKey(s, FALSE)
    /\ Goto(s, "over")
    /\ UNCHANGED <<kind, key, attempt, buffer, usage, whole, ghosts>>

-----------------------------------------------------------------------------
(* The generator, up to the end of its loop. *)

Start(s) ==
    /\ pc[s] = "returned"
    /\ up' = [up EXCEPT ![s] = "open"]
    /\ Goto(s, "reading")
    /\ UNCHANGED <<kind, key, attempt, reading, steering, ghosts>>

\* A generator that was never asked for a chunk has no finally block to run.
NeverStarted(s) ==
    /\ pc[s] = "returned"
    /\ Goto(s, "abandoned")
    /\ UNCHANGED <<kind, key, attempt, up, buffer, usage, whole, steering,
                   ghosts>>

\* What the buffer may hold after the next chunk.  Half a usage event; all of
\* it but the blank line; or the blank line too.  A half that outgrows the
\* limit is cut to its tail, which is of no use when its end comes.
Fed(held) ==
    CASE held = "empty" -> {"empty", "half", "unended", "complete"}
      [] held = "half" -> {"half", "unended", "complete", "torn"}
      [] held = "unended" -> {"complete"}
      [] held = "torn" -> {"torn", "empty"}

\* _parse_sse_usage_from_buffer: complete events are taken out and read.
Parse(s, held) ==
    /\ usage' = [usage EXCEPT ![s] = @ \/ held = "complete"]
    /\ buffer' = [buffer EXCEPT ![s] = IF held = "complete" THEN "empty"
                                       ELSE held]

\* A chunk after which the buffer holds this is passed on.
Shown(s, held) ==
    /\ sent' = [sent EXCEPT ![s] = @ \/ held \in {"unended", "complete"}]
    /\ Goto(s, "shown")
    /\ UNCHANGED <<kind, key, attempt, up, whole, steering, booked>>

\* A chunk is passed on before it is parsed.
Chunk(s) ==
    /\ pc[s] = "reading" /\ kind[s] = "direct"
    /\ \E held \in Fed(buffer[s]) :
          Shown(s, held) /\ buffer' = [buffer EXCEPT ![s] = held]
    /\ UNCHANGED usage

\* Bedrock's events come whole.
BedrockEvent(s) ==
    /\ pc[s] = "reading" /\ kind[s] = "bedrock"
    /\ \E held \in {"empty", "complete"} :
          Shown(s, held) /\ buffer' = [buffer EXCEPT ![s] = held]
    /\ UNCHANGED usage

\* The backend and the passthrough parse a chunk before they pass it on, the
\* backend without a limit on its buffer.
BackendChunk(s) ==
    /\ pc[s] = "reading" /\ kind[s] = "backend"
    /\ \E held \in Fed(buffer[s]) \ {"torn"} : Shown(s, held) /\ Parse(s, held)

PassthroughChunk(s) ==
    /\ pc[s] = "reading" /\ kind[s] = "passthrough"
    /\ \E held \in Fed(buffer[s]) : Shown(s, held) /\ Parse(s, held)

AsksForMore(s) ==
    /\ pc[s] = "shown"
    /\ Goto(s, "reading")
    /\ UNCHANGED <<kind, key, attempt, up, whole, steering, ghosts>>

Resume(s) ==
    kind[s] # "bedrock" /\ AsksForMore(s) /\ Parse(s, buffer[s])

\* Bedrock reads the usage of the event it has passed on.
BedrockResume(s) ==
    kind[s] = "bedrock" /\ AsksForMore(s) /\ Parse(s, buffer[s])

UpstreamEnds(s) ==
    /\ pc[s] = "reading"
    /\ up' = [up EXCEPT ![s] = "closed"]
    /\ Goto(s, IF kind[s] = "direct" THEN "tools" ELSE "finally")
    /\ UNCHANGED <<kind, key, attempt, reading, steering, ghosts>>

\* Mistake: a memory tool's result asks the upstream to go on.
AfterEndContinues(s) ==
    /\ pc[s] = "tools"
    /\ up' = [up EXCEPT ![s] = "open"]
    /\ Goto(s, "reading")
    /\ UNCHANGED <<kind, key, attempt, reading, steering, ghosts>>

\* Memory tools and retrieval feedback, all of it or up to a return (the
\* credential error) or an exception.
AfterEnd(s) ==
    /\ pc[s] = "tools"
    /\ \/ whole' = [whole EXCEPT ![s] = TRUE] /\ Goto(s, "finally")
       \/ UNCHANGED whole /\ pc' \in {[pc EXCEPT ![s] = "finally"],
                                      [pc EXCEPT ![s] = "failing"]}
    /\ UNCHANGED <<kind, key, attempt, up, buffer, usage, steering, ghosts>>

\* An upstream error is told to the client by an event, except by the
\* passthrough, which lets it out.
UpstreamBreaks(s) ==
    /\ pc[s] = "reading"
    /\ up' = [up EXCEPT ![s] = "closed"]
    /\ Goto(s, IF kind[s] = "passthrough" THEN "finally" ELSE "failing")
    /\ UNCHANGED <<kind, key, attempt, reading, steering, ghosts>>

ShowError(s) ==
    /\ pc[s] = "failing"
    /\ Goto(s, "finally")
    /\ UNCHANGED <<kind, key, attempt, up, reading, steering, ghosts>>

\* The generator is cancelled or closed at an await or at a yield.
ClientLeaves(s) ==
    /\ pc[s] \in {"reading", "shown", "tools", "failing"}
    /\ up' = [up EXCEPT ![s] = "closed"]
    /\ Goto(s, "finally")
    /\ UNCHANGED <<kind, key, attempt, buffer, usage, whole, steering, ghosts>>

Leave(s) ==
    /\ pc[s] = "finally"
    /\ Goto(s, "booking")
    /\ UNCHANGED <<kind, key, attempt, up, whole, ghosts>>

\* Mistake: what is left in the buffer is not read.
ReadNothing(s) ==
    /\ buffer' = [buffer EXCEPT ![s] = "empty"]
    /\ UNCHANGED usage

\* What is left in the buffer is read as if it had ended.
ReadRest(s) ==
    /\ usage' = [usage EXCEPT ![s] = @ \/ buffer[s] \in {"unended", "complete"}]
    /\ buffer' = [buffer EXCEPT ![s] = "empty"]

\* The finally block up to its first await gives the key back, with its
\* messages if the stream completed.
Finally(s) ==
    kind[s] = "direct" /\ Leave(s) /\ ReleaseKey(s, whole[s]) /\ ReadRest(s)

\* Bedrock has no buffer: an event whose usage was not read yet is lost.
BedrockFinally(s) ==
    /\ kind[s] = "bedrock" /\ Leave(s)
    /\ buffer' = [buffer EXCEPT ![s] = "empty"]
    /\ UNCHANGED <<usage, steering>>

BackendFinally(s) ==
    kind[s] = "backend" /\ Leave(s) /\ ReadRest(s) /\ UNCHANGED steering

PassthroughFinally(s) ==
    kind[s] = "passthrough" /\ Leave(s) /\ ReadRest(s) /\ UNCHANGED steering

\* A record that fails is put up with by the direct kind and let out by the
\* others, whose stream is over anyway.
Book(s) ==
    /\ pc[s] = "booking"
    /\ booked' = [booked EXCEPT ![s] = @ + 1] \/ UNCHANGED booked
    /\ Goto(s, IF pending[s] # {} THEN "handing_over" ELSE "over")
    /\ UNCHANGED <<kind, key, attempt, up, reading, steering, sent>>

\* The event headroom_pending_messages is the last of the stream.
HandOver(s) ==
    /\ pc[s] = "handing_over"
    /\ \E fate \in {"delivered", "dropped"} :
          message' = [m \in Messages |-> IF m \in pending[s] THEN fate
                                         ELSE message[m]]
    /\ Goto(s, "over")
    /\ UNCHANGED <<kind, key, attempt, up, buffer, usage, whole, active, queue,
                   heard, pending, ghosts>>

-----------------------------------------------------------------------------
SetupStep(s) ==
    TakeKey(s) \/ ConnectFails(s) \/ PassthroughFails(s) \/ Overloaded(s)
    \/ UpstreamRefuses(s) \/ ReadRefusal(s) \/ PassthroughRefusal(s)
    \/ BookRefusal(s) \/ UpstreamAccepts(s)

GeneratorStep(s) ==
    Start(s) \/ Chunk(s) \/ BedrockEvent(s) \/ BackendChunk(s)
    \/ PassthroughChunk(s) \/ Resume(s) \/ BedrockResume(s)
    \/ UpstreamEnds(s) \/ AfterEnd(s) \/ UpstreamBreaks(s) \/ ShowError(s)
    \/ Finally(s) \/ BedrockFinally(s) \/ BackendFinally(s)
    \/ PassthroughFinally(s) \/ Book(s) \/ HandOver(s)

Leaving(s) == CancelSetup(s) \/ NeverStarted(s) \/ ClientLeaves(s)

Next ==
    \/ \E s \in Streams :
          Arrive(s) \/ ArriveBedrock(s) \/ ArriveBackend(s)
          \/ ArrivePassthrough(s) \/ SetupStep(s) \/ GeneratorStep(s) \/ Leaving(s)
    \/ \E m \in Messages : QueueMessage(m)

\* The handler goes on when its await is done, the server asks for the next
\* chunk or closes the generator, and an upstream ends: a read that finds
\* nothing more ends in its timeout.
Fairness ==
    \A s \in Streams :
        /\ WF_vars(SetupStep(s)) /\ WF_vars(GeneratorStep(s))
        /\ SF_vars(UpstreamEnds(s) \/ UpstreamBreaks(s))

Spec == Init /\ [][Next]_vars /\ Fairness

-----------------------------------------------------------------------------
(* Properties. *)

Over(s) == pc[s] \in {"over", "abandoned"}
HoldsKey(s) ==
    /\ kind[s] = "direct"
    /\ pc[s] \notin {"idle", "checked", "booking", "handing_over", "over"}

TypeOK ==
    /\ kind \in [Streams -> Kinds] /\ key \in [Streams -> Keys]
    /\ attempt \in [Streams -> 0 .. Attempts]
    /\ up \in [Streams -> {"none", "open", "closed"}]
    /\ buffer \in [Streams -> {"empty", "half", "unended", "complete", "torn"}]
    /\ usage \in [Streams -> BOOLEAN] /\ whole \in [Streams -> BOOLEAN]
    /\ sent \in [Streams -> BOOLEAN]
    /\ pending \in [Streams -> SUBSET Messages]
    /\ active \subseteq {"named", "coarse"} /\ queue \subseteq Messages
    /\ message \in [Messages -> {"unsent", "queued", "drained", "delivered", "dropped"}]
    /\ heard \in [Messages -> SUBSET Streams]
    /\ booked \in [Streams -> 0 .. 1]

\* Whichever way a stream ends once its generator has run, its upstream
\* response is closed, and a session key is in _active_streams only while a
\* stream that holds it, or never started, is there (lines 1062 and 1630).
EndsReleased ==
    /\ TypeOK
    /\ \A s \in Streams : pc[s] = "over" => up[s] # "open"
    /\ \A k \in active : \E s \in Streams : key[s] = k /\ HoldsKey(s)

\* A queued follow-up is handed only to the client of a stream that was under
\* way when it was accepted and ran to its end, never to a later one that found
\* the same key nor to two that took it (lines 128 and 129), and a queue has a
\* key someone will release.
InItsTurn ==
    /\ \A m \in Messages, s \in Streams :
          m \in pending[s] =>
             /\ s \in heard[m] /\ whole[s]
             /\ \A t \in Streams \ {s} : m \notin pending[t]
    /\ \A m \in Messages : message[m] = "queued" => m \in queue /\ "named" \in active

\* The usage of an upstream that got to the proxy in full is in the outcome,
\* even if the client left before it was parsed or the blank line is missing
\* (line 851).  The bedrock kind has no buffer and makes no such promise.
UsageNotLost ==
    \A s \in Streams :
        pc[s] \in {"booking", "handing_over"} /\ kind[s] # "bedrock" /\ sent[s]
            => usage[s]

\* A request that has its key, or its response, comes to an end.
StreamEnds == \A s \in Streams : (pc[s] = "connecting") ~> Over(s)

=============================================================================
