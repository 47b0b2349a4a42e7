------------------------------- MODULE WsRelay -------------------------------
(***************************************************************************)
(* One WebSocket session of the Responses API: handle_openai_responses_ws  *)
(* and _ws_http_fallback of the proxy (headroom/proxy/handlers/openai.py). *)
(* The handler connects upstream, takes the first frame, rewrites and      *)
(* sends it, and then waits for two tasks, one for each direction; the     *)
(* first to end ends the session.  Without an upstream socket it posts the *)
(* first frame over HTTP and relays the events of the answer.              *)
(*                                                                         *)
(* An action runs from one await to the next.  Frames and events are their *)
(* kinds.  Tokens are counted in units: a completed response uses one, and *)
(* compressing the first frame saves one.  Whether the proxy optimizes and *)
(* whether it has a memory are choices made where they are asked for.      *)
(***************************************************************************)
EXTENDS Naturals, Sequences, FiniteSets

CONSTANTS
    Attempts,       \* retry_max_attempts, at least one
    MaxFrames,      \* bound: the frames a client sends after the first
    MaxEvents       \* bound: the events an upstream sends

ASSUME WsAssumption ==
    /\ Attempts \in Nat \ {0}
    /\ MaxFrames \in Nat
    /\ MaxEvents \in Nat

VARIABLES
    chatgpt,        \* is_chatgpt_auth
    pc,             \* where the handler is
    way,            \* how it got to its finally block
    cause,          \* termination_cause
    attempt,        \* connection attempts made, on either transport
    client,         \* the client's socket
    upstream,       \* the upstream's socket
    wire,           \* the number of frames sent on the upstream socket
    posts,          \* the requests the HTTP upstream was sent
    c2u, u2c,       \* the two relay tasks
    memoryOn,       \* memory_enabled of the upstream task
    read,           \* the number of events read from either upstream
    completedSeen,  \* response_completed_seen
    errors,         \* the sides whose relay error was captured
    cancelled,      \* ws_cancel_frames > 0
    total,          \* the session's token totals
    recorded,       \* the totals the last turn's record covered
    emitted,        \* ghost: the tokens of the outcomes emitted
    handle,         \* the session's entry in the registry, and its tasks
    gauges          \* active sessions and active relay tasks

handlerVars == <<chatgpt, pc, way, cause, attempt>>
sockets == <<client, upstream>>
tasks == <<c2u, u2c, memoryOn, completedSeen, errors, cancelled>>
traffic == <<wire, posts, read>>
books == <<total, recorded, emitted>>
register == <<handle, gauges>>
vars == <<handlerVars, sockets, tasks, traffic, books, register>>

\* A frame that is not JSON is passed on like a cancel, which only counts.
Kinds == {"create", "cancel"}
Events == {"item", "memory_tool", "completed"}
Tokens == {"used", "saved"}

Init ==
    /\ chatgpt \in BOOLEAN
    /\ pc = "arrived" /\ way = "none" /\ cause = "unknown" /\ attempt = 0
    /\ client = "waiting" /\ upstream = "none"
    /\ wire = 0 /\ posts = 0
    /\ c2u = "off" /\ u2c = [at |-> "off", agenda |-> <<>>]
    /\ memoryOn = FALSE
    /\ read = 0
    /\ completedSeen = FALSE /\ errors = {} /\ cancelled = FALSE
    /\ total = [t \in Tokens |-> 0]
    /\ recorded = [t \in Tokens |-> 0]
    /\ emitted = [t \in Tokens |-> 0]
    /\ handle = [registered |-> FALSE, tasks |-> 0]
    /\ gauges = [sessions |-> 0, tasks |-> 0]

-----------------------------------------------------------------------------
(* Up to the first frame. *)

\* A foreign origin is turned away before anything is registered.  A ChatGPT
\* session is accepted at once, any other one when the upstream is known.
Arrive ==
    /\ pc = "arrived"
    /\ pc' = IF chatgpt THEN "accept" ELSE "connect"
    /\ UNCHANGED <<chatgpt, way, cause, attempt, sockets, tasks, traffic, books, register>>

RefuseOrigin ==
    /\ pc = "arrived"
    /\ pc' = "refused"
    /\ client' = "closed"
    /\ UNCHANGED <<chatgpt, way, cause, attempt, upstream, tasks, traffic, books, register>>

\* _register_accepted_session
Register ==
    /\ handle' = [registered |-> TRUE, tasks |-> 0]
    /\ gauges' = [gauges EXCEPT !.sessions = @ + 1]

Accept ==
    /\ pc = "accept"
    /\ client = "waiting"
    /\ client' = "open"
    /\ Register
    /\ pc' = IF chatgpt THEN "connect" ELSE "first"
    /\ UNCHANGED <<chatgpt, way, cause, attempt, upstream, tasks, traffic, books>>

\* An exception anywhere in the handler: a cause already set is kept, the
\* client's socket is closed.
Raise(why) ==
    /\ cause' = IF cause = "unknown" THEN why ELSE cause
    /\ client' = IF client = "gone" THEN client ELSE "closed"
    /\ way' = "raised"
    /\ pc' = "finally"

\* The client left before it was answered.
AcceptFails ==
    /\ pc = "accept"
    /\ client = "gone"
    /\ \E why \in {"client_disconnect", "client_error"} : Raise(why)
    /\ UNCHANGED <<chatgpt, attempt, upstream, tasks, traffic, books, register>>

AfterConnecting == IF chatgpt THEN "first" ELSE "accept"

ConnectUpstream ==
    /\ pc = "connect"
    /\ upstream' = "open"
    /\ pc' = AfterConnecting
    /\ UNCHANGED <<chatgpt, way, cause, attempt, client, tasks, traffic, books, register>>

\* After the last failure the session goes on without an upstream socket.
ConnectFails ==
    /\ pc = "connect"
    /\ attempt' = (attempt + 1) % Attempts
    /\ pc' = IF attempt + 1 < Attempts THEN "connect" ELSE AfterConnecting
    /\ UNCHANGED <<chatgpt, way, cause, sockets, tasks, traffic, books, register>>

FirstFrame ==
    /\ pc = "first"
    /\ client = "open"
    /\ pc' = "memory"
    /\ UNCHANGED <<chatgpt, way, cause, attempt, sockets, tasks, traffic, books, register>>

FirstFrameTimeout ==
    /\ pc = "first"
    /\ client = "open"
    /\ cause' = "client_timeout"
    /\ client' = "closed"
    /\ way' = "timed out"
    /\ pc' = "finally"
    /\ UNCHANGED <<chatgpt, attempt, upstream, tasks, traffic, books, register>>

\* The client left first, or sent JSON the handler cannot take for a frame.
FirstFrameFails ==
    /\ pc = "first"
    /\ Raise(IF client = "gone" THEN "client_disconnect" ELSE "client_error")
    /\ UNCHANGED <<chatgpt, attempt, upstream, tasks, traffic, books, register>>

\* _prepare_memory_frame: whether something is found, nothing in time, or the
\* search fails, the frame goes on.
PrepareFirst ==
    /\ pc = "memory"
    /\ pc' = "compress"
    /\ UNCHANGED <<chatgpt, way, cause, attempt, sockets, tasks, traffic, books, register>>

\* The first frame is compressed or, whatever else the executor answers, kept.
CompressFirst ==
    /\ pc = "compress"
    /\ \/ total' = [total EXCEPT !["saved"] = @ + 1]
       \/ UNCHANGED total
    /\ pc' = IF upstream = "none" THEN "fallback" ELSE "send"
    /\ UNCHANGED <<chatgpt, way, cause, attempt, sockets, tasks, traffic, register, recorded, emitted>>

-----------------------------------------------------------------------------
(* The relay. *)

\* The first frame is sent, both tasks are started and attached.  Memory is on
\* for good if a frame with a memory user came before the upstream's task ran;
\* ChatGPT sessions have no memory tools.
StartRelay ==
    /\ pc = "send"
    /\ upstream = "open"
    /\ wire' = wire + 1
    /\ c2u' = "receiving"
    /\ u2c' = [u2c EXCEPT !.at = "reading"]
    /\ memoryOn' \in {FALSE, ~chatgpt}
    /\ handle' = [handle EXCEPT !.tasks = 2]
    /\ gauges' = [gauges EXCEPT !.tasks = @ + 2]
    /\ pc' = "relay"
    /\ UNCHANGED <<chatgpt, way, cause, attempt, sockets, posts, read, books,
                   completedSeen, errors, cancelled>>

SendFirstFails ==
    /\ pc = "send"
    /\ upstream # "open"
    /\ Raise("client_error")
    /\ UNCHANGED <<chatgpt, attempt, upstream, tasks, traffic, books, register>>

\* A relay task is at one of its awaits.
Running(t) == t \notin {"off", "done", "cancelled"}
Over(t) == t \in {"done", "cancelled"}

\* _client_to_upstream: the next frame.
ReceiveFrame ==
    /\ c2u = "receiving"
    /\ client = "open"
    /\ wire <= MaxFrames
    /\ \E k \in Kinds :
          /\ c2u' = IF k = "create" THEN "memory" ELSE "sending"
          /\ cancelled' = (cancelled \/ k = "cancel")
    /\ UNCHANGED <<handlerVars, sockets, traffic, books, register, u2c, memoryOn, completedSeen, errors>>

\* The client left or was closed: the receive ends the task.
ReceiveEnds ==
    /\ c2u = "receiving"
    /\ client # "open"
    /\ c2u' = "closing"
    /\ UNCHANGED <<handlerVars, sockets, traffic, books, register, u2c, memoryOn, completedSeen, errors, cancelled>>

PrepareFrame ==
    /\ c2u = "memory"
    /\ c2u' = "compressing"
    /\ UNCHANGED <<handlerVars, sockets, traffic, books, register, u2c, memoryOn, completedSeen, errors, cancelled>>

\* _maybe_compress_response_create_frame: what the executor returns is not used,
\* and after a timeout too the frame goes on as it came.
CompressFrame ==
    /\ c2u = "compressing"
    /\ c2u' = "sending"
    /\ UNCHANGED <<handlerVars, sockets, traffic, books, register, u2c, memoryOn, completedSeen, errors, cancelled>>

\* Any other failure of the executor leaves frame_transforms unbound, and the
\* error of reading it ends the task.
CompressFrameFails ==
    /\ c2u = "compressing"
    /\ errors' = errors \cup {"client"}
    /\ c2u' = "closing"
    /\ UNCHANGED <<handlerVars, sockets, traffic, books, register, u2c, memoryOn, completedSeen, cancelled>>

SendFrame ==
    /\ c2u = "sending"
    /\ upstream = "open"
    /\ wire' = wire + 1
    /\ c2u' = "receiving"
    /\ UNCHANGED <<handlerVars, sockets, posts, read, books, register, u2c, memoryOn, completedSeen, errors, cancelled>>

\* The upstream is gone: an error of this task, whichever side it began on.
SendFrameFails ==
    /\ c2u = "sending"
    /\ upstream # "open"
    /\ errors' = errors \cup {"client"}
    /\ c2u' = "closing"
    /\ UNCHANGED <<handlerVars, sockets, traffic, books, register, u2c, memoryOn, completedSeen, cancelled>>

\* The task closes the upstream and waits for the close to be answered.
CloseUpstream ==
    /\ c2u = "closing"
    /\ upstream' = IF upstream = "open" THEN "closed" ELSE upstream
    /\ c2u' = "closed"
    /\ UNCHANGED <<handlerVars, client, traffic, books, register, u2c, memoryOn, completedSeen, errors, cancelled>>

EndClientTask ==
    /\ c2u = "closed"
    /\ c2u' = "done"
    /\ UNCHANGED <<handlerVars, sockets, traffic, books, register, u2c, memoryOn, completedSeen, errors, cancelled>>

\* What the upstream task does with an event before it reads the next.  With
\* memory every event is buffered, flushed, recorded and taken for the end of
\* the response; only the announcement of a memory tool is dropped.
Agenda(e) ==
    IF memoryOn
    THEN IF e = "memory_tool" THEN <<"record">> ELSE <<"show", "record">>
    ELSE IF e = "completed" THEN <<"record", "show">> ELSE <<"show">>

ReadEvent ==
    /\ u2c.at = "reading"
    /\ upstream = "open"
    /\ read < MaxEvents
    /\ read' = read + 1
    /\ \E e \in Events :
          /\ u2c' = [at |-> "working", agenda |-> Agenda(e)]
          /\ total' = IF e = "completed" THEN [total EXCEPT !["used"] = @ + 1] ELSE total
          /\ completedSeen' = (completedSeen \/ (~memoryOn /\ e = "completed"))
    /\ UNCHANGED <<handlerVars, sockets, wire, posts, recorded, emitted, register, c2u, memoryOn, errors, cancelled>>

\* Mistake: a failed stream is read again.
ReadEndsCleanly ==
    /\ u2c.at = "reading"
    /\ upstream \in {"ended", "closed"}
    /\ u2c' = [u2c EXCEPT !.at = "closing"]
    /\ UNCHANGED <<handlerVars, sockets, traffic, books, register, c2u, memoryOn, completedSeen, errors, cancelled>>

\* The stream is over: its end is one of the iteration, a failure is an error.
ReadEnds ==
    /\ u2c.at = "reading"
    /\ upstream # "open"
    /\ errors' = IF upstream = "failed" THEN errors \cup {"upstream"} ELSE errors
    /\ u2c' = [u2c EXCEPT !.at = "closing"]
    /\ UNCHANGED <<handlerVars, sockets, traffic, books, register, c2u, memoryOn, completedSeen, cancelled>>

\* The rest of the agenda, or the next event.
Proceed ==
    u2c' = [at |-> IF Len(u2c.agenda) = 1 THEN "reading" ELSE "working", agenda |-> Tail(u2c.agenda)]

\* Mistake: the recorded totals are not brought up to date.
RecordForgets ==
    /\ u2c.at = "working"
    /\ Head(u2c.agenda) = "record"
    /\ emitted' = [t \in Tokens |-> emitted[t] + total[t] - recorded[t]]
    /\ completedSeen' = (completedSeen \/ memoryOn)
    /\ Proceed
    /\ UNCHANGED <<handlerVars, sockets, traffic, total, recorded, register, c2u, memoryOn, errors, cancelled>>

\* _record_ws_response_metrics: the outcome carries what has not been recorded,
\* which is recorded once it was taken.
RecordTurn ==
    /\ u2c.at = "working"
    /\ Head(u2c.agenda) = "record"
    /\ emitted' = [t \in Tokens |-> emitted[t] + total[t] - recorded[t]]
    /\ recorded' = total
    /\ completedSeen' = (completedSeen \/ memoryOn)
    /\ Proceed
    /\ UNCHANGED <<handlerVars, sockets, traffic, total, register, c2u, memoryOn, errors, cancelled>>

\* An event is sent; one sent to a client that left may be lost without a word.
ShowEvent ==
    /\ u2c.at = "working"
    /\ Head(u2c.agenda) = "show"
    /\ client # "closed"
    /\ Proceed
    /\ UNCHANGED <<handlerVars, sockets, traffic, books, register, c2u, memoryOn, completedSeen, errors, cancelled>>

\* Or the send fails, with a disconnect or with another error.
ShowFails ==
    /\ u2c.at = "working"
    /\ Head(u2c.agenda) = "show"
    /\ client # "open"
    /\ errors' \in {errors, errors \cup {"upstream"}}
    /\ u2c' = [u2c EXCEPT !.at = "closing"]
    /\ UNCHANGED <<handlerVars, sockets, traffic, books, register, c2u, memoryOn, completedSeen, cancelled>>

\* The finally block: the client is closed, on a cancellation too.
CloseClient ==
    /\ u2c.at \in {"closing", "cancelling"}
    /\ client' = IF client = "open" THEN "closed" ELSE client
    /\ u2c' = [u2c EXCEPT !.at = IF u2c.at = "closing" THEN "done" ELSE "cancelled"]
    /\ UNCHANGED <<handlerVars, upstream, traffic, books, register, c2u, memoryOn, completedSeen, errors, cancelled>>

-----------------------------------------------------------------------------
(* The end of the relay. *)

\* What the tasks that run do when they are cancelled.
CancelTasks ==
    /\ c2u' = IF Running(c2u) THEN "cancelled" ELSE c2u
    /\ u2c' = IF ~Running(u2c.at) THEN u2c
              ELSE [u2c EXCEPT !.at = IF u2c.at = "closing" THEN "cancelled" ELSE "cancelling"]

\* The first task to end wakes the handler, which cancels the other one.
WakeUp ==
    /\ pc = "relay"
    /\ Over(c2u) \/ Over(u2c.at)
    /\ CancelTasks
    /\ pc' = "settle"
    /\ UNCHANGED <<chatgpt, way, cause, attempt, sockets, traffic, books, register,
                   memoryOn, completedSeen, errors, cancelled>>

\* The cause each task that ended by itself speaks for.
ClientVerdict == IF "client" \in errors THEN "client_error" ELSE "client_disconnect"
UpstreamVerdict ==
    IF "upstream" \in errors THEN "upstream_error"
    ELSE IF completedSeen THEN "response_completed" ELSE "upstream_disconnect"

Verdicts ==
    {v \in {ClientVerdict} : c2u = "done"} \cup {v \in {UpstreamVerdict} : u2c.at = "done"}

\* Where both ended, the one a set of two tasks yields last decides.
Settle ==
    /\ pc = "settle"
    /\ Over(c2u) /\ Over(u2c.at)
    /\ \E v \in Verdicts :
          cause' = IF cancelled /\ ~completedSeen /\ v \in {"upstream_disconnect", "client_disconnect"}
                   THEN "client_cancel" ELSE v
    /\ upstream' = IF upstream = "open" THEN "closed" ELSE upstream
    /\ pc' = "residual"
    /\ UNCHANGED <<chatgpt, way, attempt, client, tasks, traffic, books, register>>

\* What no turn recorded is emitted at the end.
RecordResidual ==
    /\ pc = "residual"
    /\ emitted' = [t \in Tokens |-> emitted[t] + total[t] - recorded[t]]
    /\ way' = "returned"
    /\ pc' = "finally"
    /\ UNCHANGED <<chatgpt, cause, attempt, sockets, tasks, traffic, total, recorded, register>>

-----------------------------------------------------------------------------
(* _ws_http_fallback *)

\* Only a failure to connect is tried again.
FallbackConnectFails ==
    /\ pc = "fallback"
    /\ attempt' = (attempt + 1) % Attempts
    /\ pc' = IF attempt + 1 < Attempts THEN "fallback" ELSE "fallback error"
    /\ UNCHANGED <<chatgpt, way, cause, sockets, tasks, traffic, books, register>>

FallbackPost ==
    /\ pc = "fallback"
    /\ posts' = posts + 1
    /\ pc' \in {"fallback stream", "fallback refused"}
    /\ UNCHANGED <<chatgpt, way, cause, attempt, sockets, tasks, wire, read, books, register>>

\* A status other than 200 is told the client; its body has been read for the
\* log by then, and reading on is an error that is told as well.
FallbackRefused ==
    /\ pc = "fallback refused"
    /\ pc' = "fallback error"
    /\ UNCHANGED <<chatgpt, way, cause, attempt, sockets, tasks, traffic, books, register>>

FallbackEvent ==
    /\ pc = "fallback stream"
    /\ read < MaxEvents
    /\ read' = read + 1
    /\ UNCHANGED <<handlerVars, sockets, tasks, wire, posts, books, register>>

\* The stream ends or a send fails, or the failure was told: the client is
\* closed.
FallbackEnds ==
    /\ pc \in {"fallback stream", "fallback error"}
    /\ client' = IF client = "open" THEN "closed" ELSE client
    /\ pc' = "residual"
    /\ UNCHANGED <<chatgpt, way, cause, attempt, upstream, tasks, traffic, books, register>>

\* Mistake: any failure of the call is tried again.
RetryAnything ==
    /\ \/ pc = "fallback" /\ posts' \in {posts, posts + 1}
       \/ pc = "fallback stream" /\ UNCHANGED posts
    /\ pc' = "fallback"
    /\ UNCHANGED <<chatgpt, way, cause, attempt, sockets, tasks, wire, read, books, register>>

\* Any other failure is not: the request may have been taken.
FallbackBreaks ==
    /\ \/ pc = "fallback" /\ posts' \in {posts, posts + 1}
       \/ pc = "fallback stream" /\ UNCHANGED posts
    /\ pc' = "fallback error"
    /\ UNCHANGED <<chatgpt, way, cause, attempt, sockets, tasks, wire, read, books, register>>

-----------------------------------------------------------------------------
(* The end of the handler. *)

\* The server stops: the handler is cancelled at an await, and with it its tasks.
CancelHandler ==
    /\ pc \in {"accept", "connect", "first", "memory", "compress", "send", "residual",
               "fallback", "fallback stream", "fallback refused", "fallback error"}
    /\ client' = IF pc \in {"fallback", "fallback stream", "fallback refused", "fallback error"}
                    /\ client = "open"
                 THEN "closed" ELSE client
    /\ way' = "stopped"
    /\ pc' = "finally"
    /\ UNCHANGED <<chatgpt, cause, attempt, upstream, tasks, traffic, books, register>>

CancelRelay ==
    /\ pc = "relay"
    /\ CancelTasks
    /\ way' = "stopped"
    /\ pc' = "stopping"
    /\ UNCHANGED <<chatgpt, cause, attempt, sockets, traffic, books, register,
                   memoryOn, completedSeen, errors, cancelled>>

\* Mistake: the cancelled tasks are not waited for.
RelayAbandoned ==
    /\ pc = "stopping"
    /\ upstream' = IF upstream = "open" THEN "closed" ELSE upstream
    /\ pc' = "finally"
    /\ UNCHANGED <<chatgpt, way, cause, attempt, client, tasks, traffic, books, register>>

\* The tasks are waited for, then the upstream is closed.
RelayStopped ==
    /\ pc = "stopping"
    /\ Over(c2u) /\ Over(u2c.at)
    /\ upstream' = IF upstream = "open" THEN "closed" ELSE upstream
    /\ pc' = "finally"
    /\ UNCHANGED <<chatgpt, way, cause, attempt, client, tasks, traffic, books, register>>

\* The finally block: the upstream's socket, the registry and the gauges.
Finally ==
    /\ pc = "finally"
    /\ upstream' = IF upstream = "open" THEN "closed" ELSE upstream
    /\ handle' = [registered |-> FALSE, tasks |-> 0]
    /\ gauges' = IF handle.registered
                  THEN [sessions |-> gauges.sessions - 1, tasks |-> gauges.tasks - handle.tasks]
                  ELSE gauges
    /\ pc' = "closed"
    /\ UNCHANGED <<chatgpt, way, cause, attempt, client, tasks, traffic, books>>

-----------------------------------------------------------------------------
(* The two ends. *)

ClientLeaves ==
    /\ client \in {"waiting", "open"}
    /\ pc \notin {"refused", "closed"}
    /\ client' = "gone"
    /\ UNCHANGED <<handlerVars, upstream, tasks, traffic, books, register>>

UpstreamLeaves ==
    /\ upstream = "open"
    /\ upstream' \in {"ended", "failed"}
    /\ UNCHANGED <<handlerVars, client, tasks, traffic, books, register>>

ClientTask ==
    \/ ReceiveFrame \/ ReceiveEnds \/ PrepareFrame \/ CompressFrame \/ CompressFrameFails
    \/ SendFrame \/ SendFrameFails \/ CloseUpstream \/ EndClientTask
UpstreamTask ==
    \/ ReadEvent \/ ReadEnds \/ RecordTurn \/ ShowEvent \/ ShowFails \/ CloseClient
Handler ==
    \/ Arrive \/ RefuseOrigin \/ Accept \/ AcceptFails \/ ConnectUpstream \/ ConnectFails
    \/ FirstFrame \/ FirstFrameTimeout \/ FirstFrameFails \/ PrepareFirst \/ CompressFirst
    \/ StartRelay \/ SendFirstFails \/ WakeUp \/ Settle \/ RecordResidual
    \/ FallbackConnectFails \/ FallbackPost \/ FallbackRefused \/ FallbackEvent
    \/ FallbackEnds \/ FallbackBreaks \/ RelayStopped \/ Finally
Environment == CancelHandler \/ CancelRelay \/ ClientLeaves \/ UpstreamLeaves

Next == ClientTask \/ UpstreamTask \/ Handler \/ Environment

\* Every await of the handler and of its tasks returns: a wait for the first
\* frame, for memory and for the executor by its timeout, a read or a send when
\* the other side answers or leaves.  Nobody has to leave, nor the server to stop.
Spec ==
    /\ Init /\ [][Next]_vars
    /\ WF_vars(Handler) /\ WF_vars(ClientTask) /\ WF_vars(UpstreamTask)

-----------------------------------------------------------------------------
(* Properties *)

Ats == {"off", "receiving", "memory", "compressing", "sending", "closing", "closed",
        "reading", "working", "cancelling", "done", "cancelled"}

TypeOK ==
    /\ chatgpt \in BOOLEAN
    /\ way \in {"none", "returned", "raised", "timed out", "stopped"}
    /\ cause \in {"unknown", "client_timeout", "client_disconnect", "client_error", "client_cancel",
                  "upstream_error", "upstream_disconnect", "response_completed"}
    /\ attempt \in 0..(Attempts - 1)
    /\ client \in {"waiting", "open", "gone", "closed"}
    /\ upstream \in {"none", "open", "ended", "failed", "closed"}
    /\ wire \in Nat /\ posts \in Nat /\ read \in Nat
    /\ c2u \in Ats
    /\ u2c \in [at : Ats, agenda : Seq({"record", "show"})]
    /\ memoryOn \in BOOLEAN
    /\ completedSeen \in BOOLEAN /\ cancelled \in BOOLEAN
    /\ errors \subseteq {"client", "upstream"}
    /\ {total, recorded, emitted} \subseteq [Tokens -> Nat]
    /\ handle \in [registered : BOOLEAN, tasks : {0, 2}]
    /\ gauges \in [sessions : 0..1, tasks : 0..2]

\* A relay task that may still run is counted, and however a session ends,
\* nothing of it is left: no task, no upstream socket, no entry, no count.
NothingLeftBehind ==
    /\ TypeOK
    /\ Running(c2u) \/ Running(u2c.at) => handle.tasks = 2 /\ gauges.tasks = 2
    /\ pc \in {"closed", "refused"} =>
          /\ ~Running(c2u) /\ ~Running(u2c.at)
          /\ upstream # "open"
          /\ ~handle.registered /\ gauges = [sessions |-> 0, tasks |-> 0]

\* The first frame reaches an upstream at most once, over either transport and
\* however often connecting is tried.
FirstFrameOnce ==
    /\ posts <= 1
    /\ wire > 0 => posts = 0

\* No token is emitted twice, and a session that ends by itself has emitted
\* every token: a turn whose record was cancelled is left to the last one.
TokensEmittedOnce ==
    /\ \A t \in Tokens : emitted[t] <= total[t]
    /\ way = "returned" => emitted = total

\* Once either end has left, the session is closed.
SessionEnds ==
    client = "gone" \/ upstream \in {"ended", "failed"} ~> pc \in {"closed", "refused"}

==============================================================================
